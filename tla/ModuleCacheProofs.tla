------------------------- MODULE ModuleCacheProofs -------------------------
(***************************************************************************)
(* Proofs about module ModuleCache, for any files, libraries and names,    *)
(* any number of edits and imports, and whatever the modules do while they *)
(* are evaluated: type correctness; that a change of a file is either      *)
(* noticed or still to be noticed; that only the answer of an import       *)
(* evaluates a module within its own evaluation; that the exports of any   *)
(* other module are those of its last evaluation.                          *)
(***************************************************************************)
EXTENDS ModuleCache, SequenceTheorems, TLAPS

(***************************************************************************)
(* The invariants.                                                         *)
(***************************************************************************)
(* What a module recorded of its file is not younger than the file, and    *)
(* unless a reload is due it is what was evaluated.  A reload that is due  *)
(* while the file is empty was noticed when the file was empty already.    *)
TracksFile(f) ==
  LET m == modules[f] IN
  /\ m.time <= disk[f].time
  /\ Reloadable(m) /\ ~m.reload => m.hash \in {m.ran, Blank}
  /\ m.reload /\ disk[f].text = Blank => m.hash = Blank
  /\ Reloadable(m) /\ ~m.reload /\ m.time = TimeOf(f)
       => disk[f].text \in {m.ran, Blank}

FilesTracked == \A f \in Files \cap DOMAIN modules : TracksFile(f)

(* No reload is due of a module that is being evaluated, so that nothing but *)
(* an answer evaluates it again, and unless one did its frame holds what the *)
(* module ran last.                                                          *)
FrameRuns(fr) ==
  /\ Cached(fr.key)
  /\ ~modules[fr.key].nested => modules[fr.key].ran = fr.src
  /\ ~modules[fr.key].reload

FramesCached == \A i \in 1..Len(stack) : Cached(stack[i].key)

FramesRun == \A i \in 1..Len(stack) : FrameRuns(stack[i])

(***************************************************************************)
(* Tables and stacks.                                                      *)
(***************************************************************************)
LEMMA WithFacts ==
  ASSUME NEW k, NEW m
  PROVE  /\ DOMAIN With(k, m) = DOMAIN modules \cup {k}
         /\ With(k, m)[k] = m
         /\ \A x \in DOMAIN modules \ {k} : With(k, m)[x] = modules[x]
  BY DEF With

LEMMA WithTyped ==
  ASSUME ModuleTypeOK, NEW k \in Keys, NEW m \in Module,
         modules' = With(k, m)
  PROVE  DOMAIN modules' \subseteq Keys
         /\ \A x \in DOMAIN modules' : modules'[x] \in Module
<1>1. DOMAIN modules' = DOMAIN modules \cup {k} /\ modules'[k] = m
  BY WithFacts
<1>2. \A x \in DOMAIN modules \ {k} : modules'[x] = modules[x]
  BY DEF With
<1> QED BY <1>1, <1>2 DEF ModuleTypeOK

LEMMA PushedStack ==
  ASSUME stack \in Seq(Frame), NEW fr
  PROVE  /\ fr \in Frame => <<fr>> \o stack \in Seq(Frame)
         /\ Len(stack) \in Nat /\ Len(<<fr>> \o stack) = Len(stack) + 1
         /\ (<<fr>> \o stack)[1] = fr
         /\ \A i \in 1..Len(stack) : (<<fr>> \o stack)[i + 1] = stack[i]
<1>1. stack \in Seq(Frame \cup {fr})
  BY SeqMonotonic
<1>2. <<fr>> \in Seq(Frame \cup {fr}) /\ Len(<<fr>>) = 1 /\ <<fr>>[1] = fr
  OBVIOUS
<1>3. Len(stack) \in Nat
  BY LenProperties
<1>4. CASE fr \in Frame
  <2>1. Frame \cup {fr} = Frame
    BY <1>4
  <2> QED BY <1>1, <1>2, <1>3, <2>1, ConcatProperties
<1>5. CASE fr \notin Frame
  BY <1>1, <1>2, <1>3, <1>5, ConcatProperties
<1> QED BY <1>4, <1>5

LEMMA PushedFrames ==
  ASSUME stack \in Seq(Frame), NEW fr, stack' = <<fr>> \o stack
  PROVE  \A i \in 1..Len(stack') :
           \/ i = 1 /\ stack'[i] = fr
           \/ i - 1 \in 1..Len(stack) /\ stack'[i] = stack[i - 1]
<1>1. Len(stack) \in Nat /\ Len(stack') = Len(stack) + 1 /\ stack'[1] = fr
  BY PushedStack
<1>2. \A i \in 1..Len(stack) : stack'[i + 1] = stack[i]
  BY PushedStack
<1>3. ASSUME NEW i \in 2..Len(stack) + 1 PROVE stack'[i] = stack[i - 1]
  <2>1. i - 1 \in 1..Len(stack) /\ i = (i - 1) + 1
    BY <1>1
  <2> QED BY <1>2, <2>1
<1> QED BY <1>1, <1>3

LEMMA PoppedStack ==
  ASSUME stack \in Seq(Frame), stack # <<>>
  PROVE  /\ Head(stack) \in Frame /\ Head(stack) = stack[1]
         /\ Tail(stack) \in Seq(Frame)
         /\ Len(stack) \in Nat \ {0} /\ Len(Tail(stack)) = Len(stack) - 1
         /\ \A i \in 1..Len(Tail(stack)) : Tail(stack)[i] = stack[i + 1]
<1>1. Len(stack) \in Nat \ {0}
  BY LenProperties, EmptySeq
<1>2. stack[1] \in Frame
  BY <1>1, ElementOfSeq
<1> QED BY <1>1, <1>2, HeadTailProperties

LEMMA PoppedFrames ==
  ASSUME stack \in Seq(Frame), stack # <<>>, stack' = Tail(stack)
  PROVE  /\ 1 \in 1..Len(stack)
         /\ \A i \in 1..Len(stack') :
              i + 1 \in 1..Len(stack) /\ stack'[i] = stack[i + 1]
<1>1. Len(stack) \in Nat \ {0} /\ Len(stack') = Len(stack) - 1
  BY PoppedStack
<1>2. \A i \in 1..Len(stack') : stack'[i] = stack[i + 1]
  BY PoppedStack
<1> QED BY <1>1, <1>2

(* What a module notices of its file: nothing but the time, the hash and   *)
(* the mark.                                                               *)
LEMMA NoticedTyped ==
  ASSUME ModuleTypeOK, NEW f \in Files, Cached(f)
  PROVE  /\ Noticed(f) \in Module
         /\ Noticed(f).ran = modules[f].ran
         /\ Noticed(f).exports = modules[f].exports
         /\ Noticed(f).failed = modules[f].failed
         /\ Noticed(f).nested = modules[f].nested
         /\ Noticed(f).path = modules[f].path
<1>1. modules[f] \in Module /\ disk[f].time \in 0..MaxEdits + 1
      /\ disk[f].text \in Sources \cup {None}
  BY DEF ModuleTypeOK, Cached
<1>2. TimeOf(f) \in 0..MaxEdits + 1
  BY <1>1, ModuleCacheAssumption DEF TimeOf
<1> QED BY ZenonT(60), <1>1, <1>2 DEF Noticed, Module

(***************************************************************************)
(* Type correctness.                                                       *)
(***************************************************************************)
LEMMA FreshTyped == Fresh \in Module
  BY ModuleCacheAssumption DEF Fresh, Module

(* What is evaluated next.                                                 *)
LEMMA PushTyped ==
  ASSUME ModuleTypeOK, NEW k \in Keys, NEW m \in Module, NEW fr \in Frame,
         Push(k, m, fr)
  PROVE  /\ DOMAIN modules' \subseteq Keys
         /\ \A x \in DOMAIN modules' : modules'[x] \in Module
         /\ stack' \in Seq(Frame)
<1>1. modules' = With(k, m) /\ stack' = <<fr>> \o stack
  BY DEF Push
<1>2. stack' \in Seq(Frame)
  BY <1>1, PushedStack DEF ModuleTypeOK
<1> QED BY <1>1, <1>2, WithTyped

LEMMA ReadTyped ==
  ASSUME ModuleTypeOK, NEW f \in Files, NEW m \in Module,
         NEW kind \in {"new", "again"}, disk[f].text # None, Read(f, m, kind)
  PROVE  /\ DOMAIN modules' \subseteq Keys
         /\ \A x \in DOMAIN modules' : modules'[x] \in Module
         /\ stack' \in Seq(Frame)
<1>0. f \in Keys /\ disk[f].text \in Sources /\ disk[f].time \in 0..MaxEdits + 1
  BY DEF Keys, ModuleTypeOK
<1>1. CASE disk[f].text = Blank
  <2>1. modules' = With(f, m) /\ stack' = stack
    BY <1>1 DEF Read
  <2> QED BY <1>0, <2>1, WithTyped DEF ModuleTypeOK
<1>2. CASE disk[f].text # Blank
  <2> DEFINE s == disk[f].text
             n == [m EXCEPT !.time = disk[f].time, !.hash = s, !.ran = s,
                            !.failed = FALSE, !.nested = FALSE]
             fr == [key |-> f, src |-> s, kind |-> kind]
  <2>1. s \in Texts
    BY <1>0, <1>2 DEF Sources
  <2>2. n \in Module
    BY <1>0, <2>1 DEF Module
  <2>3. fr \in Frame
    BY <1>0, <2>1 DEF Frame
  <2>4. Push(f, n, fr)
    BY <1>2 DEF Read
  <2> HIDE DEF n, fr
  <2> QED BY <1>0, <2>2, <2>3, <2>4, PushTyped
<1> QED BY <1>1, <1>2

LEMMA AnsweredTyped ==
  ASSUME ModuleTypeOK, NEW fr \in Frame, NEW state \in {"resolved", "rejected"},
         imports' = Answered(fr, state)
  PROVE  imports' \in Seq(Import) /\ Len(imports') <= MaxImports
<1>1. imports \in Seq(Import) /\ Len(imports) <= MaxImports
  BY DEF ModuleTypeOK
<1>2. CASE fr.kind # "answer"
  BY <1>1, <1>2 DEF Answered
<1>3. CASE fr.kind = "answer"
  <2>1. imports' = [imports EXCEPT ![fr.token].state = state]
    BY <1>3 DEF Answered
  <2>2. CASE fr.token \in 1..Len(imports)
    <3>1. imports[fr.token] \in Import
      BY <1>1, <2>2, ElementOfSeq
    <3>2. [imports[fr.token] EXCEPT !.state = state] \in Import
      BY <3>1 DEF Import
    <3> QED BY <1>1, <2>1, <2>2, <3>2, ExceptSeq
  <2>3. CASE fr.token \notin 1..Len(imports)
    BY <1>1, <2>1, <2>3, LenProperties
  <2> QED BY <2>2, <2>3
<1> QED BY <1>2, <1>3

(* The cache only grows, and what is evaluated is in it. *)
LEMMA CachedStep ==
  ASSUME ModuleTypeOK, FramesCached, DOMAIN modules \subseteq DOMAIN modules',
         \/ stack' = stack
         \/ stack # <<>> /\ stack' = Tail(stack)
         \/ \E fr : stack' = <<fr>> \o stack /\ Cached(fr.key)'
  PROVE  FramesCached'
<1>1. stack \in Seq(Frame) /\ Len(stack) \in Nat
  BY LenProperties DEF ModuleTypeOK
<1>2. \A k : Cached(k) => Cached(k)'
  BY DEF Cached
<1>3. CASE stack' = stack
  BY <1>2, <1>3 DEF FramesCached
<1>4. CASE stack # <<>> /\ stack' = Tail(stack)
  <2>1. \A i \in 1..Len(stack') :
          i + 1 \in 1..Len(stack) /\ stack'[i] = stack[i + 1]
    BY <1>1, <1>4, PoppedFrames
  <2> QED BY <1>2, <2>1 DEF FramesCached
<1>5. ASSUME NEW fr, stack' = <<fr>> \o stack, Cached(fr.key)'
      PROVE  FramesCached'
  <2>1. \A i \in 1..Len(stack') :
          stack'[i] = fr \/ (i - 1 \in 1..Len(stack) /\ stack'[i] = stack[i - 1])
    BY <1>1, <1>5, PushedFrames
  <2> QED BY <1>2, <1>5, <2>1 DEF FramesCached
<1> QED BY <1>3, <1>4, <1>5

(* Every step keeps the types. *)
LEMMA TypeStep ==
  ASSUME ModuleTypeOK, FramesCached, [Next]_vars
  PROVE  ModuleTypeOK'
<1>1. ASSUME NEW f \in Files, NEW s \in Sources \cup {None}, Edit(f, s)
      PROVE  ModuleTypeOK'
  <2>1. PICK now \in 1..MaxEdits + 1 :
          disk' = [disk EXCEPT ![f] = [text |-> s, time |-> now]]
    BY <1>1 DEF Edit
  <2>2. UNCHANGED <<modules, stack, todo, imports>>
    BY <1>1 DEF Edit
  <2>3. [text |-> s, time |-> now]
          \in [text : Sources \cup {None}, time : 0..MaxEdits + 1]
    BY ModuleCacheAssumption
  <2> QED BY <2>1, <2>2, <2>3 DEF ModuleTypeOK
<1>2. ASSUME NEW f \in Files, Mark(f) PROVE ModuleTypeOK'
  <2>1. Cached(f) /\ modules' = With(f, Noticed(f))
    BY <1>2 DEF Mark
  <2>2. UNCHANGED <<disk, stack, todo, imports>>
    BY <1>2 DEF Mark
  <2> QED BY <2>1, <2>2, NoticedTyped, WithTyped DEF ModuleTypeOK, Keys
<1>3. CASE Scan
  <2>1. DOMAIN modules' = DOMAIN modules
    BY <1>3 DEF Scan
  <2>2. \A k \in DOMAIN modules :
          modules'[k] = modules[k]
          \/ (k \in Files /\ Cached(k) /\ modules'[k] = Noticed(k))
    BY <1>3 DEF Scan, Cached
  <2>3. UNCHANGED <<disk, stack, imports>> /\ todo' \subseteq Files
    BY <1>3 DEF Scan
  <2> QED BY <2>1, <2>2, <2>3, NoticedTyped DEF ModuleTypeOK
<1>4. ASSUME NEW f \in Files, LoadAgain(f),
             UNCHANGED <<disk, imports>>, todo' \subseteq todo
      PROVE  ModuleTypeOK'
  <2> DEFINE m == [modules[f] EXCEPT !.reload = FALSE]
  <2>1. disk[f].text # None /\ Cached(f) /\ Read(f, m, "again")
    BY <1>4 DEF LoadAgain
  <2>2. m \in Module
    BY <2>1 DEF ModuleTypeOK, Cached, Module
  <2> HIDE DEF m
  <2> QED BY <1>4, <2>1, <2>2, ReadTyped DEF ModuleTypeOK
<1>5. ASSUME NEW f \in Files, ScanNext(f) PROVE ModuleTypeOK'
  <2>1. todo' = todo \ {f} /\ UNCHANGED <<disk, imports>>
    BY <1>5 DEF ScanNext
  <2>2. CASE LoadAgain(f)
    BY <1>4, <2>1, <2>2
  <2>3. CASE UNCHANGED <<modules, stack>>
    BY <2>1, <2>3 DEF ModuleTypeOK
  <2> QED BY <1>5, <2>2, <2>3 DEF ScanNext
<1>6. ASSUME NEW id \in Keys, Require(id) PROVE ModuleTypeOK'
  <2>1. UNCHANGED <<disk, todo, imports>>
    BY <1>6 DEF Require
  <2>2. CASE LoadLibrary(id)
    <3> DEFINE s == CHOOSE t \in Texts : TRUE
               m == [Fresh EXCEPT !.ran = s]
               fr == [key |-> id, src |-> s, kind |-> "library"]
    <3>1. s \in Texts
      BY ModuleCacheAssumption
    <3>2. m \in Module /\ fr \in Frame
      BY <3>1, FreshTyped DEF Module, Frame
    <3>3. Push(id, m, fr)
      BY <2>2 DEF LoadLibrary
    <3> HIDE DEF m, fr
    <3> QED BY <2>1, <3>2, <3>3, PushTyped DEF ModuleTypeOK
  <2>3. ASSUME id \notin Libs PROVE Target(id) \in Files
    BY <2>3, ModuleCacheAssumption DEF Target, Keys
  <2>4. CASE id \notin Libs /\ LoadNew(Target(id))
    <3> DEFINE m == [Fresh EXCEPT !.path = TRUE]
    <3>1. m \in Module
      BY FreshTyped DEF Module
    <3>2. disk[Target(id)].text # None /\ Read(Target(id), m, "new")
      BY <2>4 DEF LoadNew
    <3> HIDE DEF m
    <3> QED BY <2>1, <2>3, <2>4, <3>1, <3>2, ReadTyped DEF ModuleTypeOK
  <2>5. CASE id \notin Libs /\ LoadAgain(Target(id))
    BY <1>4, <2>1, <2>3, <2>5
  <2> QED BY <1>6, <2>2, <2>4, <2>5 DEF Require
<1>7. CASE Finish
  <2> DEFINE fr == Head(stack)
             m == modules[fr.key]
             told == fr.kind # "again"
             n == [m EXCEPT !.exports = fr.src, !.loaded = @ \/ told,
                            !.script = @ \/ (fr.kind \in {"new", "again"}
                                             /\ fr.key \in Scripts)]
  <2>1. stack # <<>> /\ modules' = With(fr.key, n) /\ stack' = Tail(stack)
        /\ imports' = Answered(fr, "resolved")
        /\ UNCHANGED <<disk, todo>>
    BY <1>7 DEF Finish
  <2>2. fr \in Frame /\ stack' \in Seq(Frame)
    BY <2>1, PoppedStack DEF ModuleTypeOK
  <2>3. m \in Module /\ fr.key \in Keys /\ fr.src \in Texts
    <3>1. Cached(fr.key)
      <4>1. stack \in Seq(Frame)
        BY DEF ModuleTypeOK
      <4>2. 1 \in 1..Len(stack) /\ fr = stack[1]
        BY <2>1, <4>1, PoppedStack
      <4> QED BY <4>2 DEF FramesCached
    <3>2. fr.key \in Keys /\ fr.src \in Texts
      BY <2>2 DEF Frame
    <3> QED BY <3>1, <3>2 DEF ModuleTypeOK, Cached
  <2>4. n \in Module
    BY <2>3 DEF Module
  <2> HIDE DEF n, fr
  <2> QED BY <2>1, <2>2, <2>3, <2>4, WithTyped, AnsweredTyped
          DEF ModuleTypeOK
<1>8. CASE Throw
  <2> DEFINE fr == Head(stack)
             m == modules[fr.key]
             n == [m EXCEPT !.failed = TRUE]
  <2>1. stack # <<>> /\ modules' = With(fr.key, n) /\ stack' = Tail(stack)
        /\ imports' = Answered(fr, "rejected")
        /\ UNCHANGED <<disk, todo>>
    BY <1>8 DEF Throw
  <2>2. fr \in Frame /\ stack' \in Seq(Frame)
    BY <2>1, PoppedStack DEF ModuleTypeOK
  <2>3. m \in Module /\ fr.key \in Keys
    <3>1. Cached(fr.key)
      <4>1. stack \in Seq(Frame)
        BY DEF ModuleTypeOK
      <4>2. 1 \in 1..Len(stack) /\ fr = stack[1]
        BY <2>1, <4>1, PoppedStack
      <4> QED BY <4>2 DEF FramesCached
    <3> QED BY <2>2, <3>1 DEF ModuleTypeOK, Cached, Frame
  <2>4. n \in Module
    BY <2>3 DEF Module
  <2> HIDE DEF n, fr
  <2> QED BY <2>1, <2>2, <2>3, <2>4, WithTyped, AnsweredTyped DEF ModuleTypeOK
<1>10. ASSUME NEW id \in Keys, ImportModule(id) PROVE ModuleTypeOK'
  <2>1. [key |-> id, state |-> "pending"] \in Import
    BY DEF Import
  <2>2. imports' \in Seq(Import) /\ Len(imports') <= MaxImports
    BY <1>10, <2>1, ModuleCacheAssumption, AppendProperties
       DEF ImportModule, ModuleTypeOK
  <2> QED BY <1>10, <2>2 DEF ImportModule, ModuleTypeOK
<1>11. ASSUME NEW t \in 1..MaxImports, NEW state, Pending(t),
              state \in {"running", "rejected"},
              imports' = [imports EXCEPT ![t].state = state]
       PROVE  imports' \in Seq(Import) /\ Len(imports') <= MaxImports
  <2>1. imports \in Seq(Import) /\ Len(imports) <= MaxImports
    BY DEF ModuleTypeOK
  <2>2. t \in 1..Len(imports) /\ imports[t] \in Import
    BY <1>11, <2>1, LenProperties, ElementOfSeq DEF Pending
  <2>3. [imports[t] EXCEPT !.state = state] \in Import
    BY <1>11, <2>2 DEF Import
  <2> QED BY <1>11, <2>1, <2>2, <2>3, ExceptSeq
<1>12. ASSUME NEW t \in 1..MaxImports, NEW s \in Texts, Resolve(t, s)
       PROVE  ModuleTypeOK'
  <2> DEFINE k == imports[t].key
             m == IF Cached(k) THEN modules[k] ELSE Fresh
             n == [m EXCEPT !.reload = FALSE, !.time = 0, !.hash = None,
                            !.ran = s, !.failed = FALSE,
                            !.nested = Evaluating(k)]
             fr == [key |-> k, src |-> s, kind |-> "answer", token |-> t]
  <2>1. Pending(t) /\ Push(k, n, fr)
        /\ imports' = [imports EXCEPT ![t].state = "running"]
        /\ UNCHANGED <<disk, todo>>
    BY <1>12 DEF Resolve
  <2>2. k \in Keys
    <3>1. imports[t] \in Import
      BY <2>1, LenProperties, ElementOfSeq DEF ModuleTypeOK, Pending
    <3> QED BY <3>1 DEF Import
  <2>3. m \in Module
    <3>1. Cached(k) => modules[k] \in Module
      BY DEF ModuleTypeOK, Cached
    <3> QED BY <3>1, FreshTyped
  <2> HIDE DEF m
  <2>4. n \in Module
    <3>1. 0 \in 0..MaxEdits + 1
      BY ModuleCacheAssumption
    <3>2. Evaluating(k) \in BOOLEAN
      BY DEF Evaluating
    <3> QED BY <2>3, <3>1, <3>2 DEF Module
  <2>5. fr \in Frame
    BY <2>2 DEF Frame
  <2> HIDE DEF n, fr, k
  <2>6. imports' \in Seq(Import) /\ Len(imports') <= MaxImports
    BY <1>11, <2>1
  <2> QED BY <2>1, <2>2, <2>4, <2>5, <2>6, PushTyped DEF ModuleTypeOK
<1>13. ASSUME NEW t \in 1..MaxImports, Reject(t) PROVE ModuleTypeOK'
  BY <1>11, <1>13 DEF Reject, ModuleTypeOK
<1>14. CASE UNCHANGED vars
  BY <1>14 DEF vars, ModuleTypeOK
<1> QED BY <1>1, <1>2, <1>3, <1>5, <1>6, <1>7, <1>8, <1>10, <1>12, <1>13, <1>14
        DEF Next

(* Every step keeps what is evaluated in the cache. *)
LEMMA FramesCachedStep ==
  ASSUME ModuleTypeOK, FramesCached, [Next]_vars
  PROVE  FramesCached'
<1>1. ASSUME NEW k, NEW m, NEW fr, Push(k, m, fr), fr.key = k
      PROVE  FramesCached'
  <2>1. modules' = With(k, m) /\ stack' = <<fr>> \o stack
    BY <1>1 DEF Push
  <2>2. DOMAIN modules' = DOMAIN modules \cup {k}
    BY <2>1, WithFacts
  <2> QED BY <1>1, <2>1, <2>2, CachedStep DEF Cached
<1>2. ASSUME NEW f, NEW m, NEW kind, Read(f, m, kind) PROVE FramesCached'
  <2>1. CASE disk[f].text = Blank
    <3>1. modules' = With(f, m) /\ stack' = stack
      BY <1>2, <2>1 DEF Read
    <3>2. DOMAIN modules' = DOMAIN modules \cup {f}
      BY <3>1, WithFacts
    <3> QED BY <3>1, <3>2, CachedStep
  <2>2. CASE disk[f].text # Blank
    BY <1>1, <1>2, <2>2 DEF Read
  <2> QED BY <2>1, <2>2
<1>3. ASSUME UNCHANGED <<modules, stack>> PROVE FramesCached'
  BY <1>3, CachedStep
<1>4. ASSUME NEW f, Mark(f) PROVE FramesCached'
  <2>1. modules' = With(f, Noticed(f)) /\ stack' = stack
    BY <1>4 DEF Mark
  <2>2. DOMAIN modules' = DOMAIN modules \cup {f}
    BY <2>1, WithFacts
  <2> QED BY <2>1, <2>2, CachedStep
<1>5. CASE Scan
  <2>1. DOMAIN modules' = DOMAIN modules /\ stack' = stack
    BY <1>5 DEF Scan
  <2> QED BY <2>1, CachedStep
<1>6. ASSUME NEW k, NEW m, modules' = With(k, m), stack # <<>>,
             stack' = Tail(stack)
      PROVE  FramesCached'
  <2>1. DOMAIN modules' = DOMAIN modules \cup {k}
    BY <1>6, WithFacts
  <2> QED BY <1>6, <2>1, CachedStep
<1>7. CASE Finish \/ Throw
  BY <1>6, <1>7 DEF Finish, Throw
<1>8. ASSUME NEW id, LoadLibrary(id) PROVE FramesCached'
  BY <1>1, <1>8 DEF LoadLibrary
<1>9. ASSUME NEW f, LoadNew(f) \/ LoadAgain(f) PROVE FramesCached'
  BY <1>2, <1>9 DEF LoadNew, LoadAgain
<1>10. ASSUME NEW t, NEW s, Resolve(t, s) PROVE FramesCached'
  BY <1>1, <1>10 DEF Resolve
<1> QED BY <1>3, <1>4, <1>5, <1>7, <1>8, <1>9, <1>10
        DEF Next, Edit, ScanNext, Require, ImportModule, Reject, vars

(***************************************************************************)
(* The types hold, for every set of files and any bounds: module entries,  *)
(* evaluations and imports are records of the kinds that the code has.     *)
(***************************************************************************)
THEOREM ModuleTypes == Spec => []ModuleTypeOK
<1>1. Init => ModuleTypeOK /\ FramesCached
  <2> SUFFICES ASSUME Init PROVE ModuleTypeOK /\ FramesCached
    OBVIOUS
  <2>1. (CHOOSE t \in Texts : TRUE) \in Texts
    BY ModuleCacheAssumption
  <2> QED BY <2>1, ModuleCacheAssumption
          DEF Init, ModuleTypeOK, FramesCached, Sources
<1>2. ModuleTypeOK /\ FramesCached /\ [Next]_vars
        => (ModuleTypeOK /\ FramesCached)'
  BY TypeStep, FramesCachedStep
<1> QED BY <1>1, <1>2, PTL DEF Spec

(***************************************************************************)
(* Files and what modules recorded of them.                                *)
(***************************************************************************)
(* A module that recorded what its file is and was evaluated with it.      *)
LEMMA NoticedTracks ==
  ASSUME ModuleTypeOK, FilesTracked, NEW f \in Files, Cached(f)
  PROVE  LET m == Noticed(f) IN
         /\ m.time <= disk[f].time
         /\ Reloadable(m) /\ ~m.reload => m.hash \in {m.ran, Blank}
         /\ m.reload /\ disk[f].text = Blank => m.hash = Blank
         /\ Reloadable(m) /\ ~m.reload /\ m.time = TimeOf(f)
              => disk[f].text \in {m.ran, Blank}
<1> DEFINE m == modules[f]
<1>1. m \in Module /\ disk[f].time \in 0..MaxEdits + 1
  BY DEF ModuleTypeOK, Cached
<1>2. TracksFile(f)
  BY DEF FilesTracked, Cached
<1>3. CASE ~Reloadable(m) \/ TimeOf(f) \in {0, m.time}
  <2>1. Noticed(f) = m
    BY <1>3 DEF Noticed
  <2> QED BY <1>2, <2>1 DEF TracksFile
<1>4. CASE Reloadable(m) /\ TimeOf(f) \notin {0, m.time}
  <2>1. Noticed(f) = [m EXCEPT !.time = TimeOf(f), !.hash = disk[f].text,
                               !.reload = @ \/ m.hash # disk[f].text]
    BY <1>4 DEF Noticed
  <2>2. /\ Noticed(f).time = TimeOf(f) /\ Noticed(f).hash = disk[f].text
        /\ Noticed(f).reload = (m.reload \/ m.hash # disk[f].text)
        /\ Noticed(f).ran = m.ran /\ Noticed(f).path = m.path
    BY <1>1, <2>1 DEF Module
  <2>3. TimeOf(f) = disk[f].time
    BY <1>4 DEF TimeOf
  <2>4. Reloadable(m) /\ ~m.reload => m.hash \in {m.ran, Blank}
    BY <1>2 DEF TracksFile
  <2>5. ~Noticed(f).reload => ~m.reload /\ m.hash = disk[f].text
    BY <2>2
  <2>6. ~Noticed(f).reload => disk[f].text \in {m.ran, Blank}
    BY <1>4, <2>4, <2>5
  <2>7. Noticed(f).time <= disk[f].time
    BY <1>1, <2>2, <2>3
  <2> QED BY <2>2, <2>6, <2>7
<1> QED BY <1>3, <1>4

(* Only f's entry changes, and it tracks its file still. *)
LEMMA EntryTracks ==
  ASSUME FilesTracked, disk' = disk, NEW k, NEW m, modules' = With(k, m),
         k \in Files => TracksFile(k)'
  PROVE  FilesTracked'
<1>1. DOMAIN modules' = DOMAIN modules \cup {k}
  BY WithFacts
<1>2. \A x \in DOMAIN modules \ {k} : modules'[x] = modules[x]
  BY DEF With
<1> QED BY <1>1, <1>2 DEF FilesTracked, TracksFile, TimeOf

LEMMA ReadTracks ==
  ASSUME ModuleTypeOK, FilesTracked, disk' = disk, NEW f \in Files, NEW kind,
         disk[f].text # None,
         \/ ~Cached(f) /\ Read(f, [Fresh EXCEPT !.path = TRUE], kind)
         \/ /\ Cached(f) /\ modules[f].reload
            /\ Read(f, [modules[f] EXCEPT !.reload = FALSE], kind)
  PROVE  FilesTracked'
<1> DEFINE m == IF Cached(f) THEN [modules[f] EXCEPT !.reload = FALSE]
                ELSE [Fresh EXCEPT !.path = TRUE]
<1>1. Read(f, m, kind) /\ (Cached(f) => modules[f].reload)
  OBVIOUS
<1>2. m \in Module /\ ~m.reload
  BY FreshTyped DEF ModuleTypeOK, Cached, Module, Fresh
<1>3. disk[f].time \in Nat /\ disk'[f].time \in Nat
  BY DEF ModuleTypeOK
<1>4. CASE disk[f].text = Blank
  <2>1. modules' = With(f, m)
    BY <1>1, <1>4 DEF Read
  <2>2. modules'[f] = m
    BY <2>1 DEF With
  <2>3. CASE Cached(f)
    <3>1. m = [modules[f] EXCEPT !.reload = FALSE] /\ modules[f] \in Module
      BY <2>3 DEF ModuleTypeOK, Cached
    <3>2. TracksFile(f) /\ modules[f].reload
      BY <1>1, <2>3 DEF FilesTracked, Cached
    <3>3. TracksFile(f)'
      BY <1>4, <2>2, <3>1, <3>2
         DEF TracksFile, Reloadable, TimeOf, Module
    <3> QED BY <2>1, <3>3, EntryTracks
  <2>4. CASE ~Cached(f)
    <3>1. m = [Fresh EXCEPT !.path = TRUE]
      BY <2>4
    <3>2. m.time = 0 /\ ~m.reload
      BY <3>1 DEF Fresh
    <3>3. TracksFile(f)'
      BY <1>3, <2>2, <3>2 DEF TracksFile, Reloadable
    <3> QED BY <2>1, <3>3, EntryTracks
  <2> QED BY <2>3, <2>4
<1>5. CASE disk[f].text # Blank
  <2> DEFINE s == disk[f].text
             n == [m EXCEPT !.time = disk[f].time, !.hash = s, !.ran = s,
                            !.failed = FALSE, !.nested = FALSE]
  <2>1. modules' = With(f, n)
    BY <1>1, <1>5 DEF Read, Push
  <2>2. modules'[f] = n
    BY <2>1 DEF With
  <2> HIDE DEF m
  <2>3. /\ n.time = disk[f].time /\ n.hash = s /\ n.ran = s
        /\ ~n.reload
    BY <1>2 DEF Module
  <2>4. TracksFile(f)'
    BY <1>3, <2>2, <2>3 DEF TracksFile
  <2> QED BY <2>1, <2>4, EntryTracks
<1> QED BY <1>4, <1>5

(* Every step keeps the modules in track with their files. *)
LEMMA TrackStep ==
  ASSUME ModuleTypeOK, FramesCached, FilesTracked, ~EmptiesMarked, [Next]_vars
  PROVE  FilesTracked'
<1>1. ASSUME NEW f \in Files, NEW s \in Sources \cup {None}, Edit(f, s)
      PROVE  FilesTracked'
  <2>1. PICK now \in 1..MaxEdits + 1 :
          /\ \A g \in Files : disk[g].time < now
          /\ disk' = [disk EXCEPT ![f] = [text |-> s, time |-> now]]
    BY <1>1 DEF Edit
  <2>2. modules' = modules /\ (s = Blank => ~(Cached(f) /\ modules[f].reload))
    BY <1>1 DEF Edit
  <2>3. \A g \in Files \ {f} : disk'[g] = disk[g]
    BY <2>1 DEF ModuleTypeOK
  <2>4. disk'[f].text = s /\ disk'[f].time = now
    BY <2>1 DEF ModuleTypeOK
  <2>5. ASSUME Cached(f) PROVE TracksFile(f)'
    <3>1. TracksFile(f) /\ modules[f] \in Module
      BY <2>5 DEF FilesTracked, ModuleTypeOK, Cached
    <3>2. disk[f].time \in Nat /\ disk[f].time < now /\ modules[f].time \in Nat
          /\ now \in Nat
      BY <2>1, <3>1 DEF ModuleTypeOK, Module
    <3>3. modules[f].time < now
      BY <3>1, <3>2 DEF TracksFile
    <3>4. Reloadable(modules[f]) => modules[f].time # TimeOf(f)'
      BY <2>4, <3>2, <3>3 DEF TimeOf, Reloadable
    <3>5. ~modules[f].reload \/ s # Blank
      BY <2>2, <2>5
    <3> QED BY <2>2, <2>4, <3>1, <3>2, <3>3, <3>4, <3>5 DEF TracksFile, Reloadable
  <2> QED BY <2>2, <2>3, <2>5 DEF FilesTracked, TracksFile, TimeOf, Cached
<1>2. ASSUME NEW f \in Files, Cached(f), disk' = disk, Cached(f)',
             modules'[f] = Noticed(f)
      PROVE  TracksFile(f)'
  BY <1>2, NoticedTracks DEF TracksFile, TimeOf, Reloadable
<1>3. ASSUME NEW f \in Files, Mark(f) PROVE FilesTracked'
  <2>1. Cached(f) /\ modules' = With(f, Noticed(f)) /\ disk' = disk
    BY <1>3 DEF Mark
  <2>2. modules'[f] = Noticed(f) /\ Cached(f)'
    BY <2>1 DEF With, Cached
  <2> QED BY <1>2, <2>1, <2>2, EntryTracks
<1>4. CASE Scan
  <2>1. DOMAIN modules' = DOMAIN modules /\ disk' = disk
    BY <1>4 DEF Scan
  <2>2. \A k \in DOMAIN modules :
          modules'[k] = modules[k]
          \/ (k \in Files /\ modules'[k] = Noticed(k))
    BY <1>4 DEF Scan
  <2>3. ASSUME NEW f \in Files, Cached(f) PROVE TracksFile(f)'
    <3>1. CASE modules'[f] = modules[f]
      BY <2>1, <2>3, <3>1 DEF FilesTracked, TracksFile, TimeOf, Cached
    <3>2. CASE modules'[f] = Noticed(f)
      BY <1>2, <2>1, <2>3, <3>2 DEF Cached
    <3> QED BY <2>2, <2>3, <3>1, <3>2 DEF Cached
  <2> QED BY <2>1, <2>3 DEF FilesTracked, Cached
<1>5. ASSUME NEW f \in Files, LoadAgain(f), disk' = disk PROVE FilesTracked'
  BY <1>5, ReadTracks DEF LoadAgain
<1>6. ASSUME NEW f \in Files, ScanNext(f) PROVE FilesTracked'
  <2>1. disk' = disk
    BY <1>6 DEF ScanNext
  <2>2. CASE UNCHANGED <<modules, stack>>
    BY <2>1, <2>2 DEF FilesTracked, TracksFile, TimeOf
  <2> QED BY <1>5, <1>6, <2>1, <2>2 DEF ScanNext
<1>7. ASSUME NEW id \in Keys, Require(id) PROVE FilesTracked'
  <2>1. disk' = disk
    BY <1>7 DEF Require
  <2>2. CASE LoadLibrary(id)
    <3>1. id \notin Files
      BY <2>2, ModuleCacheAssumption DEF LoadLibrary
    <3> QED BY <2>1, <2>2, <3>1, EntryTracks DEF LoadLibrary, Push
  <2>3. ASSUME id \notin Libs PROVE Target(id) \in Files
    BY <2>3, ModuleCacheAssumption DEF Target, Keys
  <2>4. CASE id \notin Libs /\ LoadNew(Target(id))
    BY <2>1, <2>3, <2>4, ReadTracks DEF LoadNew
  <2> QED BY <1>5, <1>7, <2>1, <2>2, <2>3, <2>4 DEF Require
<1>8. ASSUME NEW k, NEW m, NEW old, old = modules[k], Cached(k), disk' = disk,
             modules' = With(k, m), m.ran = old.ran, m.time = old.time,
             m.reload = old.reload, m.hash = old.hash, m.path = old.path
      PROVE  FilesTracked'
  <2>1. modules'[k] = m
    BY <1>8 DEF With
  <2>2. ASSUME k \in Files PROVE TracksFile(k)'
    <3>1. TracksFile(k)
      BY <1>8, <2>2 DEF FilesTracked, Cached
    <3> QED BY <1>8, <2>1, <3>1 DEF TracksFile, Reloadable, TimeOf
  <2> QED BY <1>8, <2>2, EntryTracks
<1>9. stack # <<>> => Cached(Head(stack).key)
                      /\ modules[Head(stack).key] \in Module
  <2>1. stack \in Seq(Frame)
    BY DEF ModuleTypeOK
  <2>2. stack # <<>> => 1 \in 1..Len(stack) /\ Head(stack) = stack[1]
    BY <2>1, PoppedStack
  <2>3. stack # <<>> => Cached(Head(stack).key)
    BY <2>2 DEF FramesCached
  <2> QED BY <2>3 DEF ModuleTypeOK, Cached
<1>10. CASE Finish
  <2> DEFINE fr == Head(stack)
             m == modules[fr.key]
             told == fr.kind # "again"
             n == [m EXCEPT !.exports = fr.src, !.loaded = @ \/ told,
                            !.script = @ \/ (fr.kind \in {"new", "again"}
                                             /\ fr.key \in Scripts)]
  <2>1. stack # <<>> /\ modules' = With(fr.key, n) /\ disk' = disk
    BY <1>10 DEF Finish
  <2>2. Cached(fr.key) /\ m \in Module
    BY <1>9, <2>1
  <2>3. n.ran = m.ran /\ n.time = m.time /\ n.reload = m.reload
        /\ n.hash = m.hash /\ n.path = m.path
    BY <2>2 DEF Module
  <2> HIDE DEF n, fr
  <2> QED BY <1>8, <2>1, <2>2, <2>3
<1>11. CASE Throw
  <2> DEFINE fr == Head(stack)
             m == modules[fr.key]
             n == [m EXCEPT !.failed = TRUE]
  <2>1. stack # <<>> /\ modules' = With(fr.key, n) /\ disk' = disk
    BY <1>11 DEF Throw
  <2>2. Cached(fr.key) /\ m \in Module
    BY <1>9, <2>1
  <2>3. n.ran = m.ran /\ n.time = m.time /\ n.reload = m.reload
        /\ n.hash = m.hash /\ n.path = m.path
    BY <2>2 DEF Module
  <2> HIDE DEF n, fr
  <2> QED BY <1>8, <2>1, <2>2, <2>3
<1>12. ASSUME NEW t \in 1..MaxImports, NEW s \in Texts, Resolve(t, s)
       PROVE  FilesTracked'
  <2>1. PICK k : k = imports[t].key
    OBVIOUS
  <2> DEFINE m == IF Cached(k) THEN modules[k] ELSE Fresh
             n == [m EXCEPT !.reload = FALSE, !.time = 0, !.hash = None,
                            !.ran = s, !.failed = FALSE,
                            !.nested = Evaluating(k)]
  <2>2. modules' = With(k, n) /\ disk' = disk
    BY <1>12, <2>1 DEF Resolve, Push
  <2>3. m \in Module
    <3>1. Cached(k) => modules[k] \in Module
      BY DEF ModuleTypeOK, Cached
    <3> QED BY <3>1, FreshTyped
  <2> HIDE DEF m
  <2>4. n.time = 0 /\ ~n.reload
    BY <2>3 DEF Module
  <2> HIDE DEF n
  <2>5. modules'[k].time = 0 /\ ~modules'[k].reload
    BY <2>2, <2>4 DEF With
  <2>6. ASSUME k \in Files PROVE TracksFile(k)'
    <3>1. disk'[k].time \in Nat
      BY <2>2, <2>6 DEF ModuleTypeOK
    <3> QED BY <2>5, <3>1 DEF TracksFile, Reloadable
  <2> QED BY <2>2, <2>6, EntryTracks
<1>13. ASSUME UNCHANGED <<disk, modules>> PROVE FilesTracked'
  BY <1>13 DEF FilesTracked, TracksFile, TimeOf
<1> QED BY <1>1, <1>3, <1>4, <1>6, <1>7, <1>10, <1>11, <1>12, <1>13
        DEF Next, ImportModule, Reject, vars

(***************************************************************************)
(* While no file is emptied between the moment a change of it is noticed   *)
(* and the reload: a module that nobody marked, with the time that its     *)
(* file has, was evaluated with what the file holds, so that a scan looks  *)
(* at the time alone and misses nothing (is_reloadable, mark_as_reloading, *)
(* DefaultModuleResolver::load).                                           *)
(***************************************************************************)
THEOREM ChangesNoticed ==
  ASSUME ~EmptiesMarked PROVE Spec => []CurrentUnlessMarked
<1> DEFINE Inv == ModuleTypeOK /\ FramesCached /\ FilesTracked
<1>1. Init => Inv
  <2> SUFFICES ASSUME Init PROVE Inv
    OBVIOUS
  <2>1. (CHOOSE t \in Texts : TRUE) \in Texts
    BY ModuleCacheAssumption
  <2>2. ModuleTypeOK /\ FramesCached
    BY <2>1, ModuleCacheAssumption
       DEF Init, ModuleTypeOK, FramesCached, Sources
  <2>3. FilesTracked
    BY DEF Init, FilesTracked
  <2> QED BY <2>2, <2>3
<1>2. Inv /\ [Next]_vars => Inv'
  BY TypeStep, FramesCachedStep, TrackStep
<1>3. Inv => CurrentUnlessMarked
  BY DEF FilesTracked, TracksFile, CurrentUnlessMarked
<1> QED BY <1>1, <1>2, <1>3, PTL DEF Spec

(***************************************************************************)
(* Evaluations.                                                            *)
(***************************************************************************)
EvalInv == FramesRun /\ EvaluatedOnce /\ ExportsAreComplete

(* A module that is in the cache to stay, with what it ran and exported.   *)
SameRun(m, n) ==
  /\ m.ran = n.ran /\ m.exports = n.exports
  /\ m.failed = n.failed /\ m.nested = n.nested

(* Nothing that is evaluated is missing or to be reloaded.                 *)
LEMMA NotEvaluated ==
  ASSUME FramesRun, NEW k, Missed(k)
  PROVE  ~Evaluating(k)
  BY DEF FramesRun, FrameRuns, Missed, Evaluating

(* A module is pushed that nothing evaluates yet, or by an answer.          *)
LEMMA PushKeeps ==
  ASSUME ModuleTypeOK, EvalInv, NEW k, NEW m, NEW fr, Push(k, m, fr),
         Evaluating(k) => m.nested /\ fr.kind = "answer",
         fr.key = k, m.ran = fr.src, ~m.reload
  PROVE  EvalInv'
<1>1. modules' = With(k, m) /\ stack' = <<fr>> \o stack
  BY DEF Push
<1>2. DOMAIN modules' = DOMAIN modules \cup {k} /\ modules'[k] = m
      /\ \A x \in DOMAIN modules \ {k} : modules'[x] = modules[x]
  BY <1>1 DEF With
<1>3. stack \in Seq(Frame) /\ Len(stack) \in Nat
  BY LenProperties DEF ModuleTypeOK
<1>4. /\ Len(stack') = Len(stack) + 1 /\ stack'[1] = fr
      /\ \A i \in 1..Len(stack) : stack'[i + 1] = stack[i]
  BY <1>1, <1>3, PushedStack
<1>5. \A i \in 1..Len(stack') :
        \/ i = 1 /\ stack'[i] = fr
        \/ i - 1 \in 1..Len(stack) /\ stack'[i] = stack[i - 1]
  BY <1>1, <1>3, PushedFrames
<1>6. \A i \in 1..Len(stack) :
        stack[i].key = k => m.nested /\ fr.kind = "answer"
  BY DEF Evaluating
<1>7. FramesRun'
  <2>1. \A i \in 1..Len(stack) : FrameRuns(stack[i])
    BY DEF EvalInv, FramesRun
  <2>2. ASSUME NEW i \in 1..Len(stack)
        PROVE  /\ stack[i].key \in DOMAIN modules'
               /\ ~modules'[stack[i].key].nested
                    => modules'[stack[i].key].ran = stack[i].src
               /\ ~modules'[stack[i].key].reload
    BY <1>2, <1>6, <2>1 DEF FrameRuns, Cached
  <2>3. ASSUME NEW i \in 1..Len(stack') PROVE FrameRuns(stack[i])'
    <3>1. CASE stack'[i] = fr
      BY <1>2, <3>1 DEF FrameRuns, Cached
    <3>2. CASE i - 1 \in 1..Len(stack) /\ stack'[i] = stack[i - 1]
      <4>1. /\ stack[i - 1].key \in DOMAIN modules'
            /\ ~modules'[stack[i - 1].key].nested
                 => modules'[stack[i - 1].key].ran = stack[i - 1].src
            /\ ~modules'[stack[i - 1].key].reload
        BY <2>2, <3>2
      <4> QED BY <3>2, <4>1 DEF FrameRuns, Cached
    <3> QED BY <1>5, <3>1, <3>2
  <2> QED BY <2>3 DEF FramesRun
<1>8. EvaluatedOnce'
  <2> SUFFICES ASSUME NEW i \in 1..Len(stack'), NEW j \in 1..Len(stack'),
                      i < j, stack'[i].key = stack'[j].key
               PROVE  stack'[i].kind = "answer"
    BY DEF EvaluatedOnce
  <2>1. j - 1 \in 1..Len(stack) /\ stack'[j] = stack[j - 1]
    BY <1>3, <1>4, <1>5
  <2>2. CASE i = 1
    <3>1. stack'[i] = fr /\ stack[j - 1].key = k
      BY <1>4, <2>1, <2>2
    <3> QED BY <1>6, <2>1, <3>1
  <2>3. CASE i # 1
    <3>1. i - 1 \in 1..Len(stack) /\ stack'[i] = stack[i - 1]
          /\ i - 1 < j - 1
      BY <1>3, <1>4, <1>5, <2>3
    <3>2. stack[i - 1].key = stack[j - 1].key
      BY <2>1, <3>1
    <3> QED BY <2>1, <3>1, <3>2 DEF EvalInv, EvaluatedOnce
  <2> QED BY <2>2, <2>3
<1>9. ExportsAreComplete'
  <2>1. Evaluating(k)'
    <3>1. 1 \in 1..Len(stack') /\ stack'[1].key = k
      BY <1>3, <1>4
    <3> QED BY <3>1 DEF Evaluating
  <2>2. ASSUME NEW x, Evaluating(x) PROVE Evaluating(x)'
    <3>1. PICK i \in 1..Len(stack) : stack[i].key = x
      BY <2>2 DEF Evaluating
    <3>2. i + 1 \in 1..Len(stack') /\ stack'[i + 1].key = x
      BY <1>3, <1>4, <3>1
    <3> QED BY <3>2 DEF Evaluating
  <2>3. ASSUME NEW x \in DOMAIN modules', ~Evaluating(x)', ~modules'[x].failed,
               ~modules'[x].nested
        PROVE  modules'[x].exports = modules'[x].ran
    <3>1. x # k /\ x \in DOMAIN modules /\ modules'[x] = modules[x]
      BY <1>2, <2>1, <2>3
    <3> QED BY <2>2, <2>3, <3>1 DEF EvalInv, ExportsAreComplete
  <2> QED BY <2>3 DEF ExportsAreComplete
<1> QED BY <1>7, <1>8, <1>9 DEF EvalInv

(* Nothing is evaluated, and what ran and was exported stays.              *)
LEMMA MarkKeeps ==
  ASSUME ModuleTypeOK, EvalInv, stack = <<>>, stack' = stack,
         DOMAIN modules' = DOMAIN modules,
         \A x \in DOMAIN modules : SameRun(modules'[x], modules[x])
  PROVE  EvalInv'
<1>1. Len(stack') = 0
  OBVIOUS
<1>2. FramesRun' /\ EvaluatedOnce'
  BY <1>1 DEF FramesRun, EvaluatedOnce
<1>3. \A x : ~Evaluating(x)
  BY DEF Evaluating
<1>4. ExportsAreComplete'
  BY <1>3 DEF EvalInv, ExportsAreComplete, SameRun
<1> QED BY <1>2, <1>4 DEF EvalInv

(* An empty file was read: nothing is evaluated, the module enters the      *)
(* cache, or stays in it without the mark.                                  *)
LEMMA BlankKeeps ==
  ASSUME ModuleTypeOK, EvalInv, NEW k, NEW m, modules' = With(k, m),
         stack' = stack, ~Evaluating(k),
         \/ m.exports = m.ran
         \/ Cached(k) /\ SameRun(m, modules[k])
  PROVE  EvalInv'
<1>2. DOMAIN modules' = DOMAIN modules \cup {k} /\ modules'[k] = m
      /\ \A x \in DOMAIN modules \ {k} : modules'[x] = modules[x]
  BY DEF With
<1>3. \A i \in 1..Len(stack) : stack[i].key # k
  BY DEF Evaluating
<1>4. FramesRun'
  <2>1. \A i \in 1..Len(stack) : FrameRuns(stack[i])
    BY DEF EvalInv, FramesRun
  <2> QED BY <1>2, <1>3, <2>1 DEF FramesRun, FrameRuns, Cached
<1>5. EvaluatedOnce'
  BY DEF EvalInv, EvaluatedOnce
<1>6. \A x : Evaluating(x)' <=> Evaluating(x)
  BY DEF Evaluating
<1>7. ASSUME NEW x \in DOMAIN modules', ~Evaluating(x), ~modules'[x].failed,
             ~modules'[x].nested
      PROVE  modules'[x].exports = modules'[x].ran
  <2>1. CASE x # k
    BY <1>2, <1>7, <2>1 DEF EvalInv, ExportsAreComplete
  <2>2. CASE x = k /\ m.exports = m.ran
    BY <1>2, <2>2
  <2>3. CASE x = k /\ Cached(k) /\ SameRun(m, modules[k])
    BY <1>2, <1>7, <2>3 DEF EvalInv, ExportsAreComplete, SameRun, Cached
  <2> QED BY <2>1, <2>2, <2>3
<1>8. ExportsAreComplete'
  BY <1>6, <1>7 DEF ExportsAreComplete
<1> QED BY <1>4, <1>5, <1>8 DEF EvalInv

(* The innermost evaluation ends: it threw, or its exports are taken.      *)
LEMMA PopKeeps ==
  ASSUME ModuleTypeOK, EvalInv, stack # <<>>, stack' = Tail(stack),
         NEW k, k = Head(stack).key, NEW m, modules' = With(k, m),
         m.ran = modules[k].ran, m.nested = modules[k].nested, ~m.reload,
         m.failed \/ m.nested \/ m.exports = m.ran
  PROVE  EvalInv'
<1>1. stack \in Seq(Frame) /\ Len(stack) \in Nat
  BY LenProperties DEF ModuleTypeOK
<1>2. 1 \in 1..Len(stack) /\ Head(stack) = stack[1]
      /\ Len(stack') = Len(stack) - 1
  BY <1>1, PoppedStack
<1>3. \A i \in 1..Len(stack') :
        i + 1 \in 1..Len(stack) /\ stack'[i] = stack[i + 1]
  BY <1>1, PoppedFrames
<1>4. \A i \in 1..Len(stack) : FrameRuns(stack[i])
  BY DEF EvalInv, FramesRun
<1>5. DOMAIN modules' = DOMAIN modules /\ modules'[k] = m
      /\ \A x \in DOMAIN modules \ {k} : modules'[x] = modules[x]
  <2>1. Cached(k)
    BY <1>2, <1>4 DEF FrameRuns
  <2> QED BY <2>1 DEF With, Cached
<1>6. FramesRun'
  <2>1. ASSUME NEW i \in 1..Len(stack)
        PROVE  /\ stack[i].key \in DOMAIN modules'
               /\ ~modules'[stack[i].key].nested
                    => modules'[stack[i].key].ran = stack[i].src
               /\ ~modules'[stack[i].key].reload
    BY <1>4, <1>5 DEF FrameRuns, Cached
  <2>2. ASSUME NEW i \in 1..Len(stack') PROVE FrameRuns(stack[i])'
    <3>1. i + 1 \in 1..Len(stack) /\ stack'[i] = stack[i + 1]
      BY <1>3
    <3>2. /\ stack[i + 1].key \in DOMAIN modules'
          /\ ~modules'[stack[i + 1].key].nested
               => modules'[stack[i + 1].key].ran = stack[i + 1].src
          /\ ~modules'[stack[i + 1].key].reload
      BY <2>1, <3>1
    <3> QED BY <3>1, <3>2 DEF FrameRuns, Cached
  <2> QED BY <2>2 DEF FramesRun
<1>7. EvaluatedOnce'
  <2> SUFFICES ASSUME NEW i \in 1..Len(stack'), NEW j \in 1..Len(stack'),
                      i < j, stack'[i].key = stack'[j].key
               PROVE  stack'[i].kind = "answer"
    BY DEF EvaluatedOnce
  <2>1. i + 1 \in 1..Len(stack) /\ stack'[i] = stack[i + 1]
        /\ j + 1 \in 1..Len(stack) /\ stack'[j] = stack[j + 1]
    BY <1>3
  <2>2. i + 1 < j + 1 /\ stack[i + 1].key = stack[j + 1].key
    BY <1>1, <1>2, <2>1
  <2> QED BY <2>1, <2>2 DEF EvalInv, EvaluatedOnce
<1>8. ASSUME NEW x, x # k, Evaluating(x) PROVE Evaluating(x)'
  <2>1. PICK i \in 1..Len(stack) : stack[i].key = x
    BY <1>8 DEF Evaluating
  <2>2. i # 1
    BY <1>2, <1>8, <2>1
  <2>3. i - 1 \in 1..Len(stack') /\ i = (i - 1) + 1
    BY <1>1, <1>2, <2>2
  <2>4. stack'[i - 1] = stack[i]
    BY <1>3, <2>3
  <2> QED BY <2>1, <2>3, <2>4 DEF Evaluating
<1>9. ASSUME NEW x \in DOMAIN modules', ~Evaluating(x)', ~modules'[x].failed,
             ~modules'[x].nested
      PROVE  modules'[x].exports = modules'[x].ran
  <2>1. CASE x = k
    BY <1>5, <1>9, <2>1
  <2>2. CASE x # k
    BY <1>5, <1>8, <1>9, <2>2 DEF EvalInv, ExportsAreComplete
  <2> QED BY <2>1, <2>2
<1>10. ExportsAreComplete'
  BY <1>9 DEF ExportsAreComplete
<1> QED BY <1>6, <1>7, <1>10 DEF EvalInv

(* A file is read, and its module evaluated unless the file is empty.      *)
LEMMA ReadKeeps ==
  ASSUME ModuleTypeOK, EvalInv, NEW f \in Files, NEW m \in Module, NEW kind,
         Read(f, m, kind), ~Evaluating(f), ~m.reload,
         \/ m.exports = m.ran
         \/ Cached(f) /\ SameRun(m, modules[f])
  PROVE  EvalInv'
<1>1. CASE disk[f].text = Blank
  BY <1>1, BlankKeeps DEF Read
<1>2. CASE disk[f].text # Blank
  <2> DEFINE s == disk[f].text
             n == [m EXCEPT !.time = disk[f].time, !.hash = s, !.ran = s,
                            !.failed = FALSE, !.nested = FALSE]
             fr == [key |-> f, src |-> s, kind |-> kind]
  <2>1. Push(f, n, fr)
    BY <1>2 DEF Read
  <2>2. n.ran = s /\ ~n.reload
    BY DEF Module
  <2>3. fr.key = f /\ fr.src = s
    OBVIOUS
  <2> HIDE DEF n, fr
  <2> QED BY <2>1, <2>2, <2>3, PushKeeps
<1> QED BY <1>1, <1>2

(* Every step keeps evaluations apart and exports complete. *)
LEMMA EvalStep ==
  ASSUME ModuleTypeOK, FramesCached, EvalInv, [Next]_vars
  PROVE  EvalInv'
<1>1. ASSUME UNCHANGED <<modules, stack>> PROVE EvalInv'
  BY <1>1 DEF EvalInv, FramesRun, FrameRuns, EvaluatedOnce, ExportsAreComplete,
              Evaluating, Cached
<1>2. ASSUME NEW f \in Files, Mark(f) PROVE EvalInv'
  <2>1. stack = <<>> /\ stack' = stack /\ Cached(f)
        /\ modules' = With(f, Noticed(f))
    BY <1>2 DEF Mark, Idle
  <2>2. DOMAIN modules' = DOMAIN modules /\ modules'[f] = Noticed(f)
        /\ \A x \in DOMAIN modules \ {f} : modules'[x] = modules[x]
    BY <2>1 DEF With, Cached
  <2>3. \A x \in DOMAIN modules : SameRun(modules'[x], modules[x])
    BY <2>1, <2>2, NoticedTyped DEF SameRun
  <2> QED BY <2>1, <2>2, <2>3, MarkKeeps
<1>3. CASE Scan
  <2>1. stack = <<>> /\ stack' = stack /\ DOMAIN modules' = DOMAIN modules
    BY <1>3 DEF Scan, Idle
  <2>2. \A x \in DOMAIN modules :
          modules'[x] = modules[x]
          \/ (x \in Files /\ Cached(x) /\ modules'[x] = Noticed(x))
    BY <1>3 DEF Scan, Cached
  <2>3. \A x \in DOMAIN modules : SameRun(modules'[x], modules[x])
    BY <2>2, NoticedTyped DEF SameRun
  <2> QED BY <2>1, <2>3, MarkKeeps
<1>4. ASSUME NEW f \in Files, LoadAgain(f) PROVE EvalInv'
  <2> DEFINE m == [modules[f] EXCEPT !.reload = FALSE]
  <2>1. Cached(f) /\ modules[f].reload /\ Read(f, m, "again")
    BY <1>4 DEF LoadAgain
  <2>2. modules[f] \in Module
    BY <2>1 DEF ModuleTypeOK, Cached
  <2>3. m \in Module /\ ~m.reload /\ SameRun(m, modules[f])
    BY <2>2 DEF Module, SameRun
  <2>4. ~Evaluating(f)
    BY <2>1, NotEvaluated DEF EvalInv, Missed
  <2> HIDE DEF m
  <2> QED BY <2>1, <2>3, <2>4, ReadKeeps
<1>5. ASSUME NEW f \in Files, ScanNext(f) PROVE EvalInv'
  BY <1>1, <1>4, <1>5 DEF ScanNext
<1>6. ASSUME NEW id \in Keys, Require(id) PROVE EvalInv'
  <2>1. CASE LoadLibrary(id)
    <3> DEFINE s == CHOOSE t \in Texts : TRUE
               m == [Fresh EXCEPT !.ran = s]
               fr == [key |-> id, src |-> s, kind |-> "library"]
    <3>1. ~Cached(id) /\ Push(id, m, fr)
      BY <2>1 DEF LoadLibrary
    <3>2. m.ran = s /\ ~m.reload
      BY DEF Fresh
    <3>3. fr.key = id /\ fr.src = s
      OBVIOUS
    <3>4. ~Evaluating(id)
      BY <3>1, NotEvaluated DEF EvalInv, Missed
    <3> HIDE DEF m, fr
    <3> QED BY <3>1, <3>2, <3>3, <3>4, PushKeeps
  <2>2. ASSUME id \notin Libs PROVE Target(id) \in Files
    BY <2>2, ModuleCacheAssumption DEF Target, Keys
  <2>3. CASE id \notin Libs /\ LoadNew(Target(id))
    <3> DEFINE m == [Fresh EXCEPT !.path = TRUE]
    <3>1. ~Cached(Target(id)) /\ Read(Target(id), m, "new")
      BY <2>3 DEF LoadNew
    <3>2. m \in Module
      BY FreshTyped DEF Module
    <3>3. ~m.reload /\ m.exports = m.ran
      BY DEF Fresh
    <3>4. ~Evaluating(Target(id))
      BY <3>1, NotEvaluated DEF EvalInv, Missed
    <3> HIDE DEF m
    <3> QED BY <2>2, <2>3, <3>1, <3>2, <3>3, <3>4, ReadKeeps
  <2>4. CASE id \notin Libs /\ LoadAgain(Target(id))
    BY <1>4, <2>2, <2>4
  <2> QED BY <1>6, <2>1, <2>3, <2>4 DEF Require
<1>7. stack # <<>> => LET k == Head(stack).key IN
        /\ modules[k] \in Module
        /\ ~modules[k].nested => modules[k].ran = Head(stack).src
        /\ ~modules[k].reload
  <2>1. stack \in Seq(Frame)
    BY DEF ModuleTypeOK
  <2>2. stack # <<>> => 1 \in 1..Len(stack) /\ Head(stack) = stack[1]
    BY <2>1, PoppedStack
  <2>3. stack # <<>> => FrameRuns(Head(stack))
    BY <2>2 DEF EvalInv, FramesRun
  <2> QED BY <2>3 DEF FrameRuns, Cached, ModuleTypeOK
<1>8. CASE Finish
  <2> DEFINE fr == Head(stack)
             m == modules[fr.key]
             told == fr.kind # "again"
             n == [m EXCEPT !.exports = fr.src, !.loaded = @ \/ told,
                            !.script = @ \/ (fr.kind \in {"new", "again"}
                                             /\ fr.key \in Scripts)]
  <2>1. stack # <<>> /\ modules' = With(fr.key, n) /\ stack' = Tail(stack)
    BY <1>8 DEF Finish
  <2>2. n.ran = m.ran /\ n.nested = m.nested /\ ~n.reload
        /\ (n.nested \/ n.exports = n.ran)
    BY <1>7, <2>1 DEF Module
  <2> HIDE DEF n
  <2> QED BY <2>1, <2>2, PopKeeps
<1>9. CASE Throw
  <2> DEFINE m == modules[Head(stack).key]
             n == [m EXCEPT !.failed = TRUE]
  <2>1. stack # <<>> /\ modules' = With(Head(stack).key, n)
        /\ stack' = Tail(stack)
    BY <1>9 DEF Throw
  <2>2. n.ran = m.ran /\ n.nested = m.nested /\ ~n.reload /\ n.failed
    BY <1>7, <2>1 DEF Module
  <2> HIDE DEF n
  <2> QED BY <2>1, <2>2, PopKeeps
<1>10. ASSUME NEW t \in 1..MaxImports, NEW s \in Texts, Resolve(t, s)
       PROVE  EvalInv'
  <2>1. PICK k : k = imports[t].key
    OBVIOUS
  <2> DEFINE m == IF Cached(k) THEN modules[k] ELSE Fresh
             n == [m EXCEPT !.reload = FALSE, !.time = 0, !.hash = None,
                            !.ran = s, !.failed = FALSE,
                            !.nested = Evaluating(k)]
             fr == [key |-> k, src |-> s, kind |-> "answer", token |-> t]
  <2>2. Push(k, n, fr)
    BY <1>10, <2>1 DEF Resolve
  <2>3. m \in Module
    <3>1. Cached(k) => modules[k] \in Module
      BY DEF ModuleTypeOK, Cached
    <3> QED BY <3>1, FreshTyped
  <2> HIDE DEF m
  <2>4. n.ran = s /\ n.nested = Evaluating(k) /\ ~n.reload
    BY <2>3 DEF Module
  <2>5. fr.key = k /\ fr.src = s /\ fr.kind = "answer"
    OBVIOUS
  <2> HIDE DEF n, fr
  <2> QED BY <2>2, <2>4, <2>5, PushKeeps
<1> QED BY <1>1, <1>2, <1>3, <1>5, <1>6, <1>8, <1>9, <1>10
        DEF Next, Edit, ImportModule, Reject, vars

LEMMA EvalInvariant == Spec => []EvalInv
<1> DEFINE Inv == ModuleTypeOK /\ FramesCached /\ EvalInv
<1>1. Init => Inv
  <2> SUFFICES ASSUME Init PROVE Inv
    OBVIOUS
  <2>1. (CHOOSE t \in Texts : TRUE) \in Texts
    BY ModuleCacheAssumption
  <2>2. ModuleTypeOK /\ FramesCached
    BY <2>1, ModuleCacheAssumption
       DEF Init, ModuleTypeOK, FramesCached, Sources
  <2>3. EvalInv
    BY DEF Init, EvalInv, FramesRun, EvaluatedOnce, ExportsAreComplete
  <2> QED BY <2>2, <2>3
<1>2. Inv /\ [Next]_vars => Inv'
  BY TypeStep, FramesCachedStep, EvalStep
<1>3. Inv => EvalInv
  OBVIOUS
<1> QED BY <1>1, <1>2, <1>3, PTL DEF Spec

(***************************************************************************)
(* However requires, loads, reloads and failures nest, none of them        *)
(* evaluates a module within its own evaluation (the look-up in            *)
(* _load_module finds it in the cache, and a module is marked for a reload *)
(* only while nothing is evaluated).  What evaluates it a second time is   *)
(* the answer of an import, which the code lets in.                        *)
(***************************************************************************)
THEOREM EvaluatesOnce == Spec => []EvaluatedOnce
<1>1. EvalInv => EvaluatedOnce
  BY DEF EvalInv
<1> QED BY <1>1, EvalInvariant, PTL

(***************************************************************************)
(* When the last evaluation of a module has ended without an exception,    *)
(* and was not begun by an answer within an older one, the exports in the  *)
(* cache are those of the source that ran.                                 *)
(***************************************************************************)
THEOREM ExportsComplete == Spec => []ExportsAreComplete
<1>1. EvalInv => ExportsAreComplete
  BY DEF EvalInv
<1> QED BY <1>1, EvalInvariant, PTL
=============================================================================
