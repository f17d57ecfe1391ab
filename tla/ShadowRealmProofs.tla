-------------------------- MODULE ShadowRealmProofs --------------------------
(***************************************************************************)
(* Proofs about module ShadowRealm, for any number of realms and any depth *)
(* of the stack, framed or not, whatever the finalizer does: below its     *)
(* frames a realm is disposed by its finalizer only, a terminate takes     *)
(* effect when the outermost frame of the realm is left, and the owner's   *)
(* list holds what exists.                                                 *)
(***************************************************************************)
EXTENDS ShadowRealm, SequenceTheorems, TLAPS

(***************************************************************************)
(* The invariant.                                                          *)
(***************************************************************************)
(* Object and environment of a realm, and what knows of it. *)
Lifetimes ==
  \A r \in Realms :
    /\ object[r] = "none" <=> env[r] = "none"
    /\ env[r] = "none" => r \notin list /\ r \notin asked
    /\ env[r] = "live" => r \in list /\ object[r] \in {"init", "alive"}
    /\ object[r] # "alive" => \A i \in 1..Len(shadow) : shadow[i] # r

(* Host code is in no realm, and guest code in one that was created.       *)
StackIsKnown ==
  \A i \in 1..Len(stack) :
    stack[i].kind \in Guest =>
      stack[i].realm \in Realms /\ env[stack[i].realm] # "none"

(* A realm whose startup script runs is entered by nothing else.           *)
LoadsAlone ==
  /\ \A i \in 1..Len(stack) :
       /\ stack[i].kind = "load" => object[stack[i].realm] = "init"
       /\ stack[i].kind \in Guest /\ object[stack[i].realm] = "init"
            => /\ stack[i].kind = "load"
               /\ \A j \in 1..Len(stack) : stack[j] = stack[i] => j = i
  /\ \A r \in Realms : object[r] = "init" => OnStack(stack, r, {"load"})

(* What was asked for is done, or waits for a frame to be left.            *)
Requests ==
  /\ \A r \in deferred : FrameActive(stack, r)
  /\ \A r \in asked : r \in deferred \/ (env[r] = "gone" /\ r \notin list)

EndIsQuiet ==
  phase \in {"finishing", "finished"} => stack = <<>> /\ cursor = NoRealm

RealmInv ==
  /\ RealmTypeOK /\ ShadowListIsLive /\ FramesHold
  /\ Lifetimes /\ StackIsKnown /\ LoadsAlone /\ Requests /\ EndIsQuiet

(***************************************************************************)
(* Stacks and lists.                                                       *)
(***************************************************************************)
LEMMA PushedStack ==
  ASSUME stack \in Seq(Entry), NEW e \in Entry, stack' = Append(stack, e)
  PROVE  /\ stack' \in Seq(Entry)
         /\ Len(stack) \in Nat /\ Len(stack') = Len(stack) + 1
         /\ \A i \in 1..Len(stack) : stack'[i] = stack[i]
         /\ stack'[Len(stack) + 1] = e
  BY AppendProperties, LenProperties

LEMMA PoppedStack ==
  ASSUME stack \in Seq(Entry), stack # <<>>
  PROVE  /\ Len(stack) \in Nat \ {0} /\ Top \in Entry
         /\ Popped \in Seq(Entry) /\ Len(Popped) = Len(stack) - 1
         /\ \A i \in 1..Len(Popped) : i \in 1..Len(stack) /\ Popped[i] = stack[i]
<1>1. Len(stack) \in Nat \ {0}
  BY LenProperties, EmptySeq
<1>2. Top \in Entry
  BY <1>1, ElementOfSeq DEF Top
<1>3. \A i \in 1..Len(stack) - 1 : stack[i] \in Entry
  BY <1>1, ElementOfSeq
<1>4. PICK n \in Int : n = Len(stack) - 1
  BY <1>1
<1>5. /\ SubSeq(stack, 1, n) \in Seq(Entry)
      /\ Len(SubSeq(stack, 1, n)) = (IF 1 <= n THEN n - 1 + 1 ELSE 0)
      /\ \A i \in 1..(n - 1 + 1) : SubSeq(stack, 1, n)[i] = stack[1 + i - 1]
  BY <1>3, <1>4, SubSeqProperties
<1>6. Popped = SubSeq(stack, 1, n) /\ n - 1 + 1 = n
  BY <1>4 DEF Popped
<1>7. Popped \in Seq(Entry) /\ Len(Popped) = Len(stack) - 1
      /\ \A i \in 1..Len(stack) - 1 : Popped[i] = stack[i]
  BY <1>1, <1>4, <1>5, <1>6
<1> QED BY <1>1, <1>2, <1>7

(* Who is on the stack after a call, and after its return. *)
LEMMA PushedOn ==
  ASSUME stack \in Seq(Entry), NEW e \in Entry, stack' = Append(stack, e),
         NEW r, NEW kinds
  PROVE  OnStack(stack', r, kinds)
           <=> OnStack(stack, r, kinds) \/ (e.realm = r /\ e.kind \in kinds)
<1>1. /\ Len(stack) \in Nat /\ Len(stack') = Len(stack) + 1
      /\ \A i \in 1..Len(stack) : stack'[i] = stack[i]
      /\ stack'[Len(stack) + 1] = e
  BY PushedStack
<1>2. 1..Len(stack') = 1..Len(stack) \cup {Len(stack) + 1}
  BY <1>1
<1> QED BY <1>1, <1>2 DEF OnStack

LEMMA PoppedOn ==
  ASSUME stack \in Seq(Entry), stack # <<>>, NEW r, NEW kinds
  PROVE  OnStack(stack, r, kinds)
           <=> OnStack(Popped, r, kinds) \/ (Top.realm = r /\ Top.kind \in kinds)
<1>1. /\ Len(stack) \in Nat \ {0} /\ Len(Popped) = Len(stack) - 1
      /\ \A i \in 1..Len(Popped) : Popped[i] = stack[i]
  BY PoppedStack
<1>2. 1..Len(stack) = 1..Len(Popped) \cup {Len(stack)}
  BY <1>1
<1> QED BY <1>1, <1>2 DEF OnStack, Top

(* What Without leaves: all but r, each of them once. *)
LEMMA WithoutFacts ==
  ASSUME shadow \in Seq(Realms), NEW r \in Realms,
         \A i, j \in 1..Len(shadow) : shadow[i] = shadow[j] => i = j
  PROVE  LET w == Without(shadow, r) IN
         /\ w \in Seq(Realms)
         /\ \A i \in 1..Len(w) : w[i] # r /\ \E j \in 1..Len(shadow) : w[i] = shadow[j]
         /\ \A i, j \in 1..Len(w) : w[i] = w[j] => i = j
<1> DEFINE w == Without(shadow, r)
<1>1. Len(shadow) \in Nat
  BY LenProperties
<1>2. CASE ~\E i \in 1..Len(shadow) : shadow[i] = r
  BY <1>2 DEF Without
<1>3. CASE \E i \in 1..Len(shadow) : shadow[i] = r
  <2> DEFINE at == CHOOSE i \in 1..Len(shadow) : shadow[i] = r
             from(i) == IF i < at THEN i ELSE i + 1
  <2>1. at \in 1..Len(shadow) /\ shadow[at] = r
    BY <1>3
  <2>2. w = [i \in 1..Len(shadow) - 1 |-> shadow[from(i)]]
    BY <1>3 DEF Without
  <2> HIDE DEF w, at
  <2>3. \A i \in 1..Len(shadow) - 1 :
          from(i) \in 1..Len(shadow) /\ from(i) # at
    BY <1>1, <2>1
  <2>4. \A i, j \in 1..Len(shadow) - 1 : from(i) = from(j) => i = j
    BY <1>1, <2>1
  <2> HIDE DEF from
  <2>5. \A i \in 1..Len(shadow) - 1 : shadow[from(i)] \in Realms
    BY <2>3, ElementOfSeq
  <2>6. Len(shadow) - 1 \in Nat
    BY <1>1, <2>1
  <2>7. w \in Seq(Realms) /\ Len(w) = Len(shadow) - 1
        /\ \A i \in 1..Len(w) : w[i] = shadow[from(i)]
    BY <2>2, <2>5, <2>6
  <2>8. \A i \in 1..Len(w) : w[i] # r /\ \E j \in 1..Len(shadow) : w[i] = shadow[j]
    BY <2>1, <2>3, <2>7
  <2>9. ASSUME NEW i \in 1..Len(w), NEW j \in 1..Len(w), w[i] = w[j] PROVE i = j
    BY <2>3, <2>4, <2>7, <2>9
  <2> QED BY <2>7, <2>8, <2>9 DEF w
<1> QED BY <1>2, <1>3

(***************************************************************************)
(* Calls and returns.                                                      *)
(***************************************************************************)
LEMMA KindFacts ==
  /\ Framed \subseteq Guest /\ "load" \in Guest \ Framed /\ "host" \notin Guest
  /\ "cross" \in Guest \ Framed
  BY DEF Framed, Guest

(* A realm that exists is entered, or host code is. *)
LEMMA PushKeeps ==
  ASSUME RealmInv, phase = "run", NEW r, NEW k,
         \/ r = NoRealm /\ k = "host"
         \/ /\ r \in Realms /\ env[r] = "live" /\ object[r] = "alive"
            /\ k \in Guest \ {"load"},
         stack' = Append(stack, [realm |-> r, kind |-> k]),
         cursor' \in Realms \cup {NoRealm},
         UNCHANGED <<list, object, env, shadow, deferred, asked, phase>>
  PROVE  RealmInv'
<1> DEFINE e == [realm |-> r, kind |-> k]
<1>1. e \in Entry /\ e.realm = r /\ e.kind = k
  BY DEF Entry
<1>2. stack \in Seq(Entry) /\ stack' = Append(stack, e)
  BY DEF RealmInv, RealmTypeOK
<1> HIDE DEF e
<1>3. /\ stack' \in Seq(Entry)
      /\ Len(stack) \in Nat /\ Len(stack') = Len(stack) + 1
      /\ \A i \in 1..Len(stack) : stack'[i] = stack[i]
      /\ stack'[Len(stack) + 1] = e
  BY <1>1, <1>2, PushedStack
<1>4. \A x, kinds : OnStack(stack, x, kinds) => OnStack(stack', x, kinds)
  BY <1>1, <1>2, PushedOn
<1>5. RealmTypeOK' /\ ShadowListIsLive' /\ Lifetimes'
  BY <1>3 DEF RealmInv, RealmTypeOK, ShadowListIsLive, Lifetimes
<1>11. FramesHold'
  <2>1. \A x \in Realms : FrameActive(stack', x)
          => FrameActive(stack, x) \/ (x = r /\ env[r] = "live")
    BY <1>1, <1>2, PushedOn, RealmAssumption DEF FrameActive
  <2> QED BY <2>1 DEF RealmInv, FramesHold
<1>6. \A i \in 1..Len(stack') :
        \/ i \in 1..Len(stack) /\ stack'[i] = stack[i]
        \/ i = Len(stack) + 1 /\ stack'[i] = e
  BY <1>3
<1>7. StackIsKnown'
  BY <1>1, <1>6, KindFacts DEF RealmInv, StackIsKnown
<1>8. LoadsAlone'
  <2>1. ASSUME NEW i \in 1..Len(stack')
        PROVE  /\ stack'[i].kind = "load" => object[stack'[i].realm] = "init"
               /\ stack'[i].kind \in Guest /\ object[stack'[i].realm] = "init"
                    => /\ stack'[i].kind = "load"
                       /\ \A j \in 1..Len(stack') : stack'[j] = stack'[i] => j = i
    <3>1. CASE i = Len(stack) + 1 /\ stack'[i] = e
      BY <1>1, <3>1, KindFacts
    <3>2. CASE i \in 1..Len(stack) /\ stack'[i] = stack[i]
      <4>1. ASSUME NEW j \in 1..Len(stack'), stack'[j] = stack'[i],
                   stack[i].kind = "load"
            PROVE  j \in 1..Len(stack) /\ stack[j] = stack[i]
        BY <1>1, <1>6, <3>2, <4>1, KindFacts
      <4> QED BY <3>2, <4>1 DEF RealmInv, LoadsAlone
    <3> QED BY <1>6, <3>1, <3>2
  <2> QED BY <1>4, <2>1 DEF RealmInv, LoadsAlone
<1>9. Requests'
  BY <1>4 DEF RealmInv, Requests, FrameActive
<1>10. EndIsQuiet'
  BY DEF EndIsQuiet
<1> QED BY <1>5, <1>7, <1>8, <1>9, <1>10, <1>11 DEF RealmInv

(* A call returns, and no realm that waits for it is left without a frame. *)
LEMMA PopKeeps ==
  ASSUME RealmInv, stack # <<>>, stack' = Popped, Top.kind # "load",
         \A r \in deferred : FrameActive(Popped, r),
         UNCHANGED <<list, object, env, shadow, deferred, asked, cursor, phase>>
  PROVE  RealmInv'
<1>1. stack \in Seq(Entry)
  BY DEF RealmInv, RealmTypeOK
<1>2. /\ stack' \in Seq(Entry) /\ Len(stack') \in Nat
      /\ \A i \in 1..Len(stack') : i \in 1..Len(stack) /\ stack'[i] = stack[i]
  BY <1>1, PoppedStack
<1>3. RealmTypeOK' /\ ShadowListIsLive' /\ Lifetimes'
  BY <1>2 DEF RealmInv, RealmTypeOK, ShadowListIsLive, Lifetimes
<1>4. StackIsKnown'
  BY <1>2 DEF RealmInv, StackIsKnown
<1>5. LoadsAlone'
  <2>1. \A r : OnStack(stack, r, {"load"}) => OnStack(stack', r, {"load"})
    BY <1>1, PoppedOn
  <2> QED BY <1>2, <2>1 DEF RealmInv, LoadsAlone
<1>6. Requests' /\ FramesHold'
  <2>1. \A x : FrameActive(stack', x) => FrameActive(stack, x)
    BY <1>1, PoppedOn DEF FrameActive
  <2> QED BY <2>1 DEF RealmInv, Requests, FramesHold
<1>7. EndIsQuiet'
  BY DEF RealmInv, EndIsQuiet
<1> QED BY <1>3, <1>4, <1>5, <1>6, <1>7 DEF RealmInv

(***************************************************************************)
(* The end of a realm.                                                     *)
(***************************************************************************)
(* The environment of r goes, perhaps at the return of a call into it: not  *)
(* below a frame unless its object was deleted, and what waits for a frame *)
(* waits on.                                                               *)
LEMMA EndKeeps ==
  ASSUME RealmInv, NEW r \in Realms, env[r] # "none", Finish(r),
         NEW o \in {"init", "alive", "leaked", "deleted"},
         object' = [object EXCEPT ![r] = o],
         o = object[r] \/ (o # "init" /\ ~OnStack(stack', r, {"load"})),
         o = "deleted" \/ ~FrameActive(stack', r),
         list' = list \ {r} \/ (list' = list /\ (r \in asked' => r \in deferred')),
         asked' \subseteq asked \cup {r},
         \/ deferred' = deferred \ {r}
         \/ deferred' = deferred /\ (r \in deferred => FrameActive(stack', r)),
         \/ stack' = stack
         \/ /\ stack # <<>> /\ Top.realm = r /\ stack' = Popped
            /\ Top.kind # "load" \/ o # "init",
         UNCHANGED <<cursor, phase>>
  PROVE  RealmInv'
<1>1. stack \in Seq(Entry) /\ env' = [env EXCEPT ![r] = "gone"]
      /\ shadow' = Without(shadow, r)
  BY DEF RealmInv, RealmTypeOK, Finish
<1>2. /\ stack' \in Seq(Entry) /\ Len(stack') \in Nat
      /\ \A i \in 1..Len(stack') : i \in 1..Len(stack) /\ stack'[i] = stack[i]
  BY <1>1, PoppedStack, LenProperties
<1>3. \A x, kinds : x # r /\ OnStack(stack, x, kinds) => OnStack(stack', x, kinds)
  BY <1>1, PoppedOn
<1>4. /\ shadow' \in Seq(Realms)
      /\ \A i \in 1..Len(shadow') :
           shadow'[i] # r /\ \E j \in 1..Len(shadow) : shadow'[i] = shadow[j]
      /\ \A i, j \in 1..Len(shadow') : shadow'[i] = shadow'[j] => i = j
  BY SMTT(30), <1>1, WithoutFacts DEF RealmInv, RealmTypeOK, ShadowListIsLive
<1>5. /\ env \in [Realms -> {"none", "live", "gone"}]
      /\ object \in [Realms -> {"none", "init", "alive", "leaked", "deleted"}]
  BY DEF RealmInv, RealmTypeOK
<1>6. env'[r] = "gone" /\ object'[r] = o
      /\ \A x \in Realms \ {r} : env'[x] = env[x] /\ object'[x] = object[x]
  BY <1>1, <1>5
<1>7. RealmTypeOK'
  BY <1>1, <1>2, <1>4 DEF RealmInv, RealmTypeOK
<1>8. ShadowListIsLive'
  <2>1. \A j \in 1..Len(shadow) :
          shadow[j] \in Realms /\ env[shadow[j]] = "live" /\ shadow[j] \in list
    BY ElementOfSeq DEF RealmInv, RealmTypeOK, ShadowListIsLive
  <2>2. ASSUME NEW i \in 1..Len(shadow')
        PROVE  env'[shadow'[i]] = "live" /\ shadow'[i] \in list'
    BY SMTT(30), <1>4, <1>6, <2>1
  <2> QED BY <1>4, <2>2 DEF ShadowListIsLive
<1>9. Lifetimes'
  <2>1. ASSUME NEW x \in Realms, object'[x] # "alive"
        PROVE  \A i \in 1..Len(shadow') : shadow'[i] # x
    <3>1. CASE x = r
      BY <1>4, <3>1
    <3>2. CASE x # r
      BY <1>4, <1>6, <2>1, <3>2 DEF RealmInv, Lifetimes
    <3> QED BY <3>1, <3>2
  <2>2. ASSUME NEW x \in Realms
        PROVE  /\ object'[x] = "none" <=> env'[x] = "none"
               /\ env'[x] = "none" => x \notin list' /\ x \notin asked'
               /\ env'[x] = "live" => x \in list' /\ object'[x] \in {"init", "alive"}
    <3>1. CASE x = r
      BY <1>6, <3>1
    <3>2. CASE x # r
      BY <1>6, <3>2 DEF RealmInv, Lifetimes
    <3> QED BY <3>1, <3>2
  <2> QED BY <2>1, <2>2 DEF Lifetimes
<1>11. StackIsKnown'
  BY <1>2, <1>6 DEF RealmInv, StackIsKnown
<1>12. LoadsAlone'
  <2>1. ASSUME NEW i \in 1..Len(stack')
        PROVE  /\ stack'[i].kind = "load" => object'[stack'[i].realm] = "init"
               /\ stack'[i].kind \in Guest /\ object'[stack'[i].realm] = "init"
                    => /\ stack'[i].kind = "load"
                       /\ \A j \in 1..Len(stack') : stack'[j] = stack'[i] => j = i
    <3>1. CASE stack'[i].kind \in Guest /\ stack'[i].realm # r
      <4>1. stack[i].realm \in Realms \ {r}
        BY <1>2, <3>1 DEF RealmInv, StackIsKnown
      <4> QED BY <1>2, <1>6, <4>1 DEF RealmInv, LoadsAlone
    <3>2. CASE stack'[i].kind \notin Guest
      BY <3>2, KindFacts
    <3>3. CASE stack'[i].realm = r /\ o = object[r]
      BY <1>2, <1>6, <3>3 DEF RealmInv, LoadsAlone
    <3>4. CASE stack'[i].realm = r /\ o # object[r]
      BY <1>2, <1>6, <3>4 DEF OnStack
    <3> QED BY <3>1, <3>2, <3>3, <3>4
  <2>2. ASSUME NEW x \in Realms, object'[x] = "init"
        PROVE  OnStack(stack', x, {"load"})
    <3>1. CASE x # r
      <4>1. object[x] = "init"
        BY <1>6, <2>2, <3>1
      <4> QED BY <1>3, <3>1, <4>1 DEF RealmInv, LoadsAlone
    <3>2. CASE x = r
      <4>1. o = "init" /\ object[r] = "init"
        BY <1>6, <2>2, <3>2
      <4>2. OnStack(stack, r, {"load"})
        BY <4>1 DEF RealmInv, LoadsAlone
      <4> QED BY <1>1, <3>2, <4>1, <4>2, PoppedOn
    <3> QED BY <3>1, <3>2
  <2> QED BY <2>1, <2>2 DEF LoadsAlone
<1>13. Requests'
  <2>1. ASSUME NEW x \in deferred' PROVE FrameActive(stack', x)
    <3>1. CASE x = r
      BY <2>1, <3>1
    <3>2. CASE x # r
      <4>1. FrameActive(stack, x)
        BY <2>1, <3>2 DEF RealmInv, Requests
      <4> QED BY <1>3, <3>2, <4>1 DEF FrameActive
    <3> QED BY <3>1, <3>2
  <2>2. ASSUME NEW x \in asked'
        PROVE  x \in deferred' \/ (env'[x] = "gone" /\ x \notin list')
    <3>1. CASE x = r
      BY <1>6, <2>2, <3>1
    <3>2. CASE x # r
      <4>1. x \in asked /\ x \in Realms
        BY <2>2, <3>2 DEF RealmInv, RealmTypeOK
      <4> QED BY <1>6, <3>2, <4>1 DEF RealmInv, Requests
    <3> QED BY <3>1, <3>2
  <2> QED BY <2>1, <2>2 DEF Requests
<1>14. EndIsQuiet'
  BY DEF RealmInv, EndIsQuiet
<1>15. FramesHold'
  <2>1. ASSUME NEW x \in Realms, x # r, FrameActive(stack', x)
        PROVE  FrameActive(stack, x)
    BY <1>1, <2>1, PoppedOn DEF FrameActive
  <2> QED BY <1>6, <2>1 DEF RealmInv, FramesHold
<1> QED BY <1>7, <1>8, <1>9, <1>11, <1>12, <1>13, <1>14, <1>15 DEF RealmInv

(* finish() does nothing for a realm whose environment is gone already.    *)
LEMMA GoneIsFinished ==
  ASSUME RealmInv, NEW r \in Realms, env[r] = "gone", UNCHANGED <<env, shadow>>
  PROVE  Finish(r)
<1>1. \A i \in 1..Len(shadow) : shadow[i] # r
  BY DEF RealmInv, ShadowListIsLive
<1>2. Without(shadow, r) = shadow
  BY <1>1 DEF Without
<1>3. [env EXCEPT ![r] = "gone"] = env
  BY DEF RealmInv, RealmTypeOK
<1> QED BY <1>2, <1>3 DEF Finish

(* After the process crashed nothing is expected. *)
LEMMA CrashKeeps ==
  ASSUME RealmInv, phase' = "crashed",
         UNCHANGED <<list, object, env, shadow, deferred, asked, stack, cursor>>
  PROVE  RealmInv'
<1>1. RealmTypeOK' /\ ShadowListIsLive' /\ FramesHold' /\ Lifetimes'
  BY DEF RealmInv, RealmTypeOK, ShadowListIsLive, FramesHold, Lifetimes
<1>2. StackIsKnown' /\ LoadsAlone' /\ Requests' /\ EndIsQuiet'
  BY DEF RealmInv, StackIsKnown, LoadsAlone, Requests, EndIsQuiet
<1> QED BY <1>1, <1>2 DEF RealmInv

(* terminate() and close() *)
LEMMA RequestKeeps ==
  ASSUME RealmInv, NEW r \in Realms, Request(r), env[r] = "live",
         UNCHANGED <<object, stack, cursor, phase>>
  PROVE  RealmInv'
<1>1. CASE FrameActive(stack, r)
  <2>1. deferred' = deferred \cup {r} /\ asked' = asked \cup {r}
        /\ UNCHANGED <<list, env, shadow>>
    BY <1>1 DEF Request
  <2>2. Requests'
    BY <1>1, <2>1 DEF RealmInv, Requests
  <2>3. RealmTypeOK' /\ ShadowListIsLive' /\ Lifetimes' /\ FramesHold'
    BY <2>1 DEF RealmInv, RealmTypeOK, ShadowListIsLive, Lifetimes, FramesHold
  <2>4. StackIsKnown' /\ LoadsAlone' /\ EndIsQuiet'
    BY <2>1 DEF RealmInv, StackIsKnown, LoadsAlone, EndIsQuiet
  <2> QED BY <2>2, <2>3, <2>4 DEF RealmInv
<1>2. CASE ~FrameActive(stack, r)
  <2>1. Finish(r) /\ list' = list \ {r} /\ deferred' = deferred
        /\ asked' = asked \cup {r}
    BY <1>2 DEF Request, Destroy
  <2>2. r \notin deferred
    BY <1>2 DEF RealmInv, Requests
  <2>3. PICK o \in {"init", "alive", "leaked", "deleted"} : o = object[r]
    BY DEF RealmInv, Lifetimes
  <2>4. object' = [object EXCEPT ![r] = o]
    BY <2>3 DEF RealmInv, RealmTypeOK
  <2> QED BY <1>2, <2>1, <2>2, <2>3, <2>4, EndKeeps
<1> QED BY <1>1, <1>2

(***************************************************************************)
(* The beginning of a realm.                                               *)
(***************************************************************************)
(* An environment joins the owner's list. *)
LEMMA ListedOnce ==
  ASSUME RealmInv, NEW r \in Realms, \A i \in 1..Len(shadow) : shadow[i] # r,
         shadow' = Append(shadow, r)
  PROVE  /\ shadow' \in Seq(Realms)
         /\ \A i \in 1..Len(shadow') :
              shadow'[i] = r \/ \E j \in 1..Len(shadow) : shadow'[i] = shadow[j]
         /\ \A i, j \in 1..Len(shadow') : shadow'[i] = shadow'[j] => i = j
<1>1. shadow \in Seq(Realms) /\ Len(shadow) \in Nat
      /\ \A i, j \in 1..Len(shadow) : shadow[i] = shadow[j] => i = j
  BY LenProperties DEF RealmInv, RealmTypeOK, ShadowListIsLive
<1>2. /\ shadow' \in Seq(Realms) /\ Len(shadow') = Len(shadow) + 1
      /\ \A i \in 1..Len(shadow) : shadow'[i] = shadow[i]
      /\ shadow'[Len(shadow) + 1] = r
  BY <1>1, AppendProperties
<1>3. \A i \in 1..Len(shadow') :
        \/ i \in 1..Len(shadow) /\ shadow'[i] = shadow[i]
        \/ i = Len(shadow) + 1 /\ shadow'[i] = r
  BY <1>1, <1>2
<1> QED BY <1>1, <1>2, <1>3

(* A realm without an environment is nowhere. *)
LEMMA NewIsNowhere ==
  ASSUME RealmInv, NEW r \in Realms, object[r] = "none"
  PROVE  /\ env[r] = "none" /\ r \notin list /\ r \notin asked
         /\ \A i \in 1..Len(shadow) : shadow[i] # r
         /\ \A i \in 1..Len(stack) :
              stack[i].kind \in Guest => stack[i].realm \in Realms \ {r}
  BY DEF RealmInv, Lifetimes, StackIsKnown

LEMMA CreateKeeps ==
  ASSUME RealmInv, NEW r \in Realms, Create(r)
  PROVE  RealmInv'
<1>1. /\ object[r] = "none" /\ phase = "run"
      /\ object' = [object EXCEPT ![r] = "alive"] /\ list' = list \cup {r}
      /\ env' = [env EXCEPT ![r] = "live"] /\ shadow' = Append(shadow, r)
      /\ UNCHANGED <<deferred, asked, stack, cursor, phase>>
  BY DEF Create, HostRuns
<1>2. /\ object' \in [Realms -> {"none", "init", "alive", "leaked", "deleted"}]
      /\ env' \in [Realms -> {"none", "live", "gone"}]
      /\ env'[r] = "live" /\ object'[r] = "alive"
      /\ \A x \in Realms \ {r} : env'[x] = env[x] /\ object'[x] = object[x]
  BY <1>1 DEF RealmInv, RealmTypeOK
<1>3. /\ shadow' \in Seq(Realms)
      /\ \A i \in 1..Len(shadow') :
           shadow'[i] = r \/ \E j \in 1..Len(shadow) : shadow'[i] = shadow[j]
      /\ \A i, j \in 1..Len(shadow') : shadow'[i] = shadow'[j] => i = j
  BY <1>1, NewIsNowhere, ListedOnce
<1>4. RealmTypeOK'
  BY <1>1, <1>2, <1>3 DEF RealmInv, RealmTypeOK
<1>5. ShadowListIsLive'
  <2>1. \A j \in 1..Len(shadow) :
          shadow[j] \in Realms /\ env[shadow[j]] = "live" /\ shadow[j] \in list
    BY ElementOfSeq DEF RealmInv, RealmTypeOK, ShadowListIsLive
  <2>2. ASSUME NEW i \in 1..Len(shadow')
        PROVE  env'[shadow'[i]] = "live" /\ shadow'[i] \in list'
    BY <1>1, <1>2, <1>3, <2>1
  <2> QED BY <1>3, <2>2 DEF ShadowListIsLive
<1>6. Lifetimes'
  <2>1. ASSUME NEW x \in Realms, object'[x] # "alive"
        PROVE  \A i \in 1..Len(shadow') : shadow'[i] # x
    BY <1>2, <1>3, <2>1 DEF RealmInv, Lifetimes
  <2>2. ASSUME NEW x \in Realms
        PROVE  /\ object'[x] = "none" <=> env'[x] = "none"
               /\ env'[x] = "none" => x \notin list' /\ x \notin asked'
               /\ env'[x] = "live" => x \in list' /\ object'[x] \in {"init", "alive"}
    BY <1>1, <1>2 DEF RealmInv, Lifetimes
  <2> QED BY <2>1, <2>2 DEF Lifetimes
<1>7. StackIsKnown'
  BY <1>1, <1>2, NewIsNowhere DEF RealmInv, StackIsKnown
<1>8. LoadsAlone'
  <2>1. \A i \in 1..Len(stack) :
          stack[i].kind \in Guest => object'[stack[i].realm] = object[stack[i].realm]
    BY <1>1, <1>2, NewIsNowhere
  <2>2. \A x \in Realms : object'[x] = "init" => object[x] = "init"
    BY <1>2
  <2> QED BY <1>1, <2>1, <2>2, KindFacts DEF RealmInv, LoadsAlone
<1>9. Requests'
  <2>1. r \notin asked
    BY <1>1, NewIsNowhere
  <2>2. \A x \in asked : x \in Realms
    BY DEF RealmInv, RealmTypeOK
  <2> QED BY <1>1, <1>2, <2>1, <2>2 DEF RealmInv, Requests
<1>10. EndIsQuiet' /\ FramesHold'
  BY <1>1, <1>2 DEF EndIsQuiet, RealmInv, FramesHold
<1> QED BY <1>4, <1>5, <1>6, <1>7, <1>8, <1>9, <1>10 DEF RealmInv

LEMMA CreateAndLoadKeeps ==
  ASSUME RealmInv, NEW r \in Realms, CreateAndLoad(r)
  PROVE  RealmInv'
<1> DEFINE e == [realm |-> r, kind |-> "load"]
<1>1. /\ object[r] = "none" /\ phase = "run"
      /\ object' = [object EXCEPT ![r] = "init"] /\ list' = list \cup {r}
      /\ env' = [env EXCEPT ![r] = "live"] /\ stack' = Append(stack, e)
      /\ UNCHANGED <<shadow, deferred, asked, cursor, phase>>
  BY DEF CreateAndLoad, HostRuns, Push
<1>2. /\ object' \in [Realms -> {"none", "init", "alive", "leaked", "deleted"}]
      /\ env' \in [Realms -> {"none", "live", "gone"}]
      /\ env'[r] = "live" /\ object'[r] = "init"
      /\ \A x \in Realms \ {r} : env'[x] = env[x] /\ object'[x] = object[x]
  BY <1>1 DEF RealmInv, RealmTypeOK
<1>3. stack \in Seq(Entry) /\ e \in Entry /\ e.realm = r /\ e.kind = "load"
  BY KindFacts DEF RealmInv, RealmTypeOK, Entry
<1> HIDE DEF e
<1>4. /\ stack' \in Seq(Entry)
      /\ Len(stack) \in Nat /\ Len(stack') = Len(stack) + 1
      /\ \A i \in 1..Len(stack) : stack'[i] = stack[i]
      /\ stack'[Len(stack) + 1] = e
  BY <1>1, <1>3, PushedStack
<1>5. \A x, kinds : OnStack(stack', x, kinds)
        <=> OnStack(stack, x, kinds) \/ (r = x /\ "load" \in kinds)
  BY <1>1, <1>3, PushedOn
<1>6. \A i \in 1..Len(stack') :
        \/ i \in 1..Len(stack) /\ stack'[i] = stack[i]
        \/ i = Len(stack) + 1 /\ stack'[i] = e
  BY <1>4
<1>7. /\ r \notin list /\ r \notin asked
      /\ \A i \in 1..Len(shadow) : shadow[i] # r
      /\ \A i \in 1..Len(stack) :
           stack[i].kind \in Guest => stack[i].realm \in Realms \ {r}
  BY <1>1, NewIsNowhere
<1>8. RealmTypeOK'
  BY <1>1, <1>2, <1>4 DEF RealmInv, RealmTypeOK
<1>9. ShadowListIsLive'
  <2>1. \A j \in 1..Len(shadow) :
          shadow[j] \in Realms /\ env[shadow[j]] = "live" /\ shadow[j] \in list
    BY ElementOfSeq DEF RealmInv, RealmTypeOK, ShadowListIsLive
  <2> QED BY <1>1, <1>2, <1>7, <2>1 DEF RealmInv, ShadowListIsLive
<1>10. Lifetimes'
  <2>1. ASSUME NEW x \in Realms, object'[x] # "alive"
        PROVE  \A i \in 1..Len(shadow') : shadow'[i] # x
    BY <1>1, <1>2, <1>7, <2>1 DEF RealmInv, Lifetimes
  <2>2. ASSUME NEW x \in Realms
        PROVE  /\ object'[x] = "none" <=> env'[x] = "none"
               /\ env'[x] = "none" => x \notin list' /\ x \notin asked'
               /\ env'[x] = "live" => x \in list' /\ object'[x] \in {"init", "alive"}
    BY <1>1, <1>2 DEF RealmInv, Lifetimes
  <2> QED BY <2>1, <2>2 DEF Lifetimes
<1>11. StackIsKnown'
  BY <1>2, <1>3, <1>6, <1>7 DEF RealmInv, StackIsKnown
<1>12. LoadsAlone'
  <2>1. ASSUME NEW i \in 1..Len(stack')
        PROVE  /\ stack'[i].kind = "load" => object'[stack'[i].realm] = "init"
               /\ stack'[i].kind \in Guest /\ object'[stack'[i].realm] = "init"
                    => /\ stack'[i].kind = "load"
                       /\ \A j \in 1..Len(stack') : stack'[j] = stack'[i] => j = i
    <3>1. CASE i = Len(stack) + 1 /\ stack'[i] = e
      <4>1. \A j \in 1..Len(stack) : stack[j] # e
        BY <1>3, <1>7, KindFacts
      <4> QED BY <1>2, <1>3, <1>6, <3>1, <4>1
    <3>2. CASE i \in 1..Len(stack) /\ stack'[i] = stack[i]
                 /\ stack[i].kind \in Guest
      <4>1. stack[i].realm \in Realms \ {r}
        BY <1>7, <3>2
      <4>2. ASSUME NEW j \in 1..Len(stack'), stack'[j] = stack'[i]
            PROVE  j \in 1..Len(stack) /\ stack[j] = stack[i]
        BY <1>3, <1>6, <3>2, <4>1, <4>2
      <4> QED BY <1>2, <3>2, <4>1, <4>2 DEF RealmInv, LoadsAlone
    <3>3. CASE i \in 1..Len(stack) /\ stack'[i] = stack[i]
                 /\ stack[i].kind \notin Guest
      BY <3>3, KindFacts
    <3> QED BY <1>6, <3>1, <3>2, <3>3
  <2>2. ASSUME NEW x \in Realms, object'[x] = "init"
        PROVE  OnStack(stack', x, {"load"})
    BY <1>2, <1>5, <2>2 DEF RealmInv, LoadsAlone
  <2> QED BY <2>1, <2>2 DEF LoadsAlone
<1>13. Requests'
  <2>1. \A x \in asked : x \in Realms \ {r}
    BY <1>7 DEF RealmInv, RealmTypeOK
  <2>2. \A x \in deferred : FrameActive(stack', x)
    BY <1>5 DEF RealmInv, Requests, FrameActive
  <2> QED BY <1>1, <1>2, <2>1, <2>2 DEF RealmInv, Requests
<1>14. EndIsQuiet' /\ FramesHold'
  <2>1. \A x : FrameActive(stack', x) <=> FrameActive(stack, x)
    BY <1>5, KindFacts DEF FrameActive
  <2> QED BY <1>1, <1>2, <2>1 DEF EndIsQuiet, RealmInv, FramesHold
<1> QED BY <1>8, <1>9, <1>10, <1>11, <1>12, <1>13, <1>14 DEF RealmInv

(* Of a realm whose startup script runs nothing else is on the stack. *)
LEMMA LoadIsAlone ==
  ASSUME RealmInv, NEW r \in Realms, GuestRuns(r), Top.kind = "load"
  PROVE  /\ stack # <<>> /\ Top.realm = r /\ stack \in Seq(Entry)
         /\ object[r] = "init" /\ env[r] = "live" /\ r \in list
         /\ ~OnStack(Popped, r, Guest)
         /\ \A i \in 1..Len(shadow) : shadow[i] # r
         /\ r \notin deferred /\ r \notin asked
<1>1. stack # <<>> /\ Top.realm = r /\ stack \in Seq(Entry)
  BY DEF GuestRuns, GuestOnTop, RealmInv, RealmTypeOK
<1>2. Len(stack) \in 1..Len(stack) /\ Top = stack[Len(stack)]
      /\ Len(Popped) = Len(stack) - 1 /\ Len(stack) \in Nat
      /\ \A i \in 1..Len(Popped) : i \in 1..Len(stack) /\ Popped[i] = stack[i]
  BY <1>1, PoppedStack DEF Top
<1>3. object[r] = "init"
  BY <1>1, <1>2 DEF RealmInv, LoadsAlone
<1>4. env[r] = "live" /\ r \in list /\ \A i \in 1..Len(shadow) : shadow[i] # r
  BY <1>3 DEF GuestRuns, RealmInv, Lifetimes
<1>5. \A i \in 1..Len(stack) :
        stack[i].realm = r /\ stack[i].kind \in Guest => i = Len(stack)
  <2>1. SUFFICES ASSUME NEW i \in 1..Len(stack), stack[i].realm = r,
                        stack[i].kind \in Guest
                 PROVE  i = Len(stack)
    OBVIOUS
  <2>2. stack[i].kind = "load"
    BY <1>3, <2>1 DEF RealmInv, LoadsAlone
  <2>3. stack[i] \in Entry /\ Top \in Entry
    BY <1>1, <1>2, ElementOfSeq
  <2>4. stack[i] = stack[Len(stack)]
    BY <1>1, <1>2, <2>1, <2>2, <2>3 DEF Entry
  <2> QED BY <1>2, <1>3, <2>1, <2>4 DEF RealmInv, LoadsAlone
<1>6. ~OnStack(Popped, r, Guest)
  BY <1>2, <1>5 DEF OnStack
<1>7. ~FrameActive(stack, r)
  BY <1>2, <1>5, KindFacts DEF FrameActive, OnStack
<1>8. r \notin deferred
  BY <1>7 DEF RealmInv, Requests
<1>9. r \notin asked
  BY <1>4, <1>8 DEF RealmInv, Requests
<1> QED BY <1>1, <1>3, <1>4, <1>6, <1>8, <1>9

LEMMA LoadedKeeps ==
  ASSUME RealmInv, NEW r \in Realms, Loaded(r)
  PROVE  RealmInv'
<1>1. /\ stack # <<>> /\ Top.realm = r /\ stack \in Seq(Entry)
      /\ object[r] = "init" /\ env[r] = "live" /\ r \in list
      /\ ~OnStack(Popped, r, Guest)
      /\ \A i \in 1..Len(shadow) : shadow[i] # r
  BY LoadIsAlone DEF Loaded
<1>2. /\ stack' = Popped /\ object' = [object EXCEPT ![r] = "alive"]
      /\ shadow' = Append(shadow, r)
      /\ UNCHANGED <<list, env, deferred, asked, cursor, phase>>
  BY <1>1 DEF Loaded
<1>3. /\ object' \in [Realms -> {"none", "init", "alive", "leaked", "deleted"}]
      /\ object'[r] = "alive" /\ \A x \in Realms \ {r} : object'[x] = object[x]
  BY <1>2 DEF RealmInv, RealmTypeOK
<1>4. /\ shadow' \in Seq(Realms)
      /\ \A i \in 1..Len(shadow') :
           shadow'[i] = r \/ \E j \in 1..Len(shadow) : shadow'[i] = shadow[j]
      /\ \A i, j \in 1..Len(shadow') : shadow'[i] = shadow'[j] => i = j
  BY <1>1, <1>2, ListedOnce
<1>5. /\ stack' \in Seq(Entry) /\ Len(stack') \in Nat
      /\ \A i \in 1..Len(stack') : i \in 1..Len(stack) /\ stack'[i] = stack[i]
  BY <1>1, <1>2, PoppedStack
<1>6. \A x, kinds : x # r /\ OnStack(stack, x, kinds) => OnStack(stack', x, kinds)
  BY <1>1, <1>2, PoppedOn
<1>7. \A i \in 1..Len(stack') : stack'[i].kind \in Guest => stack'[i].realm # r
  BY <1>1, <1>2 DEF OnStack
<1>8. RealmTypeOK'
  BY <1>2, <1>3, <1>4, <1>5 DEF RealmInv, RealmTypeOK
<1>9. ShadowListIsLive'
  BY <1>1, <1>2, <1>4 DEF RealmInv, ShadowListIsLive
<1>10. Lifetimes'
  <2>1. ASSUME NEW x \in Realms, object'[x] # "alive"
        PROVE  \A i \in 1..Len(shadow') : shadow'[i] # x
    BY <1>3, <1>4, <2>1 DEF RealmInv, Lifetimes
  <2>2. ASSUME NEW x \in Realms
        PROVE  /\ object'[x] = "none" <=> env'[x] = "none"
               /\ env'[x] = "none" => x \notin list' /\ x \notin asked'
               /\ env'[x] = "live" => x \in list' /\ object'[x] \in {"init", "alive"}
    BY <1>1, <1>2, <1>3 DEF RealmInv, Lifetimes
  <2> QED BY <2>1, <2>2 DEF Lifetimes
<1>11. StackIsKnown'
  BY <1>2, <1>5 DEF RealmInv, StackIsKnown
<1>12. LoadsAlone'
  <2>1. ASSUME NEW i \in 1..Len(stack')
        PROVE  /\ stack'[i].kind = "load" => object'[stack'[i].realm] = "init"
               /\ stack'[i].kind \in Guest /\ object'[stack'[i].realm] = "init"
                    => /\ stack'[i].kind = "load"
                       /\ \A j \in 1..Len(stack') : stack'[j] = stack'[i] => j = i
    <3>1. CASE stack'[i].kind \in Guest
      <4>1. stack[i].realm \in Realms \ {r}
        BY <1>5, <1>7, <3>1 DEF RealmInv, StackIsKnown
      <4> QED BY <1>3, <1>5, <4>1 DEF RealmInv, LoadsAlone
    <3>2. CASE stack'[i].kind \notin Guest
      BY <3>2, KindFacts
    <3> QED BY <3>1, <3>2
  <2>2. ASSUME NEW x \in Realms, object'[x] = "init"
        PROVE  OnStack(stack', x, {"load"})
    <3>1. x # r /\ object[x] = "init"
      BY <1>3, <2>2
    <3> QED BY <1>6, <3>1 DEF RealmInv, LoadsAlone
  <2> QED BY <2>1, <2>2 DEF LoadsAlone
<1>13. Requests'
  <2>1. ASSUME NEW x \in deferred' PROVE FrameActive(stack', x)
    <3>1. x # r /\ FrameActive(stack, x)
      BY <1>2, <2>1, LoadIsAlone DEF RealmInv, Requests, Loaded
    <3> QED BY <1>6, <3>1 DEF FrameActive
  <2> QED BY <1>2, <2>1 DEF RealmInv, Requests
<1>14. EndIsQuiet' /\ FramesHold'
  <2>1. \A x : FrameActive(stack', x) => FrameActive(stack, x)
    BY <1>1, <1>2, PoppedOn DEF FrameActive
  <2> QED BY <1>1, <1>2, <1>3, <2>1 DEF RealmInv, EndIsQuiet, FramesHold
<1> QED BY <1>8, <1>9, <1>10, <1>11, <1>12, <1>13, <1>14 DEF RealmInv

LEMMA LoadFailedKeeps ==
  ASSUME RealmInv, NEW r \in Realms, LoadFailed(r)
  PROVE  RealmInv'
<1>1. /\ stack # <<>> /\ Top.realm = r /\ env[r] = "live"
      /\ ~OnStack(Popped, r, Guest) /\ r \notin deferred
  BY LoadIsAlone DEF LoadFailed
<1>3. ~OnStack(stack', r, {"load"}) /\ ~FrameActive(stack', r)
  BY <1>1, KindFacts DEF LoadFailed, OnStack, FrameActive
<1>2. /\ stack' = Popped /\ object' = [object EXCEPT ![r] = "leaked"]
      /\ Finish(r) /\ list' = list \ {r} /\ deferred' = deferred \ {r}
      /\ UNCHANGED <<asked, cursor, phase>>
  BY <1>1 DEF LoadFailed, Destroy
<1> QED BY <1>1, <1>2, <1>3, EndKeeps

(***************************************************************************)
(* Steps.                                                                  *)
(***************************************************************************)
LEMMA CollectKeeps ==
  ASSUME RealmInv, NEW r \in Realms, Collect(r)
  PROVE  RealmInv'
<1>1. /\ phase = "run" /\ object[r] = "alive"
      /\ object' = [object EXCEPT ![r] = "deleted"]
      /\ UNCHANGED <<list, deferred, asked, stack, cursor, phase>>
  BY DEF Collect, HostRuns
<1>4. CASE env[r] = "live"
  <2>1. Valid(r)
    BY <1>1, <1>4 DEF Valid, RealmInv, Lifetimes
  <2>2. Finish(r)
    BY <2>1 DEF Collect
  <2>3. r \in asked => r \in deferred
    BY <1>4 DEF RealmInv, Requests
  <2>4. r \in deferred => FrameActive(stack, r)
    BY DEF RealmInv, Requests
  <2>5. ~OnStack(stack, r, {"load"})
    BY <1>1 DEF RealmInv, LoadsAlone, OnStack
  <2> QED BY <1>1, <1>4, <2>2, <2>3, <2>4, <2>5, EndKeeps
<1>5. CASE env[r] # "live"
  <2>1. UNCHANGED <<env, shadow>>
    BY <1>5 DEF Collect, Valid
  <2>2. /\ object' \in [Realms -> {"none", "init", "alive", "leaked", "deleted"}]
        /\ object'[r] = "deleted" /\ \A x \in Realms \ {r} : object'[x] = object[x]
    BY <1>1 DEF RealmInv, RealmTypeOK
  <2>3. RealmTypeOK' /\ ShadowListIsLive'
    BY <1>1, <2>1, <2>2 DEF RealmInv, RealmTypeOK, ShadowListIsLive
  <2>4. Lifetimes'
    <3>1. \A i \in 1..Len(shadow) : shadow[i] # r
      BY <1>5 DEF RealmInv, ShadowListIsLive
    <3>2. ASSUME NEW x \in Realms, object'[x] # "alive"
          PROVE  \A i \in 1..Len(shadow') : shadow'[i] # x
      BY <2>1, <2>2, <3>1, <3>2 DEF RealmInv, Lifetimes
    <3>3. ASSUME NEW x \in Realms
          PROVE  /\ object'[x] = "none" <=> env'[x] = "none"
                 /\ env'[x] = "none" => x \notin list' /\ x \notin asked'
                 /\ env'[x] = "live" => x \in list' /\ object'[x] \in {"init", "alive"}
        BY <1>1, <1>5, <2>1, <2>2 DEF RealmInv, Lifetimes
    <3> QED BY <3>2, <3>3 DEF Lifetimes
  <2>5. StackIsKnown' /\ Requests' /\ EndIsQuiet' /\ FramesHold'
    BY <1>1, <2>1, <2>2
       DEF RealmInv, StackIsKnown, Requests, EndIsQuiet, FramesHold
  <2>6. LoadsAlone'
    <3>1. ASSUME NEW x \in Realms
          PROVE  object'[x] = "init" <=> object[x] = "init"
      BY <1>1, <2>2
    <3>2. \A i \in 1..Len(stack) : stack[i].kind \in Guest =>
            (object'[stack[i].realm] = "init" <=> object[stack[i].realm] = "init")
      BY <3>1 DEF RealmInv, StackIsKnown
    <3> QED BY <1>1, <3>1, <3>2, KindFacts DEF RealmInv, LoadsAlone
  <2> QED BY <2>3, <2>4, <2>5, <2>6 DEF RealmInv
<1> QED BY <1>4, <1>5

(* A call into a guest returns: it is the outermost frame of a realm that  *)
(* waits for its end, or everything that waits is still below a frame.     *)
LEMMA ReturnKeeps ==
  ASSUME RealmInv, NEW r \in Realms, GuestReturn(r)
  PROVE  RealmInv'
<1>1. /\ stack # <<>> /\ Top.realm = r /\ Top.kind \in Guest \ {"load"}
      /\ stack' = Popped /\ UNCHANGED <<object, asked, cursor, phase>>
      /\ stack \in Seq(Entry)
  BY DEF GuestReturn, GuestRuns, GuestOnTop, RealmInv, RealmTypeOK
<1>2. Len(stack) \in 1..Len(stack) /\ Top = stack[Len(stack)]
  BY <1>1, PoppedStack DEF Top
<1>3. CASE Top.kind \in Framed /\ ~FrameActive(Popped, r) /\ r \in deferred
  <2>1. Finish(r) /\ list' = list \ {r} /\ deferred' = deferred \ {r}
    BY <1>3 DEF GuestReturn, Destroy
  <2>2. env[r] = "live"
    BY DEF GuestReturn, GuestRuns
  <2>3. object[r] = "alive"
    BY <1>1, <1>2, <2>2 DEF RealmInv, Lifetimes, LoadsAlone
  <2>4. object' = [object EXCEPT ![r] = "alive"]
    BY <1>1, <2>3 DEF RealmInv, RealmTypeOK
  <2> QED BY <1>1, <1>3, <2>1, <2>2, <2>3, <2>4, EndKeeps
<1>4. CASE ~(Top.kind \in Framed /\ ~FrameActive(Popped, r) /\ r \in deferred)
  <2>1. UNCHANGED <<list, env, shadow, deferred>>
    BY <1>4 DEF GuestReturn
  <2>2. ASSUME NEW x \in deferred PROVE FrameActive(Popped, x)
    <3>1. FrameActive(stack, x)
      BY <2>2 DEF RealmInv, Requests
    <3> QED BY <1>1, <1>4, <2>2, <3>1, PoppedOn DEF FrameActive
  <2> QED BY <1>1, <2>1, <2>2, PopKeeps
<1> QED BY <1>3, <1>4

(* Of a realm below its update no startup script is on the stack. *)
LEMMA UnwindKeeps ==
  ASSUME RealmInv, NEW r \in Realms, GuestUnwinds(r)
  PROVE  RealmInv'
<1>1. /\ stack # <<>> /\ Top.realm = r /\ Top.kind \in Guest /\ env[r] = "gone"
      /\ OnStack(stack, r, {"update"}) /\ stack \in Seq(Entry) /\ phase = "run"
      /\ UNCHANGED <<object, env, shadow, asked, cursor>>
  BY DEF GuestUnwinds, GuestOnTop, Lost, RealmInv, RealmTypeOK
<1>2. Len(stack) \in 1..Len(stack) /\ Top = stack[Len(stack)]
  BY <1>1, PoppedStack DEF Top
<1>3. Top.kind # "load"
  <2> SUFFICES ASSUME Top.kind = "load" PROVE FALSE
    OBVIOUS
  <2>1. object[r] = "init"
    BY <1>1, <1>2 DEF RealmInv, LoadsAlone
  <2>2. PICK i \in 1..Len(stack) : stack[i].realm = r /\ stack[i].kind = "update"
    BY <1>1 DEF OnStack
  <2> QED BY <2>1, <2>2 DEF RealmInv, LoadsAlone, Guest
<1>4. CASE ~FrameActive(Popped, r) /\ r \in deferred
  <2>1. CASE phase' = "crashed"
    <3>1. UNCHANGED <<stack, deferred, list>>
      BY <1>1, <1>4, <2>1 DEF GuestUnwinds, ReadFreed
    <3> QED BY <1>1, <2>1, <3>1, CrashKeeps
  <2>2. CASE phase' # "crashed"
    <3>1. /\ stack' = Popped /\ deferred' = deferred \ {r}
          /\ list' = list \ {r} /\ phase' = phase
      BY <1>4, <2>2 DEF GuestUnwinds, ReadFreed
    <3>2. Finish(r)
      BY <1>1, GoneIsFinished
    <3>3. PICK o \in {"init", "alive", "leaked", "deleted"} : o = object[r]
      BY <1>1 DEF RealmInv, RealmTypeOK, Lifetimes
    <3>4. object' = [object EXCEPT ![r] = o]
      BY <1>1, <3>3 DEF RealmInv, RealmTypeOK
    <3> QED BY <1>1, <1>3, <1>4, <3>1, <3>2, <3>3, <3>4, EndKeeps
  <2> QED BY <2>1, <2>2
<1>5. CASE ~(~FrameActive(Popped, r) /\ r \in deferred)
  <2>1. stack' = Popped /\ UNCHANGED <<list, deferred, phase>>
    BY <1>5 DEF GuestUnwinds
  <2>2. ASSUME NEW x \in deferred PROVE FrameActive(Popped, x)
    <3>1. FrameActive(stack, x)
      BY <2>2 DEF RealmInv, Requests
    <3> QED BY <1>1, <1>5, <2>2, <3>1, PoppedOn DEF FrameActive
  <2> QED BY <1>1, <1>3, <2>1, <2>2, PopKeeps
<1> QED BY <1>4, <1>5

LEMMA HostReturnKeeps ==
  ASSUME RealmInv, HostReturn
  PROVE  RealmInv'
<1>1. /\ stack # <<>> /\ Top.kind = "host" /\ stack' = Popped
      /\ stack \in Seq(Entry)
      /\ UNCHANGED <<list, object, env, shadow, deferred, asked, cursor, phase>>
  BY DEF HostReturn, RealmInv, RealmTypeOK
<1>2. ASSUME NEW x \in deferred PROVE FrameActive(Popped, x)
  <2>1. FrameActive(stack, x)
    BY <1>2 DEF RealmInv, Requests
  <2> QED BY <1>1, <2>1, PoppedOn, KindFacts DEF FrameActive
<1> QED BY <1>1, <1>2, PopKeeps

(* What Environment::update finds in the list is a realm that exists. *)
LEMMA NextIsRealm ==
  ASSUME RealmInv, NEW r \in Realms
  PROVE  NextOf(r) \in Realms \cup {NoRealm}
<1>1. Len(shadow) \in Nat /\ \A i \in 1..Len(shadow) : shadow[i] \in Realms
  BY LenProperties, ElementOfSeq DEF RealmInv, RealmTypeOK
<1>2. CASE \E i \in 1..Len(shadow) - 1 : shadow[i] = r
  <2>1. PICK at \in 1..Len(shadow) - 1 :
          at = CHOOSE i \in 1..Len(shadow) - 1 : shadow[i] = r
    BY <1>2
  <2>2. at + 1 \in 1..Len(shadow)
    BY <1>1
  <2> QED BY <1>1, <1>2, <2>1, <2>2 DEF NextOf
<1>3. CASE ~\E i \in 1..Len(shadow) - 1 : shadow[i] = r
  BY <1>3 DEF NextOf
<1> QED BY <1>2, <1>3

LEMMA UpdateKeeps ==
  ASSUME RealmInv, UpdateRealm
  PROVE  RealmInv'
<1>1. PICK i \in 1..Len(shadow) : shadow[i] = cursor
  BY DEF UpdateRealm
<1>2. /\ cursor \in Realms /\ cursor' = NextOf(cursor)
      /\ stack' = Append(stack, [realm |-> cursor, kind |-> "update"])
      /\ UNCHANGED <<list, object, env, shadow, deferred, asked, phase>>
  BY DEF UpdateRealm, Push
<1>3. env[cursor] = "live"
  BY <1>1 DEF RealmInv, ShadowListIsLive
<1>4. object[cursor] = "alive"
  BY <1>1, <1>2 DEF RealmInv, Lifetimes
<1>5. phase = "run"
  BY DEF UpdateRealm
<1>6. "update" \in Guest \ {"load"} /\ cursor' \in Realms \cup {NoRealm}
  BY <1>2, NextIsRealm DEF Guest
<1> QED BY <1>2, <1>3, <1>4, <1>5, <1>6, PushKeeps

LEMMA RealmStep ==
  ASSUME RealmInv, [Next]_vars
  PROVE  RealmInv'
<1>1. ASSUME NEW r \in Realms, Evaluate(r) \/ PostMessage(r) \/ CallAcross(r)
      PROVE  RealmInv'
  <2>1. PICK k \in {"evaluate", "message", "cross"} :
          /\ stack' = Append(stack, [realm |-> r, kind |-> k])
          /\ UNCHANGED <<list, object, env, shadow, deferred, asked, cursor, phase>>
    BY <1>1 DEF Evaluate, PostMessage, CallAcross, Push
  <2>2. phase = "run" /\ env[r] = "live" /\ object[r] = "alive"
    BY <1>1 DEF Evaluate, PostMessage, CallAcross, HostRuns, Valid
  <2>3. k \in Guest \ {"load"} /\ cursor' \in Realms \cup {NoRealm}
    BY <2>1 DEF Guest, RealmInv, RealmTypeOK
  <2> QED BY <2>1, <2>2, <2>3, PushKeeps
<1>2. ASSUME NEW r \in Realms, CallHost(r) PROVE RealmInv'
  <2>1. /\ stack' = Append(stack, [realm |-> NoRealm, kind |-> "host"])
        /\ UNCHANGED <<list, object, env, shadow, deferred, asked, cursor, phase>>
    BY <1>2 DEF CallHost, Push
  <2>2. phase = "run"
    BY <1>2 DEF CallHost, GuestRuns, GuestOnTop
  <2>3. cursor' \in Realms \cup {NoRealm}
    BY <2>1 DEF RealmInv, RealmTypeOK
  <2> QED BY <2>1, <2>2, <2>3, PushKeeps
<1>3. ASSUME NEW r \in Realms, Terminate(r) \/ Close(r) PROVE RealmInv'
  <2>1. Request(r) /\ UNCHANGED <<object, stack, cursor, phase>>
    BY <1>3 DEF Terminate, Close
  <2>2. env[r] = "live"
    BY <1>3 DEF Terminate, Valid, Close, GuestRuns
  <2> QED BY <2>1, <2>2, RequestKeeps
<1>4. CASE StartUpdate
  <2>1. /\ UNCHANGED <<list, object, env, shadow, deferred, asked, stack, phase>>
        /\ phase = "run" /\ cursor' = Head(shadow) /\ shadow # <<>>
    BY <1>4 DEF StartUpdate
  <2>2. cursor' \in Realms
    BY <2>1, HeadTailProperties DEF RealmInv, RealmTypeOK
  <2>3. RealmTypeOK' /\ ShadowListIsLive' /\ Lifetimes' /\ StackIsKnown' /\ FramesHold'
    BY <2>1, <2>2 DEF RealmInv, RealmTypeOK, ShadowListIsLive, Lifetimes, StackIsKnown, FramesHold
  <2>4. LoadsAlone' /\ Requests' /\ EndIsQuiet'
    BY <2>1 DEF RealmInv, LoadsAlone, Requests, EndIsQuiet
  <2> QED BY <2>3, <2>4 DEF RealmInv
<1>5. CASE StartFinish
  <2>1. /\ UNCHANGED <<list, object, env, shadow, deferred, asked, stack, cursor>>
        /\ phase' = "finishing" /\ stack = <<>> /\ cursor = NoRealm
    BY <1>5 DEF StartFinish, HostRuns
  <2>2. RealmTypeOK' /\ ShadowListIsLive' /\ Lifetimes' /\ StackIsKnown' /\ FramesHold'
    BY <2>1 DEF RealmInv, RealmTypeOK, ShadowListIsLive, Lifetimes, StackIsKnown, FramesHold
  <2>3. LoadsAlone' /\ Requests' /\ EndIsQuiet'
    BY <2>1 DEF RealmInv, LoadsAlone, Requests, EndIsQuiet
  <2> QED BY <2>2, <2>3 DEF RealmInv
<1>6. ASSUME NEW r \in Realms, FinishFirst(r) PROVE RealmInv'
  <2>1. /\ phase = "finishing" /\ r \in list /\ Finish(r) /\ list' = list \ {r}
        /\ UNCHANGED <<object, deferred, asked, stack, cursor, phase>>
    BY <1>6 DEF FinishFirst, Destroy
  <2>2. stack = <<>>
    BY <2>1 DEF RealmInv, EndIsQuiet
  <2>3. \A x, kinds : ~OnStack(stack, x, kinds)
    BY <2>2 DEF OnStack
  <2>4. r \notin deferred
    BY <2>3 DEF RealmInv, Requests, FrameActive
  <2>5. env[r] # "none"
    BY <2>1 DEF RealmInv, RealmTypeOK, Lifetimes
  <2>6. PICK o \in {"init", "alive", "leaked", "deleted"} : o = object[r]
    BY <2>5 DEF RealmInv, RealmTypeOK, Lifetimes
  <2>7. object' = [object EXCEPT ![r] = o] /\ ~FrameActive(stack, r)
    BY <2>1, <2>3, <2>6 DEF RealmInv, RealmTypeOK, FrameActive
  <2> QED BY <2>1, <2>4, <2>5, <2>6, <2>7, EndKeeps
<1>11. ASSUME NEW r \in Realms, FinishFreed(r) PROVE RealmInv'
  <2>1. /\ phase = "finishing" /\ r \in list /\ object[r] = "deleted" /\ ReadFreed(r)
        /\ UNCHANGED <<object, env, shadow, deferred, asked, stack, cursor>>
    BY <1>11 DEF FinishFreed
  <2>2. env[r] = "gone"
    BY <2>1 DEF RealmInv, RealmTypeOK, Lifetimes
  <2>3. CASE list' = list \ {r} /\ UNCHANGED phase
    <3>1. stack = <<>>
      BY <2>1 DEF RealmInv, EndIsQuiet
    <3>2. \A kinds : ~OnStack(stack, r, kinds)
      BY <3>1 DEF OnStack
    <3>3. r \notin deferred
      BY <3>2 DEF RealmInv, Requests, FrameActive
    <3>4. object' = [object EXCEPT ![r] = "deleted"]
      BY <2>1 DEF RealmInv, RealmTypeOK
    <3>5. Finish(r)
      BY <2>1, <2>2, GoneIsFinished
    <3> QED BY <2>1, <2>2, <2>3, <3>3, <3>4, <3>5, EndKeeps
  <2> QED BY <2>1, <2>3, CrashKeeps DEF ReadFreed
<1>7. CASE DisposeOwner
  <2>1. /\ phase = "finishing" /\ list = {} /\ phase' = "finished"
        /\ object' = [r \in Realms |->
                        IF object[r] = "alive" THEN "deleted" ELSE object[r]]
        /\ UNCHANGED <<list, env, shadow, deferred, asked, stack, cursor>>
    BY <1>7 DEF DisposeOwner
  <2>2. stack = <<>> /\ cursor = NoRealm /\ Len(stack) = 0
    BY <2>1 DEF RealmInv, EndIsQuiet
  <2>3. \A r \in Realms : env[r] # "live"
    BY <2>1 DEF RealmInv, Lifetimes
  <2>4. \A i \in 1..Len(shadow) : FALSE
    BY <2>1 DEF RealmInv, ShadowListIsLive
  <2>5. \A r \in Realms :
          /\ object'[r] = "none" <=> object[r] = "none"
          /\ object'[r] = "init" <=> object[r] = "init"
    BY <2>1
  <2>6. RealmTypeOK' /\ ShadowListIsLive'
    BY <2>1 DEF RealmInv, RealmTypeOK, ShadowListIsLive
  <2>7. Lifetimes'
    BY <2>1, <2>3, <2>4, <2>5 DEF RealmInv, Lifetimes
  <2>8. LoadsAlone'
    BY <2>1, <2>2, <2>3, <2>5 DEF RealmInv, Lifetimes, LoadsAlone
  <2>9. StackIsKnown' /\ Requests' /\ EndIsQuiet'
    BY <2>1, <2>2 DEF RealmInv, StackIsKnown, Requests, EndIsQuiet
  <2>10. FramesHold'
    BY <2>1, <2>2 DEF FramesHold, FrameActive, OnStack
  <2> QED BY <2>6, <2>7, <2>8, <2>9, <2>10 DEF RealmInv
<1>8. CASE UNCHANGED vars
  <2>1. RealmTypeOK' /\ ShadowListIsLive' /\ Lifetimes' /\ StackIsKnown' /\ FramesHold'
    BY <1>8 DEF vars, RealmInv, RealmTypeOK, ShadowListIsLive, Lifetimes, StackIsKnown,
             FramesHold
  <2>2. LoadsAlone' /\ Requests' /\ EndIsQuiet'
    BY <1>8 DEF vars, RealmInv, LoadsAlone, Requests, EndIsQuiet
  <2> QED BY <2>1, <2>2 DEF RealmInv
<1>9. ASSUME NEW r \in Realms, HostStep(r) \/ GuestStep(r) PROVE RealmInv'
  BY <1>1, <1>2, <1>3, <1>9, CreateKeeps, CreateAndLoadKeeps, CollectKeeps
     DEF HostStep, GuestStep
<1>10. CASE Leave
  BY <1>10, HostReturnKeeps, ReturnKeeps, UnwindKeeps, LoadedKeeps, LoadFailedKeeps DEF Leave
<1> QED BY <1>4, <1>5, <1>6, <1>7, <1>8, <1>9, <1>10, <1>11, UpdateKeeps DEF Next

LEMMA RealmInvariant == Spec => []RealmInv
<1>1. Init => RealmInv
  BY RealmAssumption
     DEF Init, RealmInv, RealmTypeOK, ShadowListIsLive, FramesHold, Lifetimes,
         StackIsKnown, LoadsAlone, Requests, EndIsQuiet
<1>2. RealmInv /\ [Next]_vars => RealmInv'
  BY RealmStep
<1> QED BY <1>1, <1>2, PTL DEF Spec

(***************************************************************************)
(* For any realms and any depth of the stack:                              *)
(***************************************************************************)
(* the variables keep their types;                                         *)
THEOREM RealmTypeCorrect == Spec => []RealmTypeOK
<1>1. RealmInv => RealmTypeOK
  BY DEF RealmInv
<1> QED BY <1>1, RealmInvariant, PTL

(* terminate() and close() dispose of no realm below a FrameScope of it,   *)
(* from whatever depth they come (destroy_or_defer);                       *)
THEOREM FramesAlwaysHold == Spec => []FramesHold
<1>1. RealmInv => FramesHold
  BY DEF RealmInv
<1> QED BY <1>1, RealmInvariant, PTL

(* a realm that was terminated or closed is disposed and unregistered, or  *)
(* one of its frames is still on the stack (drain_deferred);               *)
THEOREM TerminateAlwaysTakesEffect == Spec => []TerminateTakesEffect
<1>1. RealmInv => TerminateTakesEffect
  BY DEF RealmInv, Requests, TerminateTakesEffect
<1> QED BY <1>1, RealmInvariant, PTL

(* and shadow_env_list_ of the owner holds environments that exist, each of *)
(* them once.                                                              *)
THEOREM ShadowListAlwaysLive == Spec => []ShadowListIsLive
<1>1. RealmInv => ShadowListIsLive
  BY DEF RealmInv
<1> QED BY <1>1, RealmInvariant, PTL
=============================================================================
