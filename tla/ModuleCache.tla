----------------------------- MODULE ModuleCache -----------------------------
(***************************************************************************)
(* The modules of one environment: require and Environment::load, the      *)
(* reload of changed files, and the imports that an asynchronous loader    *)
(* answers.  Everything runs on the thread of the environment; what makes  *)
(* it hard is that evaluating a module runs its code, which requires and   *)
(* imports others and answers earlier imports, and that the files change   *)
(* under it.                                                               *)
(*                                                                         *)
(* A module is known by the key it has in the cache: the path of its file, *)
(* the id of an AMD library, or the id it was imported with.  What an id   *)
(* resolves to is the constant PathOf.                                     *)
(*                                                                         *)
(* Opening a file, its time, its hash and its text are read in one step:   *)
(* nobody writes a file in between.  A hash is as good as the text.        *)
(***************************************************************************)
EXTENDS Naturals, Sequences, FiniteSets

CONSTANTS
  Files,         \* paths that the resolver finds, if the file is there
  Libs,          \* ids of the AMD libraries
  Names,         \* ids that are neither
  PathOf,        \* the file that an id in Names resolves to
  Scripts,       \* files whose modules export a script class
  Texts,         \* sources, all of them evaluable
  Blank,         \* the empty source
  None,          \* no source: a missing file, nothing evaluated yet
  EmptiesMarked, \* may a file be emptied between the moment a change of it is
                 \* noticed and the reload?
  MaxEdits,      \* bound: changes to the files
  MaxImports     \* bound: imports

ASSUME ModuleCacheAssumption ==
  /\ Files \cap Libs = {} /\ Names \cap (Files \cup Libs) = {}
  /\ PathOf \in [Names -> Files]
  /\ Scripts \subseteq Files
  /\ Texts # {} /\ Blank \notin Texts /\ None \notin Texts /\ Blank # None
  /\ EmptiesMarked \in BOOLEAN
  /\ MaxEdits \in Nat /\ MaxImports \in Nat

VARIABLES
  disk,     \* the files: [text, time]
  modules,  \* module_cache_: a function on the keys that are in it
  stack,    \* the modules that are being evaluated, the innermost one first
  todo,     \* what scan_external_changes found and has still to load
  imports   \* the imports, in the order they were made

vars == <<disk, modules, stack, todo, imports>>

Keys == Files \cup Libs \cup Names
Sources == Texts \cup {Blank}

\* ran, failed and nested are kept by the model: the source that was handed to
\* the engine last, whether that evaluation threw, and whether it was handed
\* over while an older one of the same module went on.
Module ==
  [loaded : BOOLEAN, exports : Texts \cup {None}, ran : Texts \cup {None},
   failed : BOOLEAN, nested : BOOLEAN, reload : BOOLEAN, time : 0..MaxEdits + 1,
   hash : Sources \cup {None}, script : BOOLEAN, path : BOOLEAN]

Frame == [key : Keys, src : Texts, kind : {"new", "again", "library"}]
         \cup [key : Keys, src : Texts, kind : {"answer"},
               token : 1..MaxImports]

Import == [key : Keys, state : {"pending", "running", "resolved", "rejected"}]

Cached(k) == k \in DOMAIN modules
Evaluating(k) == \E i \in 1..Len(stack) : stack[i].key = k
Idle == stack = <<>> /\ todo = {}

Fresh == [loaded |-> FALSE, exports |-> None, ran |-> None, failed |-> FALSE,
          nested |-> FALSE, reload |-> FALSE, time |-> 0, hash |-> None,
          script |-> FALSE, path |-> FALSE]

With(k, m) == [x \in DOMAIN modules \cup {k} |->
                 IF x = k THEN m ELSE modules[x]]

ModuleTypeOK ==
  /\ disk \in [Files -> [text : Sources \cup {None}, time : 0..MaxEdits + 1]]
  /\ DOMAIN modules \subseteq Keys
  /\ \A k \in DOMAIN modules : modules[k] \in Module
  /\ stack \in Seq(Frame)
  /\ todo \subseteq Files
  /\ imports \in Seq(Import)
  /\ Len(imports) <= MaxImports

Init ==
  /\ disk \in [Files -> [text : {CHOOSE t \in Texts : TRUE}, time : {1}]]
  /\ modules = <<>>
  /\ stack = <<>> /\ todo = {} /\ imports = <<>>
-----------------------------------------------------------------------------
(* Somebody writes, empties, touches or deletes a file, at a later time than *)
(* every file was written before.                                           *)
Edit(f, s) ==
  /\ s = Blank => EmptiesMarked \/ ~(Cached(f) /\ modules[f].reload)
  /\ \E now \in 1..MaxEdits + 1 :
       /\ \A g \in Files : disk[g].time < now
       /\ \E g \in Files : disk[g].time = now - 1
       /\ disk' = [disk EXCEPT ![f] = [text |-> s, time |-> now]]
  /\ UNCHANGED <<modules, stack, todo, imports>>

-----------------------------------------------------------------------------
\* A missing file has the modification time 0.
TimeOf(f) == IF disk[f].text = None THEN 0 ELSE disk[f].time

(* JavaScriptModule::is_reloadable and mark_as_reloading: the module with   *)
(* what it noticed of its file.                                             *)
Reloadable(m) == m.time # 0 /\ m.path

\* Mutant: the hash is recorded before it is compared.
NoticedHashFirst(f) ==
  LET m == modules[f] IN
  IF ~Reloadable(m) \/ TimeOf(f) \in {0, m.time} THEN m
  ELSE [m EXCEPT !.time = TimeOf(f), !.hash = disk[f].text]

Noticed(f) ==
  LET m == modules[f] IN
  IF ~Reloadable(m) \/ TimeOf(f) \in {0, m.time} THEN m
  ELSE [m EXCEPT !.time = TimeOf(f), !.hash = disk[f].text,
                 !.reload = @ \/ m.hash # disk[f].text]

\* Mutant: a scan passes over modules that never came to their end.
ChangedLoaded(f) == modules[f].loaded /\ Noticed(f).hash # modules[f].hash

Changed(f) == Noticed(f).time # modules[f].time
              /\ Noticed(f).hash # modules[f].hash

(* Environment::mark_as_reloading: the engine reloads a script.  The module *)
(* is loaded again when something needs the script.                         *)
Mark(f) ==
  /\ Idle
  /\ Cached(f) /\ modules[f].script /\ ~modules[f].reload
  /\ modules' = With(f, Noticed(f))
  /\ UNCHANGED <<disk, stack, todo, imports>>

(* Environment::scan_external_changes, its first loop.                      *)
Scan ==
  LET scanned == {f \in Files \cap DOMAIN modules : ~modules[f].script}
  IN /\ Idle
     /\ modules' = [k \in DOMAIN modules |->
                      IF k \in scanned THEN Noticed(k) ELSE modules[k]]
     /\ todo' = {f \in scanned : Changed(f)}
     /\ UNCHANGED <<disk, stack, imports>>
-----------------------------------------------------------------------------
Push(k, m, frame) ==
  /\ modules' = With(k, m)
  /\ stack' = <<frame>> \o stack

(* DefaultModuleResolver::load.  An empty file throws before anything is    *)
(* recorded; the module stays as it is, in the cache.                       *)

\* Mutant: an empty file is compiled and evaluated.
ReadEmpty(f, m, kind) ==
  LET s == disk[f].text IN
  Push(f, [m EXCEPT !.time = disk[f].time, !.hash = s, !.ran = s,
                    !.failed = FALSE, !.nested = FALSE],
       [key |-> f, src |-> s, kind |-> kind])

Read(f, m, kind) ==
  LET s == disk[f].text IN
  IF s = Blank
  THEN modules' = With(f, m) /\ UNCHANGED stack
  ELSE Push(f, [m EXCEPT !.time = disk[f].time, !.hash = s, !.ran = s,
                         !.failed = FALSE, !.nested = FALSE],
            [key |-> f, src |-> s, kind |-> kind])

Target(id) == IF id \in Names THEN PathOf[id] ELSE id

(* Environment::_load_module, for an id that the cache does not have or     *)
(* whose module is to be reloaded.                                          *)
LoadLibrary(id) ==
  /\ id \in Libs /\ ~Cached(id)
  /\ LET s == CHOOSE t \in Texts : TRUE IN
     Push(id, [Fresh EXCEPT !.ran = s],
          [key |-> id, src |-> s, kind |-> "library"])

LoadNew(f) ==
  /\ disk[f].text # None
  /\ ~Cached(f)
  /\ Read(f, [Fresh EXCEPT !.path = TRUE], "new")

\* Mutant: the mark stays until somebody takes it away after the evaluation.
LoadAgainMarked(f) ==
  /\ disk[f].text # None
  /\ Cached(f) /\ modules[f].reload
  /\ Read(f, modules[f], "again")

LoadAgain(f) ==
  /\ disk[f].text # None
  /\ Cached(f) /\ modules[f].reload
  /\ Read(f, [modules[f] EXCEPT !.reload = FALSE], "again")

Missed(id) == Cached(id) => modules[id].reload

(* The module that runs requires another one, or the host loads one.  A hit *)
(* changes nothing.                                                         *)
Require(id) ==
  /\ stack = <<>> => todo = {}
  /\ Missed(id)
  /\ \/ LoadLibrary(id)
     \/ id \notin Libs /\ (LoadNew(Target(id)) \/ LoadAgain(Target(id)))
  /\ UNCHANGED <<disk, todo, imports>>

(* scan_external_changes, its second loop: what a module above has loaded   *)
(* meanwhile is a hit, and a file that is gone is not found.                *)
ScanNext(f) ==
  /\ stack = <<>> /\ f \in todo
  /\ todo' = todo \ {f}
  /\ \/ LoadAgain(f)
     \/ /\ modules[f].reload => disk[f].text = None
        /\ UNCHANGED <<modules, stack>>
  /\ UNCHANGED <<disk, imports>>
-----------------------------------------------------------------------------
Answered(fr, state) ==
  IF fr.kind = "answer" THEN [imports EXCEPT ![fr.token].state = state]
  ELSE imports

(* The evaluation ends: the exports are taken from the module object.  A    *)
(* module that is loaded for the first time, or for an import, is told so   *)
(* (on_load) and marked as loaded; one that was reloaded is not.            *)

\* Mutant: the exports are taken only from a module that is told.
FinishKeeps ==
  /\ stack # <<>>
  /\ LET fr == Head(stack)
         m == modules[fr.key]
         told == fr.kind # "again"
     IN /\ modules' = IF ~told THEN modules
                      ELSE With(fr.key, [m EXCEPT !.exports = fr.src,
                                                  !.loaded = TRUE])
        /\ imports' = Answered(fr, "resolved")
  /\ stack' = Tail(stack)
  /\ UNCHANGED <<disk, todo>>

Finish ==
  /\ stack # <<>>
  /\ LET fr == Head(stack)
         m == modules[fr.key]
         told == fr.kind # "again"
     IN /\ modules' = With(fr.key,
             [m EXCEPT !.exports = fr.src, !.loaded = @ \/ told,
                       !.script = @ \/ (fr.kind \in {"new", "again"}
                                        /\ fr.key \in Scripts)])
        /\ imports' = Answered(fr, "resolved")
  /\ stack' = Tail(stack)
  /\ UNCHANGED <<disk, todo>>

(* The source does not compile or the evaluation throws: the module stays   *)
(* in the cache.  The caller may catch the exception.                       *)
Throw ==
  /\ stack # <<>>
  /\ LET fr == Head(stack) IN
     /\ modules' = With(fr.key, [modules[fr.key] EXCEPT !.failed = TRUE])
     /\ imports' = Answered(fr, "rejected")
  /\ stack' = Tail(stack)
  /\ UNCHANGED <<disk, todo>>

-----------------------------------------------------------------------------
(* AsyncModuleManager::_import: JavaScript asks for a module.               *)
ImportModule(id) ==
  /\ Len(imports) < MaxImports
  /\ imports' = Append(imports, [key |-> id, state |-> "pending"])
  /\ UNCHANGED <<disk, modules, stack, todo>>

(* AsyncModuleManager::_mark_as_handled: the loader calls resolve with a    *)
(* source, or reject.  It answers once; a cached module is evaluated anew,  *)
(* even one whose evaluation has not ended.                                 *)
Pending(t) == t \in DOMAIN imports /\ imports[t].state = "pending"

Resolve(t, s) ==
  /\ Pending(t)
  /\ LET k == imports[t].key
         m == IF Cached(k) THEN modules[k] ELSE Fresh
     IN Push(k, [m EXCEPT !.reload = FALSE, !.time = 0, !.hash = None,
                          !.ran = s, !.failed = FALSE,
                          !.nested = Evaluating(k)],
             [key |-> k, src |-> s, kind |-> "answer", token |-> t])
  /\ imports' = [imports EXCEPT ![t].state = "running"]
  /\ UNCHANGED <<disk, todo>>

Reject(t) ==
  /\ Pending(t)
  /\ imports' = [imports EXCEPT ![t].state = "rejected"]
  /\ UNCHANGED <<disk, modules, stack, todo>>
-----------------------------------------------------------------------------
Next ==
  \/ \E f \in Files, s \in Sources \cup {None} : Edit(f, s)
  \/ \E f \in Files : Mark(f)
  \/ Scan
  \/ \E f \in Files : ScanNext(f)
  \/ \E id \in Keys : Require(id)
  \/ Finish
  \/ Throw
  \/ \E id \in Keys : ImportModule(id)
  \/ \E t \in 1..MaxImports, s \in Texts : Resolve(t, s)
  \/ \E t \in 1..MaxImports : Reject(t)

(* Evaluations end, the loop of a scan goes on, and the editor scans again  *)
(* and again (it does so whenever its window gets the focus).               *)
Ends == Finish \/ Throw
Fairness ==
  /\ WF_vars(Ends)
  /\ \A f \in Files : WF_vars(ScanNext(f))
  /\ WF_vars(Scan)

Spec == Init /\ [][Next]_vars /\ Fairness
-----------------------------------------------------------------------------
(* A file module that nobody marked for a reload and whose recorded time is *)
(* that of its file was handed to the engine with the text that the file    *)
(* has.  Otherwise no scan would ever find the difference.  An empty file   *)
(* is noticed but not evaluated.                                            *)
CurrentUnlessMarked ==
  \A f \in Files \cap DOMAIN modules :
    LET m == modules[f] IN
    Reloadable(m) /\ ~m.reload /\ m.time = TimeOf(f)
      => disk[f].text \in {m.ran, Blank}

(* Whatever was required, reloaded, imported and thrown on the way: a       *)
(* module that is not being evaluated and whose last evaluation did not     *)
(* throw has the exports of that evaluation.  An import that is answered    *)
(* while an older evaluation of the module goes on is left out: the older   *)
(* one ends last, and the exports that are taken then may be its own.       *)
ExportsAreComplete ==
  \A k \in DOMAIN modules :
    LET m == modules[k] IN
    ~Evaluating(k) /\ ~m.failed /\ ~m.nested => m.exports = m.ran

(* No require, load or reload evaluates a module within its own evaluation, *)
(* however dependencies go round: the one that is half done is handed out   *)
(* instead.  The answer of an import does: nothing in _mark_as_handled asks *)
(* whether the module is being evaluated.  The innermost frame is the first.*)
EvaluatedOnce ==
  \A i, j \in 1..Len(stack) :
    i < j /\ stack[i].key = stack[j].key => stack[i].kind = "answer"

(* The module of f runs another text than the one its file has.             *)
Behind(f) ==
  \E m \in {modules[k] : k \in DOMAIN modules \cap {f}} :
    Reloadable(m) /\ disk[f].text \in Texts \ {m.ran}

(* Hot reloading: what is written to the file of a reloadable module, other *)
(* than a script's, is evaluated in the end.  This needs a file that is     *)
(* never missing: a module that is marked while its file is gone is found   *)
(* by no later scan.                                                        *)
EditsArrive ==
  \A f \in Files \ Scripts :
    [](disk[f].text # None) => (Behind(f) ~> ~Behind(f))
=============================================================================
