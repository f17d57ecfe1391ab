--------------------------- MODULE WorkerProofs ---------------------------
(***************************************************************************)
(* Proofs about module Worker, for every set of workers, nested or not,    *)
(* under V8's or QuickJS's termination, with any scripts and any number of *)
(* messages: type correctness, and the safety of the registry, of          *)
(* Worker::finish, of TerminateExecution and of the owner's disposal.      *)
(***************************************************************************)
EXTENDS Worker, DoubleBufferedProofs

(* The operators that only bundle assignments. *)
USE DEF Moves, Go, NotThread, NotKiller, NotOwner, NotMain, Step, EnterFinish,
        threadVars, inboxVars, ownerVars, replyVars, drainVars, killVars

(***************************************************************************)
(* Type correctness.                                                       *)
(***************************************************************************)
LEMMA InitTyped == Init => WorkerTypeOK
<1> SUFFICES ASSUME Init PROVE WorkerTypeOK
  OBVIOUS
<1>1. /\ interrupt \in [Workers -> BOOLEAN]
      /\ envRef \in [Workers -> BOOLEAN]
      /\ terminating \in [Workers -> BOOLEAN]
      /\ draining \in BOOLEAN
  BY Zenon DEF Init
<1>2. /\ NewBuffers \in Buffers(Nat) /\ NewBuffers \in Buffers(Reply)
      /\ <<>> \in Seq(Nat)
  BY NewBuffersByRole, EmptySeq
<1> QED BY <1>1, <1>2 DEF Init, WorkerTypeOK, Killer

LEMMA PostTyped ==
  ASSUME WorkerTypeOK, NEW w \in Workers, PostToOwner(w)
  PROVE  ownerInbox' \in Buffers(Reply) /\ sent' \in [Workers -> Nat]
<1>1. sent[w] + 1 \in Nat
  BY DEF WorkerTypeOK
<1>2. [from |-> w, n |-> sent[w] + 1] \in Reply
  BY <1>1 DEF Reply
<1>3. CASE owner = "disposed"
  BY <1>3 DEF PostToOwner, WorkerTypeOK
<1>4. CASE owner # "disposed"
  <2>1. ownerInbox \in Buffers(Reply)
    BY DEF WorkerTypeOK
  <2>2. Add(ownerInbox, [from |-> w, n |-> sent[w] + 1]) \in Buffers(Reply)
    BY <1>2, <2>1, AddByRole
  <2> QED BY <1>1, <1>4, <2>2 DEF PostToOwner, WorkerTypeOK
<1> QED BY <1>3, <1>4

LEMMA UnwoundTyped ==
  ASSUME WorkerTypeOK, NEW w \in Workers, Unwound(w)
  PROVE  terminating' \in [Workers -> BOOLEAN]
<1>1. (terminating[w] /\ Sticky) \in BOOLEAN
  OBVIOUS
<1> QED BY <1>1 DEF Unwound, WorkerTypeOK

LEMMA ThreadTyped ==
  ASSUME WorkerTypeOK, NEW w \in Workers, ThreadStep(w)
  PROVE  WorkerTypeOK'
<1>1. CASE CheckStart(w)
  BY <1>1, ZenonT(30) DEF CheckStart, WorkerTypeOK
<1>2. CASE AssignEnv(w)
  BY <1>2 DEF AssignEnv, WorkerTypeOK
<1>3. CASE InitDone(w)
  BY <1>3 DEF InitDone, WorkerTypeOK
<1>4. CASE InitKilled(w)
  BY <1>4, UnwoundTyped DEF InitKilled, WorkerTypeOK
<1>5. CASE LoadOk(w)
  BY <1>5 DEF LoadOk, WorkerTypeOK
<1>6. CASE LoadFail(w)
  <2>1. PostToOwner(w) /\ Unwound(w)
    BY <1>6 DEF LoadFail
  <2>2. /\ ownerInbox' \in Buffers(Reply) /\ sent' \in [Workers -> Nat]
        /\ terminating' \in [Workers -> BOOLEAN]
    BY <2>1, UnwoundTyped, PostTyped
  <2>3. /\ pc' = [pc EXCEPT ![w] = "shutdown"]
        /\ UNCHANGED <<envRef, env, interrupt, inboxVars, list, lock, posted,
                       ownerVars, drainVars, killVars, main>>
    BY <1>6 DEF LoadFail
  <2> QED BY <2>2, <2>3 DEF WorkerTypeOK
<1>7. CASE OnReady(w)
  <2>1. ownerInbox' \in Buffers(Reply) /\ sent' \in [Workers -> Nat]
    BY <1>7, PostTyped DEF OnReady, WorkerTypeOK
  <2> QED BY <1>7, <2>1 DEF OnReady, WorkerTypeOK
<1>8. CASE PollInbox(w)
  BY <1>8, SwapByRole DEF PollInbox, WorkerTypeOK
<1>9. CASE StopLoop(w)
  BY <1>9 DEF StopLoop, WorkerTypeOK
<1>10. CASE NextMessage(w)
  <2>1. /\ Handed(inbox[w]) \in Seq(Nat)
        /\ handled[w] \in Seq(Nat)
        /\ at[w] \in Nat
    BY BuffersByRole DEF WorkerTypeOK
  <2>2. Handed(inbox[w])[at[w] + 1] \in Nat
    BY <1>10, <2>1, LenProperties DEF NextMessage
  <2>3. Append(handled[w], Handed(inbox[w])[at[w] + 1]) \in Seq(Nat)
    BY <2>1, <2>2, AppendProperties
  <2>4. handled' \in [Workers -> Seq(Nat)]
    BY <1>10, <2>3 DEF NextMessage, WorkerTypeOK
  <2>5. at' \in [Workers -> Nat]
    <3>1. at' = [at EXCEPT ![w] = at[w] + 1]
      BY <1>10 DEF NextMessage
    <3>2. at[w] + 1 \in Nat
      BY <2>1
    <3> QED BY <3>1, <3>2 DEF WorkerTypeOK
  <2> QED BY <1>10, <2>4, <2>5 DEF NextMessage, WorkerTypeOK
<1>11. CASE MessageReturn(w)
  BY <1>11 DEF MessageReturn, WorkerTypeOK
<1>12. CASE MessageThrow(w)
  <2>1. PostToOwner(w) /\ Unwound(w)
    BY <1>12 DEF MessageThrow
  <2>2. /\ ownerInbox' \in Buffers(Reply) /\ sent' \in [Workers -> Nat]
        /\ terminating' \in [Workers -> BOOLEAN]
    BY <2>1, UnwoundTyped, PostTyped
  <2>3. /\ pc' = [pc EXCEPT ![w] = "drain"]
        /\ UNCHANGED <<envRef, env, interrupt, inboxVars, list, lock, posted,
                       ownerVars, drainVars, killVars, main>>
    BY <1>12 DEF MessageThrow
  <2> QED BY <2>2, <2>3 DEF WorkerTypeOK
<1>13. CASE ClearInbox(w)
  BY <1>13, ClearByRole DEF ClearInbox, WorkerTypeOK
<1>14. CASE UpdateDone(w)
  BY <1>14 DEF UpdateDone, WorkerTypeOK
<1>15. CASE ShutdownEnv(w)
  BY <1>15 DEF ShutdownEnv, WorkerTypeOK
<1>16. CASE ResetEnv(w)
  BY <1>16 DEF ResetEnv, WorkerTypeOK
<1>17. CASE LeaveRun(w)
  BY <1>17 DEF LeaveRun, WorkerTypeOK
<1> QED BY <1>1, <1>2, <1>3, <1>4, <1>5, <1>6, <1>7, <1>8, <1>9, <1>10, <1>11,
           <1>12, <1>13, <1>14, <1>15, <1>16, <1>17 DEF ThreadStep

LEMMA ReturnTyped ==
  ASSUME WorkerTypeOK, NEW t \in Killer, Return(t)
  PROVE  /\ kpc' \in [Killer -> {"idle", "flag", "set", "copy", "grab", "call",
                      "fault"}]
         /\ lock' \in {"nobody", "owner"}
         /\ target' \in [Killer -> Workers \cup {NoWorker}]
         /\ main' \in {"run", "pick", "signal", "join", "remove", "done"}
<1>1. CASE t = "owner"
  BY <1>1 DEF Return, WorkerTypeOK
<1>2. CASE t # "owner"
  BY <1>2 DEF Return, WorkerTypeOK
<1> QED BY <1>1, <1>2

LEMMA StepTyped ==
  ASSUME WorkerTypeOK, NEW t \in Killer,
         NEW to \in {"idle", "flag", "set", "copy", "grab", "call",
                      "fault"}, Step(t, to)
  PROVE  /\ kpc' \in [Killer -> {"idle", "flag", "set", "copy", "grab", "call",
                      "fault"}]
         /\ lock' \in {"nobody", "owner"}
         /\ target' \in [Killer -> Workers \cup {NoWorker}]
         /\ main' \in {"run", "pick", "signal", "join", "remove", "done"}
BY DEF WorkerTypeOK

LEMMA OtherTyped ==
  ASSUME WorkerTypeOK, [Next]_vars,
         \A w \in Workers : ~ThreadStep(w)
  PROVE  WorkerTypeOK'
<1>1. ASSUME NEW w \in Workers, JsPost(w) PROVE WorkerTypeOK'
  BY <1>1, PostTyped DEF JsPost, WorkerTypeOK
<1>2. ASSUME NEW w \in Workers, TimerThrow(w) PROVE WorkerTypeOK'
  BY <1>2, PostTyped DEF TimerThrow, WorkerTypeOK
<1>3. ASSUME NEW w \in Workers, JsClose(w) PROVE WorkerTypeOK'
  BY <1>3 DEF JsClose, WorkerTypeOK
<1>4. ASSUME NEW t \in Killer, CheckFlag(t) \/ SetFlag(t) PROVE WorkerTypeOK'
  <2>1. /\ kpc' \in [Killer -> {"idle", "flag", "set", "copy", "grab", "call",
                      "fault"}]
        /\ lock' \in {"nobody", "owner"}
        /\ target' \in [Killer -> Workers \cup {NoWorker}]
        /\ main' \in {"run", "pick", "signal", "join", "remove", "done"}
    BY <1>4, ReturnTyped, StepTyped DEF CheckFlag, SetFlag
  <2>2. interrupt' \in [Workers -> BOOLEAN]
    BY <1>4 DEF CheckFlag, SetFlag, WorkerTypeOK
  <2> QED BY <1>4, <2>1, <2>2 DEF CheckFlag, SetFlag, WorkerTypeOK
<1>5. ASSUME NEW t \in Killer, ReadEnv(t) PROVE WorkerTypeOK'
  <2>1. /\ kpc' \in [Killer -> {"idle", "flag", "set", "copy", "grab", "call",
                      "fault"}]
        /\ lock' \in {"nobody", "owner"}
        /\ target' \in [Killer -> Workers \cup {NoWorker}]
        /\ main' \in {"run", "pick", "signal", "join", "remove", "done"}
    BY <1>5, ReturnTyped, StepTyped DEF ReadEnv
  <2>2. UNCHANGED <<interrupt, terminating, env>>
    BY <1>5 DEF ReadEnv, WorkerTypeOK
  <2> QED BY <1>5, <2>1, <2>2 DEF ReadEnv, WorkerTypeOK
<1>6. ASSUME NEW t \in Killer, GrabEnv(t) PROVE WorkerTypeOK'
  <2>1. /\ kpc' \in [Killer -> {"idle", "flag", "set", "copy", "grab", "call",
                      "fault"}]
        /\ lock' \in {"nobody", "owner"}
        /\ target' \in [Killer -> Workers \cup {NoWorker}]
        /\ main' \in {"run", "pick", "signal", "join", "remove", "done"}
    BY <1>6, ReturnTyped, StepTyped DEF GrabEnv
  <2>2. UNCHANGED <<interrupt, terminating, env>>
    BY <1>6 DEF GrabEnv, WorkerTypeOK
  <2> QED BY <1>6, <2>1, <2>2 DEF GrabEnv, WorkerTypeOK
<1>7. ASSUME NEW t \in Killer, TerminateEnv(t) PROVE WorkerTypeOK'
  <2>1. /\ kpc' \in [Killer -> {"idle", "flag", "set", "copy", "grab", "call",
                      "fault"}]
        /\ lock' \in {"nobody", "owner"}
        /\ target' \in [Killer -> Workers \cup {NoWorker}]
        /\ main' \in {"run", "pick", "signal", "join", "remove", "done"}
    BY <1>7, ReturnTyped, StepTyped DEF TerminateEnv
  <2>2. /\ terminating' \in [Workers -> BOOLEAN]
        /\ env' \in [Workers -> {"none", "live", "disposed", "destructed"}]
    BY <1>7 DEF TerminateEnv, WorkerTypeOK
  <2> QED BY <1>7, <2>1, <2>2 DEF TerminateEnv, WorkerTypeOK
<1>8. ASSUME NEW w \in Workers, Create(w) PROVE WorkerTypeOK'
  BY <1>8 DEF Create, WorkerTypeOK
<1>9. ASSUME NEW w \in Workers, BeginPost(w) PROVE WorkerTypeOK'
  BY <1>9 DEF BeginPost, WorkerTypeOK
<1>10. ASSUME NEW w \in Workers, Terminate(w) PROVE WorkerTypeOK'
  BY <1>10 DEF Terminate, Killer, WorkerTypeOK
<1>11. ASSUME NEW w \in Workers, Collect(w) PROVE WorkerTypeOK'
  <2>1. CASE w \in list
    <3>1. EnterFinish(w)
      BY <1>11, <2>1 DEF Collect
    <3>2. /\ kpc' \in [Killer -> {"idle", "flag", "set", "copy", "grab", "call",
                      "fault"}]
          /\ target' \in [Killer -> Workers \cup {NoWorker}]
          /\ lock' = "owner"
      BY <3>1 DEF Killer, WorkerTypeOK
    <3>3. wrapper' \in [Workers -> {"none", "alive", "collected"}]
      BY <1>11 DEF Collect, WorkerTypeOK
    <3> HIDE DEF EnterFinish
    <3> QED BY <1>11, <3>2, <3>3 DEF Collect, WorkerTypeOK
  <2>2. CASE w \notin list
    BY <1>11, <2>2 DEF Collect, WorkerTypeOK
  <2> QED BY <2>1, <2>2
<1>12. CASE OnReceive
  <2>1. posting \in Workers /\ posted[posting] + 1 \in Nat
    BY <1>12 DEF OnReceive, WorkerTypeOK
  <2>2. Add(inbox[posting], posted[posting] + 1) \in Buffers(Nat)
    BY <2>1, AddByRole DEF WorkerTypeOK
  <2>3. inbox' \in [Workers -> Buffers(Nat)]
    BY <1>12, <2>1, <2>2 DEF OnReceive, WorkerTypeOK
  <2>4. posted' \in [Workers -> Nat]
    BY <1>12, <2>1 DEF OnReceive, WorkerTypeOK
  <2> QED BY <1>12, <2>3, <2>4 DEF OnReceive, WorkerTypeOK
<1>13. CASE SwapReplies
  BY <1>13, SwapByRole DEF SwapReplies, WorkerTypeOK
<1>14. CASE HandleReply
  <2> DEFINE r == Handed(ownerInbox)[ownerAt + 1]
  <2>1. Handed(ownerInbox) \in Seq(Reply)
    BY BuffersByRole DEF WorkerTypeOK
  <2>2. r \in Reply
    BY <1>14, <2>1, LenProperties DEF HandleReply, WorkerTypeOK
  <2>3. r.from \in Workers /\ r.n \in Nat
    BY <2>2 DEF Reply
  <2>4. received' \in [Workers -> Seq(Nat)]
    <3> HIDE DEF r
    <3>1. Append(received[r.from], r.n) \in Seq(Nat)
      BY <2>3, AppendProperties DEF WorkerTypeOK
    <3>2. received' =
            [received EXCEPT ![r.from] = Append(received[r.from], r.n)]
            \/ received' = received
      BY <1>14 DEF HandleReply, r
    <3> QED BY <2>3, <3>1, <3>2, ZenonT(30) DEF WorkerTypeOK
  <2>5. ownerAt' \in Nat
    BY <1>14 DEF HandleReply, WorkerTypeOK
  <2> QED BY <1>14, <2>4, <2>5 DEF HandleReply, WorkerTypeOK
<1>15. CASE ClearReplies
  BY <1>15, ClearByRole DEF ClearReplies, WorkerTypeOK
<1>16. CASE StartDispose
  BY <1>16 DEF StartDispose, WorkerTypeOK
<1>17. CASE EndDispose
  BY <1>17 DEF EndDispose, WorkerTypeOK
<1>18. CASE StartFinish
  BY <1>18 DEF StartFinish, WorkerTypeOK
<1>19. ASSUME NEW w \in Workers, PickFirst(w) PROVE WorkerTypeOK'
  BY <1>19 DEF PickFirst, Killer, WorkerTypeOK
<1>20. CASE PickNone
  BY <1>20 DEF PickNone, WorkerTypeOK
<1>21. CASE Join
  BY <1>21 DEF Join, WorkerTypeOK
<1>22. CASE RemoveJoined
  BY <1>22 DEF RemoveJoined, Killer, WorkerTypeOK
<1>23. CASE UNCHANGED vars
  BY <1>23 DEF vars, WorkerTypeOK
<1> QED
  BY <1>1, <1>2, <1>3, <1>4, <1>5, <1>6, <1>7, <1>8, <1>9, <1>10, <1>11, <1>12,
     <1>13, <1>14, <1>15, <1>16, <1>17, <1>18, <1>19, <1>20, <1>21, <1>22,
     <1>23
  DEF Next, ScriptStep, OwnerStep, KillerStep, ReadReplies, MainStep

THEOREM WorkerTypeCorrect == Spec => []WorkerTypeOK
<1>1. WorkerTypeOK /\ [Next]_vars => WorkerTypeOK'
  BY ThreadTyped, OtherTyped
<1> QED BY <1>1, InitTyped, PTL DEF Spec

-----------------------------------------------------------------------------
(***************************************************************************)
(* The inductive invariant, in three parts.  The first one is about who    *)
(* controls whom: main and owner are in finish() only where their own code *)
(* called it, main removes a worker only after its thread ended, and       *)
(* nothing is created once main is done.                                   *)
(***************************************************************************)
Control ==
  /\ kpc["main"] # "idle" <=> main = "signal"
  /\ \A t \in Killer : kpc[t] # "idle" => target[t] \in Workers
  /\ main \in {"signal", "join", "remove"} => target["main"] \in Workers
  /\ main = "remove" => pc[target["main"]] = "exited"
  /\ ~Nested /\ main # "run" => kpc["owner"] = "idle"
  /\ owner = "disposed" => kpc["owner"] = "idle"
  /\ main = "done" => list = {} /\ (Nested => owner = "disposed")
  /\ \A w \in Workers : wrapper[w] = "none" <=> pc[w] = "unborn"
  /\ RunningIsRegistered

(* The second: where a worker's Environment is in its life follows from     *)
(* where its thread is, except that a killer's copy may keep a disposed one *)
(* after the thread has ended; and what a killer holds exists.             *)
BeforeEnv == {"unborn", "spawned", "create"}
AfterEnv == {"reset", "leave", "exited"}

EnvOf(w) ==
  /\ pc[w] \in BeforeEnv => env[w] = "none"
  /\ pc[w] \notin BeforeEnv \cup AfterEnv => env[w] = "live"
  /\ pc[w] \in {"reset", "leave"} => env[w] = "disposed"
  /\ pc[w] = "exited" => \/ env[w] \in {"none", "destructed"}
                         \/ /\ env[w] = "disposed"
                            /\ \E t \in Killer : HeldBy(t, w)
  /\ envRef[w] => pc[w] \notin BeforeEnv \cup {"leave", "exited"}

GrabbedExists ==
  \A t \in Killer : kpc[t] = "grab" => env[target[t]] # "none"

HeldExists ==
  \A t \in Killer : kpc[t] = "call" => env[target[t]] \in {"live", "disposed"}

EnvFollowsThread ==
  (\A w \in Workers : EnvOf(w)) /\ GrabbedExists /\ HeldExists

(* The third: a thread that ended was told to, and so was one whose JSWorker *)
(* object was collected, or its finalizer is just about to.                *)
StopRequested ==
  /\ \A w \in Workers : pc[w] \in AfterEnv => interrupt[w]
  /\ \A w \in Workers : wrapper[w] = "collected" =>
       interrupt[w] \/ (kpc["owner"] \in {"flag", "set"} /\ target["owner"] = w)
  /\ owner = "disposed" => \A w \in Workers : wrapper[w] # "alive"

(* A thread moves on, and only its own part of the state with it. *)
LEMMA ThreadMoves ==
  ASSUME NEW w \in Workers, ThreadStep(w)
  PROVE  /\ pc[w] \notin {"unborn", "exited"}
         /\ \E to : to # "unborn" /\ pc' = [pc EXCEPT ![w] = to]
         /\ UNCHANGED <<list, wrapper, owner, main, kpc, target>>
<1>1. CASE CheckStart(w)
  BY <1>1 DEF CheckStart
<1>2. CASE AssignEnv(w)
  BY <1>2 DEF AssignEnv
<1>3. CASE InitDone(w)
  BY <1>3 DEF InitDone
<1>4. CASE InitKilled(w)
  BY <1>4 DEF InitKilled
<1>5. CASE LoadOk(w)
  BY <1>5 DEF LoadOk
<1>6. CASE LoadFail(w)
  BY <1>6 DEF LoadFail
<1>7. CASE OnReady(w)
  BY <1>7 DEF OnReady
<1>8. CASE PollInbox(w)
  BY <1>8 DEF PollInbox
<1>9. CASE StopLoop(w)
  BY <1>9 DEF StopLoop
<1>10. CASE NextMessage(w)
  BY <1>10 DEF NextMessage
<1>11. CASE MessageReturn(w)
  BY <1>11 DEF MessageReturn
<1>12. CASE MessageThrow(w)
  BY <1>12 DEF MessageThrow
<1>13. CASE ClearInbox(w)
  BY <1>13 DEF ClearInbox
<1>14. CASE UpdateDone(w)
  BY <1>14 DEF UpdateDone
<1>15. CASE ShutdownEnv(w)
  BY <1>15 DEF ShutdownEnv
<1>16. CASE ResetEnv(w)
  BY <1>16 DEF ResetEnv
<1>17. CASE LeaveRun(w)
  BY <1>17 DEF LeaveRun
<1> QED BY <1>1, <1>2, <1>3, <1>4, <1>5, <1>6, <1>7, <1>8, <1>9, <1>10, <1>11,
           <1>12, <1>13, <1>14, <1>15, <1>16, <1>17 DEF ThreadStep

(* Every step keeps Control. *)
LEMMA ControlStep ==
  ASSUME WorkerTypeOK, Control, [Next]_vars
  PROVE  Control'
<1>1. ASSUME NEW w \in Workers, ThreadStep(w) PROVE Control'
  <2>1. PICK to : to # "unborn" /\ pc' = [pc EXCEPT ![w] = to]
    BY <1>1, ThreadMoves
  <2>2. /\ pc[w] \notin {"unborn", "exited"}
        /\ UNCHANGED <<list, wrapper, owner, main, kpc, target>>
    BY <1>1, ThreadMoves
  <2>3. pc'[w] = to /\ \A v \in Workers \ {w} : pc'[v] = pc[v]
    BY <2>1 DEF WorkerTypeOK
  <2>4. RunningIsRegistered'
    BY <2>1, <2>2, <2>3 DEF Control, RunningIsRegistered
  <2>5. \A v \in Workers : wrapper'[v] = "none" <=> pc'[v] = "unborn"
    BY <2>1, <2>2, <2>3 DEF Control
  <2>6. main' = "remove" => pc'[target'["main"]] = "exited"
    BY <2>2, <2>3 DEF Control
  <2> QED BY <2>2, <2>4, <2>5, <2>6 DEF Control
<1>2. ASSUME NEW w \in Workers, JsPost(w) PROVE Control'
  BY <1>2 DEF JsPost, Control, RunningIsRegistered, WorkerTypeOK
<1>3. ASSUME NEW w \in Workers, TimerThrow(w) PROVE Control'
  BY <1>3 DEF TimerThrow, Control, RunningIsRegistered, WorkerTypeOK
<1>4. ASSUME NEW w \in Workers, JsClose(w) PROVE Control'
  BY <1>4 DEF JsClose, Control, RunningIsRegistered, WorkerTypeOK
<1>5. ASSUME NEW t \in Killer, CheckFlag(t) \/ SetFlag(t) PROVE Control'
  <2>1. CASE Return(t) /\ t = "owner" /\ CheckFlag(t)
    BY <2>1 DEF CheckFlag, Return, Killer, Control, RunningIsRegistered,
       WorkerTypeOK
  <2>2. CASE Return(t) /\ t = "main" /\ CheckFlag(t)
    BY <2>2 DEF CheckFlag, Return, Killer, Control, RunningIsRegistered,
       WorkerTypeOK
  <2>3. CASE Step(t, "set") /\ CheckFlag(t)
    BY <2>3 DEF CheckFlag, Killer, Control, RunningIsRegistered,
       WorkerTypeOK
  <2>4. CASE SetFlag(t)
    BY <2>4 DEF SetFlag, Killer, Control, RunningIsRegistered,
       WorkerTypeOK
  <2> QED BY <1>5, <2>1, <2>2, <2>3, <2>4 DEF CheckFlag, Killer
<1>6. ASSUME NEW t \in Killer, ReadEnv(t) PROVE Control'
  <2>1. CASE Return(t) /\ t = "owner"
    BY <1>6, <2>1, SMTT(30) DEF ReadEnv, Return, Killer, Control,
       RunningIsRegistered, WorkerTypeOK
  <2>2. CASE Return(t) /\ t = "main"
    BY <1>6, <2>2 DEF ReadEnv, Return, Killer, Control, RunningIsRegistered,
       WorkerTypeOK
  <2>3. CASE Step(t, "grab")
    BY <1>6, <2>3 DEF ReadEnv, Killer, Control, RunningIsRegistered,
       WorkerTypeOK
  <2> QED BY <1>6, <2>1, <2>2, <2>3 DEF ReadEnv, Killer
<1>7. ASSUME NEW t \in Killer, GrabEnv(t) PROVE Control'
  <2>1. /\ kpc[t] = "grab" /\ NotKiller /\ UNCHANGED <<lock, target, main>>
        /\ \E to \in {"call", "fault"} : kpc' = [kpc EXCEPT ![t] = to]
    BY <1>7 DEF GrabEnv
  <2> QED BY <2>1 DEF Killer, Control, RunningIsRegistered, WorkerTypeOK
<1>8. ASSUME NEW t \in Killer, TerminateEnv(t) PROVE Control'
  <2>0. Return(t) /\ kpc[t] = "call" /\ NotKiller
    BY <1>8 DEF TerminateEnv
  <2>1. CASE t = "owner"
    BY <2>0, <2>1, ZenonT(30) DEF Return, Killer, Control,
       RunningIsRegistered, WorkerTypeOK
  <2>2. CASE t = "main"
    BY <2>0, <2>2 DEF Return, Killer, Control, RunningIsRegistered, WorkerTypeOK
  <2> QED BY <2>1, <2>2 DEF Killer
<1>9. ASSUME NEW w \in Workers, Create(w) PROVE Control'
  BY <1>9 DEF Create, OwnerRuns, ScriptsRun, Killer, Control,
     RunningIsRegistered, WorkerTypeOK
<1>10. ASSUME NEW w \in Workers, BeginPost(w) PROVE Control'
  BY <1>10 DEF BeginPost, Control, RunningIsRegistered, WorkerTypeOK
<1>11. ASSUME NEW w \in Workers, Terminate(w) PROVE Control'
  BY <1>11 DEF Terminate, OwnerRuns, ScriptsRun, Killer, Control,
     RunningIsRegistered, WorkerTypeOK
<1>12. ASSUME NEW w \in Workers, Collect(w) PROVE Control'
  <2>1. CASE w \in list
    <3>1. /\ wrapper[w] = "alive" /\ kpc["owner"] = "idle"
          /\ owner # "disposed" /\ (Nested \/ main \in {"run", "done"})
      BY <1>12 DEF Collect, OwnerRuns
    <3>2. EnterFinish(w) /\ wrapper' = [wrapper EXCEPT ![w] = "collected"]
      BY <1>12, <2>1 DEF Collect
    <3>3. UNCHANGED <<list, owner, pc, main>>
      BY <1>12 DEF Collect
    <3>4. /\ kpc'["owner"] = "flag" /\ target'["owner"] = w
          /\ \A t \in Killer : t # "owner" =>
               kpc'[t] = kpc[t] /\ target'[t] = target[t]
      BY <3>2 DEF WorkerTypeOK, Killer
    <3>5. wrapper[w] # "none" /\ wrapper'[w] # "none"
          /\ \A v \in Workers \ {w} : wrapper'[v] = wrapper[v]
      BY <3>1, <3>2 DEF WorkerTypeOK
    <3>6. \A v \in Workers : wrapper'[v] = "none" <=> pc'[v] = "unborn"
      BY <3>3, <3>5 DEF Control
    <3>7. \A t \in Killer : kpc'[t] # "idle" => target'[t] \in Workers
      BY <3>4 DEF Control
    <3>8. RunningIsRegistered'
      BY <3>3 DEF Control, RunningIsRegistered
    <3> QED BY <2>1, <3>1, <3>3, <3>4, <3>6, <3>7, <3>8 DEF Control, Killer
  <2>2. CASE w \notin list
    BY <1>12, <2>2 DEF Collect, OwnerRuns, Killer, Control,
       RunningIsRegistered, WorkerTypeOK
  <2> QED BY <2>1, <2>2
<1>13. CASE OnReceive
  BY <1>13 DEF OnReceive, Control, RunningIsRegistered, WorkerTypeOK
<1>14. CASE SwapReplies
  BY <1>14 DEF SwapReplies, Control, RunningIsRegistered, WorkerTypeOK
<1>15. CASE HandleReply
  BY <1>15 DEF HandleReply, Control, RunningIsRegistered, WorkerTypeOK
<1>16. CASE ClearReplies
  BY <1>16 DEF ClearReplies, Control, RunningIsRegistered, WorkerTypeOK
<1>17. CASE StartDispose
  BY <1>17 DEF StartDispose, OwnerRuns, ScriptsRun, Killer, Control,
     RunningIsRegistered, WorkerTypeOK
<1>18. CASE EndDispose
  BY <1>18 DEF EndDispose, OwnerRuns, ScriptsRun, Killer, Control,
     RunningIsRegistered, WorkerTypeOK
<1>19. CASE StartFinish
  BY <1>19 DEF StartFinish, OwnerRuns, ScriptsRun, Killer, Control,
     RunningIsRegistered, WorkerTypeOK
<1>20. ASSUME NEW w \in Workers, PickFirst(w) PROVE Control'
  BY <1>20 DEF PickFirst, OwnerRuns, ScriptsRun, Killer, Control,
     RunningIsRegistered, WorkerTypeOK
<1>21. CASE PickNone
  BY <1>21 DEF PickNone, Control, RunningIsRegistered, WorkerTypeOK
<1>22. CASE Join
  BY <1>22 DEF Join, Control, RunningIsRegistered, WorkerTypeOK
<1>23. CASE RemoveJoined
  BY <1>23 DEF RemoveJoined, OwnerRuns, ScriptsRun, Killer, Control,
     RunningIsRegistered, WorkerTypeOK
<1>24. CASE UNCHANGED vars
  BY <1>24 DEF vars, Control, RunningIsRegistered, WorkerTypeOK
<1> QED
  BY <1>1, <1>2, <1>3, <1>4, <1>5, <1>6, <1>7, <1>8, <1>9, <1>10, <1>11, <1>12,
     <1>13, <1>14, <1>15, <1>16, <1>17, <1>18, <1>19, <1>20, <1>21, <1>22,
     <1>23, <1>24
  DEF Next, ScriptStep, OwnerStep, KillerStep, ReadReplies, MainStep

(* A killer that does not call yet moves on: nothing it held before is lost. *)
LEMMA KillerKeepsEnv ==
  ASSUME WorkerTypeOK, EnvFollowsThread, UNCHANGED <<pc, env, envRef>>,
         NEW t \in Killer, kpc[t] # "call",
         NEW to, kpc' = [kpc EXCEPT ![t] = to],
         \A u \in Killer : kpc'[u] # "idle" => target'[u] = target[u],
         to = "grab" => env[target[t]] # "none",
         to = "call" => env[target[t]] \in {"live", "disposed"}
  PROVE  EnvFollowsThread'
<1>1. \A u \in Killer : u # t => kpc'[u] = kpc[u]
  BY DEF WorkerTypeOK
<1>2. kpc'[t] = to
  BY DEF WorkerTypeOK
<1>3. \A u \in Killer, w \in Workers : HeldBy(u, w) => HeldBy(u, w)'
  BY <1>1 DEF HeldBy
<1>4. \A w \in Workers : EnvOf(w)'
  BY <1>3 DEF EnvFollowsThread, EnvOf
<1>5. GrabbedExists'
  BY <1>1, <1>2 DEF EnvFollowsThread, GrabbedExists
<1>6. HeldExists'
  BY <1>1, <1>2 DEF EnvFollowsThread, HeldExists
<1> QED BY <1>4, <1>5, <1>6 DEF EnvFollowsThread

(* A thread whose own part of EnvFollowsThread holds after a step, and whose *)
(* Environment neither ceases to exist nor to be copied, keeps all of it.  *)
LEMMA ThreadKeepsEnv ==
  ASSUME WorkerTypeOK, Control, EnvFollowsThread, NEW w \in Workers,
         UNCHANGED <<kpc, target>>,
         \A v \in Workers \ {w} : /\ pc'[v] = pc[v]
                                  /\ env'[v] = env[v]
                                  /\ envRef'[v] = envRef[v],
         EnvOf(w)',
         env[w] # "none" => env'[w] # "none",
         env[w] \in {"live", "disposed"} => env'[w] \in {"live", "disposed"}
  PROVE  EnvFollowsThread'
<1>1. \A t \in Killer, v \in Workers : HeldBy(t, v)' <=> HeldBy(t, v)
  BY DEF HeldBy
<1>2. ASSUME NEW v \in Workers, v # w PROVE EnvOf(v)'
  BY <1>1, <1>2 DEF EnvFollowsThread, EnvOf
<1>3. \A t \in Killer : kpc[t] # "idle" => target[t] \in Workers
  BY DEF Control
<1>4. GrabbedExists'
  BY <1>3 DEF EnvFollowsThread, GrabbedExists
<1>5. HeldExists'
  BY <1>3 DEF EnvFollowsThread, HeldExists
<1> QED BY <1>2, <1>4, <1>5 DEF EnvFollowsThread

(* A step between two points where the Environment is live keeps it so.    *)
LEMMA StaysLive ==
  ASSUME WorkerTypeOK, Control, EnvFollowsThread, NEW w \in Workers, NEW to,
         pc' = [pc EXCEPT ![w] = to],
         pc[w] \notin BeforeEnv \cup AfterEnv,
         to \notin BeforeEnv \cup AfterEnv,
         UNCHANGED <<env, envRef, kpc, target>>
  PROVE  EnvFollowsThread'
<1>1. pc'[w] = to /\ \A v \in Workers \ {w} : pc'[v] = pc[v]
  BY DEF WorkerTypeOK
<1>2. EnvOf(w)'
  BY <1>1 DEF EnvFollowsThread, EnvOf, BeforeEnv, AfterEnv
<1> QED BY <1>1, <1>2, ThreadKeepsEnv

(* Every step keeps EnvFollowsThread. *)
LEMMA EnvStep ==
  ASSUME WorkerTypeOK, Control, EnvFollowsThread, [Next]_vars
  PROVE  EnvFollowsThread'
<1>1. ASSUME NEW w \in Workers, ThreadStep(w) PROVE EnvFollowsThread'
  <2>0. UNCHANGED <<kpc, target>>
    BY <1>1, ThreadMoves
  <2>1. CASE CheckStart(w)
    <3>1. PICK to \in {"exited", "create"} : Moves(w, "spawned", to)
      BY <2>1 DEF CheckStart
    <3>2. UNCHANGED <<env, envRef>>
      BY <3>1 DEF Moves
    <3>3. /\ pc[w] = "spawned" /\ pc'[w] = to
          /\ \A v \in Workers \ {w} : pc'[v] = pc[v]
      BY <3>1 DEF Moves, Go, WorkerTypeOK
    <3>4. EnvOf(w)'
      BY <3>2, <3>3 DEF EnvFollowsThread, EnvOf, BeforeEnv, AfterEnv
    <3> QED BY <2>0, <3>2, <3>3, <3>4, ThreadKeepsEnv
  <2>2. CASE AssignEnv(w)
    <3>1. EnvOf(w)' /\ env'[w] \in {"live", "disposed"}
      BY <2>2 DEF AssignEnv, Moves, Go, EnvFollowsThread, EnvOf, BeforeEnv,
         AfterEnv, WorkerTypeOK
    <3>2. \A v \in Workers \ {w} : /\ pc'[v] = pc[v]
                                   /\ env'[v] = env[v]
                                   /\ envRef'[v] = envRef[v]
      BY <2>2 DEF AssignEnv, Moves, Go, WorkerTypeOK
    <3> QED BY <2>0, <3>1, <3>2, ThreadKeepsEnv
  <2>3. CASE InitDone(w)
    BY <2>0, <2>3, StaysLive DEF InitDone, Moves, Go, BeforeEnv, AfterEnv
  <2>4. CASE InitKilled(w)
    BY <2>0, <2>4, StaysLive DEF InitKilled, Go, BeforeEnv, AfterEnv
  <2>5. CASE LoadOk(w)
    BY <2>0, <2>5, StaysLive DEF LoadOk, Moves, Go, BeforeEnv, AfterEnv
  <2>6. CASE LoadFail(w)
    BY <2>0, <2>6, StaysLive DEF LoadFail, Go, BeforeEnv, AfterEnv
  <2>7. CASE OnReady(w)
    BY <2>0, <2>7, StaysLive DEF OnReady, Go, BeforeEnv, AfterEnv
  <2>8. CASE PollInbox(w)
    BY <2>0, <2>8, StaysLive DEF PollInbox, Go, BeforeEnv, AfterEnv
  <2>9. CASE StopLoop(w)
    BY <2>0, <2>9, StaysLive DEF StopLoop, Moves, Go, BeforeEnv, AfterEnv
  <2>10. CASE NextMessage(w)
    BY <2>0, <2>10, StaysLive DEF NextMessage, Go, BeforeEnv, AfterEnv
  <2>11. CASE MessageReturn(w)
    BY <2>0, <2>11, StaysLive DEF MessageReturn, Moves, Go, BeforeEnv, AfterEnv
  <2>12. CASE MessageThrow(w)
    BY <2>0, <2>12, StaysLive DEF MessageThrow, Go, BeforeEnv, AfterEnv
  <2>13. CASE ClearInbox(w)
    BY <2>0, <2>13, StaysLive DEF ClearInbox, Go, BeforeEnv, AfterEnv
  <2>14. CASE UpdateDone(w)
    BY <2>0, <2>14, StaysLive DEF UpdateDone, Moves, Go, BeforeEnv, AfterEnv
  <2>15. CASE ShutdownEnv(w)
    <3>1. EnvOf(w)' /\ env'[w] \in {"live", "disposed"}
      BY <2>15 DEF ShutdownEnv, Moves, Go, EnvFollowsThread, EnvOf, BeforeEnv,
         AfterEnv, WorkerTypeOK
    <3>2. \A v \in Workers \ {w} : /\ pc'[v] = pc[v]
                                   /\ env'[v] = env[v]
                                   /\ envRef'[v] = envRef[v]
      BY <2>15 DEF ShutdownEnv, Moves, Go, WorkerTypeOK
    <3> QED BY <2>0, <3>1, <3>2, ThreadKeepsEnv
  <2>16. CASE ResetEnv(w)
    <3>1. EnvOf(w)' /\ env'[w] \in {"live", "disposed"}
      BY <2>16 DEF ResetEnv, Moves, Go, EnvFollowsThread, EnvOf, BeforeEnv,
         AfterEnv, WorkerTypeOK
    <3>2. \A v \in Workers \ {w} : /\ pc'[v] = pc[v]
                                   /\ env'[v] = env[v]
                                   /\ envRef'[v] = envRef[v]
      BY <2>16 DEF ResetEnv, Moves, Go, WorkerTypeOK
    <3> QED BY <2>0, <3>1, <3>2, ThreadKeepsEnv
  <2>17. CASE LeaveRun(w)
    <3>1. /\ pc[w] = "leave" /\ pc' = [pc EXCEPT ![w] = "exited"]
          /\ UNCHANGED <<envRef, kpc, target>>
          /\ \/ (\E t \in Killer : HeldBy(t, w)) /\ env' = env
             \/ /\ ~\E t \in Killer : HeldBy(t, w)
                /\ env' = [env EXCEPT ![w] = "destructed"]
      BY <2>17 DEF LeaveRun
    <3>2. \A t \in Killer, v \in Workers : HeldBy(t, v)' <=> HeldBy(t, v)
      BY <3>1 DEF HeldBy
    <3>3. EnvOf(w)'
      BY <3>1, <3>2 DEF EnvFollowsThread, EnvOf, BeforeEnv, AfterEnv,
         WorkerTypeOK
    <3>4. ASSUME NEW v \in Workers, v # w PROVE EnvOf(v)'
      <4>1. pc'[v] = pc[v] /\ env'[v] = env[v] /\ envRef'[v] = envRef[v]
        BY <3>1, <3>4 DEF WorkerTypeOK
      <4> QED BY <3>2, <4>1 DEF EnvFollowsThread, EnvOf
    <3>5. GrabbedExists'
      BY <3>1 DEF EnvFollowsThread, GrabbedExists, Control, WorkerTypeOK
    <3>6. HeldExists'
      BY <3>1 DEF EnvFollowsThread, HeldExists, HeldBy, Control,
         WorkerTypeOK
    <3> QED BY <3>3, <3>4, <3>5, <3>6 DEF EnvFollowsThread
  <2> QED BY <1>1, <2>1, <2>2, <2>3, <2>4, <2>5, <2>6, <2>7, <2>8, <2>9, <2>10,
             <2>11, <2>12, <2>13, <2>14, <2>15, <2>16, <2>17 DEF ThreadStep
<1>2. ASSUME NEW w \in Workers, JsPost(w) PROVE EnvFollowsThread'
  BY <1>2 DEF JsPost, EnvFollowsThread, EnvOf, GrabbedExists, BeforeEnv,
     AfterEnv, HeldExists, HeldBy, WorkerTypeOK
<1>3. ASSUME NEW w \in Workers, TimerThrow(w) PROVE EnvFollowsThread'
  BY <1>3 DEF TimerThrow, EnvFollowsThread, EnvOf, GrabbedExists, BeforeEnv,
     AfterEnv, HeldExists, HeldBy, WorkerTypeOK
<1>4. ASSUME NEW w \in Workers, JsClose(w) PROVE EnvFollowsThread'
  BY <1>4 DEF JsClose, EnvFollowsThread, EnvOf, GrabbedExists, BeforeEnv,
     AfterEnv, HeldExists, HeldBy, WorkerTypeOK
<1>5. ASSUME NEW t \in Killer, CheckFlag(t) \/ SetFlag(t)
      PROVE  EnvFollowsThread'
  <2>1. PICK to \in {"idle", "set", "copy"} : kpc' = [kpc EXCEPT ![t] = to]
    BY <1>5 DEF CheckFlag, SetFlag, Return
  <2>2. \A u \in Killer : kpc'[u] # "idle" => target'[u] = target[u]
    BY <1>5 DEF CheckFlag, SetFlag, Return, WorkerTypeOK
  <2>3. kpc[t] # "call" /\ UNCHANGED <<pc, env, envRef>>
    BY <1>5 DEF CheckFlag, SetFlag
  <2> QED BY <2>1, <2>2, <2>3, KillerKeepsEnv
<1>6. ASSUME NEW t \in Killer, ReadEnv(t) PROVE EnvFollowsThread'
  <2>1. PICK to \in {"idle", "grab"} :
          /\ kpc' = [kpc EXCEPT ![t] = to]
          /\ to = "grab" => envRef[target[t]]
    BY <1>6 DEF ReadEnv, Return
  <2>2. \A u \in Killer : kpc'[u] # "idle" => target'[u] = target[u]
    BY <1>6 DEF ReadEnv, Return, WorkerTypeOK
  <2>3. to = "grab" => env[target[t]] # "none"
    BY <1>6, <2>1 DEF ReadEnv, Control, EnvFollowsThread, EnvOf, AfterEnv,
       WorkerTypeOK
  <2> QED BY <1>6, <2>1, <2>2, <2>3, KillerKeepsEnv DEF ReadEnv
<1>7. ASSUME NEW t \in Killer, GrabEnv(t) PROVE EnvFollowsThread'
  <2>1. PICK to \in {"fault", "call"} :
          /\ kpc' = [kpc EXCEPT ![t] = to]
          /\ to = "call" => env[target[t]] # "destructed"
    BY <1>7 DEF GrabEnv
  <2>2. \A u \in Killer : kpc'[u] # "idle" => target'[u] = target[u]
    BY <1>7 DEF GrabEnv, WorkerTypeOK
  <2>3. to = "call" => env[target[t]] \in {"live", "disposed"}
    BY <1>7, <2>1 DEF GrabEnv, Control, EnvFollowsThread, GrabbedExists,
       WorkerTypeOK
  <2> QED BY <1>7, <2>1, <2>2, <2>3, KillerKeepsEnv DEF GrabEnv
<1>8. ASSUME NEW t \in Killer, TerminateEnv(t) PROVE EnvFollowsThread'
  <2>1. target[t] \in Workers /\ kpc' = [kpc EXCEPT ![t] = "idle"]
    BY <1>8 DEF TerminateEnv, Return, Control
  <2>2. \A u \in Killer \ {t} : kpc'[u] = kpc[u] /\ target'[u] = target[u]
    BY <1>8, <2>1 DEF TerminateEnv, Return, WorkerTypeOK
  <2>3. /\ kpc[t] = "call" /\ kpc'[t] = "idle"
        /\ UNCHANGED <<pc, envRef>>
        /\ \/ /\ pc[target[t]] = "exited"
              /\ ~\E u \in Killer \ {t} : HeldBy(u, target[t])
              /\ env' = [env EXCEPT ![target[t]] = "destructed"]
           \/ /\ \/ pc[target[t]] # "exited"
                 \/ \E u \in Killer \ {t} : HeldBy(u, target[t])
              /\ env' = env
    BY <1>8, <2>1 DEF TerminateEnv, WorkerTypeOK
  <2>4. \A u \in Killer, w \in Workers :
          /\ u # t => HeldBy(u, w)' = HeldBy(u, w)
          /\ HeldBy(t, w) <=> w = target[t]
          /\ ~HeldBy(t, w)'
    BY <2>1, <2>2, <2>3 DEF HeldBy
  <2>5. ASSUME NEW w \in Workers PROVE EnvOf(w)'
    <3>1. CASE w # target[t]
      <4>1. env'[w] = env[w]
        BY <2>1, <2>3, <3>1 DEF WorkerTypeOK
      <4>2. ASSUME NEW u \in Killer, HeldBy(u, w) PROVE HeldBy(u, w)'
        BY <2>4, <3>1, <4>2
      <4> QED BY <2>3, <4>1, <4>2 DEF EnvFollowsThread, EnvOf
    <3>2. CASE w = target[t] /\ pc[w] # "exited"
      BY <2>3, <3>2 DEF EnvFollowsThread, EnvOf
    <3>3. CASE w = target[t] /\ pc[w] = "exited"
      <4>1. CASE \E u \in Killer \ {t} : HeldBy(u, w)
        <5>1. env' = env /\ \E u \in Killer : HeldBy(u, w)'
          BY <2>3, <2>4, <3>3, <4>1
        <5> QED BY <2>3, <3>3, <5>1 DEF EnvFollowsThread, EnvOf, BeforeEnv,
                   AfterEnv
      <4>2. CASE ~\E u \in Killer \ {t} : HeldBy(u, w)
        <5>1. env'[w] = "destructed"
          BY <2>3, <3>3, <4>2 DEF WorkerTypeOK
        <5> QED BY <2>3, <3>3, <5>1 DEF EnvFollowsThread, EnvOf, BeforeEnv,
                   AfterEnv
      <4> QED BY <4>1, <4>2
    <3> QED BY <3>1, <3>2, <3>3
  <2>6. GrabbedExists'
    BY <2>1, <2>2, <2>3, SMTT(30) DEF EnvFollowsThread, GrabbedExists, Control,
       WorkerTypeOK
  <2>7. ASSUME NEW u \in Killer, kpc'[u] = "call"
        PROVE  env'[target'[u]] \in {"live", "disposed"}
    <3>1. /\ u # t /\ kpc[u] = "call"
          /\ target'[u] = target[u] /\ target[u] \in Workers
      BY <2>2, <2>3, <2>7 DEF Control
    <3>2. env'[target[u]] = env[target[u]]
      BY <2>1, <2>3, <3>1 DEF HeldBy, WorkerTypeOK
    <3> QED BY <3>1, <3>2 DEF EnvFollowsThread, HeldExists
  <2> QED BY <2>5, <2>6, <2>7 DEF EnvFollowsThread, HeldExists
<1>9. ASSUME NEW w \in Workers, Create(w) PROVE EnvFollowsThread'
  BY <1>9 DEF Create, OwnerRuns, ScriptsRun, Killer, Control, EnvFollowsThread,
     EnvOf, GrabbedExists, BeforeEnv, AfterEnv, HeldExists, HeldBy,
     WorkerTypeOK
<1>10. ASSUME NEW w \in Workers, BeginPost(w) PROVE EnvFollowsThread'
  BY <1>10 DEF BeginPost, EnvFollowsThread, EnvOf, GrabbedExists, BeforeEnv,
     AfterEnv, HeldExists, HeldBy, WorkerTypeOK
<1>11. ASSUME NEW w \in Workers, Terminate(w) PROVE EnvFollowsThread'
  BY <1>11 DEF Terminate, OwnerRuns, ScriptsRun, Killer, Control,
     EnvFollowsThread, EnvOf, GrabbedExists, BeforeEnv, AfterEnv,
     HeldExists, HeldBy, WorkerTypeOK
<1>12. ASSUME NEW w \in Workers, Collect(w) PROVE EnvFollowsThread'
  <2>1. CASE w \in list
    <3>1. /\ wrapper[w] = "alive" /\ kpc["owner"] = "idle"
          /\ owner # "disposed" /\ (Nested \/ main \in {"run", "done"})
      BY <1>12 DEF Collect, OwnerRuns
    <3>2. EnterFinish(w) /\ wrapper' = [wrapper EXCEPT ![w] = "collected"]
      BY <1>12, <2>1 DEF Collect
    <3> QED BY <1>12, <2>1, <3>1, <3>2 DEF Collect, Killer, Control,
               EnvFollowsThread, EnvOf, GrabbedExists, BeforeEnv, AfterEnv,
               HeldExists, HeldBy, WorkerTypeOK
  <2>2. CASE w \notin list
    BY <1>12, <2>2 DEF Collect, OwnerRuns, Killer, Control, EnvFollowsThread,
       EnvOf, GrabbedExists, BeforeEnv, AfterEnv, HeldExists, HeldBy,
       WorkerTypeOK
  <2> QED BY <2>1, <2>2
<1>13. CASE OnReceive
  BY <1>13 DEF OnReceive, EnvFollowsThread, EnvOf, GrabbedExists, BeforeEnv,
     AfterEnv, HeldExists, HeldBy, WorkerTypeOK
<1>14. CASE SwapReplies
  BY <1>14 DEF SwapReplies, EnvFollowsThread, EnvOf, GrabbedExists, BeforeEnv,
     AfterEnv, HeldExists, HeldBy, WorkerTypeOK
<1>15. CASE HandleReply
  BY <1>15 DEF HandleReply, EnvFollowsThread, EnvOf, GrabbedExists, BeforeEnv,
     AfterEnv, HeldExists, HeldBy, WorkerTypeOK
<1>16. CASE ClearReplies
  BY <1>16 DEF ClearReplies, EnvFollowsThread, EnvOf, GrabbedExists, BeforeEnv,
     AfterEnv, HeldExists, HeldBy, WorkerTypeOK
<1>17. CASE StartDispose
  BY <1>17 DEF StartDispose, EnvFollowsThread, EnvOf, GrabbedExists, BeforeEnv,
     AfterEnv, HeldExists, HeldBy, WorkerTypeOK
<1>18. CASE EndDispose
  BY <1>18 DEF EndDispose, EnvFollowsThread, EnvOf, GrabbedExists, BeforeEnv,
     AfterEnv, HeldExists, HeldBy, WorkerTypeOK
<1>19. CASE StartFinish
  BY <1>19 DEF StartFinish, EnvFollowsThread, EnvOf, GrabbedExists, BeforeEnv,
     AfterEnv, HeldExists, HeldBy, WorkerTypeOK
<1>20. ASSUME NEW w \in Workers, PickFirst(w) PROVE EnvFollowsThread'
  BY <1>20 DEF PickFirst, OwnerRuns, ScriptsRun, Killer, Control,
     EnvFollowsThread, EnvOf, GrabbedExists, BeforeEnv, AfterEnv,
     HeldExists, HeldBy, WorkerTypeOK
<1>21. CASE PickNone
  BY <1>21 DEF PickNone, EnvFollowsThread, EnvOf, GrabbedExists, BeforeEnv,
     AfterEnv, HeldExists, HeldBy, WorkerTypeOK
<1>22. CASE Join
  BY <1>22 DEF Join, EnvFollowsThread, EnvOf, GrabbedExists, BeforeEnv,
     AfterEnv, HeldExists, HeldBy, WorkerTypeOK
<1>23. CASE RemoveJoined
  BY <1>23 DEF RemoveJoined, OwnerRuns, ScriptsRun, Killer, Control,
     EnvFollowsThread, EnvOf, GrabbedExists, BeforeEnv, AfterEnv,
     HeldExists, HeldBy, WorkerTypeOK
<1>24. CASE UNCHANGED vars
  BY <1>24 DEF vars, EnvFollowsThread, EnvOf, GrabbedExists, BeforeEnv,
     AfterEnv, HeldExists, HeldBy, WorkerTypeOK
<1> QED
  BY <1>1, <1>2, <1>3, <1>4, <1>5, <1>6, <1>7, <1>8, <1>9, <1>10, <1>11, <1>12,
     <1>13, <1>14, <1>15, <1>16, <1>17, <1>18, <1>19, <1>20, <1>21, <1>22,
     <1>23, <1>24
  DEF Next, ScriptStep, OwnerStep, KillerStep, ReadReplies, MainStep

(* Every step keeps StopRequested. *)
LEMMA StopStep ==
  ASSUME WorkerTypeOK, Control, StopRequested, [Next]_vars
  PROVE  StopRequested'
<1>1. ASSUME NEW w \in Workers, ThreadStep(w) PROVE StopRequested'
  <2>1. CASE CheckStart(w)
    BY <2>1, SMTT(30) DEF CheckStart, StopRequested, AfterEnv, WorkerTypeOK
  <2>2. CASE AssignEnv(w)
    BY <2>2 DEF AssignEnv, StopRequested, AfterEnv, WorkerTypeOK
  <2>3. CASE InitDone(w)
    BY <2>3 DEF InitDone, StopRequested, AfterEnv, WorkerTypeOK
  <2>4. CASE InitKilled(w)
    BY <2>4 DEF InitKilled, StopRequested, AfterEnv, WorkerTypeOK
  <2>5. CASE LoadOk(w)
    BY <2>5 DEF LoadOk, StopRequested, AfterEnv, WorkerTypeOK
  <2>6. CASE LoadFail(w)
    BY <2>6 DEF LoadFail, StopRequested, AfterEnv, WorkerTypeOK
  <2>7. CASE OnReady(w)
    BY <2>7 DEF OnReady, StopRequested, AfterEnv, WorkerTypeOK
  <2>8. CASE PollInbox(w)
    BY <2>8 DEF PollInbox, StopRequested, AfterEnv, WorkerTypeOK
  <2>9. CASE StopLoop(w)
    BY <2>9 DEF StopLoop, StopRequested, AfterEnv, WorkerTypeOK
  <2>10. CASE NextMessage(w)
    BY <2>10 DEF NextMessage, StopRequested, AfterEnv, WorkerTypeOK
  <2>11. CASE MessageReturn(w)
    BY <2>11 DEF MessageReturn, StopRequested, AfterEnv, WorkerTypeOK
  <2>12. CASE MessageThrow(w)
    BY <2>12 DEF MessageThrow, StopRequested, AfterEnv, WorkerTypeOK
  <2>13. CASE ClearInbox(w)
    BY <2>13, SMTT(30) DEF ClearInbox, StopRequested, AfterEnv, WorkerTypeOK
  <2>14. CASE UpdateDone(w)
    BY <2>14 DEF UpdateDone, StopRequested, AfterEnv, WorkerTypeOK
  <2>15. CASE ShutdownEnv(w)
    BY <2>15 DEF ShutdownEnv, StopRequested, AfterEnv, WorkerTypeOK
  <2>16. CASE ResetEnv(w)
    BY <2>16 DEF ResetEnv, StopRequested, AfterEnv, WorkerTypeOK
  <2>17. CASE LeaveRun(w)
    BY <2>17 DEF LeaveRun, StopRequested, AfterEnv, WorkerTypeOK
  <2> QED BY <1>1, <2>1, <2>2, <2>3, <2>4, <2>5, <2>6, <2>7, <2>8, <2>9, <2>10,
             <2>11, <2>12, <2>13, <2>14, <2>15, <2>16, <2>17 DEF ThreadStep
<1>2. ASSUME NEW w \in Workers, JsPost(w) PROVE StopRequested'
  BY <1>2 DEF JsPost, StopRequested, AfterEnv, WorkerTypeOK
<1>3. ASSUME NEW w \in Workers, TimerThrow(w) PROVE StopRequested'
  BY <1>3 DEF TimerThrow, StopRequested, AfterEnv, WorkerTypeOK
<1>4. ASSUME NEW w \in Workers, JsClose(w) PROVE StopRequested'
  BY <1>4 DEF JsClose, StopRequested, AfterEnv, WorkerTypeOK
<1>5. ASSUME NEW t \in Killer, CheckFlag(t) \/ SetFlag(t) PROVE StopRequested'
  <2>1. target[t] \in Workers
    BY <1>5 DEF CheckFlag, SetFlag, Control
  <2>2. \A w \in Workers : interrupt[w] => interrupt'[w]
    BY <1>5, <2>1 DEF CheckFlag, SetFlag, WorkerTypeOK
  <2>3. \/ interrupt'[target[t]]
        \/ (kpc'[t] = "set" /\ target'[t] = target[t])
    <3>1. CASE SetFlag(t)
      <4>1. interrupt' = [interrupt EXCEPT ![target[t]] = TRUE]
        BY <3>1 DEF SetFlag
      <4>2. interrupt \in [Workers -> BOOLEAN] /\ target[t] \in Workers
        BY <2>1 DEF WorkerTypeOK
      <4>3. interrupt'[target[t]]
        BY ONLY <4>1, <4>2
      <4> QED BY <4>3
    <3>2. CASE CheckFlag(t) /\ interrupt[target[t]]
      BY <2>1, <3>2 DEF CheckFlag
    <3>3. CASE CheckFlag(t) /\ ~interrupt[target[t]]
      BY <2>1, <3>3 DEF CheckFlag, WorkerTypeOK
    <3> QED BY <1>5, <3>1, <3>2, <3>3
  <2>4. t = "main" => /\ kpc'["owner"] = kpc["owner"]
                      /\ target'["owner"] = target["owner"]
    BY <1>5 DEF CheckFlag, SetFlag, Return, Killer, WorkerTypeOK
  <2>5. UNCHANGED <<pc, wrapper, owner>> /\ t \in {"owner", "main"}
    BY <1>5 DEF CheckFlag, SetFlag, Killer
  <2>6. ASSUME NEW w \in Workers, wrapper'[w] = "collected"
        PROVE  interrupt'[w] \/ (/\ kpc'["owner"] \in {"flag", "set"}
                                 /\ target'["owner"] = w)
    BY <2>2, <2>3, <2>4, <2>5, <2>6 DEF StopRequested
  <2> QED BY <2>2, <2>5, <2>6 DEF StopRequested
<1>6. ASSUME NEW t \in Killer, ReadEnv(t) PROVE StopRequested'
  <2>1. CASE Return(t) /\ t = "owner"
    BY <1>6, <2>1 DEF ReadEnv, Return, Killer, Control, StopRequested,
       AfterEnv, WorkerTypeOK
  <2>2. CASE Return(t) /\ t = "main"
    BY <1>6, <2>2 DEF ReadEnv, Return, Killer, Control, StopRequested,
       AfterEnv, WorkerTypeOK
  <2>3. CASE Step(t, "grab")
    BY <1>6, <2>3 DEF ReadEnv, Killer, Control, StopRequested, AfterEnv,
       WorkerTypeOK
  <2> QED BY <1>6, <2>1, <2>2, <2>3 DEF ReadEnv, Killer
<1>7. ASSUME NEW t \in Killer, GrabEnv(t) PROVE StopRequested'
  <2>1. /\ kpc[t] = "grab" /\ NotKiller /\ UNCHANGED <<target, interrupt>>
        /\ \E to \in {"call", "fault"} : kpc' = [kpc EXCEPT ![t] = to]
    BY <1>7 DEF GrabEnv
  <2> QED BY <2>1 DEF Killer, StopRequested, AfterEnv, WorkerTypeOK
<1>8. ASSUME NEW t \in Killer, TerminateEnv(t) PROVE StopRequested'
  <2>0. Return(t) /\ kpc[t] = "call" /\ NotKiller /\ UNCHANGED interrupt
    BY <1>8 DEF TerminateEnv
  <2>1. CASE t = "owner"
    BY <2>0, <2>1 DEF Return, Killer, Control, StopRequested, AfterEnv,
       WorkerTypeOK
  <2>2. CASE t = "main"
    BY <2>0, <2>2 DEF Return, Killer, Control, StopRequested, AfterEnv,
       WorkerTypeOK
  <2> QED BY <2>1, <2>2 DEF Killer
<1>9. ASSUME NEW w \in Workers, Create(w) PROVE StopRequested'
  BY <1>9, SMTT(30) DEF Create, OwnerRuns, ScriptsRun, Killer, Control,
     RunningIsRegistered, StopRequested, AfterEnv, WorkerTypeOK
<1>10. ASSUME NEW w \in Workers, BeginPost(w) PROVE StopRequested'
  BY <1>10 DEF BeginPost, StopRequested, AfterEnv, WorkerTypeOK
<1>11. ASSUME NEW w \in Workers, Terminate(w) PROVE StopRequested'
  BY <1>11 DEF Terminate, OwnerRuns, ScriptsRun, Killer, Control,
     RunningIsRegistered, StopRequested, AfterEnv, WorkerTypeOK
<1>12. ASSUME NEW w \in Workers, Collect(w) PROVE StopRequested'
  BY <1>12, SMTT(30) DEF Collect, OwnerRuns, ScriptsRun, Killer, Control,
     RunningIsRegistered, StopRequested, AfterEnv, WorkerTypeOK
<1>13. CASE OnReceive
  BY <1>13 DEF OnReceive, StopRequested, AfterEnv, WorkerTypeOK
<1>14. CASE SwapReplies
  BY <1>14 DEF SwapReplies, StopRequested, AfterEnv, WorkerTypeOK
<1>15. CASE HandleReply
  BY <1>15 DEF HandleReply, StopRequested, AfterEnv, WorkerTypeOK
<1>16. CASE ClearReplies
  BY <1>16 DEF ClearReplies, StopRequested, AfterEnv, WorkerTypeOK
<1>17. CASE StartDispose
  BY <1>17 DEF StartDispose, StopRequested, AfterEnv, WorkerTypeOK
<1>18. CASE EndDispose
  BY <1>18 DEF EndDispose, StopRequested, AfterEnv, WorkerTypeOK
<1>19. CASE StartFinish
  BY <1>19 DEF StartFinish, StopRequested, AfterEnv, WorkerTypeOK
<1>20. ASSUME NEW w \in Workers, PickFirst(w) PROVE StopRequested'
  BY <1>20 DEF PickFirst, OwnerRuns, ScriptsRun, Killer, Control,
     RunningIsRegistered, StopRequested, AfterEnv, WorkerTypeOK
<1>21. CASE PickNone
  BY <1>21 DEF PickNone, StopRequested, AfterEnv, WorkerTypeOK
<1>22. CASE Join
  BY <1>22 DEF Join, StopRequested, AfterEnv, WorkerTypeOK
<1>23. CASE RemoveJoined
  BY <1>23 DEF RemoveJoined, OwnerRuns, ScriptsRun, Killer, Control,
     RunningIsRegistered, StopRequested, AfterEnv, WorkerTypeOK
<1>24. CASE UNCHANGED vars
  BY <1>24 DEF vars, StopRequested, AfterEnv, WorkerTypeOK
<1> QED
  BY <1>1, <1>2, <1>3, <1>4, <1>5, <1>6, <1>7, <1>8, <1>9, <1>10, <1>11, <1>12,
     <1>13, <1>14, <1>15, <1>16, <1>17, <1>18, <1>19, <1>20, <1>21, <1>22,
     <1>23, <1>24
  DEF Next, ScriptStep, OwnerStep, KillerStep, ReadReplies, MainStep

(* The whole invariant. *)
WorkerInv == WorkerTypeOK /\ Control /\ EnvFollowsThread /\ StopRequested

LEMMA WorkerInvariant == Spec => []WorkerInv
<1>1. Init => WorkerInv
  <2> SUFFICES ASSUME Init PROVE WorkerInv
    OBVIOUS
  <2>1. WorkerTypeOK
    BY InitTyped
  <2>2. Control
    BY DEF Init, Control, RunningIsRegistered, Killer
  <2>3. EnvFollowsThread
    BY DEF Init, EnvFollowsThread, EnvOf, GrabbedExists, BeforeEnv,
       AfterEnv, HeldExists, Killer
  <2>4. StopRequested
    BY DEF Init, StopRequested, AfterEnv
  <2> QED BY <2>1, <2>2, <2>3, <2>4 DEF WorkerInv
<1>2. WorkerInv /\ [Next]_vars => WorkerInv'
  <2>1. WorkerTypeOK /\ [Next]_vars => WorkerTypeOK'
    BY ThreadTyped, OtherTyped
  <2> QED BY <2>1, ControlStep, EnvStep, StopStep DEF WorkerInv
<1> QED BY <1>1, <1>2, PTL DEF Spec

-----------------------------------------------------------------------------
(***************************************************************************)
(* The WorkerImpl that a thread in _run points to is kept by the registry. *)
(***************************************************************************)
THEOREM RunningAlwaysRegistered == Spec => []RunningIsRegistered
<1>1. WorkerInv => RunningIsRegistered
  BY DEF WorkerInv, Control
<1> QED BY <1>1, WorkerInvariant, PTL

(***************************************************************************)
(* When Worker::finish() has returned every thread it ever registered has  *)
(* ended and no Environment of a worker is left, however many workers were *)
(* created, by whomever, while it ran.                                     *)
(***************************************************************************)
THEOREM FinishAlwaysJoinsAll == Spec => []FinishJoinsAll
<1>1. WorkerInv => FinishJoinsAll
  <2> SUFFICES ASSUME WorkerInv, main = "done", NEW w \in Workers
               PROVE  /\ pc[w] \in {"unborn", "exited"}
                      /\ env[w] \in {"none", "destructed"}
    BY DEF FinishJoinsAll
  <2>1. pc[w] \in {"unborn", "exited"}
    BY DEF WorkerInv, Control, RunningIsRegistered
  <2>2. \A t \in Killer : kpc[t] = "idle"
    BY DEF WorkerInv, Control, Killer, WorkerTypeOK
  <2>3. ~\E t \in Killer : HeldBy(t, w)
    BY <2>2 DEF HeldBy
  <2> QED BY <2>1, <2>3 DEF WorkerInv, EnvFollowsThread, EnvOf, BeforeEnv
<1> QED BY <1>1, WorkerInvariant, PTL

(***************************************************************************)
(* Once the owner is disposed, all of its workers were asked to stop.      *)
(***************************************************************************)
THEOREM NeverOrphans == Spec => []NoOrphans
<1>1. WorkerInv => NoOrphans
  BY DEF WorkerInv, NoOrphans, StopRequested, Control, WorkerTypeOK
<1> QED BY <1>1, WorkerInvariant, PTL

-----------------------------------------------------------------------------
(***************************************************************************)
(* Replies.  How a sequence of replies that carries on from `got` grows at *)
(* its end and shrinks at its head.                                        *)
(***************************************************************************)
LEMMA CarriesOnAppendOwn ==
  ASSUME NEW w \in Workers, NEW q \in Seq(Reply), NEW got \in Nat,
         NEW upto \in Nat, got <= upto, CarriesOn(q, w, got, upto)
  PROVE  CarriesOn(Append(q, [from |-> w, n |-> upto + 1]), w, got, upto + 1)
<1> DEFINE e == [from |-> w, n |-> upto + 1]
           p == Append(q, e)
<1>1. e \in Reply /\ e.from = w /\ e.n = upto + 1
  BY DEF Reply
<1>2. /\ Len(q) \in Nat /\ DOMAIN q = 1..Len(q)
      /\ DOMAIN p = 1..(Len(q) + 1)
      /\ p[Len(q) + 1] = e
      /\ \A i \in 1..Len(q) : p[i] = q[i]
  BY <1>1, AppendProperties, LenProperties
<1> HIDE DEF e, p
<1>3. FromWorker(p, w) = FromWorker(q, w) \cup {Len(q) + 1}
  BY <1>1, <1>2 DEF FromWorker
<1>4. /\ {q[i].n : i \in FromWorker(q, w)} = got + 1 .. upto
      /\ \A i, j \in FromWorker(q, w) : i < j => q[i].n < q[j].n
  BY DEF CarriesOn
<1>5. \A i \in FromWorker(q, w) : i \in 1..Len(q) /\ p[i] = q[i]
                               /\ q[i].n \in got + 1 .. upto
  BY <1>2, <1>4 DEF FromWorker
<1>6. {p[i].n : i \in FromWorker(p, w)} = (got + 1 .. upto) \cup {upto + 1}
  BY <1>1, <1>2, <1>3, <1>4, <1>5
<1>7. (got + 1 .. upto) \cup {upto + 1} = got + 1 .. upto + 1
  OBVIOUS
<1>8. ASSUME NEW i \in FromWorker(p, w), NEW j \in FromWorker(p, w), i < j
      PROVE  p[i].n < p[j].n
  <2>1. i \in FromWorker(q, w)
    BY <1>2, <1>3, <1>5, <1>8
  <2>2. CASE j \in FromWorker(q, w)
    BY <1>4, <1>5, <1>8, <2>1, <2>2
  <2>3. CASE j = Len(q) + 1
    <3>1. p[j].n = upto + 1
      BY <1>1, <1>2, <2>3
    <3>2. p[i].n \in got + 1 .. upto
      BY <1>5, <2>1
    <3> QED BY <3>1, <3>2
  <2> QED BY <1>3, <2>2, <2>3
<1> QED BY <1>6, <1>7, <1>8 DEF CarriesOn, p, e

LEMMA CarriesOnAppendOther ==
  ASSUME NEW w \in Workers, NEW q \in Seq(Reply), NEW e \in Reply,
         e.from # w, NEW got \in Nat, NEW upto \in Nat,
         CarriesOn(q, w, got, upto)
  PROVE  CarriesOn(Append(q, e), w, got, upto)
<1> DEFINE p == Append(q, e)
<1>1. /\ Len(q) \in Nat /\ DOMAIN q = 1..Len(q)
      /\ DOMAIN p = 1..(Len(q) + 1)
      /\ p[Len(q) + 1] = e
      /\ \A i \in 1..Len(q) : p[i] = q[i]
  BY AppendProperties, LenProperties
<1> HIDE DEF p
<1>2. FromWorker(p, w) = FromWorker(q, w)
  BY <1>1 DEF FromWorker
<1>3. \A i \in FromWorker(q, w) : p[i] = q[i]
  BY <1>1 DEF FromWorker
<1>4. /\ {q[i].n : i \in FromWorker(q, w)} = got + 1 .. upto
      /\ \A i, j \in FromWorker(q, w) : i < j => q[i].n < q[j].n
  BY DEF CarriesOn
<1>5. {p[i].n : i \in FromWorker(p, w)} = got + 1 .. upto
  BY <1>2, <1>3, <1>4
<1>6. \A i, j \in FromWorker(p, w) : i < j => p[i].n < p[j].n
  BY <1>2, <1>3, <1>4
<1> QED BY <1>5, <1>6 DEF CarriesOn, p

LEMMA CarriesOnHead ==
  ASSUME NEW w \in Workers, NEW e \in Reply, NEW u \in Seq(Reply),
         NEW got \in Nat, NEW upto \in Nat,
         CarriesOn(<<e>> \o u, w, got, upto)
  PROVE  /\ e.from = w => /\ e.n = got + 1 /\ got + 1 <= upto
                          /\ CarriesOn(u, w, got + 1, upto)
         /\ e.from # w => CarriesOn(u, w, got, upto)
<1> DEFINE q == <<e>> \o u
<1>1. <<e>> \in Seq(Reply) /\ Len(<<e>>) = 1 /\ <<e>>[1] = e
  OBVIOUS
<1>2. /\ Len(u) \in Nat /\ DOMAIN u = 1..Len(u)
      /\ q \in Seq(Reply)
      /\ DOMAIN q = 1..(Len(u) + 1)
      /\ q[1] = e
      /\ \A i \in 1..Len(u) : q[i + 1] = u[i]
  BY <1>1, ConcatProperties, LenProperties
<1>4. /\ {q[i].n : i \in FromWorker(q, w)} = got + 1 .. upto
      /\ \A i, j \in FromWorker(q, w) : i < j => q[i].n < q[j].n
  BY DEF CarriesOn
<1> HIDE DEF q
<1>5. \A i \in FromWorker(u, w) : /\ i \in 1..Len(u)
                                 /\ i + 1 \in FromWorker(q, w)
                                 /\ u[i] = q[i + 1]
  BY <1>2 DEF FromWorker
<1>6. \A i \in FromWorker(q, w) : i = 1 \/ i - 1 \in FromWorker(u, w)
  <2> SUFFICES ASSUME NEW i \in FromWorker(q, w), i # 1
               PROVE  i - 1 \in FromWorker(u, w)
    OBVIOUS
  <2>1. i \in 1..(Len(u) + 1) /\ q[i].from = w
    BY <1>2 DEF FromWorker
  <2>2. i - 1 \in 1..Len(u) /\ (i - 1) + 1 = i
    BY <1>2, <2>1
  <2>3. u[i - 1] = q[i]
    BY <1>2, <2>2
  <2> QED BY <1>2, <2>1, <2>2, <2>3 DEF FromWorker
<1>7. \A i, j \in FromWorker(u, w) : i < j => u[i].n < u[j].n
  <2> SUFFICES ASSUME NEW i \in FromWorker(u, w), NEW j \in FromWorker(u, w),
                      i < j
               PROVE  u[i].n < u[j].n
    OBVIOUS
  <2>1. i \in 1..Len(u) /\ j \in 1..Len(u) /\ i + 1 < j + 1
    BY <1>5, <1>2
  <2> QED BY <1>4, <1>5, <2>1
<1>8. ASSUME e.from # w PROVE CarriesOn(u, w, got, upto)
  <2>1. 1 \notin FromWorker(q, w)
    BY <1>2, <1>8 DEF FromWorker
  <2>2. ASSUME NEW i \in FromWorker(u, w) PROVE u[i].n \in got + 1 .. upto
    BY <1>4, <1>5
  <2>3. ASSUME NEW m \in got + 1 .. upto
        PROVE  \E i \in FromWorker(u, w) : u[i].n = m
    <3>1. PICK j \in FromWorker(q, w) : q[j].n = m
      BY <1>4
    <3>2. j - 1 \in FromWorker(u, w) /\ j \in 1..(Len(u) + 1)
      BY <1>2, <1>6, <2>1 DEF FromWorker
    <3>3. u[j - 1] = q[(j - 1) + 1] /\ (j - 1) + 1 = j
      BY <1>5, <3>2
    <3> QED BY <3>1, <3>2, <3>3
  <2>4. {u[i].n : i \in FromWorker(u, w)} = got + 1 .. upto
    BY <2>2, <2>3
  <2> QED BY <1>7, <2>4 DEF CarriesOn
<1>9. ASSUME e.from = w
      PROVE  /\ e.n = got + 1 /\ got + 1 <= upto
             /\ CarriesOn(u, w, got + 1, upto)
  <2>1. 1 \in FromWorker(q, w)
    BY <1>2, <1>9 DEF FromWorker
  <2>2. e.n \in got + 1 .. upto
    BY <1>2, <1>4, <2>1
  <2>3. \A j \in FromWorker(q, w) : j # 1 => e.n < q[j].n
    <3> SUFFICES ASSUME NEW j \in FromWorker(q, w), j # 1
                 PROVE  e.n < q[j].n
      OBVIOUS
    <3>1. 1 < j
      BY <1>2 DEF FromWorker
    <3> QED BY <1>2, <1>4, <2>1, <3>1
  <2>4. e.n = got + 1
    <3>1. got + 1 \in got + 1 .. upto
      BY <2>2
    <3>2. PICK j \in FromWorker(q, w) : q[j].n = got + 1
      BY <1>4, <3>1
    <3>3. CASE j = 1
      BY <1>2, <3>2, <3>3
    <3>4. CASE j # 1
      BY <2>2, <2>3, <3>2, <3>4
    <3> QED BY <3>3, <3>4
  <2>5. ASSUME NEW i \in FromWorker(u, w)
        PROVE  u[i].n \in (got + 1) + 1 .. upto
    <3>1. i + 1 \in FromWorker(q, w) /\ u[i] = q[i + 1] /\ i + 1 # 1
      BY <1>2, <1>5
    <3>2. q[i + 1].n \in got + 1 .. upto /\ e.n < q[i + 1].n
      BY <1>4, <2>3, <3>1
    <3> QED BY <2>4, <3>1, <3>2
  <2>6. ASSUME NEW m \in (got + 1) + 1 .. upto
        PROVE  \E i \in FromWorker(u, w) : u[i].n = m
    <3>1. m \in got + 1 .. upto /\ m # got + 1
      OBVIOUS
    <3>2. PICK j \in FromWorker(q, w) : q[j].n = m
      BY <1>4, <3>1
    <3>3. j # 1
      BY <1>2, <2>4, <3>1, <3>2
    <3>4. j - 1 \in FromWorker(u, w) /\ j \in 1..(Len(u) + 1)
      BY <1>2, <1>6, <3>3 DEF FromWorker
    <3>5. u[j - 1] = q[(j - 1) + 1] /\ (j - 1) + 1 = j
      BY <1>5, <3>4
    <3> QED BY <3>2, <3>4, <3>5
  <2>7. {u[i].n : i \in FromWorker(u, w)} = (got + 1) + 1 .. upto
    BY <2>5, <2>6
  <2> QED BY <1>7, <2>2, <2>4, <2>7 DEF CarriesOn
<1> QED BY <1>8, <1>9

(* The fourth part of the invariant, and on its own inductive with the two  *)
(* first ones: outside a batch the owner's handed vector is spent, and the *)
(* replies of every JSWorker not yet collected are complete, also of those *)
(* that do not exist yet.                                                  *)
BatchOk(b, k, reading) ==
  /\ ~reading => Handed(b) = <<>> /\ k = 0
  /\ k <= Len(Handed(b))

RepliesOf(w) ==
  LET got == Len(received[w])
  IN  /\ got <= sent[w]
      /\ received[w] = [n \in 1..got |-> n]
      /\ CarriesOn(InFlight, w, got, sent[w])

Replies ==
  /\ BatchOk(ownerInbox, ownerAt, draining)
  /\ \A w \in Workers : wrapper[w] # "collected" => RepliesOf(w)
  /\ \A w \in Workers : wrapper[w] = "none" => sent[w] = 0

LEMMA ReplyTypes ==
  ASSUME WorkerTypeOK, Replies
  PROVE  /\ ownerInbox \in Buffers(Reply)
         /\ ownerAt \in Nat /\ ownerAt <= Len(Handed(ownerInbox))
         /\ InFlight \in Seq(Reply)
         /\ \A w \in Workers : /\ received[w] \in Seq(Nat)
                              /\ Len(received[w]) \in Nat
                              /\ sent[w] \in Nat
<1>1. ownerInbox \in Buffers(Reply) /\ ownerAt \in Nat
      /\ ownerAt <= Len(Handed(ownerInbox))
  BY DEF WorkerTypeOK, Replies, BatchOk
<1>2. InFlight \in Seq(Reply)
  BY <1>1, UnreadParts DEF InFlight
<1>3. \A w \in Workers : received[w] \in Seq(Nat) /\ sent[w] \in Nat
  BY DEF WorkerTypeOK
<1> QED BY <1>1, <1>2, <1>3, LenProperties

LEMMA RepliesKept ==
  ASSUME WorkerTypeOK, Replies,
         UNCHANGED <<ownerInbox, ownerAt, draining, sent, received>>,
         \A w \in Workers :
           /\ wrapper'[w] # "collected" => wrapper[w] # "collected"
           /\ wrapper'[w] = "none" => wrapper[w] = "none"
  PROVE  Replies'
<1>1. \A w \in Workers : RepliesOf(w) => RepliesOf(w)'
  BY DEF RepliesOf, InFlight
<1> QED BY <1>1 DEF Replies

LEMMA ReplyPosted ==
  ASSUME WorkerTypeOK, Replies, NEW w \in Workers, wrapper[w] # "none",
         PostToOwner(w), UNCHANGED <<drainVars, wrapper>>
  PROVE  Replies'
<1>1. CASE owner = "disposed"
  BY <1>1, RepliesKept DEF PostToOwner
<1>2. CASE owner # "disposed"
  <2> DEFINE e == [from |-> w, n |-> sent[w] + 1]
  <2>1. sent' = [sent EXCEPT ![w] = sent[w] + 1] /\ ownerInbox' = Add(ownerInbox, e)
        /\ UNCHANGED <<draining, ownerAt, received, wrapper>>
    BY <1>2 DEF PostToOwner
  <2>2. e \in Reply /\ e.from = w
    BY ReplyTypes DEF Reply
  <2>3. sent'[w] = sent[w] + 1 /\ \A v \in Workers \ {w} : sent'[v] = sent[v]
    BY <2>1 DEF WorkerTypeOK
  <2> HIDE DEF e
  <2>4. InFlight' = Append(InFlight, e)
    BY <2>1, <2>2, ReplyTypes, UnreadOfAdd DEF InFlight
  <2>5. BatchOk(ownerInbox, ownerAt, draining)'
    BY <2>1, <2>2, ReplyTypes, AddByRole DEF Replies, BatchOk
  <2>6. ASSUME NEW v \in Workers, wrapper'[v] # "collected"
        PROVE  RepliesOf(v)'
    <3>1. RepliesOf(v)
      BY <2>1, <2>6 DEF Replies
    <3> DEFINE got == Len(received[v])
    <3>2. got \in Nat /\ sent[v] \in Nat /\ got <= sent[v]
          /\ received[v] = [n \in 1..got |-> n]
          /\ CarriesOn(InFlight, v, got, sent[v])
          /\ InFlight \in Seq(Reply)
      BY <3>1, ReplyTypes DEF RepliesOf
    <3> HIDE DEF got
    <3>3. CASE v = w
      <4>1. CarriesOn(Append(InFlight, e), v, got, sent[v] + 1)
        BY <3>2, <3>3, CarriesOnAppendOwn DEF e
      <4>2. got <= sent[v] + 1
        BY <3>2
      <4> QED BY <2>1, <2>3, <2>4, <3>2, <3>3, <4>1, <4>2 DEF RepliesOf, got
    <3>4. CASE v # w
      <4>1. CarriesOn(Append(InFlight, e), v, got, sent[v])
        BY <2>2, <3>2, <3>4, CarriesOnAppendOther
      <4> QED BY <2>1, <2>3, <2>4, <3>2, <3>4, <4>1 DEF RepliesOf, got
    <3> QED BY <3>3, <3>4
  <2>7. \A v \in Workers : wrapper'[v] = "none" => sent'[v] = 0
    BY <2>1, <2>3 DEF Replies
  <2> QED BY <2>5, <2>6, <2>7 DEF Replies
<1> QED BY <1>1, <1>2

LEMMA CountedOn ==
  ASSUME NEW got \in Nat
  PROVE  /\ Append([n \in 1..got |-> n], got + 1) = [n \in 1..(got + 1) |-> n]
         /\ Len([n \in 1..(got + 1) |-> n]) = got + 1
<1> DEFINE s == [n \in 1..got |-> n]
           t == [n \in 1..(got + 1) |-> n]
<1>1. s \in Seq(Nat) /\ Len(s) = got
  BY SMTT(30)
<1>2. t \in Seq(Nat) /\ Len(t) = got + 1
  BY SMTT(30)
<1>3. /\ Append(s, got + 1) \in Seq(Nat) /\ Len(Append(s, got + 1)) = got + 1
      /\ Append(s, got + 1)[got + 1] = got + 1
      /\ \A i \in 1..got : Append(s, got + 1)[i] = s[i]
  BY <1>1, AppendProperties
<1>4. \A i \in 1..(got + 1) : Append(s, got + 1)[i] = t[i]
  BY <1>3
<1> HIDE DEF s, t
<1>5. Append(s, got + 1) = t
  BY <1>2, <1>3, <1>4, SeqEqual
<1> QED BY <1>2, <1>5 DEF s, t

LEMMA ReplyHandled ==
  ASSUME WorkerTypeOK, Replies, HandleReply
  PROVE  Replies'
<1> DEFINE r == Handed(ownerInbox)[ownerAt + 1]
<1>1. /\ draining /\ ownerAt < Len(Handed(ownerInbox))
      /\ ownerAt' = ownerAt + 1
      /\ received' = IF wrapper[r.from] = "alive"
                       THEN [received EXCEPT ![r.from] = Append(@, r.n)]
                       ELSE received
      /\ UNCHANGED <<ownerInbox, draining, sent, wrapper>>
  BY DEF HandleReply
<1>2. /\ r \in Reply /\ Unread(ownerInbox, ownerAt + 1) \in Seq(Reply)
      /\ InFlight = <<r>> \o Unread(ownerInbox, ownerAt + 1)
  BY <1>1, ReplyTypes, UnreadOfNext DEF InFlight
<1> HIDE DEF r
<1>3. /\ InFlight' = Unread(ownerInbox, ownerAt + 1)
      /\ InFlight' \in Seq(Reply) /\ InFlight = <<r>> \o InFlight'
  BY <1>1, <1>2 DEF InFlight
<1>4. r.from \in Workers /\ r.n \in Nat
  BY <1>2 DEF Reply
<1>5. BatchOk(ownerInbox, ownerAt, draining)'
  <2>1. ownerAt \in Nat /\ Len(Handed(ownerInbox)) \in Nat
    BY ReplyTypes, UnreadParts
  <2> QED BY <1>1, <2>1 DEF BatchOk
<1>6. ASSUME NEW v \in Workers, wrapper'[v] # "collected"
      PROVE  RepliesOf(v)'
  <2> DEFINE got == Len(received[v])
  <2>1. RepliesOf(v)
    BY <1>1, <1>6 DEF Replies
  <2>2. got \in Nat /\ sent[v] \in Nat /\ got <= sent[v]
        /\ received[v] = [n \in 1..got |-> n]
        /\ CarriesOn(<<r>> \o InFlight', v, got, sent[v])
    BY <1>3, <2>1, ReplyTypes DEF RepliesOf
  <2> HIDE DEF got
  <2>3. CASE r.from = v
    <3>1. /\ r.n = got + 1 /\ got + 1 <= sent[v]
          /\ CarriesOn(InFlight', v, got + 1, sent[v])
      BY <1>2, <1>3, <2>2, <2>3, CarriesOnHead
    <3>2. wrapper[v] = "alive"
      <4>1. wrapper[v] # "none"
        BY <2>2, <3>1 DEF Replies
      <4> QED BY <1>1, <1>6, <4>1 DEF WorkerTypeOK
    <3>3. received'[v] = Append(received[v], got + 1)
      BY <1>1, <2>3, <3>1, <3>2 DEF WorkerTypeOK
    <3>4. received'[v] = [n \in 1..(got + 1) |-> n] /\ Len(received'[v]) = got + 1
      BY <2>2, <3>3, CountedOn
    <3> QED BY <1>1, <3>1, <3>4 DEF RepliesOf
  <2>4. CASE r.from # v
    <3>1. CarriesOn(InFlight', v, got, sent[v])
      BY <1>2, <1>3, <2>2, <2>4, CarriesOnHead
    <3>2. received'[v] = received[v]
      BY <1>1, <1>4, <2>4 DEF WorkerTypeOK
    <3> QED BY <1>1, <2>2, <3>1, <3>2 DEF RepliesOf, got
  <2> QED BY <2>3, <2>4
<1>7. \A v \in Workers : wrapper'[v] = "none" => sent'[v] = 0
  BY <1>1 DEF Replies
<1> QED BY <1>5, <1>6, <1>7 DEF Replies

(* A step of the batch that shows the same replies in flight. *)
LEMMA RepliesShift ==
  ASSUME WorkerTypeOK, Replies, BatchOk(ownerInbox, ownerAt, draining)',
         InFlight' = InFlight, UNCHANGED <<sent, received, wrapper>>
  PROVE  Replies'
<1>1. \A w \in Workers : RepliesOf(w) => RepliesOf(w)'
  BY DEF RepliesOf
<1> QED BY <1>1 DEF Replies

LEMMA RepliesSwapped ==
  ASSUME WorkerTypeOK, Replies, SwapReplies
  PROVE  Replies'
<1>1. /\ ~draining /\ draining' = TRUE /\ ownerAt' = 0
      /\ ownerInbox' = Swap(ownerInbox) /\ UNCHANGED <<sent, received, wrapper>>
  BY DEF SwapReplies
<1>2. Handed(ownerInbox) = <<>> /\ ownerAt = 0
  BY <1>1 DEF Replies, BatchOk
<1>3. InFlight' = InFlight
  BY <1>1, <1>2, ReplyTypes, UnreadOfSwap DEF InFlight
<1>4. Handed(ownerInbox') \in Seq(Reply)
  BY <1>1, ReplyTypes, SwapByRole, BuffersByRole
<1>5. BatchOk(ownerInbox, ownerAt, draining)'
  BY <1>1, <1>4, LenProperties DEF BatchOk
<1> QED BY <1>1, <1>3, <1>5, RepliesShift

LEMMA RepliesCleared ==
  ASSUME WorkerTypeOK, Replies, ClearReplies
  PROVE  Replies'
<1>1. /\ ownerAt = Len(Handed(ownerInbox)) /\ ownerAt' = 0
      /\ ownerInbox' = ClearHanded(ownerInbox)
      /\ UNCHANGED <<sent, received, wrapper>>
  BY DEF ClearReplies
<1>2. InFlight' = InFlight
  BY <1>1, ReplyTypes, UnreadOfClear DEF InFlight
<1>3. BatchOk(ownerInbox, ownerAt, draining)'
  BY <1>1, ReplyTypes, ClearByRole, EmptySeq DEF BatchOk
<1> QED BY <1>1, <1>2, <1>3, RepliesShift

(* The thread of a worker posts a reply or leaves the replies alone. *)
LEMMA ThreadReplies ==
  ASSUME NEW w \in Workers, ThreadStep(w)
  PROVE  /\ PostToOwner(w) \/ UNCHANGED replyVars
         /\ UNCHANGED <<drainVars, wrapper>>
<1>1. CASE CheckStart(w)
  BY <1>1 DEF CheckStart
<1>2. CASE AssignEnv(w)
  BY <1>2 DEF AssignEnv
<1>3. CASE InitDone(w)
  BY <1>3 DEF InitDone
<1>4. CASE InitKilled(w)
  BY <1>4 DEF InitKilled
<1>5. CASE LoadOk(w)
  BY <1>5 DEF LoadOk
<1>6. CASE LoadFail(w)
  BY <1>6 DEF LoadFail
<1>7. CASE OnReady(w)
  BY <1>7 DEF OnReady
<1>8. CASE PollInbox(w)
  BY <1>8 DEF PollInbox
<1>9. CASE StopLoop(w)
  BY <1>9 DEF StopLoop
<1>10. CASE NextMessage(w)
  BY <1>10 DEF NextMessage
<1>11. CASE MessageReturn(w)
  BY <1>11 DEF MessageReturn
<1>12. CASE MessageThrow(w)
  BY <1>12 DEF MessageThrow
<1>13. CASE ClearInbox(w)
  BY <1>13 DEF ClearInbox
<1>14. CASE UpdateDone(w)
  BY <1>14 DEF UpdateDone
<1>15. CASE ShutdownEnv(w)
  BY <1>15 DEF ShutdownEnv
<1>16. CASE ResetEnv(w)
  BY <1>16 DEF ResetEnv
<1>17. CASE LeaveRun(w)
  BY <1>17 DEF LeaveRun
<1> QED BY <1>1, <1>2, <1>3, <1>4, <1>5, <1>6, <1>7, <1>8, <1>9, <1>10, <1>11,
           <1>12, <1>13, <1>14, <1>15, <1>16, <1>17 DEF ThreadStep

(* Every step keeps Replies. *)
LEMMA RepliesStep ==
  ASSUME WorkerTypeOK, Control, Replies, [Next]_vars
  PROVE  Replies'
<1>0. \A w \in Workers : pc[w] # "unborn" => wrapper[w] # "none"
  BY DEF Control
<1>1. ASSUME NEW w \in Workers, ThreadStep(w) PROVE Replies'
  <2>1. wrapper[w] # "none"
    BY <1>0, <1>1, ThreadMoves
  <2>2. CASE PostToOwner(w)
    BY <1>1, <2>1, <2>2, ThreadReplies, ReplyPosted
  <2>3. CASE UNCHANGED replyVars
    BY <1>1, <2>3, ThreadReplies, RepliesKept
  <2> QED BY <1>1, <2>2, <2>3, ThreadReplies
<1>2. ASSUME NEW w \in Workers, JsPost(w) PROVE Replies'
  BY <1>0, <1>2, ReplyPosted DEF JsPost, InScript
<1>3. ASSUME NEW w \in Workers, TimerThrow(w) PROVE Replies'
  BY <1>0, <1>3, ReplyPosted DEF TimerThrow
<1>4. ASSUME NEW w \in Workers, JsClose(w) PROVE Replies'
  BY <1>4, RepliesKept DEF JsClose
<1>5. ASSUME NEW t \in Killer, KillerStep(t) PROVE Replies'
  BY <1>5, RepliesKept
  DEF KillerStep, CheckFlag, SetFlag, ReadEnv, GrabEnv, TerminateEnv
<1>6. ASSUME NEW w \in Workers, Create(w) PROVE Replies'
  <2>1. UNCHANGED <<ownerInbox, ownerAt, draining, sent, received>>
    BY <1>6 DEF Create
  <2>2. wrapper[w] = "none" /\ wrapper' = [wrapper EXCEPT ![w] = "alive"]
    BY <1>6 DEF Create
  <2>3. \A v \in Workers :
          /\ wrapper'[v] # "collected" => wrapper[v] # "collected"
          /\ wrapper'[v] = "none" => wrapper[v] = "none"
    BY <2>2 DEF WorkerTypeOK
  <2> QED BY <2>1, <2>3, RepliesKept
<1>7. ASSUME NEW w \in Workers, BeginPost(w) PROVE Replies'
  BY <1>7, RepliesKept DEF BeginPost
<1>8. ASSUME NEW w \in Workers, Terminate(w) PROVE Replies'
  BY <1>8, RepliesKept DEF Terminate
<1>9. ASSUME NEW w \in Workers, Collect(w) PROVE Replies'
  <2>1. UNCHANGED <<ownerInbox, ownerAt, draining, sent, received>>
    BY <1>9 DEF Collect
  <2>2. wrapper[w] = "alive" /\ wrapper' = [wrapper EXCEPT ![w] = "collected"]
    BY <1>9 DEF Collect
  <2>3. \A v \in Workers :
          /\ wrapper'[v] # "collected" => wrapper[v] # "collected"
          /\ wrapper'[v] = "none" => wrapper[v] = "none"
    BY <2>2 DEF WorkerTypeOK
  <2> QED BY <2>1, <2>3, RepliesKept
<1>10. CASE OnReceive
  BY <1>10, RepliesKept DEF OnReceive
<1>11. CASE ReadReplies
  BY <1>11, RepliesSwapped, ReplyHandled, RepliesCleared DEF ReadReplies
<1>12. CASE StartDispose \/ EndDispose
  BY <1>12, RepliesKept DEF StartDispose, EndDispose
<1>13. CASE StartFinish \/ MainStep
  BY <1>13, RepliesKept DEF StartFinish, MainStep, PickFirst, PickNone, Join,
     RemoveJoined
<1>14. CASE UNCHANGED vars
  BY <1>14, RepliesKept DEF vars
<1> QED
  BY <1>1, <1>2, <1>3, <1>4, <1>5, <1>6, <1>7, <1>8, <1>9, <1>10, <1>11, <1>12,
     <1>13, <1>14
  DEF Next, ScriptStep, OwnerStep

(***************************************************************************)
(* Every reply that a worker posts is received by the owner's JSWorker     *)
(* object, once and in order, or is on its way, whatever the other threads *)
(* do: for any number of workers and messages.                             *)
(***************************************************************************)
THEOREM RepliesAlwaysComplete == Spec => []RepliesComplete
<1>1. Init => Replies
  <2> SUFFICES ASSUME Init PROVE Replies
    OBVIOUS
  <2>1. /\ ownerInbox = NewBuffers /\ ownerAt = 0 /\ InFlight = <<>>
        /\ \A w \in Workers : received[w] = <<>> /\ sent[w] = 0
    BY UnreadOfNew DEF Init, InFlight
  <2>2. BatchOk(ownerInbox, ownerAt, draining)
    BY <2>1, NewBuffersByRole, EmptySeq DEF BatchOk
  <2>3. ASSUME NEW w \in Workers PROVE RepliesOf(w)
    <3>1. Len(<<>>) = 0 /\ DOMAIN <<>> = {}
      OBVIOUS
    <3>2. FromWorker(<<>>, w) = {}
      BY <3>1 DEF FromWorker
    <3>3. CarriesOn(<<>>, w, 0, 0)
      BY <3>2 DEF CarriesOn
    <3>4. <<>> = [n \in 1..0 |-> n]
      OBVIOUS
    <3> QED BY <2>1, <3>1, <3>3, <3>4 DEF RepliesOf
  <2> QED BY <2>1, <2>2, <2>3 DEF Replies
<1>2. WorkerInv /\ Replies /\ [Next]_vars => Replies'
  BY RepliesStep DEF WorkerInv
<1>3. Replies => RepliesComplete
  BY DEF Replies, RepliesOf, RepliesComplete
<1> QED BY <1>1, <1>2, <1>3, WorkerInvariant, PTL DEF Spec

-----------------------------------------------------------------------------
(***************************************************************************)
(* Posts.  A step that leaves the inboxes alone is at most a close of the  *)
(* channel.                                                                *)
(***************************************************************************)
ChanStep(w) ==
  [Chan(w)!ChanNext]_<<PendingOf(w), handled[w], interrupt[w]>>

LEMMA QuietRefines ==
  ASSUME NEW w \in Workers, UNCHANGED <<inbox[w], at[w], handled[w]>>,
         interrupt'[w] = interrupt[w] \/ interrupt'[w] = TRUE
  PROVE  ChanStep(w)
<1>1. PendingOf(w)' = PendingOf(w)
  BY DEF PendingOf
<1>2. CASE interrupt'[w] = TRUE
  BY <1>1, <1>2 DEF ChanStep, Chan!ChanNext, Chan!Close
<1>3. CASE interrupt'[w] = interrupt[w]
  BY <1>1, <1>3 DEF ChanStep
<1> QED BY <1>2, <1>3

(* The fifth part of the invariant: outside a batch the handed vector of a  *)
(* worker's inbox is spent, and a message about to be posted is one of the *)
(* MaxPost ones.                                                           *)
InBatch(w) == pc[w] \in {"drain", "message"}

Posts ==
  /\ \A w \in Workers : BatchOk(inbox[w], at[w], InBatch(w))
  /\ posting # NoWorker => posted[posting] < MaxPost

LEMMA PostTypes ==
  ASSUME WorkerTypeOK, Posts, NEW w \in Workers
  PROVE  /\ inbox[w] \in Buffers(Nat)
         /\ at[w] \in Nat /\ at[w] <= Len(Handed(inbox[w]))
         /\ Len(Handed(inbox[w])) \in Nat
<1>1. inbox[w] \in Buffers(Nat) /\ at[w] \in Nat
      /\ at[w] <= Len(Handed(inbox[w]))
  BY DEF WorkerTypeOK, Posts, BatchOk
<1> QED BY <1>1, UnreadParts

(* A step that leaves inboxes, batches and the message being posted alone. *)
LEMMA PostsKept ==
  ASSUME WorkerTypeOK, Posts, UNCHANGED <<inbox, at, posted>>,
         \A w \in Workers : InBatch(w)' = InBatch(w),
         posting' = posting \/ posting' = NoWorker
  PROVE  Posts'
<1>1. \A w \in Workers : BatchOk(inbox[w], at[w], InBatch(w))'
  BY DEF Posts, BatchOk
<1> QED BY <1>1 DEF Posts

(* What the thread of a worker does to the inboxes. *)
LEMMA ThreadPosts ==
  ASSUME WorkerTypeOK, NEW w \in Workers, ThreadStep(w)
  PROVE  /\ UNCHANGED <<posted, posting>>
         /\ \/ PollInbox(w) \/ NextMessage(w) \/ ClearInbox(w)
            \/ /\ UNCHANGED inboxVars
               /\ \A v \in Workers : InBatch(v)' = InBatch(v)
               /\ \A v \in Workers :
                    interrupt'[v] = interrupt[v] \/ interrupt'[v] = TRUE
<1>1. CASE CheckStart(w)
  BY SMTT(30), <1>1 DEF CheckStart, InBatch, WorkerTypeOK
<1>2. CASE AssignEnv(w)
  BY SMTT(30), <1>2 DEF AssignEnv, InBatch, WorkerTypeOK
<1>3. CASE InitDone(w)
  BY SMTT(30), <1>3 DEF InitDone, InBatch, WorkerTypeOK
<1>4. CASE InitKilled(w)
  BY SMTT(30), <1>4 DEF InitKilled, InBatch, WorkerTypeOK
<1>5. CASE LoadOk(w)
  BY SMTT(30), <1>5 DEF LoadOk, InBatch, WorkerTypeOK
<1>6. CASE LoadFail(w)
  BY SMTT(30), <1>6 DEF LoadFail, InBatch, WorkerTypeOK
<1>7. CASE OnReady(w)
  BY SMTT(30), <1>7 DEF OnReady, InBatch, WorkerTypeOK
<1>8. CASE PollInbox(w)
  BY <1>8 DEF PollInbox
<1>9. CASE StopLoop(w)
  BY SMTT(30), <1>9 DEF StopLoop, InBatch, WorkerTypeOK
<1>10. CASE NextMessage(w)
  BY <1>10 DEF NextMessage
<1>11. CASE MessageReturn(w)
  BY SMTT(30), <1>11 DEF MessageReturn, InBatch, WorkerTypeOK
<1>12. CASE MessageThrow(w)
  BY SMTT(30), <1>12 DEF MessageThrow, InBatch, WorkerTypeOK
<1>13. CASE ClearInbox(w)
  BY <1>13 DEF ClearInbox
<1>14. CASE UpdateDone(w)
  BY SMTT(30), <1>14 DEF UpdateDone, InBatch, WorkerTypeOK
<1>15. CASE ShutdownEnv(w)
  BY SMTT(30), <1>15 DEF ShutdownEnv, InBatch, WorkerTypeOK
<1>16. CASE ResetEnv(w)
  BY SMTT(30), <1>16 DEF ResetEnv, InBatch, WorkerTypeOK
<1>17. CASE LeaveRun(w)
  BY SMTT(30), <1>17 DEF LeaveRun, InBatch, WorkerTypeOK
<1> QED BY <1>1, <1>2, <1>3, <1>4, <1>5, <1>6, <1>7, <1>8, <1>9, <1>10, <1>11,
           <1>12, <1>13, <1>14, <1>15, <1>16, <1>17 DEF ThreadStep

(* inbox_.swap(): the channel does not notice. *)
LEMMA PollRefines ==
  ASSUME WorkerTypeOK, Posts, NEW w \in Workers, PollInbox(w)
  PROVE  Posts' /\ \A v \in Workers : ChanStep(v)
<1>1. /\ inbox' = [inbox EXCEPT ![w] = Swap(inbox[w])]
      /\ pc[w] = "poll" /\ pc' = [pc EXCEPT ![w] = "drain"]
      /\ UNCHANGED <<at, handled, interrupt, posted, posting>>
  BY DEF PollInbox
<1>2. /\ inbox'[w] = Swap(inbox[w])
      /\ \A v \in Workers \ {w} : inbox'[v] = inbox[v]
      /\ pc'[w] = "drain" /\ \A v \in Workers \ {w} : pc'[v] = pc[v]
  BY <1>1 DEF WorkerTypeOK
<1>3. inbox[w] \in Buffers(Nat) /\ Handed(inbox[w]) = <<>> /\ at[w] = 0
  BY <1>1, PostTypes DEF Posts, BatchOk, InBatch
<1>4. PendingOf(w)' = PendingOf(w)
  BY <1>1, <1>2, <1>3, UnreadOfSwap DEF PendingOf
<1>5. ASSUME NEW v \in Workers PROVE ChanStep(v)
  <2>1. CASE v = w
    BY <1>1, <1>4, <2>1 DEF ChanStep
  <2>2. CASE v # w
    BY <1>1, <1>2, <2>2, QuietRefines
  <2> QED BY <2>1, <2>2
<1>6. BatchOk(inbox[w], at[w], InBatch(w))'
  <2>1. Handed(inbox'[w]) \in Seq(Nat)
    BY <1>2, <1>3, SwapByRole, BuffersByRole
  <2> QED BY <1>1, <1>2, <1>3, <2>1, LenProperties DEF BatchOk, InBatch
<1>7. \A v \in Workers \ {w} : BatchOk(inbox[v], at[v], InBatch(v))'
  BY <1>1, <1>2 DEF Posts, BatchOk, InBatch
<1> QED BY <1>1, <1>5, <1>6, <1>7 DEF Posts

(* onmessage is called with the head of the channel. *)
LEMMA NextRefines ==
  ASSUME WorkerTypeOK, Posts, NEW w \in Workers, NextMessage(w)
  PROVE  Posts' /\ \A v \in Workers : ChanStep(v)
<1> DEFINE m == Handed(inbox[w])[at[w] + 1]
<1>1. /\ ~interrupt[w] /\ at[w] < Len(Handed(inbox[w]))
      /\ at' = [at EXCEPT ![w] = at[w] + 1]
      /\ handled' = [handled EXCEPT ![w] = Append(handled[w], m)]
      /\ pc[w] = "drain" /\ pc' = [pc EXCEPT ![w] = "message"]
      /\ UNCHANGED <<inbox, interrupt, posted, posting>>
  BY DEF NextMessage
<1> HIDE DEF m
<1>2. /\ at'[w] = at[w] + 1 /\ handled'[w] = Append(handled[w], m)
      /\ pc'[w] = "message"
      /\ \A v \in Workers \ {w} : /\ at'[v] = at[v] /\ pc'[v] = pc[v]
                                  /\ handled'[v] = handled[v]
  BY <1>1 DEF WorkerTypeOK
<1>3. /\ PendingOf(w) # <<>> /\ Head(PendingOf(w)) = m
      /\ Tail(PendingOf(w)) = Unread(inbox[w], at[w] + 1)
  BY <1>1, PostTypes, UnreadOfNext DEF PendingOf, m
<1>4. PendingOf(w)' = Tail(PendingOf(w))
  BY <1>1, <1>2, <1>3 DEF PendingOf
<1>5. ASSUME NEW v \in Workers PROVE ChanStep(v)
  <2>1. CASE v = w
    <3>1. Chan(w)!Receive
      BY <1>1, <1>2, <1>3, <1>4 DEF Chan!Receive
    <3> QED BY <2>1, <3>1 DEF ChanStep, Chan!ChanNext
  <2>2. CASE v # w
    BY <1>1, <1>2, <2>2, QuietRefines
  <2> QED BY <2>1, <2>2
<1>6. BatchOk(inbox[w], at[w], InBatch(w))'
  BY <1>1, <1>2, PostTypes DEF BatchOk, InBatch
<1>7. \A v \in Workers \ {w} : BatchOk(inbox[v], at[v], InBatch(v))'
  BY <1>1, <1>2 DEF Posts, BatchOk, InBatch
<1> QED BY <1>1, <1>5, <1>6, <1>7 DEF Posts

(* clear() drops what is left of the batch, and only after the interrupt. *)
LEMMA ClearRefines ==
  ASSUME WorkerTypeOK, Posts, NEW w \in Workers, ClearInbox(w)
  PROVE  Posts' /\ \A v \in Workers : ChanStep(v)
<1>1. /\ interrupt[w] \/ at[w] = Len(Handed(inbox[w]))
      /\ inbox' = [inbox EXCEPT ![w] = ClearHanded(inbox[w])]
      /\ at' = [at EXCEPT ![w] = 0]
      /\ pc[w] = "drain" /\ pc' = [pc EXCEPT ![w] = "update"]
      /\ UNCHANGED <<handled, interrupt, posted, posting>>
  BY DEF ClearInbox
<1>2. /\ inbox'[w] = ClearHanded(inbox[w]) /\ at'[w] = 0 /\ pc'[w] = "update"
      /\ \A v \in Workers \ {w} : /\ at'[v] = at[v] /\ pc'[v] = pc[v]
                                  /\ inbox'[v] = inbox[v]
  BY <1>1 DEF WorkerTypeOK
<1>3. PendingOf(w)' = Unread(ClearHanded(inbox[w]), 0)
  BY <1>2 DEF PendingOf
<1>4. ASSUME NEW v \in Workers PROVE ChanStep(v)
  <2>1. CASE v = w /\ at[w] = Len(Handed(inbox[w]))
    <3>1. PendingOf(w)' = PendingOf(w)
      BY <1>3, <2>1, PostTypes, UnreadOfClear DEF PendingOf
    <3> QED BY <1>1, <2>1, <3>1 DEF ChanStep
  <2>2. CASE v = w /\ at[w] # Len(Handed(inbox[w]))
    <3>1. \E k \in 1..Len(PendingOf(w)) :
            PendingOf(w)' = SubSeq(PendingOf(w), k + 1, Len(PendingOf(w)))
      BY <1>3, <2>2, PostTypes, UnreadOfClear DEF PendingOf
    <3>2. Chan(w)!Drop
      BY <1>1, <2>2, <3>1 DEF Chan!Drop
    <3> QED BY <2>2, <3>2 DEF ChanStep, Chan!ChanNext
  <2>3. CASE v # w
    BY <1>1, <1>2, <2>3, QuietRefines
  <2> QED BY <2>1, <2>2, <2>3
<1>5. BatchOk(inbox[w], at[w], InBatch(w))'
  <2>1. Handed(inbox'[w]) = <<>>
    BY <1>2, PostTypes, ClearByRole
  <2> QED BY <1>2, <2>1, EmptySeq DEF BatchOk
<1>6. \A v \in Workers \ {w} : BatchOk(inbox[v], at[v], InBatch(v))'
  BY <1>1, <1>2 DEF Posts, BatchOk, InBatch
<1> QED BY <1>1, <1>4, <1>5, <1>6 DEF Posts

(* on_receive() sends on the channel unless it drops the message. *)
LEMMA OnReceiveRefines ==
  ASSUME WorkerTypeOK, Posts, OnReceive
  PROVE  Posts' /\ \A v \in Workers : ChanStep(v)
<1>0. posting \in Workers
  BY DEF OnReceive, WorkerTypeOK
<1> PICK w \in Workers : w = posting
  BY <1>0
<1> PICK m : m = posted[w] + 1
  OBVIOUS
<1>1. /\ w \in Workers /\ posted[w] \in Nat /\ posted[w] < MaxPost
      /\ posting' = NoWorker /\ UNCHANGED <<at, handled, interrupt, pc>>
      /\ inbox' = [inbox EXCEPT ![w] = Add(inbox[w], m)] \/ inbox' = inbox
  BY DEF OnReceive, Posts, WorkerTypeOK
<1>2. m \in Nat /\ m \in 1..MaxPost
  BY <1>1, WorkerAssumption
<1>3. CASE inbox' = inbox
  <2>1. \A v \in Workers : ChanStep(v)
    BY <1>1, <1>3, QuietRefines
  <2>2. \A v \in Workers : BatchOk(inbox[v], at[v], InBatch(v))'
    BY <1>1, <1>3 DEF Posts, BatchOk, InBatch
  <2> QED BY <1>1, <2>1, <2>2 DEF Posts
<1>4. CASE inbox' = [inbox EXCEPT ![w] = Add(inbox[w], m)]
  <2>1. /\ inbox'[w] = Add(inbox[w], m)
        /\ \A v \in Workers \ {w} : inbox'[v] = inbox[v]
    BY <1>1, <1>4 DEF WorkerTypeOK
  <2>2. PendingOf(w)' = Append(PendingOf(w), m)
    BY <1>1, <1>2, <2>1, PostTypes, UnreadOfAdd DEF PendingOf
  <2>3. ASSUME NEW v \in Workers PROVE ChanStep(v)
    <3>1. CASE v = w
      <4>1. Chan(w)!Send(m)
        BY <1>1, <2>2 DEF Chan!Send
      <4> QED BY <1>2, <3>1, <4>1 DEF ChanStep, Chan!ChanNext
    <3>2. CASE v # w
      BY <1>1, <2>1, <3>2, QuietRefines
    <3> QED BY <3>1, <3>2
  <2>4. Handed(inbox'[w]) = Handed(inbox[w])
    BY <1>1, <1>2, <2>1, PostTypes, AddByRole
  <2>5. \A v \in Workers : Handed(inbox'[v]) = Handed(inbox[v])
    BY <2>1, <2>4
  <2>6. \A v \in Workers : BatchOk(inbox[v], at[v], InBatch(v))'
    BY <1>1, <2>5 DEF Posts, BatchOk, InBatch
  <2> QED BY <1>1, <2>3, <2>6 DEF Posts
<1> QED BY <1>1, <1>3, <1>4

(* A step that leaves inboxes, batches and messages alone and clears no     *)
(* interrupt.                                                              *)
Quiet ==
  /\ UNCHANGED <<inboxVars, posted>>
  /\ posting' = posting \/ posting' = NoWorker
  /\ \A v \in Workers : InBatch(v)' = InBatch(v)
  /\ \A v \in Workers : interrupt'[v] = interrupt[v] \/ interrupt'[v] = TRUE

LEMMA QuietSteps ==
  ASSUME WorkerTypeOK, Posts, Quiet
  PROVE  Posts' /\ \A v \in Workers : ChanStep(v)
BY PostsKept, QuietRefines DEF Quiet

LEMMA KillersQuiet ==
  ASSUME WorkerTypeOK, Control, NEW t \in Killer, KillerStep(t)
  PROVE  Quiet
<1>1. UNCHANGED <<inboxVars, posted, posting, pc>>
  BY DEF KillerStep, CheckFlag, SetFlag, ReadEnv, GrabEnv, TerminateEnv
<1>2. CASE SetFlag(t)
  <2>1. interrupt' = interrupt
        \/ interrupt' = [interrupt EXCEPT ![target[t]] = TRUE]
    BY <1>2 DEF SetFlag
  <2> QED BY <1>1, <2>1 DEF Quiet, InBatch, WorkerTypeOK
<1>3. CASE CheckFlag(t) \/ ReadEnv(t) \/ GrabEnv(t) \/ TerminateEnv(t)
  BY <1>1, <1>3 DEF CheckFlag, ReadEnv, GrabEnv, TerminateEnv, Quiet, InBatch
<1> QED BY <1>2, <1>3 DEF KillerStep

(* Every step keeps Posts and is a step of every worker's channel. *)
LEMMA PostsStep ==
  ASSUME WorkerTypeOK, Control, Posts, [Next]_vars
  PROVE  Posts' /\ \A v \in Workers : ChanStep(v)
<1> DEFINE Fine == Posts' /\ \A v \in Workers : ChanStep(v)
<1>1. ASSUME NEW w \in Workers, ThreadStep(w) PROVE Fine
  <2>1. CASE PollInbox(w)
    BY <2>1, PollRefines
  <2>2. CASE NextMessage(w)
    BY <2>2, NextRefines
  <2>3. CASE ClearInbox(w)
    BY <2>3, ClearRefines
  <2>4. CASE ~PollInbox(w) /\ ~NextMessage(w) /\ ~ClearInbox(w)
    <3>1. Quiet
      BY <1>1, <2>4, ThreadPosts DEF Quiet
    <3> QED BY <3>1, QuietSteps
  <2> QED BY <2>1, <2>2, <2>3, <2>4
<1>2. ASSUME NEW w \in Workers, JsPost(w) PROVE Fine
  <2>1. Quiet
    BY <1>2 DEF JsPost, Quiet, InBatch
  <2> QED BY <2>1, QuietSteps
<1>3. ASSUME NEW w \in Workers, TimerThrow(w) PROVE Fine
  <2>1. Quiet
    BY <1>3 DEF TimerThrow, Quiet, InBatch
  <2> QED BY <2>1, QuietSteps
<1>4. ASSUME NEW w \in Workers, JsClose(w) PROVE Fine
  <2>1. Quiet
    BY <1>4 DEF JsClose, Quiet, InBatch, WorkerTypeOK
  <2> QED BY <2>1, QuietSteps
<1>5. ASSUME NEW t \in Killer, KillerStep(t) PROVE Fine
  BY <1>5, KillersQuiet, QuietSteps
<1>6. ASSUME NEW w \in Workers, Create(w) PROVE Fine
  <2>1. pc[w] = "unborn" /\ pc' = [pc EXCEPT ![w] = "spawned"]
    BY <1>6 DEF Create, Control
  <2>2. \A v \in Workers : InBatch(v)' = InBatch(v)
    BY <2>1 DEF InBatch, WorkerTypeOK
  <2>3. Quiet
    BY <1>6, <2>2 DEF Create, Quiet
  <2> QED BY <2>3, QuietSteps
<1>7. ASSUME NEW w \in Workers, BeginPost(w) PROVE Fine
  <2>1. /\ UNCHANGED <<inbox, at, handled, interrupt, posted, pc>>
        /\ posting' = w /\ posted[w] < MaxPost
    BY <1>7 DEF BeginPost
  <2>2. \A v \in Workers : ChanStep(v)
    BY <2>1, QuietRefines
  <2>3. \A v \in Workers : BatchOk(inbox[v], at[v], InBatch(v))'
    BY <2>1 DEF Posts, BatchOk, InBatch
  <2> QED BY <2>1, <2>2, <2>3 DEF Posts
<1>8. ASSUME NEW w \in Workers, Terminate(w) PROVE Fine
  <2>1. Quiet
    BY <1>8 DEF Terminate, Quiet, InBatch
  <2> QED BY <2>1, QuietSteps
<1>9. ASSUME NEW w \in Workers, Collect(w) PROVE Fine
  <2>1. Quiet
    BY <1>9 DEF Collect, Quiet, InBatch
  <2> QED BY <2>1, QuietSteps
<1>10. CASE OnReceive
  BY <1>10, OnReceiveRefines
<1>11. CASE ReadReplies
  <2>1. Quiet
    BY <1>11 DEF ReadReplies, SwapReplies, HandleReply, ClearReplies, Quiet,
       InBatch
  <2> QED BY <2>1, QuietSteps
<1>12. CASE StartDispose \/ EndDispose
  <2>1. Quiet
    BY <1>12 DEF StartDispose, EndDispose, Quiet, InBatch
  <2> QED BY <2>1, QuietSteps
<1>13. CASE StartFinish \/ MainStep
  <2>1. Quiet
    BY <1>13 DEF StartFinish, MainStep, PickFirst, PickNone, Join,
       RemoveJoined, Quiet, InBatch
  <2> QED BY <2>1, QuietSteps
<1>14. CASE UNCHANGED vars
  <2>1. Quiet
    BY <1>14 DEF vars, Quiet, InBatch
  <2> QED BY <2>1, QuietSteps
<1> QED
  BY <1>1, <1>2, <1>3, <1>4, <1>5, <1>6, <1>7, <1>8, <1>9, <1>10, <1>11, <1>12,
     <1>13, <1>14
  DEF Next, ScriptStep, OwnerStep

(***************************************************************************)
(* JSWorker.postMessage, list, flag, double-buffered inbox and loop        *)
(* together implement one FIFO channel per worker, for every number of     *)
(* workers and messages: each starts empty and open, and whatever step any *)
(* thread makes is a step of every worker's channel or changes nothing it  *)
(* shows.                                                                  *)
(***************************************************************************)
THEOREM PostsImplementChannels == Spec => PostsAreChannels
<1> DEFINE Starts == \A w \in Workers : Chan(w)!ChanInit
           Steps == \A w \in Workers : ChanStep(w)
<1>1. Init => Posts /\ Starts
  <2> SUFFICES ASSUME Init PROVE Posts /\ Starts
    OBVIOUS
  <2>1. \A w \in Workers : /\ inbox[w] = NewBuffers /\ at[w] = 0
                           /\ handled[w] = <<>> /\ interrupt[w] = FALSE
    BY DEF Init
  <2>2. \A w \in Workers : PendingOf(w) = <<>>
    BY <2>1, UnreadOfNew DEF PendingOf
  <2>3. Posts
    BY <2>1, NewBuffersByRole, EmptySeq DEF Posts, BatchOk, Init
  <2> QED BY <2>1, <2>2, <2>3 DEF Chan!ChanInit
<1>2. WorkerInv /\ Posts /\ [Next]_vars => Posts' /\ Steps
  BY PostsStep DEF WorkerInv
<1>3. Steps => \A w \in Workers :
        [Chan(w)!ChanNext]_<<PendingOf(w), handled[w], interrupt[w]>>
  BY DEF ChanStep
<1> QED BY <1>1, <1>2, <1>3, WorkerInvariant, PTL DEF Spec, PostsAreChannels
============================================================================
