------------------------------- MODULE Worker -------------------------------
(***************************************************************************)
(* JSWorker: worker threads, their registry and their messages             *)
(* (src/src/runtime/bridge/jsb_worker.cpp, the native non-web build).      *)
(*                                                                         *)
(* Three kinds of threads take part.  Every worker thread executes         *)
(* WorkerImpl::_run.  The owner thread is the one whose Environment        *)
(* created the JSWorker objects: it posts, terminates, collects them and   *)
(* reads its inbox in Environment::update.  The main thread executes       *)
(* Worker::finish when the script language shuts down.  When the owner is  *)
(* the main environment (Nested = FALSE) owner and main are one thread;    *)
(* when a worker creates workers (Nested = TRUE) they are two.             *)
(***************************************************************************)
EXTENDS DoubleBuffered

CONSTANTS
  Workers,    \* the JSWorker objects that may be created, one thread each
  NoWorker,   \* no worker
  Nested,     \* the owner is not the main environment
  Sticky,     \* TerminateExecution stays in force once it stopped a script:
              \* TRUE for QuickJS (interrupted_ is never reset), FALSE for V8
  Runaway,    \* workers whose scripts may loop for ever
  MaxPost,    \* bound: messages posted to one worker
  MaxReply    \* bound: scripts post while fewer messages than this were sent

ASSUME WorkerAssumption ==
  /\ NoWorker \notin Workers
  /\ Nested \in BOOLEAN /\ Sticky \in BOOLEAN
  /\ Runaway \subseteq Workers
  /\ MaxPost \in Nat /\ MaxReply \in Nat

Killer == {"owner", "main"}
(* What the kind of a reply (ready, message, error) decides is which callback *)
(* it goes to; here a reply is the n-th one of its worker.                 *)
Reply == [from : Workers, n : Nat]

VARIABLES
  list,        \* get_worker_list(): workers that have an entry
  lock,        \* Worker::lock_ held across steps: by "owner" or "nobody"
  pc,          \* per worker: where its thread is in _run
  interrupt,   \* per worker: interrupt_requested_
  envRef,      \* per worker: WorkerImpl::env_ is set
  env,         \* per worker: state of its Environment object
  terminating, \* per worker: TerminateExecution is pending on its isolate
  inbox,       \* per worker: inbox_
  at,          \* per worker: messages of the current batch already taken
  handled,     \* per worker: messages given to onmessage, in order
  posted,      \* per worker: calls of JSWorker.postMessage
  sent,        \* per worker: messages posted to the owner
  wrapper,     \* per worker: its JSWorker object in the owner environment
  posting,     \* worker whose postMessage is past is_valid(), or NoWorker
  owner,       \* the owner Environment
  ownerInbox,  \* the owner's Environment::inbox_
  draining,    \* the owner is iterating over a batch of its inbox
  ownerAt,     \* messages of that batch already taken
  received,    \* per worker: replies that reached a callback, in order
  kpc,         \* per killer: where it is in WorkerImpl::finish
  target,      \* per killer: the worker it is stopping
  main         \* where the main thread is in Worker::finish

threadVars == <<pc, envRef, env>>
inboxVars == <<inbox, at, handled>>
ownerVars == <<wrapper, posting, owner>>
replyVars == <<ownerInbox, sent>>
drainVars == <<draining, ownerAt, received>>
killVars == <<kpc, target>>
vars == <<list, lock, threadVars, interrupt, terminating, inboxVars, posted,
          ownerVars, replyVars, drainVars, killVars, main>>

WorkerTypeOK ==
  /\ list \subseteq Workers
  /\ lock \in {"nobody", "owner"}
  /\ pc \in [Workers -> {"unborn", "spawned", "create", "init", "load",
                         "ready", "poll", "drain", "message", "update",
                         "shutdown", "reset", "leave", "exited"}]
  /\ interrupt \in [Workers -> BOOLEAN]
  /\ envRef \in [Workers -> BOOLEAN]
  /\ env \in [Workers -> {"none", "live", "disposed", "destructed"}]
  /\ terminating \in [Workers -> BOOLEAN]
  /\ inbox \in [Workers -> Buffers(Nat)]
  /\ at \in [Workers -> Nat]
  /\ handled \in [Workers -> Seq(Nat)]
  /\ posted \in [Workers -> Nat]
  /\ sent \in [Workers -> Nat]
  /\ wrapper \in [Workers -> {"none", "alive", "collected"}]
  /\ posting \in Workers \cup {NoWorker}
  /\ owner \in {"live", "disposing", "disposed"}
  /\ ownerInbox \in Buffers(Reply)
  /\ draining \in BOOLEAN
  /\ ownerAt \in Nat
  /\ received \in [Workers -> Seq(Nat)]
  /\ kpc \in [Killer -> {"idle", "flag", "set", "copy", "grab", "call",
                          "fault"}]
  /\ target \in [Killer -> Workers \cup {NoWorker}]
  /\ main \in {"run", "pick", "signal", "join", "remove", "done"}

Init ==
  /\ list = {}
  /\ lock = "nobody"
  /\ pc = [w \in Workers |-> "unborn"]
  /\ interrupt = [w \in Workers |-> FALSE]
  /\ envRef = [w \in Workers |-> FALSE]
  /\ env = [w \in Workers |-> "none"]
  /\ terminating = [w \in Workers |-> FALSE]
  /\ inbox = [w \in Workers |-> NewBuffers]
  /\ at = [w \in Workers |-> 0]
  /\ handled = [w \in Workers |-> <<>>]
  /\ posted = [w \in Workers |-> 0]
  /\ sent = [w \in Workers |-> 0]
  /\ wrapper = [w \in Workers |-> "none"]
  /\ posting = NoWorker
  /\ owner = "live"
  /\ ownerInbox = NewBuffers
  /\ draining = FALSE
  /\ ownerAt = 0
  /\ received = [w \in Workers |-> <<>>]
  /\ kpc = [t \in Killer |-> "idle"]
  /\ target = [t \in Killer |-> NoWorker]
  /\ main = "run"

----------------------------------------------------------------------------
(* The worker thread: WorkerImpl::_run and what it calls.                   *)

Go(w, from, to) == pc[w] = from /\ pc' = [pc EXCEPT ![w] = to]

(* Environment::_access(token) and post_message() on it: a message to an    *)
(* environment that left the store goes nowhere.                           *)
PostToOwner(w) ==
  IF owner = "disposed" THEN UNCHANGED replyVars
  ELSE /\ sent' = [sent EXCEPT ![w] = @ + 1]
       /\ ownerInbox' = Add(ownerInbox, [from |-> w, n |-> sent[w] + 1])

(* A script that TerminateExecution stopped has unwound to C++. *)
Unwound(w) == terminating' = [terminating EXCEPT ![w] = @ /\ Sticky]

NotThread == UNCHANGED <<list, lock, posted, ownerVars, drainVars, killVars,
                         main>>

Moves(w, from, to) ==
  /\ Go(w, from, to)
  /\ UNCHANGED <<envRef, env, interrupt, terminating, inboxVars,
                 replyVars>>
  /\ NotThread

(* if (!impl->interrupt_requested_.is_set()) *)
CheckStart(w) ==
  \/ interrupt[w] /\ Moves(w, "spawned", "exited")
  \/ ~interrupt[w] /\ Moves(w, "spawned", "create")

(* make_shared<Environment>, impl->env_ = env: from here on others see it. *)
AssignEnv(w) ==
  /\ Go(w, "create", "init")
  /\ env' = [env EXCEPT ![w] = "live"]
  /\ envRef' = [envRef EXCEPT ![w] = TRUE]
  /\ UNCHANGED <<interrupt, terminating, inboxVars, replyVars>>
  /\ NotThread

(* env->init() runs the embedded bundle, then the JSWorker module is set up. *)
InitDone(w) == Moves(w, "init", "load")

(* The bundle is a script like any other: TerminateExecution stops it.  The *)
(* failed jsb_ensuref only reports in release builds, and _run goes on.     *)
(* QuickJS polls interrupted_ only after set_as_interruptible(), below.     *)
InitKilled(w) ==
  /\ terminating[w] /\ ~Sticky
  /\ Go(w, "init", "load")
  /\ Unwound(w)
  /\ UNCHANGED <<envRef, env, interrupt, inboxVars, replyVars>>
  /\ NotThread

LoadOk(w) == Moves(w, "load", "ready")

(* The script is missing, throws or is stopped: forward_error_to_master. *)
LoadFail(w) ==
  /\ Go(w, "load", "shutdown")
  /\ PostToOwner(w)
  /\ Unwound(w)
  /\ UNCHANGED <<envRef, env, interrupt, inboxVars>>
  /\ NotThread

OnReady(w) ==
  /\ lock = "nobody"
  /\ Go(w, "ready", "poll")
  /\ IF w \in list THEN PostToOwner(w) ELSE UNCHANGED replyVars
  /\ UNCHANGED <<envRef, env, interrupt, terminating,
                 inboxVars>>
  /\ NotThread

(* The loop test, then inbox_.swap() of _dispatch_inbox. *)
PollInbox(w) ==
  /\ ~interrupt[w]
  /\ Go(w, "poll", "drain")
  /\ inbox' = [inbox EXCEPT ![w] = Swap(@)]
  /\ UNCHANGED <<envRef, env, interrupt, terminating, at,
                 handled, replyVars>>
  /\ NotThread

StopLoop(w) ==
  /\ interrupt[w]
  /\ Moves(w, "poll", "shutdown")

(* Mutant: the loop over the batch does not look at the flag. *)
NextMessageAlways(w) ==
  /\ at[w] < Len(Handed(inbox[w]))
  /\ Go(w, "drain", "message")
  /\ at' = [at EXCEPT ![w] = @ + 1]
  /\ handled' = [handled EXCEPT ![w] = Append(@, Handed(inbox[w])[at[w] + 1])]
  /\ UNCHANGED <<envRef, env, interrupt, terminating, inbox, replyVars>>
  /\ NotThread

(* One turn of the loop over the batch: _on_message calls onmessage. *)
NextMessage(w) ==
  /\ ~interrupt[w]
  /\ at[w] < Len(Handed(inbox[w]))
  /\ Go(w, "drain", "message")
  /\ at' = [at EXCEPT ![w] = @ + 1]
  /\ handled' = [handled EXCEPT ![w] = Append(@, Handed(inbox[w])[at[w] + 1])]
  /\ UNCHANGED <<envRef, env, interrupt, terminating, inbox,
                 replyVars>>
  /\ NotThread

MessageReturn(w) == Moves(w, "message", "drain")

(* onmessage throws or is stopped: try_catch, forward_error_to_master. *)
MessageThrow(w) ==
  /\ Go(w, "message", "drain")
  /\ PostToOwner(w)
  /\ Unwound(w)
  /\ UNCHANGED <<envRef, env, interrupt, inboxVars>>
  /\ NotThread

(* Mutants: the cursor is put back by the length of the batch; both vectors *)
(* are cleared.                                                            *)
ClearInboxRewinds(w) ==
  /\ interrupt[w] \/ at[w] = Len(Handed(inbox[w]))
  /\ Go(w, "drain", "update")
  /\ inbox' = [inbox EXCEPT ![w] = ClearHanded(@)]
  /\ at' = [at EXCEPT ![w] = @ - Len(Handed(inbox[w]))]
  /\ UNCHANGED <<envRef, env, interrupt, terminating, handled, replyVars>>
  /\ NotThread

ClearInboxBoth(w) ==
  /\ interrupt[w] \/ at[w] = Len(Handed(inbox[w]))
  /\ Go(w, "drain", "update")
  /\ inbox' = [inbox EXCEPT ![w] = NewBuffers]
  /\ at' = [at EXCEPT ![w] = 0]
  /\ UNCHANGED <<envRef, env, interrupt, terminating, handled, replyVars>>
  /\ NotThread

ClearInbox(w) ==
  /\ interrupt[w] \/ at[w] = Len(Handed(inbox[w]))
  /\ Go(w, "drain", "update")
  /\ inbox' = [inbox EXCEPT ![w] = ClearHanded(@)]
  /\ at' = [at EXCEPT ![w] = 0]
  /\ UNCHANGED <<envRef, env, interrupt, terminating,
                 handled, replyVars>>
  /\ NotThread

(* _update_environment and delay_usec: timers and microtasks run scripts.   *)
(* Once the flag is up no script is entered again, so whether a request to  *)
(* terminate was used up in there makes no difference any more.            *)
UpdateDone(w) == Moves(w, "update", "poll")

(* _shutdown_environment: set the flag, dispose ... *)
ShutdownEnv(w) ==
  /\ Go(w, "shutdown", "reset")
  /\ interrupt' = [interrupt EXCEPT ![w] = TRUE]
  /\ env' = [env EXCEPT ![w] = "disposed"]
  /\ UNCHANGED <<envRef, terminating, inboxVars, replyVars>>
  /\ NotThread

(* ... and env_.reset(), which leaves the local `env` of _run. *)
ResetEnv(w) ==
  /\ Go(w, "reset", "leave")
  /\ envRef' = [envRef EXCEPT ![w] = FALSE]
  /\ UNCHANGED <<env, interrupt, terminating, inboxVars,
                 replyVars>>
  /\ NotThread

HeldBy(t, w) == kpc[t] = "call" /\ target[t] = w

(* The local `env` goes out of scope and the thread ends.  The Environment  *)
(* is destructed here unless a killer still holds its copy.                *)
LeaveRun(w) ==
  /\ Go(w, "leave", "exited")
  /\ IF \E t \in Killer : HeldBy(t, w)
       THEN UNCHANGED env
       ELSE env' = [env EXCEPT ![w] = "destructed"]
  /\ UNCHANGED <<envRef, interrupt, terminating, inboxVars, replyVars>>
  /\ NotThread

(* What a script of the worker may call while it runs. *)
InScript(w) == pc[w] \in {"load", "message", "update"}

(* postMessage of the worker's global. *)
JsPost(w) ==
  /\ InScript(w)
  /\ lock = "nobody" /\ w \in list
  /\ sent[w] < MaxReply
  /\ PostToOwner(w)
  /\ UNCHANGED <<threadVars, interrupt, terminating, inboxVars>>
  /\ NotThread

(* A timer callback of the update throws: forward_error_to_master. *)
TimerThrow(w) ==
  /\ pc[w] = "update"
  /\ sent[w] < MaxReply
  /\ PostToOwner(w)
  /\ UNCHANGED <<threadVars, interrupt, terminating, inboxVars>>
  /\ NotThread

(* close(): Worker::terminate on itself.  env_ cannot change meanwhile, and  *)
(* a main thread between any two of its steps leaves the same behind.      *)
JsClose(w) ==
  /\ InScript(w)
  /\ lock = "nobody" /\ w \in list
  /\ ~interrupt[w]
  /\ interrupt' = [interrupt EXCEPT ![w] = TRUE]
  /\ terminating' = [terminating EXCEPT ![w] = TRUE]
  /\ UNCHANGED <<threadVars, inboxVars, replyVars>>
  /\ NotThread

----------------------------------------------------------------------------
(* WorkerImpl::finish, step by step, for the owner (inside terminate, under *)
(* lock_) and for the main thread (no lock).                               *)

NotKiller == UNCHANGED <<list, pc, envRef, inboxVars, posted,
                         ownerVars, replyVars, drainVars>>

(* Mutant: terminate() forgets to unlock. *)
ReturnLocked(t) ==
  /\ kpc' = [kpc EXCEPT ![t] = "idle"]
  /\ IF t = "owner"
       THEN /\ target' = [target EXCEPT ![t] = NoWorker]
            /\ UNCHANGED <<lock, main>>
       ELSE main' = "join" /\ UNCHANGED <<lock, target>>

(* return from finish(): terminate() unlocks, Worker::finish goes on to join. *)
Return(t) ==
  /\ kpc' = [kpc EXCEPT ![t] = "idle"]
  /\ IF t = "owner"
       THEN /\ lock' = "nobody"
            /\ target' = [target EXCEPT ![t] = NoWorker]
            /\ UNCHANGED main
       ELSE main' = "join" /\ UNCHANGED <<lock, target>>

Step(t, to) ==
  /\ kpc' = [kpc EXCEPT ![t] = to]
  /\ UNCHANGED <<lock, target, main>>

(* if (interrupt_requested_.is_set()) return; ... *)
CheckFlag(t) ==
  /\ kpc[t] = "flag"
  /\ IF interrupt[target[t]] THEN Return(t) ELSE Step(t, "set")
  /\ UNCHANGED <<interrupt, terminating, env>>
  /\ NotKiller

(* ... and interrupt_requested_.set(), a step later: Worker::finish does not *)
(* take lock_ for either, so both killers may get here.                    *)
SetFlag(t) ==
  /\ kpc[t] = "set"
  /\ interrupt' = [interrupt EXCEPT ![target[t]] = TRUE]
  /\ Step(t, "copy")
  /\ UNCHANGED <<terminating, env>>
  /\ NotKiller

(* `env = env_` without a lock while _run may reset env_: the pointer is    *)
(* read first, its use count is raised later.                              *)
ReadEnv(t) ==
  /\ kpc[t] = "copy"
  /\ IF envRef[target[t]] THEN Step(t, "grab") ELSE Return(t)
  /\ UNCHANGED <<interrupt, terminating, env>>
  /\ NotKiller

(* Raising the count of an Environment that is destructed uses freed memory: *)
(* nothing is known of what the thread does next, and the model takes no   *)
(* further step of it.  A lock_ it holds stays held.                       *)
GrabEnv(t) ==
  /\ kpc[t] = "grab"
  /\ Step(t, IF env[target[t]] = "destructed" THEN "fault" ELSE "call")
  /\ UNCHANGED <<interrupt, terminating, env>>
  /\ NotKiller

(* TerminateExecution, then `env` goes out of scope: the last owner of an   *)
(* Environment destructs it.                                               *)
TerminateEnv(t) ==
  LET w == target[t] IN
  /\ kpc[t] = "call"
  /\ terminating' = [terminating EXCEPT ![w] = TRUE]
  /\ IF pc[w] = "exited" /\ ~\E u \in Killer \ {t} : HeldBy(u, w)
       THEN env' = [env EXCEPT ![w] = "destructed"]
       ELSE UNCHANGED env
  /\ Return(t)
  /\ UNCHANGED interrupt
  /\ NotKiller

----------------------------------------------------------------------------
(* The owner thread: what scripts do with JSWorker objects, the collector,  *)
(* and Environment::update.                                                *)

(* Code of the owner runs: it is not inside terminate(), and when it is the *)
(* main thread that is not inside Worker::finish.                          *)
OwnerRuns ==
  /\ kpc["owner"] = "idle"
  /\ Nested \/ main \in {"run", "done"}
  /\ posting = NoWorker

ScriptsRun == OwnerRuns /\ owner = "live" /\ (Nested \/ main = "run")

NotOwner == UNCHANGED <<threadVars, terminating, main>>

(* new JSWorker(path): Worker::create starts the thread under lock_. *)
Create(w) ==
  /\ ScriptsRun
  /\ lock = "nobody"
  /\ wrapper[w] = "none"
  /\ wrapper' = [wrapper EXCEPT ![w] = "alive"]
  /\ list' = list \cup {w}
  /\ pc' = [pc EXCEPT ![w] = "spawned"]
  /\ UNCHANGED <<lock, envRef, env, interrupt, terminating,
                 inboxVars, posted, posting, owner, replyVars, drainVars,
                 killVars, main>>

(* postMessage: throws unless is_valid(); serialises the message ... *)
BeginPost(w) ==
  /\ ScriptsRun
  /\ lock = "nobody"
  /\ wrapper[w] = "alive" /\ w \in list
  /\ posted[w] < MaxPost
  /\ posting' = w
  /\ UNCHANGED <<list, lock, interrupt, inboxVars, posted, wrapper, owner,
                 replyVars, drainVars, killVars>>
  /\ NotOwner

(* ... and Worker::on_receive, a moment later, drops it if the worker has   *)
(* left the list or was interrupted.                                       *)
OnReceive ==
  LET w == posting IN
  /\ w # NoWorker
  /\ lock = "nobody"
  /\ posting' = NoWorker
  /\ posted' = [posted EXCEPT ![w] = @ + 1]
  /\ IF w \in list /\ ~interrupt[w]
       THEN inbox' = [inbox EXCEPT ![w] = Add(@, posted[w] + 1)]
       ELSE UNCHANGED inbox
  /\ UNCHANGED <<list, lock, interrupt, at, handled, wrapper, owner, replyVars,
                 drainVars, killVars>>
  /\ NotOwner

EnterFinish(w) ==
  /\ lock' = "owner"
  /\ kpc' = [kpc EXCEPT !["owner"] = "flag"]
  /\ target' = [target EXCEPT !["owner"] = w]

(* terminate() on the JSWorker: a worker that left the list is dead. *)
Terminate(w) ==
  /\ ScriptsRun
  /\ lock = "nobody"
  /\ wrapper[w] = "alive" /\ w \in list
  /\ EnterFinish(w)
  /\ UNCHANGED <<list, interrupt, inboxVars, posted, ownerVars, replyVars,
                 drainVars>>
  /\ NotOwner

(* Mutant: collecting a JSWorker does not terminate its thread. *)
CollectOnly(w) ==
  /\ OwnerRuns /\ owner # "disposed"
  /\ lock = "nobody"
  /\ wrapper[w] = "alive"
  /\ wrapper' = [wrapper EXCEPT ![w] = "collected"]
  /\ UNCHANGED <<list, lock, killVars, interrupt, inboxVars, posted, posting,
                 owner, replyVars, drainVars>>
  /\ NotOwner

(* Worker::finalizer, from the collector or from Environment::dispose. *)
Collect(w) ==
  /\ OwnerRuns /\ owner # "disposed"
  /\ lock = "nobody"
  /\ wrapper[w] = "alive"
  /\ wrapper' = [wrapper EXCEPT ![w] = "collected"]
  /\ IF w \in list THEN EnterFinish(w) ELSE UNCHANGED <<lock, killVars>>
  /\ UNCHANGED <<list, interrupt, inboxVars, posted, posting, owner, replyVars,
                 drainVars>>
  /\ NotOwner

(* Environment::update: inbox_.swap(). *)
SwapReplies ==
  /\ ScriptsRun /\ ~draining
  /\ Filling(ownerInbox) # <<>>
  /\ draining' = TRUE
  /\ ownerAt' = 0
  /\ ownerInbox' = Swap(ownerInbox)
  /\ UNCHANGED <<list, lock, interrupt, inboxVars, posted, ownerVars, sent,
                 received, killVars>>
  /\ NotOwner

(* _on_worker_message: nothing happens if the JSWorker object is gone. *)
HandleReply ==
  LET r == Handed(ownerInbox)[ownerAt + 1] IN
  /\ ScriptsRun /\ draining
  /\ ownerAt < Len(Handed(ownerInbox))
  /\ ownerAt' = ownerAt + 1
  /\ received' = IF wrapper[r.from] = "alive"
                   THEN [received EXCEPT ![r.from] = Append(@, r.n)]
                   ELSE received
  /\ UNCHANGED <<list, lock, interrupt, inboxVars, posted, ownerVars,
                 replyVars, draining, killVars>>
  /\ NotOwner

(* Mutant: clear() hits the vector that workers append to. *)
ClearRepliesFilling ==
  /\ ScriptsRun /\ draining
  /\ ownerAt = Len(Handed(ownerInbox))
  /\ draining' = FALSE
  /\ ownerAt' = 0
  /\ ownerInbox' = Swap(ClearHanded(Swap(ownerInbox)))
  /\ UNCHANGED <<list, lock, interrupt, inboxVars, posted, ownerVars, sent,
                 received, killVars>>
  /\ NotOwner

ClearReplies ==
  /\ ScriptsRun /\ draining
  /\ ownerAt = Len(Handed(ownerInbox))
  /\ draining' = FALSE
  /\ ownerAt' = 0
  /\ ownerInbox' = ClearHanded(ownerInbox)
  /\ UNCHANGED <<list, lock, interrupt, inboxVars, posted, ownerVars, sent,
                 received, killVars>>
  /\ NotOwner

(* Environment::dispose of the owner: free_object for every JSWorker left   *)
(* (Collect), then EnvironmentStore::remove.                               *)
StartDispose ==
  /\ OwnerRuns /\ owner = "live" /\ ~draining
  /\ Nested \/ main = "done"
  /\ owner' = "disposing"
  /\ UNCHANGED <<list, lock, interrupt, inboxVars, posted, wrapper, posting,
                 replyVars, drainVars, killVars>>
  /\ NotOwner

EndDispose ==
  /\ OwnerRuns /\ owner = "disposing"
  /\ \A w \in Workers : wrapper[w] # "alive"
  /\ owner' = "disposed"
  /\ UNCHANGED <<list, lock, interrupt, inboxVars, posted, wrapper, posting,
                 replyVars, drainVars, killVars>>
  /\ NotOwner

----------------------------------------------------------------------------
(* The main thread: Worker::finish. *)

NotMain == UNCHANGED <<threadVars, interrupt, terminating, inboxVars, posted,
                       ownerVars, replyVars, drainVars>>

(* GodotJSScriptLanguage::_finish; the main thread is not in an update. *)
StartFinish ==
  /\ main = "run"
  /\ Nested \/ (OwnerRuns /\ ~draining)
  /\ main' = "pick"
  /\ UNCHANGED <<list, lock, killVars>>
  /\ NotMain

PickFirst(w) ==
  /\ main = "pick" /\ lock = "nobody"
  /\ w \in list
  /\ main' = "signal"
  /\ kpc' = [kpc EXCEPT !["main"] = "flag"]
  /\ target' = [target EXCEPT !["main"] = w]
  /\ UNCHANGED <<list, lock>>
  /\ NotMain

(* The list is empty.  A nested owner is a worker itself and was joined     *)
(* too, so its Environment is gone by then.                                *)
PickNone ==
  /\ main = "pick" /\ lock = "nobody"
  /\ list = {} /\ (Nested => owner = "disposed")
  /\ main' = "done"
  /\ UNCHANGED <<list, lock, killVars>>
  /\ NotMain

(* Mutant: the thread is not waited for. *)
JoinAtOnce ==
  /\ main = "join"
  /\ main' = "remove"
  /\ UNCHANGED <<list, lock, killVars>>
  /\ NotMain

(* thread_->wait_to_finish() *)
Join ==
  /\ main = "join"
  /\ pc[target["main"]] = "exited"
  /\ main' = "remove"
  /\ UNCHANGED <<list, lock, killVars>>
  /\ NotMain

(* Mutant: the whole list is cleared after the first join. *)
RemoveAll ==
  /\ main = "remove" /\ lock = "nobody"
  /\ main' = "pick"
  /\ list' = {}
  /\ target' = [target EXCEPT !["main"] = NoWorker]
  /\ UNCHANGED <<lock, kpc>>
  /\ NotMain

RemoveJoined ==
  /\ main = "remove" /\ lock = "nobody"
  /\ main' = "pick"
  /\ list' = list \ {target["main"]}
  /\ target' = [target EXCEPT !["main"] = NoWorker]
  /\ UNCHANGED <<lock, kpc>>
  /\ NotMain

----------------------------------------------------------------------------
ThreadStep(w) ==
  \/ CheckStart(w) \/ AssignEnv(w) \/ InitDone(w) \/ InitKilled(w)
  \/ LoadOk(w) \/ LoadFail(w) \/ OnReady(w)
  \/ PollInbox(w) \/ StopLoop(w)
  \/ NextMessage(w) \/ MessageReturn(w) \/ MessageThrow(w)
  \/ ClearInbox(w) \/ UpdateDone(w)
  \/ ShutdownEnv(w) \/ ResetEnv(w) \/ LeaveRun(w)

ScriptStep(w) == JsPost(w) \/ TimerThrow(w) \/ JsClose(w)

KillerStep(t) ==
  CheckFlag(t) \/ SetFlag(t) \/ ReadEnv(t) \/ GrabEnv(t) \/ TerminateEnv(t)

OwnerStep(w) == Create(w) \/ BeginPost(w) \/ Terminate(w) \/ Collect(w)

ReadReplies == SwapReplies \/ HandleReply \/ ClearReplies

MainStep ==
  \/ \E w \in Workers : PickFirst(w)
  \/ PickNone \/ Join \/ RemoveJoined

Next ==
  \/ \E w \in Workers : ThreadStep(w) \/ ScriptStep(w) \/ OwnerStep(w)
  \/ \E t \in Killer : KillerStep(t)
  \/ OnReceive \/ ReadReplies \/ StartDispose \/ EndDispose
  \/ StartFinish \/ MainStep

Spec == Init /\ [][Next]_vars

(***************************************************************************)
(* Fairness.  Threads are scheduled, C++ code goes on, lock_ is granted to *)
(* whoever keeps asking for it, and a script ends unless it is a Runaway   *)
(* one that nobody terminated.  What the owner's scripts do is up to them, *)
(* but a nested owner is a worker: once main finishes, its loop ends too.  *)
(* Strong fairness, because lock_ comes and goes.                          *)
(***************************************************************************)
Progress(w) ==
  /\ ThreadStep(w)
  /\ InScript(w) /\ w \in Runaway => terminating[w]

(* Environment::dispose of a nested owner, and what its thread does first. *)
OwnerLoop ==
  \/ OnReceive
  \/ ReadReplies
  \/ main # "run" /\ StartDispose
  \/ owner = "disposing" /\ \E w \in Workers : Collect(w)
  \/ EndDispose

Fairness ==
  /\ \A w \in Workers : SF_vars(Progress(w))
  /\ \A t \in Killer : WF_vars(KillerStep(t))
  /\ SF_vars(OwnerLoop)
  /\ SF_vars(MainStep)

FairSpec == Spec /\ Fairness

----------------------------------------------------------------------------
(***************************************************************************)
(* A thread in _run uses the WorkerImpl it was given as a raw pointer.     *)
(* The registry owns that object, so no thread may run without its entry,  *)
(* whoever terminates, collects, closes or joins in the meantime.          *)
(***************************************************************************)
RunningIsRegistered ==
  \A w \in Workers : pc[w] \notin {"unborn", "exited"} => w \in list

(***************************************************************************)
(* Worker::finish() "releases all workers": when it returns, no worker     *)
(* thread is left, none can be started any more, and every Environment a   *)
(* worker had is destructed.  _finish() destroys the main environment, to  *)
(* which workers post, right after.                                        *)
(***************************************************************************)
FinishJoinsAll ==
  main = "done" =>
    \A w \in Workers : /\ pc[w] \in {"unborn", "exited"}
                       /\ env[w] \in {"none", "destructed"}

(***************************************************************************)
(* The owner gets what a worker posts: as long as its JSWorker object      *)
(* lives, every reply posted so far was received or is still in the        *)
(* owner's inbox, once and in order.  The replies received are 1, 2, ...   *)
(* and those in flight, from first to last, the ones after them.           *)
(***************************************************************************)
InFlight == Unread(ownerInbox, ownerAt)

FromWorker(q, w) == {i \in DOMAIN q : q[i].from = w}

CarriesOn(q, w, got, upto) ==
  /\ {q[i].n : i \in FromWorker(q, w)} = got + 1 .. upto
  /\ \A i, j \in FromWorker(q, w) : i < j => q[i].n < q[j].n

RepliesComplete ==
  \A w \in Workers : wrapper[w] = "alive" =>
    LET got == Len(received[w])
    IN  /\ got <= sent[w]
        /\ received[w] = [n \in 1..got |-> n]
        /\ CarriesOn(InFlight, w, got, sent[w])

(***************************************************************************)
(* A disposed owner leaves no worker of its own behind: the finalizer of   *)
(* every JSWorker asked its thread to stop, in whatever state it was.      *)
(***************************************************************************)
NoOrphans ==
  owner = "disposed" => \A w \in Workers : pc[w] # "unborn" => interrupt[w]

(***************************************************************************)
(* JSWorker.postMessage through list, flag, inbox and loop is one FIFO     *)
(* channel per worker that ends with the interrupt.                        *)
(***************************************************************************)
PendingOf(w) == Unread(inbox[w], at[w])

Chan(w) == INSTANCE Channel WITH Msg <- 1..MaxPost, queue <- PendingOf(w),
             received <- handled[w], closed <- interrupt[w]

PostsAreChannels ==
  /\ \A w \in Workers : Chan(w)!ChanInit
  /\ [][\A w \in Workers : [Chan(w)!ChanNext]_<<PendingOf(w), handled[w],
                                               interrupt[w]>>]_vars

(* A killer has used a destructed Environment. *)
Faulted == \E t \in Killer : kpc[t] = "fault"

(***************************************************************************)
(* A message that entered the inbox reaches onmessage unless the worker is *)
(* interrupted, which includes that its script failed to load.  Nothing is *)
(* said once a killer used a destructed Environment.                       *)
(***************************************************************************)
PostsAreHandled ==
  \A w \in Workers : \A n \in 1..MaxPost :
    (\E i \in 1..Len(PendingOf(w)) : PendingOf(w)[i] = n)
      ~> (interrupt[w] \/ (\E i \in 1..Len(handled[w]) : handled[w][i] = n)
                      \/ Faulted)

(***************************************************************************)
(* Worker::finish() returns: every join it waits for ends, whatever the    *)
(* workers are doing, also while they create or post to others - unless a  *)
(* killer used a destructed Environment.                                   *)
(***************************************************************************)
FinishReturns == main = "pick" ~> (main = "done" \/ Faulted)
=============================================================================
