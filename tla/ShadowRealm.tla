----------------------------- MODULE ShadowRealm -----------------------------
(***************************************************************************)
(* ShadowRealm and TransferableShadowRealm: guest environments that share  *)
(* the thread of the environment that made them                            *)
(* (src/src/runtime/bridge/jsb_shadow_realm.cpp).                          *)
(*                                                                         *)
(* Host and guest code call each other on one C++ stack, so a realm can be *)
(* terminated by code that was called, directly or not, from that realm.   *)
(* An Environment::FrameScope marks an entry into a guest: terminate()     *)
(* below one is put off until the outermost is left.  Not every way into a *)
(* guest has one: the startup script and the cross-environment wrappers    *)
(* (FunctionCrossWrapper::call, the proxy handlers) do not, and the        *)
(* finalizer does not ask for one.  So an environment can be disposed below *)
(* an entry of its own.  Its scripts do not run on then; what the C++ code *)
(* that is returned to finds depends on who holds a share of it (Lost).    *)
(***************************************************************************)
EXTENDS Naturals, Sequences, FiniteSets

CONSTANTS
  Realms,    \* the ShadowRealm objects that may be created
  NoRealm,   \* no realm
  MaxDepth   \* bound: entries on the stack

ASSUME RealmAssumption ==
  /\ NoRealm \notin Realms
  /\ MaxDepth \in Nat

(* How code on the stack was entered: "host" is host code called by a guest *)
(* (onmessage, onerror, a function that crossed over); the others are guest *)
(* code.  "evaluate" stands for importValue and importValueSync too.        *)
Guest == {"load", "evaluate", "message", "update", "cross"}
Entry == [realm : Realms \cup {NoRealm}, kind : Guest \cup {"host"}]

VARIABLES
  list,     \* get_shadow_realm_list(): realms that have an entry
  object,   \* per realm: its ShadowRealmImpl
  env,      \* per realm: its Environment
  shadow,   \* shadow_env_list_ of the owner environment
  deferred, \* realms whose deferred_destroys_ holds _destroy_by_id
  asked,    \* realms for which terminate() or close() was called
  stack,    \* the entries on the stack, the innermost last
  cursor,   \* the realm Environment::update goes to next
  phase     \* of the process

vars == <<list, object, env, shadow, deferred, asked, stack, cursor, phase>>

RealmTypeOK ==
  /\ list \subseteq Realms
  /\ object \in [Realms -> {"none", "init", "alive", "leaked", "deleted"}]
  /\ env \in [Realms -> {"none", "live", "gone"}]
  /\ shadow \in Seq(Realms)
  /\ deferred \subseteq Realms
  /\ asked \subseteq Realms
  /\ stack \in Seq(Entry)
  /\ cursor \in Realms \cup {NoRealm}
  /\ phase \in {"run", "finishing", "finished", "crashed"}

Init ==
  /\ list = {}
  /\ object = [r \in Realms |-> "none"]
  /\ env = [r \in Realms |-> "none"]
  /\ shadow = <<>>
  /\ deferred = {}
  /\ asked = {}
  /\ stack = <<>>
  /\ cursor = NoRealm
  /\ phase = "run"

----------------------------------------------------------------------------
(* The stack. *)

Top == stack[Len(stack)]
Popped == SubSeq(stack, 1, Len(stack) - 1)

Push(r, k) ==
  /\ Len(stack) < MaxDepth
  /\ stack' = Append(stack, [realm |-> r, kind |-> k])

OnStack(s, r, kinds) ==
  \E i \in 1..Len(s) : s[i].realm = r /\ s[i].kind \in kinds

(* The entries that construct a FrameScope. *)
Framed == {"evaluate", "message", "update"}

(* frame_depth_ > 0, on a given stack. *)
FrameActive(s, r) == OnStack(s, r, Framed)

(* Host code may run: the main loop, or what a guest called. *)
HostRuns ==
  /\ phase = "run"
  /\ IF stack = <<>> THEN cursor = NoRealm ELSE Top.kind = "host"

(* Code of a guest is on top of the stack and its environment exists: what  *)
(* ran in one that was disposed is terminated.                             *)
GuestOnTop(r) ==
  phase = "run" /\ stack # <<>> /\ Top.realm = r /\ Top.kind \in Guest
GuestRuns(r) == GuestOnTop(r) /\ env[r] = "live"

(* is_valid(realm->get_id()) on a realm the host holds. *)
Valid(r) == object[r] = "alive" /\ r \in list /\ env[r] = "live"

(* An environment was disposed and nobody has a share of it: what is still  *)
(* on the stack of it has only freed memory to return to.  V8 aborts when   *)
(* the isolate is disposed that is entered; the model takes no step from    *)
(* such an entry.                                                           *)
Lost(r) == env[r] = "gone" /\ ~OnStack(stack, r, {"update"})

----------------------------------------------------------------------------
(* The end of a realm. *)

(* The list without the place of r, if it has one.                          *)
Without(s, r) ==
  IF \E i \in 1..Len(s) : s[i] = r
    THEN LET at == CHOOSE i \in 1..Len(s) : s[i] = r
         IN [i \in 1..Len(s) - 1 |-> s[IF i < at THEN i ELSE i + 1]]
    ELSE s

(* Mutant: finish() does not remove the realm from the owner's list. *)
FinishKeepsShadow(r) ==
  /\ env' = [env EXCEPT ![r] = "gone"]
  /\ UNCHANGED shadow

(* ShadowRealmImpl::finish: nothing for a realm that lost its id, otherwise *)
(* remove_shadow_env, dispose the environment and drop it.                  *)
Finish(r) ==
  /\ env' = [env EXCEPT ![r] = "gone"]
  /\ shadow' = Without(shadow, r)

(* _destroy *)
Destroy(r) == Finish(r) /\ list' = list \ {r}

(* Mutant: destroy_or_defer returns without registering the request. *)
RequestDrops(r) ==
  /\ r \in list
  /\ asked' = asked \cup {r}
  /\ IF FrameActive(stack, r)
       THEN UNCHANGED <<deferred, list, env, shadow>>
       ELSE Destroy(r) /\ UNCHANGED deferred

(* _terminate: destroy_or_defer below a frame, _destroy otherwise. *)
Request(r) ==
  /\ r \in list
  /\ asked' = asked \cup {r}
  /\ IF FrameActive(stack, r)
       THEN /\ deferred' = deferred \cup {r}
            /\ UNCHANGED <<list, env, shadow>>
       ELSE Destroy(r) /\ UNCHANGED deferred

(* The ShadowRealmImpl of an entry was deleted by its finalizer and is read: *)
(* as long as nothing else is in that memory finish() finds that it has no *)
(* id any more, and only the entry goes.                                   *)
ReadFreed(r) ==
  \/ list' = list \ {r} /\ UNCHANGED phase
  \/ phase' = "crashed" /\ UNCHANGED list

----------------------------------------------------------------------------
(* What host code does. *)

(* new ShadowRealm(): the environment is set up and joins the owner's list. *)
Create(r) ==
  /\ HostRuns /\ object[r] = "none"
  /\ object' = [object EXCEPT ![r] = "alive"]
  /\ list' = list \cup {r}
  /\ env' = [env EXCEPT ![r] = "live"]
  /\ shadow' = Append(shadow, r)
  /\ UNCHANGED <<deferred, asked, stack, cursor, phase>>

(* new ShadowRealm({startupScript}): env_->load() before any of that. *)
CreateAndLoad(r) ==
  /\ HostRuns /\ object[r] = "none"
  /\ object' = [object EXCEPT ![r] = "init"]
  /\ list' = list \cup {r}
  /\ env' = [env EXCEPT ![r] = "live"]
  /\ Push(r, "load")
  /\ UNCHANGED <<shadow, deferred, asked, cursor, phase>>

(* evaluate(), importValue() and importValueSync() *)
Evaluate(r) ==
  /\ HostRuns /\ Valid(r)
  /\ Push(r, "evaluate")
  /\ UNCHANGED <<list, object, env, shadow, deferred, asked, cursor, phase>>

(* postMessage(): on_receive and _on_message run onmessage of the guest. *)
PostMessage(r) ==
  /\ HostRuns /\ Valid(r)
  /\ Push(r, "message")
  /\ UNCHANGED <<list, object, env, shadow, deferred, asked, cursor, phase>>

(* A guest function the host got from evaluate(), also after the host let   *)
(* go of the realm; purge_cache_isolate makes it throw once the guest is    *)
(* gone.                                                                    *)
CallAcross(r) ==
  /\ HostRuns /\ env[r] = "live" /\ object[r] = "alive"
  /\ Push(r, "cross")
  /\ UNCHANGED <<list, object, env, shadow, deferred, asked, cursor, phase>>

(* terminate() *)
Terminate(r) ==
  /\ HostRuns /\ Valid(r)
  /\ Request(r)
  /\ UNCHANGED <<object, stack, cursor, phase>>

(* ShadowRealmImpl::finalizer once the host dropped the object, whatever of *)
(* the realm is on the stack.  Calls that have the object as their receiver *)
(* keep it.  The entry stays in the list.                                   *)
Collect(r) ==
  /\ HostRuns /\ object[r] = "alive"
  /\ ~OnStack(stack, r, {"evaluate", "message"})
  /\ object' = [object EXCEPT ![r] = "deleted"]
  /\ IF Valid(r) THEN Finish(r) ELSE UNCHANGED <<env, shadow>>
  /\ UNCHANGED <<list, deferred, asked, stack, cursor, phase>>

----------------------------------------------------------------------------
(* What guest code does. *)

(* postMessage to the host, an error forwarded to onerror, a host function: *)
(* the host's code runs before the call returns.  During the startup script *)
(* there is no handle yet and messages are dropped.                         *)
CallHost(r) ==
  /\ GuestRuns(r) /\ Top.kind # "load"
  /\ Push(NoRealm, "host")
  /\ UNCHANGED <<list, object, env, shadow, deferred, asked, cursor, phase>>

(* close() *)
Close(r) ==
  /\ GuestRuns(r)
  /\ Request(r)
  /\ UNCHANGED <<object, stack, cursor, phase>>

HostReturn ==
  /\ stack # <<>> /\ Top.kind = "host"
  /\ stack' = Popped
  /\ UNCHANGED <<list, object, env, shadow, deferred, asked, cursor, phase>>

(* Mutants: the frame is left without drain_deferred; it drains whenever a  *)
(* frame is left.                                                           *)
GuestReturnKeeps(r) ==
  /\ GuestRuns(r) /\ Top.kind # "load"
  /\ stack' = Popped
  /\ UNCHANGED <<list, env, shadow, deferred>>
  /\ UNCHANGED <<object, asked, cursor, phase>>

GuestReturnDrains(r) ==
  /\ GuestRuns(r) /\ Top.kind # "load"
  /\ stack' = Popped
  /\ IF Top.kind \in Framed /\ r \in deferred
       THEN deferred' = deferred \ {r} /\ Destroy(r)
       ELSE UNCHANGED <<list, env, shadow, deferred>>
  /\ UNCHANGED <<object, asked, cursor, phase>>

(* The guest's code is done or has thrown.  ~FrameScope of the outermost    *)
(* frame runs drain_deferred().                                             *)
GuestReturn(r) ==
  /\ GuestRuns(r) /\ Top.kind # "load"
  /\ stack' = Popped
  /\ IF Top.kind \in Framed /\ ~FrameActive(Popped, r) /\ r \in deferred
       THEN deferred' = deferred \ {r} /\ Destroy(r)
       ELSE UNCHANGED <<list, env, shadow, deferred>>
  /\ UNCHANGED <<object, asked, cursor, phase>>

(* The script of a realm that was disposed below its own update is stopped, *)
(* and the C++ code unwinds: Environment::update of the owner has a share of *)
(* the Environment.  A request that waits for this frame finds an entry     *)
(* whose ShadowRealmImpl is deleted.                                        *)
GuestUnwinds(r) ==
  /\ GuestOnTop(r) /\ env[r] = "gone" /\ ~Lost(r)
  /\ IF ~FrameActive(Popped, r) /\ r \in deferred
       THEN /\ ReadFreed(r)
            /\ IF phase' = "crashed"
                 THEN UNCHANGED <<stack, deferred>>
                 ELSE stack' = Popped /\ deferred' = deferred \ {r}
       ELSE stack' = Popped /\ UNCHANGED <<list, deferred, phase>>
  /\ UNCHANGED <<object, env, shadow, asked, cursor>>

(* The startup script ran: the realm is bound to its object. *)
Loaded(r) ==
  /\ GuestRuns(r) /\ Top.kind = "load"
  /\ stack' = Popped
  /\ object' = [object EXCEPT ![r] = "alive"]
  /\ shadow' = Append(shadow, r)
  /\ UNCHANGED <<list, env, deferred, asked, cursor, phase>>

(* The startup script failed: finish() and a TypeError; the ShadowRealmImpl *)
(* belongs to no object and is never deleted.                               *)
LoadFailed(r) ==
  /\ GuestRuns(r) /\ Top.kind = "load"
  /\ stack' = Popped
  /\ object' = [object EXCEPT ![r] = "leaked"]
  /\ Destroy(r)
  /\ UNCHANGED <<deferred, asked, cursor, phase>>

----------------------------------------------------------------------------
(* Environment::update of the owner goes through shadow_env_list_; the index *)
(* of the next realm is read before a realm is updated.                     *)

(* Mutant: the position in the list, not what is there. *)
NextSlot(r) ==
  IF \E i \in 1..Len(shadow) - 1 : shadow[i] = r
    THEN (CHOOSE i \in 1..Len(shadow) - 1 : shadow[i] = r) + 1
    ELSE NoRealm

NextOf(r) ==
  IF \E i \in 1..Len(shadow) - 1 : shadow[i] = r
    THEN shadow[(CHOOSE i \in 1..Len(shadow) - 1 : shadow[i] = r) + 1]
    ELSE NoRealm

StartUpdate ==
  /\ phase = "run" /\ stack = <<>> /\ cursor = NoRealm
  /\ shadow # <<>>
  /\ cursor' = Head(shadow)
  /\ UNCHANGED <<list, object, env, shadow, deferred, asked, stack, phase>>

(* update_env: a frame around timers, messages and microtasks of the guest. *)
(* With an index that was removed meanwhile get_next_index and              *)
(* remove_at_checked work on a free slot; what follows is not modelled.     *)
UpdateRealm ==
  /\ phase = "run" /\ stack = <<>> /\ cursor \in Realms
  /\ \E i \in 1..Len(shadow) : shadow[i] = cursor
  /\ cursor' = NextOf(cursor)
  /\ Push(cursor, "update")
  /\ UNCHANGED <<list, object, env, shadow, deferred, asked, phase>>

----------------------------------------------------------------------------
(* GodotJSScriptLanguage::_finish: ShadowRealm::finish_all, then dispose of *)
(* the owner, which runs the finalizers of the objects that are left.       *)

StartFinish ==
  /\ HostRuns /\ stack = <<>>
  /\ phase' = "finishing"
  /\ UNCHANGED <<list, object, env, shadow, deferred, asked, stack, cursor>>

(* One turn of the loop of finish_all.                                      *)
FinishFirst(r) ==
  /\ phase = "finishing" /\ r \in list /\ object[r] # "deleted"
  /\ Destroy(r)
  /\ UNCHANGED <<object, deferred, asked, stack, cursor, phase>>

(* The same for an entry whose ShadowRealmImpl its finalizer deleted. *)
FinishFreed(r) ==
  /\ phase = "finishing" /\ r \in list /\ object[r] = "deleted"
  /\ ReadFreed(r)
  /\ UNCHANGED <<object, env, shadow, deferred, asked, stack, cursor>>

DisposeOwner ==
  /\ phase = "finishing" /\ list = {}
  /\ phase' = "finished"
  /\ object' = [r \in Realms |->
                  IF object[r] = "alive" THEN "deleted" ELSE object[r]]
  /\ UNCHANGED <<list, env, shadow, deferred, asked, stack, cursor>>

----------------------------------------------------------------------------
HostStep(r) ==
  \/ Create(r) \/ CreateAndLoad(r) \/ Evaluate(r) \/ PostMessage(r)
  \/ CallAcross(r) \/ Terminate(r) \/ Collect(r)

GuestStep(r) == CallHost(r) \/ Close(r)

Leave ==
  \/ HostReturn
  \/ \E r \in Realms :
       GuestReturn(r) \/ GuestUnwinds(r) \/ Loaded(r) \/ LoadFailed(r)

Next ==
  \/ \E r \in Realms : HostStep(r) \/ GuestStep(r)
       \/ FinishFirst(r) \/ FinishFreed(r)
  \/ Leave \/ StartUpdate \/ UpdateRealm \/ StartFinish \/ DisposeOwner

Spec == Init /\ [][Next]_vars

(* Every call ends: code that is on top of the stack again and again, at a  *)
(* depth, returns.  A script that never returns hangs the thread it shares  *)
(* with its host.                                                           *)
FairSpec ==
  Spec /\ \A d \in 1..MaxDepth : SF_vars(Len(stack) = d /\ Leave)

----------------------------------------------------------------------------
(***************************************************************************)
(* terminate() and close() never dispose of a realm below one of its frames, *)
(* however host and guests call each other and whoever asks for the end of *)
(* which realm: only the finalizer does that.                              *)
(***************************************************************************)
FramesHold ==
  \A r \in Realms :
    env[r] = "gone" /\ object[r] # "deleted" => ~FrameActive(stack, r)

(***************************************************************************)
(* terminate() and close() take effect: the realm is gone and out of the   *)
(* list as soon as no FrameScope of it is left.                            *)
(***************************************************************************)
TerminateTakesEffect ==
  \A r \in asked : FrameActive(stack, r) \/ (env[r] = "gone" /\ r \notin list)

(***************************************************************************)
(* shadow_env_list_ holds environments that exist, each of them once: of   *)
(* an entry of the list Environment::update never has to report that it is *)
(* "no longer valid".                                                      *)
(***************************************************************************)
ShadowListIsLive ==
  /\ \A i \in 1..Len(shadow) : env[shadow[i]] = "live" /\ shadow[i] \in list
  /\ \A i, j \in 1..Len(shadow) : shadow[i] = shadow[j] => i = j

(* Freed memory of an environment is on the stack. *)
Broken ==
  \E i \in 1..Len(stack) : stack[i].kind \in Guest /\ Lost(stack[i].realm)

(***************************************************************************)
(* A realm that was terminated below a frame of its own is gone some time  *)
(* after, unless the stack cannot be returned to.                          *)
(***************************************************************************)
TerminationHappens ==
  \A r \in Realms :
    (r \in asked /\ FrameActive(stack, r)) ~> (env[r] = "gone" \/ Broken)

(***************************************************************************)
(* jsb_check(shadow_env_list_.is_valid_index(shadow_env_id)) in            *)
(* Environment::update: the realm it goes to next is still in the list.    *)
(***************************************************************************)
CursorIsValid ==
  cursor \in Realms /\ stack = <<>> /\ phase = "run" =>
    \E i \in 1..Len(shadow) : shadow[i] = cursor

(***************************************************************************)
(* jsb_check(frame_depth_ == 0) in Environment::dispose(): no environment  *)
(* is disposed below one of its frames, its own finalizer included.        *)
(***************************************************************************)
DisposedOutsideFrames ==
  \A r \in Realms : env[r] = "gone" => ~FrameActive(stack, r)
=============================================================================
