--------------------------- MODULE ObjectBinding ----------------------------
(***************************************************************************)
(* Godot objects bound to JavaScript objects: the object database of       *)
(* each Environment (jsb_object_db.h), the binding that the engine keeps   *)
(* for an object and an environment, the callbacks of that binding         *)
(* (InstanceBindingCallbacks), the async calls they post, the collector,   *)
(* disposal, and objects that are transferred between environments.        *)
(*                                                                         *)
(* An object is an address: once it was deleted another object may be      *)
(* allocated there.  The thread of an environment and the other threads of *)
(* the engine are the actors.  What an actor does in one step nobody else  *)
(* can see in two; a count that is changed and the callback that follows   *)
(* are two steps.                                                          *)
(*                                                                         *)
(* An object that is not counted is deleted by one thread, when no other    *)
(* uses it: that is what the engine asks of its users.                     *)
(***************************************************************************)
EXTENDS Naturals, Sequences, FiniteSets

CONSTANTS
  Envs,        \* environments, each with a thread of its own
  Threads,     \* other threads of the engine
  RefCounted,  \* addresses of objects that are counted
  Plain,       \* addresses of objects that are deleted by hand
  NoObject,
  MaxRefs,     \* bound: references to one object
  MaxCalls,    \* bound: async calls that wait in one environment
  MaxMail,     \* bound: messages on their way when another is prepared
  MaxEnds      \* bound: environments that are disposed

Objects == RefCounted \cup Plain
Actors == Envs \cup Threads

ASSUME BindingAssumption ==
  /\ IsFiniteSet(Envs) /\ IsFiniteSet(Threads) /\ Envs \cap Threads = {}
  /\ RefCounted \cap Plain = {} /\ NoObject \notin Objects
  /\ MaxRefs \in Nat /\ MaxCalls \in Nat
  /\ MaxMail \in Nat /\ MaxEnds \in Nat

VARIABLES
  life,     \* of the object at an address
  refs,     \* its reference count
  owns,     \* who owns a reference, apart from environments and messages
  ref,      \* ref_ of the entry of an environment for an object
  jsOwned,  \* the entries with the flag OBF_JS_OWNED
  bound,    \* the bindings of the engine
  calls,    \* async_calls_
  pending,  \* collected objects that GC_FREE is still to come for
  inside,   \* in_engine_binding_callback_
  state,    \* of an environment
  mail,     \* messages with an object
  at, on,   \* what an actor is doing, to which object
  entered,  \* the environment whose free_callback an actor is in
  lost,     \* (history) references that nobody gives back any more
  skipped   \* (history) bindings that stay although their entry went

vars == <<life, refs, owns, ref, jsOwned, bound, calls, pending, inside,
          state, mail, at, on, entered, lost, skipped>>

Call == [up : BOOLEAN, obj : RefCounted]
Letter == [from : Envs, to : Envs, obj : Objects, owned : BOOLEAN]
Step == {"idle", "up", "down", "last", "binding", "giving", "blocked", "dying",
         "freeing", "stuck"}

ObjectTypeOK ==
  /\ life \in [Objects -> {"none", "alive", "dying"}]
  /\ refs \in [RefCounted -> Nat]
  /\ owns \subseteq Actors \X RefCounted
  /\ ref \in [Envs -> [Objects -> {"none", "empty", "weak", "strong"}]]
  /\ jsOwned \subseteq Envs \X Objects
  /\ bound \subseteq Envs \X Objects
  /\ calls \in [Envs -> Seq(Call)]
  /\ pending \subseteq Envs \X RefCounted
  /\ inside \in [Envs -> BOOLEAN]
  /\ state \in [Envs -> {"live", "disposing", "cleaning", "disposed"}]
  /\ mail \subseteq Letter
  /\ at \in [Actors -> Step]
  /\ on \in [Actors -> Objects \cup {NoObject}]
  /\ entered \in [Actors -> Envs \cup {NoObject}]
  /\ lost \in [RefCounted -> Nat]
  /\ skipped \subseteq Envs \X Objects
  /\ \A x \in Actors : at[x] # "idle" => on[x] \in Objects
  /\ \A x \in Actors : at[x] = "freeing" => entered[x] \in Envs

Init ==
  /\ life = [o \in Objects |-> "none"]
  /\ refs = [o \in RefCounted |-> 0]
  /\ owns = {}
  /\ ref = [e \in Envs |-> [o \in Objects |-> "none"]]
  /\ jsOwned = {}
  /\ bound = {}
  /\ calls = [e \in Envs |-> <<>>]
  /\ pending = {}
  /\ inside = [e \in Envs |-> FALSE]
  /\ state = [e \in Envs |-> "live"]
  /\ mail = {}
  /\ at = [x \in Actors |-> "idle"]
  /\ on = [x \in Actors |-> NoObject]
  /\ entered = [x \in Actors |-> NoObject]
  /\ lost = [o \in RefCounted |-> 0]
  /\ skipped = {}

Idle(x) == at[x] = "idle"
Go(x, s, o) == at' = [at EXCEPT ![x] = s] /\ on' = [on EXCEPT ![x] = o]
Rest(x) == Go(x, "idle", NoObject)

HasObject(e, o) == ref[e][o] # "none"       \* BindingObjectDB::has_object
TryGetObject(e, o) == ref[e][o] \notin {"none", "empty"}
InStore(e) == state[e] # "disposed"         \* EnvironmentStore::access

----------------------------------------------------------------------------
(* The engine: objects and their counts. *)

(* ClassDB::instantiate into a Variant, also for `new` in a script. *)
Allocate(x, o) ==
  /\ Idle(x) /\ life[o] = "none"
  /\ life' = [life EXCEPT ![o] = "alive"]
  /\ refs' = IF o \in RefCounted THEN [refs EXCEPT ![o] = 1] ELSE refs
  /\ owns' = IF o \in RefCounted THEN owns \cup {<<x, o>>} ELSE owns
  /\ UNCHANGED <<ref, jsOwned, bound, calls, pending, inside, state, mail, at,
                 on, entered, lost, skipped>>

(* What RefCounted::reference and unreference go on with: the callbacks are *)
(* called only where a count of one is crossed.                             *)
AfterInc(n) == IF n <= 2 THEN "up" ELSE "idle"
AfterDec(n) == IF n = 0 THEN "last" ELSE IF n = 1 THEN "down" ELSE "idle"
GoOn(x, s, o) == IF s = "idle" THEN UNCHANGED <<at, on>> ELSE Go(x, s, o)

(* A Ref or a Variant is copied from one that exists, is made by a script   *)
(* from its JavaScript object, or by anybody who has the id of the object:  *)
(* WeakRef, instance_from_id.  A count of zero is not left any more.        *)
Reference(x, o) ==
  /\ Idle(x) /\ life[o] = "alive" /\ <<x, o>> \notin owns
  /\ 0 < refs[o] /\ refs[o] < MaxRefs
  /\ refs' = [refs EXCEPT ![o] = @ + 1]
  /\ owns' = owns \cup {<<x, o>>}
  /\ GoOn(x, AfterInc(refs[o] + 1), o)
  /\ UNCHANGED <<life, ref, jsOwned, bound, calls, pending, inside, state, mail,
                 entered, lost, skipped>>

Unreference(x, o) ==
  /\ Idle(x) /\ <<x, o>> \in owns
  /\ refs' = [refs EXCEPT ![o] = @ - 1]
  /\ owns' = owns \ {<<x, o>>}
  /\ GoOn(x, AfterDec(refs[o] - 1), o)
  /\ UNCHANGED <<life, ref, jsOwned, bound, calls, pending, inside, state, mail,
                 entered, lost, skipped>>

(* Mutant: the handle follows the direction of the call, not the count. *)
SettledByCall(e, o, up) ==
  IF ~TryGetObject(e, o) THEN ref[e][o] ELSE IF up THEN "strong" ELSE "weak"

(* reference_object: what it makes of the handle, by the count it finds. *)
Settled(e, o, up) ==
  IF ~TryGetObject(e, o) THEN ref[e][o]
  ELSE IF up /\ refs[o] > 1 THEN "strong"
  ELSE IF ~up /\ refs[o] = 1 THEN "weak"
  ELSE ref[e][o]

(* Who reference_callback has a call for. *)
Called(o) == {e \in Envs : <<e, o>> \in bound /\ InStore(e) /\ HasObject(e, o)}

(* reference_callback of every binding, under the mutex of the bindings: on *)
(* the thread of the environment the call is executed, else it is queued;   *)
(* what is queued while dispose() cleans up is never executed.  An object   *)
(* that an environment holds is not deleted by its last Ref.                *)
ReferenceCallback(x) ==
  LET o == on[x]
      up == at[x] = "up"
      queued == {e \in Called(o) \ {x} : state[e] # "cleaning"}
  IN
  /\ at[x] \in {"up", "down", "last"}
  /\ \A e \in queued : Len(calls[e]) < MaxCalls
  /\ ref' = IF x \in Called(o) THEN [ref EXCEPT ![x][o] = Settled(x, o, up)]
            ELSE ref
  /\ calls' = [e \in Envs |->
                 IF e \in queued THEN Append(calls[e], [up |-> up, obj |-> o])
                 ELSE calls[e]]
  /\ IF at[x] = "last" /\ Called(o) = {}
       THEN Go(x, "dying", o) /\ life' = [life EXCEPT ![o] = "dying"]
       ELSE Rest(x) /\ UNCHANGED life
  /\ UNCHANGED <<refs, owns, jsOwned, bound, pending, inside, state, mail,
                 entered, lost, skipped>>

(* No environment is binding an object that is not counted, or giving it    *)
(* away.                                                                   *)
Unused(o) ==
  \A e \in Envs : ~(at[e] \in {"binding", "giving"} /\ on[e] = o)

(* Object::free, memdelete, queue_free of an object that is not counted. *)
Free(x, o) ==
  /\ Idle(x) /\ life[o] = "alive"
  /\ Unused(o)
  /\ life' = [life EXCEPT ![o] = "dying"]
  /\ Go(x, "dying", o)
  /\ UNCHANGED <<refs, owns, ref, jsOwned, bound, calls, pending, inside, state,
                 mail, entered, lost, skipped>>

(* Mutant: free_callback posts the work to the thread of the environment.  *)
FreeCallbackPosts(x, e) ==
  /\ at[x] = "dying" /\ <<e, on[x]>> \in bound
  /\ pending' = IF HasObject(e, on[x]) THEN pending \cup {<<e, on[x]>>}
                ELSE pending
  /\ bound' = bound \ {<<e, on[x]>>}
  /\ UNCHANGED <<life, refs, owns, ref, jsOwned, calls, inside, state, mail, at,
                 on, entered, lost, skipped>>

(* free_callback of one binding while the object is destructed: a binding   *)
(* without an entry is just dropped.  The flag is a plain bool of the       *)
(* environment, whatever other threads are in a free_callback of it.        *)
FreeCallback(x, e) ==
  LET o == on[x] IN
  /\ at[x] = "dying" /\ <<e, o>> \in bound
  /\ IF InStore(e) /\ HasObject(e, o)
       THEN /\ inside' = [inside EXCEPT ![e] = TRUE]
            /\ at' = [at EXCEPT ![x] = "freeing"]
            /\ entered' = [entered EXCEPT ![x] = e]
            /\ UNCHANGED <<bound, skipped>>
       ELSE /\ bound' = bound \ {<<e, o>>}
            /\ skipped' = skipped \ {<<e, o>>}
            /\ UNCHANGED <<inside, at, entered>>
  /\ UNCHANGED <<life, refs, owns, ref, jsOwned, calls, pending, state, mail,
                 on, lost>>

(* Its free_object(None), after which the engine drops the binding.  If     *)
(* another thread cleared the flag, the binding is freed from within its    *)
(* own callback, which deadlocks where the engine holds its mutex here.     *)
LeaveFreeCallback(x, e) ==
  LET o == on[x] IN
  /\ at[x] = "freeing" /\ entered[x] = e
  /\ ref' = [ref EXCEPT ![e][o] = "none"]
  /\ jsOwned' = jsOwned \ {<<e, o>>}
  /\ entered' = [entered EXCEPT ![x] = NoObject]
  /\ \/ /\ bound' = bound \ {<<e, o>>}
        /\ skipped' = skipped \ {<<e, o>>}
        /\ inside' = [inside EXCEPT ![e] = FALSE]
        /\ at' = [at EXCEPT ![x] = "dying"]
     \/ /\ HasObject(e, o) /\ ~inside[e]
        /\ skipped' = skipped \cup {<<e, o>>}
        /\ at' = [at EXCEPT ![x] = "stuck"]
        /\ UNCHANGED <<bound, inside>>
  /\ UNCHANGED <<life, refs, owns, calls, pending, state, mail, on, lost>>

(* The memory is free.  A message finds an object by its id, so one whose   *)
(* object is gone carries nothing any more.                                 *)
Deleted(x) ==
  LET o == on[x] IN
  /\ at[x] = "dying" /\ \A e \in Envs : <<e, o>> \notin bound
  /\ life' = [life EXCEPT ![o] = "none"]
  /\ mail' = {m \in mail : m.obj # o}
  /\ Rest(x)
  /\ UNCHANGED <<refs, owns, ref, jsOwned, bound, calls, pending, inside, state,
                 entered, lost, skipped>>

----------------------------------------------------------------------------
(* An environment, on its thread. *)

Live(e) == Idle(e) /\ state[e] = "live"

(* bind_godot_object up to bind_pointer: the environment takes a reference, *)
(* the handle is weak if it is the only one.  An entry that is there is     *)
(* replaced; the reference it had is given back by nobody.                  *)
BindPointer(e, o, owned) ==
  LET n == IF o \in RefCounted THEN refs[o] + 1 ELSE 0 IN
  /\ refs' = IF o \in RefCounted THEN [refs EXCEPT ![o] = n] ELSE refs
  /\ lost' = IF o \in RefCounted /\ HasObject(e, o)
               THEN [lost EXCEPT ![o] = @ + 1] ELSE lost
  /\ ref' = [ref EXCEPT ![e][o] = IF n = 1 THEN "weak" ELSE "strong"]
  /\ jsOwned' = IF owned THEN jsOwned \cup {<<e, o>>}
                ELSE jsOwned \ {<<e, o>>}
  /\ Go(e, "binding", o)

(* Just instantiated, for a `new` in a script: nobody knows of it. *)
Fresh(o) ==
  /\ \A f \in Envs : ~HasObject(f, o) /\ <<f, o>> \notin bound
  /\ \A m \in mail : m.obj # o

(* gd_obj_to_js of an object without a handle, `new` in a script (owned):   *)
(* the caller has a reference.  A collected object may be found whose       *)
(* GC_FREE is still to come, and that will free the new entry.  For an      *)
(* object that is counted the flag makes no difference.                     *)
Bind(e, o, owned) ==
  /\ Live(e) /\ life[o] = "alive"
  /\ o \in RefCounted => <<e, o>> \in owns /\ refs[o] < MaxRefs
  /\ ~TryGetObject(e, o)
  /\ owned => Fresh(o)
  /\ BindPointer(e, o, owned)
  /\ UNCHANGED <<life, owns, bound, calls, pending, inside, state, mail,
                 entered, skipped>>

(* crossbind, when a script is attached: an entry that exists is removed,   *)
(* its binding and its reference stay; then the constructor binds anew.     *)
Crossbind(e, o) ==
  /\ Live(e) /\ life[o] = "alive"
  /\ o \in RefCounted => <<e, o>> \in owns /\ refs[o] < MaxRefs
  /\ BindPointer(e, o, FALSE)
  /\ UNCHANGED <<life, owns, bound, calls, pending, inside, state, mail,
                 entered, skipped>>

(* object_get_instance_binding: create_callback, unless there is one.       *)
BindInstance(e) ==
  /\ at[e] = "binding"
  /\ bound' = bound \cup {<<e, on[e]>>}
  /\ Rest(e)
  /\ UNCHANGED <<life, refs, owns, ref, jsOwned, calls, pending, inside, state,
                 mail, entered, lost, skipped>>

(* What remove_object_binding does with the engine's binding: none of its   *)
(* callbacks may be under way, but the flag does not tell whose it is.      *)
RemoveBinding(e, o) ==
  IF inside[e]
    THEN skipped' = skipped \cup ({<<e, o>>} \cap bound) /\ UNCHANGED bound
    ELSE bound' = bound \ {<<e, o>>} /\ skipped' = skipped \ {<<e, o>>}

(* Mutant: the finalizer does not look at what unreference() returns.      *)
FreeObjectDeletes(e, o) ==
  /\ o \in Plain /\ <<e, o>> \in jsOwned => Unused(o) /\ life[o] = "alive"
  /\ ref' = [ref EXCEPT ![e][o] = "none"]
  /\ jsOwned' = jsOwned \ {<<e, o>>}
  /\ RemoveBinding(e, o)
  /\ refs' = IF o \in RefCounted THEN [refs EXCEPT ![o] = @ - 1] ELSE refs
  /\ IF o \in RefCounted \/ <<e, o>> \in jsOwned
       THEN Go(e, "dying", o) /\ life' = [life EXCEPT ![o] = "dying"]
       ELSE UNCHANGED <<life, at, on>>

(* free_object(Default): the entry goes, then the binding; the finalizer    *)
(* drops the reference, or deletes an object that the environment owns.     *)
FreeObject(e, o) ==
  /\ o \in Plain /\ <<e, o>> \in jsOwned => Unused(o) /\ life[o] = "alive"
  /\ ref' = [ref EXCEPT ![e][o] = "none"]
  /\ jsOwned' = jsOwned \ {<<e, o>>}
  /\ RemoveBinding(e, o)
  /\ IF o \in RefCounted
       THEN /\ refs' = [refs EXCEPT ![o] = @ - 1]
            /\ GoOn(e, AfterDec(refs[o] - 1), o)
            /\ UNCHANGED life
       ELSE /\ UNCHANGED refs
            /\ IF <<e, o>> \in jsOwned
                 THEN /\ Go(e, "dying", o)
                      /\ life' = [life EXCEPT ![o] = "dying"]
                 ELSE UNCHANGED <<life, at, on>>

(* object_gc_callback: the handle is reset, the object freed in a second    *)
(* pass, later (V8) or at once (the other back ends): here it is either.    *)
Collect(e, o) ==
  /\ Idle(e) /\ InStore(e) /\ ref[e][o] = "weak"
  /\ \/ /\ ref' = [ref EXCEPT ![e][o] = "empty"]
        /\ pending' = IF state[e] = "live" THEN pending \cup {<<e, o>>}
                      ELSE pending
        /\ UNCHANGED <<life, refs, jsOwned, bound, at, on, skipped>>
     \/ state[e] = "live" /\ FreeObject(e, o) /\ UNCHANGED pending
  /\ UNCHANGED <<owns, calls, inside, state, mail, entered, lost>>

(* object_gc_callback_second_pass, and TYPE_GC_FREE that it asks for. *)
SecondPass(e, o) ==
  /\ Idle(e) /\ <<e, o>> \in pending
  /\ pending' = pending \ {<<e, o>>}
  /\ IF state[e] = "live" /\ HasObject(e, o) THEN FreeObject(e, o)
     ELSE UNCHANGED <<life, refs, ref, jsOwned, bound, at, on, skipped>>
  /\ UNCHANGED <<owns, calls, inside, state, mail, entered, lost>>

(* exec_async_calls: one call. *)
ExecAsyncCall(e) ==
  /\ Idle(e) /\ state[e] \in {"live", "disposing"} /\ calls[e] # <<>>
  /\ LET c == Head(calls[e])
     IN  ref' = [ref EXCEPT ![e][c.obj] = Settled(e, c.obj, c.up)]
  /\ calls' = [calls EXCEPT ![e] = Tail(@)]
  /\ UNCHANGED <<life, refs, owns, jsOwned, bound, pending, inside, state, mail,
                 at, on, entered, lost, skipped>>

(* dispose() *)
Dispose(e) ==
  /\ Live(e)
  /\ Cardinality({f \in Envs : state[f] # "live"}) < MaxEnds
  /\ state' = [state EXCEPT ![e] = "disposing"]
  /\ UNCHANGED <<life, refs, owns, ref, jsOwned, bound, calls, pending, inside,
                 mail, at, on, entered, lost, skipped>>

(* The calls were executed: _on_gc_request and the loop of dispose().  *)
StartCleanup(e) ==
  /\ Idle(e) /\ state[e] = "disposing" /\ calls[e] = <<>>
  /\ state' = [state EXCEPT ![e] = "cleaning"]
  /\ UNCHANGED <<life, refs, owns, ref, jsOwned, bound, calls, pending, inside,
                 mail, at, on, entered, lost, skipped>>

(* One turn of that loop. *)
DisposeObject(e, o) ==
  /\ Idle(e) /\ state[e] = "cleaning" /\ HasObject(e, o)
  /\ FreeObject(e, o)
  /\ UNCHANGED <<owns, calls, pending, inside, state, mail, entered, lost>>

(* Mutant: the environment leaves the store when its calls are executed. *)
DisposeEarly(e) ==
  /\ Idle(e) /\ state[e] = "cleaning"
  /\ state' = [state EXCEPT ![e] = "disposed"]
  /\ pending' = {p \in pending : p[1] # e}
  /\ UNCHANGED <<life, refs, owns, ref, jsOwned, bound, calls, inside, mail, at,
                 on, entered, lost, skipped>>

(* Nothing is left in the database: the environment leaves the store. *)
DisposeDone(e) ==
  /\ Idle(e) /\ state[e] = "cleaning"
  /\ \A o \in Objects : ~HasObject(e, o)
  /\ state' = [state EXCEPT ![e] = "disposed"]
  /\ pending' = {p \in pending : p[1] # e}
  /\ UNCHANGED <<life, refs, owns, ref, jsOwned, bound, calls, inside, mail, at,
                 on, entered, lost, skipped>>

----------------------------------------------------------------------------
(* Objects in messages. *)

(* prepare_transfer_out and finalize_transfer_out, up to the free_callback  *)
(* that the removal of the binding calls: the Variant of the message has a  *)
(* reference, which is one that the environment owns.                       *)
TransferOut(e, o) ==
  /\ Live(e) /\ life[o] = "alive" /\ TryGetObject(e, o)
  /\ Cardinality(mail) < MaxMail
  /\ o \in RefCounted => <<e, o>> \in owns
  /\ o \in Plain => Unused(o)
  /\ inside' = [inside EXCEPT ![e] = TRUE]
  /\ Go(e, "giving", o)
  /\ UNCHANGED <<life, refs, owns, ref, jsOwned, bound, calls, pending, state,
                 mail, entered, lost, skipped>>

(* free_object(None) in that callback: the entry goes, its reference stays, *)
(* and the message is sent.                                                 *)
Transferred(e, f) ==
  LET o == on[e]
      m == [from |-> e, to |-> f, obj |-> o, owned |-> <<e, o>> \in jsOwned]
  IN
  /\ at[e] = "giving" /\ inside[e] /\ e # f
  /\ \A n \in mail : <<n.from, n.to, n.obj>> # <<e, f, o>>
  /\ mail' = mail \cup {m}
  /\ owns' = owns \ {<<e, o>>}
  /\ ref' = [ref EXCEPT ![e][o] = "none"]
  /\ jsOwned' = jsOwned \ {<<e, o>>}
  /\ bound' = bound \ {<<e, o>>}
  /\ skipped' = skipped \ {<<e, o>>}
  /\ inside' = [inside EXCEPT ![e] = FALSE]
  /\ Rest(e)
  /\ UNCHANGED <<life, refs, calls, pending, state, entered, lost>>

(* The same after another thread cleared the flag: "re-entering             *)
(* object_free_instance_binding here would deadlock".  Nothing is sent.     *)
TransferBlocks(e) ==
  LET o == on[e] IN
  /\ at[e] = "giving" /\ ~inside[e]
  /\ ref' = [ref EXCEPT ![e][o] = "none"]
  /\ jsOwned' = jsOwned \ {<<e, o>>}
  /\ lost' = IF o \in RefCounted THEN [lost EXCEPT ![o] = @ + 1] ELSE lost
  /\ skipped' = skipped \cup {<<e, o>>}
  /\ Go(e, "blocked", o)
  /\ UNCHANGED <<life, refs, owns, bound, calls, pending, inside, state, mail,
                 entered>>

(* Mutant: the reference that came with the object is kept. *)
TransferInKeeps(f, m) ==
  LET o == m.obj IN
  /\ Live(f) /\ m \in mail /\ m.to = f /\ life[o] = "alive"
  /\ <<f, o>> \notin owns
  /\ mail' = mail \ {m}
  /\ refs' = IF o \in RefCounted /\ ~HasObject(f, o)
               THEN [refs EXCEPT ![o] = @ + 1] ELSE refs
  /\ owns' = IF o \in RefCounted THEN owns \cup {<<f, o>>} ELSE owns
  /\ ref' = IF HasObject(f, o) THEN ref
            ELSE [ref EXCEPT ![f][o] = "strong"]
  /\ bound' = bound \cup {<<f, o>>}
  /\ jsOwned' = IF m.owned THEN jsOwned \cup {<<f, o>>}
                ELSE jsOwned \ {<<f, o>>}
  /\ UNCHANGED <<life, calls, pending, inside, state, at, on, entered, lost,
                 skipped>>

(* Mutant: that of the Variant is dropped as well. *)
TransferInDropsBoth(f, m) ==
  LET o == m.obj IN
  /\ Live(f) /\ m \in mail /\ m.to = f /\ life[o] = "alive"
  /\ <<f, o>> \notin owns
  /\ mail' = mail \ {m}
  /\ refs' = IF o \in Plain THEN refs
             ELSE [refs EXCEPT ![o] = IF HasObject(f, o) THEN @ - 2 ELSE @ - 1]
  /\ owns' = IF o \in RefCounted THEN owns \cup {<<f, o>>} ELSE owns
  /\ ref' = IF HasObject(f, o) THEN ref
            ELSE [ref EXCEPT ![f][o] = "strong"]
  /\ bound' = bound \cup {<<f, o>>}
  /\ jsOwned' = IF m.owned THEN jsOwned \cup {<<f, o>>}
                ELSE jsOwned \ {<<f, o>>}
  /\ UNCHANGED <<life, calls, pending, inside, state, at, on, entered, lost,
                 skipped>>

(* transfer_in_bind: the object is bound unless it is, gets the flags it    *)
(* had, and the reference of the sender is dropped.  That of the Variant    *)
(* lives on with the message while the script handles it.                   *)
TransferIn(f, m) ==
  LET o == m.obj IN
  /\ Live(f) /\ m \in mail /\ m.to = f /\ life[o] = "alive"
  /\ <<f, o>> \notin owns
  /\ mail' = mail \ {m}
  /\ refs' = IF o \in RefCounted /\ HasObject(f, o)
               THEN [refs EXCEPT ![o] = @ - 1] ELSE refs
  /\ owns' = IF o \in RefCounted THEN owns \cup {<<f, o>>} ELSE owns
  /\ ref' = IF HasObject(f, o) THEN ref
            ELSE [ref EXCEPT ![f][o] = "strong"]
  /\ bound' = bound \cup {<<f, o>>}
  /\ jsOwned' = IF m.owned THEN jsOwned \cup {<<f, o>>}
                ELSE jsOwned \ {<<f, o>>}
  /\ UNCHANGED <<life, calls, pending, inside, state, at, on, entered, lost,
                 skipped>>

(* The receiver stops: the message is destructed, its Variant with it; the *)
(* reference of the sender is lost.                                        *)
DropMessage(x, m) ==
  /\ Idle(x) /\ m \in mail
  /\ mail' = mail \ {m}
  /\ IF m.obj \in RefCounted
       THEN /\ refs' = [refs EXCEPT ![m.obj] = @ - 1]
            /\ lost' = [lost EXCEPT ![m.obj] = @ + 1]
            /\ GoOn(x, AfterDec(refs[m.obj] - 1), m.obj)
       ELSE UNCHANGED <<refs, lost, at, on>>
  /\ UNCHANGED <<life, owns, ref, jsOwned, bound, calls, pending, inside, state,
                 entered, skipped>>

ThreadStep(x) ==
  \/ \E o \in Objects : Allocate(x, o)
  \/ \E o \in RefCounted : Reference(x, o) \/ Unreference(x, o)
  \/ \E o \in Plain : Free(x, o)
  \/ ReferenceCallback(x)
  \/ \E e \in Envs : FreeCallback(x, e) \/ LeaveFreeCallback(x, e)
  \/ Deleted(x)
  \/ \E m \in mail : DropMessage(x, m)

EnvStep(e) ==
  \/ \E o \in Objects : Bind(e, o, FALSE)
  \/ \E o \in Plain : Bind(e, o, TRUE)
  \/ BindInstance(e)
  \/ \E o \in RefCounted : Collect(e, o) \/ SecondPass(e, o)
  \/ \E o \in Objects : Crossbind(e, o) \/ DisposeObject(e, o)
  \/ ExecAsyncCall(e)
  \/ Dispose(e) \/ StartCleanup(e) \/ DisposeDone(e)
  \/ \E o \in Objects : TransferOut(e, o)
  \/ \E f \in Envs : Transferred(e, f)
  \/ TransferBlocks(e)
  \/ \E m \in mail : TransferIn(e, m)

Next == (\E x \in Actors : ThreadStep(x)) \/ (\E e \in Envs : EnvStep(e))

Spec == Init /\ [][Next]_vars

----------------------------------------------------------------------------
OwnersOf(o) == {x \in Actors : <<x, o>> \in owns}
HoldersOf(o) == {e \in Envs : HasObject(e, o)}
LettersOf(o) == {m \in mail : m.obj = o}

(***************************************************************************)
(* Every reference has an owner: what the engine holds, one for each entry *)
(* of an environment, and two for a message, that of its sender and that   *)
(* of its Variant.  One too few would delete an object that is in use; one *)
(* too many, a leak, there is only of an object that was bound over an      *)
(* entry or was in a message that did not arrive.                          *)
(***************************************************************************)
CountsAgree ==
  \A o \in RefCounted :
    refs[o] = Cardinality(OwnersOf(o)) + Cardinality(HoldersOf(o))
              + 2 * Cardinality(LettersOf(o)) + lost[o]

(***************************************************************************)
(* No environment has an entry for memory that was freed, so an object     *)
(* that is allocated at the same address never gets the JavaScript object  *)
(* of its predecessor: free_callback removes the entry before that.        *)
(***************************************************************************)
EntriesAlive ==
  \A e \in Envs, o \in Objects : HasObject(e, o) => life[o] # "none"

(***************************************************************************)
(* An object is deleted by one thread only, whoever it is that drops the   *)
(* last reference or frees it: the engine, the collector or disposal.      *)
(***************************************************************************)
Deleting(x, o) == on[x] = o /\ at[x] \in {"dying", "freeing", "stuck"}

DeletedOnce ==
  \A x, y \in Actors, o \in Objects :
    Deleting(x, o) /\ Deleting(y, o) => x = y

(***************************************************************************)
(* When no call for an object is on its way, its handle is strong exactly  *)
(* if somebody else holds a reference: the wrapper of an object that is in *)
(* use is not collected, and one that is not in use can be.  Counts change *)
(* on all threads, calls may be executed long after.                       *)
(***************************************************************************)
OnItsWay(e, o) ==
  \/ \E i \in 1..Len(calls[e]) : calls[e][i].obj = o
  \/ \E x \in Actors : at[x] \in {"up", "down", "last", "binding"} /\ on[x] = o

HandleFollowsCount ==
  \A e \in Envs, o \in RefCounted :
    state[e] = "live" /\ TryGetObject(e, o) /\ ~OnItsWay(e, o)
      => (ref[e][o] = "strong" <=> refs[o] > 1)

(***************************************************************************)
(* An environment that left the store has no entry and is the token of no  *)
(* binding, but for those that free_object left to the engine because a    *)
(* callback for another object was under way.                              *)
(***************************************************************************)
TokensEnd ==
  \A e \in Envs, o \in Objects :
    state[e] = "disposed" =>
      ~HasObject(e, o) /\ (<<e, o>> \in bound => <<e, o>> \in skipped)
=============================================================================
