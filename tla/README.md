# GodotJS-Ext in TLA+

GodotJS-Ext is a GDExtension that lets Godot scripts be written in JavaScript. Its own logic
is the runtime under `src/src/runtime`: environments (one JavaScript isolate each), worker
threads, shadow realms, timers, modules, and the binding of Godot objects to JavaScript
objects. This directory holds TLA+ models of that logic, TLC configurations that check
them, and proofs that TLAPS checks.

Paths below are relative to `src/src/`; `bridge/` stands for `runtime/bridge/`.

## The system

| component | state | operations | interacts with |
|---|---|---|---|
| Environment (`bridge/jsb_environment.*`) | isolate, inbox, object db, async calls, timers, list of shadow environments, deferred destructions | `init`, `update`, `dispose`, `bind_object`, `free_object`, `add_async_call`, `post_message` | everything; found by token in the process-wide store `EnvironmentStore` |
| Double-buffered inbox (`internal/jsb_double_buffered.h`) | two vectors, `use_front_` | `add` and `swap` under a spin lock, `clear` of the swapped vector outside of it | posting threads, the reading environment |
| JSWorker (`bridge/jsb_worker.*`) | registry `worker_list_` under `lock_`; per worker `interrupt_requested_`, `env_`, inbox, thread | `create`, `postMessage`, `terminate`, `close`, `finalizer`, `_run`, `finish` | owner environment (messages, collection), main thread (shutdown) |
| ShadowRealm (`bridge/jsb_shadow_realm.*`) | list of realms, environment per realm, `frame_depth_`, `deferred_destroys_`, `shadow_env_list_` of the owner | constructor, `evaluate`, `importValue`, `postMessage`, `terminate`, `close`, `update_env`, `finish_all` | host code on the same stack, the owner's `update` |
| Timers (`runtime/internal/jsb_timer_manager.h`, `bridge/jsb_essentials.cpp`) | wheels with slots, used timers, activated timers | `set_timer`, `clear_timer`, `tick`, `invoke_timers` | scripts (`setTimeout` and relatives), `Environment::update` |
| Object binding (`bridge/jsb_object_db.h`, `jsb_environment.cpp`) | handles with weak or strong references, counts, flags | bind, reference, unreference, free, weak callbacks in two passes | Godot threads that free objects, the collector |
| Slot containers (`runtime/internal/jsb_sarray.h`, `jsb_sindex.h`) | slots, free list, order, revisions | add, remove, iterate | registry, timers, realms, modules |
| Modules (`bridge/jsb_module*.{h,cpp}`, loaders) | cache, exports, reload flags | load, reload, resolve | scripts, editor |
| Async modules (`bridge/jsb_async_module_*`) | tokens, resolvers, the loader | import, answer | threads of the loader |
| Transfers (`bridge/jsb_cross_isolate_util.*`) | objects on their way between environments | finalise here, bind there | workers, realms |
| Variant allocator (`runtime/internal/jsb_variant_allocator.h`) | pool, variants given back | alloc, free, drain | collector threads |
| Script language (`runtime/weaver/`) | scripts, instances, class info | create, reload, finish | editor, scene tree |

The rest is not core logic: engine back ends, conversions and generated bindings, debugger,
logging, source maps, editor tools. `PROJECT.json` lists each with a reason.

What is hard here:

- **Threads.** A worker's thread, the thread that owns it and the main thread at shutdown
  share `WorkerImpl`. `env_` is a `shared_ptr` that is copied without a lock while its thread
  resets it; `clear()` of an inbox runs outside the spin lock; `lock_` is not held during a join.
- **One stack.** A realm and its host call each other without bound, and any frame may
  terminate any realm. Frames count entries so that destruction can be deferred, but not every
  entry constructs a frame.
- **Order of ends.** Threads, environments, realms, JavaScript objects and their registry entries
  end in many orders: `terminate`, `close`, collection, disposal of the owner, shutdown.
- **Lists walked while scripts run.** The owner's realms and the activated timers.
- **Two collectors.** A Godot object is counted by the engine and its JavaScript object is traced
  by a collector. Each keeps the other alive through a handle that turns weak and strong as the
  count crosses one, and the calls that turn it come from any thread, perhaps long after.
- **Arithmetic at edges.** Wheel overflow, unsigned delays, revisions that wrap.
- **Files that change under running code.** A module is marked, loaded again, thrown out of its
  evaluation or answered for while its file is written.

`PROJECT.json` lists 40 such hazards at their lines, with the properties that cover them or
the reason why none does.

What makes each component correct: an inbox is a FIFO channel; a running thread is
registered and a finished shutdown leaves no thread; terminate and close never destroy what is
entered through a frame, and what was asked to end does end; a timer runs once per expiry, at its time, and timeouts with the same delay
in order but for neighbours; a bound
object is freed once, on the right side, and its count is that of those who hold it; a stale
index never becomes valid; a module has the exports of its last evaluation, and an edit of its
file is evaluated in the end.

## The modules

| module | models |
|---|---|
| `DoubleBuffered` | the data structure: `Buffers` with `front`, `back` and which of them is filled; `Add`, `Swap`, `ClearHanded`; `Unread`, what a reader that is in the middle of a batch has still to come |
| `Channel` | abstract: a FIFO queue that may be closed and then drops what is left |
| `Inbox` | one worker's inbox between posting threads, the loop of `_run` and the interrupt; implements `Channel` |
| `Worker` | the threads of JSWorker: `_run` as a program counter per worker, `WorkerImpl::finish` as a program counter per killer (owner and main), registry, replies, owner's life, `Worker::finish`; contains `DoubleBuffered` and, per worker, implements `Channel` |
| `ShadowRealm` | realms on one stack of entries: framed and unframed, deferral, update by the owner, shutdown |
| `DueTimers` | abstract: timers become ready when due and run once |
| `TimerWheel` | the hierarchical wheel; implements `DueTimers` |
| `ObjectBinding` | Godot objects between threads and environments: counts, entries, handles, bindings, async calls, collection in two passes, disposal, transfers |
| `OrderedMap` | abstract: values in an order, each known by a handle of its own |
| `Slots` | the data structure of `SArray`: slots with links, revisions, the list of free ones |
| `SlotArray` | `SArray` with its handles and with destructors that use it; implements `OrderedMap` |
| `ModuleCache` | modules of an environment: `require` in cycles, reload and scans, imports that a loader answers |
| `MCInbox`, `MCWorker`, `MCShadowRealm`, `MCTimerWheel`, `MCObjectBinding`, `MCSlotArray`, `MCModuleCache` | values of constants for TLC |
| `DoubleBufferedProofs`, `InboxProofs`, `WorkerProofs`, `ShadowRealmProofs`, `ObjectBindingProofs`, `TimerWheelProofs`, `SlotArrayProofs`, `ModuleCacheProofs` | lemmas, theorems, proofs |

An operator whose comment begins with "Mutant" is not part of any behaviour: it is the form
an action would have with one plausible mistake in the code, kept to see that the property it
is paired with notices it.

### Inbox

`AddMessage` is `on_receive` after its check of the flag, `SwapInbox` to `LeaveLoop` are
`_dispatch_inbox` and the loop around it. The check and the add are two steps (`PassCheck`,
`AddMessage`), since `finish()` may set the flag between them. `HandedIsSpent` is what
makes `clear()` outside the lock right: the vector that a swap hands to the writers is empty.

### Worker

A step is what happens between two points where another thread can make a difference:

- `_run`: test of the flag, assignment of `env_`, `init`, load, `_on_ready`, the loop (swap, one
  step per message, clear, update), `_shutdown_environment`, `env_.reset()`, the end of the
  scope that holds the last share;
- `WorkerImpl::finish`: test of the flag, setting it, read of `env_`, taking a share of it,
  `TerminateExecution`. Test and set are two steps (`CheckFlag`, `SetFlag`), so two killers may pass
  together: `terminate` holds `lock_` and `Worker::finish` does not. The copy of a `shared_ptr` that
  another thread resets is a data race; reading the pointer and raising the count are two steps
  (`ReadEnv`, `GrabEnv`). If the second finds an environment that is destructed, nothing is known
  of what comes next: the killer ends in `fault`, the model takes no further step of that thread, and a
  `lock_` that it holds stays held. The safety properties hold of every behaviour up to there and of the
  other threads after it; the liveness properties except it (`Faulted`);
- the owner: `BeginPost` and `OnReceive` are apart because the message is serialised between;
  `terminate` and the finalizer hold `lock_` through `finish`;
- the main thread: `Worker::finish` picks the first worker, signals without the lock, joins, and
  removes it.

`Nested` says whether the owner is the main environment (then owner and main are one thread)
or a worker itself. A nested owner is represented by its thread's part as an owner: its own
loop and its own join are taken to end, `PickNone` waits for its disposal. `Sticky` is the
difference between QuickJS, whose interrupt stays set, and V8, whose termination is
used up when the script has unwound; QuickJS does not look at it during `init`. `Runaway` is
the set of workers with a script that does not end by itself. JavaScript decides nothing else:
every message may return or throw, every load may fail.

### ShadowRealm

`stack` holds the entries that are on the C++ stack: `load` (startup script), `evaluate` (for
`importValue` and `importValueSync` too), `message`, `update`, `cross` (a guest function called
through `FunctionCrossWrapper`), and `host` for host code that a guest called. `FrameActive` is
`frame_depth_ > 0`: only `evaluate`, `message` and `update` construct a `FrameScope`. Frames are
computed from the stack, not counted apart from it. `Request` is `_terminate`, which defers
below a frame; `GuestReturn` is `~FrameScope` with `drain_deferred`.

Nothing is assumed of scripts or of the collector. `terminate` and `close` may be called anywhere, also
below entries without a frame, and `Collect`, the finalizer, runs in any host code, also while an entry of
the realm is on the stack (but not below `evaluate` and `postMessage`, whose receiver is the object).
So an environment may be disposed below an entry of its own. What the C++ code that is returned to finds
depends on who holds a share of the environment. `Environment::update` of the owner does, so
the entry `update` unwinds (`GuestUnwinds`). Nobody holds one for the other entries: the realm is `Lost`,
and the model takes no step from such an entry, since V8 aborts when the isolate that is entered is
disposed. A finalizer leaves the pointer of the realm that it deletes in the list; `finish_all` and a request
that was put off read it (`FinishFreed`, `GuestUnwinds`): either the memory is as it was and the entry
goes, or the process crashes (`ReadFreed`).

`FramesHold` says what frames are for: `terminate` and `close` dispose of no realm below one of its frames. The
finalizer is excepted, because the code does not ask there; the run `realm_frames` shows what follows. Of
entries without a frame nothing is promised.

### TimerWheel

`Jiffy` is one turn of the `while` loop of `tick()`, the whole cascade over the wheels
included: `RollAll` goes over the wheels, and `PlaceAll` over the timers of the slot that was taken. `Place` decides between another wheel and the activated timers. Callbacks
run between `CallAction` and `ActionDone`, and `SetTimer` and `ClearTimer` are possible there. A
handle is used once: the wrap of revisions is a matter of `SlotArray`. The refinement
of `DueTimers` maps `due` to `expires`, and `ready` to the timers activated, not cleared and not yet
run. The promise has the precision of the code: a timer runs in the first jiffy not before
its due time, or less than a jiffy early, because elapsed time and delays are not multiples of a jiffy.

Timeouts with the same delay do not always run in the order in which they were set, as scripts may expect of
`setTimeout`. `tick()` may put a timer of a higher wheel into the next slot of the same wheel; if a timer that
was set one jiffy later is there already, the earlier one now stands behind it, and when that slot is taken both may
go on into one slot of the first wheel in this order. With the sizes of the code (a jiffy of 10 ms, 6 slots):
of two timeouts of 135 ms, set when 50 and 60 ms have elapsed, the second runs first, both in the jiffy of 190 ms.
`OnlyNeighboursSwap` says that this is all that can happen. Nothing in the repository promises more, so it is not
listed as a finding.

### ObjectBinding

The actors are the thread of each environment and other threads of the engine. An object is an
address: `life` goes from `none` to `alive`, `dying` and back to `none`, and another object may be
allocated there. What `bridge/jsb_environment.cpp` does in one go on the thread of the environment
is one step; a change of a count and the callback that the engine makes after it are two, and so
are the two passes of the collector, the asking for a binding and its creation, the entering and the
leaving of `free_callback`, and each call of the queue.

| in the model | in the code |
|---|---|
| `refs`, `owns`, `life` | `RefCounted`, `Ref`, `memdelete` of the engine (external) |
| `ref` | `ObjectHandle::ref_`: no entry, reset, weak, strong |
| `bound` | the instance bindings of the engine, with the token of the environment |
| `calls` | `async_calls_` |
| `pending` | first passes of the collector whose second pass or `TYPE_GC_FREE` is to come |
| `inside` | `in_engine_binding_callback_`, one flag that several threads set |
| `state` | alive, disposing, its cleanup, out of the `EnvironmentStore` |
| `mail` | objects in messages, from `prepare_transfer_out` to `transfer_in_bind` |
| `lost` | (history) references that nobody gives back any more |
| `skipped` | (history) bindings that `free_object` left, because the flag said that a callback was under way |

Three things that the code does not prevent are in the model, each with a history variable or a position
of its own:

- `Bind` may meet an entry that the collector has reset, since `gd_obj_to_js` asks for a handle, and
  `Crossbind` an entry with a handle. `add_object` replaces the entry, and the reference that it had is `lost`. The
  `GC_FREE` that is still to come then frees the new entry.
- A message may be dropped (`DropMessage`, `bridge/jsb_worker.cpp:522`); the reference of its sender is `lost`.
- `inside` is a plain flag. Who frees an object while a callback for another one is under way leaves the binding
  to the engine (`skipped`). Who leaves a callback clears the flag for everybody: a `free_callback` or a transfer
  that finds it cleared frees the binding from within its own callback. The comment at
  `bridge/jsb_environment.cpp:1034` says that this deadlocks; the actor stays `stuck` or `blocked` for good.

One rule of the engine is assumed (`Unused`): an object that is not counted is freed by one thread, while nobody
binds it or gives it away. No environment is created at the address of an old one: `TokensEnd` says which
tokens are left that could name it.

### SlotArray

`Slots` is the data structure, one operator per operation, with the arithmetic of the links as
in `runtime/internal/jsb_sarray.h`. `SlotArray` adds who holds which handle, and cuts `remove_at` where
the destructor of the value runs: the revision is invalid, the slot is linked still, and anything
may happen to the array but that it grows. `remove_at` keeps a `Slot&` over the destructor
(`jsb_sarray.h:650`), so growth there would leave it dangling. Nor does a destructor call `pop`,
`remove_first` or `remove_last` (`jsb_sarray.h:530-554`) when they would hit a slot that is being removed: they
take the current revision of the slot, pass the check and destruct the value a second time. The code checks
neither, and `RemoveEnd` has the second as its guard.

A slot counts its revision up when it is taken and when it is given back, and skips 0. A
handle is therefore taken for valid again after `Mask` steps; `Careless = FALSE` says that no handle is
kept that long. The run `slots_wrap` shows what comes of it otherwise. Of the revisions
`1..Mask` there is an odd number, so after half as many uses the stale handle has the revision of the
slot while it is empty, and `is_valid_index` fails its own assertion.

### ModuleCache

Everything is on one thread, but evaluating a module runs its code, so `stack` holds the evaluations
that are under way, and between any two steps files may change. `Noticed` is
`mark_as_reloading`: time first, then hash. `Mark` is the reload of a script by the engine,
`Scan` and `ScanNext` are the two loops of `scan_external_changes`. `Require` is
`_load_module` after the cache missed; a hit changes nothing. `Resolve` is an answer for an import:
it evaluates a module even if the cache has it, and even if that module is being evaluated: nothing in
`_mark_as_handled` looks. `nested` remembers of a module that its last evaluation began that way.
`EvaluatedOnce` says that nothing else evaluates a module within its own evaluation, and
`ExportsAreComplete` excepts the modules that are `nested`: the older evaluation ends last and puts its
exports over those of the younger.

Assumptions: a file is opened, timed, hashed and read in one step; a loader answers once; with
`EmptiesMarked = FALSE` no file is emptied between the moment a change of it is noticed and the reload; and a
file that is marked is not missing.

## What is checked

| run | shows | states |
|---|---|---|
| `inbox` | `InboxTypeOK`, `HandedIsSpent`, `ImplementsChannel` | 10 thousand |
| `worker_pair` | `RunningIsRegistered`, `FinishJoinsAll`, `RepliesComplete`; two workers of the main environment | 406 thousand |
| `worker_nested` | `WorkerTypeOK`, `NoOrphans`, `RepliesComplete`, `PostsAreChannels`; one worker of a nested owner, two posts, scripts reply until two were sent | 2.4 million |
| `worker_live` | `FinishReturns`, `PostsAreHandled` | 85 thousand |
| `realm` | `RealmTypeOK`, `FramesHold`, `TerminateTakesEffect`, `ShadowListIsLive`, `TerminationHappens`; three realms | 124 thousand |
| `timers` | `WheelTypeOK`, `EachOnce`, `OnlyNeighboursSwap`, `ImplementsDueTimers`; two timers | 676 thousand |
| `objects` | `ObjectTypeOK`, `CountsAgree`, `EntriesAlive`, `DeletedOnce`, `HandleFollowsCount`, `TokensEnd`; a counted and a plain object, two environments | 2.0 million |
| `slots` | `SlotArrayTypeOK`, `ListsConsistent`, `HandlesFindTheirs`, `ImplementsOrderedMap`; three values | 162 thousand |
| `modules` | `ModuleTypeOK`, `CurrentUnlessMarked`, `ExportsAreComplete`, `EvaluatedOnce`, `EditsArrive`; two files, a library, an id, an import | 550 thousand |
| `realm_cursor`, `realm_frames`, `slots_wrap` | a violation each, see below | |

Deadlock is not checked where the system may stop for good: all threads have ended, the process
has finished, all environments are disposed, the bound of time or of edits is reached.

### Bounds

- `inbox`: two producers suffice for the order between producers, four messages for a second
  batch that is filled while the first is cleared, and a third swap.
- Workers: two are enough for what the registry and the join can confuse; everything else
  is about one worker, its owner and the main thread. Two posts give a batch that the interrupt cuts in
  its middle. `SYMMETRY` only where no liveness is checked.
- Realms: three realms, five entries deep: host, guest, host, another guest and a host again, with a
  third realm that the update goes to next.
- Timers: a jiffy of 2 ms, three slots, three wheels: wheels span 6, 18 and 54 ms. Delays 0, 6, 15
  and 55 are at the edge of a wheel, in its middle, and past the last; 58 ms of time make the
  last wheel go round. Updates of 3 ms leave a remainder of a jiffy, one of 28 ms runs many jiffies at once. With two
  slots no timer stands behind a later one with the same delay, so there are three. The code has 10 ms, 6 slots and 12
  wheels; the arithmetic is the same. `Width` stands for 2^64, with any number larger than what fits into the wheels.
- Objects: two environments, each the other thread to the other, so `Threads` is empty; one object of
  each kind. `MaxRefs = 3` has the crossing of one from both sides and a count that no callback sees;
  `MaxCalls = 1` blocks who would queue a second call until the first was executed; with `MaxMail = 1` one
  message is on its way at a time, of either object and in either direction. `MaxEnds = 1`: either environment may
  be disposed, and the other one lives on. The theorems have no bound on environments, threads and objects.
- Slots: a capacity of two that grows to four, three values, so a slot is free while two removals run
  inside each other; revisions of two bits wrap after two uses.
- Modules: two files can require each other and themselves; one of them holds a script, which scans
  pass over; two texts and the empty one; two edits, so one falls before and one after a scan has
  looked.

### Fairness

`Worker!Fairness`: threads are scheduled (the operating system), C++ code goes on, and `lock_` is
granted to who keeps asking, hence strong fairness of what needs it. A script ends unless it
is in `Runaway` and nobody terminated it. Nothing is assumed of what the owner's scripts ask
for: creating, posting and terminating have no fairness. `ShadowRealm!FairSpec`: every call ends,
stated per depth of the stack, since a script that does not end hangs the thread it shares with its
host; nothing is assumed of host or guest otherwise. `ModuleCache!Fairness`: an evaluation ends, the
loop of a scan goes on, and scans come again, because the editor scans whenever its window gets the
focus. Nothing makes a script load, import or answer.

### Where the code and its word differ

Three runs expect a violation. Each is one behaviour, and `PROJECT.json` quotes the line it contradicts.

- `realm_cursor`: `Environment::update` keeps the index of the next realm over a call into scripts.
- `realm_frames`: the finalizer of a realm disposes of its environment without asking for its frames
  (`bridge/jsb_shadow_realm.cpp:1277`), so a realm that is collected while its `update` is on the stack is disposed
  within a frame, which `Environment::dispose` asserts never to happen (`bridge/jsb_environment.cpp:473`).
- `slots_wrap`: a handle that is 2^(n-1) uses of its slot old, 32 for an index of 32 bits, passes for
  valid while the slot is empty (`runtime/internal/jsb_sindex.h:86`).

Met while modelling, without a run of their own:

- A terminate in the window between the test of the flag and the assignment of `env_`
  (`bridge/jsb_worker.cpp:369-379`) reaches no isolate. With a script that loops for ever,
  `Worker::finish` waits for ever; `worker_live` has no such script (`Runaway = {}`), and with one TLC finds
  `FinishReturns` violated. What `worker_live` shows does not extend to that window.
- `WorkerImpl::finish` copies `env_` (`bridge/jsb_worker.cpp:496`) while the worker's thread may
  reset it, and can take a share of an environment that is destructed (`GrabEnv`).
- The startup script (`bridge/jsb_shadow_realm.cpp:1113`) and cross-environment calls (`:643`) have no
  `FrameScope`, so a realm can be disposed while it is entered through them, also when an outer frame
  of it ends or its owner's object is collected.
- The finalizer of a realm deletes it and leaves its pointer in the list (`:1277`), which `finish_all` and a
  request that was put off dereference (`:1562`).
- A reload does not call `on_load`, the only place where a module drops its cached source map
  (`bridge/jsb_module.cpp:38`), so traces of the reloaded text are mapped with the map of the old one.
- The answer of an import evaluates a module that is being evaluated a second time
  (`bridge/jsb_async_module_manager.cpp:118-160`); the exports of the first evaluation then replace the newer ones.
- An object that is bound over an entry, by `crossbind` or after a first pass of the collector, leaks the reference
  of that entry (`bridge/jsb_environment.cpp:976`, `bridge/jsb_object_db.h:236`).
- `in_engine_binding_callback_` (`bridge/jsb_environment.cpp:226`) is set and cleared by several threads: a binding
  may stay, or a thread block on the mutex of the bindings.
- A negative delay with extra arguments is not clamped (`bridge/jsb_essentials.cpp:172`).
- A file is changed, the change is noticed, and before the reload the file is emptied. The reload takes the
  mark away and fails before it records anything (`bridge/jsb_environment.cpp:1349`,
  `bridge/jsb_module_resolver.cpp:514`). When the file gets the text back that was noticed, its hash is
  the recorded one, and the module keeps the old text for ever. The run `modules` excludes this with
  `EmptiesMarked = FALSE`; with `TRUE` and `MaxEdits = 3` TLC finds `CurrentUnlessMarked` violated.
- A module that is first loaded while its file is empty has no recorded time and is never reloadable;
  one that is marked while its file is gone, and whose file comes back as it was, is passed over
  by every later scan. A reload sets neither `loaded` nor calls `on_load`.
- An import and a `require` of the same file under different ids give two modules.
- The search of a module for Node calls `load` on a resolver that was not found
  (`bridge/jsb_environment.cpp:1441`).
- `SArray::reverse()` on an even number of elements swaps every pair twice
  (`runtime/internal/jsb_sarray.h:309`). Nothing calls it.

## What is proved

For every value of the constants that satisfies the named assumptions of the modules, hence for any
number of workers, messages, environments, threads, objects, realms, slots and files and any bound.
Some theorems assume in their statement what the models assume of scripts and files (`Careless`
of `SlotArray`, `EmptiesMarked`; see the modules above). They are the assumptions of the runs.

| theorem | property | assumes |
|---|---|---|
| `InboxTypeCorrect` | `InboxTypeOK` |  |
| `HandedAlwaysSpent` | `HandedIsSpent` |  |
| `InboxImplementsChannel` | `ImplementsChannel`: the inbox implements the channel |  |
| `WorkerTypeCorrect` | `WorkerTypeOK` |  |
| `RunningAlwaysRegistered` | `RunningIsRegistered` |  |
| `FinishAlwaysJoinsAll` | `FinishJoinsAll` |  |
| `NeverOrphans` | `NoOrphans` |  |
| `RepliesAlwaysComplete` | `RepliesComplete` |  |
| `PostsImplementChannels` | `PostsAreChannels`: the inbox of each worker implements a channel |  |
| `RealmTypeCorrect` | `RealmTypeOK` |  |
| `FramesAlwaysHold` | `FramesHold` |  |
| `TerminateAlwaysTakesEffect` | `TerminateTakesEffect` |  |
| `ShadowListAlwaysLive` | `ShadowListIsLive` |  |
| `ObjectTypeCorrect` | `ObjectTypeOK` |  |
| `CountsAlwaysAgree` | `CountsAgree` |  |
| `EntriesAlwaysAlive` | `EntriesAlive` |  |
| `AlwaysDeletedOnce` | `DeletedOnce` |  |
| `TokensAlwaysEnd` | `TokensEnd` |  |
| `HandleAlwaysFollowsCount` | `HandleFollowsCount` |  |
| `WheelTypes` | `WheelTypeOK` |  |
| `EachTimerOnce` | `EachOnce` |  |
| `WheelsImplementTimers` | `ImplementsDueTimers`: the wheels implement the abstract timers | `InRange` |
| `OnlyNeighbours` | `OnlyNeighboursSwap` | `InRange` |
| `SlotTypes` | `SlotArrayTypeOK` | `~Careless` |
| `ListsAlwaysConsistent` | `ListsConsistent` | `~Careless` |
| `HandlesAlwaysFindTheirs` | `HandlesFindTheirs` | `~Careless` |
| `ValidAlwaysHasValue` | `ValidHasValue`, which `slots_wrap` shows to fail without the assumption | `~Careless` |
| `SlotsImplementMap` | `ImplementsOrderedMap`: the array implements the ordered map | `~Careless` |
| `ModuleTypes` | `ModuleTypeOK` |  |
| `ChangesNoticed` | `CurrentUnlessMarked` | `~EmptiesMarked` |
| `EvaluatesOnce` | `EvaluatedOnce` |  |
| `ExportsComplete` | `ExportsAreComplete` |  |

`DoubleBufferedProofs` says what `Add`, `Swap` and `ClearHanded` do to the two roles, filling and handed,
so that no proof above it looks at `use_front_`. In `InboxProofs` the refinement needs
`HandedIsSpent`: only with it is the queue of the channel (the rest of the batch, then the vector
that is being filled) untouched by a swap. The drop of what is left when the loop ends corresponds to
the channel being closed.

None of the worker properties is inductive. The first three follow from

    WorkerInv == WorkerTypeOK /\ Control /\ EnvFollowsThread /\ StopRequested

`Control` ties the positions of the main thread and of the killers to their targets and to the
registry: a thread that runs is registered, a worker that is being removed has exited, a killer
that is not idle has a target, and an owner that is the main thread kills nobody while it shuts
down. `EnvFollowsThread` gives the state of the environment and of `envRef` for every position of
`_run`, and says that an environment of which a killer has a share is not destructed (`HeldExists`): a
thread that exits destructs it only when no killer holds one, and the last killer does it then. That is why
no environment is left when `Worker::finish` is done. `StopRequested`
says that a thread that is past its loop has its flag set, and that a collected JSWorker has it
set or a killer that is about to set it. Each part has a lemma (`ControlStep`, `EnvStep`,
`StopStep`) with one case per action.

`RepliesComplete` says of a worker that its replies received are 1, 2, ... and that those in
flight, in the order of the owner's inbox, are the ones after them up to the last one sent:
`FromWorker` are their positions, so that nothing has to be selected from a sequence. Its invariant
`Replies` adds that outside of a batch the handed vector is spent (else a swap would bring old
replies again), that the property holds of a worker whose JSWorker is not made yet, and that such a
worker sent nothing. `PostsAreChannels` needs `Posts`, the same fact about the handed vector of each worker's
inbox, and that a message about to be posted is within the bound. `DoubleBufferedProofs` has what every
operation does to `Unread`, and both proofs as well as that of `Inbox` rest on these lemmas.

For the realms the invariant is

    RealmInv == RealmTypeOK /\ ShadowListIsLive /\ FramesHold
             /\ Lifetimes /\ StackIsKnown /\ LoadsAlone /\ Requests /\ EndIsQuiet

`FramesHold` is kept by `terminate` and `close` because they look for a frame first. The end of a frame disposes of
what was deferred there, and looks too: no other frame of that realm is below. `Requests` says that a
request that waits has a frame to wait for, and that one which does not wait is done; an entry only adds
frames, and the return from the last one does what was deferred. It holds whatever the finalizer does, since a realm that
it disposed of is not in the list once its request was carried out. `LoadsAlone` says that a realm whose startup
script runs is on the stack with that entry only, which is why a startup script that fails may end its
realm without looking for frames. `Lifetimes` ties object, environment and registry together: an environment that
lives is registered and has an object that is not deleted, and only a realm whose object is bound is in the
owner's list, from which `ShadowListIsLive` follows. `EndIsQuiet` says that nothing is on the stack once the
owner is being disposed, so `finish_all` breaks no frame.

For the objects the invariant is

    ObjectInv == ObjectTypeOK /\ IsFiniteSet(mail) /\ CountsAgree /\ Shape

`CountsAgree` carries the argument: an owner, an entry or a message makes the count positive
(`OwnerHolds`, `EntryHolds`, `LetterHolds`), so an object that somebody refers to is alive and nobody
is about to delete it. It needs the sets that it counts to be finite, and changes by one with
the count in every step, by the facts of `FiniteSetTheorems`. `Shape` has the rest: where an
actor stands (`Positions`: who deletes has found the count zero), that one actor at most is on its
way to delete an object (`OneEnds`), that entry and binding go together but for the moment of binding
and the bindings that are `skipped` (`EntryIsBound`), so that when the last binding is dropped no entry is
left. `TokensEnd` follows from it. Every action has a lemma.

`HandleFollowsCount` speaks of a moment at which nothing is on its way, and almost no step leads from
such a moment to another. What is inductive is

    HandleInv == ObjectInv /\ HandlesDue /\ BindingIsStrong

`HandlesDue`: a weak handle of an object with more than one reference has an upward call to come, in
the queue of its environment or in a thread that is about to call; a strong one of an object with one
reference has a downward call. A step that crosses one leaves such a call. Executing a call
mends the handle by the count at that time, not by the direction of the call: a later call of the
other direction may find nothing to do, and the handle is right nevertheless. The environment that
is binding is not called; it has a strong handle because its thread owns a reference besides the
entry (`BindingIsStrong`), and that two who hold an object make a count of two is lemma `Shared`.

For the timers, every place where one may wait is a bin (`Bins`: the slots, the timers activated and not
looked at, and those that `tick()` has taken from a slot), and `Layout` says what the variables, or
a state within `tick()`, have in each bin. `Once` is that no timer is twice in the bins. All the
wheel does is to append a timer that is in no bin (`AppendOnce`), to take the first of a bin (`PopOnce`)
or to move a whole bin (`MoveOnce`). `PlaceAllSound` and `RollAllSound` carry this through the loops of
`tick()`: `PlaceAll` and `RollAll` are recursive functions, and what holds after their last turn is again an
argument about the first turn that fails (`StaysIn`). `Turned` is the invariant of the loop over the
wheels: after wheel k only the next one may have gone round, and only if it was just taken from. For this no
arithmetic of delays is needed: wherever `Rearrange` puts a timer, it is one slot of one wheel. The invariant is

    WheelInv == WheelTypeOK /\ EachOnce /\ Known /\ Invoking

`Known` says that only timers that were set wait or are used, so that a new handle is in no bin; `Invoking` where the
walk of `invoke_timers` stands between updates.

`WheelsImplementTimers` is about time. An index says only how far a wheel has turned; when a slot is taken
follows from one number for each wheel that the code does not keep, the time `f[w]` at which
the wheel takes its current slot (`Clock`). The first wheel does so in the next jiffy, and the next wheel when
this one has gone round (`Linked`), so slot s is taken `Ahead(s, index)` intervals after `f[w]` (`TakenAt`).
`OffsetTime` compares that with the delay: `rearrange_timer` never chooses a slot that is taken after the timer is
due, unless it is taken in the next jiffy, and in the first wheel none that is taken a jiffy early or more. That is `Waits`,
the invariant between two jiffies; within one (`Ticks`) the slots that are being taken are at the current time. Every
step of `tick()` has a lemma about both: a slot is taken (`TakeTimes`), a wheel starts over (`RoundTimes`,
`ClockRolls`), the timers taken go to other slots or are activated (`PlaceTimes`, `PlaceAllTimes`), then the loop
(`RollTimes`, `RollAllTimes`). The invariant is

    DueInv == BinInv /\ NoWrap /\ OnClock

where `OnClock` says that there is such an `f`, `BinInv` that every timer set is in exactly one bin, and `NoWrap` that
no due time wraps. Then each action is a step of `DueTimers` or changes nothing it shows (`DueAdvance` for a
jiffy, and `DueSet`, `DueCancel`, `DueRun`, `DueDone`, `DueSkip`, `DueEndInvoke`, `DueTick`). The assumption `InRange` has two
parts. There is more than one wheel: a timer past the range of the last wheel is put into it
modulo its slots, and the first wheel activates what it has without a look at the due time, so a single
wheel would run such timers too early. And no delay plus the bound on time reaches `Width`: beyond
that `expires` wraps and the timer runs at once. In the program that is the negative delay with extra arguments
of the hazards (`bridge/jsb_essentials.cpp:172`), and nothing else. Delays past the range of the last wheel are
included.

`OnlyNeighbours` needs both, the order in the bins and the time. Timeouts are set at a multiple of a jiffy
(`Beats`), so two with the same delay are due at the same time, one jiffy apart, or at least two. If they are due at
the same time they were set in the same jiffy and stand in one bin one behind the other (`Sequential`). Appending to a bin,
moving a bin and taking its first timer keep that, but not each step of `PlaceAll`: when the
first of them has been placed and the second not, they are apart. `Ordered` says where the first is then:
in the bin in which the second is going to be put, because that depends on nothing but the due time and the
indices (`Goal`), and neither changes while one slot is emptied. If they are due at different times, the earlier
one is activated no later (`InTurn`): a jiffy activates what is due less than one jiffy after it, and leaves nothing in
a slot that is due by then. Had it been activated in the same jiffy as one that is due two jiffies later, it
would have been due before the jiffy began, and would not be in a slot any more (`Pending`). This leaves those one jiffy apart, and
among them, if the delay is a multiple of a jiffy, so is the due time, and the same
argument applies. The invariant is `DueInv` with

    OrderInv == elapsed \in Beats
             /\ Born, Recent and Pending of every timeout /\ Lined of any two that Follow

`Recent` says where a timeout is in the jiffy in which it was set: in the slot into which another one with the same delay
is put. `SetOrder` uses it when the second of two twins is set, and after a jiffy it says nothing.

For the slots, what `is_consistent()` finds by walking is stated with two sequences as witnesses: `Rows(b, u, f)`
says that `u` and `f` have no slot twice, have all slots between them, that `next` links each of `u` and of `f` to
its successor, `prev` each of `u` to its predecessor, and that the free slots are those without a value. `Sound(b)`
is that there are such sequences. Every operation of `Slots` has a lemma that gives them for the new array: a
slot is cut out of a sequence (`CutLinked`) or put in at a position (`PutLinked`), clearing puts the used
ones reversed before the free ones, and growing makes a new free list. `ChainIsPath` shows that
`UsedChain` and `FreeChain` walk exactly these sequences. It is an induction; since the library's induction
theorems cannot be used, it takes the least index at which the walk and the sequence differ (`LeastOf`, from
the fact that `<` is well-founded). The invariant is

    SlotInv == Sound(a) /\ handles \in SUBSET Handle /\ RemovedAreUsed /\ HandlesKnown

`HandlesFindTheirs` says nothing of a handle whose value is gone; `HandlesKnown` does: the slot of any handle
has another revision, or the handle's value, which nobody is destructing, and no other slot has that value.
`RemovedAreUsed` says that the removals under way are of different slots, all of them still used: so
the second half of `remove_at` finds its slot linked, whatever the destructor did meanwhile.

`SlotsImplementMap` is about the order. `Present`, what the array shows, is the chain of used slots without those
being removed, as values. It is a recursive function, so what it computes is not looked at position by position:
`PresentSound` shows once, by an induction over the chain, that it has the values of the slots that are
kept, no value twice, and ranks them as the chain ranks their slots (`Picks`). A sequence without
repetitions is determined by its elements and their ranks (`SameSequence`), so two arrays show the same if the
same slots are kept in the same order with the same values (`SamePicks`). The lemmas about the operations of
`Slots` say what becomes of the chain: it loses a slot (`CutFrom`), gains one (`Gains`) or has one somewhere else
(`Reput`). From this each action gets its step of the map: `PutMaps`, `RemoveMaps`, `FrontMaps`, `BackMaps`,
`ClearMaps`, `DropMaps`; `EndMaps` says that unlinking a slot whose value is already out changes nothing that is
shown. `MapInv` adds to `SlotInv` that no value is in two slots (`ValuesApart`).

For the modules, `CurrentUnlessMarked` is the consequence of `FilesTracked`: what a module recorded of
its file is never younger than the file, the recorded hash is that of the text it ran unless a reload is due,
and a reload that is due for an empty file was noticed when the file was empty already. The last part is
what fails without `~EmptiesMarked`: it was found when the proof of the step did not go through, and TLC then
made a trace of it (see above). `EvaluatedOnce` and `ExportsAreComplete` need each other and `FramesRun`: of a
module that is being evaluated no reload is due, so that only an answer can evaluate it again, and unless one
did, what is evaluated is what the module ran last.

Only checked by TLC: all liveness. Liveness under fairness and `ENABLED` are out of the prover's reach.

## What is not modelled

- **About half of the lines under `src/` are third-party code**: `third/` holds QuickJS, doctest and other
  libraries. They are not this system's logic. Of the rest much is generated or converts between
  two representations without a state of its own: bindings, type conversions, the four engine back
  ends, code generation for the editor.
- `Worker`: what a thread does after it used a destructed environment, the web build, a chain of nested owners, transfers (their objects are in `ObjectBinding`).
- `ShadowRealm`: what code does that returns to an environment nobody has a share of, the destruction of an `Environment` as an event apart from its disposal, caches of
  wrappers, transfers, a realm and a worker on one thread, `finish()` that returns early because the
  isolate is being terminated (`bridge/jsb_shadow_realm.cpp:1158`).
- `TimerWheel`: the memory of the array of timers and of `JavaScriptTimerAction`
  (`bridge/jsb_timer_action.cpp:55`), `clear_all`, the width of the millisecond counter.
- `ObjectBinding`: environments at the address of old ones, persistent objects and their count, values that are no objects (`bind_valuetype` and
  their collection), `dispose_binding_object`, rebinding, script instances, the read lock that
  `prepare_transfer_out` holds, the fallback of Node.
- `SlotArray`: copies and moves of a whole array, locked pointers, the versions of iterators,
  `clear()` with destructors that use the array, destructors that make the array grow or that call `pop`,
  `remove_first` or `remove_last` on a slot that is being removed.
- `ModuleCache`: cached source maps, `children` and `parent`, JSON modules, native loaders, the fallback to Node, replacing
  the async loader; files that change while they are read.
- The string name cache, the variant allocator and the stash of uncaught exceptions: small containers
  with one writer or one lock, without an interaction that the above depends on.
- Scripts and script instances, resources, debugger, editor: tables, input and output.
