----------------------------- MODULE TimerWheel -----------------------------
(***************************************************************************)
(* The timers of one environment: TTimerManager                            *)
(* (src/src/runtime/internal/jsb_timer_manager.h), a hierarchical timing   *)
(* wheel, as setTimeout and setInterval use it (jsb_essentials.cpp) and as *)
(* Environment::update drives it.  Everything happens on one thread, but a *)
(* callback may set and clear timers, its own included, while the list of  *)
(* activated timers is being walked.                                       *)
(*                                                                         *)
(* A handle is an index with a revision and is never valid again once its  *)
(* timer was cleared, so a member of Timers is set at most once.  What a   *)
(* cleared timer leaves in the wheels stays there until its slot is taken. *)
(***************************************************************************)
EXTENDS Integers, SequencesExt

CONSTANTS
  Timers,     \* handles
  NoTimer,    \* no timer
  Jiffies,    \* kJiffies, the resolution in milliseconds
  SlotNum,    \* kWheelSlotNum
  WheelNum,   \* kWheelNum
  Width,      \* 2^64, or any number larger than what fits into the wheels
  Delays,     \* the delays scripts ask for (an int32)
  Elapses,    \* the milliseconds between two updates
  MaxElapsed  \* bound: how long time goes on

ASSUME WheelAssumption ==
  /\ NoTimer \notin Timers
  /\ Jiffies \in Nat \ {0} /\ SlotNum \in Nat \ {0} /\ WheelNum \in Nat \ {0}
  /\ Width \in Nat \ {0} /\ MaxElapsed \in Nat
  /\ Delays \subseteq Int /\ Elapses \subseteq Nat

Wheels == 1..WheelNum
Slots == 0..SlotNum - 1

(* The milliseconds of one slot: WheelState::interval. *)
Interval[w \in Wheels] == IF w = 1 THEN Jiffies ELSE Interval[w - 1] * SlotNum

ASSUME WidthAssumption == Width > MaxElapsed + Interval[WheelNum] * SlotNum

VARIABLES
  elapsed,    \* _elapsed
  slice,      \* _time_slice
  timers,     \* _used_timers
  order,      \* history: every timer that was set, in order
  wheels,     \* _wheels
  activated,  \* _activated_timers
  at,         \* how many of them invoke_timers is done with
  phase       \* where update() is

vars == <<elapsed, slice, timers, order, wheels, activated, at, phase>>

TimerData == [loop : BOOLEAN, rate : Nat, expires : Nat]
Wheel == [index : Slots, slots : [Slots -> Seq(Timers)]]

WheelTypeOK ==
  /\ elapsed \in Nat /\ slice \in Nat
  /\ DOMAIN timers \subseteq Timers
  /\ \A t \in DOMAIN timers : timers[t] \in TimerData
  /\ order \in Seq(Timers)
  /\ wheels \in [Wheels -> Wheel]
  /\ activated \in Seq(Timers)
  /\ at \in 0..Len(activated)
  /\ phase \in {"idle", "tick", "invoke", "callback"}

Init ==
  /\ elapsed = 0
  /\ slice = 0
  /\ timers = [t \in {} |-> 0]
  /\ order = <<>>
  /\ wheels = [w \in Wheels |-> [index |-> 0, slots |-> [s \in Slots |-> <<>>]]]
  /\ activated = <<>>
  /\ at = 0
  /\ phase = "idle"

Used(t) == t \in DOMAIN timers
Cleared(t) == [u \in DOMAIN timers \ {t} |-> timers[u]]

(* The timer whose callback is running. *)
Running == IF phase = "callback" THEN activated[at + 1] ELSE NoTimer

----------------------------------------------------------------------------
(* The wheels. *)

(* Mutant: a delay of n intervals goes n slots ahead. *)
OffsetPast(w, delay) == delay \div Interval[w]

(* How many slots ahead of the current one WheelState::add puts a timer. *)
Offset(w, delay) ==
  IF delay >= Interval[w] THEN delay \div Interval[w] - 1 ELSE 0

(* rearrange_timer: the first wheel with enough range, or the last one. *)
WheelFor(delay) ==
  IF \E w \in Wheels : delay < Interval[w] * SlotNum
    THEN CHOOSE w \in Wheels :
           /\ delay < Interval[w] * SlotNum
           /\ \A v \in 1..w - 1 : delay >= Interval[v] * SlotNum
    ELSE WheelNum

Rearrange(ws, t, delay) ==
  LET w == WheelFor(delay)
      s == (ws[w].index + Offset(w, delay)) % SlotNum
  IN  [ws EXCEPT ![w].slots[s] = Append(@, t)]

(* Mutants: move_to() leaves the slot as it is; it puts the timers first. *)
TakeKeeps(st, w) ==
  [st EXCEPT !.moving = st.wheels[w].slots[st.wheels[w].index],
             !.wheels[w] = [@ EXCEPT !.index = @ + 1]]

TakeFirst(st, w) ==
  [st EXCEPT !.moving = Reverse(st.wheels[w].slots[st.wheels[w].index]),
             !.wheels[w] = [@ EXCEPT !.slots[@.index] = <<>>, !.index = @ + 1]]

(* WheelState::next: empty the current slot into `moving` and go to the next. *)
Take(st, w) ==
  LET i == st.wheels[w].index
  IN  [st EXCEPT !.moving = st.wheels[w].slots[i],
                 !.wheels[w] = [index |-> i + 1,
                                slots |-> [@.slots EXCEPT ![i] = <<>>]]]

(* What tick() does with a timer it took from a wheel above the first one.  *)
Place(st, t) ==
  IF ~Used(t) THEN st
  ELSE IF timers[t].expires > st.elapsed
    THEN [st EXCEPT !.wheels = Rearrange(@, t, timers[t].expires - st.elapsed)]
    ELSE [st EXCEPT !.activated = Append(@, t)]

PlaceAll(st) ==
  LET after[k \in 0..Len(st.moving)] ==
        IF k = 0 THEN st ELSE Place(after[k - 1], st.moving[k])
  IN after[Len(st.moving)]

(* Mutant: the wheel above moves on, this one is not set to its beginning. *)
RollKeepsIndex(st, w) ==
  IF ~st.carry \/ st.wheels[w].index # SlotNum
    THEN [st EXCEPT !.carry = FALSE]
  ELSE IF w = WheelNum THEN st
  ELSE LET taken == Take(st, w + 1)
       IN  PlaceAll(taken)

(* One turn of the for loop of tick(): a wheel that went round makes the    *)
(* next one move on.                                                        *)
Roll(st, w) ==
  IF ~st.carry \/ st.wheels[w].index # SlotNum
    THEN [st EXCEPT !.carry = FALSE]
  ELSE LET round == [st EXCEPT !.wheels[w].index = 0]
           taken == Take(round, w + 1)
       IN  IF w = WheelNum THEN round ELSE PlaceAll(taken)

RollAll(st) ==
  LET after[w \in 0..WheelNum] == IF w = 0 THEN st ELSE Roll(after[w - 1], w)
  IN after[WheelNum]

----------------------------------------------------------------------------
(* Scripts set and clear timers, between two updates or in a callback. *)

ScriptsRun == phase \in {"idle", "callback"}

(* Without extra arguments a negative delay becomes 0, with extra arguments *)
(* the int32 is converted to the unsigned 64 bits of the manager.           *)
Span(delay, extra) == IF delay < 0 /\ ~extra THEN 0 ELSE delay % Width

(* setTimeout, setInterval: set_timer with an empty handle. *)
SetTimer(t, delay, extra, loop) ==
  LET rate == Span(delay, extra) IN
  /\ ScriptsRun
  /\ \A i \in 1..Len(order) : order[i] # t
  /\ order' = Append(order, t)
  /\ timers' = [u \in DOMAIN timers \cup {t} |->
                  IF u # t THEN timers[u]
                  ELSE [loop |-> loop, rate |-> rate,
                        expires |-> (rate + elapsed) % Width]]
  /\ wheels' = Rearrange(wheels, t, rate)
  /\ UNCHANGED <<elapsed, slice, activated, at, phase>>

(* clearTimeout, clearInterval: the wheels keep the index. *)
ClearTimer(t) ==
  /\ ScriptsRun
  /\ Used(t)
  /\ timers' = Cleared(t)
  /\ UNCHANGED <<elapsed, slice, order, wheels, activated, at, phase>>

----------------------------------------------------------------------------
(* Environment::update: tick(), then invoke_timers(). *)

StartTick(ms) ==
  /\ phase = "idle"
  /\ elapsed + slice + ms <= MaxElapsed
  /\ slice' = slice + ms
  /\ phase' = "tick"
  /\ UNCHANGED <<elapsed, timers, order, wheels, activated, at>>

(* One turn of the while loop of tick(). *)
Jiffy ==
  LET start == [elapsed |-> elapsed + Jiffies, wheels |-> wheels,
                activated |-> activated, moving |-> <<>>, carry |-> TRUE]
      first == Take(start, 1)
      end == RollAll([first EXCEPT !.activated = @ \o first.moving])
  IN
  /\ phase = "tick"
  /\ slice >= Jiffies
  /\ slice' = slice - Jiffies
  /\ elapsed' = end.elapsed
  /\ wheels' = end.wheels
  /\ activated' = end.activated
  /\ UNCHANGED <<timers, order, at, phase>>

EndTick ==
  /\ phase = "tick"
  /\ slice < Jiffies
  /\ phase' = IF activated = <<>> THEN "idle" ELSE "invoke"
  /\ UNCHANGED <<elapsed, slice, timers, order, wheels, activated, at>>

(* A timer that was cleared after it was activated. *)
Skip ==
  /\ phase = "invoke"
  /\ at < Len(activated) /\ ~Used(activated[at + 1])
  /\ at' = at + 1
  /\ UNCHANGED <<elapsed, slice, timers, order, wheels, activated, phase>>

(* timer->action(ctx) *)
CallAction ==
  /\ phase = "invoke"
  /\ at < Len(activated) /\ Used(activated[at + 1])
  /\ phase' = "callback"
  /\ UNCHANGED <<elapsed, slice, timers, order, wheels, activated, at>>

(* The callback returned or threw: an interval that was not cleared in it   *)
(* goes back into the wheels, anything else is cleared.                     *)
ActionDone ==
  LET t == activated[at + 1] IN
  /\ phase = "callback"
  /\ IF Used(t) /\ timers[t].loop
       THEN /\ timers' = [timers EXCEPT ![t].expires =
                                          (timers[t].rate + elapsed) % Width]
            /\ wheels' = Rearrange(wheels, t, timers[t].rate)
       ELSE /\ timers' = Cleared(t)
            /\ UNCHANGED wheels
  /\ at' = at + 1
  /\ phase' = "invoke"
  /\ UNCHANGED <<elapsed, slice, order, activated>>

EndInvoke ==
  /\ phase = "invoke"
  /\ at = Len(activated)
  /\ activated' = <<>>
  /\ at' = 0
  /\ phase' = "idle"
  /\ UNCHANGED <<elapsed, slice, timers, order, wheels>>

Next ==
  \/ \E t \in Timers : ClearTimer(t)
  \/ \E t \in Timers, d \in Delays, extra, loop \in BOOLEAN :
       SetTimer(t, d, extra, loop)
  \/ \E ms \in Elapses : StartTick(ms)
  \/ Jiffy \/ EndTick
  \/ Skip \/ CallAction \/ ActionDone \/ EndInvoke

Spec == Init /\ [][Next]_vars

----------------------------------------------------------------------------
(* The timers that were activated and not yet looked at. *)
Activated == {activated[i] : i \in at + 1..Len(activated)} \ {Running}

(* Where timers wait to be run: the slots of the wheels and what is left of *)
(* those that were activated.                                               *)
Now == <<0, 0>>
Places == Wheels \X Slots \cup {Now}
Waiting(p) ==
  IF p = Now THEN SubSeq(activated, at + 1, Len(activated))
  ELSE wheels[p[1]].slots[p[2]]

(***************************************************************************)
(* A timer that is set is in exactly one slot of one wheel or activated,   *)
(* and one that was cleared leaves at most one index behind: no timer is   *)
(* lost by cascading and none runs twice for one expiry.                   *)
(***************************************************************************)
EachOnce ==
  /\ \A p, q \in Places :
       \A i \in 1..Len(Waiting(p)), j \in 1..Len(Waiting(q)) :
         Waiting(p)[i] = Waiting(q)[j] => p = q /\ i = j
  /\ \A t \in DOMAIN timers :
       \E p \in Places : \E i \in 1..Len(Waiting(p)) : Waiting(p)[i] = t

(***************************************************************************)
(* Two timeouts with the same delay run in the order in which they were    *)
(* set, whichever wheels and slots they went through, with one exception.  *)
(* When they were set one jiffy apart and the delay is no multiple of it,  *)
(* both may come into one slot of the first wheel, and there the order is  *)
(* that in which the wheels above were emptied.  Even then the earlier one *)
(* has been activated and is run by the same update.                       *)
(***************************************************************************)
Follows(t, u) ==
  /\ \E j \in 1..Len(order) : \E i \in 1..j - 1 : order[i] = t /\ order[j] = u
  /\ Used(t) /\ Used(u)
  /\ timers[t].rate = timers[u].rate
  /\ ~timers[t].loop /\ ~timers[u].loop

MaySwap(t, u) ==
  /\ timers[u].expires = timers[t].expires + Jiffies
  /\ timers[t].rate % Jiffies # 0

OnlyNeighboursSwap ==
  \A t, u \in DOMAIN timers :
    Follows(t, u) /\ u = Running => t \in Activated /\ MaySwap(t, u)

Due == INSTANCE DueTimers WITH
         now <- elapsed,
         due <- [t \in DOMAIN timers |-> timers[t].expires],
         ready <- Activated \cap DOMAIN timers,
         running <- Running

(***************************************************************************)
(* The timing wheel runs a timer in the first jiffy that is not before its *)
(* due time, or less than one jiffy early, however delays and updates are  *)
(* spread over wheels and slots, also past the range of the last wheel.    *)
(***************************************************************************)
ImplementsDueTimers == Due!DueSpec
=============================================================================
