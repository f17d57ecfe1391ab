------------------------------ MODULE DueTimers ------------------------------
(***************************************************************************)
(* What setTimeout and setInterval promise, with no wheels in sight: time  *)
(* goes on in steps of one jiffy; a timer becomes ready in the first step  *)
(* that is not before its due time, or less than a jiffy early, and each   *)
(* time it is ready it runs once.  Nothing runs that was cleared.          *)
(***************************************************************************)
EXTENDS Naturals

CONSTANTS
  Timers,   \* timers
  NoTimer,  \* no timer
  Jiffies   \* the resolution of time

VARIABLES
  now,      \* the time
  due,      \* per timer that is set: when it is due
  ready,    \* timers to be run
  running   \* the timer whose callback is running

dueVars == <<now, due, ready, running>>

Waiting == DOMAIN due \ (ready \cup {running})

DueInit ==
  /\ now = 0
  /\ due = [t \in {} |-> 0]
  /\ ready = {}
  /\ running = NoTimer

With(t, d) == [u \in DOMAIN due \cup {t} |-> IF u = t THEN d ELSE due[u]]
Without(t) == [u \in DOMAIN due \ {t} |-> due[u]]

(* t will be due at some time. *)
StartsAt(t) ==
  /\ t \in DOMAIN due'
  /\ due' = With(t, due'[t])
  /\ due'[t] \in Nat

Start(t) ==
  /\ t \notin DOMAIN due
  /\ StartsAt(t)
  /\ UNCHANGED <<now, ready, running>>

Cancel(t) ==
  /\ due' = Without(t)
  /\ ready' = ready \ {t}
  /\ UNCHANGED <<now, running>>

Advance ==
  /\ running = NoTimer
  /\ now' = now + Jiffies
  /\ ready' \subseteq DOMAIN due
  /\ ready \subseteq ready'
  /\ \A t \in Waiting : due[t] <= now' => t \in ready'
  /\ \A t \in ready' \ ready : due[t] < now' + Jiffies
  /\ UNCHANGED <<due, running>>

Run(t) ==
  /\ running = NoTimer
  /\ t \in ready
  /\ running' = t
  /\ ready' = ready \ {t}
  /\ UNCHANGED <<now, due>>

(* A timeout is over; an interval starts again. *)
Done ==
  /\ running # NoTimer
  /\ running' = NoTimer
  /\ \/ due' = Without(running)
     \/ running \in DOMAIN due /\ StartsAt(running)
  /\ UNCHANGED <<now, ready>>

DueNext ==
  \/ \E t \in Timers : Start(t) \/ Cancel(t) \/ Run(t)
  \/ Advance
  \/ Done

DueSpec == DueInit /\ [][DueNext]_dueVars
=============================================================================
