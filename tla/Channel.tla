------------------------------ MODULE Channel ------------------------------
(***************************************************************************)
(* What an inbox promises to the two threads that share it, with no        *)
(* buffers in sight: messages are received in the order they were sent,    *)
(* none twice, none is dropped before the channel is closed and none is    *)
(* received after that.  A sender that did not see the close in time still *)
(* gets its message in; it will be dropped.                                *)
(***************************************************************************)
EXTENDS Naturals, Sequences

CONSTANT Msg

VARIABLES
  queue,      \* messages sent and neither received nor dropped
  received,   \* messages handed to the receiver, oldest first
  closed      \* the receiver was asked to stop

chanVars == <<queue, received, closed>>

ChanInit ==
  /\ queue = <<>>
  /\ received = <<>>
  /\ closed = FALSE

Send(m) ==
  /\ queue' = Append(queue, m)
  /\ UNCHANGED <<received, closed>>

Receive ==
  /\ ~closed
  /\ queue # <<>>
  /\ received' = Append(received, Head(queue))
  /\ queue' = Tail(queue)
  /\ UNCHANGED closed

Close ==
  /\ closed' = TRUE
  /\ UNCHANGED <<queue, received>>

(* Only a closed channel drops, and it drops from its head. *)
Drop ==
  /\ closed
  /\ \E k \in 1..Len(queue) : queue' = SubSeq(queue, k + 1, Len(queue))
  /\ UNCHANGED <<received, closed>>

ChanNext ==
  \/ \E m \in Msg : Send(m)
  \/ Receive
  \/ Close
  \/ Drop

ChanSpec == ChanInit /\ [][ChanNext]_chanVars
=============================================================================
