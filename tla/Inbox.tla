------------------------------- MODULE Inbox -------------------------------
(***************************************************************************)
(* The inbox of one worker thread (WorkerImpl::inbox_ in                   *)
(* src/src/runtime/bridge/jsb_worker.cpp) as its users see it step by      *)
(* step: any number of producer threads in on_receive(), one consumer in   *)
(* the loop of _run() / _dispatch_inbox(), and whoever raises              *)
(* interrupt_requested_.  on_receive() reads the flag first and appends    *)
(* later, so the flag may be raised in between.                            *)
(***************************************************************************)
EXTENDS DoubleBuffered

CONSTANTS
  Producer,   \* threads that call on_receive()
  Msg,        \* messages
  NoMsg,      \* no message
  MaxSend     \* bound: calls of on_receive() that get past the flag

ASSUME InboxAssumption == NoMsg \notin Msg /\ MaxSend \in Nat

VARIABLES
  inbox,      \* WorkerImpl::inbox_
  interrupt,  \* WorkerImpl::interrupt_requested_
  offered,    \* per producer: the message it holds between check and add
  consumer,   \* where the worker thread is
  at,         \* messages of the current batch already taken
  handled,    \* history: messages passed to _on_message, in order
  sends       \* calls of on_receive() so far (bounded by MaxSend)

inboxVars == <<inbox, interrupt, offered, consumer, at, handled, sends>>

InboxTypeOK ==
  /\ inbox \in Buffers(Msg)
  /\ interrupt \in BOOLEAN
  /\ offered \in [Producer -> Msg \cup {NoMsg}]
  /\ consumer \in {"poll", "drain", "stopped"}
  /\ at \in Nat
  /\ handled \in Seq(Msg)
  /\ sends \in Nat

InboxInit ==
  /\ inbox = NewBuffers
  /\ interrupt = FALSE
  /\ offered = [p \in Producer |-> NoMsg]
  /\ consumer = "poll"
  /\ at = 0
  /\ handled = <<>>
  /\ sends = 0

(* on_receive(): the flag is clear, so the message will be added. *)
PassCheck(p, m) ==
  /\ offered[p] = NoMsg
  /\ ~interrupt
  /\ sends < MaxSend
  /\ offered' = [offered EXCEPT ![p] = m]
  /\ sends' = sends + 1
  /\ UNCHANGED <<inbox, interrupt, consumer, at, handled>>

(* on_receive(): inbox_.add(), whatever the flag says by now. *)
AddMessage(p) ==
  /\ offered[p] # NoMsg
  /\ inbox' = Add(inbox, offered[p])
  /\ offered' = [offered EXCEPT ![p] = NoMsg]
  /\ UNCHANGED <<interrupt, consumer, at, handled, sends>>

RaiseInterrupt ==
  /\ interrupt' = TRUE
  /\ UNCHANGED <<inbox, offered, consumer, at, handled, sends>>

(* Loop test of _run(), then inbox_.swap() in _dispatch_inbox(). *)
SwapInbox ==
  /\ consumer = "poll"
  /\ ~interrupt
  /\ inbox' = Swap(inbox)
  /\ consumer' = "drain"
  /\ at' = 0
  /\ UNCHANGED <<interrupt, offered, handled, sends>>

(* One turn of the for loop: flag test, then _on_message. *)
OnMessage ==
  /\ consumer = "drain"
  /\ at < Len(Handed(inbox))
  /\ ~interrupt
  /\ at' = at + 1
  /\ handled' = Append(handled, Handed(inbox)[at + 1])
  /\ UNCHANGED <<inbox, interrupt, offered, consumer, sends>>

(* Mutants: the batch is not cleared; the cursor is put back by its length. *)
KeepBatch ==
  /\ consumer = "drain"
  /\ interrupt \/ at = Len(Handed(inbox))
  /\ consumer' = "poll"
  /\ at' = 0
  /\ UNCHANGED <<inbox, interrupt, offered, handled, sends>>

RewindBatch ==
  /\ consumer = "drain"
  /\ interrupt \/ at = Len(Handed(inbox))
  /\ inbox' = ClearHanded(inbox)
  /\ consumer' = "poll"
  /\ at' = at - Len(Handed(inbox))
  /\ UNCHANGED <<interrupt, offered, handled, sends>>

(* The loop ends or breaks, and messages.clear() drops what is left. *)
ClearBatch ==
  /\ consumer = "drain"
  /\ interrupt \/ at = Len(Handed(inbox))
  /\ inbox' = ClearHanded(inbox)
  /\ consumer' = "poll"
  /\ at' = 0
  /\ UNCHANGED <<interrupt, offered, handled, sends>>

LeaveLoop ==
  /\ consumer = "poll"
  /\ interrupt
  /\ consumer' = "stopped"
  /\ UNCHANGED <<inbox, interrupt, offered, at, handled, sends>>

InboxNext ==
  \/ \E p \in Producer, m \in Msg : PassCheck(p, m)
  \/ \E p \in Producer : AddMessage(p)
  \/ RaiseInterrupt
  \/ SwapInbox
  \/ OnMessage
  \/ ClearBatch
  \/ LeaveLoop

InboxSpec == InboxInit /\ [][InboxNext]_inboxVars

(* What neither buffer swap nor batch shows: the messages still to come, in *)
(* the order they will be handled.                                         *)
Pending == Unread(inbox, at)

(***************************************************************************)
(* Outside a batch the vector that the next swap() will turn into the      *)
(* producers' one is empty: nothing added later can overtake an older      *)
(* message.  This is what _dispatch_inbox() owes its next call.            *)
(***************************************************************************)
HandedIsSpent ==
  /\ consumer # "drain" => Handed(inbox) = <<>> /\ at = 0
  /\ at <= Len(Handed(inbox))

Chan == INSTANCE Channel WITH queue <- Pending, received <- handled,
                              closed <- interrupt

(***************************************************************************)
(* The double-buffered inbox of jsb_worker.cpp behaves like one FIFO       *)
(* channel: however adds interleave with swap, iteration and clear, the    *)
(* worker sees the messages in the order they were added, each once, loses *)
(* none until it is interrupted and starts none afterwards.                *)
(***************************************************************************)
ImplementsChannel == Chan!ChanSpec
=============================================================================
