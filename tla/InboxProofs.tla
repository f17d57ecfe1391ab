---------------------------- MODULE InboxProofs ----------------------------
(***************************************************************************)
(* Proofs about module Inbox, for every set of producers and messages: the *)
(* buffers keep their type, the batch discipline holds, and the            *)
(* double-buffered inbox implements the FIFO channel.                      *)
(***************************************************************************)
EXTENDS Inbox, DoubleBufferedProofs

-----------------------------------------------------------------------------
(***************************************************************************)
(* Type correctness: in every reachable state of the inbox its variables,  *)
(* the two vectors of jsb_double_buffered.h among them, have their types.  *)
(***************************************************************************)
THEOREM InboxTypeCorrect == InboxSpec => []InboxTypeOK
<1>1. InboxInit => InboxTypeOK
  <2>1. NewBuffers \in Buffers(Msg) /\ <<>> \in Seq(Msg)
    BY NewBuffersByRole, EmptySeq
  <2>2. InboxInit => interrupt \in BOOLEAN
    BY Zenon DEF InboxInit
  <2>3. InboxInit => offered \in [Producer -> Msg \cup {NoMsg}]
    BY DEF InboxInit
  <2> QED BY <2>1, <2>2, <2>3 DEF InboxInit, InboxTypeOK
<1>2. InboxTypeOK /\ [InboxNext]_inboxVars => InboxTypeOK'
  <2> SUFFICES ASSUME InboxTypeOK, [InboxNext]_inboxVars PROVE InboxTypeOK'
    OBVIOUS
  <2>1. ASSUME NEW p \in Producer, NEW m \in Msg, PassCheck(p, m)
        PROVE  InboxTypeOK'
    BY <2>1 DEF PassCheck, InboxTypeOK
  <2>2. ASSUME NEW p \in Producer, AddMessage(p) PROVE InboxTypeOK'
    <3>1. offered[p] \in Msg
      BY <2>2 DEF AddMessage, InboxTypeOK
    <3>2. inbox' \in Buffers(Msg)
      BY <2>2, <3>1, AddByRole DEF AddMessage, InboxTypeOK
    <3> QED BY <2>2, <3>2 DEF AddMessage, InboxTypeOK
  <2>3. CASE RaiseInterrupt
    BY <2>3 DEF RaiseInterrupt, InboxTypeOK
  <2>4. CASE SwapInbox
    BY <2>4, SwapByRole DEF SwapInbox, InboxTypeOK
  <2>5. CASE OnMessage
    <3>1. Handed(inbox) \in Seq(Msg)
      BY BuffersByRole DEF InboxTypeOK
    <3>2. Handed(inbox)[at + 1] \in Msg
      BY <2>5, <3>1, LenProperties DEF OnMessage, InboxTypeOK
    <3>3. handled' \in Seq(Msg)
      BY <2>5, <3>2, AppendProperties DEF OnMessage, InboxTypeOK
    <3> QED BY <2>5, <3>3 DEF OnMessage, InboxTypeOK
  <2>6. CASE ClearBatch
    BY <2>6, ClearByRole DEF ClearBatch, InboxTypeOK
  <2>7. CASE LeaveLoop
    BY <2>7 DEF LeaveLoop, InboxTypeOK
  <2>8. CASE UNCHANGED inboxVars
    BY <2>8 DEF inboxVars, InboxTypeOK
  <2> QED BY <2>1, <2>2, <2>3, <2>4, <2>5, <2>6, <2>7, <2>8 DEF InboxNext
<1> QED BY <1>1, <1>2, PTL DEF InboxSpec

(***************************************************************************)
(* Outside a batch the vector swap() will hand to the producers is empty,  *)
(* whatever the interleaving of on_receive() with _dispatch_inbox().       *)
(***************************************************************************)
THEOREM HandedAlwaysSpent == InboxSpec => []HandedIsSpent
<1>1. InboxInit => HandedIsSpent
  BY NewBuffersByRole, EmptySeq DEF InboxInit, HandedIsSpent
<1>2. InboxTypeOK /\ HandedIsSpent /\ [InboxNext]_inboxVars => HandedIsSpent'
  <2> SUFFICES ASSUME InboxTypeOK, HandedIsSpent, [InboxNext]_inboxVars
               PROVE  HandedIsSpent'
    OBVIOUS
  <2>1. ASSUME NEW p \in Producer, NEW m \in Msg, PassCheck(p, m)
        PROVE  HandedIsSpent'
    BY <2>1 DEF PassCheck, HandedIsSpent
  <2>2. ASSUME NEW p \in Producer, AddMessage(p) PROVE HandedIsSpent'
    <3>1. offered[p] \in Msg
      BY <2>2 DEF AddMessage, InboxTypeOK
    <3>2. Handed(inbox') = Handed(inbox)
      BY <2>2, <3>1, AddByRole DEF AddMessage, InboxTypeOK
    <3> QED BY <2>2, <3>2 DEF AddMessage, HandedIsSpent
  <2>3. CASE RaiseInterrupt
    BY <2>3 DEF RaiseInterrupt, HandedIsSpent
  <2>4. CASE SwapInbox
    <3>1. Handed(inbox') \in Seq(Msg) /\ at' = 0 /\ consumer' = "drain"
      BY <2>4, SwapByRole, BuffersByRole DEF SwapInbox, InboxTypeOK
    <3> QED BY <3>1, LenProperties DEF HandedIsSpent
  <2>5. CASE OnMessage
    <3>1. Len(Handed(inbox)) \in Nat
      BY BuffersByRole, LenProperties DEF InboxTypeOK
    <3> QED BY <2>5, <3>1 DEF OnMessage, HandedIsSpent, InboxTypeOK
  <2>6. CASE ClearBatch
    BY <2>6, ClearByRole, EmptySeq DEF ClearBatch, HandedIsSpent, InboxTypeOK
  <2>7. CASE LeaveLoop
    BY <2>7 DEF LeaveLoop, HandedIsSpent
  <2>8. CASE UNCHANGED inboxVars
    BY <2>8 DEF inboxVars, HandedIsSpent
  <2> QED BY <2>1, <2>2, <2>3, <2>4, <2>5, <2>6, <2>7, <2>8 DEF InboxNext
<1> QED BY <1>1, <1>2, InboxTypeCorrect, PTL DEF InboxSpec

-----------------------------------------------------------------------------
(***************************************************************************)
(* The refinement mapping: what is left of the batch, then what producers  *)
(* have added since the swap.                                              *)
(***************************************************************************)
LEMMA InitRefines == InboxInit => Chan!ChanInit
<1> SUFFICES ASSUME InboxInit PROVE Chan!ChanInit
  OBVIOUS
<1>1. Pending = <<>>
  BY UnreadOfNew DEF InboxInit, Pending
<1> QED BY <1>1 DEF InboxInit, Chan!ChanInit

LEMMA AddRefinesSend ==
  ASSUME InboxTypeOK, HandedIsSpent, NEW p \in Producer, AddMessage(p)
  PROVE  \E m \in Msg : Chan!Send(m)
<1>1. offered[p] \in Msg
  BY DEF AddMessage, InboxTypeOK
<1>2. inbox' = Add(inbox, offered[p]) /\ UNCHANGED <<at, handled, interrupt>>
  BY DEF AddMessage
<1>3. Pending' = Append(Pending, offered[p])
  BY <1>1, <1>2, UnreadOfAdd DEF Pending, InboxTypeOK, HandedIsSpent
<1> QED BY <1>1, <1>2, <1>3 DEF Chan!Send

LEMMA SwapRefinesStutter ==
  ASSUME InboxTypeOK, HandedIsSpent, SwapInbox
  PROVE  UNCHANGED <<Pending, handled, interrupt>>
<1>1. Handed(inbox) = <<>> /\ at = 0
  BY DEF SwapInbox, HandedIsSpent
<1>2. Pending' = Pending
  BY <1>1, UnreadOfSwap DEF SwapInbox, Pending, InboxTypeOK
<1> QED BY <1>2 DEF SwapInbox

LEMMA OnMessageRefinesReceive ==
  ASSUME InboxTypeOK, HandedIsSpent, OnMessage
  PROVE  Chan!Receive
<1>1. /\ at < Len(Handed(inbox)) /\ ~interrupt
      /\ at' = at + 1 /\ handled' = Append(handled, Handed(inbox)[at + 1])
      /\ UNCHANGED <<inbox, interrupt>>
  BY DEF OnMessage
<1>2. /\ Pending # <<>> /\ Head(Pending) = Handed(inbox)[at + 1]
      /\ Tail(Pending) = Unread(inbox, at + 1)
  BY <1>1, UnreadOfNext DEF Pending, InboxTypeOK
<1>3. Pending' = Tail(Pending)
  BY <1>1, <1>2 DEF Pending
<1> QED BY <1>1, <1>2, <1>3 DEF Chan!Receive

LEMMA ClearRefinesDrop ==
  ASSUME InboxTypeOK, HandedIsSpent, ClearBatch
  PROVE  Chan!Drop \/ UNCHANGED <<Pending, handled, interrupt>>
<1>1. /\ inbox' = ClearHanded(inbox) /\ at' = 0
      /\ interrupt \/ at = Len(Handed(inbox))
      /\ UNCHANGED <<handled, interrupt>>
  BY DEF ClearBatch
<1>2. Pending' = Unread(ClearHanded(inbox), 0)
  BY <1>1 DEF Pending
<1>3. inbox \in Buffers(Msg) /\ at \in Nat /\ at <= Len(Handed(inbox))
  BY DEF InboxTypeOK, HandedIsSpent
<1>4. CASE at = Len(Handed(inbox))
  BY <1>1, <1>2, <1>3, <1>4, UnreadOfClear DEF Pending
<1>5. CASE at # Len(Handed(inbox))
  BY <1>1, <1>2, <1>3, <1>5, UnreadOfClear DEF Pending, Chan!Drop
<1> QED BY <1>4, <1>5

LEMMA StepRefines ==
  ASSUME InboxTypeOK, HandedIsSpent, [InboxNext]_inboxVars
  PROVE  [Chan!ChanNext]_<<Pending, handled, interrupt>>
<1>1. ASSUME NEW p \in Producer, NEW m \in Msg, PassCheck(p, m)
      PROVE  UNCHANGED <<Pending, handled, interrupt>>
  BY <1>1 DEF PassCheck, Pending
<1>2. ASSUME NEW p \in Producer, AddMessage(p)
      PROVE  \E m \in Msg : Chan!Send(m)
  BY <1>2, AddRefinesSend
<1>3. CASE RaiseInterrupt
  <2>1. UNCHANGED <<Pending, handled>> /\ interrupt' = TRUE
    BY <1>3 DEF RaiseInterrupt, Pending
  <2> QED BY <2>1 DEF Chan!ChanNext, Chan!Close
<1>4. CASE SwapInbox
  BY <1>4, SwapRefinesStutter
<1>5. CASE OnMessage
  BY <1>5, OnMessageRefinesReceive DEF Chan!ChanNext
<1>6. CASE ClearBatch
  BY <1>6, ClearRefinesDrop DEF Chan!ChanNext
<1>7. CASE LeaveLoop
  BY <1>7 DEF LeaveLoop, Pending
<1>8. CASE UNCHANGED inboxVars
  BY <1>8 DEF inboxVars, Pending
<1> QED
  BY <1>1, <1>2, <1>3, <1>4, <1>5, <1>6, <1>7, <1>8
  DEF InboxNext, Chan!ChanNext

(***************************************************************************)
(* The inbox of jsb_worker.cpp implements the FIFO channel: the initial    *)
(* state maps to the empty open channel and every step to a step of it.    *)
(***************************************************************************)
THEOREM InboxImplementsChannel == InboxSpec => ImplementsChannel
<1>1. InboxInit => Chan!ChanInit
  BY InitRefines
<1>2. InboxTypeOK /\ HandedIsSpent /\ [InboxNext]_inboxVars
        => [Chan!ChanNext]_(Chan!chanVars)
  BY StepRefines DEF Chan!chanVars
<1> QED
  BY <1>1, <1>2, InboxTypeCorrect, HandedAlwaysSpent, PTL
  DEF InboxSpec, ImplementsChannel, Chan!ChanSpec
=============================================================================
