----------------------- MODULE DoubleBufferedProofs -----------------------
(***************************************************************************)
(* Lemmas about module DoubleBuffered, cited wherever an inbox is proved   *)
(* about.                                                                  *)
(***************************************************************************)
EXTENDS DoubleBuffered, SequenceTheorems, TLAPS

(***************************************************************************)
(* What the operations of DoubleBuffered do to the two vectors seen by     *)
(* role (being filled, handed out) instead of by name (front, back).       *)
(***************************************************************************)
LEMMA BuffersByRole ==
  ASSUME NEW T, NEW b \in Buffers(T)
  PROVE  /\ Filling(b) \in Seq(T)
         /\ Handed(b) \in Seq(T)
BY DEF Buffers, Filling, Handed

LEMMA NewBuffersByRole ==
  ASSUME NEW T
  PROVE  /\ NewBuffers \in Buffers(T)
         /\ Filling(NewBuffers) = <<>>
         /\ Handed(NewBuffers) = <<>>
BY DEF Buffers, NewBuffers, Filling, Handed

LEMMA AddByRole ==
  ASSUME NEW T, NEW b \in Buffers(T), NEW m \in T
  PROVE  /\ Add(b, m) \in Buffers(T)
         /\ Filling(Add(b, m)) = Append(Filling(b), m)
         /\ Handed(Add(b, m)) = Handed(b)
<1>1. b.front \in Seq(T) /\ b.back \in Seq(T) /\ b.use \in {"front", "back"}
  BY DEF Buffers
<1>2. Append(b.front, m) \in Seq(T) /\ Append(b.back, m) \in Seq(T)
  BY <1>1, AppendProperties
<1>3. CASE b.use = "front"
  BY <1>1, <1>2, <1>3 DEF Buffers, Add, Filling, Handed
<1>4. CASE b.use = "back"
  BY <1>1, <1>2, <1>4 DEF Buffers, Add, Filling, Handed
<1> QED BY <1>1, <1>3, <1>4

LEMMA SwapByRole ==
  ASSUME NEW T, NEW b \in Buffers(T)
  PROVE  /\ Swap(b) \in Buffers(T)
         /\ Filling(Swap(b)) = Handed(b)
         /\ Handed(Swap(b)) = Filling(b)
<1>1. CASE b.use = "front"
  BY <1>1 DEF Buffers, Swap, Filling, Handed
<1>2. CASE b.use = "back"
  BY <1>2 DEF Buffers, Swap, Filling, Handed
<1> QED BY <1>1, <1>2 DEF Buffers

LEMMA ClearByRole ==
  ASSUME NEW T, NEW b \in Buffers(T)
  PROVE  /\ ClearHanded(b) \in Buffers(T)
         /\ Filling(ClearHanded(b)) = Filling(b)
         /\ Handed(ClearHanded(b)) = <<>>
<1>1. CASE b.use = "front"
  BY <1>1, EmptySeq DEF Buffers, ClearHanded, Filling, Handed
<1>2. CASE b.use = "back"
  BY <1>2, EmptySeq DEF Buffers, ClearHanded, Filling, Handed
<1> QED BY <1>1, <1>2 DEF Buffers

-----------------------------------------------------------------------------
(***************************************************************************)
(* Facts about sequences that the lemmas about Unread use.                 *)
(***************************************************************************)
LEMMA ConcatThenAppend ==
  ASSUME NEW T, NEW s \in Seq(T), NEW t \in Seq(T), NEW e \in T
  PROVE  s \o Append(t, e) = Append(s \o t, e)
<1>1. Append(t, e) = t \o <<e>> /\ <<e>> \in Seq(T)
  BY AppendIsConcat
<1>2. s \o t \in Seq(T)
  BY ConcatProperties
<1>3. Append(s \o t, e) = (s \o t) \o <<e>>
  BY <1>2, AppendIsConcat
<1> QED BY <1>1, <1>3, ConcatAssociative

LEMMA HeadTailOfCons ==
  ASSUME NEW T, NEW e \in T, NEW u \in Seq(T)
  PROVE  /\ <<e>> \o u # <<>>
         /\ Head(<<e>> \o u) = e
         /\ Tail(<<e>> \o u) = u
<1> DEFINE c == <<e>> \o u
<1>1. <<e>> \in Seq(T) /\ Len(<<e>>) = 1 /\ <<e>>[1] = e
  OBVIOUS
<1>2. c \in Seq(T) /\ Len(c) = 1 + Len(u) /\ c[1] = e
      /\ \A i \in 2..(1 + Len(u)) : c[i] = u[i - 1]
  BY <1>1, ConcatProperties, LenProperties
<1>3. c # <<>>
  BY <1>2, LenProperties, EmptySeq
<1>4. Tail(c) \in Seq(T) /\ Len(Tail(c)) = Len(u)
      /\ \A i \in 1..Len(u) : Tail(c)[i] = u[i]
  BY <1>2, <1>3, HeadTailProperties, LenProperties
<1>5. Tail(c) = u
  BY <1>4, SeqEqual
<1>6. Head(c) = e
  BY <1>2, <1>3
<1> QED BY <1>3, <1>5, <1>6

LEMMA SuffixOfConcat ==
  ASSUME NEW T, NEW s \in Seq(T), NEW t \in Seq(T)
  PROVE  SubSeq(s \o t, Len(s) + 1, Len(s \o t)) = t
<1>1. Len(s) \in Nat /\ Len(t) \in Nat /\ Len(s \o t) = Len(s) + Len(t)
  BY LenProperties, ConcatProperties
<1>2. CASE t = <<>>
  <2>1. Len(s \o t) < Len(s) + 1
    BY <1>1, <1>2, EmptySeq
  <2> QED BY <1>1, <1>2, <2>1, SubSeqEmpty
<1>3. CASE t # <<>>
  <2>1. Len(t) > 0
    BY <1>1, <1>3, EmptySeq
  <2>2. Len(s) + 1 \in Len(s) + 1 .. Len(s) + Len(t)
        /\ Len(s \o t) \in Len(s) + 1 .. Len(s) + Len(t)
    BY <1>1, <2>1
  <2>3. SubSeq(s \o t, Len(s) + 1, Len(s \o t))
          = SubSeq(t, (Len(s) + 1) - Len(s), Len(s \o t) - Len(s))
    BY <2>2, SubSeqOfConcat2
  <2>4. SubSeq(s \o t, Len(s) + 1, Len(s \o t)) = SubSeq(t, 1, Len(t))
    BY <1>1, <2>3
  <2> QED BY <2>4, SubSeqFull
<1> QED BY <1>2, <1>3

-----------------------------------------------------------------------------
(***************************************************************************)
(* What the operations do to the messages the consumer has still to see:   *)
(* add() appends, swap() shows the same ones in its other vector, the next *)
(* turn of the consumer's loop takes the head, clear() drops the rest of   *)
(* the batch.                                                              *)
(***************************************************************************)
LEMMA UnreadParts ==
  ASSUME NEW T, NEW b \in Buffers(T), NEW at \in Nat, at <= Len(Handed(b))
  PROVE  /\ Handed(b) \in Seq(T)
         /\ Filling(b) \in Seq(T)
         /\ Len(Handed(b)) \in Nat
         /\ SubSeq(Handed(b), at + 1, Len(Handed(b))) \in Seq(T)
         /\ Len(SubSeq(Handed(b), at + 1, Len(Handed(b))))
              = Len(Handed(b)) - at
         /\ Unread(b, at) \in Seq(T)
<1> DEFINE h == Handed(b)
           rest == SubSeq(h, at + 1, Len(h))
<1>1. h \in Seq(T) /\ Filling(b) \in Seq(T)
  BY BuffersByRole
<1>2. Len(h) \in Nat /\ \A i \in 1..Len(h) : h[i] \in T
  BY <1>1, LenProperties
<1>3. at <= Len(h)
  OBVIOUS
<1>4. \A i \in at + 1 .. Len(h) : h[i] \in T
  BY <1>2, <1>3
<1>5. Unread(b, at) = rest \o Filling(b)
  BY DEF Unread
<1> HIDE DEF h
<1>6. rest \in Seq(T)
      /\ Len(rest) = IF at + 1 <= Len(h) THEN Len(h) - (at + 1) + 1 ELSE 0
  BY <1>2, <1>3, <1>4, SubSeqProperties
<1>7. Len(rest) = Len(h) - at
  BY <1>2, <1>3, <1>6
<1> HIDE DEF rest
<1>8. rest \o Filling(b) \in Seq(T)
  BY <1>1, <1>6, ConcatProperties
<1> QED BY <1>1, <1>2, <1>5, <1>6, <1>7, <1>8 DEF h, rest

LEMMA UnreadOfSpent ==
  ASSUME NEW T, NEW b \in Buffers(T), Handed(b) = <<>>
  PROVE  Unread(b, 0) = Filling(b)
<1>1. SubSeq(Handed(b), 0 + 1, Len(Handed(b))) = <<>>
  BY SubSeqEmpty, EmptySeq
<1> QED BY <1>1, BuffersByRole, ConcatEmptySeq DEF Unread

LEMMA UnreadOfNew == Unread(NewBuffers, 0) = <<>>
BY NewBuffersByRole, UnreadOfSpent

LEMMA UnreadOfAdd ==
  ASSUME NEW T, NEW b \in Buffers(T), NEW m \in T,
         NEW at \in Nat, at <= Len(Handed(b))
  PROVE  Unread(Add(b, m), at) = Append(Unread(b, at), m)
<1> DEFINE rest == SubSeq(Handed(b), at + 1, Len(Handed(b)))
<1>1. rest \in Seq(T) /\ Filling(b) \in Seq(T)
  BY UnreadParts
<1>2. Unread(Add(b, m), at) = rest \o Append(Filling(b), m)
  BY AddByRole DEF Unread
<1>3. Unread(b, at) = rest \o Filling(b)
  BY DEF Unread
<1> HIDE DEF rest
<1>4. rest \o Append(Filling(b), m) = Append(rest \o Filling(b), m)
  BY <1>1, ConcatThenAppend
<1> QED BY <1>2, <1>3, <1>4

LEMMA UnreadOfSwap ==
  ASSUME NEW T, NEW b \in Buffers(T), Handed(b) = <<>>
  PROVE  Unread(Swap(b), 0) = Unread(b, 0)
<1>1. Handed(Swap(b)) = Filling(b) /\ Filling(Swap(b)) = <<>>
  BY SwapByRole
<1>2. Filling(b) \in Seq(T)
  BY BuffersByRole
<1>3. Unread(Swap(b), 0) = SubSeq(Filling(b), 1, Len(Filling(b))) \o <<>>
  BY <1>1 DEF Unread
<1>4. Unread(Swap(b), 0) = Filling(b)
  BY <1>2, <1>3, SubSeqFull, ConcatEmptySeq
<1> QED BY <1>4, UnreadOfSpent

LEMMA UnreadOfNext ==
  ASSUME NEW T, NEW b \in Buffers(T), NEW at \in Nat, at < Len(Handed(b))
  PROVE  /\ Handed(b)[at + 1] \in T
         /\ Unread(b, at + 1) \in Seq(T)
         /\ Unread(b, at) = <<Handed(b)[at + 1]>> \o Unread(b, at + 1)
         /\ Unread(b, at) # <<>>
         /\ Head(Unread(b, at)) = Handed(b)[at + 1]
         /\ Tail(Unread(b, at)) = Unread(b, at + 1)
<1> DEFINE h == Handed(b)
           e == h[at + 1]
           rest == SubSeq(h, at + 2, Len(h))
<1>1. h \in Seq(T) /\ Filling(b) \in Seq(T) /\ Len(h) \in Nat
  BY BuffersByRole, LenProperties
<1>2. e \in T /\ at + 1 \in Nat /\ at + 1 <= Len(h) /\ (at + 1) + 1 = at + 2
  BY <1>1, LenProperties
<1>3. rest \in Seq(T) /\ Unread(b, at + 1) \in Seq(T)
      /\ Unread(b, at + 1) = rest \o Filling(b)
  BY <1>2, UnreadParts DEF Unread
<1>4. SubSeq(h, at + 1, Len(h)) = <<e>> \o rest
  <2>1. at + 1 \in 1..Len(h) /\ Len(h) \in at + 1 .. Len(h)
    BY <1>1, <1>2
  <2> HIDE DEF h
  <2> QED BY <1>1, <1>2, <2>1, SubSeqRecursiveFirst
<1>5. Unread(b, at) = SubSeq(h, at + 1, Len(h)) \o Filling(b)
  BY DEF Unread
<1> HIDE DEF h, rest, e
<1>6. Unread(b, at) = <<e>> \o Unread(b, at + 1)
  <2>1. <<e>> \in Seq(T)
    BY <1>2
  <2>2. (<<e>> \o rest) \o Filling(b) = <<e>> \o (rest \o Filling(b))
    BY <1>1, <1>3, <2>1, ConcatAssociative, SMTT(30)
  <2> QED BY <1>3, <1>4, <1>5, <2>2
<1>7. /\ <<e>> \o Unread(b, at + 1) # <<>>
      /\ Head(<<e>> \o Unread(b, at + 1)) = e
      /\ Tail(<<e>> \o Unread(b, at + 1)) = Unread(b, at + 1)
  BY <1>2, <1>3, HeadTailOfCons
<1> QED BY <1>2, <1>3, <1>6, <1>7 DEF e, h

LEMMA UnreadOfClear ==
  ASSUME NEW T, NEW b \in Buffers(T), NEW at \in Nat, at <= Len(Handed(b))
  PROVE  /\ at = Len(Handed(b)) => Unread(ClearHanded(b), 0) = Unread(b, at)
         /\ at # Len(Handed(b)) =>
              \E k \in 1..Len(Unread(b, at)) :
                Unread(ClearHanded(b), 0)
                  = SubSeq(Unread(b, at), k + 1, Len(Unread(b, at)))
<1> DEFINE h == Handed(b)
           rest == SubSeq(h, at + 1, Len(h))
<1>1. rest \in Seq(T) /\ Filling(b) \in Seq(T) /\ Len(h) \in Nat
      /\ Len(rest) = Len(h) - at /\ at <= Len(h)
  BY UnreadParts
<1>2. Unread(ClearHanded(b), 0) = Filling(b)
  <2>1. ClearHanded(b) \in Buffers(T) /\ Handed(ClearHanded(b)) = <<>>
        /\ Filling(ClearHanded(b)) = Filling(b)
    BY ClearByRole
  <2> QED BY <2>1, UnreadOfSpent
<1>3. Unread(b, at) = rest \o Filling(b)
  BY DEF Unread
<1> HIDE DEF rest
<1>4. ASSUME at = Len(h) PROVE Unread(ClearHanded(b), 0) = Unread(b, at)
  <2>1. rest = <<>>
    BY <1>1, <1>4, EmptySeq
  <2> QED BY <1>1, <1>2, <1>3, <2>1, ConcatEmptySeq
<1>5. ASSUME at # Len(h)
      PROVE  \E k \in 1..Len(Unread(b, at)) :
               Unread(ClearHanded(b), 0)
                 = SubSeq(Unread(b, at), k + 1, Len(Unread(b, at)))
  <2>1. Len(rest \o Filling(b)) = Len(rest) + Len(Filling(b))
        /\ Len(Filling(b)) \in Nat
    BY <1>1, ConcatProperties, LenProperties
  <2>2. Len(rest) \in 1..Len(Unread(b, at))
    BY <1>1, <1>3, <1>5, <2>1
  <2>3. Unread(ClearHanded(b), 0)
          = SubSeq(Unread(b, at), Len(rest) + 1, Len(Unread(b, at)))
    BY <1>1, <1>2, <1>3, SuffixOfConcat
  <2> QED BY <2>2, <2>3
<1> QED BY <1>4, <1>5
============================================================================
