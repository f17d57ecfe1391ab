--------------------------- MODULE DoubleBuffered ---------------------------
(***************************************************************************)
(* The value kept by jsb::internal::DoubleBuffered<T>                      *)
(* (src/src/internal/jsb_double_buffered.h): two vectors and the flag that *)
(* says which of them producers append to.  add() and swap() each run      *)
(* under the spin lock, so each is one operator here; the caller of swap() *)
(* reads and clears the vector it was handed WITHOUT the lock, which is    *)
(* only sound as long as no other swap() happens in between.               *)
(***************************************************************************)
EXTENDS Naturals, Sequences

(* use is the value of use_front_: the name of the vector add() appends to. *)
Buffers(T) == [use : {"front", "back"}, front : Seq(T), back : Seq(T)]

NewBuffers == [use |-> "front", front |-> <<>>, back |-> <<>>]

(* The vector add() appends to. *)
Filling(b) == IF b.use = "front" THEN b.front ELSE b.back

(* The other vector: the one the latest swap() returned to the consumer. *)
Handed(b) == IF b.use = "front" THEN b.back ELSE b.front

(* Mutant: add() looks at use_front_ before it takes the lock. *)
AddUnlocked(b, m) ==
  IF b.use = "front" THEN [b EXCEPT !.back = Append(b.back, m)]
                     ELSE [b EXCEPT !.front = Append(b.front, m)]

Add(b, m) ==
  IF b.use = "front" THEN [b EXCEPT !.front = Append(b.front, m)]
                     ELSE [b EXCEPT !.back = Append(b.back, m)]

Swap(b) == [b EXCEPT !.use = IF b.use = "front" THEN "back" ELSE "front"]

(* messages.clear() by the consumer, on the vector swap() returned. *)
ClearHanded(b) ==
  IF b.use = "front" THEN [b EXCEPT !.back = <<>>]
                     ELSE [b EXCEPT !.front = <<>>]

(* What the consumer has still to see once it took the first `at` messages  *)
(* of the vector it was handed, oldest first.                              *)
Unread(b, at) ==
  SubSeq(Handed(b), at + 1, Len(Handed(b))) \o Filling(b)
=============================================================================
