-------------------------------- MODULE Slots --------------------------------
(***************************************************************************)
(* The data structure of SArray (jsb_sarray.h): slots that are on a list   *)
(* of used ones, linked both ways, or on a list of free ones.  A slot has  *)
(* a revision, which an index repeats, and counts it up when it is taken   *)
(* and again when it is given back.                                        *)
(*                                                                         *)
(* An array is a record: next, prev, rev and val are functions of the slot *)
(* numbers, the rest are _free_index, _first_index, _last_index and        *)
(* _used_size.  Slots are counted from 1.  The prev of a free slot is      *)
(* never read: it is None here.                                            *)
(***************************************************************************)
EXTENDS Integers, Sequences

CONSTANTS
  Mask,         \* kRevisionMask: 2^n - 1
  MinCapacity,  \* the capacity of an array that grows for the first time
  NoValue       \* the value of a slot that was destructed

ASSUME SlotsAssumption ==
  Mask \in Nat \ {0} /\ MinCapacity \in Nat \ {0}

None == -1

(* An array as is_consistent() sees it. *)
IsSlots(a, Values) ==
  LET N == 1..Len(a.val) IN
  /\ a.val \in Seq(Values \cup {NoValue})
  /\ a.next \in [N -> N \cup {None}]
  /\ a.prev \in [N -> N \cup {None}]
  /\ a.rev \in [N -> 1..Mask]
  /\ {a.free, a.first, a.last} \subseteq N \cup {None}
  /\ a.used \in 0..Len(a.val)

Empty ==
  [next |-> <<>>, prev |-> <<>>, rev |-> <<>>, val |-> <<>>,
   free |-> None, first |-> None, last |-> None, used |-> 0]

(* Mutant: the revision becomes 0 where it wraps. *)
NextRevisionZero(r) == (r + 1) % (Mask + 1)

(* increase_revision: 0 is left out. *)
NextRevision(r) == IF r = Mask THEN 1 ELSE r + 1

IsValidIndex(a, i, r) == i \in 1..Len(a.val) /\ r # 0 /\ a.rev[i] = r

(* grow_if_needed: the new slots come to the head of the free list. *)
Grown(a, extra) ==
  LET old == Len(a.val)
      wanted == a.used + extra
      double == IF old * 2 < MinCapacity THEN MinCapacity ELSE old * 2
      new == IF double < wanted THEN wanted ELSE double
      more == 1..(new - old)
  IN IF wanted <= old THEN a
     ELSE [a EXCEPT
             !.next = @ \o [i \in more |->
                              IF i = 1 THEN a.free ELSE old + i - 1],
             !.prev = @ \o [i \in more |-> None],
             !.rev = @ \o [i \in more |-> 1],
             !.val = @ \o [i \in more |-> NoValue],
             !.free = new]

(* A link of a slot is set unless there is no such slot. *)
Link(f, i, j) == IF i = None THEN f ELSE [f EXCEPT ![i] = j]

(* Mutant: the slot that was the last is not linked to the new one. *)
AddedUnlinked(a0, v) ==
  LET a == Grown(a0, 1)
      i == a.free
  IN [next |-> [a.next EXCEPT ![i] = None],
      prev |-> [a.prev EXCEPT ![i] = a.last],
      rev |-> [a.rev EXCEPT ![i] = NextRevision(@)],
      val |-> [a.val EXCEPT ![i] = v],
      free |-> a.next[i],
      first |-> IF a.first = None THEN i ELSE a.first,
      last |-> i,
      used |-> a.used + 1]

(* add *)
Added(a0, v) ==
  LET a == Grown(a0, 1)
      i == a.free
  IN [next |-> [Link(a.next, a.last, i) EXCEPT ![i] = None],
      prev |-> [a.prev EXCEPT ![i] = a.last],
      rev |-> [a.rev EXCEPT ![i] = NextRevision(@)],
      val |-> [a.val EXCEPT ![i] = v],
      free |-> a.next[i],
      first |-> IF a.first = None THEN i ELSE a.first,
      last |-> i,
      used |-> a.used + 1]

(* Mutant: what is put before the first is not the first then. *)
InsertedBehind(a0, p, v) ==
  LET a == Grown(a0, 1)
      i == a.free
  IN [next |-> Link([a.next EXCEPT ![i] = p], a.prev[p], i),
      prev |-> [a.prev EXCEPT ![i] = a.prev[p], ![p] = i],
      rev |-> [a.rev EXCEPT ![i] = NextRevision(@)],
      val |-> [a.val EXCEPT ![i] = v],
      free |-> a.next[i],
      first |-> a.first,
      last |-> a.last,
      used |-> a.used + 1]

(* insert, before a slot *)
Inserted(a0, p, v) ==
  LET a == Grown(a0, 1)
      i == a.free
  IN [next |-> Link([a.next EXCEPT ![i] = p], a.prev[p], i),
      prev |-> [a.prev EXCEPT ![i] = a.prev[p], ![p] = i],
      rev |-> [a.rev EXCEPT ![i] = NextRevision(@)],
      val |-> [a.val EXCEPT ![i] = v],
      free |-> a.next[i],
      first |-> IF a.first = p THEN i ELSE a.first,
      last |-> a.last,
      used |-> a.used + 1]

(* The two lists without a slot that is moved or removed. *)
NextWithout(a, i) == Link(a.next, a.prev[i], a.next[i])
PrevWithout(a, i) == Link(a.prev, a.next[i], a.prev[i])

MovedToFront(a, i) ==
  IF a.first = i THEN a
  ELSE [a EXCEPT
          !.next = [NextWithout(a, i) EXCEPT ![i] = a.first],
          !.prev = [PrevWithout(a, i) EXCEPT ![i] = None, ![a.first] = i],
          !.first = i,
          !.last = IF @ = i THEN a.prev[i] ELSE @]

MovedToBack(a, i) ==
  IF a.last = i THEN a
  ELSE [a EXCEPT
          !.next = [NextWithout(a, i) EXCEPT ![i] = None, ![a.last] = i],
          !.prev = [PrevWithout(a, i) EXCEPT ![i] = a.last],
          !.last = i,
          !.first = IF @ = i THEN a.next[i] ELSE @]

(* remove_at up to the destructor of the value, and after it. *)
Invalidated(a, i) == [a EXCEPT !.rev[i] = NextRevision(@)]

Unlinked(a, i) ==
  [a EXCEPT
     !.next = [NextWithout(a, i) EXCEPT ![i] = a.free],
     !.prev = [PrevWithout(a, i) EXCEPT ![i] = None],
     !.val[i] = NoValue,
     !.free = i,
     !.used = @ - 1,
     !.first = IF @ = i THEN a.next[i] ELSE @,
     !.last = IF @ = i THEN a.prev[i] ELSE @]

(* The slots that one comes to from a slot along next, at most n. *)
Chain(next, start, n) ==
  LET at[k \in 1..n] ==
        IF k = 1 THEN start
        ELSE IF at[k - 1] = None THEN None ELSE next[at[k - 1]]
  IN [k \in {m \in 1..n : at[m] # None} |-> at[k]]

UsedChain(a) == Chain(a.next, a.first, Len(a.val) + 1)
FreeChain(a) == Chain(a.next, a.free, Len(a.val) + 1)

(* clear: the used slots go to the free list one after the other. *)
Cleared(a) ==
  LET u == UsedChain(a)
      n == Len(u)
      in(i) == \E k \in 1..n : u[k] = i
      at(i) == CHOOSE k \in 1..n : u[k] = i
  IN [a EXCEPT
        !.next = [i \in 1..Len(a.val) |->
                    IF ~in(i) THEN a.next[i]
                    ELSE IF at(i) = 1 THEN a.free ELSE u[at(i) - 1]],
        !.prev = [i \in 1..Len(a.val) |-> None],
        !.rev = [i \in 1..Len(a.val) |->
                   IF in(i) THEN NextRevision(a.rev[i]) ELSE a.rev[i]],
        !.val = [i \in 1..Len(a.val) |->
                   IF in(i) THEN NoValue ELSE a.val[i]],
        !.free = IF n = 0 THEN @ ELSE u[n],
        !.first = None, !.last = None, !.used = 0]

(* is_consistent() *)
Consistent(a) ==
  LET u == UsedChain(a)
      f == FreeChain(a)
  IN /\ Len(u) = a.used
     /\ Len(f) = Len(a.val) - a.used
     /\ \A k \in 1..Len(u) :
          a.prev[u[k]] = IF k = 1 THEN None ELSE u[k - 1]
     /\ a.last = IF a.used = 0 THEN None ELSE u[a.used]
     /\ \A i \in 1..Len(a.val) :
          (a.val[i] = NoValue) <=> (\E k \in 1..Len(f) : f[k] = i)
=============================================================================
