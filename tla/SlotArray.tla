------------------------------ MODULE SlotArray ------------------------------
(***************************************************************************)
(* SArray and those that use it by handles: an index and a revision.       *)
(*                                                                         *)
(* remove_at invalidates the revision, destructs the value and then takes  *)
(* the slot out of its list.  The destructor may use the array again       *)
(* ("slot links may be changed during the destructor"): anything may       *)
(* happen between the two halves, other removals included.                 *)
(*                                                                         *)
(* A value stands for one insertion: it is inserted again only when no     *)
(* handle of it is left.  Careless = FALSE is an assumption: nobody keeps  *)
(* a handle for so many uses of its slot that the revision comes back.     *)
(***************************************************************************)
EXTENDS Slots, FiniteSets

CONSTANTS
  Values,
  Careless,
  MaxSlots,  \* bound: the array grows up to this capacity
  MaxDepth   \* bound: removals that are under way

ASSUME SlotArrayAssumption ==
  NoValue \notin Values /\ Careless \in BOOLEAN
  /\ MaxSlots \in Nat /\ MaxDepth \in Nat

VARIABLES
  a,         \* the array
  handles,   \* the handles that somebody has
  removing   \* slots whose values are being destructed, the last one on top

vars == <<a, handles, removing>>

Handle == [id : Values, index : Nat \ {0}, revision : 1..Mask]
BeingRemoved(i) == \E k \in 1..Len(removing) : removing[k] = i
Valid(h) == IsValidIndex(a, h.index, h.revision)

SlotArrayTypeOK ==
  /\ IsSlots(a, Values)
  /\ handles \in SUBSET Handle
  /\ removing \in Seq(1..Len(a.val))

Init == a = Empty /\ handles = {} /\ removing = <<>>

(* Nobody has a handle with the revision that a slot gets. *)
Outlived(i, r) ==
  Careless \/ \A h \in handles : ~(h.index = i /\ h.revision = NextRevision(r))

New(v) ==
  /\ \A i \in 1..Len(a.val) : a.val[i] # v
  /\ \A h \in handles : h.id # v

(* What add and insert do to the handles.  A destructor never makes the     *)
(* array grow: remove_at still has a reference to its slot.                 *)
Take(v) ==
  LET g == Grown(a, 1)
      i == g.free
  IN /\ Len(g.val) <= MaxSlots
     /\ removing # <<>> => g = a
     /\ Outlived(i, g.rev[i])
     /\ handles' = handles \cup
          {[id |-> v, index |-> i, revision |-> NextRevision(g.rev[i])]}

Add(v) ==
  /\ New(v) /\ Take(v)
  /\ a' = Added(a, v)
  /\ UNCHANGED removing

Insert(h, v) ==
  /\ Valid(h) /\ New(v) /\ Take(v)
  /\ a' = Inserted(a, h.index, v)
  /\ UNCHANGED removing

MoveToFront(h) ==
  /\ Valid(h)
  /\ a' = MovedToFront(a, h.index)
  /\ UNCHANGED <<handles, removing>>

MoveToBack(h) ==
  /\ Valid(h)
  /\ a' = MovedToBack(a, h.index)
  /\ UNCHANGED <<handles, removing>>

(* Mutant: the revision is counted up after the destructor. *)
DestructValid(i) ==
  /\ Len(removing) < MaxDepth
  /\ Outlived(i, a.rev[i])
  /\ a' = a
  /\ removing' = Append(removing, i)
  /\ UNCHANGED handles

(* remove_at of a slot up to the destructor. *)
Destruct(i) ==
  /\ Len(removing) < MaxDepth
  /\ Outlived(i, a.rev[i])
  /\ a' = Invalidated(a, i)
  /\ removing' = Append(removing, i)
  /\ UNCHANGED handles

(* remove_at does nothing with a handle that is not valid. *)
RemoveAt(h) == Valid(h) /\ Destruct(h.index)

(* remove_first, remove_last and pop take the present revision of the slot   *)
(* at an end.  Assumption, which the code does not check: no destructor      *)
(* calls them while the value at that end is the one under destruction; it   *)
(* would be destructed a second time and its slot be unlinked twice.         *)
RemoveEnd(i) == i # None /\ ~BeingRemoved(i) /\ Destruct(i)

(* The rest of remove_at. *)
EndRemove ==
  /\ removing # <<>>
  /\ a' = Unlinked(a, removing[Len(removing)])
  /\ removing' = SubSeq(removing, 1, Len(removing) - 1)
  /\ UNCHANGED handles

(* clear, with values whose destructors leave the array alone. *)
Clear ==
  /\ removing = <<>>
  /\ \A i \in 1..Len(a.val) : a.val[i] # NoValue => Outlived(i, a.rev[i])
  /\ a' = Cleared(a)
  /\ UNCHANGED <<handles, removing>>

(* A handle is forgotten. *)
Drop(h) == handles' = handles \ {h} /\ UNCHANGED <<a, removing>>

Next ==
  \/ \E v \in Values : Add(v)
  \/ \E h \in handles :
       \/ \E v \in Values : Insert(h, v)
       \/ MoveToFront(h) \/ MoveToBack(h) \/ RemoveAt(h) \/ Drop(h)
  \/ \E i \in {a.first, a.last} : RemoveEnd(i)
  \/ EndRemove
  \/ Clear

Spec == Init /\ [][Next]_vars

----------------------------------------------------------------------------
(***************************************************************************)
(* The two lists partition the slots, agree in both directions and have    *)
(* the counted lengths, also while destructors run: every jsb_check of     *)
(* is_consistent() holds after every operation.                            *)
(***************************************************************************)
ListsConsistent == Consistent(a)

(***************************************************************************)
(* A handle is valid exactly as long as its value is there and not being   *)
(* destructed, and it finds this value, whatever else used the slot before *)
(* and after: as long as no handle outlives its revision (Outlived).       *)
(***************************************************************************)
HandlesFindTheirs ==
  \A h \in handles :
    /\ Valid(h) => a.val[h.index] = h.id
    /\ Valid(h) <=> (\E i \in 1..Len(a.val) :
                       a.val[i] = h.id /\ ~BeingRemoved(i))

(***************************************************************************)
(* is_valid_index asserts that the slot of a valid index has a value.      *)
(***************************************************************************)
ValidHasValue == \A h \in handles : Valid(h) => a.val[h.index] # NoValue

(* The values that are there, in the order of the list.  What is destructed *)
(* is not in it any more.                                                   *)
Present ==
  LET u == UsedChain(a)
      upto[k \in 0..Len(u)] ==
        IF k = 0 THEN <<>>
        ELSE IF BeingRemoved(u[k]) THEN upto[k - 1]
        ELSE Append(upto[k - 1], a.val[u[k]])
  IN upto[Len(u)]

Map == INSTANCE OrderedMap WITH
         list <- Present, held <- {h.id : h \in handles}

(***************************************************************************)
(* The array implements the ordered map: every operation does to the order *)
(* what it promises and nothing else, also in the middle of removals, and  *)
(* the second half of a removal changes nothing that a user could see.     *)
(***************************************************************************)
ImplementsOrderedMap == Map!Spec
=============================================================================
