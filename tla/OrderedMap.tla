----------------------------- MODULE OrderedMap -----------------------------
(***************************************************************************)
(* What SArray promises: values in an order that its operations define,    *)
(* each known by a handle that names this value and never another one.     *)
(***************************************************************************)
EXTENDS Naturals, Sequences

CONSTANT Values

VARIABLES
  list,  \* the values that are there, in order
  held   \* those that somebody still has a handle of

Without(k) == SubSeq(list, 1, k - 1) \o SubSeq(list, k + 1, Len(list))

(* A value is put before another one, or at the end. *)
Put(v) ==
  /\ v \notin held
  /\ held' = held \cup {v}
  /\ \E k \in 1..(Len(list) + 1) :
       list' = SubSeq(list, 1, k - 1) \o <<v>> \o SubSeq(list, k, Len(list))
  /\ \A j \in 1..Len(list) : list[j] # v

Remove(k) == list' = Without(k)
ToFront(k) == list' = <<list[k]>> \o Without(k)
ToBack(k) == list' = Append(Without(k), list[k])
Clear == list' = <<>>

Change ==
  /\ UNCHANGED held
  /\ \/ \E k \in 1..Len(list) : Remove(k) \/ ToFront(k) \/ ToBack(k)
     \/ Clear

Forget(v) == held' = held \ {v} /\ UNCHANGED list

Next == Change \/ \E v \in Values : Put(v) \/ Forget(v)

Spec == list = <<>> /\ held = {} /\ [][Next]_<<list, held>>
=============================================================================
