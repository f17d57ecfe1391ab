-------------------------- MODULE TimerWheelProofs --------------------------
(***************************************************************************)
(* Proofs about module TimerWheel, for any timers, delays, times between   *)
(* updates, resolution, and number and size of wheels: the types, and that *)
(* no timer is lost or run twice by the wheels; that the wheels implement  *)
(* the abstract timers of module DueTimers; and in which order timeouts of *)
(* the same delay are run.                                                 *)
(***************************************************************************)
EXTENDS TimerWheel, SequenceTheorems, WellFoundedInduction, TLAPS

(* A timer waits or is set only after it was set. *)
WasSet(t) == \E k \in 1..Len(order) : order[k] = t

Known ==
  /\ \A p \in Places : \A i \in 1..Len(Waiting(p)) : WasSet(Waiting(p)[i])
  /\ \A t \in DOMAIN timers : WasSet(t)

(* Where invoke_timers is. *)
Invoking ==
  /\ phase \in {"idle", "tick"} => at = 0
  /\ phase = "idle" => activated = <<>>
  /\ phase = "callback" => at < Len(activated)

WheelInv == WheelTypeOK /\ EachOnce /\ Known /\ Invoking

-----------------------------------------------------------------------------
(***************************************************************************)
(* Iteration.  A recursive function on 0..n whose steps lead from one set  *)
(* into the next is defined and stays in these sets.                       *)
(***************************************************************************)

(* Induction over the natural numbers, as a fact about sets of them. *)
LEMMA LeastOf ==
  ASSUME NEW S, S \subseteq Nat, S # {}
  PROVE  \E x \in S : \A y \in S : x <= y
<1>1. PICK x \in S : \A y \in S : ~(<<y, x>> \in OpToRel(<, Nat))
  BY NatLessThanWellFounded, WFMin
<1>2. \A y \in S : ~(y < x)
  BY <1>1 DEF OpToRel
<1> QED BY <1>2

Keeps(g, n, S) ==
  g[0] \in S[0] /\ \A k \in 1..n : g[k - 1] \in S[k - 1] => g[k] \in S[k]

LEMMA StaysIn ==
  ASSUME NEW n \in Nat, NEW S, NEW g, Keeps(g, n, S)
  PROVE  \A k \in 0..n : g[k] \in S[k]
<1> DEFINE Off == {k \in 0..n : g[k] \notin S[k]}
<1> SUFFICES ASSUME Off # {} PROVE FALSE
  OBVIOUS
<1>1. Off \subseteq Nat
  OBVIOUS
<1>2. PICK k \in Off : \A m \in Off : k <= m
  <2> HIDE DEF Off
  <2> QED BY <1>1, LeastOf
<1>3. k \in 1..n /\ g[k] \notin S[k]
  BY DEF Keeps
<1>4. k - 1 \in 0..n /\ ~(k <= k - 1)
  BY <1>3
<1>5. g[k - 1] \in S[k - 1]
  BY <1>2, <1>4
<1> QED BY <1>3, <1>5 DEF Keeps

Leads(n, S, b, step) ==
  b \in S[0] /\ \A k \in 1..n : \A y \in S[k - 1] : step[k][y] \in S[k]

Runs(f, n, S, b, step) ==
  /\ f[0] = b /\ \A k \in 1..n : f[k] = step[k][f[k - 1]]
  /\ \A k \in 0..n : f[k] \in S[k]

LEMMA IsDefined ==
  ASSUME NEW n \in Nat, NEW S, NEW b, NEW step, Leads(n, S, b, step)
  PROVE  \E f : Runs(f, n, S, b, step)
<1> DEFINE Upto(f, m) ==
             f = [k \in 0..m |-> IF k = 0 THEN b ELSE step[k][f[k - 1]]]
           Off == {m \in 0..n : ~\E f : Upto(f, m)}
<1> SUFFICES ASSUME Off # {} PROVE FALSE
  <2>1. n \notin Off
    OBVIOUS
  <2>2. PICK f : Upto(f, n)
    BY <2>1
  <2>3. f[0] = b /\ \A k \in 1..n : f[k] = step[k][f[k - 1]]
    <3>1. /\ 0 \in 0..n
          /\ \A k \in 1..n : k \in 0..n /\ k # 0
      OBVIOUS
    <3> QED BY <2>2, <3>1
  <2>4. f[0] \in S[0] /\ \A k \in 1..n : f[k - 1] \in S[k - 1] => f[k] \in S[k]
    BY <2>3 DEF Leads
  <2>5. \A k \in 0..n : f[k] \in S[k]
    BY <2>4, StaysIn DEF Keeps
  <2> QED BY <2>3, <2>5 DEF Runs
<1>1. Off \subseteq Nat
  OBVIOUS
<1>2. PICK m \in Off : \A k \in Off : m <= k
  <2> HIDE DEF Off
  <2> QED BY <1>1, LeastOf
<1>3. m \in 0..n /\ ~\E f : Upto(f, m)
  OBVIOUS
<1>4. CASE m = 0
  <2> DEFINE f == [k \in 0..0 |-> b]
  <2>1. f = [k \in 0..0 |-> IF k = 0 THEN b ELSE step[k][f[k - 1]]]
    OBVIOUS
  <2>2. Upto(f, 0)
    BY <2>1
  <2> QED BY <1>3, <1>4, <2>2
<1>5. CASE m # 0
  <2>1. m - 1 \in 0..n /\ m - 1 \notin Off /\ m \in 1..n
    BY <1>2, <1>3, <1>5
  <2>2. PICK g : g = [k \in 0..(m - 1) |->
                        IF k = 0 THEN b ELSE step[k][g[k - 1]]]
    BY <2>1
  <2> DEFINE f == [k \in 0..m |-> IF k = m THEN step[m][g[m - 1]] ELSE g[k]]
  <2>3. ASSUME NEW k \in 0..m
        PROVE  f[k] = IF k = 0 THEN b ELSE step[k][f[k - 1]]
    <3>1. CASE k = m
      <4>1. m - 1 \in 0..m /\ m - 1 # m
        BY <2>1
      <4> QED BY <1>5, <3>1, <4>1
    <3>2. CASE k # m /\ k # 0
      <4>1. k - 1 \in 0..m /\ k - 1 # m /\ k \in 0..(m - 1)
        BY <2>1, <3>2
      <4>2. f[k - 1] = g[k - 1] /\ f[k] = g[k]
        BY <3>2, <4>1
      <4>3. g[k] = step[k][g[k - 1]]
        BY <2>2, <3>2, <4>1
      <4> QED BY <3>2, <4>2, <4>3
    <3>3. CASE k # m /\ k = 0
      <4>1. k \in 0..(m - 1)
        BY <2>1, <3>3
      <4>2. f[k] = g[k] /\ g[k] = b
        BY <2>2, <3>3, <4>1
      <4> QED BY <3>3, <4>2
    <3> QED BY <3>1, <3>2, <3>3
  <2>4. f = [k \in 0..m |-> f[k]]
    OBVIOUS
  <2> HIDE DEF f
  <2>5. Upto(f, m)
    BY <2>3, <2>4
  <2> QED BY <1>3, <2>5
<1> QED BY <1>4, <1>5

-----------------------------------------------------------------------------
(***************************************************************************)
(* The wheels: their intervals, and where a timer is put.                  *)
(***************************************************************************)
LEMMA Product ==
  ASSUME NEW x \in Nat \ {0}, NEW y \in Nat \ {0}
  PROVE  x * y \in Nat \ {0}
OBVIOUS

LEMMA IntervalDefined ==
  Interval = [w \in Wheels |->
                IF w = 1 THEN Jiffies ELSE Interval[w - 1] * SlotNum]
<1> DEFINE n == WheelNum - 1
           step == [k \in 1..n |-> [y \in Nat \ {0} |-> y * SlotNum]]
           S == [k \in 0..n |-> Nat \ {0}]
           Next1(f) == [w \in Wheels |->
                          IF w = 1 THEN Jiffies ELSE f[w - 1] * SlotNum]
<1>1. /\ n \in Nat /\ WheelNum \in Nat \ {0}
      /\ SlotNum \in Nat \ {0} /\ Jiffies \in Nat \ {0}
  BY WheelAssumption
<1>2. \A k \in 1..n : \A y \in S[k - 1] : step[k][y] \in S[k]
  <2> SUFFICES ASSUME NEW k \in 1..n, NEW y \in S[k - 1]
               PROVE  step[k][y] \in S[k]
    OBVIOUS
  <2>1. k \in 0..n /\ k - 1 \in 0..n
    BY <1>1
  <2>2. y * SlotNum \in Nat \ {0}
    BY <1>1, <2>1, Product
  <2> QED BY <2>1, <2>2
<1>3. PICK f : Runs(f, n, S, Jiffies, step)
  <2>1. n \in Nat
    BY <1>1
  <2>2. Jiffies \in S[0]
    BY <1>1
  <2> HIDE DEF n, step, S
  <2>3. Leads(n, S, Jiffies, step)
    BY <1>2, <2>2 DEF Leads
  <2> QED BY ONLY <2>1, <2>3, IsDefined
<1>4. /\ f[0] = Jiffies /\ \A k \in 1..n : f[k] = step[k][f[k - 1]]
      /\ \A k \in 0..n : f[k] \in Nat \ {0}
  BY <1>3 DEF Runs
<1> DEFINE g == [w \in Wheels |-> f[w - 1]]
<1>5. g = Next1(g)
  <2> SUFFICES ASSUME NEW w \in Wheels
               PROVE  f[w - 1] = IF w = 1 THEN Jiffies ELSE g[w - 1] * SlotNum
    OBVIOUS
  <2>1. CASE w = 1
    BY <1>1, <1>4, <2>1
  <2>2. CASE w # 1
    <3>1. /\ w - 1 \in 1..n /\ w - 1 \in 0..n /\ w - 1 # 0 /\ w - 1 \in Wheels
          /\ (w - 1) - 1 \in 0..n
      BY <1>1, <2>2 DEF Wheels
    <3>2. f[w - 1] = step[w - 1][f[(w - 1) - 1]]
      BY <1>4, <3>1
    <3>3. f[(w - 1) - 1] \in Nat \ {0}
      BY <1>4, <3>1
    <3> QED BY <2>2, <3>1, <3>2, <3>3
  <2> QED BY <2>1, <2>2
<1>6. Interval = CHOOSE h : h = Next1(h)
  BY DEF Interval
<1> HIDE DEF g, Next1
<1>7. Interval = Next1(Interval)
  BY <1>5, <1>6
<1> QED BY <1>7 DEF Next1

LEMMA IntervalType == \A w \in Wheels : Interval[w] \in Nat \ {0}
<1> DEFINE n == WheelNum - 1
           S == [k \in 0..n |-> Nat \ {0}]
           g == [k \in 0..n |-> Interval[k + 1]]
<1>1. /\ n \in Nat /\ WheelNum \in Nat \ {0}
      /\ SlotNum \in Nat \ {0} /\ Jiffies \in Nat \ {0}
  BY WheelAssumption
<1>2. g[0] \in S[0]
  <2>1. 1 \in Wheels /\ 0 \in 0..n
    BY <1>1 DEF Wheels
  <2>2. Interval[1] = Jiffies
    BY <2>1, IntervalDefined
  <2> QED BY <1>1, <2>1, <2>2
<1>3. \A k \in 1..n : g[k - 1] \in S[k - 1] => g[k] \in S[k]
  <2> SUFFICES ASSUME NEW k \in 1..n, g[k - 1] \in S[k - 1]
               PROVE  g[k] \in S[k]
    OBVIOUS
  <2>1. /\ k + 1 \in Wheels /\ k + 1 # 1 /\ (k + 1) - 1 = k /\ (k - 1) + 1 = k
        /\ k \in 0..n /\ k - 1 \in 0..n
    BY <1>1 DEF Wheels
  <2>2. Interval[k + 1] = Interval[(k + 1) - 1] * SlotNum
    BY <2>1, IntervalDefined
  <2>3. Interval[k] \in Nat \ {0}
    BY <2>1
  <2>4. Interval[k] * SlotNum \in Nat \ {0}
    BY <1>1, <2>3, Product
  <2> QED BY <2>1, <2>2, <2>4
<1>4. \A k \in 0..n : g[k] \in S[k]
  <2> HIDE DEF n, S, g
  <2> QED BY <1>1, <1>2, <1>3, StaysIn DEF Keeps
<1> SUFFICES ASSUME NEW w \in Wheels PROVE Interval[w] \in Nat \ {0}
  OBVIOUS
<1>5. w - 1 \in 0..n /\ (w - 1) + 1 = w
  BY <1>1 DEF Wheels
<1> QED BY <1>4, <1>5

-----------------------------------------------------------------------------
(***************************************************************************)
(* Bins: the places where timers wait, and one for those that tick() takes *)
(* from a slot to place them anew.  Every timer is in one bin at most, and *)
(* once there.                                                             *)
(***************************************************************************)
Moving == <<0, 1>>
Bins == Places \cup {Moving}

At(Q, p, i, t) == p \in Bins /\ i \in 1..Len(Q[p]) /\ Q[p][i] = t
Has(Q, t) == \E p, i : At(Q, p, i, t)
Once(Q) == \A p, q, i, j, t : At(Q, p, i, t) /\ At(Q, q, j, t) => p = q /\ i = j

With(Q, p, s) == [Q EXCEPT ![p] = s]
Appended(Q, p, t) == With(Q, p, Append(Q[p], t))
Popped(Q, p) == With(Q, p, Tail(Q[p]))
Moved(Q, p, q) == With(With(Q, q, Q[q] \o Q[p]), p, <<>>)

LEMMA AppendedAt ==
  ASSUME NEW Q \in [Bins -> Seq(Timers)], NEW p \in Bins, NEW t \in Timers,
         NEW R, R = Appended(Q, p, t)
  PROVE  /\ R \in [Bins -> Seq(Timers)]
         /\ \A q, i, u : At(R, q, i, u) <=>
              At(Q, q, i, u) \/ (q = p /\ i = Len(Q[p]) + 1 /\ u = t)
<1>1. Q[p] \in Seq(Timers) /\ Len(Q[p]) \in Nat
  OBVIOUS
<1>2. /\ Append(Q[p], t) \in Seq(Timers)
      /\ Len(Append(Q[p], t)) = Len(Q[p]) + 1
      /\ \A i \in 1..Len(Q[p]) : Append(Q[p], t)[i] = Q[p][i]
      /\ Append(Q[p], t)[Len(Q[p]) + 1] = t
  BY <1>1, AppendProperties
<1>3. R \in [Bins -> Seq(Timers)] /\ R[p] = Append(Q[p], t)
      /\ \A q \in Bins \ {p} : R[q] = Q[q]
  BY <1>2 DEF Appended, With
<1>4. ASSUME NEW q, NEW i, NEW u, At(R, q, i, u)
      PROVE  At(Q, q, i, u) \/ (q = p /\ i = Len(Q[p]) + 1 /\ u = t)
  <2>1. CASE q = p
    <3>1. i \in 1..Len(Q[p]) \/ i = Len(Q[p]) + 1
      BY <1>1, <1>2, <1>3, <1>4, <2>1 DEF At
    <3> QED BY <1>2, <1>3, <1>4, <2>1, <3>1 DEF At
  <2>2. CASE q # p
    BY <1>3, <1>4, <2>2 DEF At
  <2> QED BY <2>1, <2>2
<1>5. ASSUME NEW q, NEW i, NEW u, At(Q, q, i, u) PROVE At(R, q, i, u)
  <2>1. CASE q = p
    <3>1. i \in 1..Len(R[p]) /\ i \in 1..Len(Q[p])
      BY <1>1, <1>2, <1>3, <1>5, <2>1 DEF At
    <3> QED BY <1>2, <1>3, <1>5, <2>1, <3>1 DEF At
  <2>2. CASE q # p
    BY <1>3, <1>5, <2>2 DEF At
  <2> QED BY <2>1, <2>2
<1>6. At(R, p, Len(Q[p]) + 1, t)
  <2>1. Len(Q[p]) + 1 \in 1..Len(R[p])
    BY <1>1, <1>2, <1>3
  <2> QED BY <1>2, <1>3, <2>1 DEF At
<1> QED BY <1>3, <1>4, <1>5, <1>6

LEMMA AppendOnce ==
  ASSUME NEW Q \in [Bins -> Seq(Timers)], Once(Q),
         NEW p \in Bins, NEW t \in Timers, ~Has(Q, t),
         NEW R, R = Appended(Q, p, t)
  PROVE  /\ R \in [Bins -> Seq(Timers)] /\ Once(R)
         /\ \A u : Has(R, u) <=> Has(Q, u) \/ u = t
<1> DEFINE n == Len(Q[p]) + 1
<1>1. /\ R \in [Bins -> Seq(Timers)]
      /\ \A q, i, u : At(R, q, i, u) <=>
           At(Q, q, i, u) \/ (q = p /\ i = n /\ u = t)
  BY AppendedAt
<1> HIDE DEF n
<1>2. Once(R)
  BY <1>1 DEF Once, Has
<1>3. \A u : Has(R, u) <=> Has(Q, u) \/ u = t
  BY <1>1 DEF Has
<1> QED BY <1>1, <1>2, <1>3

(* Where what is in R was in Q, of which n stood in bin q. *)
From(r, i, p, q, n) == IF r # q THEN r ELSE IF i <= n THEN q ELSE p
Index(r, i, q, n) == IF r = q /\ ~(i <= n) THEN i - n ELSE i

Moves(Q, p, q, R) ==
  /\ R \in [Bins -> Seq(Timers)] /\ R[q] = Q[q] \o Q[p] /\ R[p] = <<>>
  /\ \A r \in Bins \ {p, q} : R[r] = Q[r]

LEMMA MovedIs ==
  ASSUME NEW Q \in [Bins -> Seq(Timers)],
         NEW p \in Bins, NEW q \in Bins, p # q,
         NEW R, R = Moved(Q, p, q)
  PROVE  Moves(Q, p, q, R)
<1> DEFINE c == Q[q] \o Q[p]
           e == <<>>
<1>1. c \in Seq(Timers) /\ e \in Seq(Timers)
      /\ R = [[Q EXCEPT ![q] = c] EXCEPT ![p] = e]
  BY ConcatProperties DEF Moved, With
<1>2. c = Q[q] \o Q[p] /\ e = <<>>
  OBVIOUS
<1> HIDE DEF c, e
<1>3. /\ R \in [Bins -> Seq(Timers)] /\ R[q] = c /\ R[p] = e
      /\ \A r \in Bins \ {p, q} : R[r] = Q[r]
  BY <1>1
<1> QED BY <1>2, <1>3 DEF Moves

LEMMA MovedAt ==
  ASSUME NEW Q \in [Bins -> Seq(Timers)],
         NEW p \in Bins, NEW q \in Bins, p # q,
         NEW R, R = Moved(Q, p, q)
  PROVE  \A r, i, u : At(R, r, i, u) =>
           /\ At(Q, From(r, i, p, q, Len(Q[q])), Index(r, i, q, Len(Q[q])), u)
           /\ i \in Nat /\ r # p
<1> DEFINE n == Len(Q[q])
<1>1. /\ Q[p] \in Seq(Timers) /\ Len(Q[p]) \in Nat
      /\ Q[q] \in Seq(Timers) /\ n \in Nat
  OBVIOUS
<1>2. /\ Len(Q[q] \o Q[p]) = n + Len(Q[p])
      /\ \A i \in 1..(n + Len(Q[p])) :
           (Q[q] \o Q[p])[i] = IF i <= n THEN Q[q][i] ELSE Q[p][i - n]
  BY <1>1, ConcatProperties
<1>3. /\ R[q] = Q[q] \o Q[p] /\ R[p] = <<>> /\ Len(R[p]) = 0
      /\ \A r \in Bins \ {p, q} : R[r] = Q[r]
  <2>1. Len(<<>>) = 0 /\ Moves(Q, p, q, R)
    BY MovedIs
  <2> QED BY <2>1 DEF Moves
<1>4. ASSUME NEW r, NEW i, NEW u, At(R, r, i, u)
      PROVE  At(Q, From(r, i, p, q, n), Index(r, i, q, n), u) /\ i \in Nat /\ r # p
  <2>1. CASE r = p
    BY <1>3, <1>4, <2>1 DEF At, From, Index
  <2>2. CASE r = q
    <3>1. i \in 1..(n + Len(Q[p])) /\ i \in Nat
      BY <1>1, <1>2, <1>3, <1>4, <2>2 DEF At, From, Index
    <3>2. CASE i <= n
      BY <1>1, <1>2, <1>3, <1>4, <2>2, <3>1, <3>2 DEF At, From, Index
    <3>3. CASE ~(i <= n)
      <4>1. i - n \in 1..Len(Q[p])
        BY <1>1, <3>1, <3>3
      <4> QED BY <1>2, <1>3, <1>4, <2>2, <3>1, <3>3, <4>1 DEF At, From, Index
    <3> QED BY <3>2, <3>3
  <2>3. CASE r # p /\ r # q
    BY <1>3, <1>4, <2>3 DEF At, From, Index
  <2> QED BY <2>1, <2>2, <2>3
<1> QED BY <1>4

LEMMA MoveOnce ==
  ASSUME NEW Q \in [Bins -> Seq(Timers)], Once(Q),
         NEW p \in Bins, NEW q \in Bins, p # q,
         NEW R, R = Moved(Q, p, q)
  PROVE  /\ R \in [Bins -> Seq(Timers)] /\ Once(R)
         /\ \A u : Has(R, u) <=> Has(Q, u)
<1>1. /\ R \in [Bins -> Seq(Timers)]
      /\ R[q] = Q[q] \o Q[p] /\ R[p] = <<>>
      /\ \A r \in Bins \ {p, q} : R[r] = Q[r]
  <2>1. Moves(Q, p, q, R)
    BY MovedIs
  <2> QED BY <2>1 DEF Moves
<1>2. \A r, i, u : At(R, r, i, u) =>
        /\ At(Q, From(r, i, p, q, Len(Q[q])), Index(r, i, q, Len(Q[q])), u)
        /\ i \in Nat /\ r # p
  BY MovedAt
<1> DEFINE n == Len(Q[q])
           c == Q[q] \o Q[p]
           F(r, i) == From(r, i, p, q, n)
           G(r, i) == Index(r, i, q, n)
<1>3. /\ Q[p] \in Seq(Timers) /\ Len(Q[p]) \in Nat
      /\ Q[q] \in Seq(Timers) /\ n \in Nat /\ R[q] = c
  BY <1>1
<1>4. /\ c \in Seq(Timers) /\ Len(c) = n + Len(Q[p])
      /\ \A i \in 1..(n + Len(Q[p])) :
           c[i] = IF i <= n THEN Q[q][i] ELSE Q[p][i - n]
  BY <1>3, ConcatProperties
<1> HIDE DEF c
<1>5. ASSUME NEW r, NEW i, NEW u, At(Q, r, i, u) PROVE Has(R, u)
  <2>1. CASE r = p
    <3>1. /\ i + n \in 1..(n + Len(Q[p])) /\ (i + n) - n = i
          /\ i + n <= n => FALSE
      BY <1>3, <1>5, <2>1 DEF At
    <3>2. At(R, q, i + n, u)
      BY <1>3, <1>4, <1>5, <2>1, <3>1 DEF At
    <3> QED BY <3>2 DEF Has
  <2>2. CASE r = q
    <3>1. i \in 1..(n + Len(Q[p])) /\ i <= n
      BY <1>3, <1>5, <2>2 DEF At
    <3>2. At(R, q, i, u)
      BY <1>3, <1>4, <1>5, <2>2, <3>1 DEF At
    <3> QED BY <3>2 DEF Has
  <2>3. CASE r # p /\ r # q
    BY <1>1, <1>5, <2>3 DEF At, Has
  <2> QED BY <2>1, <2>2, <2>3
<1>6. ASSUME NEW r, NEW s, NEW i, NEW j, NEW u, At(R, r, i, u), At(R, s, j, u)
      PROVE  r = s /\ i = j
  <2>1. At(Q, F(r, i), G(r, i), u) /\ i \in Nat /\ r # p
    BY <1>2, <1>6
  <2>2. At(Q, F(s, j), G(s, j), u) /\ j \in Nat /\ s # p
    BY <1>2, <1>6
  <2>3. F(r, i) = F(s, j) /\ G(r, i) = G(s, j)
    <3> HIDE DEF F, G
    <3> QED BY <2>1, <2>2 DEF Once
  <2> QED BY <1>3, <2>1, <2>2, <2>3 DEF From, Index
<1>7. \A u : Has(R, u) <=> Has(Q, u)
  <2> HIDE DEF F, G
  <2> QED BY <1>2, <1>5 DEF Has
<1>8. Once(R)
  BY <1>6 DEF Once
<1> QED BY <1>1, <1>7, <1>8

LEMMA PoppedAt ==
  ASSUME NEW Q \in [Bins -> Seq(Timers)], NEW p \in Bins, Q[p] # <<>>,
         NEW R, R = Popped(Q, p)
  PROVE  /\ R \in [Bins -> Seq(Timers)]
         /\ At(Q, p, 1, Q[p][1]) /\ Q[p][1] \in Timers
         /\ \A q, i, u : At(R, q, i, u) =>
              At(Q, q, IF q = p THEN i + 1 ELSE i, u) /\ i \in Nat \ {0}
<1>1. Q[p] \in Seq(Timers)
  OBVIOUS
<1>2. Len(Q[p]) \in Nat \ {0}
  BY <1>1, LenProperties, EmptySeq
<1>3. /\ Tail(Q[p]) \in Seq(Timers) /\ Len(Tail(Q[p])) = Len(Q[p]) - 1
      /\ \A i \in 1..(Len(Q[p]) - 1) : Tail(Q[p])[i] = Q[p][i + 1]
  BY <1>1, HeadTailProperties
<1>4. R \in [Bins -> Seq(Timers)] /\ R[p] = Tail(Q[p])
      /\ \A q \in Bins \ {p} : R[q] = Q[q]
  BY <1>3 DEF Popped, With
<1>5. At(Q, p, 1, Q[p][1]) /\ Q[p][1] \in Timers
  BY <1>1, <1>2, ElementOfSeq DEF At
<1>6. ASSUME NEW q, NEW i, NEW u, At(R, q, i, u)
      PROVE  At(Q, q, IF q = p THEN i + 1 ELSE i, u) /\ i \in Nat \ {0}
  <2>1. CASE q = p
    <3>1. i \in 1..(Len(Q[p]) - 1) /\ i + 1 \in 1..Len(Q[p]) /\ i \in Nat \ {0}
      BY <1>2, <1>3, <1>4, <1>6, <2>1 DEF At
    <3> QED BY <1>3, <1>4, <1>6, <2>1, <3>1 DEF At
  <2>2. CASE q # p
    BY <1>4, <1>6, <2>2 DEF At
  <2> QED BY <2>1, <2>2
<1> QED BY <1>4, <1>5, <1>6

LEMMA PopOnce ==
  ASSUME NEW Q \in [Bins -> Seq(Timers)], Once(Q),
         NEW p \in Bins, Q[p] # <<>>,
         NEW R, R = Popped(Q, p)
  PROVE  /\ R \in [Bins -> Seq(Timers)] /\ Once(R)
         /\ Q[p][1] \in Timers
         /\ \A u : Has(R, u) <=> Has(Q, u) /\ u # Q[p][1]
<1>1. Q[p] \in Seq(Timers)
  OBVIOUS
<1>2. Len(Q[p]) \in Nat \ {0}
  BY <1>1, LenProperties, EmptySeq
<1>3. /\ Tail(Q[p]) \in Seq(Timers) /\ Len(Tail(Q[p])) = Len(Q[p]) - 1
      /\ \A i \in 1..(Len(Q[p]) - 1) : Tail(Q[p])[i] = Q[p][i + 1]
  BY <1>1, HeadTailProperties
<1>4. R \in [Bins -> Seq(Timers)] /\ R[p] = Tail(Q[p])
      /\ \A q \in Bins \ {p} : R[q] = Q[q]
  BY <1>3 DEF Popped, With
<1>5. At(Q, p, 1, Q[p][1]) /\ Q[p][1] \in Timers
  BY PoppedAt
<1> DEFINE I(q, i) == IF q = p THEN i + 1 ELSE i
<1>6. \A q, i, u : At(R, q, i, u) => At(Q, q, I(q, i), u) /\ i \in Nat \ {0}
  BY PoppedAt
<1>7. ASSUME NEW q, NEW i, NEW u, At(Q, q, i, u), u # Q[p][1] PROVE Has(R, u)
  <2>1. CASE q = p
    <3>1. i # 1
      BY <1>7, <2>1 DEF At
    <3>2. i - 1 \in 1..(Len(Q[p]) - 1) /\ (i - 1) + 1 = i
      BY <1>2, <1>7, <2>1, <3>1 DEF At
    <3>3. At(R, p, i - 1, u)
      BY <1>3, <1>4, <1>7, <2>1, <3>2 DEF At
    <3> QED BY <3>3 DEF Has
  <2>2. CASE q # p
    BY <1>4, <1>7, <2>2 DEF At, Has
  <2> QED BY <2>1, <2>2
<1>8. ASSUME NEW q, NEW i, At(R, q, i, Q[p][1]) PROVE FALSE
  <2>1. At(Q, q, I(q, i), Q[p][1]) /\ i \in Nat \ {0}
    BY <1>6, <1>8
  <2>2. q = p /\ I(q, i) = 1
    <3> HIDE DEF I
    <3> QED BY <1>5, <2>1 DEF Once
  <2> QED BY <2>1, <2>2
<1>9. ASSUME NEW r, NEW s, NEW i, NEW j, NEW u, At(R, r, i, u), At(R, s, j, u)
      PROVE  r = s /\ i = j
  <2>1. At(Q, r, I(r, i), u) /\ i \in Nat
    BY <1>6, <1>9
  <2>2. At(Q, s, I(s, j), u) /\ j \in Nat
    BY <1>6, <1>9
  <2>3. r = s /\ I(r, i) = I(s, j)
    <3> HIDE DEF I
    <3> QED BY <2>1, <2>2 DEF Once
  <2> QED BY <2>1, <2>2, <2>3
<1>10. \A u : Has(R, u) <=> Has(Q, u) /\ u # Q[p][1]
  <2> HIDE DEF I
  <2> QED BY <1>6, <1>7, <1>8 DEF Has
<1>11. Once(R)
  BY <1>9 DEF Once
<1> QED BY <1>4, <1>5, <1>10, <1>11

-----------------------------------------------------------------------------
(***************************************************************************)
(* The bins that the variables, or a state within tick(), make.  A wheel   *)
(* is turning when its index may be past the last slot.                    *)
(***************************************************************************)
Turning == [index : 0..SlotNum, slots : [Slots -> Seq(Timers)]]

Layout(ws, act, mov) ==
  [p \in Bins |-> IF p = Now THEN act
                  ELSE IF p = Moving THEN mov ELSE ws[p[1]].slots[p[2]]]

LEMMA BinsApart ==
  /\ Now \in Bins /\ Moving \in Bins /\ Now # Moving
  /\ \A w \in Wheels, s \in Slots :
       /\ <<w, s>> \in Bins /\ <<w, s>> # Now /\ <<w, s>> # Moving
       /\ <<w, s>>[1] = w /\ <<w, s>>[2] = s
  /\ \A p \in Bins : \/ p = Now \/ p = Moving
                     \/ \E w \in Wheels, s \in Slots : p = <<w, s>>
<1>1. 0 \notin Wheels
  BY WheelAssumption DEF Wheels
<1>2. Now # Moving
  BY DEF Now, Moving
<1>3. \A w \in Wheels, s \in Slots :
        /\ <<w, s>> \in Bins /\ <<w, s>> # Now /\ <<w, s>> # Moving
        /\ <<w, s>>[1] = w /\ <<w, s>>[2] = s
  BY <1>1 DEF Bins, Places, Now, Moving
<1>4. \A p \in Bins : \/ p = Now \/ p = Moving
                      \/ \E w \in Wheels, s \in Slots : p = <<w, s>>
  BY DEF Bins, Places
<1> QED BY <1>2, <1>3, <1>4 DEF Bins, Places

LEMMA LayoutType ==
  ASSUME NEW ws \in [Wheels -> Turning], NEW act \in Seq(Timers),
         NEW mov \in Seq(Timers)
  PROVE  /\ Layout(ws, act, mov) \in [Bins -> Seq(Timers)]
         /\ Layout(ws, act, mov)[Now] = act
         /\ Layout(ws, act, mov)[Moving] = mov
         /\ \A w \in Wheels, s \in Slots :
              Layout(ws, act, mov)[<<w, s>>] = ws[w].slots[s]
<1> DEFINE L == Layout(ws, act, mov)
<1>1. L[Now] = act /\ L[Moving] = mov
      /\ \A w \in Wheels, s \in Slots : L[<<w, s>>] = ws[w].slots[s]
  BY BinsApart DEF Layout
<1>2. \A w \in Wheels, s \in Slots : ws[w].slots[s] \in Seq(Timers)
  BY DEF Turning
<1>3. ASSUME NEW p \in Bins PROVE L[p] \in Seq(Timers)
  <2> HIDE DEF L
  <2>1. CASE p = Now \/ p = Moving
    BY <1>1, <2>1
  <2>2. CASE \E w \in Wheels, s \in Slots : p = <<w, s>>
    <3>1. PICK w \in Wheels, s \in Slots : p = <<w, s>>
      BY <2>2
    <3>2. L[<<w, s>>] \in Seq(Timers)
      BY <1>1, <1>2
    <3> QED BY <3>1, <3>2
  <2> QED BY <2>1, <2>2, BinsApart
<1>4. L = [p \in Bins |-> L[p]]
  BY DEF Layout
<1> HIDE DEF L
<1>5. L \in [Bins -> Seq(Timers)]
  BY <1>3, <1>4
<1> QED BY <1>1, <1>5 DEF L

(* A wheel with another index and another list of timers in a slot. *)
Slotted(ws, w, i, s, q) ==
  [ws EXCEPT ![w] = [index |-> i, slots |-> [ws[w].slots EXCEPT ![s] = q]]]

LEMMA SlottedLayout ==
  ASSUME NEW ws \in [Wheels -> Turning], NEW act \in Seq(Timers),
         NEW mov \in Seq(Timers), NEW w \in Wheels, NEW s \in Slots,
         NEW i, i \in 0..SlotNum, NEW q \in Seq(Timers)
  PROVE  /\ Slotted(ws, w, i, s, q) \in [Wheels -> Turning]
         /\ Slotted(ws, w, i, s, q)[w].index = i
         /\ \A v \in Wheels \ {w} : Slotted(ws, w, i, s, q)[v] = ws[v]
         /\ Layout(Slotted(ws, w, i, s, q), act, mov) =
              With(Layout(ws, act, mov), <<w, s>>, q)
<1> DEFINE r == Slotted(ws, w, i, s, q)
           new == [index |-> i, slots |-> [ws[w].slots EXCEPT ![s] = q]]
<1>1. ws[w] \in Turning /\ ws[w].slots \in [Slots -> Seq(Timers)]
  BY DEF Turning
<1>2. [ws[w].slots EXCEPT ![s] = q] \in [Slots -> Seq(Timers)]
  BY <1>1
<1>3. new \in Turning /\ new.index = i
      /\ new.slots = [ws[w].slots EXCEPT ![s] = q]
  BY <1>2 DEF Turning
<1>4. r = [ws EXCEPT ![w] = new]
  BY DEF Slotted
<1> HIDE DEF r, new
<1>5. r \in [Wheels -> Turning] /\ r[w] = new
      /\ \A v \in Wheels \ {w} : r[v] = ws[v]
  BY <1>3, <1>4
<1>6. \A v \in Wheels, z \in Slots :
        r[v].slots[z] = IF v = w /\ z = s THEN q ELSE ws[v].slots[z]
  BY <1>1, <1>3, <1>5
<1> DEFINE L == Layout(ws, act, mov)
           M == Layout(r, act, mov)
<1>7. /\ L \in [Bins -> Seq(Timers)] /\ M \in [Bins -> Seq(Timers)]
      /\ L[Now] = act /\ L[Moving] = mov /\ M[Now] = act /\ M[Moving] = mov
      /\ \A v \in Wheels, z \in Slots :
           L[<<v, z>>] = ws[v].slots[z] /\ M[<<v, z>>] = r[v].slots[z]
  <2>1. /\ L \in [Bins -> Seq(Timers)] /\ L[Now] = act /\ L[Moving] = mov
        /\ \A v \in Wheels, z \in Slots : L[<<v, z>>] = ws[v].slots[z]
    BY LayoutType
  <2>2. /\ M \in [Bins -> Seq(Timers)] /\ M[Now] = act /\ M[Moving] = mov
        /\ \A v \in Wheels, z \in Slots : M[<<v, z>>] = r[v].slots[z]
    BY <1>5, LayoutType
  <2> QED BY <2>1, <2>2
<1> HIDE DEF L, M
<1>8. ASSUME NEW p \in Bins PROVE M[p] = [L EXCEPT ![<<w, s>>] = q][p]
  <2>1. CASE p = Now \/ p = Moving
    BY <1>7, <2>1, BinsApart
  <2>2. CASE \E v \in Wheels, z \in Slots : p = <<v, z>>
    <3>1. PICK v \in Wheels, z \in Slots : p = <<v, z>>
      BY <2>2
    <3>2. (<<v, z>> = <<w, s>>) <=> (v = w /\ z = s)
      OBVIOUS
    <3>3. L[<<v, z>>] = ws[v].slots[z] /\ M[<<v, z>>] = r[v].slots[z]
      BY <1>7
    <3>4. r[v].slots[z] = IF v = w /\ z = s THEN q ELSE ws[v].slots[z]
      BY <1>6
    <3>5. [L EXCEPT ![<<w, s>>] = q][p] = IF p = <<w, s>> THEN q ELSE L[p]
      BY <1>7
    <3> QED BY <3>1, <3>2, <3>3, <3>4, <3>5
  <2> QED BY <2>1, <2>2, BinsApart
<1>9. M = [L EXCEPT ![<<w, s>>] = q]
  BY <1>7, <1>8
<1> QED BY <1>3, <1>5, <1>9 DEF r, L, M, With

LEMMA LayoutNow ==
  ASSUME NEW ws, NEW act, NEW mov, NEW act2
  PROVE  Layout(ws, act2, mov) = With(Layout(ws, act, mov), Now, act2)
<1>1. Now # Moving /\ Now \in Bins
  BY BinsApart
<1> QED BY <1>1 DEF Layout, With

LEMMA LayoutMoving ==
  ASSUME NEW ws, NEW act, NEW mov, NEW mov2
  PROVE  Layout(ws, act, mov2) = With(Layout(ws, act, mov), Moving, mov2)
<1>1. Now # Moving /\ Moving \in Bins
  BY BinsApart
<1> QED BY <1>1 DEF Layout, With

(* Division and remainder of natural numbers. *)
LEMMA Division ==
  ASSUME NEW x \in Nat, NEW y \in Nat \ {0}
  PROVE  /\ x % y \in 0..(y - 1)
         /\ x \div y \in Nat
         /\ x >= y => (x \div y) - 1 \in Nat
OBVIOUS

LEMMA WheelForType ==
  ASSUME NEW delay \in Nat
  PROVE  WheelFor(delay) \in Wheels
<1> DEFINE Fits(w) == delay < Interval[w] * SlotNum
           S == {w \in Wheels : Fits(w)}
<1>1. WheelNum \in Wheels /\ Wheels \subseteq Nat
  BY WheelAssumption DEF Wheels
<1>2. CASE S = {}
  BY <1>1, <1>2 DEF WheelFor
<1>3. CASE S # {}
  <2>1. PICK w \in S : \A v \in S : w <= v
    <3>1. S \subseteq Nat
      BY <1>1
    <3> HIDE DEF S
    <3> QED BY <1>3, <3>1, LeastOf
  <2>2. \A v \in 1..w - 1 : delay >= Interval[v] * SlotNum
    <3> SUFFICES ASSUME NEW v \in 1..w - 1
                 PROVE  delay >= Interval[v] * SlotNum
      OBVIOUS
    <3>1. v \in Wheels /\ ~(w <= v)
      BY WheelAssumption DEF Wheels
    <3>2. ~(delay < Interval[v] * SlotNum)
      BY <2>1, <3>1
    <3>3. Interval[v] * SlotNum \in Nat
      BY <3>1, IntervalType, Product, WheelAssumption
    <3> QED BY <3>2, <3>3
  <2>3. \E u \in Wheels : /\ delay < Interval[u] * SlotNum
                          /\ \A v \in 1..u - 1 : delay >= Interval[v] * SlotNum
    BY <2>2
  <2>4. \E u \in Wheels : delay < Interval[u] * SlotNum
    BY <2>3
  <2> QED BY <2>3, <2>4 DEF WheelFor
<1> QED BY <1>2, <1>3

LEMMA RearrangeSlots ==
  ASSUME NEW ws \in [Wheels -> Turning], NEW t \in Timers, NEW delay \in Nat
  PROVE  LET w == WheelFor(delay)
             s == (ws[w].index + Offset(w, delay)) % SlotNum
         IN  /\ w \in Wheels /\ s \in Slots
             /\ Rearrange(ws, t, delay) =
                  Slotted(ws, w, ws[w].index, s, Append(ws[w].slots[s], t))
<1> DEFINE w == WheelFor(delay)
           s == (ws[w].index + Offset(w, delay)) % SlotNum
<1>1. w \in Wheels
  BY WheelForType
<1> HIDE DEF w
<1>2. Offset(w, delay) \in Nat
  <2>1. Interval[w] \in Nat \ {0}
    BY <1>1, IntervalType
  <2> QED BY <2>1, Division DEF Offset
<1>3. /\ ws[w] \in Turning /\ ws[w].index \in Nat
      /\ ws[w] = [index |-> ws[w].index, slots |-> ws[w].slots]
      /\ ws[w].slots \in [Slots -> Seq(Timers)]
  BY <1>1, WheelAssumption DEF Turning
<1>4. s \in Slots
  <2>1. ws[w].index + Offset(w, delay) \in Nat
    BY <1>2, <1>3
  <2> QED BY <2>1, Division, WheelAssumption DEF Slots
<1>5. Rearrange(ws, t, delay) = [ws EXCEPT ![w].slots[s] = Append(@, t)]
  BY DEF Rearrange, w
<1> HIDE DEF s
<1>6. [ws EXCEPT ![w].slots[s] = Append(@, t)] =
        Slotted(ws, w, ws[w].index, s, Append(ws[w].slots[s], t))
  <2> DEFINE z == [ws[w].slots EXCEPT ![s] = Append(ws[w].slots[s], t)]
  <2>1. [ws EXCEPT ![w].slots[s] = Append(@, t)] =
          [ws EXCEPT ![w] = [ws[w] EXCEPT !.slots = z]]
    OBVIOUS
  <2> HIDE DEF z
  <2>2. [ws[w] EXCEPT !.slots = z] = [index |-> ws[w].index, slots |-> z]
    <3>1. \A a, b : [[index |-> a, slots |-> b] EXCEPT !.slots = z] =
                      [index |-> a, slots |-> z]
      OBVIOUS
    <3> QED BY <1>3, <3>1
  <2>3. [ws EXCEPT ![w].slots[s] = Append(@, t)] =
          [ws EXCEPT ![w] = [index |-> ws[w].index, slots |-> z]]
    BY <2>1, <2>2
  <2> QED BY <2>3 DEF Slotted, z
<1> QED BY <1>1, <1>4, <1>5, <1>6 DEF s, w

(* The slot in which rearrange_timer puts a timer with some delay. *)
SlotFor(ws, delay) ==
  <<WheelFor(delay),
    (ws[WheelFor(delay)].index + Offset(WheelFor(delay), delay)) % SlotNum>>

LEMMA RearrangeLayout ==
  ASSUME NEW ws \in [Wheels -> Turning], NEW act \in Seq(Timers),
         NEW mov \in Seq(Timers), NEW t \in Timers, NEW delay \in Nat
  PROVE  /\ Rearrange(ws, t, delay) \in [Wheels -> Turning]
         /\ \A v \in Wheels : Rearrange(ws, t, delay)[v].index = ws[v].index
         /\ SlotFor(ws, delay) \in Bins \ {Now, Moving}
         /\ Layout(Rearrange(ws, t, delay), act, mov) =
              Appended(Layout(ws, act, mov), SlotFor(ws, delay), t)
<1> DEFINE w == WheelFor(delay)
           s == (ws[w].index + Offset(w, delay)) % SlotNum
           r == Rearrange(ws, t, delay)
           i == ws[w].index
           q == Append(ws[w].slots[s], t)
           L == Layout(ws, act, mov)
           M == Layout(r, act, mov)
<1>1. w \in Wheels /\ s \in Slots /\ r = Slotted(ws, w, i, s, q)
  BY RearrangeSlots
<1>2. SlotFor(ws, delay) = <<w, s>>
  BY DEF SlotFor
<1> HIDE DEF w, s
<1>3. ws[w] \in Turning /\ i \in 0..SlotNum /\ ws[w].slots[s] \in Seq(Timers)
  BY <1>1 DEF Turning
<1>4. q \in Seq(Timers)
  BY <1>3, AppendProperties
<1>5. L[<<w, s>>] = ws[w].slots[s] /\ <<w, s>> \in Bins \ {Now, Moving}
  BY <1>1, LayoutType, BinsApart
<1>6. q = Append(L[<<w, s>>], t)
  BY <1>5
<1> HIDE DEF r, i, q
<1>7. /\ r \in [Wheels -> Turning] /\ r[w].index = i
      /\ \A v \in Wheels \ {w} : r[v] = ws[v]
      /\ M = With(L, <<w, s>>, q)
  <2>1. /\ ws \in [Wheels -> Turning] /\ act \in Seq(Timers)
        /\ mov \in Seq(Timers) /\ w \in Wheels /\ s \in Slots
        /\ i \in 0..SlotNum /\ q \in Seq(Timers)
    BY <1>1, <1>3, <1>4
  <2>2. /\ Slotted(ws, w, i, s, q) \in [Wheels -> Turning]
        /\ Slotted(ws, w, i, s, q)[w].index = i
        /\ \A v \in Wheels \ {w} : Slotted(ws, w, i, s, q)[v] = ws[v]
        /\ Layout(Slotted(ws, w, i, s, q), act, mov) =
             With(Layout(ws, act, mov), <<w, s>>, q)
    BY ONLY <2>1, SlottedLayout
  <2> QED BY <1>1, <2>2
<1>8. \A v \in Wheels : r[v].index = ws[v].index
  BY <1>7 DEF i
<1> HIDE DEF L, M
<1>9. M = Appended(L, <<w, s>>, t)
  BY <1>6, <1>7 DEF Appended
<1> QED BY <1>2, <1>5, <1>7, <1>8, <1>9 DEF r, L, M

(* rearrange_timer puts a timer that is in no bin into one. *)
LEMMA RearrangeOnce ==
  ASSUME NEW ws \in [Wheels -> Turning], NEW act \in Seq(Timers),
         NEW mov \in Seq(Timers), NEW t \in Timers, NEW delay \in Nat,
         Once(Layout(ws, act, mov)), ~Has(Layout(ws, act, mov), t)
  PROVE  /\ Rearrange(ws, t, delay) \in [Wheels -> Turning]
         /\ \A v \in Wheels : Rearrange(ws, t, delay)[v].index = ws[v].index
         /\ Once(Layout(Rearrange(ws, t, delay), act, mov))
         /\ \A u : Has(Layout(Rearrange(ws, t, delay), act, mov), u) <=>
                     Has(Layout(ws, act, mov), u) \/ u = t
<1> DEFINE b == SlotFor(ws, delay)
           L == Layout(ws, act, mov)
           M == Layout(Rearrange(ws, t, delay), act, mov)
<1>1. /\ Rearrange(ws, t, delay) \in [Wheels -> Turning]
      /\ \A v \in Wheels : Rearrange(ws, t, delay)[v].index = ws[v].index
      /\ b \in Bins /\ M = Appended(L, b, t)
  BY RearrangeLayout
<1>2. L \in [Bins -> Seq(Timers)] /\ Once(L) /\ ~Has(L, t)
  BY LayoutType
<1> HIDE DEF b, L, M
<1>3. Once(M) /\ \A u : Has(M, u) <=> Has(L, u) \/ u = t
  BY <1>1, <1>2, AppendOnce
<1> QED BY <1>1, <1>3 DEF L, M

(***************************************************************************)
(* A state within tick(): every timer that is set is in a bin, and nothing *)
(* is in two or was never set.                                             *)
(***************************************************************************)
State == [elapsed : Nat, wheels : [Wheels -> Turning],
          activated : Seq(Timers), moving : Seq(Timers), carry : BOOLEAN]

AllPlaced(ws, act, mov) ==
  /\ Once(Layout(ws, act, mov))
  /\ \A t \in DOMAIN timers : Has(Layout(ws, act, mov), t)
  /\ \A t : Has(Layout(ws, act, mov), t) => WasSet(t)

(* What the timers that are placed anew leave as it is. *)
Alike(x, y) ==
  /\ y.elapsed = x.elapsed /\ y.moving = x.moving /\ y.carry = x.carry
  /\ \A v \in Wheels : y.wheels[v].index = x.wheels[v].index

(* Where a timer due at some time goes: a slot of a wheel, or it is run. *)
Goal(x, due) ==
  IF due > x.elapsed THEN SlotFor(x.wheels, due - x.elapsed) ELSE Now

(* What was activated stays where it is in the list. *)
Grows(old, new) ==
  Len(old) <= Len(new) /\ \A i \in 1..Len(old) : new[i] = old[i]

LEMMA AppendGrows ==
  ASSUME NEW a \in Seq(Timers), NEW t \in Timers
  PROVE  Append(a, t) \in Seq(Timers) /\ Grows(a, Append(a, t))
<1>1. /\ Append(a, t) \in Seq(Timers) /\ Len(a) \in Nat
      /\ Len(Append(a, t)) = Len(a) + 1
      /\ \A i \in 1..Len(a) : Append(a, t)[i] = a[i]
  BY AppendProperties, LenProperties
<1> QED BY <1>1 DEF Grows

(* The first timer that moves, v, leaves the bin Moving for its goal. *)
GoesOn(x, y, mov, v) ==
  LET Left == Popped(Layout(x.wheels, x.activated, mov), Moving)
      Gone == Layout(y.wheels, y.activated, Tail(mov))
  IN  IF ~Used(v) THEN Gone = Left
      ELSE /\ Goal(x, timers[v].expires) \in Bins \ {Moving}
           /\ Gone = Appended(Left, Goal(x, timers[v].expires), v)

LEMMA PlaceIs ==
  ASSUME WheelTypeOK, NEW x \in State, NEW mov \in Seq(Timers), mov # <<>>
  PROVE  /\ Place(x, mov[1]) \in State /\ Alike(x, Place(x, mov[1]))
         /\ Grows(x.activated, Place(x, mov[1]).activated)
         /\ GoesOn(x, Place(x, mov[1]), mov, mov[1])
<1> DEFINE t == mov[1]
           y == Place(x, t)
           ws == x.wheels
           act == x.activated
           L == Layout(ws, act, mov)
           M == Layout(ws, act, Tail(mov))
<1>1. /\ ws \in [Wheels -> Turning] /\ act \in Seq(Timers) /\ x.elapsed \in Nat
      /\ x = [elapsed |-> x.elapsed, wheels |-> ws, activated |-> act,
              moving |-> x.moving, carry |-> x.carry]
  BY DEF State
<1>2. Tail(mov) \in Seq(Timers) /\ t \in Timers
  <2>1. 1 \in 1..Len(mov)
    BY LenProperties, EmptySeq
  <2> QED BY <2>1, HeadTailProperties, ElementOfSeq
<1>3. Grows(act, act)
  <2>1. Len(act) \in Nat
    BY <1>1, LenProperties
  <2> QED BY <2>1 DEF Grows
<1>4. M = Popped(L, Moving)
  <2>1. L[Moving] = mov
    <3> HIDE DEF ws, act
    <3> QED BY <1>1, LayoutType
  <2>2. M = With(L, Moving, Tail(mov))
    BY LayoutMoving
  <2> HIDE DEF L, M
  <2> QED BY <2>1, <2>2 DEF Popped
<1>5. CASE ~Used(t)
  <2>1. y = x
    BY <1>5 DEF Place
  <2> QED BY <1>3, <1>4, <1>5, <2>1 DEF Alike, GoesOn
<1>6. CASE Used(t) /\ timers[t].expires > x.elapsed
  <2> DEFINE d == timers[t].expires - x.elapsed
             r == Rearrange(ws, t, d)
  <2>1. d \in Nat
    <3>1. timers[t].expires \in Nat
      BY <1>6 DEF Used, WheelTypeOK, TimerData
    <3> QED BY <1>1, <1>6, <3>1
  <2>2. y = [x EXCEPT !.wheels = r] /\ Goal(x, timers[t].expires) = SlotFor(ws, d)
    BY <1>6 DEF Place, Goal
  <2> HIDE DEF d
  <2>3. /\ r \in [Wheels -> Turning]
        /\ \A v \in Wheels : r[v].index = ws[v].index
        /\ SlotFor(ws, d) \in Bins \ {Now, Moving}
        /\ Layout(r, act, Tail(mov)) = Appended(M, SlotFor(ws, d), t)
    <3> DEFINE m == Tail(mov)
    <3>1. /\ ws \in [Wheels -> Turning] /\ act \in Seq(Timers) /\ m \in Seq(Timers)
          /\ t \in Timers /\ d \in Nat
      BY <1>1, <1>2, <2>1
    <3> HIDE DEF ws, act, t, m
    <3>2. /\ Rearrange(ws, t, d) \in [Wheels -> Turning]
          /\ \A v \in Wheels : Rearrange(ws, t, d)[v].index = ws[v].index
          /\ SlotFor(ws, d) \in Bins \ {Now, Moving}
          /\ Layout(Rearrange(ws, t, d), act, m) =
               Appended(Layout(ws, act, m), SlotFor(ws, d), t)
      BY ONLY <3>1, RearrangeLayout
    <3> QED BY <3>2 DEF m
  <2>4. /\ y \in State /\ y.wheels = r /\ y.activated = act
        /\ y.elapsed = x.elapsed /\ y.moving = x.moving /\ y.carry = x.carry
    <3> HIDE DEF r, y
    <3> QED BY <2>2, <2>3 DEF State
  <2> HIDE DEF r, y
  <2>5. Alike(x, y)
    BY <2>3, <2>4 DEF Alike
  <2>6. GoesOn(x, y, mov, t)
    <3> HIDE DEF t
    <3> QED BY <1>4, <1>6, <2>2, <2>3, <2>4 DEF GoesOn
  <2> QED BY <1>3, <2>4, <2>5, <2>6 DEF y
<1>7. CASE Used(t) /\ ~(timers[t].expires > x.elapsed)
  <2> DEFINE a == Append(act, t)
             N == Layout(ws, a, Tail(mov))
  <2>1. y = [x EXCEPT !.activated = a] /\ Goal(x, timers[t].expires) = Now
    BY <1>7 DEF Place, Goal
  <2>2. a \in Seq(Timers) /\ Grows(act, a)
    BY <1>1, <1>2, AppendGrows
  <2>3. M[Now] = act /\ Now \in Bins \ {Moving}
    <3>1. ws \in [Wheels -> Turning] /\ act \in Seq(Timers)
      BY <1>1
    <3> HIDE DEF ws, act
    <3>2. Layout(ws, act, Tail(mov))[Now] = act
      BY ONLY <1>2, <3>1, LayoutType
    <3> QED BY <3>2, BinsApart
  <2>4. N = With(M, Now, a)
    BY LayoutNow
  <2>5. N = Appended(M, Now, t)
    <3> HIDE DEF M, N, act, t
    <3> QED BY <2>3, <2>4 DEF Appended
  <2>6. /\ y \in State /\ y.wheels = ws /\ y.activated = a
        /\ y.elapsed = x.elapsed /\ y.moving = x.moving /\ y.carry = x.carry
    <3> HIDE DEF a, y
    <3> QED BY <2>1, <2>2 DEF State
  <2> HIDE DEF a, y
  <2>7. Alike(x, y)
    BY <2>6 DEF Alike
  <2>8. GoesOn(x, y, mov, t)
    <3> HIDE DEF t
    <3> QED BY <1>4, <1>7, <2>1, <2>3, <2>5, <2>6 DEF GoesOn
  <2> QED BY <2>2, <2>6, <2>7, <2>8 DEF y
<1> HIDE DEF y
<1> QED BY <1>5, <1>6, <1>7 DEF y

LEMMA PlaceSound ==
  ASSUME WheelTypeOK, NEW x \in State, NEW mov \in Seq(Timers), mov # <<>>,
         AllPlaced(x.wheels, x.activated, mov)
  PROVE  /\ Place(x, mov[1]) \in State /\ Alike(x, Place(x, mov[1]))
         /\ AllPlaced(Place(x, mov[1]).wheels, Place(x, mov[1]).activated,
                      Tail(mov))
<1> DEFINE t == mov[1]
           y == Place(x, t)
           L == Layout(x.wheels, x.activated, mov)
           P == Popped(L, Moving)
           M == Layout(y.wheels, y.activated, Tail(mov))
           g == Goal(x, timers[t].expires)
<1>1. y \in State /\ Alike(x, y) /\ GoesOn(x, y, mov, t)
  BY PlaceIs
<1> HIDE DEF y
<1>2. L \in [Bins -> Seq(Timers)] /\ L[Moving] = mov /\ Moving \in Bins
  BY LayoutType, BinsApart DEF State
<1>3. Once(L) /\ (\A u \in DOMAIN timers : Has(L, u))
      /\ \A u : Has(L, u) => WasSet(u)
  BY DEF AllPlaced
<1> HIDE DEF L
<1>4. /\ P \in [Bins -> Seq(Timers)] /\ Once(P) /\ t \in Timers
      /\ \A u : Has(P, u) <=> Has(L, u) /\ u # t
  BY <1>2, <1>3, PopOnce
<1>5. At(L, Moving, 1, t)
  BY <1>2, PoppedAt
<1>6. IF ~Used(t) THEN M = P ELSE g \in Bins /\ M = Appended(P, g, t)
  <2> HIDE DEF t
  <2> QED BY <1>1 DEF GoesOn, L
<1> HIDE DEF t, g, P, M
<1>7. CASE ~Used(t)
  <2>1. t \notin DOMAIN timers
    BY <1>7 DEF Used
  <2>2. Once(M) /\ (\A u \in DOMAIN timers : Has(M, u))
        /\ \A u : Has(M, u) => WasSet(u)
    BY <1>3, <1>4, <1>6, <1>7, <2>1
  <2> QED BY <1>1, <2>2 DEF AllPlaced, M, t, y
<1>8. CASE Used(t)
  <2>1. Once(M) /\ \A u : Has(M, u) <=> Has(P, u) \/ u = t
    BY <1>4, <1>6, <1>8, AppendOnce
  <2>2. Once(M) /\ (\A u \in DOMAIN timers : Has(M, u))
        /\ \A u : Has(M, u) => WasSet(u)
    BY <1>3, <1>4, <1>5, <2>1 DEF Has
  <2> QED BY <1>1, <2>2 DEF AllPlaced, M, t, y
<1> QED BY <1>7, <1>8

-----------------------------------------------------------------------------
(***************************************************************************)
(* tick(): a slot is taken, and all that was in it is placed anew.         *)
(***************************************************************************)
Rest(s, k) == SubSeq(s, k + 1, Len(s))

LEMMA RestProperties ==
  ASSUME NEW T, NEW s \in Seq(T)
  PROVE  /\ Rest(s, 0) = s /\ Rest(s, Len(s)) = <<>>
         /\ \A k \in 0..Len(s) : Rest(s, k) \in Seq(T)
         /\ \A k \in 1..Len(s) : /\ Rest(s, k - 1) # <<>>
                                 /\ Rest(s, k - 1)[1] = s[k]
                                 /\ Tail(Rest(s, k - 1)) = Rest(s, k)
<1>1. Len(s) \in Nat /\ \A k \in 1..Len(s) : s[k] \in T
  BY LenProperties
<1>2. Rest(s, 0) = s
  BY SubSeqFull DEF Rest
<1>3. Rest(s, Len(s)) = <<>>
  <2>1. Len(s) + 1 \in Int /\ Len(s) \in Int /\ Len(s) < Len(s) + 1
    BY <1>1
  <2> QED BY <2>1, SubSeqEmpty DEF Rest
<1>4. ASSUME NEW k \in 0..Len(s)
      PROVE  Rest(s, k) \in Seq(T) /\ Len(Rest(s, k)) = Len(s) - k
  <2>1. k + 1 \in Int /\ Len(s) \in Int /\ \A i \in (k + 1)..Len(s) : s[i] \in T
    BY <1>1
  <2>2. /\ SubSeq(s, k + 1, Len(s)) \in Seq(T)
        /\ Len(SubSeq(s, k + 1, Len(s))) =
             IF k + 1 <= Len(s) THEN Len(s) - (k + 1) + 1 ELSE 0
    BY <2>1, SubSeqProperties
  <2> QED BY <1>1, <2>2 DEF Rest
<1>5. ASSUME NEW k \in 1..Len(s)
      PROVE  /\ Rest(s, k - 1) # <<>> /\ Rest(s, k - 1)[1] = s[k]
             /\ Tail(Rest(s, k - 1)) = Rest(s, k)
  <2>1. k \in 1..Len(s) /\ Len(s) \in k..Len(s) /\ (k - 1) + 1 = k
    BY <1>1
  <2>2. /\ Head(SubSeq(s, k, Len(s))) = s[k]
        /\ Tail(SubSeq(s, k, Len(s))) = SubSeq(s, k + 1, Len(s))
    BY <2>1, HeadTailOfSubSeq
  <2>3. k - 1 \in 0..Len(s)
    BY <1>1
  <2>4. Len(Rest(s, k - 1)) = Len(s) - (k - 1) /\ Rest(s, k - 1) \in Seq(T)
    BY <1>4, <2>3
  <2>5. Rest(s, k - 1) # <<>>
    <3>1. Len(Rest(s, k - 1)) # 0
      BY <1>1, <2>4
    <3> QED BY <2>4, <3>1, EmptySeq
  <2>6. Rest(s, k - 1) = SubSeq(s, k, Len(s))
    BY <2>1 DEF Rest
  <2>7. Head(Rest(s, k - 1)) = Rest(s, k - 1)[1]
    OBVIOUS
  <2> QED BY <2>2, <2>5, <2>6, <2>7 DEF Rest
<1> QED BY <1>2, <1>3, <1>4, <1>5

(* The loops of tick(): what every turn leads from one set into the next.   *)
LEMMA PlaceAllIn ==
  ASSUME NEW x \in State, NEW S, x \in S[0],
         \A k \in 1..Len(x.moving) : \A y \in S[k - 1] :
           Place(y, x.moving[k]) \in S[k]
  PROVE  PlaceAll(x) \in S[Len(x.moving)]
<1> DEFINE m == x.moving
           n == Len(m)
           step == [k \in 1..n |-> [y \in S[k - 1] |-> Place(y, m[k])]]
           Turn(f) == [k \in 0..n |->
                         IF k = 0 THEN x ELSE Place(f[k - 1], m[k])]
           after == CHOOSE f : f = Turn(f)
<1>1. n \in Nat
  BY LenProperties DEF State
<1>2. ASSUME NEW k \in 1..n, NEW y \in S[k - 1]
      PROVE  Place(y, m[k]) \in S[k] /\ step[k][y] = Place(y, m[k])
  OBVIOUS
<1>3. PICK g : Runs(g, n, S, x, step)
  <2> HIDE DEF n, step, m
  <2>1. Leads(n, S, x, step)
    BY <1>2 DEF Leads
  <2> QED BY ONLY <1>1, <2>1, IsDefined
<1>4. /\ g[0] = x /\ \A k \in 1..n : g[k] = step[k][g[k - 1]]
      /\ \A k \in 0..n : g[k] \in S[k]
  <2> HIDE DEF n, step
  <2> QED BY <1>3 DEF Runs
<1>5. \A k \in 1..n : g[k] = Place(g[k - 1], m[k])
  <2> SUFFICES ASSUME NEW k \in 1..n PROVE g[k] = Place(g[k - 1], m[k])
    OBVIOUS
  <2>1. k - 1 \in 0..n
    BY <1>1
  <2> HIDE DEF n, step, m
  <2> QED BY <1>2, <1>4, <2>1
<1> DEFINE h == [k \in 0..n |-> g[k]]
<1>6. h = Turn(h)
  <2> SUFFICES ASSUME NEW k \in 0..n
               PROVE  g[k] = IF k = 0 THEN x ELSE Place(h[k - 1], m[k])
    OBVIOUS
  <2>1. CASE k = 0
    BY <1>4, <2>1
  <2>2. CASE k # 0
    <3>1. k \in 1..n /\ k - 1 \in 0..n
      BY <1>1, <2>2
    <3>2. h[k - 1] = g[k - 1]
      BY <3>1
    <3>3. g[k] = Place(g[k - 1], m[k])
      <4> HIDE DEF n, m
      <4> QED BY <1>5, <3>1
    <3> HIDE DEF h
    <3> QED BY <2>2, <3>2, <3>3
  <2> QED BY <2>1, <2>2
<1>7. after = Turn(after)
  <2> HIDE DEF Turn, h
  <2> QED BY <1>6
<1>8. PlaceAll(x) = after[n]
  BY DEF PlaceAll
<1> HIDE DEF after
<1>9. after[0] = x /\ \A k \in 1..n : after[k] = Place(after[k - 1], m[k])
  <2>1. \A k \in 0..n : after[k] = IF k = 0 THEN x ELSE Place(after[k - 1], m[k])
    BY <1>7
  <2>2. 0 \in 0..n /\ \A k \in 1..n : k \in 0..n /\ k # 0
    BY <1>1
  <2> QED BY <2>1, <2>2
<1> HIDE DEF n, m
<1>10. Keeps(after, n, S)
  BY <1>2, <1>9 DEF Keeps
<1>11. \A k \in 0..n : after[k] \in S[k]
  BY ONLY <1>1, <1>10, StaysIn
<1>12. n \in 0..n
  BY <1>1
<1> QED BY <1>8, <1>11, <1>12 DEF n, m

LEMMA PlaceAllSound ==
  ASSUME WheelTypeOK, NEW x \in State,
         AllPlaced(x.wheels, x.activated, x.moving)
  PROVE  /\ PlaceAll(x) \in State /\ Alike(x, PlaceAll(x))
         /\ AllPlaced(PlaceAll(x).wheels, PlaceAll(x).activated, <<>>)
<1> DEFINE m == x.moving
           n == Len(m)
           Good(k) == {y \in State : /\ Alike(x, y)
                                     /\ AllPlaced(y.wheels, y.activated, Rest(m, k))}
           S == [k \in 0..n |-> Good(k)]
<1>1. m \in Seq(Timers) /\ n \in Nat
  BY LenProperties DEF State
<1>2. \A k \in 0..n : S[k] = Good(k)
  OBVIOUS
<1>3. ASSUME NEW k \in 1..n, NEW y \in S[k - 1]
      PROVE  Place(y, m[k]) \in S[k]
  <2>1. k - 1 \in 0..n /\ k \in 0..n
    BY <1>1
  <2>2. /\ Rest(m, k - 1) \in Seq(Timers) /\ Rest(m, k - 1) # <<>>
        /\ Rest(m, k - 1)[1] = m[k] /\ Tail(Rest(m, k - 1)) = Rest(m, k)
    <3> HIDE DEF m
    <3> QED BY <1>1, <2>1, RestProperties
  <2>3. /\ y \in State /\ Alike(x, y)
        /\ AllPlaced(y.wheels, y.activated, Rest(m, k - 1))
    BY <1>2, <2>1
  <2>4. /\ Place(y, m[k]) \in State /\ Alike(y, Place(y, m[k]))
        /\ AllPlaced(Place(y, m[k]).wheels, Place(y, m[k]).activated, Rest(m, k))
    <3> DEFINE r == Rest(m, k - 1)
    <3>1. r \in Seq(Timers) /\ r # <<>> /\ AllPlaced(y.wheels, y.activated, r)
          /\ r[1] = m[k] /\ Tail(r) = Rest(m, k)
      BY <2>2, <2>3
    <3> HIDE DEF r, m
    <3>2. /\ Place(y, r[1]) \in State /\ Alike(y, Place(y, r[1]))
          /\ AllPlaced(Place(y, r[1]).wheels, Place(y, r[1]).activated, Tail(r))
      BY <2>3, <3>1, PlaceSound
    <3> QED BY <3>1, <3>2
  <2>5. Alike(x, Place(y, m[k]))
    BY <2>3, <2>4 DEF Alike
  <2>6. Place(y, m[k]) \in Good(k)
    BY <2>4, <2>5
  <2> HIDE DEF S, Good
  <2> QED BY <1>2, <2>1, <2>6
<1>4. x \in S[0]
  <2>1. Rest(m, 0) = m
    BY <1>1, RestProperties
  <2>2. x \in Good(0)
    BY <2>1 DEF Alike
  <2> QED BY <1>1, <1>2, <2>2
<1>5. PlaceAll(x) \in S[n]
  <2>1. x \in State /\ x \in S[0]
    BY <1>4
  <2>2. \A k \in 1..n : \A y \in S[k - 1] : Place(y, m[k]) \in S[k]
    BY <1>3
  <2> HIDE DEF S
  <2> QED BY ONLY <2>1, <2>2, PlaceAllIn
<1>6. PlaceAll(x) \in Good(n)
  <2>1. n \in 0..n
    BY <1>1
  <2> HIDE DEF S, n, Good
  <2> QED BY <1>2, <1>5, <2>1
<1>7. Rest(m, n) = <<>>
  BY <1>1, RestProperties
<1> QED BY <1>6, <1>7

(* WheelState::next: a slot is emptied into the bin of those that move. *)
LEMMA TakeLayout ==
  ASSUME NEW x \in State, NEW w \in Wheels, x.wheels[w].index # SlotNum
  PROVE  /\ Take(x, w) \in State /\ Take(x, w).activated = x.activated
         /\ <<w, x.wheels[w].index>> \in Bins \ {Moving}
         /\ Layout(Take(x, w).wheels, Take(x, w).activated, Take(x, w).moving) =
              Moved(Layout(x.wheels, x.activated, <<>>),
                    <<w, x.wheels[w].index>>, Moving)
         /\ Take(x, w).wheels[w].index = x.wheels[w].index + 1
         /\ \A v \in Wheels \ {w} : Take(x, w).wheels[v] = x.wheels[v]
         /\ Take(x, w).carry = x.carry /\ Take(x, w).elapsed = x.elapsed
<1> DEFINE ws == x.wheels
           act == x.activated
           i == ws[w].index
           q == ws[w].slots[i]
           r == Slotted(ws, w, i + 1, i, <<>>)
           y == Take(x, w)
<1>1. /\ ws \in [Wheels -> Turning] /\ act \in Seq(Timers) /\ ws[w] \in Turning
      /\ x = [elapsed |-> x.elapsed, wheels |-> ws, activated |-> act,
              moving |-> x.moving, carry |-> x.carry]
      /\ x.elapsed \in Nat /\ x.carry \in BOOLEAN
  BY DEF State
<1>2. i \in Slots /\ i + 1 \in 0..SlotNum
  BY <1>1, WheelAssumption DEF Turning, Slots
<1>3. q \in Seq(Timers) /\ <<>> \in Seq(Timers)
  BY <1>1, <1>2 DEF Turning
<1>4. y = [[x EXCEPT !.moving = q] EXCEPT !.wheels = r]
  BY <1>1 DEF Take, Slotted
<1> HIDE DEF y, ws, act, i, q
<1> DEFINE j == i + 1
           e == <<>>
<1>5. /\ Slotted(ws, w, j, i, e) \in [Wheels -> Turning]
      /\ Slotted(ws, w, j, i, e)[w].index = j
      /\ \A v \in Wheels \ {w} : Slotted(ws, w, j, i, e)[v] = ws[v]
      /\ Layout(Slotted(ws, w, j, i, e), act, q) =
           With(Layout(ws, act, q), <<w, i>>, e)
  <2>1. /\ ws \in [Wheels -> Turning] /\ act \in Seq(Timers)
        /\ q \in Seq(Timers) /\ w \in Wheels /\ i \in Slots
        /\ j \in 0..SlotNum /\ e \in Seq(Timers)
    BY <1>1, <1>2, <1>3
  <2> HIDE DEF j, e
  <2> QED BY ONLY <2>1, SlottedLayout
<1> DEFINE L == Layout(ws, act, <<>>)
           M == Layout(r, act, q)
<1>6. /\ L \in [Bins -> Seq(Timers)] /\ L[Moving] = <<>>
      /\ L[<<w, i>>] = q
  <2>1. ws[w].slots[i] = q
    BY DEF q, ws
  <2> HIDE DEF e
  <2>2. e \in Seq(Timers)
    BY <1>3 DEF e
  <2>3. /\ Layout(ws, act, e) \in [Bins -> Seq(Timers)]
        /\ Layout(ws, act, e)[Moving] = e
        /\ \A v \in Wheels, s \in Slots :
             Layout(ws, act, e)[<<v, s>>] = ws[v].slots[s]
    BY ONLY <1>1, <2>2, LayoutType
  <2> QED BY <1>2, <2>1, <2>3 DEF e
<1>7. Layout(ws, act, q) = With(L, Moving, q)
  BY LayoutMoving
<1>8. M = Moved(L, <<w, i>>, Moving)
  <2>1. <<>> \o q = q
    BY <1>3, ConcatEmptySeq
  <2>2. M = With(With(L, Moving, q), <<w, i>>, <<>>)
    BY <1>5, <1>7
  <2> HIDE DEF L, M
  <2> QED BY <1>6, <2>1, <2>2 DEF Moved
<1> HIDE DEF r
<1>9. y \in State /\ y.wheels = r /\ y.activated = act /\ y.moving = q
       /\ y.carry = x.carry /\ y.elapsed = x.elapsed
  <2>1. r \in [Wheels -> Turning]
    BY <1>5 DEF r
  <2> DEFINE z == [x EXCEPT !.moving = q]
  <2>2. /\ z \in State /\ z.wheels = ws /\ z.activated = act /\ z.moving = q
        /\ z.carry = x.carry /\ z.elapsed = x.elapsed
    BY <1>1, <1>3, SMTT(30) DEF State
  <2>3. y = [z EXCEPT !.wheels = r]
    BY <1>4
  <2> HIDE DEF z
  <2>4. /\ y \in State /\ y.wheels = r /\ y.activated = z.activated
        /\ y.moving = z.moving /\ y.carry = z.carry /\ y.elapsed = z.elapsed
    BY <2>1, <2>2, <2>3 DEF State
  <2> QED BY <2>2, <2>4
<1>10. r[w].index = ws[w].index + 1 /\ \A v \in Wheels \ {w} : r[v] = ws[v]
  BY <1>5 DEF r, i
<1>11. <<w, i>> \in Bins \ {Moving} /\ i = x.wheels[w].index
  BY <1>2, BinsApart DEF i, ws
<1>12. Layout(y.wheels, y.activated, y.moving) =
         Moved(Layout(x.wheels, x.activated, <<>>), <<w, i>>, Moving)
  <2> HIDE DEF i, y
  <2> QED BY <1>8, <1>9 DEF ws, act
<1> HIDE DEF i
<1> QED BY <1>9, <1>10, <1>11, <1>12 DEF y, ws, act

LEMMA TakeSound ==
  ASSUME NEW x \in State, NEW w \in Wheels, x.wheels[w].index # SlotNum,
         AllPlaced(x.wheels, x.activated, <<>>)
  PROVE  AllPlaced(Take(x, w).wheels, Take(x, w).activated, Take(x, w).moving)
<1> DEFINE e == <<>>
           L == Layout(x.wheels, x.activated, e)
           M == Layout(Take(x, w).wheels, Take(x, w).activated, Take(x, w).moving)
           b == <<w, x.wheels[w].index>>
<1>1. b \in Bins /\ b # Moving /\ Moving \in Bins /\ M = Moved(L, b, Moving)
  BY TakeLayout, BinsApart
<1>2. L \in [Bins -> Seq(Timers)] /\ Once(L)
  <2>1. e \in Seq(Timers)
    OBVIOUS
  <2> HIDE DEF e
  <2> QED BY <2>1, LayoutType DEF State, AllPlaced, e
<1>3. Once(M) /\ \A u : Has(M, u) <=> Has(L, u)
  <2> HIDE DEF b, L, M
  <2> QED BY <1>1, <1>2, MoveOnce
<1> QED BY <1>3 DEF AllPlaced

(* The slot of the first wheel is activated as a whole. *)
LEMMA ActivateLayout ==
  ASSUME NEW ws \in [Wheels -> Turning], NEW act \in Seq(Timers),
         NEW mov \in Seq(Timers)
  PROVE  /\ act \o mov \in Seq(Timers) /\ Grows(act, act \o mov)
         /\ Layout(ws, act \o mov, <<>>) = Moved(Layout(ws, act, mov), Moving, Now)
<1> DEFINE L == Layout(ws, act, mov)
           e == <<>>
           c == act \o mov
           M == Layout(ws, c, e)
<1>1. c \in Seq(Timers) /\ e \in Seq(Timers)
  BY ConcatProperties
<1>2. /\ L \in [Bins -> Seq(Timers)] /\ L[Now] = act /\ L[Moving] = mov
      /\ Now \in Bins /\ Moving \in Bins /\ Now # Moving
  BY LayoutType, BinsApart
<1>3. M = With(With(L, Now, c), Moving, e)
  <2>1. Layout(ws, c, mov) = With(L, Now, c)
    BY LayoutNow
  <2>2. M = With(Layout(ws, c, mov), Moving, e)
    BY LayoutMoving
  <2> QED BY <2>1, <2>2
<1>4. M = Moved(L, Moving, Now)
  <2> HIDE DEF L, M
  <2> QED BY <1>2, <1>3 DEF Moved
<1>5. Grows(act, c)
  <2>1. /\ Len(act) \in Nat /\ Len(mov) \in Nat
        /\ Len(act \o mov) = Len(act) + Len(mov)
        /\ \A i \in 1..(Len(act) + Len(mov)) :
             (act \o mov)[i] = IF i <= Len(act) THEN act[i] ELSE mov[i - Len(act)]
    BY ConcatProperties, LenProperties
  <2> QED BY <2>1 DEF Grows
<1> QED BY <1>1, <1>4, <1>5

LEMMA ActivateSound ==
  ASSUME NEW ws \in [Wheels -> Turning], NEW act \in Seq(Timers),
         NEW mov \in Seq(Timers), AllPlaced(ws, act, mov)
  PROVE  act \o mov \in Seq(Timers) /\ AllPlaced(ws, act \o mov, <<>>)
<1> DEFINE L == Layout(ws, act, mov)
           M == Layout(ws, act \o mov, <<>>)
<1>1. /\ act \o mov \in Seq(Timers) /\ M = Moved(L, Moving, Now)
      /\ Now \in Bins /\ Moving \in Bins /\ Now # Moving
      /\ L \in [Bins -> Seq(Timers)] /\ Once(L)
  BY ActivateLayout, LayoutType, BinsApart DEF AllPlaced
<1>2. Once(M) /\ \A u : Has(M, u) <=> Has(L, u)
  <2> HIDE DEF L, M
  <2> QED BY <1>1, MoveOnce
<1> QED BY <1>1, <1>2 DEF AllPlaced

(* After wheel k: only the next one may have gone round, if it was taken    *)
(* from just now.                                                           *)
Turned(x, k) ==
  /\ x \in State /\ AllPlaced(x.wheels, x.activated, <<>>)
  /\ \A v \in Wheels : x.wheels[v].index = SlotNum => v = k + 1 /\ x.carry

(* WheelState::round of a wheel that went round. *)
Rounded(x, w) == [x EXCEPT !.wheels[w].index = 0]

LEMMA RoundSound ==
  ASSUME NEW x \in State, NEW w \in Wheels, NEW y, y = Rounded(x, w),
         AllPlaced(x.wheels, x.activated, <<>>)
  PROVE  /\ y \in State /\ AllPlaced(y.wheels, y.activated, <<>>)
         /\ y.wheels[w].index = 0
         /\ \A v \in Wheels \ {w} : y.wheels[v] = x.wheels[v]
         /\ y.carry = x.carry /\ y.elapsed = x.elapsed
         /\ y.activated = x.activated
         /\ Layout(y.wheels, y.activated, <<>>) = Layout(x.wheels, x.activated, <<>>)
<1> DEFINE ws == x.wheels
           new == [ws[w] EXCEPT !.index = 0]
           r == [ws EXCEPT ![w] = new]
<1>1. ws \in [Wheels -> Turning] /\ ws[w] \in Turning
  BY DEF State
<1>2. new \in Turning /\ new.index = 0 /\ new.slots = ws[w].slots
  <2> DEFINE u == ws[w]
  <2>1. u \in Turning /\ 0 \in 0..SlotNum
    BY <1>1, WheelAssumption
  <2> HIDE DEF u
  <2>2. /\ [u EXCEPT !.index = 0] \in Turning
        /\ [u EXCEPT !.index = 0].index = 0
        /\ [u EXCEPT !.index = 0].slots = u.slots
    BY <2>1 DEF Turning
  <2> QED BY <2>2 DEF u
<1>3. y = [x EXCEPT !.wheels = r]
  BY DEF Rounded
<1> HIDE DEF new
<1>4. r \in [Wheels -> Turning] /\ r[w] = new
      /\ \A v \in Wheels \ {w} : r[v] = ws[v]
  BY <1>1, <1>2
<1>5. \A v \in Wheels, z \in Slots : r[v].slots[z] = ws[v].slots[z]
  BY <1>2, <1>4
<1> HIDE DEF r
<1>6. /\ y \in State /\ y.wheels = r /\ y.activated = x.activated
      /\ y.carry = x.carry /\ y.elapsed = x.elapsed
  BY <1>3, <1>4 DEF State
<1>7. Layout(r, x.activated, <<>>) = Layout(ws, x.activated, <<>>)
  <2> DEFINE act == x.activated
             e == <<>>
             L == Layout(ws, act, e)
             M == Layout(r, act, e)
  <2>1. act \in Seq(Timers) /\ e \in Seq(Timers)
    BY DEF State
  <2> HIDE DEF act, e, ws
  <2>2. /\ L \in [Bins -> Seq(Timers)] /\ L[Now] = act /\ L[Moving] = e
        /\ \A v \in Wheels, z \in Slots : L[<<v, z>>] = ws[v].slots[z]
    BY <1>1, <2>1, LayoutType
  <2>3. /\ M \in [Bins -> Seq(Timers)] /\ M[Now] = act /\ M[Moving] = e
        /\ \A v \in Wheels, z \in Slots : M[<<v, z>>] = r[v].slots[z]
    BY <1>4, <2>1, LayoutType
  <2> HIDE DEF L, M
  <2>4. \A p \in Bins : M[p] = L[p]
    <3> SUFFICES ASSUME NEW p \in Bins PROVE M[p] = L[p]
      OBVIOUS
    <3>1. CASE p = Now \/ p = Moving
      BY <2>2, <2>3, <3>1
    <3>2. ASSUME NEW v \in Wheels, NEW z \in Slots, p = <<v, z>>
          PROVE  M[p] = L[p]
      <4>1. L[<<v, z>>] = ws[v].slots[z] /\ M[<<v, z>>] = r[v].slots[z]
        BY <2>2, <2>3
      <4> QED BY <1>5, <3>2, <4>1
    <3> QED BY <3>1, <3>2, BinsApart
  <2>5. M = L
    BY <2>2, <2>3, <2>4
  <2> QED BY <2>5 DEF L, M, act, e, ws
<1>8. AllPlaced(y.wheels, y.activated, <<>>)
  BY <1>6, <1>7 DEF AllPlaced
<1> QED BY <1>2, <1>4, <1>6, <1>7, <1>8

LEMMA RollSound ==
  ASSUME WheelTypeOK, NEW x, NEW w \in Wheels, Turned(x, w - 1)
  PROVE  Turned(Roll(x, w), w) /\ Roll(x, w).elapsed = x.elapsed
<1>1. /\ x \in State /\ AllPlaced(x.wheels, x.activated, <<>>)
      /\ \A v \in Wheels : x.wheels[v].index = SlotNum => v = w /\ x.carry
      /\ w \in 1..WheelNum /\ WheelNum \in Nat
  BY WheelAssumption DEF Turned, Wheels
<1>2. CASE ~x.carry \/ x.wheels[w].index # SlotNum
  <2> DEFINE y == [x EXCEPT !.carry = FALSE]
  <2>1. Roll(x, w) = y
    BY <1>2 DEF Roll
  <2>2. /\ y \in State /\ y.wheels = x.wheels /\ y.activated = x.activated
        /\ y.elapsed = x.elapsed
    BY <1>1 DEF State
  <2> HIDE DEF y
  <2> QED BY <1>1, <1>2, <2>1, <2>2 DEF Turned
<1>3. CASE x.carry /\ x.wheels[w].index = SlotNum
  <2> DEFINE round == Rounded(x, w)
             taken == Take(round, w + 1)
  <2>1. Roll(x, w) = IF w = WheelNum THEN round ELSE PlaceAll(taken)
    BY <1>3 DEF Roll, Rounded
  <2>2. /\ round \in State /\ AllPlaced(round.wheels, round.activated, <<>>)
        /\ round.wheels[w].index = 0
        /\ \A v \in Wheels \ {w} : round.wheels[v] = x.wheels[v]
        /\ round.carry = x.carry /\ round.elapsed = x.elapsed
    BY <1>1, RoundSound
  <2> HIDE DEF round
  <2>3. \A v \in Wheels : round.wheels[v].index # SlotNum
    BY <1>1, <2>2, WheelAssumption
  <2>4. CASE w = WheelNum
    BY <2>1, <2>2, <2>3, <2>4 DEF Turned
  <2>5. CASE w # WheelNum
    <3>1. w + 1 \in Wheels
      BY <1>1, <2>5 DEF Wheels
    <3>2. /\ taken \in State
          /\ AllPlaced(taken.wheels, taken.activated, taken.moving)
          /\ \A v \in Wheels \ {w + 1} : taken.wheels[v] = round.wheels[v]
          /\ taken.carry = round.carry /\ taken.elapsed = round.elapsed
      BY <2>2, <2>3, <3>1, TakeSound, TakeLayout
    <3> HIDE DEF taken
    <3>3. /\ PlaceAll(taken) \in State /\ Alike(taken, PlaceAll(taken))
          /\ AllPlaced(PlaceAll(taken).wheels, PlaceAll(taken).activated, <<>>)
      BY <3>2, PlaceAllSound
    <3>4. \A v \in Wheels : PlaceAll(taken).wheels[v].index = SlotNum =>
            v = w + 1 /\ PlaceAll(taken).carry
      BY <1>3, <2>2, <2>3, <3>2, <3>3 DEF Alike
    <3> QED BY <2>1, <2>2, <2>5, <3>2, <3>3, <3>4 DEF Turned, Alike
  <2> QED BY <2>4, <2>5
<1> QED BY <1>1, <1>2, <1>3 DEF State

LEMMA RollAllIn ==
  ASSUME NEW x, NEW S, x \in S[0],
         \A k \in Wheels : \A y \in S[k - 1] : Roll(y, k) \in S[k]
  PROVE  RollAll(x) \in S[WheelNum]
<1> DEFINE n == WheelNum
           step == [k \in 1..n |-> [y \in S[k - 1] |-> Roll(y, k)]]
           Turn(f) == [w \in 0..n |-> IF w = 0 THEN x ELSE Roll(f[w - 1], w)]
           after == CHOOSE f : f = Turn(f)
<1>1. n \in Nat /\ n \in 0..n
  BY WheelAssumption
<1>2. ASSUME NEW k \in 1..n, NEW y \in S[k - 1]
      PROVE  Roll(y, k) \in S[k] /\ step[k][y] = Roll(y, k)
  BY DEF Wheels
<1>3. PICK g : Runs(g, n, S, x, step)
  <2> HIDE DEF n, step
  <2>1. Leads(n, S, x, step)
    BY <1>2 DEF Leads
  <2> QED BY ONLY <1>1, <2>1, IsDefined
<1>4. /\ g[0] = x /\ \A k \in 1..n : g[k] = step[k][g[k - 1]]
      /\ \A k \in 0..n : g[k] \in S[k]
  <2> HIDE DEF n, step
  <2> QED BY <1>3 DEF Runs
<1>5. \A k \in 1..n : g[k] = Roll(g[k - 1], k)
  <2> SUFFICES ASSUME NEW k \in 1..n PROVE g[k] = Roll(g[k - 1], k)
    OBVIOUS
  <2>1. k - 1 \in 0..n
    BY <1>1
  <2> HIDE DEF n, step
  <2> QED BY <1>2, <1>4, <2>1
<1> DEFINE h == [k \in 0..n |-> g[k]]
<1>6. h = Turn(h)
  <2> SUFFICES ASSUME NEW k \in 0..n
               PROVE  g[k] = IF k = 0 THEN x ELSE Roll(h[k - 1], k)
    OBVIOUS
  <2>1. CASE k = 0
    BY <1>4, <2>1
  <2>2. CASE k # 0
    <3>1. k \in 1..n /\ k - 1 \in 0..n
      BY <1>1, <2>2
    <3>2. h[k - 1] = g[k - 1]
      BY <3>1
    <3>3. g[k] = Roll(g[k - 1], k)
      <4> HIDE DEF n
      <4> QED BY <1>5, <3>1
    <3> HIDE DEF h
    <3> QED BY <2>2, <3>2, <3>3
  <2> QED BY <2>1, <2>2
<1>7. after = Turn(after)
  <2> HIDE DEF Turn, h
  <2> QED BY <1>6
<1>8. RollAll(x) = after[n]
  BY DEF RollAll
<1> HIDE DEF after
<1>9. after[0] = x /\ \A k \in 1..n : after[k] = Roll(after[k - 1], k)
  <2>1. \A k \in 0..n : after[k] = IF k = 0 THEN x ELSE Roll(after[k - 1], k)
    BY <1>7
  <2>2. 0 \in 0..n /\ \A k \in 1..n : k \in 0..n /\ k # 0
    BY <1>1
  <2> QED BY <2>1, <2>2
<1> HIDE DEF n
<1>10. Keeps(after, n, S)
  BY <1>2, <1>9 DEF Keeps
<1>11. \A k \in 0..n : after[k] \in S[k]
  BY ONLY <1>1, <1>10, StaysIn
<1> QED BY <1>1, <1>8, <1>11 DEF n

LEMMA RollAllSound ==
  ASSUME WheelTypeOK, NEW x, Turned(x, 0)
  PROVE  /\ RollAll(x) \in State /\ RollAll(x).elapsed = x.elapsed
         /\ AllPlaced(RollAll(x).wheels, RollAll(x).activated, <<>>)
         /\ \A v \in Wheels : RollAll(x).wheels[v].index # SlotNum
<1> DEFINE n == WheelNum
           Good(k) == {y \in State : Turned(y, k) /\ y.elapsed = x.elapsed}
           S == [k \in 0..n |-> Good(k)]
<1>1. n \in Nat /\ n \in 0..n
  BY WheelAssumption
<1>2. \A k \in 0..n : S[k] = Good(k)
  OBVIOUS
<1>3. ASSUME NEW k \in 1..n, NEW y \in S[k - 1]
      PROVE  Roll(y, k) \in S[k]
  <2>1. k - 1 \in 0..n /\ k \in 0..n /\ k \in Wheels
    BY <1>1 DEF Wheels
  <2>2. Turned(y, k - 1) /\ y.elapsed = x.elapsed
    BY <1>2, <2>1
  <2>3. Turned(Roll(y, k), k) /\ Roll(y, k).elapsed = y.elapsed
    BY <2>1, <2>2, RollSound
  <2>4. Roll(y, k) \in Good(k)
    BY <2>2, <2>3 DEF Turned
  <2> HIDE DEF S, Good
  <2> QED BY <1>2, <2>1, <2>4
<1>4. x \in S[0]
  <2>1. x \in Good(0)
    BY DEF Turned
  <2>2. 0 \in 0..n
    BY <1>1
  <2> HIDE DEF Good, S
  <2> QED BY <1>2, <2>1, <2>2
<1>5. RollAll(x) \in S[WheelNum]
  <2>1. \A k \in Wheels : \A y \in S[k - 1] : Roll(y, k) \in S[k]
    BY <1>3 DEF Wheels
  <2> HIDE DEF S
  <2> QED BY ONLY <1>4, <2>1, RollAllIn
<1>6. RollAll(x) \in Good(n)
  <2> HIDE DEF S, Good
  <2> QED BY <1>1, <1>2, <1>5
<1>7. Turned(RollAll(x), WheelNum) /\ RollAll(x).elapsed = x.elapsed
  BY <1>6
<1>8. \A v \in Wheels : v # WheelNum + 1
  BY <1>1 DEF Wheels
<1> QED BY <1>7, <1>8 DEF Turned

-----------------------------------------------------------------------------
(***************************************************************************)
(* The variables: what waits between the steps of update().                *)
(***************************************************************************)
(* EachOnce and Known, said of the bins. *)
LEMMA PlacedIsOnce ==
  ASSUME WheelTypeOK
  PROVE  EachOnce /\ Known <=>
           /\ AllPlaced(wheels, Rest(activated, at), <<>>)
           /\ \A t \in DOMAIN timers : WasSet(t)
<1> DEFINE e == <<>>
           act == Rest(activated, at)
           L == Layout(wheels, act, e)
<1>1. act \in Seq(Timers) /\ e \in Seq(Timers) /\ Len(e) = 0
  BY RestProperties DEF WheelTypeOK
<1>2. wheels \in [Wheels -> Turning]
  <2>1. Slots \subseteq 0..SlotNum
    BY WheelAssumption DEF Slots
  <2> QED BY <2>1 DEF WheelTypeOK, Wheel, Turning
<1>3. /\ L \in [Bins -> Seq(Timers)] /\ L[Now] = act /\ L[Moving] = e
      /\ \A v \in Wheels, z \in Slots : L[<<v, z>>] = wheels[v].slots[z]
  <2> DEFINE ws == wheels
  <2>1. ws \in [Wheels -> Turning] /\ act \in Seq(Timers) /\ e \in Seq(Timers)
    BY <1>1, <1>2
  <2> HIDE DEF ws, act, e
  <2>2. /\ Layout(ws, act, e) \in [Bins -> Seq(Timers)]
        /\ Layout(ws, act, e)[Now] = act /\ Layout(ws, act, e)[Moving] = e
        /\ \A v \in Wheels, z \in Slots :
             Layout(ws, act, e)[<<v, z>>] = ws[v].slots[z]
    BY ONLY <2>1, LayoutType
  <2> QED BY <2>2 DEF ws
<1> HIDE DEF e, act
<1>4. \A p \in Places : p \in Bins /\ L[p] = Waiting(p) /\ p # Moving
  <2> SUFFICES ASSUME NEW p \in Places
               PROVE  p \in Bins /\ L[p] = Waiting(p) /\ p # Moving
    OBVIOUS
  <2>1. CASE p = Now
    BY <1>3, <2>1, BinsApart DEF Waiting, act, Rest
  <2>2. CASE p # Now
    <3>1. PICK v \in Wheels, z \in Slots : p = <<v, z>>
      BY <2>2 DEF Places
    <3> QED BY <1>3, <2>2, <3>1, BinsApart DEF Waiting
  <2> QED BY <2>1, <2>2
<1>5. \A p \in Bins : p \in Places \/ p = Moving
  BY DEF Bins
<1> HIDE DEF L
<1>6. \A p, i, t : At(L, p, i, t) <=>
        p \in Places /\ i \in 1..Len(Waiting(p)) /\ Waiting(p)[i] = t
  BY <1>1, <1>3, <1>4, <1>5 DEF At
<1>7. Once(L) <=> \A p, q \in Places :
         \A i \in 1..Len(Waiting(p)), j \in 1..Len(Waiting(q)) :
           Waiting(p)[i] = Waiting(q)[j] => p = q /\ i = j
  <2>1. ASSUME Once(L), NEW p \in Places, NEW q \in Places,
               NEW i \in 1..Len(Waiting(p)), NEW j \in 1..Len(Waiting(q)),
               Waiting(p)[i] = Waiting(q)[j]
        PROVE  p = q /\ i = j
    <3>1. At(L, p, i, Waiting(p)[i]) /\ At(L, q, j, Waiting(p)[i])
      BY <1>6, <2>1
    <3> QED BY <2>1, <3>1 DEF Once
  <2>2. ASSUME \A p, q \in Places :
                 \A i \in 1..Len(Waiting(p)), j \in 1..Len(Waiting(q)) :
                   Waiting(p)[i] = Waiting(q)[j] => p = q /\ i = j,
               NEW p, NEW q, NEW i, NEW j, NEW t,
               At(L, p, i, t), At(L, q, j, t)
        PROVE  p = q /\ i = j
    <3>1. /\ p \in Places /\ i \in 1..Len(Waiting(p)) /\ Waiting(p)[i] = t
          /\ q \in Places /\ j \in 1..Len(Waiting(q)) /\ Waiting(q)[j] = t
      BY <1>6, <2>2
    <3> QED BY <2>2, <3>1
  <2> QED BY <2>1, <2>2 DEF Once
<1>8. \A t : Has(L, t) <=>
        \E p \in Places : \E i \in 1..Len(Waiting(p)) : Waiting(p)[i] = t
  <2>1. ASSUME NEW t, NEW p, NEW i, At(L, p, i, t)
        PROVE  /\ p \in Places /\ i \in 1..Len(Waiting(p))
               /\ Waiting(p)[i] = t
    BY <1>6, <2>1
  <2>2. ASSUME NEW t, NEW p \in Places, NEW i \in 1..Len(Waiting(p)),
               Waiting(p)[i] = t
        PROVE  At(L, p, i, t)
    BY <1>6, <2>2
  <2> QED BY <2>1, <2>2 DEF Has
<1>9. EachOnce /\ Known <=>
        /\ Once(L) /\ \A t \in DOMAIN timers : Has(L, t)
        /\ \A t : Has(L, t) => WasSet(t)
        /\ \A t \in DOMAIN timers : WasSet(t)
  BY <1>7, <1>8 DEF EachOnce, Known
<1> QED BY <1>9 DEF AllPlaced, L, act, e

-----------------------------------------------------------------------------
(***************************************************************************)
(* The invariant, said of the bins, and its steps.                         *)
(***************************************************************************)
Here == Layout(wheels, Rest(activated, at), <<>>)

Binned ==
  /\ Once(Here)
  /\ \A t \in DOMAIN timers : Has(Here, t) /\ WasSet(t)
  /\ \A t : Has(Here, t) => WasSet(t)

BinInv == WheelTypeOK /\ Binned /\ Invoking

LEMMA HereType ==
  ASSUME WheelTypeOK
  PROVE  /\ wheels \in [Wheels -> Turning] /\ Rest(activated, at) \in Seq(Timers)
         /\ <<>> \in Seq(Timers) /\ SlotNum \in Nat \ {0}
         /\ \A w \in Wheels : wheels[w].index # SlotNum
<1>1. SlotNum \in Nat \ {0}
  BY WheelAssumption
<1>2. Slots \subseteq 0..SlotNum /\ SlotNum \notin Slots
  BY <1>1 DEF Slots
<1>3. Rest(activated, at) \in Seq(Timers)
  BY RestProperties DEF WheelTypeOK
<1>4. wheels \in [Wheels -> Turning]
  BY <1>2 DEF WheelTypeOK, Wheel, Turning
<1>5. \A w \in Wheels : wheels[w].index # SlotNum
  BY <1>2 DEF WheelTypeOK, Wheel
<1>6. <<>> \in Seq(Timers)
  OBVIOUS
<1> QED BY <1>1, <1>3, <1>4, <1>5, <1>6

LEMMA HereIn == WheelTypeOK => Here \in [Bins -> Seq(Timers)]
<1> SUFFICES ASSUME WheelTypeOK PROVE Here \in [Bins -> Seq(Timers)]
  OBVIOUS
<1> DEFINE ws == wheels
           act == Rest(activated, at)
           e == <<>>
<1>1. ws \in [Wheels -> Turning] /\ act \in Seq(Timers) /\ e \in Seq(Timers)
  BY HereType
<1> HIDE DEF ws, act, e
<1>2. Layout(ws, act, e) \in [Bins -> Seq(Timers)]
  BY ONLY <1>1, LayoutType
<1> QED BY <1>2 DEF ws, act, e, Here

(* A wheel that turns is one at rest unless it went round. *)
LEMMA AtRest ==
  ASSUME NEW ws \in [Wheels -> Turning],
         \A w \in Wheels : ws[w].index # SlotNum
  PROVE  ws \in [Wheels -> Wheel]
<1>1. SlotNum \in Nat \ {0}
  BY WheelAssumption
<1>2. \A i \in 0..SlotNum : i # SlotNum => i \in Slots
  BY <1>1 DEF Slots
<1> QED BY <1>2 DEF Wheel, Turning

(* invoke_timers takes the next timer. *)
LEMMA NextTimer ==
  ASSUME WheelTypeOK, Binned, at < Len(activated)
  PROVE  LET R == Layout(wheels, Rest(activated, at + 1), <<>>)
         IN  /\ at + 1 \in 0..Len(activated) /\ activated[at + 1] \in Timers
             /\ Rest(activated, at + 1) \in Seq(Timers) /\ Once(R)
             /\ \A u : Has(R, u) <=> Has(Here, u) /\ u # activated[at + 1]
             /\ Has(Here, activated[at + 1])
             /\ Here \in [Bins -> Seq(Timers)] /\ R = Popped(Here, Now)
             /\ Here[Now] # <<>> /\ Here[Now][1] = activated[at + 1]
<1> DEFINE act == Rest(activated, at)
           act2 == Rest(activated, at + 1)
           R == Layout(wheels, act2, <<>>)
           t == activated[at + 1]
<1>1. at + 1 \in 1..Len(activated) /\ at + 1 \in 0..Len(activated)
      /\ (at + 1) - 1 = at /\ activated \in Seq(Timers)
  BY LenProperties DEF WheelTypeOK
<1>2. /\ act # <<>> /\ act[1] = t /\ Tail(act) = act2
      /\ act2 \in Seq(Timers) /\ act \in Seq(Timers) /\ t \in Timers
  <2>1. \A k \in 1..Len(activated) :
          /\ Rest(activated, k - 1) # <<>>
          /\ Rest(activated, k - 1)[1] = activated[k]
          /\ Tail(Rest(activated, k - 1)) = Rest(activated, k)
    BY ONLY <1>1, RestProperties
  <2>2. \A k \in 0..Len(activated) : Rest(activated, k) \in Seq(Timers)
    BY ONLY <1>1, RestProperties
  <2>3. act \in Seq(Timers)
    BY HereType
  <2> QED BY <1>1, <2>1, <2>2, <2>3
<1>3. /\ Here \in [Bins -> Seq(Timers)] /\ Here[Now] = act
      /\ Now \in Bins
  <2> DEFINE ws == wheels
             e == <<>>
  <2>1. ws \in [Wheels -> Turning] /\ act \in Seq(Timers) /\ e \in Seq(Timers)
    BY HereType
  <2> HIDE DEF ws, act, e
  <2>2. /\ Layout(ws, act, e) \in [Bins -> Seq(Timers)]
        /\ Layout(ws, act, e)[Now] = act
    BY ONLY <2>1, LayoutType
  <2> QED BY <2>2, BinsApart DEF ws, act, e, Here
<1>4. R = With(Here, Now, act2)
  BY LayoutNow DEF Here
<1>5. Once(Here)
  BY DEF Binned
<1>6. /\ Once(R) /\ \A u : Has(R, u) <=> Has(Here, u) /\ u # t
  <2> DEFINE Q == Here
  <2> HIDE DEF R, act, act2, t, Q
  <2>1. Q \in [Bins -> Seq(Timers)] /\ Once(Q) /\ Now \in Bins
    BY <1>3, <1>5 DEF Q
  <2>2. Q[Now] # <<>> /\ R = Popped(Q, Now)
    BY <1>2, <1>3, <1>4 DEF Popped, Q
  <2>3. /\ Once(R) /\ \A u : Has(R, u) <=> Has(Q, u) /\ u # Q[Now][1]
    BY ONLY <2>1, <2>2, PopOnce
  <2> QED BY <1>2, <1>3, <2>3 DEF Q
<1>7. Has(Here, t)
  <2> HIDE DEF act, t
  <2>1. 1 \in 1..Len(act)
    BY <1>2, LenProperties, EmptySeq
  <2>2. At(Here, Now, 1, t)
    BY <1>2, <1>3, <2>1 DEF At
  <2> QED BY <2>2 DEF Has
<1>8. R = Popped(Here, Now)
  <2> HIDE DEF act, act2, R
  <2> QED BY <1>2, <1>3, <1>4 DEF Popped
<1> QED BY <1>1, <1>2, <1>3, <1>6, <1>7, <1>8

LEMMA BinInit == Init => BinInv
<1> SUFFICES ASSUME Init PROVE BinInv
  OBVIOUS
<1>1. 0 \in Slots
  BY WheelAssumption DEF Slots
<1>2. WheelTypeOK
  <2>1. <<>> \in Seq(Timers) /\ Len(<<>>) = 0
    OBVIOUS
  <2>2. wheels \in [Wheels -> Wheel]
    BY <1>1, <2>1 DEF Init, Wheel
  <2> QED BY <2>1, <2>2 DEF Init, WheelTypeOK
<1>3. \A p, i, t : ~At(Here, p, i, t)
  <2> SUFFICES ASSUME NEW p \in Bins PROVE Here[p] = <<>>
    BY DEF At
  <2>1. Rest(activated, at) = <<>>
    BY RestProperties, <1>2 DEF Init, WheelTypeOK
  <2>2. CASE p = Now \/ p = Moving
    BY <2>1, <2>2 DEF Here, Layout
  <2>3. ASSUME NEW w \in Wheels, NEW s \in Slots, p = <<w, s>>
        PROVE  Here[p] = <<>>
    BY <2>3, BinsApart DEF Here, Layout, Init
  <2> QED BY <2>2, <2>3, BinsApart
<1>4. DOMAIN timers = {}
  BY DEF Init
<1>5. Binned
  BY <1>3, <1>4 DEF Binned, Once, Has
<1> QED BY <1>2, <1>5 DEF BinInv, Invoking, Init

(* setTimeout or an interval that goes on: a timer that is in no bin. *)
LEMMA PutHere ==
  ASSUME NEW act \in Seq(Timers), WheelTypeOK, NEW t \in Timers, NEW d \in Nat,
         Once(Layout(wheels, act, <<>>)), ~Has(Layout(wheels, act, <<>>), t)
  PROVE  /\ Rearrange(wheels, t, d) \in [Wheels -> Wheel]
         /\ Once(Layout(Rearrange(wheels, t, d), act, <<>>))
         /\ \A u : Has(Layout(Rearrange(wheels, t, d), act, <<>>), u) <=>
                     Has(Layout(wheels, act, <<>>), u) \/ u = t
<1> DEFINE ws == wheels
           e == <<>>
           r == Rearrange(ws, t, d)
<1>1. /\ ws \in [Wheels -> Turning] /\ e \in Seq(Timers)
      /\ \A w \in Wheels : ws[w].index # SlotNum
  BY HereType
<1>2. Once(Layout(ws, act, e)) /\ ~Has(Layout(ws, act, e), t)
  OBVIOUS
<1>3. /\ r \in [Wheels -> Turning]
      /\ \A v \in Wheels : r[v].index = ws[v].index
      /\ Once(Layout(r, act, e))
      /\ \A u : Has(Layout(r, act, e), u) <=> Has(Layout(ws, act, e), u) \/ u = t
  <2> HIDE DEF ws, e
  <2> QED BY ONLY <1>1, <1>2, RearrangeOnce, act \in Seq(Timers), t \in Timers,
                  d \in Nat
<1>4. r \in [Wheels -> Wheel]
  <2> HIDE DEF r, ws
  <2> QED BY <1>1, <1>3, AtRest
<1> QED BY <1>3, <1>4

LEMMA SpanType ==
  ASSUME NEW d \in Delays, NEW extra \in BOOLEAN
  PROVE  Span(d, extra) \in Nat
<1>1. d \in Int /\ Width \in Nat \ {0}
  BY WheelAssumption
<1>2. d % Width \in Nat
  BY <1>1
<1> QED BY <1>2 DEF Span

LEMMA SetStep ==
  ASSUME BinInv, NEW t \in Timers, NEW d \in Delays,
         NEW extra \in BOOLEAN, NEW loop \in BOOLEAN,
         SetTimer(t, d, extra, loop)
  PROVE  BinInv'
<1> DEFINE rate == Span(d, extra)
           act == Rest(activated, at)
<1>1. WheelTypeOK /\ Binned /\ Invoking
  BY DEF BinInv
<1>2. rate \in Nat
  BY SpanType
<1>3. act \in Seq(Timers)
  BY <1>1, HereType
<1>4. order \in Seq(Timers) /\ Len(order) \in Nat
  BY <1>1, LenProperties DEF WheelTypeOK
<1>5. ~WasSet(t)
  BY DEF SetTimer, WasSet
<1>6. /\ order' \in Seq(Timers) /\ WasSet(t)'
      /\ \A u : WasSet(u) => WasSet(u)'
  <2>1. /\ Len(order') = Len(order) + 1 /\ order'[Len(order) + 1] = t
        /\ \A k \in 1..Len(order) : order'[k] = order[k]
        /\ order' \in Seq(Timers)
    BY <1>4, AppendProperties DEF SetTimer
  <2>2. Len(order) + 1 \in 1..Len(order') /\ 1..Len(order) \subseteq 1..Len(order')
    BY <1>4, <2>1
  <2> QED BY <2>1, <2>2 DEF WasSet
<1>7. /\ wheels' \in [Wheels -> Wheel]
      /\ Once(Layout(wheels', act, <<>>))
      /\ \A u : Has(Layout(wheels', act, <<>>), u) <=> Has(Here, u) \/ u = t
  <2>1. Once(Here) /\ ~Has(Here, t)
    BY <1>1, <1>5 DEF Binned
  <2>2. wheels' = Rearrange(wheels, t, rate)
    BY DEF SetTimer
  <2> HIDE DEF rate, act
  <2>3. Once(Layout(wheels, act, <<>>)) /\ ~Has(Layout(wheels, act, <<>>), t)
    BY <2>1 DEF Here, act
  <2>4. /\ Rearrange(wheels, t, rate) \in [Wheels -> Wheel]
        /\ Once(Layout(Rearrange(wheels, t, rate), act, <<>>))
        /\ \A u : Has(Layout(Rearrange(wheels, t, rate), act, <<>>), u) <=>
                    Has(Layout(wheels, act, <<>>), u) \/ u = t
    BY <1>1, <1>2, <1>3, <2>3, PutHere
  <2> QED BY <2>2, <2>4 DEF Here, act
<1>8. Here' = Layout(wheels', act, <<>>)
  BY DEF SetTimer, Here, Rest
<1>9. DOMAIN timers' = DOMAIN timers \cup {t}
  BY DEF SetTimer
<1>10. Binned'
  <2> HIDE DEF act
  <2> QED BY <1>1, <1>6, <1>7, <1>8, <1>9 DEF Binned
<1>11. \A u \in DOMAIN timers' : timers'[u] \in TimerData
  <2>1. (rate + elapsed) % Width \in Nat
    <3>1. rate + elapsed \in Nat /\ Width \in Nat \ {0}
      BY <1>1, <1>2, WheelAssumption DEF WheelTypeOK
    <3> QED BY <3>1
  <2>2. timers' = [u \in DOMAIN timers \cup {t} |->
                     IF u # t THEN timers[u]
                     ELSE [loop |-> loop, rate |-> rate,
                           expires |-> (rate + elapsed) % Width]]
    BY DEF SetTimer
  <2> HIDE DEF rate
  <2> QED BY <1>1, <1>2, <2>1, <2>2 DEF WheelTypeOK, TimerData
<1>12. WheelTypeOK'
  BY <1>1, <1>6, <1>7, <1>9, <1>11 DEF WheelTypeOK, SetTimer
<1>13. Invoking'
  BY <1>1 DEF Invoking, SetTimer
<1> QED BY <1>10, <1>12, <1>13 DEF BinInv

(* Steps that leave the bins, and at most clear a timer. *)
LEMMA KeepBinned ==
  ASSUME Binned, UNCHANGED <<order, wheels, activated, at>>,
         DOMAIN timers' \subseteq DOMAIN timers
  PROVE  Binned'
<1>1. Here' = Here /\ \A t : WasSet(t)' <=> WasSet(t)
  BY DEF Here, Rest, WasSet
<1> QED BY <1>1 DEF Binned

LEMMA ClearStep ==
  ASSUME BinInv, NEW t \in Timers, ClearTimer(t)
  PROVE  BinInv'
<1>1. /\ DOMAIN timers' = DOMAIN timers \ {t}
      /\ \A u \in DOMAIN timers' : timers'[u] = timers[u]
  BY DEF ClearTimer, Cleared
<1>2. Binned'
  BY <1>1, KeepBinned DEF BinInv, ClearTimer
<1>3. WheelTypeOK'
  BY <1>1 DEF BinInv, WheelTypeOK, ClearTimer
<1>4. Invoking'
  BY DEF BinInv, Invoking, ClearTimer
<1> QED BY <1>2, <1>3, <1>4 DEF BinInv

LEMMA StartTickStep ==
  ASSUME BinInv, NEW ms \in Elapses, StartTick(ms)
  PROVE  BinInv'
<1>1. Binned'
  BY KeepBinned DEF BinInv, StartTick
<1>2. WheelTypeOK'
  <2>1. ms \in Nat
    BY WheelAssumption
  <2> QED BY <2>1 DEF BinInv, WheelTypeOK, StartTick
<1>3. Invoking'
  BY DEF BinInv, Invoking, StartTick
<1> QED BY <1>1, <1>2, <1>3 DEF BinInv

LEMMA EndTickStep ==
  ASSUME BinInv, EndTick
  PROVE  BinInv'
<1>1. Binned'
  BY KeepBinned DEF BinInv, EndTick
<1>2. WheelTypeOK'
  BY DEF BinInv, WheelTypeOK, EndTick
<1>3. Invoking'
  BY DEF BinInv, Invoking, EndTick
<1> QED BY <1>1, <1>2, <1>3 DEF BinInv

LEMMA CallActionStep ==
  ASSUME BinInv, CallAction
  PROVE  BinInv'
<1>1. Binned'
  BY KeepBinned DEF BinInv, CallAction
<1>2. WheelTypeOK'
  BY DEF BinInv, WheelTypeOK, CallAction
<1>3. Invoking'
  BY DEF BinInv, Invoking, CallAction
<1> QED BY <1>1, <1>2, <1>3 DEF BinInv

(* A wheel that took its slot. *)
Emptied(ws, w) == Slotted(ws, w, ws[w].index + 1, ws[w].index, <<>>)

(* WheelState::next, field by field. *)
LEMMA TakeIs ==
  ASSUME NEW x \in State, NEW w \in Wheels,
         NEW i, i = x.wheels[w].index, i # SlotNum
  PROVE  /\ Take(x, w).wheels = Emptied(x.wheels, w)
         /\ Take(x, w).moving = x.wheels[w].slots[i]
         /\ Take(x, w).activated = x.activated
         /\ Take(x, w).carry = x.carry /\ Take(x, w).elapsed = x.elapsed
<1> DEFINE q == x.wheels[w].slots[i]
           r == Emptied(x.wheels, w)
           y == Take(x, w)
<1>1. y = [[x EXCEPT !.moving = q] EXCEPT !.wheels = r]
  BY DEF Take, Emptied, Slotted
<1>2. x = [elapsed |-> x.elapsed, wheels |-> x.wheels, activated |-> x.activated,
           moving |-> x.moving, carry |-> x.carry]
  BY DEF State
<1> HIDE DEF y, q, r
<1>3. /\ y.wheels = r /\ y.moving = q /\ y.activated = x.activated
      /\ y.carry = x.carry /\ y.elapsed = x.elapsed
  BY <1>1, <1>2
<1> QED BY <1>3 DEF y, q, r

(* A turn of the while loop of tick() when the slot of the first wheel is   *)
(* activated and no other wheel has moved on.                               *)
FirstTaken ==
  LET first == Take([elapsed |-> elapsed + Jiffies, wheels |-> wheels,
                     activated |-> activated, moving |-> <<>>, carry |-> TRUE], 1)
  IN  [first EXCEPT !.activated = @ \o first.moving]

LEMMA FirstTurn ==
  ASSUME BinInv, phase = "tick"
  PROVE  LET i == wheels[1].index
             x == FirstTaken
         IN  /\ i \in Slots /\ at = 0 /\ Turned(x, 0)
             /\ x.wheels = Emptied(wheels, 1)
             /\ x.activated = activated \o wheels[1].slots[i]
             /\ x.elapsed = elapsed + Jiffies /\ Grows(activated, x.activated)
             /\ <<1, i>> \in Bins \ {Moving} /\ Here \in [Bins -> Seq(Timers)]
             /\ Layout(x.wheels, x.activated, <<>>) =
                  Moved(Moved(Here, <<1, i>>, Moving), Moving, Now)
<1> DEFINE start == [elapsed |-> elapsed + Jiffies, wheels |-> wheels,
                     activated |-> activated, moving |-> <<>>, carry |-> TRUE]
           first == Take(start, 1)
           x == [first EXCEPT !.activated = @ \o first.moving]
           i == wheels[1].index
<1>1. WheelTypeOK /\ Binned /\ Invoking
  BY DEF BinInv
<1>2. Jiffies \in Nat \ {0} /\ 1 \in Wheels
  BY WheelAssumption DEF Wheels
<1>3. at = 0 /\ i \in Slots
  BY <1>1, <1>2 DEF Invoking, WheelTypeOK, Wheel
<1>4. /\ start \in State /\ start.wheels = wheels
      /\ start.activated = activated /\ start.carry = TRUE
      /\ start.elapsed = elapsed + Jiffies
  <2>1. elapsed + Jiffies \in Nat
    BY <1>1, <1>2 DEF WheelTypeOK
  <2>2. activated \in Seq(Timers) /\ wheels \in [Wheels -> Turning]
        /\ <<>> \in Seq(Timers)
    BY <1>1, HereType DEF WheelTypeOK
  <2> QED BY <2>1, <2>2 DEF State
<1>5. /\ AllPlaced(wheels, activated, <<>>)
      /\ Here = Layout(wheels, activated, <<>>)
  <2>1. Rest(activated, at) = activated
    BY <1>1, <1>3, RestProperties DEF WheelTypeOK
  <2> QED BY <1>1, <2>1 DEF Binned, Here, AllPlaced
<1>6. \A v \in Wheels : wheels[v].index # SlotNum
  BY <1>1, HereType
<1>7. /\ first \in State
      /\ AllPlaced(first.wheels, first.activated, first.moving)
      /\ \A v \in Wheels \ {1} : first.wheels[v] = wheels[v]
      /\ first.carry = TRUE /\ first.elapsed = elapsed + Jiffies
      /\ first.wheels = Emptied(wheels, 1)
      /\ first.moving = wheels[1].slots[i] /\ first.activated = activated
      /\ <<1, i>> \in Bins \ {Moving}
      /\ Layout(first.wheels, first.activated, first.moving) =
           Moved(Here, <<1, i>>, Moving)
  <2>1. /\ start.wheels[1].index # SlotNum /\ i = start.wheels[1].index
        /\ AllPlaced(start.wheels, start.activated, <<>>)
    BY <1>2, <1>4, <1>5, <1>6
  <2> HIDE DEF start, i
  <2>2. /\ first \in State
        /\ AllPlaced(first.wheels, first.activated, first.moving)
        /\ \A v \in Wheels \ {1} : first.wheels[v] = start.wheels[v]
        /\ <<1, i>> \in Bins \ {Moving}
        /\ Layout(first.wheels, first.activated, first.moving) =
             Moved(Layout(start.wheels, start.activated, <<>>), <<1, i>>, Moving)
    BY <1>2, <1>4, <2>1, TakeSound, TakeLayout
  <2>3. /\ first.wheels = Emptied(start.wheels, 1)
        /\ first.moving = start.wheels[1].slots[i]
        /\ first.activated = start.activated
        /\ first.carry = start.carry /\ first.elapsed = start.elapsed
    <3>1. i # SlotNum
      BY <2>1
    <3> QED BY <1>2, <1>4, <2>1, <3>1, TakeIs
  <2> HIDE DEF first
  <2> QED BY <1>4, <1>5, <2>2, <2>3
<1>8. /\ x \in State /\ x.wheels = first.wheels /\ x.carry = TRUE
      /\ x.elapsed = elapsed + Jiffies
      /\ x.activated = activated \o wheels[1].slots[i]
      /\ AllPlaced(x.wheels, x.activated, <<>>)
      /\ Grows(activated, x.activated)
      /\ Layout(x.wheels, x.activated, <<>>) =
           Moved(Moved(Here, <<1, i>>, Moving), Moving, Now)
  <2> HIDE DEF first
  <2> DEFINE a == first.activated \o first.moving
  <2>1. /\ first.wheels \in [Wheels -> Turning] /\ first.activated \in Seq(Timers)
        /\ first.moving \in Seq(Timers)
    BY <1>7 DEF State
  <2>2. a \in Seq(Timers) /\ AllPlaced(first.wheels, a, <<>>)
    BY <1>7, <2>1, ActivateSound
  <2>5. /\ Grows(first.activated, a)
        /\ Layout(first.wheels, a, <<>>) =
             Moved(Layout(first.wheels, first.activated, first.moving), Moving, Now)
    BY <2>1, ActivateLayout
  <2>3. x = [first EXCEPT !.activated = a]
        /\ a = activated \o wheels[1].slots[i]
    BY <1>7
  <2> HIDE DEF a, x
  <2>4. /\ x \in State /\ x.wheels = first.wheels /\ x.activated = a
        /\ x.carry = first.carry /\ x.elapsed = first.elapsed
    BY <1>7, <2>2, <2>3 DEF State
  <2> QED BY <1>7, <2>2, <2>3, <2>4, <2>5
<1> HIDE DEF first
<1>9. Turned(x, 0)
  <2>1. \A v \in Wheels : x.wheels[v].index = SlotNum => v = 0 + 1
    <3> HIDE DEF x
    <3> QED BY <1>6, <1>7, <1>8
  <2> HIDE DEF x
  <2> QED BY <1>8, <2>1 DEF Turned
<1>10. x = FirstTaken
  BY DEF FirstTaken, first
<1>12. Here \in [Bins -> Seq(Timers)]
  BY <1>1, HereIn
<1> HIDE DEF x, i
<1>11. /\ i \in Slots /\ at = 0 /\ Turned(x, 0)
       /\ x.wheels = Emptied(wheels, 1)
       /\ x.activated = activated \o wheels[1].slots[i]
       /\ x.elapsed = elapsed + Jiffies /\ Grows(activated, x.activated)
       /\ <<1, i>> \in Bins \ {Moving} /\ Here \in [Bins -> Seq(Timers)]
       /\ Layout(x.wheels, x.activated, <<>>) =
            Moved(Moved(Here, <<1, i>>, Moving), Moving, Now)
  BY <1>3, <1>7, <1>8, <1>9, <1>12
<1> QED BY <1>10, <1>11 DEF i

LEMMA JiffyEnds ==
  ASSUME Jiffy
  PROVE  /\ phase = "tick" /\ slice >= Jiffies /\ slice' = slice - Jiffies
         /\ elapsed' = RollAll(FirstTaken).elapsed
         /\ wheels' = RollAll(FirstTaken).wheels
         /\ activated' = RollAll(FirstTaken).activated
         /\ UNCHANGED <<timers, order, at, phase>>
BY DEF Jiffy, FirstTaken

(* One turn of the while loop of tick(). *)
LEMMA JiffyStep ==
  ASSUME BinInv, Jiffy
  PROVE  BinInv'
<1> DEFINE x == FirstTaken
           end == RollAll(x)
<1>1. WheelTypeOK /\ Binned /\ Invoking
  BY DEF BinInv
<1>2. /\ phase = "tick" /\ slice >= Jiffies /\ slice' = slice - Jiffies
      /\ elapsed' = end.elapsed /\ wheels' = end.wheels
      /\ activated' = end.activated
      /\ UNCHANGED <<timers, order, at, phase>>
  BY JiffyEnds
<1>3. at = 0 /\ at' = 0 /\ Turned(x, 0)
  BY <1>2, FirstTurn
<1>4. /\ end \in State /\ AllPlaced(end.wheels, end.activated, <<>>)
      /\ \A v \in Wheels : end.wheels[v].index # SlotNum
  <2> HIDE DEF x
  <2> QED BY <1>1, <1>3, RollAllSound
<1> HIDE DEF x, end
<1>5. /\ wheels' \in [Wheels -> Wheel] /\ activated' \in Seq(Timers)
      /\ elapsed' \in Nat
  <2>1. /\ end.wheels \in [Wheels -> Turning] /\ end.activated \in Seq(Timers)
        /\ end.elapsed \in Nat
    BY <1>4 DEF State
  <2> QED BY <1>2, <1>4, <2>1, AtRest
<1>6. Binned'
  <2>1. Rest(activated', at') = activated'
    BY <1>3, <1>5, RestProperties
  <2>2. Here' = Layout(end.wheels, end.activated, <<>>)
    BY <1>2, <2>1 DEF Here
  <2>3. \A t : WasSet(t)' <=> WasSet(t)
    BY <1>2 DEF WasSet
  <2> QED BY <1>1, <1>2, <1>4, <2>2, <2>3 DEF Binned, AllPlaced
<1>7. WheelTypeOK'
  <2>1. slice' \in Nat
    BY <1>1, <1>2, WheelAssumption DEF WheelTypeOK
  <2>2. at' \in 0..Len(activated')
    BY <1>3, <1>5, LenProperties
  <2> QED BY <1>1, <1>2, <1>5, <2>1, <2>2 DEF WheelTypeOK
<1>8. Invoking'
  BY <1>1, <1>2 DEF Invoking
<1> QED BY <1>6, <1>7, <1>8 DEF BinInv

(* invoke_timers goes on to the next timer, having put this one back into   *)
(* the wheels or not.                                                       *)
LEMMA SkipStep ==
  ASSUME BinInv, Skip
  PROVE  BinInv'
<1> DEFINE R == Layout(wheels, Rest(activated, at + 1), <<>>)
           t == activated[at + 1]
<1>1. WheelTypeOK /\ Binned /\ Invoking /\ at < Len(activated)
  BY DEF BinInv, Skip
<1>2. /\ at + 1 \in 0..Len(activated)
      /\ Once(R) /\ \A u : Has(R, u) <=> Has(Here, u) /\ u # t
  BY <1>1, NextTimer
<1>3. Here' = R /\ \A u : WasSet(u)' <=> WasSet(u)
  BY DEF Here, Rest, WasSet, Skip
<1>4. t \notin DOMAIN timers /\ timers' = timers
  BY DEF Skip, Used
<1>5. Binned'
  <2> HIDE DEF R, t
  <2> QED BY <1>1, <1>2, <1>3, <1>4 DEF Binned
<1>6. WheelTypeOK'
  BY <1>1, <1>2 DEF WheelTypeOK, Skip
<1>7. Invoking'
  BY <1>1 DEF Invoking, Skip
<1> QED BY <1>5, <1>6, <1>7 DEF BinInv

LEMMA ActionDoneStep ==
  ASSUME BinInv, ActionDone
  PROVE  BinInv'
<1> DEFINE act == Rest(activated, at + 1)
           R == Layout(wheels, act, <<>>)
           t == activated[at + 1]
<1>1. /\ WheelTypeOK /\ Binned /\ Invoking /\ at < Len(activated)
      /\ phase' = "invoke" /\ at' = at + 1
      /\ UNCHANGED <<elapsed, slice, order, activated>>
  BY DEF BinInv, Invoking, ActionDone
<1>2. /\ at + 1 \in 0..Len(activated) /\ act \in Seq(Timers)
      /\ Once(R) /\ (\A u : Has(R, u) <=> Has(Here, u) /\ u # t)
      /\ Has(Here, t) /\ t \in Timers
  BY <1>1, NextTimer
<1>3. Here' = Layout(wheels', act, <<>>) /\ \A u : WasSet(u)' <=> WasSet(u)
  BY <1>1 DEF Here, Rest, WasSet
<1>4. Invoking'
  BY <1>1 DEF Invoking
<1>5. CASE Used(t) /\ timers[t].loop
  <2> DEFINE d == timers[t].rate
  <2>1. /\ timers' = [timers EXCEPT ![t].expires = (d + elapsed) % Width]
        /\ wheels' = Rearrange(wheels, t, d)
    BY <1>5 DEF ActionDone
  <2>2. timers[t] \in TimerData /\ d \in Nat /\ t \in DOMAIN timers
    BY <1>1, <1>5 DEF WheelTypeOK, TimerData, Used
  <2>3. (d + elapsed) % Width \in Nat
    <3>1. d + elapsed \in Nat /\ Width \in Nat \ {0}
      BY <1>1, <2>2, WheelAssumption DEF WheelTypeOK
    <3> HIDE DEF d
    <3> QED BY <3>1
  <2>4. DOMAIN timers' = DOMAIN timers
        /\ \A u \in DOMAIN timers' : timers'[u] \in TimerData
    <3> DEFINE e == (d + elapsed) % Width
    <3>1. timers' = [timers EXCEPT ![t] = [timers[t] EXCEPT !.expires = e]]
      BY <2>1
    <3> HIDE DEF e, d, t
    <3>2. [timers[t] EXCEPT !.expires = e] \in TimerData
      BY <2>2, <2>3 DEF TimerData, e
    <3> QED BY <1>1, <2>2, <3>1, <3>2 DEF WheelTypeOK
  <2>5. /\ wheels' \in [Wheels -> Wheel]
        /\ Once(Layout(wheels', act, <<>>))
        /\ \A u : Has(Layout(wheels', act, <<>>), u) <=> Has(R, u) \/ u = t
    <3>1. ~Has(R, t)
      <4> HIDE DEF R, t
      <4> QED BY <1>2
    <3> HIDE DEF act, t, d
    <3>2. /\ Rearrange(wheels, t, d) \in [Wheels -> Wheel]
          /\ Once(Layout(Rearrange(wheels, t, d), act, <<>>))
          /\ \A u : Has(Layout(Rearrange(wheels, t, d), act, <<>>), u) <=>
                      Has(Layout(wheels, act, <<>>), u) \/ u = t
      BY <1>1, <1>2, <2>2, <3>1, PutHere
    <3> QED BY <2>1, <3>2
  <2>6. Binned'
    <3> HIDE DEF act, R, t
    <3> QED BY <1>1, <1>2, <1>3, <2>4, <2>5 DEF Binned
  <2>7. WheelTypeOK'
    BY <1>1, <1>2, <2>4, <2>5 DEF WheelTypeOK
  <2> QED BY <1>4, <2>6, <2>7 DEF BinInv
<1>6. CASE ~(Used(t) /\ timers[t].loop)
  <2>1. /\ DOMAIN timers' = DOMAIN timers \ {t} /\ wheels' = wheels
        /\ \A u \in DOMAIN timers' : timers'[u] = timers[u]
    BY <1>6 DEF ActionDone, Cleared
  <2>2. Binned'
    <3>1. Here' = R
      BY <1>3, <2>1
    <3> HIDE DEF R, t
    <3> QED BY <1>1, <1>2, <1>3, <2>1, <3>1 DEF Binned
  <2>3. WheelTypeOK'
    BY <1>1, <1>2, <2>1 DEF WheelTypeOK
  <2> QED BY <1>4, <2>2, <2>3 DEF BinInv
<1> QED BY <1>5, <1>6

LEMMA EndInvokeStep ==
  ASSUME BinInv, EndInvoke
  PROVE  BinInv'
<1>1. WheelTypeOK /\ Binned /\ Invoking
  BY DEF BinInv
<1>2. Rest(activated, at) = <<>> /\ Rest(activated', at') = <<>>
  <2>1. activated \in Seq(Timers) /\ activated' = <<>> /\ <<>> \in Seq(Timers)
    BY <1>1 DEF WheelTypeOK, EndInvoke
  <2>2. Len(<<>>) = 0
    OBVIOUS
  <2> QED BY <2>1, <2>2, RestProperties DEF EndInvoke
<1>3. Here' = Here /\ \A u : WasSet(u)' <=> WasSet(u)
  BY <1>2 DEF Here, WasSet, EndInvoke
<1>4. Binned'
  BY <1>1, <1>3 DEF Binned, EndInvoke
<1>5. WheelTypeOK'
  <2>1. <<>> \in Seq(Timers) /\ 0 \in 0..Len(<<>>)
    OBVIOUS
  <2> QED BY <1>1, <2>1 DEF WheelTypeOK, EndInvoke
<1>6. Invoking'
  BY DEF Invoking, EndInvoke
<1> QED BY <1>4, <1>5, <1>6 DEF BinInv

(* No step leaves the invariant. *)
LEMMA BinNext == BinInv /\ [Next]_vars => BinInv'
<1> SUFFICES ASSUME BinInv, [Next]_vars PROVE BinInv'
  OBVIOUS
<1>1. CASE \E t \in Timers : ClearTimer(t)
  BY <1>1, ClearStep
<1>2. CASE \E t \in Timers, d \in Delays, extra, loop \in BOOLEAN :
             SetTimer(t, d, extra, loop)
  BY <1>2, SetStep
<1>3. CASE \E ms \in Elapses : StartTick(ms)
  BY <1>3, StartTickStep
<1>4. CASE Jiffy
  BY <1>4, JiffyStep
<1>5. CASE EndTick
  BY <1>5, EndTickStep
<1>6. CASE Skip
  BY <1>6, SkipStep
<1>7. CASE CallAction
  BY <1>7, CallActionStep
<1>8. CASE ActionDone
  BY <1>8, ActionDoneStep
<1>9. CASE EndInvoke
  BY <1>9, EndInvokeStep
<1>10. CASE UNCHANGED vars
  <2>1. Binned'
    BY <1>10, KeepBinned DEF BinInv, vars
  <2>2. WheelTypeOK'
    BY <1>10 DEF BinInv, WheelTypeOK, vars
  <2>3. Invoking'
    BY <1>10 DEF BinInv, Invoking, vars
  <2> QED BY <2>1, <2>2, <2>3 DEF BinInv
<1> QED BY <1>1, <1>2, <1>3, <1>4, <1>5, <1>6, <1>7, <1>8, <1>9, <1>10 DEF Next

-----------------------------------------------------------------------------
(***************************************************************************)
(* Every reachable state satisfies the invariant TLC can check, which the  *)
(* steps carry through the bins: also that nothing waits that was not set, *)
(* and that invoke_timers starts at the first timer of those activated.    *)
(***************************************************************************)
THEOREM WheelInvariant == Spec => []WheelInv
<1>1. BinInv => WheelInv
  <2> SUFFICES ASSUME BinInv PROVE WheelInv
    OBVIOUS
  <2>1. AllPlaced(wheels, Rest(activated, at), <<>>)
    BY DEF BinInv, Binned, Here, AllPlaced
  <2> QED BY <2>1, PlacedIsOnce DEF BinInv, Binned, WheelInv
<1> QED BY <1>1, BinInit, BinNext, PTL DEF Spec

(***************************************************************************)
(* Every reachable state has the types of the wheel: between two turns of  *)
(* tick() no index of a wheel is past its last slot, which would be a read *)
(* past the end of the slots of WheelState, and what is left of the walk   *)
(* of invoke_timers is a part of the timers activated.                     *)
(***************************************************************************)
THEOREM WheelTypes == Spec => []WheelTypeOK
<1>1. WheelInv => WheelTypeOK
  BY DEF WheelInv
<1> QED BY <1>1, WheelInvariant, PTL

(***************************************************************************)
(* A timer that is set waits in exactly one place, a slot or the list of   *)
(* those activated, and a timer that was cleared leaves at most one handle *)
(* behind: whatever the delays, the updates, the wheels and what callbacks *)
(* set and clear, tick() loses no timer and runs none twice.               *)
(***************************************************************************)
THEOREM EachTimerOnce == Spec => []EachOnce
<1>1. WheelInv => EachOnce
  BY DEF WheelInv
<1> QED BY <1>1, WheelInvariant, PTL

-----------------------------------------------------------------------------
(***************************************************************************)
(* Time.  A slot is some turns of its wheel ahead of the current one.      *)
(***************************************************************************)
Ahead(s, k) == IF s >= k THEN s - k ELSE s - k + SlotNum

LEMMA AheadFacts ==
  ASSUME NEW s \in Slots, NEW k \in 0..SlotNum
  PROVE  /\ Ahead(s, k) \in Nat
         /\ k = s => Ahead(s, k) = 0
         /\ k # s /\ k # SlotNum => Ahead(s, k + 1) = Ahead(s, k) - 1
         /\ Ahead(s, SlotNum) = Ahead(s, 0)
<1>1. SlotNum \in Nat \ {0} /\ s \in 0..(SlotNum - 1)
  BY WheelAssumption DEF Slots
<1> QED BY <1>1 DEF Ahead

LEMMA Euclid ==
  ASSUME NEW x \in Nat, NEW y \in Nat \ {0}
  PROVE  /\ x = y * (x \div y) + (x % y) /\ x % y \in 0..(y - 1)
         /\ x \div y \in Nat
<1>1. x \in Int /\ y \in Int /\ y > 0
  OBVIOUS
<1>2. x = y * (x \div y) + (x % y)
  BY ONLY <1>1, Z3
<1> QED BY <1>2, Division

(* What lies n ahead, modulo the slots, is not further ahead than n. *)
LEMMA SlotAhead ==
  ASSUME NEW k \in 0..SlotNum, NEW n \in Nat
  PROVE  /\ (k + n) % SlotNum \in Slots
         /\ Ahead((k + n) % SlotNum, k) <= n
         /\ n < SlotNum => Ahead((k + n) % SlotNum, k) = n
<1> DEFINE s == (k + n) % SlotNum
           q == (k + n) \div SlotNum
           m == SlotNum * q
<1>1. SlotNum \in Nat \ {0} /\ k \in Nat /\ k <= SlotNum /\ k + n \in Nat
  BY WheelAssumption
<1>2. k + n = m + s /\ s \in 0..(SlotNum - 1) /\ q \in Nat
  BY <1>1, Euclid
<1> HIDE DEF s, q
<1>3. /\ m \in Nat /\ (m > 0 => m >= SlotNum)
      /\ (m < SlotNum => m = 0)
      /\ (m < SlotNum + SlotNum => m = 0 \/ m = SlotNum)
  <2>1. q = 0 \/ q = 1 \/ q >= 2
    BY <1>2
  <2>2. CASE q = 0
    BY <1>1, <2>2
  <2>3. CASE q = 1
    BY <1>1, <2>3
  <2>4. CASE q >= 2
    <3>1. PICK r \in Nat : q = r + 2
      BY <1>2, <2>4
    <3>2. SlotNum * q = SlotNum * r + SlotNum + SlotNum
      BY <1>1, <3>1
    <3>3. SlotNum * r \in Nat
      BY <1>1
    <3> QED BY <1>1, <3>2, <3>3
  <2> QED BY <2>1, <2>2, <2>3, <2>4
<1> HIDE DEF m
<1> QED BY <1>1, <1>2, <1>3 DEF Ahead, Slots, s

LEMMA Distribute ==
  ASSUME NEW x \in Int, NEW y \in Int
  PROVE  /\ x * y \in Int /\ x * (y - 1) = x * y - x /\ x * (y + 1) = x * y + x
         /\ x * 0 = 0
OBVIOUS

LEMMA Monotone ==
  ASSUME NEW x \in Nat, NEW y \in Nat, NEW z \in Nat, y <= z
  PROVE  x * y <= x * z
<1>1. PICK d \in Nat : z = y + d
  <2>1. z - y \in Nat /\ z = y + (z - y)
    OBVIOUS
  <2> QED BY <2>1
<1>2. x * z = x * y + x * d /\ x * d \in Nat /\ x * y \in Nat
  BY <1>1
<1> QED BY <1>2

(***************************************************************************)
(* How far ahead a timer with some delay is put: not after the delay, and  *)
(* in a wheel with enough range not more than two intervals before it.     *)
(***************************************************************************)
LEMMA OffsetTime ==
  ASSUME NEW w \in Wheels, NEW d \in Nat
  PROVE  LET o == Interval[w] * Offset(w, d)
         IN  /\ Offset(w, d) \in Nat
             /\ d >= Interval[w] => o + Interval[w] <= d
             /\ d < Interval[w] => o = 0
             /\ d < o + Interval[w] + Interval[w]
             /\ d < Interval[w] * SlotNum => Offset(w, d) < SlotNum
<1> DEFINE I == Interval[w]
           q == d \div I
           m == I * q
<1>1. I \in Nat \ {0} /\ SlotNum \in Nat \ {0}
  BY IntervalType, WheelAssumption
<1> HIDE DEF I
<1>2. d = m + (d % I) /\ d % I \in 0..(I - 1) /\ q \in Nat
  BY <1>1, Euclid
<1>3. m \in Nat /\ m <= d /\ d < m + I
  BY <1>1, <1>2
<1>4. CASE d >= I
  <2>1. q # 0
    BY <1>1, <1>2, <1>3, <1>4
  <2>2. Offset(w, d) = q - 1 /\ q - 1 \in Nat
    BY <1>2, <1>4, <2>1 DEF Offset, I
  <2>3. I * (q - 1) = m - I
    BY <1>1, <1>2, Distribute
  <2>4. ASSUME d < I * SlotNum PROVE q - 1 < SlotNum
    <3>1. SUFFICES ASSUME SlotNum <= q PROVE FALSE
      BY <1>1, <1>2
    <3>2. I * SlotNum <= I * q
      BY <1>1, <1>2, <3>1, Monotone
    <3>3. I * SlotNum \in Nat
      BY <1>1
    <3> QED BY <1>3, <2>4, <3>2, <3>3
  <2> HIDE DEF m, q
  <2> QED BY <1>1, <1>3, <1>4, <2>2, <2>3, <2>4 DEF I
<1>5. CASE ~(d >= I)
  <2>1. Offset(w, d) = 0
    BY <1>5 DEF Offset, I
  <2>2. I * 0 = 0
    BY <1>1
  <2> QED BY <1>1, <1>5, <2>1, <2>2 DEF I
<1> QED BY <1>4, <1>5

(* The wheel for a delay: the first with enough range. *)
LEMMA WheelForRange ==
  ASSUME NEW d \in Nat, WheelNum # 1
  PROVE  /\ WheelFor(d) \in Wheels
         /\ WheelFor(d) = 1 => d < Interval[1] * SlotNum
         /\ WheelFor(d) # 1 => Interval[WheelFor(d)] <= d
<1> DEFINE Fits(w) == /\ d < Interval[w] * SlotNum
                      /\ \A v \in 1..w - 1 : d >= Interval[v] * SlotNum
           u == WheelFor(d)
<1>1. WheelNum \in Nat \ {0} /\ SlotNum \in Nat \ {0} /\ u \in Wheels
  BY WheelForType, WheelAssumption
<1>2. /\ (u = 1 => d < Interval[1] * SlotNum)
      /\ (u # 1 => d >= Interval[u - 1] * SlotNum)
  <2>1. CASE ~\E w \in Wheels : d < Interval[w] * SlotNum
    <3>1. u = WheelNum /\ u - 1 \in Wheels
      BY <1>1, <2>1 DEF WheelFor, Wheels
    <3>2. ~(d < Interval[u - 1] * SlotNum)
      BY <2>1, <3>1
    <3>3. Interval[u - 1] * SlotNum \in Nat
      BY <1>1, <3>1, IntervalType, Product
    <3> QED BY <3>1, <3>2, <3>3
  <2>2. CASE \E w \in Wheels : d < Interval[w] * SlotNum
    <3>1. \E w \in Wheels : Fits(w)
      <4> DEFINE S == {w \in Wheels : d < Interval[w] * SlotNum}
      <4>1. S # {} /\ S \subseteq Nat
        BY <2>2 DEF Wheels
      <4>2. PICK w \in S : \A v \in S : w <= v
        <5> HIDE DEF S
        <5> QED BY <4>1, LeastOf
      <4>3. \A v \in 1..w - 1 : d >= Interval[v] * SlotNum
        <5> SUFFICES ASSUME NEW v \in 1..w - 1
                     PROVE  d >= Interval[v] * SlotNum
          OBVIOUS
        <5>1. v \in Wheels /\ ~(w <= v)
          BY <1>1 DEF Wheels
        <5>2. ~(d < Interval[v] * SlotNum)
          BY <4>2, <5>1
        <5>3. Interval[v] * SlotNum \in Nat
          BY <1>1, <5>1, IntervalType, Product
        <5> QED BY <5>2, <5>3
      <4> QED BY <4>3
    <3>2. u = CHOOSE w \in Wheels : Fits(w)
      BY <2>2 DEF WheelFor
    <3>3. Fits(u)
      <4> HIDE DEF Fits, u
      <4> QED BY <3>1, <3>2
    <3>4. u # 1 => u - 1 \in 1..u - 1
      BY <1>1 DEF Wheels
    <3> HIDE DEF u
    <3> QED BY <3>3, <3>4
  <2> QED BY <2>1, <2>2
<1>3. u # 1 => Interval[u] = Interval[u - 1] * SlotNum
  BY <1>1, IntervalDefined
<1> HIDE DEF u
<1> QED BY <1>1, <1>2, <1>3 DEF u

(***************************************************************************)
(* When wheel w takes its current slot, and the times between the wheels:  *)
(* the next wheel moves on when this one goes round.                       *)
(***************************************************************************)
Linked(f, ws, w) ==
  w + 1 \in Wheels =>
    f[w + 1] = f[w] + Interval[w] * (SlotNum - 1 - ws[w].index)

Clock(f, ws, e) ==
  /\ f \in [Wheels -> Int] /\ f[1] = e + Jiffies
  /\ \A w \in Wheels : f[w] <= e + Interval[w] /\ Linked(f, ws, w)

(* When slot s of wheel w is taken. *)
TakenAt(f, ws, w, s) == f[w] + Interval[w] * Ahead(s, ws[w].index)

(* A timer due at x in a slot taken at a: it is taken before it is due, or  *)
(* next; during a jiffy, one that is due now is taken now.                  *)
OnTime(e, a, x) == a <= e + Jiffies \/ a <= x
InJiffy(e, a, x) == a <= e \/ (e < x /\ OnTime(e, a, x))

(* The first wheel activates what it has: no timer a jiffy or more early. *)
NotEarly(w, a, x) == w = 1 => x < a + Jiffies

Waits(ws, f, e, due) ==
  \A w \in Wheels, s \in Slots, t \in DOMAIN due :
    Contains(ws[w].slots[s], t) =>
      /\ OnTime(e, TakenAt(f, ws, w, s), due[t])
      /\ NotEarly(w, TakenAt(f, ws, w, s), due[t])

Ticks(ws, f, e, due) ==
  \A w \in Wheels, s \in Slots, t \in DOMAIN due :
    Contains(ws[w].slots[s], t) =>
      /\ InJiffy(e, TakenAt(f, ws, w, s), due[t])
      /\ NotEarly(w, TakenAt(f, ws, w, s), due[t])

LEMMA ContainsAppend ==
  ASSUME NEW q \in Seq(Timers), NEW t
  PROVE  \A u : Contains(Append(q, t), u) <=> Contains(q, u) \/ u = t
<1>1. Len(q) \in Nat /\ Len(Append(q, t)) = Len(q) + 1
  BY LenProperties
<1>2. /\ Append(q, t)[Len(q) + 1] = t
      /\ \A i \in 1..Len(q) : Append(q, t)[i] = q[i]
  BY <1>1
<1>3. /\ Len(q) + 1 \in 1..(Len(q) + 1)
      /\ \A i \in 1..(Len(q) + 1) : i \in 1..Len(q) \/ i = Len(q) + 1
      /\ \A i \in 1..Len(q) : i \in 1..(Len(q) + 1)
  BY <1>1
<1> QED BY <1>1, <1>2, <1>3 DEF Contains

LEMMA ContainsConcat ==
  ASSUME NEW q \in Seq(Timers), NEW r \in Seq(Timers)
  PROVE  \A u : Contains(q \o r, u) <=> Contains(q, u) \/ Contains(r, u)
<1>1. /\ Len(q) \in Nat /\ Len(r) \in Nat /\ Len(q \o r) = Len(q) + Len(r)
      /\ \A i \in 1..(Len(q) + Len(r)) :
           (q \o r)[i] = IF i <= Len(q) THEN q[i] ELSE r[i - Len(q)]
  BY ConcatProperties, LenProperties
<1>2. ASSUME NEW u, Contains(q \o r, u) PROVE Contains(q, u) \/ Contains(r, u)
  <2>1. PICK i \in 1..(Len(q) + Len(r)) : (q \o r)[i] = u
    BY <1>1, <1>2 DEF Contains
  <2>2. CASE i <= Len(q)
    <3>1. i \in 1..Len(q) /\ q[i] = u
      BY <1>1, <2>1, <2>2
    <3> QED BY <3>1 DEF Contains
  <2>3. CASE ~(i <= Len(q))
    <3>1. i - Len(q) \in 1..Len(r) /\ r[i - Len(q)] = u
      BY <1>1, <2>1, <2>3
    <3> QED BY <3>1 DEF Contains
  <2> QED BY <2>2, <2>3
<1>3. ASSUME NEW u, Contains(q, u) PROVE Contains(q \o r, u)
  <2>1. PICK i \in 1..Len(q) : q[i] = u
    BY <1>3 DEF Contains
  <2>2. i \in 1..(Len(q) + Len(r)) /\ i <= Len(q)
    BY <1>1, <2>1
  <2> QED BY <1>1, <2>1, <2>2 DEF Contains
<1>4. ASSUME NEW u, Contains(r, u) PROVE Contains(q \o r, u)
  <2>1. PICK i \in 1..Len(r) : r[i] = u
    BY <1>4 DEF Contains
  <2>2. /\ i + Len(q) \in 1..(Len(q) + Len(r)) /\ ~(i + Len(q) <= Len(q))
        /\ (i + Len(q)) - Len(q) = i
    BY <1>1, <2>1
  <2> QED BY <1>1, <2>1, <2>2 DEF Contains
<1> QED BY <1>2, <1>3, <1>4

LEMMA ContainsNone == \A u : ~Contains(<<>>, u)
BY DEF Contains

LEMMA TakenAtType ==
  ASSUME NEW f \in [Wheels -> Int], NEW ws \in [Wheels -> Turning],
         NEW w \in Wheels, NEW s \in Slots
  PROVE  TakenAt(f, ws, w, s) \in Int
<1>1. ws[w].index \in 0..SlotNum /\ Interval[w] \in Nat
  BY IntervalType DEF Turning
<1>2. Ahead(s, ws[w].index) \in Nat
  BY <1>1, AheadFacts
<1>3. Interval[w] * Ahead(s, ws[w].index) \in Int
  BY <1>1, <1>2, Distribute
<1> QED BY <1>3 DEF TakenAt

(* The slots of a wheel that got another index and another list. *)
LEMMA SlottedSlots ==
  ASSUME NEW ws \in [Wheels -> Turning], NEW w \in Wheels, NEW s \in Slots,
         NEW i, i \in 0..SlotNum, NEW q \in Seq(Timers)
  PROVE  /\ Slotted(ws, w, i, s, q) \in [Wheels -> Turning]
         /\ Slotted(ws, w, i, s, q)[w].index = i
         /\ \A v \in Wheels \ {w} : Slotted(ws, w, i, s, q)[v] = ws[v]
         /\ \A v \in Wheels, z \in Slots :
              Slotted(ws, w, i, s, q)[v].slots[z] =
                IF v = w /\ z = s THEN q ELSE ws[v].slots[z]
<1> DEFINE r == Slotted(ws, w, i, s, q)
           e == <<>>
           L == Layout(ws, e, e)
           M == Layout(r, e, e)
<1>1. e \in Seq(Timers)
  OBVIOUS
<1> HIDE DEF e
<1>2. /\ r \in [Wheels -> Turning] /\ r[w].index = i
      /\ \A v \in Wheels \ {w} : r[v] = ws[v] /\ M = With(L, <<w, s>>, q)
  BY <1>1, SlottedLayout
<1> DEFINE new == [index |-> i, slots |-> [ws[w].slots EXCEPT ![s] = q]]
<1>3. new.slots = [ws[w].slots EXCEPT ![s] = q]
  OBVIOUS
<1>4. r = [ws EXCEPT ![w] = new]
  BY DEF Slotted
<1> HIDE DEF r, new
<1>5. r[w] = new /\ ws[w].slots \in [Slots -> Seq(Timers)]
  BY <1>4 DEF Turning
<1>6. \A v \in Wheels, z \in Slots :
        r[v].slots[z] = IF v = w /\ z = s THEN q ELSE ws[v].slots[z]
  BY <1>2, <1>3, <1>5
<1> QED BY <1>2, <1>6 DEF r

(* r is ws with t in slot s of wheel w, where it is taken in time for x. *)
PutAt(r, ws, f, e, t, x, w, s) ==
  /\ r \in [Wheels -> Turning]
  /\ \A v \in Wheels : r[v].index = ws[v].index
  /\ \A v \in Wheels, z \in Slots : \A u :
       Contains(r[v].slots[z], u) =>
         Contains(ws[v].slots[z], u) \/ (u = t /\ v = w /\ z = s)
  /\ OnTime(e, TakenAt(f, ws, w, s), x)
  /\ NotEarly(w, TakenAt(f, ws, w, s), x)

(* rearrange_timer puts a timer into a slot that is taken when it is due,   *)
(* or next.                                                                 *)
LEMMA RearrangeTimes ==
  ASSUME WheelNum # 1, NEW ws \in [Wheels -> Turning], NEW e \in Nat,
         NEW f, Clock(f, ws, e), NEW t \in Timers, NEW d \in Nat,
         NEW r, r = Rearrange(ws, t, d), NEW x, x = e + d
  PROVE  \E w \in Wheels, s \in Slots : PutAt(r, ws, f, e, t, x, w, s)
<1> DEFINE w == WheelFor(d)
           k == ws[w].index
           o == Offset(w, d)
           s == (k + o) % SlotNum
           q == Append(ws[w].slots[s], t)
<1>1. w \in Wheels /\ s \in Slots /\ r = Slotted(ws, w, k, s, q)
  BY RearrangeSlots
<1>2. /\ w = 1 => d < Interval[1] * SlotNum
      /\ w # 1 => Interval[w] <= d
  BY WheelForRange
<1> HIDE DEF w
<1>3. /\ ws[w] \in Turning /\ k \in 0..SlotNum /\ ws[w].slots[s] \in Seq(Timers)
  BY <1>1 DEF Turning
<1>4. /\ r \in [Wheels -> Turning] /\ \A v \in Wheels : r[v].index = ws[v].index
      /\ \A v \in Wheels, z \in Slots : \A u :
           Contains(r[v].slots[z], u) =>
             Contains(ws[v].slots[z], u) \/ (u = t /\ v = w /\ z = s)
  <2>1. q \in Seq(Timers) /\ \A u : Contains(q, u) <=> Contains(ws[w].slots[s], u) \/ u = t
    BY <1>3, ContainsAppend, AppendProperties
  <2> HIDE DEF q, s
  <2>2. /\ Slotted(ws, w, k, s, q) \in [Wheels -> Turning]
        /\ Slotted(ws, w, k, s, q)[w].index = k
        /\ \A v \in Wheels \ {w} : Slotted(ws, w, k, s, q)[v] = ws[v]
        /\ \A v \in Wheels, z \in Slots :
             Slotted(ws, w, k, s, q)[v].slots[z] =
               IF v = w /\ z = s THEN q ELSE ws[v].slots[z]
    BY <1>1, <1>3, <2>1, SlottedSlots
  <2> QED BY <1>1, <2>1, <2>2
<1> DEFINE I == Interval[w]
           n == Ahead(s, k)
           m == I * n
           p == I * o
           a == TakenAt(f, ws, w, s)
<1>5. /\ o \in Nat /\ (d >= I => p + I <= d) /\ (d < I => p = 0)
      /\ d < p + I + I /\ (d < I * SlotNum => o < SlotNum)
  BY <1>1, OffsetTime
<1>6. n \in Nat /\ n <= o /\ (o < SlotNum => n = o)
  <2>1. n \in Nat
    BY <1>1, <1>3, AheadFacts
  <2> HIDE DEF o, k
  <2> QED BY <1>3, <1>5, <2>1, SlotAhead
<1>7. I \in Nat \ {0} /\ Jiffies \in Nat /\ f[w] \in Int /\ f[w] <= e + I
      /\ (w = 1 => I = Jiffies /\ f[w] = e + I)
  <2>1. I \in Nat \ {0} /\ (w = 1 => I = Jiffies)
    BY <1>1, IntervalType, IntervalDefined
  <2>2. Jiffies \in Nat
    BY WheelAssumption
  <2> QED BY <1>1, <2>1, <2>2 DEF Clock
<1> HIDE DEF I, n, o
<1>8. m <= p /\ m \in Nat /\ p \in Nat
  BY <1>5, <1>6, <1>7, Monotone
<1>9. w = 1 => m = p
  BY <1>2, <1>5, <1>6, <1>7 DEF I
<1>10. a = f[w] + m
  BY DEF TakenAt, m, n, I
<1> HIDE DEF m, p, a
<1>11. OnTime(e, a, e + d)
  BY <1>1, <1>2, <1>5, <1>7, <1>8, <1>9, <1>10 DEF OnTime, I
<1>12. NotEarly(w, a, e + d)
  BY <1>5, <1>7, <1>8, <1>9, <1>10 DEF NotEarly
<1>13. PutAt(r, ws, f, e, t, x, w, s)
  <2> HIDE DEF s
  <2> QED BY <1>4, <1>11, <1>12 DEF PutAt, a
<1> HIDE DEF s
<1> QED BY <1>1, <1>13

(* The same index, the same times. *)
LEMMA SameTimes ==
  ASSUME NEW ws, NEW r, \A v \in Wheels : r[v].index = ws[v].index, NEW f, NEW e
  PROVE  /\ Clock(f, ws, e) => Clock(f, r, e)
         /\ \A v \in Wheels, z \in Slots : TakenAt(f, r, v, z) = TakenAt(f, ws, v, z)
BY DEF Clock, Linked, TakenAt

(* A timer that is put into the wheels between two jiffies. *)
LEMMA PutWaits ==
  ASSUME WheelNum # 1, NEW ws \in [Wheels -> Turning], NEW e \in Nat,
         NEW f, Clock(f, ws, e), NEW t \in Timers, NEW d \in Nat,
         NEW due, Waits(ws, f, e, due),
         NEW due2, t \in DOMAIN due2, due2[t] = e + d,
         \A u \in DOMAIN due2 \ {t} : u \in DOMAIN due /\ due2[u] = due[u],
         \A v \in Wheels, z \in Slots : ~Contains(ws[v].slots[z], t),
         NEW r, r = Rearrange(ws, t, d)
  PROVE  r \in [Wheels -> Turning] /\ Clock(f, r, e) /\ Waits(r, f, e, due2)
<1>1. PICK w \in Wheels, s \in Slots : PutAt(r, ws, f, e, t, e + d, w, s)
  <2> DEFINE x == e + d
  <2>1. x = e + d
    OBVIOUS
  <2> HIDE DEF x
  <2>2. \E w \in Wheels, s \in Slots : PutAt(r, ws, f, e, t, x, w, s)
    BY <2>1, RearrangeTimes
  <2> QED BY <2>1, <2>2
<1>2. /\ Clock(f, r, e)
      /\ \A v \in Wheels, z \in Slots : TakenAt(f, r, v, z) = TakenAt(f, ws, v, z)
  BY <1>1, SameTimes DEF PutAt
<1>3. ASSUME NEW v \in Wheels, NEW z \in Slots, NEW u \in DOMAIN due2,
             Contains(r[v].slots[z], u)
      PROVE  /\ OnTime(e, TakenAt(f, r, v, z), due2[u])
             /\ NotEarly(v, TakenAt(f, r, v, z), due2[u])
  <2>1. CASE u = t
    BY <1>1, <1>2, <1>3, <2>1 DEF PutAt
  <2>2. CASE u # t
    <3>1. u \in DOMAIN due /\ due2[u] = due[u] /\ Contains(ws[v].slots[z], u)
      BY <1>1, <1>3, <2>2 DEF PutAt
    <3> QED BY <1>2, <3>1 DEF Waits
  <2> QED BY <2>1, <2>2
<1> QED BY <1>1, <1>2, <1>3 DEF Waits, PutAt

(* A timer that tick() puts into another slot. *)
LEMMA PutTicks ==
  ASSUME WheelNum # 1, NEW ws \in [Wheels -> Turning], NEW e \in Nat,
         NEW f, Clock(f, ws, e), NEW t \in Timers, NEW d \in Nat, d # 0,
         NEW due, Ticks(ws, f, e, due), t \in DOMAIN due, due[t] = e + d,
         NEW r, r = Rearrange(ws, t, d)
  PROVE  r \in [Wheels -> Turning] /\ Clock(f, r, e) /\ Ticks(r, f, e, due)
<1>1. PICK w \in Wheels, s \in Slots : PutAt(r, ws, f, e, t, e + d, w, s)
  <2> DEFINE x == e + d
  <2>1. x = e + d
    OBVIOUS
  <2> HIDE DEF x
  <2>2. \E w \in Wheels, s \in Slots : PutAt(r, ws, f, e, t, x, w, s)
    BY <2>1, RearrangeTimes
  <2> QED BY <2>1, <2>2
<1>2. /\ Clock(f, r, e)
      /\ \A v \in Wheels, z \in Slots : TakenAt(f, r, v, z) = TakenAt(f, ws, v, z)
  BY <1>1, SameTimes DEF PutAt
<1>3. ASSUME NEW v \in Wheels, NEW z \in Slots, NEW u \in DOMAIN due,
             Contains(r[v].slots[z], u)
      PROVE  /\ InJiffy(e, TakenAt(f, r, v, z), due[u])
             /\ NotEarly(v, TakenAt(f, r, v, z), due[u])
  <2>1. CASE Contains(ws[v].slots[z], u)
    BY <1>2, <2>1 DEF Ticks
  <2>2. CASE ~Contains(ws[v].slots[z], u)
    <3>1. u = t /\ v = w /\ z = s
      BY <1>1, <1>3, <2>2 DEF PutAt
    <3>2. e < e + d
      OBVIOUS
    <3> QED BY <1>1, <1>2, <3>1, <3>2 DEF InJiffy, PutAt
  <2> QED BY <2>1, <2>2
<1> QED BY <1>1, <1>2, <1>3 DEF Ticks, PutAt

(* When a wheel that took its slot takes the next one. *)
Later(f, w) == [f EXCEPT ![w] = f[w] + Interval[w]]

(* A slot is taken: the times of the others stay. *)
LEMMA TakeTimes ==
  ASSUME NEW ws \in [Wheels -> Turning], NEW w \in Wheels,
         ws[w].index # SlotNum, NEW f \in [Wheels -> Int],
         NEW e \in Nat, NEW due, Ticks(ws, f, e, due)
  PROVE  /\ Later(f, w) \in [Wheels -> Int]
         /\ Ticks(Emptied(ws, w), Later(f, w), e, due)
         /\ \A t \in DOMAIN due :
              Contains(ws[w].slots[ws[w].index], t) => NotEarly(w, f[w], due[t])
<1> DEFINE I == Interval[w]
           i == ws[w].index
           r == Emptied(ws, w)
           g == Later(f, w)
<1>1. SlotNum \in Nat \ {0} /\ I \in Nat
  BY WheelAssumption, IntervalType
<1>2. i \in Slots /\ i \in 0..SlotNum /\ i + 1 \in 0..SlotNum
  BY <1>1 DEF Turning, Slots
<1>3. <<>> \in Seq(Timers)
  OBVIOUS
<1>4. /\ r \in [Wheels -> Turning] /\ r[w].index = i + 1
      /\ \A v \in Wheels \ {w} : r[v] = ws[v]
      /\ \A v \in Wheels, z \in Slots :
           r[v].slots[z] = IF v = w /\ z = i THEN <<>> ELSE ws[v].slots[z]
  <2> DEFINE q == <<>>
             j == i + 1
  <2>1. /\ q \in Seq(Timers) /\ j \in 0..SlotNum /\ i \in Slots
        /\ ws \in [Wheels -> Turning] /\ w \in Wheels
    BY <1>2, <1>3
  <2>3. r = Slotted(ws, w, j, i, q)
    BY DEF Emptied
  <2> HIDE DEF q, j
  <2>2. /\ Slotted(ws, w, j, i, q) \in [Wheels -> Turning]
        /\ Slotted(ws, w, j, i, q)[w].index = j
        /\ \A v \in Wheels \ {w} : Slotted(ws, w, j, i, q)[v] = ws[v]
        /\ \A v \in Wheels, z \in Slots :
             Slotted(ws, w, j, i, q)[v].slots[z] =
               IF v = w /\ z = i THEN q ELSE ws[v].slots[z]
    BY ONLY <2>1, SlottedSlots
  <2> QED BY <2>2, <2>3 DEF q, j
<1>5. /\ g \in [Wheels -> Int] /\ g[w] = f[w] + I
      /\ \A v \in Wheels \ {w} : g[v] = f[v]
  BY <1>1 DEF Later
<1> HIDE DEF I, r, g
<1>6. ASSUME NEW v \in Wheels, NEW z \in Slots, ~(v = w /\ z = i)
      PROVE  TakenAt(g, r, v, z) = TakenAt(f, ws, v, z)
  <2>1. CASE v # w
    BY <1>4, <1>5, <2>1 DEF TakenAt
  <2>2. CASE v = w
    <3>1. z # i
      BY <1>6, <2>2
    <3>2. Ahead(z, i) \in Nat /\ Ahead(z, i + 1) = Ahead(z, i) - 1
      BY <1>2, <3>1, AheadFacts
    <3>3. /\ I * (Ahead(z, i) - 1) = I * Ahead(z, i) - I
          /\ I * Ahead(z, i) \in Int
      <4> DEFINE n == Ahead(z, i)
      <4>1. I \in Int /\ n \in Int
        BY <1>1, <3>2
      <4> HIDE DEF n
      <4>2. I * (n - 1) = I * n - I /\ I * n \in Int
        BY ONLY <4>1, Distribute
      <4> QED BY <4>2 DEF n
    <3>4. TakenAt(g, r, v, z) = (f[w] + I) + I * (Ahead(z, i) - 1)
      BY <1>4, <1>5, <2>2, <3>2 DEF TakenAt, I
    <3>5. TakenAt(f, ws, v, z) = f[w] + I * Ahead(z, i)
      BY <2>2 DEF TakenAt, I
    <3> QED BY <1>1, <3>3, <3>4, <3>5
  <2> QED BY <2>1, <2>2
<1>7. Ticks(r, g, e, due)
  <2> SUFFICES ASSUME NEW v \in Wheels, NEW z \in Slots, NEW t \in DOMAIN due,
                      Contains(r[v].slots[z], t)
               PROVE  /\ InJiffy(e, TakenAt(g, r, v, z), due[t])
                      /\ NotEarly(v, TakenAt(g, r, v, z), due[t])
    BY DEF Ticks
  <2>1. ~(v = w /\ z = i)
    BY <1>4, ContainsNone
  <2>2. r[v].slots[z] = ws[v].slots[z]
    BY <1>4, <2>1
  <2> QED BY <1>6, <2>1, <2>2 DEF Ticks
<1>8. TakenAt(f, ws, w, i) = f[w]
  <2>1. Ahead(i, i) = 0 /\ I * 0 = 0 /\ f[w] \in Int
    BY <1>1, <1>2, AheadFacts, Distribute
  <2> QED BY <2>1 DEF TakenAt, I
<1>9. ASSUME NEW t \in DOMAIN due, Contains(ws[w].slots[i], t)
      PROVE  NotEarly(w, f[w], due[t])
  BY <1>2, <1>8, <1>9 DEF Ticks
<1> QED BY <1>5, <1>7, <1>9 DEF r, g

(* A wheel that went round starts over: its slots are as far ahead. *)
LEMMA RoundTimes ==
  ASSUME NEW ws, NEW r, NEW w \in Wheels,
         ws[w].index = SlotNum, r[w].index = 0, r[w].slots = ws[w].slots,
         \A v \in Wheels \ {w} : r[v] = ws[v],
         NEW f, NEW e, NEW due, Ticks(ws, f, e, due)
  PROVE  Ticks(r, f, e, due)
<1>1. \A z \in Slots : Ahead(z, SlotNum) = Ahead(z, 0)
  BY AheadFacts, WheelAssumption
<1>2. \A v \in Wheels, z \in Slots :
        /\ TakenAt(f, r, v, z) = TakenAt(f, ws, v, z)
        /\ r[v].slots[z] = ws[v].slots[z]
  BY <1>1 DEF TakenAt
<1> QED BY <1>2 DEF Ticks

Expires == [t \in DOMAIN timers |-> timers[t].expires]

LEMMA ExpiresType ==
  ASSUME WheelTypeOK
  PROVE  /\ DOMAIN Expires = DOMAIN timers
         /\ \A t \in DOMAIN timers :
              Expires[t] = timers[t].expires /\ Expires[t] \in Nat
BY DEF Expires, WheelTypeOK, TimerData

(* What is activated in a jiffy: nothing due a jiffy later or after that. *)
Activates(old, new, e) ==
  /\ \A t : Contains(old, t) => Contains(new, t)
  /\ \A t \in DOMAIN timers :
       Contains(new, t) => Contains(old, t) \/ Expires[t] < e + Jiffies

LEMMA ActivatesMore ==
  ASSUME NEW a, NEW b, NEW c, NEW e, Activates(a, b, e), Activates(b, c, e)
  PROVE  Activates(a, c, e)
BY DEF Activates

LEMMA ActivatesNone == \A a, e : Activates(a, a, e)
BY DEF Activates

(* The wheels of a state within tick() run on time. *)
RunsOnTime(x, f) ==
  Clock(f, x.wheels, x.elapsed) /\ Ticks(x.wheels, f, x.elapsed, Expires)

LEMMA PlaceTimes ==
  ASSUME WheelTypeOK, WheelNum # 1, NEW x \in State, NEW f, RunsOnTime(x, f),
         NEW t \in Timers
  PROVE  /\ RunsOnTime(Place(x, t), f)
         /\ Activates(x.activated, Place(x, t).activated, x.elapsed)
<1> DEFINE y == Place(x, t)
           e == x.elapsed
           ws == x.wheels
<1>1. /\ ws \in [Wheels -> Turning] /\ x.activated \in Seq(Timers) /\ e \in Nat
      /\ x = [elapsed |-> e, wheels |-> ws, activated |-> x.activated,
              moving |-> x.moving, carry |-> x.carry]
  BY DEF State
<1>2. Clock(f, ws, e) /\ Ticks(ws, f, e, Expires)
  BY DEF RunsOnTime
<1>3. CASE ~Used(t)
  <2>1. y = x
    BY <1>3 DEF Place
  <2> QED BY <2>1, ActivatesNone
<1>4. CASE Used(t) /\ timers[t].expires > e
  <2> DEFINE d == timers[t].expires - e
             r == Rearrange(ws, t, d)
  <2>1. /\ t \in DOMAIN Expires /\ Expires[t] = timers[t].expires
        /\ timers[t].expires \in Nat
    BY <1>4, ExpiresType DEF Used
  <2>2. d \in Nat /\ d # 0 /\ Expires[t] = e + d
    BY <1>1, <1>4, <2>1
  <2>3. y = [x EXCEPT !.wheels = r]
    BY <1>4 DEF Place
  <2> HIDE DEF d
  <2>4. Clock(f, r, e) /\ Ticks(r, f, e, Expires)
    <3> HIDE DEF r, e, ws
    <3>1. r = Rearrange(ws, t, d)
      BY DEF r
    <3> QED BY <1>1, <1>2, <2>1, <2>2, <3>1, PutTicks
  <2> HIDE DEF r
  <2>5. y.wheels = r /\ y.activated = x.activated /\ y.elapsed = e
    BY <1>1, <2>3
  <2> HIDE DEF y
  <2> QED BY <2>4, <2>5, ActivatesNone DEF RunsOnTime, y, e
<1>5. CASE Used(t) /\ ~(timers[t].expires > e)
  <2> DEFINE a == Append(x.activated, t)
  <2>1. y = [x EXCEPT !.activated = a]
    BY <1>5 DEF Place
  <2>2. \A u : Contains(a, u) <=> Contains(x.activated, u) \/ u = t
    BY <1>1, ContainsAppend
  <2>3. Expires[t] < e + Jiffies
    <3>1. Expires[t] = timers[t].expires /\ Expires[t] \in Nat
      BY <1>5, ExpiresType DEF Used
    <3> QED BY <1>1, <1>5, <3>1, WheelAssumption
  <2> HIDE DEF a
  <2>4. Activates(x.activated, a, e)
    BY <2>2, <2>3 DEF Activates
  <2>5. y.wheels = ws /\ y.activated = a /\ y.elapsed = e
    BY <1>1, <2>1
  <2> HIDE DEF y, e, ws
  <2> QED BY <1>2, <2>4, <2>5 DEF RunsOnTime, y, e
<1> HIDE DEF y
<1> QED BY <1>3, <1>4, <1>5

LEMMA PlaceAllTimes ==
  ASSUME WheelTypeOK, WheelNum # 1, NEW x \in State, NEW f, RunsOnTime(x, f),
         AllPlaced(x.wheels, x.activated, x.moving)
  PROVE  /\ RunsOnTime(PlaceAll(x), f)
         /\ Activates(x.activated, PlaceAll(x).activated, x.elapsed)
<1> DEFINE m == x.moving
           n == Len(m)
           Good(k) == {y \in State :
                         /\ Alike(x, y)
                         /\ AllPlaced(y.wheels, y.activated, Rest(m, k))
                         /\ RunsOnTime(y, f)
                         /\ Activates(x.activated, y.activated, x.elapsed)}
           S == [k \in 0..n |-> Good(k)]
<1>1. m \in Seq(Timers) /\ n \in Nat /\ n \in 0..n /\ 0 \in 0..n
  BY LenProperties DEF State
<1>2. \A k \in 0..n : S[k] = Good(k)
  OBVIOUS
<1>3. ASSUME NEW k \in 1..n, NEW y \in S[k - 1]
      PROVE  Place(y, m[k]) \in S[k]
  <2> DEFINE r == Rest(m, k - 1)
             z == Place(y, m[k])
  <2>1. k - 1 \in 0..n /\ k \in 0..n
    BY <1>1
  <2>2. /\ r \in Seq(Timers) /\ r # <<>> /\ r[1] = m[k] /\ Tail(r) = Rest(m, k)
    <3> HIDE DEF m
    <3> QED BY <1>1, <2>1, RestProperties
  <2>3. m[k] \in Timers
    BY <1>1, LenProperties
  <2>4. /\ y \in State /\ Alike(x, y) /\ AllPlaced(y.wheels, y.activated, r)
        /\ RunsOnTime(y, f) /\ Activates(x.activated, y.activated, x.elapsed)
    BY <1>2, <2>1
  <2> HIDE DEF r, m
  <2>5. z \in State /\ Alike(y, z) /\ AllPlaced(z.wheels, z.activated, Rest(m, k))
    <3>1. /\ Place(y, r[1]) \in State /\ Alike(y, Place(y, r[1]))
          /\ AllPlaced(Place(y, r[1]).wheels, Place(y, r[1]).activated, Tail(r))
      BY <2>2, <2>4, PlaceSound
    <3> QED BY <2>2, <3>1
  <2>6. /\ RunsOnTime(z, f) /\ Activates(y.activated, z.activated, y.elapsed)
    BY <2>3, <2>4, PlaceTimes
  <2> HIDE DEF z
  <2>7. Alike(x, z) /\ y.elapsed = x.elapsed
    BY <2>4, <2>5 DEF Alike
  <2>8. Activates(x.activated, z.activated, x.elapsed)
    BY <2>4, <2>6, <2>7, ActivatesMore
  <2>9. z \in Good(k)
    BY <2>5, <2>6, <2>7, <2>8
  <2> HIDE DEF S, Good
  <2> QED BY <1>2, <2>1, <2>9 DEF z
<1>4. x \in S[0]
  <2>1. Rest(m, 0) = m
    BY <1>1, RestProperties
  <2>2. x \in Good(0)
    BY <2>1, ActivatesNone DEF Alike
  <2> QED BY <1>1, <1>2, <2>2
<1>5. PlaceAll(x) \in S[n]
  <2>1. x \in State /\ x \in S[0]
    BY <1>4
  <2>2. \A k \in 1..n : \A y \in S[k - 1] : Place(y, m[k]) \in S[k]
    BY <1>3
  <2> HIDE DEF S
  <2> QED BY ONLY <2>1, <2>2, PlaceAllIn
<1>6. PlaceAll(x) \in Good(n)
  <2> HIDE DEF S, n, Good
  <2> QED BY <1>1, <1>2, <1>5
<1> QED BY <1>6

(* Wheel w is set to its beginning, and the next one, u, moves on. *)
GoesRound(r, ws, w, u) ==
  /\ u = w + 1 /\ ws[w].index = SlotNum /\ r[w].index = 0
  /\ r[u].index = ws[u].index + 1
  /\ \A v \in Wheels \ {w, u} : r[v].index = ws[v].index

(* A wheel that took a slot just now waits for its whole interval. *)
TookSlot(f, e, w) == f[w] = e + Interval[w]

(* When a wheel goes round, the next one takes its slot now. *)
LEMMA ClockRolls ==
  ASSUME NEW ws \in [Wheels -> Turning], NEW w \in Wheels, NEW u \in Wheels,
         NEW r, GoesRound(r, ws, w, u),
         NEW e \in Nat, NEW f, Clock(f, ws, e), TookSlot(f, e, w)
  PROVE  Clock(Later(f, u), r, e) /\ TookSlot(Later(f, u), e, u)
<1> DEFINE g == Later(f, u)
<1>0. /\ u = w + 1 /\ ws[w].index = SlotNum /\ r[w].index = 0
      /\ r[u].index = ws[u].index + 1
      /\ \A v \in Wheels \ {w, u} : r[v].index = ws[v].index
      /\ f[w] = e + Interval[w] /\ g = [f EXCEPT ![u] = f[u] + Interval[u]]
  BY DEF GoesRound, TookSlot, Later
<1> HIDE DEF g
<1> DEFINE I == Interval[w]
           K == Interval[u]
           i == ws[u].index
<1>1. /\ SlotNum \in Nat \ {0} /\ I \in Nat /\ K \in Nat /\ K = I * SlotNum
      /\ i \in Nat /\ w \in Nat /\ Jiffies \in Nat
      /\ u # w /\ u \in Wheels /\ u # 1 /\ u - 1 = w
  <2>1. i \in 0..SlotNum
    BY DEF Turning
  <2>2. w \in Nat \ {0}
    BY DEF Wheels
  <2>3. Interval[u] = Interval[u - 1] * SlotNum
    BY <1>0, <2>2, IntervalDefined
  <2> QED BY <1>0, <2>1, <2>2, <2>3, WheelAssumption, IntervalType
<1>2. /\ f \in [Wheels -> Int] /\ f[1] = e + Jiffies
      /\ \A v \in Wheels : f[v] <= e + Interval[v] /\ Linked(f, ws, v)
  BY DEF Clock
<1> HIDE DEF I, K, i
<1>3. f[u] = e
  <2>1. f[u] = f[w] + I * (SlotNum - 1 - SlotNum)
    BY <1>0, <1>1, <1>2 DEF Linked, I
  <2>2. SlotNum - 1 - SlotNum = 0 - 1 /\ I * (0 - 1) = I * 0 - I /\ I * 0 = 0
    BY <1>1, Distribute
  <2>3. f[w] = e + I
    BY <1>0 DEF I
  <2> QED BY <1>1, <2>1, <2>2, <2>3
<1>4. /\ g \in [Wheels -> Int] /\ g[u] = f[u] + K
      /\ \A v \in Wheels \ {u} : g[v] = f[v]
  <2> DEFINE m == f[u] + K
  <2>1. m \in Int /\ g = [f EXCEPT ![u] = m] /\ f \in [Wheels -> Int]
        /\ u \in Wheels
    BY <1>0, <1>1, <1>2, <1>3 DEF K
  <2> HIDE DEF m
  <2>2. /\ g \in [Wheels -> Int] /\ g[u] = m
        /\ \A v \in Wheels \ {u} : g[v] = f[v]
    BY ONLY <2>1
  <2> QED BY <2>2 DEF m
<1>5. g[u] = e + K
  BY <1>3, <1>4
<1>6. g[1] = e + Jiffies /\ 1 \in Wheels
  <2>1. 1 \in Wheels
    BY WheelAssumption DEF Wheels
  <2> QED BY <1>1, <1>2, <1>4, <2>1
<1>7. ASSUME NEW v \in Wheels PROVE g[v] <= e + Interval[v]
  <2>1. CASE v = u
    BY <1>1, <1>5, <2>1 DEF K
  <2>2. CASE v # u
    BY <1>2, <1>4, <2>2
  <2> QED BY <2>1, <2>2
<1>8. ASSUME NEW v \in Wheels PROVE Linked(g, r, v)
  <2>1. CASE v = w
    <3>1. /\ SlotNum - 1 - 0 = SlotNum - 1
          /\ I * (SlotNum - 1) = I * SlotNum - I
      BY <1>1, Distribute
    <3>2. g[w] = e + I
      BY <1>0, <1>1, <1>4 DEF I
    <3>3. g[u] = g[w] + I * (SlotNum - 1 - r[w].index)
      <4> DEFINE m == I * SlotNum
      <4>1. m = K /\ I * (SlotNum - 1 - r[w].index) = m - I
        BY <1>0, <1>1, <3>1
      <4> HIDE DEF m
      <4> QED BY <1>1, <1>5, <3>2, <4>1
    <3> QED BY <1>0, <2>1, <3>3 DEF Linked, I
  <2>2. CASE v = u
    <3> DEFINE y == SlotNum - 1 - i
    <3>1. ASSUME u + 1 \in Wheels
          PROVE  g[u + 1] = g[u] + K * (SlotNum - 1 - r[u].index)
      <4>1. f[u + 1] = f[u] + K * y
        BY <1>1, <1>2, <3>1 DEF Linked, K, i
      <4>2. r[u].index = i + 1
        BY <1>0 DEF i
      <4>3. y \in Int /\ SlotNum - 1 - r[u].index = y - 1
        BY <1>1, <4>2
      <4> HIDE DEF y
      <4>4. K * (y - 1) = K * y - K /\ K * y \in Int
        BY <1>1, <4>3, Distribute
      <4>5. g[u + 1] = f[u + 1]
        <5>1. u + 1 # u
          BY <1>1
        <5> QED BY <1>4, <3>1, <5>1
      <4> DEFINE m == K * y
      <4>6. /\ f[u + 1] = f[u] + m /\ m \in Int
            /\ K * (SlotNum - 1 - r[u].index) = m - K
        BY <4>1, <4>3, <4>4
      <4> HIDE DEF m
      <4> QED BY <1>1, <1>3, <1>5, <4>5, <4>6
    <3> QED BY <2>2, <3>1 DEF Linked, K
  <2>3. CASE v # w /\ v # u
    <3>1. v + 1 # u
      BY <1>0, <2>3 DEF Wheels
    <3>2. r[v].index = ws[v].index
      BY <1>0, <2>3
    <3> QED BY <1>2, <1>4, <2>3, <3>1, <3>2 DEF Linked
  <2> QED BY <2>1, <2>2, <2>3
<1> QED BY <1>4, <1>5, <1>6, <1>7, <1>8 DEF Clock, TookSlot, K, g

(* The clock when the last wheel goes round. *)
LEMMA ClockEnds ==
  ASSUME NEW ws, NEW w \in Wheels, w + 1 \notin Wheels,
         NEW e, NEW f, Clock(f, ws, e),
         NEW r, \A v \in Wheels \ {w} : r[v].index = ws[v].index
  PROVE  Clock(f, r, e)
BY DEF Clock, Linked

(* After wheel k: if it took a slot just now, it waits for a whole turn. *)
Rolls(x, k, f) ==
  /\ RunsOnTime(x, f)
  /\ \A w \in Wheels : x.carry /\ w = k + 1 => TookSlot(f, x.elapsed, w)

LEMMA RollTimes ==
  ASSUME WheelTypeOK, WheelNum # 1, NEW x, NEW w \in Wheels, Turned(x, w - 1),
         NEW f, Rolls(x, w - 1, f)
  PROVE  /\ \E g : Rolls(Roll(x, w), w, g)
         /\ Activates(x.activated, Roll(x, w).activated, x.elapsed)
<1> DEFINE e == x.elapsed
           ws == x.wheels
<1>1. /\ x \in State /\ AllPlaced(ws, x.activated, <<>>)
      /\ \A v \in Wheels : ws[v].index = SlotNum => v = w /\ x.carry
      /\ w \in 1..WheelNum /\ WheelNum \in Nat
  BY WheelAssumption DEF Turned, Wheels
<1>2. /\ Clock(f, ws, e) /\ Ticks(ws, f, e, Expires)
      /\ x.carry => TookSlot(f, e, w)
  <2>1. (w - 1) + 1 = w
    BY <1>1
  <2> QED BY <2>1 DEF Rolls, RunsOnTime
<1>3. e \in Nat /\ ws \in [Wheels -> Turning]
  BY <1>1 DEF State
<1>4. CASE ~x.carry \/ ws[w].index # SlotNum
  <2> DEFINE y == [x EXCEPT !.carry = FALSE]
  <2>1. Roll(x, w) = y
    BY <1>4 DEF Roll
  <2>2. /\ y.wheels = ws /\ y.activated = x.activated /\ y.elapsed = e
        /\ y.carry = FALSE
    BY <1>1 DEF State
  <2> HIDE DEF y
  <2>3. Rolls(y, w, f)
    BY <1>2, <2>2 DEF Rolls, RunsOnTime
  <2> QED BY <2>1, <2>2, <2>3, ActivatesNone
<1>5. CASE x.carry /\ ws[w].index = SlotNum
  <2> DEFINE round == Rounded(x, w)
             u == w + 1
             taken == Take(round, u)
             rs == round.wheels
  <2>1. Roll(x, w) = IF w = WheelNum THEN round ELSE PlaceAll(taken)
    BY <1>5 DEF Roll, Rounded
  <2>2. /\ round \in State /\ AllPlaced(rs, round.activated, <<>>)
        /\ rs[w].index = 0
        /\ \A v \in Wheels \ {w} : rs[v] = ws[v]
        /\ round.carry = x.carry /\ round.elapsed = e
    BY <1>1, RoundSound
  <2>3. rs[w].slots = ws[w].slots /\ round.activated = x.activated
    <3> DEFINE new == [ws[w] EXCEPT !.index = 0]
    <3>1. round = [x EXCEPT !.wheels = [ws EXCEPT ![w] = new]]
      BY DEF Rounded
    <3>2. new.slots = ws[w].slots
      <4>1. ws[w] \in Turning
        BY <1>3
      <4>2. \A z \in Turning : [z EXCEPT !.index = 0].slots = z.slots
        BY DEF Turning
      <4> HIDE DEF ws
      <4> QED BY <4>1, <4>2
    <3> HIDE DEF new
    <3> QED BY <1>1, <1>3, <3>1, <3>2 DEF State
  <2> HIDE DEF round
  <2>4. Ticks(rs, f, e, Expires)
    <3> HIDE DEF rs, ws, e
    <3> QED BY <1>2, <1>5, <2>2, <2>3, RoundTimes
  <2>5. rs \in [Wheels -> Turning]
    BY <2>2 DEF State
  <2>6. CASE w = WheelNum
    <3>1. w + 1 \notin Wheels
      BY <1>1, <2>6 DEF Wheels
    <3>2. Clock(f, rs, e)
      <4>1. \A v \in Wheels \ {w} : rs[v].index = ws[v].index
        BY <2>2
      <4> HIDE DEF rs, ws, e
      <4> QED BY <1>2, <3>1, <4>1, ClockEnds
    <3>3. Rolls(round, w, f)
      <4>1. \A v \in Wheels : v # w + 1
        BY <3>1
      <4> QED BY <2>2, <2>4, <3>2, <4>1 DEF Rolls, RunsOnTime
    <3> QED BY <2>1, <2>3, <2>6, <3>3, ActivatesNone
  <2>7. CASE w # WheelNum
    <3> DEFINE i == rs[u].index
               r == Emptied(rs, u)
               g == Later(f, u)
    <3>1. u \in Wheels /\ u # w
      BY <1>1, <2>7 DEF Wheels
    <3>2. i # SlotNum
      BY <1>1, <2>2, <3>1
    <3>3. /\ taken.wheels = r /\ taken.moving = rs[u].slots[i]
          /\ taken.activated = x.activated /\ taken.carry = TRUE
          /\ taken.elapsed = e
      <4>1. /\ round \in State /\ u \in Wheels /\ i # SlotNum
            /\ i = round.wheels[u].index
        BY <2>2, <3>1, <3>2
      <4>2. rs = round.wheels
        OBVIOUS
      <4> HIDE DEF u, i, rs, taken
      <4>3. /\ Take(round, u).wheels = Emptied(round.wheels, u)
            /\ Take(round, u).moving = round.wheels[u].slots[i]
            /\ Take(round, u).activated = round.activated
            /\ Take(round, u).carry = round.carry
            /\ Take(round, u).elapsed = round.elapsed
        BY ONLY <4>1, TakeIs
      <4> QED BY <1>5, <2>2, <2>3, <4>2, <4>3 DEF taken
    <3>4. /\ taken \in State
          /\ AllPlaced(taken.wheels, taken.activated, taken.moving)
          /\ taken.wheels[u].index = i + 1
          /\ \A v \in Wheels \ {u} : taken.wheels[v] = rs[v]
      <4> HIDE DEF u
      <4> QED BY <2>2, <3>1, <3>2, TakeSound, TakeLayout
    <3>5. f \in [Wheels -> Int]
      BY <1>2 DEF Clock
    <3>6. Ticks(r, g, e, Expires)
      <4> DEFINE j == rs[u].index
      <4> HIDE DEF u, rs, e
      <4> QED BY <1>3, <2>4, <2>5, <3>1, <3>2, <3>5, TakeTimes DEF e
    <3>7. Clock(g, r, e) /\ TookSlot(g, e, u)
      <4>1. GoesRound(r, ws, w, u)
        <5>1. /\ r[w].index = 0 /\ r[u].index = ws[u].index + 1
              /\ \A v \in Wheels \ {w, u} : r[v].index = ws[v].index
          BY <2>2, <3>1, <3>3, <3>4
        <5> HIDE DEF r, ws
        <5> QED BY <1>5, <5>1 DEF GoesRound, ws
      <4>2. /\ Clock(f, ws, e) /\ TookSlot(f, e, w) /\ u \in Wheels /\ w \in Wheels
            /\ ws \in [Wheels -> Turning] /\ e \in Nat
        BY <1>2, <1>3, <1>5, <3>1
      <4> HIDE DEF r, ws, e, u
      <4> QED BY ONLY <4>1, <4>2, ClockRolls
    <3> HIDE DEF r, g, taken
    <3>8. RunsOnTime(taken, g)
      BY <3>3, <3>6, <3>7 DEF RunsOnTime
    <3> DEFINE y == PlaceAll(taken)
    <3>9. /\ RunsOnTime(y, g) /\ Activates(taken.activated, y.activated, taken.elapsed)
      BY <3>4, <3>8, PlaceAllTimes
    <3>10. Alike(taken, y)
      BY <3>4, PlaceAllSound
    <3> HIDE DEF y
    <3>11. y.elapsed = e
      BY <3>3, <3>10 DEF Alike
    <3>12. Rolls(y, w, g)
      BY <3>7, <3>9, <3>11 DEF Rolls
    <3> QED BY <2>1, <2>7, <3>3, <3>9, <3>12 DEF y
  <2> QED BY <2>6, <2>7
<1> HIDE DEF e, ws
<1>6. x.carry \in BOOLEAN
  BY <1>1 DEF State
<1> QED BY <1>4, <1>5, <1>6

LEMMA RollAllTimes ==
  ASSUME WheelTypeOK, WheelNum # 1, NEW x, Turned(x, 0), NEW f, Rolls(x, 0, f)
  PROVE  /\ \E g : RunsOnTime(RollAll(x), g)
         /\ Activates(x.activated, RollAll(x).activated, x.elapsed)
<1> DEFINE n == WheelNum
           Good(k) == {y \in State :
                         /\ Turned(y, k) /\ y.elapsed = x.elapsed
                         /\ \E g : Rolls(y, k, g)
                         /\ Activates(x.activated, y.activated, x.elapsed)}
           S == [k \in 0..n |-> Good(k)]
<1>1. n \in Nat /\ n \in 0..n /\ 0 \in 0..n
  BY WheelAssumption
<1>2. \A k \in 0..n : S[k] = Good(k)
  OBVIOUS
<1>3. ASSUME NEW k \in Wheels, NEW y \in S[k - 1]
      PROVE  Roll(y, k) \in S[k]
  <2> DEFINE z == Roll(y, k)
  <2>1. k - 1 \in 0..n /\ k \in 0..n
    BY <1>1 DEF Wheels
  <2>2. /\ Turned(y, k - 1) /\ y.elapsed = x.elapsed
        /\ \E g : Rolls(y, k - 1, g)
        /\ Activates(x.activated, y.activated, x.elapsed)
    BY <1>2, <2>1
  <2>3. Turned(z, k) /\ z.elapsed = x.elapsed
    BY <2>2, RollSound
  <2>4. PICK h : Rolls(y, k - 1, h)
    BY <2>2
  <2>5. /\ \E g : Rolls(z, k, g)
        /\ Activates(y.activated, z.activated, x.elapsed)
    BY <2>2, <2>4, RollTimes
  <2> HIDE DEF z
  <2>6. Activates(x.activated, z.activated, x.elapsed)
    BY <2>2, <2>5, ActivatesMore
  <2>7. z \in Good(k)
    BY <2>3, <2>5, <2>6 DEF Turned
  <2> HIDE DEF S, Good
  <2> QED BY <1>2, <2>1, <2>7 DEF z
<1>4. x \in S[0]
  <2>1. x \in Good(0)
    BY ActivatesNone DEF Turned
  <2> HIDE DEF Good, S
  <2> QED BY <1>1, <1>2, <2>1
<1>5. RollAll(x) \in S[WheelNum]
  <2>1. \A k \in Wheels : \A y \in S[k - 1] : Roll(y, k) \in S[k]
    BY <1>3
  <2> HIDE DEF S
  <2> QED BY ONLY <1>4, <2>1, RollAllIn
<1>6. RollAll(x) \in Good(n)
  <2> HIDE DEF S, Good
  <2> QED BY <1>1, <1>2, <1>5
<1> QED BY <1>6 DEF Rolls

(* When no wheel is past its last slot, none is due before the first. *)
LEMMA ClockAhead ==
  ASSUME NEW ws \in [Wheels -> Turning], \A w \in Wheels : ws[w].index # SlotNum,
         NEW e \in Nat, NEW f, Clock(f, ws, e)
  PROVE  \A w \in Wheels, s \in Slots : TakenAt(f, ws, w, s) > e
<1> DEFINE n == WheelNum - 1
           S == [k \in 0..n |-> {y \in Int : y >= e + Jiffies}]
           g == [k \in 0..n |-> f[k + 1]]
<1>1. /\ n \in Nat /\ WheelNum \in Nat \ {0}
      /\ SlotNum \in Nat \ {0} /\ Jiffies \in Nat \ {0}
  BY WheelAssumption
<1>2. /\ f \in [Wheels -> Int] /\ f[1] = e + Jiffies
      /\ \A w \in Wheels : Linked(f, ws, w)
  BY DEF Clock
<1>3. g[0] \in S[0]
  BY <1>1, <1>2
<1>4. ASSUME NEW k \in 1..n, g[k - 1] \in S[k - 1] PROVE g[k] \in S[k]
  <2>1. /\ k \in Wheels /\ k + 1 \in Wheels /\ (k - 1) + 1 = k
        /\ k \in 0..n /\ k - 1 \in 0..n
    BY <1>1 DEF Wheels
  <2>2. f[k] >= e + Jiffies /\ f[k] \in Int /\ f[k + 1] \in Int
    BY <1>2, <1>4, <2>1
  <2> DEFINE b == SlotNum - 1 - ws[k].index
             m == Interval[k] * b
  <2>3. b \in Nat
    <3>1. ws[k].index \in 0..SlotNum /\ ws[k].index # SlotNum
      BY <2>1 DEF Turning
    <3> QED BY <1>1, <3>1
  <2>4. f[k + 1] = f[k] + m
    BY <1>2, <2>1 DEF Linked
  <2>5. m \in Nat
    <3> HIDE DEF b
    <3>1. Interval[k] \in Nat
      BY <2>1, IntervalType
    <3> QED BY <2>3, <3>1
  <2> HIDE DEF m
  <2>6. f[k + 1] >= e + Jiffies
    BY <1>1, <2>2, <2>4, <2>5
  <2> QED BY <2>1, <2>2, <2>6
<1>5. \A k \in 0..n : g[k] \in S[k]
  <2> HIDE DEF n, S, g
  <2>1. Keeps(g, n, S)
    BY <1>3, <1>4 DEF Keeps
  <2> QED BY ONLY <1>1, <2>1, StaysIn
<1> SUFFICES ASSUME NEW w \in Wheels, NEW s \in Slots
             PROVE  TakenAt(f, ws, w, s) > e
  OBVIOUS
<1>6. f[w] \in Int /\ f[w] >= e + Jiffies
  <2>1. w - 1 \in 0..n /\ (w - 1) + 1 = w
    BY <1>1 DEF Wheels
  <2>2. g[w - 1] \in S[w - 1]
    BY <1>5, <2>1
  <2> QED BY <2>1, <2>2
<1> DEFINE a == Ahead(s, ws[w].index)
           m == Interval[w] * a
<1>7. m \in Nat
  <2>1. ws[w].index \in 0..SlotNum /\ Interval[w] \in Nat
    BY IntervalType DEF Turning
  <2>2. a \in Nat
    BY <2>1, AheadFacts
  <2> HIDE DEF a
  <2> QED BY <2>1, <2>2
<1>8. TakenAt(f, ws, w, s) = f[w] + m
  BY DEF TakenAt
<1> HIDE DEF m
<1> QED BY <1>1, <1>6, <1>7, <1>8

(* The wheels at the beginning of a jiffy, and at its end. *)
LEMMA JiffyBegins ==
  ASSUME NEW ws \in [Wheels -> Turning], NEW e \in Nat,
         NEW f \in [Wheels -> Int], NEW due, \A t \in DOMAIN due : due[t] \in Nat,
         Waits(ws, f, e, due)
  PROVE  Ticks(ws, f, e + Jiffies, due)
<1> SUFFICES ASSUME NEW w \in Wheels, NEW s \in Slots, NEW t \in DOMAIN due,
                    Contains(ws[w].slots[s], t)
             PROVE  /\ InJiffy(e + Jiffies, TakenAt(f, ws, w, s), due[t])
                    /\ NotEarly(w, TakenAt(f, ws, w, s), due[t])
  BY DEF Ticks
<1> DEFINE a == TakenAt(f, ws, w, s)
<1>1. OnTime(e, a, due[t]) /\ NotEarly(w, a, due[t])
  BY DEF Waits
<1>2. a \in Int /\ due[t] \in Nat /\ Jiffies \in Nat
  BY TakenAtType, WheelAssumption
<1> HIDE DEF a
<1>3. InJiffy(e + Jiffies, a, due[t])
  BY <1>1, <1>2 DEF InJiffy, OnTime
<1> QED BY <1>1, <1>3 DEF a

LEMMA JiffyOver ==
  ASSUME NEW ws \in [Wheels -> Turning], \A w \in Wheels : ws[w].index # SlotNum,
         NEW e \in Nat, NEW f, Clock(f, ws, e),
         NEW due, Ticks(ws, f, e, due)
  PROVE  /\ Waits(ws, f, e, due)
         /\ \A w \in Wheels, s \in Slots, t \in DOMAIN due :
              Contains(ws[w].slots[s], t) => e < due[t]
<1>1. ASSUME NEW w \in Wheels, NEW s \in Slots, NEW t \in DOMAIN due,
             Contains(ws[w].slots[s], t)
      PROVE  /\ OnTime(e, TakenAt(f, ws, w, s), due[t])
             /\ NotEarly(w, TakenAt(f, ws, w, s), due[t])
             /\ e < due[t]
  <2> DEFINE a == TakenAt(f, ws, w, s)
  <2>1. InJiffy(e, a, due[t]) /\ NotEarly(w, a, due[t])
    BY <1>1 DEF Ticks
  <2>2. a > e /\ a \in Int
    <3>1. f \in [Wheels -> Int]
      BY DEF Clock
    <3> QED BY <3>1, ClockAhead, TakenAtType
  <2> HIDE DEF a
  <2>3. OnTime(e, a, due[t]) /\ e < due[t]
    BY <2>1, <2>2 DEF InJiffy
  <2> QED BY <2>1, <2>3 DEF a
<1> QED BY <1>1 DEF Waits

-----------------------------------------------------------------------------
(***************************************************************************)
(* The wheels of an environment run on time, if there is more than one and *)
(* no due time is past what the width of the clock can hold.               *)
(***************************************************************************)
InRange ==
  /\ WheelNum # 1
  /\ \A d \in Delays, extra \in BOOLEAN : Span(d, extra) + MaxElapsed < Width

NoWrap ==
  /\ elapsed + slice <= MaxElapsed
  /\ \A t \in DOMAIN timers : timers[t].rate + MaxElapsed < Width

OnClock ==
  \E f : Clock(f, wheels, elapsed) /\ Waits(wheels, f, elapsed, Expires)

DueInv == BinInv /\ NoWrap /\ OnClock

(* What one jiffy does. *)
LEMMA JiffyTimes ==
  ASSUME InRange, BinInv, OnClock, Jiffy
  PROVE  /\ elapsed' = elapsed + Jiffies /\ OnClock'
         /\ Activates(activated, activated', elapsed')
         /\ \A w \in Wheels, s \in Slots, t \in DOMAIN timers :
              Contains(wheels'[w].slots[s], t) => elapsed' < Expires[t]
<1> DEFINE i == wheels[1].index
           j == i + 1
           x == FirstTaken
           e == elapsed + Jiffies
           r == Emptied(wheels, 1)
           q == wheels[1].slots[i]
<1>1. WheelTypeOK /\ WheelNum # 1 /\ phase = "tick"
  BY DEF InRange, BinInv, Jiffy
<1>2. /\ i \in Slots /\ at = 0 /\ Turned(x, 0) /\ x.wheels = r
      /\ x.activated = activated \o q /\ x.elapsed = e
  BY <1>1, FirstTurn
<1>3. PICK f : Clock(f, wheels, elapsed) /\ Waits(wheels, f, elapsed, Expires)
  BY DEF OnClock
<1>4. /\ wheels \in [Wheels -> Turning] /\ elapsed \in Nat /\ e \in Nat
      /\ \A v \in Wheels : wheels[v].index # SlotNum
      /\ f \in [Wheels -> Int] /\ Jiffies \in Nat /\ 1 \in Wheels
      /\ activated \in Seq(Timers) /\ Interval[1] = Jiffies
  <2>1. Jiffies \in Nat /\ 1 \in Wheels
    BY WheelAssumption DEF Wheels
  <2>2. Interval[1] = Jiffies
    BY <2>1, IntervalDefined
  <2> QED BY <1>1, <1>3, <2>1, <2>2, HereType DEF Clock, WheelTypeOK
<1> DEFINE g == Later(f, 1)
<1>5. Ticks(wheels, f, e, Expires)
  <2>1. \A t \in DOMAIN Expires : Expires[t] \in Nat
    BY <1>1, ExpiresType
  <2> DEFINE ws == wheels
             due == Expires
             e0 == elapsed
  <2>2. /\ ws \in [Wheels -> Turning] /\ e0 \in Nat /\ f \in [Wheels -> Int]
        /\ Waits(ws, f, e0, due) /\ \A t \in DOMAIN due : due[t] \in Nat
    BY <1>3, <1>4, <2>1
  <2> HIDE DEF ws, due, e0
  <2>3. Ticks(ws, f, e0 + Jiffies, due)
    BY ONLY <2>2, JiffyBegins
  <2> QED BY <2>3 DEF ws, due, e0
<1>6. /\ g \in [Wheels -> Int] /\ Ticks(r, g, e, Expires)
      /\ \A t \in DOMAIN Expires : Contains(q, t) => NotEarly(1, f[1], Expires[t])
  <2> DEFINE ws == wheels
             due == Expires
             w == 1
  <2>1. /\ ws \in [Wheels -> Turning] /\ w \in Wheels
        /\ ws[w].index # SlotNum /\ f \in [Wheels -> Int] /\ e \in Nat
        /\ Ticks(ws, f, e, due)
    BY <1>4, <1>5
  <2> HIDE DEF ws, due, e, w
  <2>2. /\ Later(f, w) \in [Wheels -> Int]
        /\ Ticks(Emptied(ws, w), Later(f, w), e, due)
        /\ \A t \in DOMAIN due :
             Contains(ws[w].slots[ws[w].index], t) => NotEarly(w, f[w], due[t])
    BY ONLY <2>1, TakeTimes
  <2> QED BY <2>2 DEF ws, due, w
<1>7. Clock(g, r, e) /\ TookSlot(g, e, 1)
  <2>1. /\ f[1] = e /\ \A v \in Wheels : f[v] <= elapsed + Interval[v]
        /\ \A v \in Wheels : Linked(f, wheels, v)
    BY <1>3 DEF Clock
  <2>2. g[1] = e + Jiffies /\ \A v \in Wheels \ {1} : g[v] = f[v]
    BY <1>4, <2>1 DEF Later
  <2>3. /\ r[1].index = j /\ \A v \in Wheels \ {1} : r[v] = wheels[v]
    <3>1. j \in 0..SlotNum /\ i \in 0..SlotNum
      BY <1>2, WheelAssumption DEF Slots
    <3>2. <<>> \in Seq(Timers)
      OBVIOUS
    <3> DEFINE ws == wheels
               n == <<>>
               w == 1
    <3>3. ws \in [Wheels -> Turning] /\ w \in Wheels /\ n \in Seq(Timers)
      BY <1>4, <3>2
    <3>4. r = Slotted(ws, w, j, i, n)
      BY DEF Emptied
    <3> HIDE DEF ws, n, j, i, r, w
    <3>5. /\ Slotted(ws, w, j, i, n)[w].index = j
          /\ \A v \in Wheels \ {w} : Slotted(ws, w, j, i, n)[v] = ws[v]
      BY ONLY <1>2, <3>1, <3>3, SlottedSlots
    <3> QED BY <3>4, <3>5 DEF ws, w
  <2>4. ASSUME NEW v \in Wheels PROVE g[v] <= e + Interval[v]
    <3>1. CASE v = 1
      BY <1>4, <2>2, <3>1
    <3>2. CASE v # 1
      <4>1. f[v] <= elapsed + Interval[v] /\ Interval[v] \in Nat /\ f[v] \in Int
        BY <1>4, <2>1, IntervalType
      <4> QED BY <1>4, <2>2, <3>2, <4>1
    <3> QED BY <3>1, <3>2
  <2>5. ASSUME NEW v \in Wheels PROVE Linked(g, r, v)
    <3>0. v + 1 # 1
      BY DEF Wheels
    <3>1. CASE v = 1
      <4> DEFINE y == SlotNum - 1 - i
      <4>1. ASSUME 1 + 1 \in Wheels
            PROVE  g[1 + 1] = g[1] + Interval[1] * (SlotNum - 1 - r[1].index)
        <5>1. f[1 + 1] = f[1] + Jiffies * y
          BY <1>4, <2>1, <4>1 DEF Linked
        <5>2. y \in Int /\ SlotNum - 1 - r[1].index = y - 1
          BY <1>2, <2>3, WheelAssumption DEF Slots
        <5> HIDE DEF y
        <5>3. Jiffies * (y - 1) = Jiffies * y - Jiffies /\ Jiffies * y \in Int
          BY <1>4, <5>2, Distribute
        <5>4. g[1 + 1] = f[1 + 1]
          BY <2>2, <4>1
        <5> DEFINE m == Jiffies * y
        <5>5. /\ f[1 + 1] = f[1] + m /\ m \in Int
              /\ Interval[1] * (SlotNum - 1 - r[1].index) = m - Jiffies
          BY <1>4, <5>1, <5>2, <5>3
        <5> HIDE DEF m, g, r
        <5> QED BY <1>4, <2>1, <2>2, <5>4, <5>5
      <4> HIDE DEF g, r
      <4> QED BY <3>1, <4>1 DEF Linked
    <3>2. CASE v # 1
      <4> HIDE DEF g, r
      <4> QED BY <2>1, <2>2, <2>3, <3>0, <3>2 DEF Linked
    <3> QED BY <3>1, <3>2
  <2> HIDE DEF g, r
  <2> QED BY <1>4, <1>6, <2>2, <2>4, <2>5 DEF Clock, TookSlot
<1>8. Rolls(x, 0, g)
  <2> HIDE DEF g, r, x, e
  <2>1. \A v \in Wheels : v = 0 + 1 => v = 1
    OBVIOUS
  <2> QED BY <1>2, <1>6, <1>7, <2>1 DEF Rolls, RunsOnTime
<1>9. Activates(activated, x.activated, e)
  <2>1. q \in Seq(Timers)
    <3>1. wheels[1] \in Turning
      BY <1>4
    <3> QED BY <1>2, <3>1 DEF Turning
  <2>2. \A t : Contains(x.activated, t) <=> Contains(activated, t) \/ Contains(q, t)
    <3> HIDE DEF q, x
    <3> QED BY <1>2, <1>4, <2>1, ContainsConcat
  <2>3. ASSUME NEW t \in DOMAIN timers, Contains(q, t)
        PROVE  Expires[t] < e + Jiffies
    <3>1. NotEarly(1, f[1], Expires[t])
      BY <1>1, <1>6, <2>3, ExpiresType
    <3>2. f[1] = e
      BY <1>3 DEF Clock
    <3> QED BY <3>1, <3>2 DEF NotEarly
  <2> HIDE DEF q, x, e
  <2> QED BY <2>2, <2>3 DEF Activates
<1> DEFINE end == RollAll(x)
<1>10. PICK h : RunsOnTime(end, h)
  <2> HIDE DEF x, g
  <2>1. \E h : RunsOnTime(end, h)
    BY <1>1, <1>2, <1>8, RollAllTimes
  <2> QED BY <2>1
<1>11. Activates(x.activated, end.activated, e)
  <2> HIDE DEF x, g, e
  <2> QED BY <1>1, <1>2, <1>8, RollAllTimes
<1>12. /\ end \in State /\ end.elapsed = e
       /\ \A v \in Wheels : end.wheels[v].index # SlotNum
  <2> HIDE DEF x, e
  <2> QED BY <1>1, <1>2, RollAllSound
<1>13. /\ elapsed' = end.elapsed /\ wheels' = end.wheels
       /\ activated' = end.activated /\ timers' = timers
  BY JiffyEnds
<1> HIDE DEF x, end, e, r, g
<1>14. /\ Waits(wheels', h, e, Expires)
       /\ \A w \in Wheels, s \in Slots, t \in DOMAIN Expires :
            Contains(wheels'[w].slots[s], t) => e < Expires[t]
  <2> DEFINE ws == end.wheels
             due == Expires
  <2>1. /\ ws \in [Wheels -> Turning] /\ \A v \in Wheels : ws[v].index # SlotNum
        /\ e \in Nat /\ Clock(h, ws, e) /\ Ticks(ws, h, e, due)
    BY <1>4, <1>10, <1>12 DEF State, RunsOnTime
  <2> HIDE DEF ws, due
  <2>2. /\ Waits(ws, h, e, due)
        /\ \A w \in Wheels, s \in Slots, t \in DOMAIN due :
              Contains(ws[w].slots[s], t) => e < due[t]
    BY ONLY <2>1, JiffyOver
  <2> QED BY <1>13, <2>2 DEF ws, due
<1>15. Expires' = Expires /\ Clock(h, wheels', elapsed')
  BY <1>10, <1>13 DEF Expires, RunsOnTime
<1>16. OnClock'
  BY <1>12, <1>13, <1>14, <1>15 DEF OnClock
<1>17. Activates(activated, activated', elapsed')
  BY <1>9, <1>11, <1>12, <1>13, ActivatesMore
<1>18. \A w \in Wheels, s \in Slots, t \in DOMAIN timers :
              Contains(wheels'[w].slots[s], t) => elapsed' < Expires[t]
  BY <1>1, <1>12, <1>13, <1>14, ExpiresType
<1>19. elapsed' = elapsed + Jiffies
  BY <1>12, <1>13 DEF e
<1> QED BY <1>16, <1>17, <1>18, <1>19

(* What is in a slot or left of those activated is in its bin. *)
BinsOf(ws, act) ==
  /\ \A w \in Wheels, s \in Slots : \A t :
       Contains(ws[w].slots[s], t) <=>
         \E i : At(Layout(ws, act, <<>>), <<w, s>>, i, t)
  /\ \A t : Contains(act, t) <=> \E i : At(Layout(ws, act, <<>>), Now, i, t)
  /\ \A t : Has(Layout(ws, act, <<>>), t) =>
       \/ \E w \in Wheels, s \in Slots : Contains(ws[w].slots[s], t)
       \/ Contains(act, t)

LEMMA LayoutHas ==
  ASSUME NEW ws \in [Wheels -> Turning], NEW act \in Seq(Timers)
  PROVE  BinsOf(ws, act)
<1> DEFINE e == <<>>
           L == Layout(ws, act, e)
<1>1. e \in Seq(Timers) /\ Len(e) = 0
  OBVIOUS
<1> HIDE DEF e
<1>2. /\ L \in [Bins -> Seq(Timers)] /\ L[Now] = act /\ L[Moving] = e
      /\ \A w \in Wheels, s \in Slots : L[<<w, s>>] = ws[w].slots[s]
  <2>1. ws \in [Wheels -> Turning] /\ act \in Seq(Timers) /\ e \in Seq(Timers)
    BY <1>1
  <2> QED BY ONLY <2>1, LayoutType
<1> HIDE DEF L
<1>3. ASSUME NEW w \in Wheels, NEW s \in Slots, NEW t
      PROVE  Contains(ws[w].slots[s], t) <=> \E i : At(L, <<w, s>>, i, t)
  <2> DEFINE p == <<w, s>>
             q == ws[w].slots[s]
  <2>1. p \in Bins /\ L[p] = q
    BY <1>2, BinsApart
  <2> HIDE DEF p, q
  <2>2. Contains(q, t) <=> \E i : At(L, p, i, t)
    BY <2>1 DEF Contains, At
  <2> QED BY <2>2 DEF p, q
<1>4. \A t : Contains(act, t) <=> \E i : At(L, Now, i, t)
  BY <1>2, BinsApart DEF Contains, At
<1>5. ASSUME NEW p, NEW i, NEW t, At(L, p, i, t)
      PROVE  \/ \E w \in Wheels, s \in Slots : Contains(ws[w].slots[s], t)
             \/ Contains(act, t)
  <2>1. p \in Bins /\ i \in 1..Len(L[p])
    BY <1>5 DEF At
  <2>2. CASE p = Now
    BY <1>4, <1>5, <2>2
  <2>3. CASE p = Moving
    BY <1>1, <1>2, <2>1, <2>3
  <2>4. CASE \E w \in Wheels, s \in Slots : p = <<w, s>>
    BY <1>3, <1>5, <2>4
  <2> QED BY <2>1, <2>2, <2>3, <2>4, BinsApart
<1> QED BY <1>3, <1>4, <1>5 DEF Has, BinsOf, L, e

LEMMA InBins ==
  ASSUME WheelTypeOK
  PROVE  /\ \A w \in Wheels, s \in Slots : \A t :
              Contains(wheels[w].slots[s], t) <=> \E i : At(Here, <<w, s>>, i, t)
         /\ \A t : Contains(Rest(activated, at), t) <=> \E i : At(Here, Now, i, t)
<1>1. BinsOf(wheels, Rest(activated, at))
  BY HereType, LayoutHas
<1> QED BY <1>1 DEF BinsOf, Here

LEMMA DueInvInit == InRange /\ Init => DueInv
<1> SUFFICES ASSUME InRange, Init PROVE DueInv
  OBVIOUS
<1>1. BinInv
  BY BinInit
<1>2. NoWrap
  BY WheelAssumption DEF NoWrap, Init
<1>3. Clock(Interval, wheels, elapsed)
  <2>1. /\ SlotNum \in Nat /\ Jiffies \in Nat /\ elapsed = 0 /\ 1 \in Wheels
        /\ \A w \in Wheels : wheels[w].index = 0
    BY WheelAssumption DEF Init, Wheels
  <2>2. Interval[1] = Jiffies /\ Interval \in [Wheels -> Int]
    BY <2>1, IntervalDefined, IntervalType
  <2>3. ASSUME NEW w \in Wheels, w + 1 \in Wheels
        PROVE  Interval[w + 1] = Interval[w] + Interval[w] * (SlotNum - 1 - 0)
    <3> DEFINE I == Interval[w]
               m == I * SlotNum
    <3>1. I \in Nat
      BY IntervalType
    <3>2. w + 1 # 1 /\ (w + 1) - 1 = w
      BY DEF Wheels
    <3>3. Interval[w + 1] = m
      BY <2>3, <3>2, IntervalDefined
    <3> HIDE DEF I
    <3>4. SlotNum - 1 - 0 = SlotNum - 1 /\ m \in Int
          /\ I * (SlotNum - 1) = m - I
      BY <2>1, <3>1, Distribute
    <3> HIDE DEF m
    <3> QED BY <3>1, <3>3, <3>4 DEF I
  <2> QED BY <2>1, <2>2, <2>3 DEF Clock, Linked
<1>4. Waits(wheels, Interval, elapsed, Expires)
  BY DEF Waits, Expires, Init
<1> QED BY <1>1, <1>2, <1>3, <1>4 DEF DueInv, OnClock

(* A due time within the bound on time is the delay from now. *)
LEMMA NoOverflow ==
  ASSUME WheelTypeOK, NoWrap, NEW r \in Nat, r + MaxElapsed < Width
  PROVE  (r + elapsed) % Width = elapsed + r
<1>1. /\ r + elapsed \in Nat /\ Width \in Nat \ {0} /\ elapsed \in Nat
      /\ r + elapsed < Width
  BY WheelAssumption DEF WheelTypeOK, NoWrap
<1> DEFINE x == r + elapsed
<1>2. x \in Nat /\ x < Width /\ x = elapsed + r
  BY <1>1
<1> HIDE DEF x
<1>3. x % Width = x
  BY <1>1, <1>2
<1> QED BY <1>2, <1>3 DEF x

(* The wheels go on with the timer t, due after d. *)
LEMMA PutOnClock ==
  ASSUME InRange, WheelTypeOK, OnClock, NEW t \in Timers, NEW d \in Nat,
         wheels' = Rearrange(wheels, t, d), elapsed' = elapsed,
         t \in DOMAIN timers', Expires'[t] = elapsed + d,
         DOMAIN timers' \subseteq DOMAIN timers \cup {t},
         \A u \in DOMAIN timers' \ {t} : timers'[u].expires = timers[u].expires,
         \A w \in Wheels, s \in Slots : ~Contains(wheels[w].slots[s], t)
  PROVE  OnClock'
<1>1. PICK f : Clock(f, wheels, elapsed) /\ Waits(wheels, f, elapsed, Expires)
  BY DEF OnClock
<1> DEFINE ws == wheels
           e == elapsed
           due == Expires
           due2 == Expires'
           r == wheels'
<1>2. /\ WheelNum # 1 /\ ws \in [Wheels -> Turning] /\ e \in Nat
      /\ Clock(f, ws, e) /\ Waits(ws, f, e, due) /\ r = Rearrange(ws, t, d)
      /\ \A v \in Wheels, z \in Slots : ~Contains(ws[v].slots[z], t)
  BY <1>1, HereType DEF InRange, WheelTypeOK
<1>3. /\ t \in DOMAIN due2 /\ due2[t] = e + d
      /\ \A u \in DOMAIN due2 \ {t} : u \in DOMAIN due /\ due2[u] = due[u]
  BY DEF Expires
<1> HIDE DEF ws, e, due, due2, r
<1>4. Clock(f, r, e) /\ Waits(r, f, e, due2)
  BY <1>2, <1>3, PutWaits
<1> QED BY <1>4 DEF OnClock, r, e, due2

(* The wheels go on without some of the timers. *)
LEMMA KeepOnClock ==
  ASSUME OnClock, UNCHANGED <<wheels, elapsed>>,
         DOMAIN timers' \subseteq DOMAIN timers,
         \A u \in DOMAIN timers' : timers'[u].expires = timers[u].expires
  PROVE  OnClock'
<1>1. PICK f : Clock(f, wheels, elapsed) /\ Waits(wheels, f, elapsed, Expires)
  BY DEF OnClock
<1>2. DOMAIN Expires' \subseteq DOMAIN Expires
      /\ \A u \in DOMAIN Expires' : Expires'[u] = Expires[u]
  BY DEF Expires
<1>3. Waits(wheels, f, elapsed, Expires')
  BY <1>1, <1>2 DEF Waits
<1> QED BY <1>1, <1>3 DEF OnClock

LEMMA SetOnTime ==
  ASSUME InRange, DueInv, NEW t \in Timers, NEW delay \in Delays,
         NEW extra \in BOOLEAN, NEW loop \in BOOLEAN,
         SetTimer(t, delay, extra, loop)
  PROVE  NoWrap' /\ OnClock'
<1> DEFINE r == Span(delay, extra)
           x == (r + elapsed) % Width
<1>1. WheelTypeOK /\ Binned /\ NoWrap /\ OnClock
  BY DEF DueInv, BinInv
<1>2. /\ wheels' = Rearrange(wheels, t, r) /\ elapsed' = elapsed /\ slice' = slice
      /\ timers' = [u \in DOMAIN timers \cup {t} |->
                     IF u # t THEN timers[u]
                     ELSE [loop |-> loop, rate |-> r, expires |-> x]]
      /\ \A i \in 1..Len(order) : order[i] # t
  BY DEF SetTimer
<1>3. r \in Nat /\ r + MaxElapsed < Width
  BY SpanType DEF InRange
<1> HIDE DEF r
<1>4. x = elapsed + r
  BY <1>1, <1>3, NoOverflow
<1> HIDE DEF x
<1>5. /\ DOMAIN timers' = DOMAIN timers \cup {t} /\ timers'[t].rate = r
      /\ timers'[t].expires = x
      /\ \A u \in DOMAIN timers' \ {t} : timers'[u] = timers[u]
  BY <1>2
<1>6. NoWrap'
  BY <1>1, <1>2, <1>3, <1>5 DEF NoWrap
<1>7. \A w \in Wheels, s \in Slots : ~Contains(wheels[w].slots[s], t)
  <2>1. ~Has(Here, t)
    BY <1>1, <1>2 DEF Binned, WasSet
  <2> QED BY <1>1, <2>1, InBins DEF Has
<1>8. OnClock'
  <2>1. Expires'[t] = elapsed + r
    BY <1>4, <1>5 DEF Expires
  <2> QED BY <1>1, <1>2, <1>3, <1>5, <1>7, <2>1, PutOnClock
<1> QED BY <1>6, <1>8

LEMMA DoneOnTime ==
  ASSUME InRange, DueInv, ActionDone
  PROVE  NoWrap' /\ OnClock'
<1> DEFINE t == activated[at + 1]
           r == timers[t].rate
           x == (r + elapsed) % Width
<1>1. /\ WheelTypeOK /\ Binned /\ NoWrap /\ OnClock /\ at < Len(activated)
      /\ elapsed' = elapsed /\ slice' = slice
  BY DEF DueInv, BinInv, Invoking, ActionDone
<1>2. CASE Used(t) /\ timers[t].loop
  <2>1. /\ timers' = [timers EXCEPT ![t].expires = x]
        /\ wheels' = Rearrange(wheels, t, r)
    BY <1>2 DEF ActionDone
  <2>2. timers[t] \in TimerData /\ r \in Nat /\ t \in DOMAIN timers
        /\ t \in Timers /\ r + MaxElapsed < Width
    BY <1>1, <1>2 DEF WheelTypeOK, TimerData, Used, NoWrap
  <2> DEFINE new == [timers[t] EXCEPT !.expires = x]
  <2>3. new.expires = x /\ new.rate = r
    <3> DEFINE d == timers[t]
    <3>1. d \in TimerData
      BY <2>2
    <3> HIDE DEF d, x
    <3>2. [d EXCEPT !.expires = x].expires = x
          /\ [d EXCEPT !.expires = x].rate = d.rate
      BY <3>1 DEF TimerData
    <3> QED BY <3>2 DEF d
  <2>4. timers' = [timers EXCEPT ![t] = new]
    BY <2>1
  <2> HIDE DEF r
  <2>5. x = elapsed + r
    BY <1>1, <2>2, NoOverflow
  <2> HIDE DEF x, new, t
  <2>6. /\ DOMAIN timers' = DOMAIN timers /\ timers'[t] = new
        /\ \A u \in DOMAIN timers' \ {t} : timers'[u] = timers[u]
    BY <2>2, <2>4
  <2>7. NoWrap'
    BY <1>1, <2>2, <2>3, <2>6 DEF NoWrap
  <2>8. \A w \in Wheels, s \in Slots : ~Contains(wheels[w].slots[s], t)
    <3>1. PICK i : At(Here, Now, i, t)
      <4>1. Contains(Rest(activated, at), t)
        <5>1. /\ at + 1 \in 1..Len(activated) /\ (at + 1) - 1 = at
              /\ activated \in Seq(Timers)
          BY <1>1, LenProperties DEF WheelTypeOK
        <5>2. \A k \in 1..Len(activated) :
                /\ Rest(activated, k - 1) # <<>>
                /\ Rest(activated, k - 1)[1] = activated[k]
          BY ONLY <5>1, RestProperties
        <5>3. Rest(activated, at) # <<>> /\ Rest(activated, at)[1] = t
              /\ Rest(activated, at) \in Seq(Timers)
          BY <1>1, <5>1, <5>2, HereType DEF t
        <5>4. 1 \in 1..Len(Rest(activated, at))
          BY <5>3, LenProperties, EmptySeq
        <5> QED BY <5>3, <5>4 DEF Contains
      <4> QED BY <1>1, <4>1, InBins
    <3>2. ASSUME NEW w \in Wheels, NEW s \in Slots,
                 Contains(wheels[w].slots[s], t)
          PROVE  FALSE
      <4>1. PICK j : At(Here, <<w, s>>, j, t)
        BY <1>1, <3>2, InBins
      <4>2. Now = <<w, s>>
        BY <1>1, <3>1, <4>1 DEF Binned, Once
      <4> QED BY <4>2, BinsApart
    <3> QED BY <3>2
  <2>9. OnClock'
    <3>1. Expires'[t] = elapsed + r
      BY <2>2, <2>3, <2>5, <2>6 DEF Expires
    <3> QED BY <1>1, <2>1, <2>2, <2>6, <2>8, <3>1, PutOnClock
  <2> QED BY <2>7, <2>9
<1>3. CASE ~(Used(t) /\ timers[t].loop)
  <2>1. /\ DOMAIN timers' \subseteq DOMAIN timers /\ wheels' = wheels
        /\ \A u \in DOMAIN timers' : timers'[u] = timers[u]
    BY <1>3 DEF ActionDone, Cleared
  <2>2. NoWrap'
    BY <1>1, <2>1 DEF NoWrap
  <2>3. OnClock'
    BY <1>1, <2>1, KeepOnClock
  <2> QED BY <2>2, <2>3
<1> QED BY <1>2, <1>3

LEMMA DueInvNext == InRange /\ DueInv /\ [Next]_vars => DueInv'
<1> SUFFICES ASSUME InRange, DueInv, [Next]_vars PROVE DueInv'
  OBVIOUS
<1>1. BinInv /\ NoWrap /\ OnClock /\ BinInv' /\ WheelTypeOK
  BY BinNext DEF DueInv, BinInv
<1> SUFFICES NoWrap' /\ OnClock'
  BY <1>1 DEF DueInv
<1>2. CASE \E t \in Timers : ClearTimer(t)
  <2>1. /\ DOMAIN timers' \subseteq DOMAIN timers /\ wheels' = wheels
        /\ elapsed' = elapsed /\ slice' = slice
        /\ \A u \in DOMAIN timers' : timers'[u] = timers[u]
    BY <1>2 DEF ClearTimer, Cleared
  <2>2. OnClock'
    BY <1>1, <2>1, KeepOnClock
  <2> QED BY <1>1, <2>1, <2>2 DEF NoWrap
<1>3. CASE \E t \in Timers, d \in Delays, extra, loop \in BOOLEAN :
             SetTimer(t, d, extra, loop)
  BY <1>3, SetOnTime
<1>4. CASE \E ms \in Elapses : StartTick(ms)
  <2>1. PICK ms \in Elapses : StartTick(ms)
    BY <1>4
  <2>2. /\ elapsed + slice + ms <= MaxElapsed /\ slice' = slice + ms
        /\ UNCHANGED <<wheels, elapsed, timers>>
    BY <2>1 DEF StartTick
  <2>3. elapsed \in Nat /\ slice \in Nat /\ ms \in Nat /\ MaxElapsed \in Nat
    BY <1>1, WheelAssumption DEF WheelTypeOK
  <2>4. NoWrap'
    BY <1>1, <2>2, <2>3 DEF NoWrap
  <2>5. OnClock'
    BY <1>1, <2>2, KeepOnClock
  <2> QED BY <2>4, <2>5
<1>5. CASE Jiffy
  <2>1. elapsed' = elapsed + Jiffies /\ OnClock'
    BY <1>1, <1>5, JiffyTimes
  <2>2. slice' = slice - Jiffies /\ timers' = timers
    BY <1>5, JiffyEnds
  <2>3. elapsed \in Nat /\ slice \in Nat /\ Jiffies \in Nat
    BY <1>1, WheelAssumption DEF WheelTypeOK
  <2>4. NoWrap'
    BY <1>1, <2>1, <2>2, <2>3 DEF NoWrap
  <2> QED BY <2>1, <2>4
<1>6. CASE ActionDone
  BY <1>6, DoneOnTime
<1>7. CASE EndTick \/ Skip \/ CallAction \/ EndInvoke \/ UNCHANGED vars
  <2>1. UNCHANGED <<wheels, elapsed, timers, slice>>
    BY <1>7 DEF EndTick, Skip, CallAction, EndInvoke, vars
  <2>2. OnClock'
    BY <1>1, <2>1, KeepOnClock
  <2> QED BY <1>1, <2>1, <2>2 DEF NoWrap
<1> QED BY <1>2, <1>3, <1>4, <1>5, <1>6, <1>7 DEF Next

-----------------------------------------------------------------------------
(***************************************************************************)
(* The steps of the wheels are steps of the abstract timers.               *)
(***************************************************************************)
Left == {activated[i] : i \in at + 1..Len(activated)}
Ready == Activated \cap DOMAIN timers

LEMMA RestIs ==
  ASSUME NEW a \in Seq(Timers), NEW k \in 0..Len(a)
  PROVE  /\ Len(Rest(a, k)) = Len(a) - k
         /\ \A i \in 1..(Len(a) - k) : Rest(a, k)[i] = a[k + i]
         /\ \A t : Contains(Rest(a, k), t) <=> t \in {a[i] : i \in k + 1..Len(a)}
<1>1. Len(a) \in Nat /\ k + 1 \in Int /\ \A i \in (k + 1)..Len(a) : a[i] \in Timers
  BY LenProperties
<1>2. /\ Len(Rest(a, k)) = IF k + 1 <= Len(a) THEN Len(a) - (k + 1) + 1 ELSE 0
      /\ \A i \in 1..(Len(a) - (k + 1) + 1) : Rest(a, k)[i] = a[(k + 1) + i - 1]
  BY <1>1, SubSeqProperties DEF Rest
<1>3. Len(Rest(a, k)) = Len(a) - k
  BY <1>1, <1>2
<1>4. ASSUME NEW i \in 1..(Len(a) - k) PROVE Rest(a, k)[i] = a[k + i]
  <2>1. /\ i \in 1..(Len(a) - (k + 1) + 1)
        /\ (k + 1) + i - 1 = k + i
    BY <1>1
  <2> QED BY <1>2, <2>1
<1>5. ASSUME NEW t, Contains(Rest(a, k), t)
      PROVE  t \in {a[i] : i \in k + 1..Len(a)}
  <2>1. PICK i \in 1..(Len(a) - k) : Rest(a, k)[i] = t
    BY <1>3, <1>5 DEF Contains
  <2>2. k + i \in k + 1..Len(a) /\ a[k + i] = t
    BY <1>1, <1>4, <2>1
  <2> QED BY <2>2
<1>6. ASSUME NEW i \in k + 1..Len(a) PROVE Contains(Rest(a, k), a[i])
  <2>1. i - k \in 1..(Len(a) - k) /\ k + (i - k) = i
    BY <1>1
  <2> QED BY <1>3, <1>4, <2>1 DEF Contains
<1> QED BY <1>3, <1>4, <1>5, <1>6

(* What is activated waits once. *)
LEMMA LeftOnce ==
  ASSUME BinInv
  PROVE  \A i, j \in at + 1..Len(activated) : activated[i] = activated[j] => i = j
<1>1. WheelTypeOK /\ activated \in Seq(Timers) /\ at \in 0..Len(activated)
  BY DEF BinInv, WheelTypeOK
<1>2. EachOnce
  <2>1. AllPlaced(wheels, Rest(activated, at), <<>>)
    BY DEF BinInv, Binned, Here, AllPlaced
  <2> QED BY <1>1, <2>1, PlacedIsOnce DEF BinInv, Binned
<1> DEFINE q == Rest(activated, at)
           n == Len(activated) - at
<1>3. Len(q) = n /\ \A i \in 1..n : q[i] = activated[at + i]
  BY <1>1, RestIs
<1>4. Now \in Places /\ Waiting(Now) = q
  BY DEF Places, Waiting, Rest
<1> HIDE DEF q
<1>5. \A i, j \in 1..n : q[i] = q[j] => i = j
  BY <1>2, <1>3, <1>4 DEF EachOnce
<1> SUFFICES ASSUME NEW i \in at + 1..Len(activated),
                    NEW j \in at + 1..Len(activated),
                    activated[i] = activated[j]
             PROVE  i = j
  OBVIOUS
<1>6. /\ i - at \in 1..n /\ at + (i - at) = i
      /\ j - at \in 1..n /\ at + (j - at) = j
  BY <1>1, LenProperties
<1>7. i - at = j - at
  BY <1>3, <1>5, <1>6
<1> QED BY <1>1, <1>6, <1>7

(* Who is activated, outside of a callback and in one. *)
LEMMA ReadyIs ==
  ASSUME WheelTypeOK
  PROVE  /\ phase # "callback" =>
              Running = NoTimer /\ Ready = Left \cap DOMAIN timers
         /\ phase = "callback" /\ at < Len(activated) =>
              /\ Running = activated[at + 1] /\ Running # NoTimer
              /\ Ready = (Left \ {activated[at + 1]}) \cap DOMAIN timers
<1>1. /\ activated \in Seq(Timers) /\ at \in Nat /\ NoTimer \notin Timers
      /\ \A i \in 1..Len(activated) : activated[i] \in Timers
  BY LenProperties, WheelAssumption DEF WheelTypeOK
<1>2. NoTimer \notin Left
  BY <1>1 DEF Left
<1>3. at < Len(activated) => activated[at + 1] # NoTimer
  BY <1>1
<1> QED BY <1>2, <1>3 DEF Ready, Activated, Left, Running

LEMMA DueSet ==
  ASSUME BinInv, NEW t \in Timers, NEW d \in Delays, NEW extra \in BOOLEAN,
         NEW loop \in BOOLEAN, SetTimer(t, d, extra, loop)
  PROVE  Due!Start(t)
<1> DEFINE r == Span(d, extra)
           x == (r + elapsed) % Width
<1>1. WheelTypeOK /\ Binned /\ elapsed \in Nat /\ Width \in Nat \ {0}
  BY WheelAssumption DEF BinInv, WheelTypeOK
<1>2. x \in Nat
  <2>1. r \in Nat
    BY SpanType
  <2> DEFINE y == r + elapsed
  <2>2. y \in Nat
    BY <1>1, <2>1
  <2> HIDE DEF y, r
  <2> QED BY <1>1, <2>2 DEF y
<1>3. /\ timers' = [u \in DOMAIN timers \cup {t} |->
                     IF u # t THEN timers[u]
                     ELSE [loop |-> loop, rate |-> r, expires |-> x]]
      /\ UNCHANGED <<elapsed, activated, at, phase>>
      /\ \A i \in 1..Len(order) : order[i] # t
  BY DEF SetTimer
<1> HIDE DEF x, r
<1>4. ~WasSet(t)
  BY <1>3 DEF WasSet
<1>5. t \notin DOMAIN timers /\ ~Has(Here, t)
  BY <1>1, <1>4 DEF Binned
<1>6. t \notin Left
  <2>1. ~Contains(Rest(activated, at), t)
    BY <1>1, <1>5, InBins DEF Has
  <2>2. activated \in Seq(Timers) /\ at \in 0..Len(activated)
    BY <1>1 DEF WheelTypeOK
  <2> QED BY <2>1, <2>2, RestIs DEF Left
<1>7. Running' = Running /\ Activated' = Activated /\ Activated \subseteq Left
  BY <1>3 DEF Running, Activated, Left
<1>8. Ready' = Ready
  BY <1>3, <1>6, <1>7 DEF Ready
<1>9. /\ DOMAIN Expires' = DOMAIN Expires \cup {t} /\ Expires'[t] = x
      /\ Expires' = [u \in DOMAIN Expires \cup {t} |->
                       IF u = t THEN x ELSE Expires[u]]
  BY <1>3 DEF Expires
<1> QED BY <1>2, <1>3, <1>5, <1>7, <1>8, <1>9
        DEF Due!Start, Due!StartsAt, Due!With, Expires, Ready

LEMMA DueCancel ==
  ASSUME NEW t \in Timers, ClearTimer(t)
  PROVE  Due!Cancel(t)
<1>1. /\ timers' = [u \in DOMAIN timers \ {t} |-> timers[u]]
      /\ UNCHANGED <<elapsed, activated, at, phase>>
  BY DEF ClearTimer, Cleared
<1>2. Running' = Running /\ Activated' = Activated
  BY <1>1 DEF Running, Activated
<1>3. Ready' = Ready \ {t}
  BY <1>1, <1>2 DEF Ready
<1>4. Expires' = [u \in DOMAIN Expires \ {t} |-> Expires[u]]
  BY <1>1 DEF Expires
<1> QED BY <1>1, <1>2, <1>3, <1>4 DEF Due!Cancel, Due!Without, Expires, Ready

LEMMA DueAdvance ==
  ASSUME InRange, DueInv, Jiffy
  PROVE  Due!Advance
<1>1. /\ BinInv /\ OnClock /\ WheelTypeOK /\ Binned' /\ WheelTypeOK' /\ phase = "tick"
      /\ UNCHANGED <<timers, at, phase>>
  BY JiffyStep, JiffyEnds DEF DueInv, BinInv
<1>2. at = 0
  BY <1>1 DEF BinInv, Invoking
<1>3. /\ elapsed' = elapsed + Jiffies
      /\ Activates(activated, activated', elapsed')
      /\ \A w \in Wheels, s \in Slots, t \in DOMAIN timers :
           Contains(wheels'[w].slots[s], t) => elapsed' < Expires[t]
  BY <1>1, JiffyTimes
<1>4. /\ activated \in Seq(Timers) /\ activated' \in Seq(Timers)
      /\ NoTimer \notin Timers
      /\ Len(activated) \in Nat /\ Len(activated') \in Nat
      /\ \A i \in 1..Len(activated) : activated[i] \in Timers
      /\ \A i \in 1..Len(activated') : activated'[i] \in Timers
  BY <1>1, LenProperties, WheelAssumption DEF WheelTypeOK
<1>5. Running = NoTimer /\ Running' = NoTimer
  BY <1>1 DEF Running
<1>6. /\ \A t : t \in Ready <=> Contains(activated, t) /\ t \in DOMAIN timers
      /\ \A t : t \in Ready' <=> Contains(activated', t) /\ t \in DOMAIN timers
  <2>1. Activated = {activated[i] : i \in 1..Len(activated)}
    BY <1>2, <1>4, <1>5 DEF Activated
  <2>2. Activated' = {activated'[i] : i \in 1..Len(activated')}
    BY <1>1, <1>2, <1>4, <1>5 DEF Activated
  <2> QED BY <1>1, <2>1, <2>2 DEF Ready, Contains
<1>7. DOMAIN Expires = DOMAIN timers /\ Expires' = Expires
      /\ \A t \in DOMAIN timers : Expires[t] \in Nat
  BY <1>1, ExpiresType DEF Expires
<1>8. ASSUME NEW t \in DOMAIN Expires, Expires[t] <= elapsed'
      PROVE  t \in Ready'
  <2>1. /\ wheels' \in [Wheels -> Turning] /\ elapsed' \in Nat
        /\ Rest(activated', at') = activated'
    <3>1. Slots \subseteq 0..SlotNum
      BY WheelAssumption DEF Slots
    <3>2. wheels' \in [Wheels -> Turning] /\ elapsed' \in Nat
      BY <1>1, <3>1 DEF WheelTypeOK, Wheel, Turning
    <3> QED BY <1>1, <1>2, <1>4, <3>2, RestProperties
  <2>2. BinsOf(wheels', activated')
    BY <1>4, <2>1, LayoutHas
  <2>3. Has(Layout(wheels', activated', <<>>), t)
    BY <1>1, <1>7, <2>1 DEF Binned, Here
  <2>4. ASSUME NEW w \in Wheels, NEW s \in Slots,
               Contains(wheels'[w].slots[s], t)
        PROVE  FALSE
    BY <1>3, <1>7, <1>8, <2>1, <2>4
  <2>5. Contains(activated', t)
    BY <2>2, <2>3, <2>4 DEF BinsOf
  <2> QED BY <1>6, <1>7, <2>5
<1>9. Ready \subseteq Ready' /\ Ready' \subseteq DOMAIN Expires
  BY <1>3, <1>6, <1>7 DEF Activates
<1>10. \A t \in Ready' \ Ready : Expires[t] < elapsed' + Jiffies
  BY <1>3, <1>6 DEF Activates
<1> QED BY <1>3, <1>5, <1>7, <1>8, <1>9, <1>10
        DEF Due!Advance, Due!Waiting, Expires, Ready

LEMMA DueRun ==
  ASSUME BinInv, CallAction
  PROVE  Due!Run(activated[at + 1]) /\ activated[at + 1] \in Timers
<1> DEFINE t == activated[at + 1]
<1>1. /\ WheelTypeOK /\ phase = "invoke" /\ phase' = "callback"
      /\ at < Len(activated) /\ t \in DOMAIN timers
      /\ UNCHANGED <<elapsed, timers, activated, at>>
  BY DEF BinInv, CallAction, Used
<1>2. Running = NoTimer /\ Ready = Left \cap DOMAIN timers
  BY <1>1, ReadyIs
<1>3. Running' = t
  BY <1>1 DEF Running
<1>4. Left' = Left /\ Activated' = Left \ {t}
  BY <1>1, <1>3 DEF Activated, Left
<1>5. t \in Left /\ t \in Timers
  BY <1>1, LenProperties DEF Left, WheelTypeOK
<1>6. t \in Ready /\ Ready' = Ready \ {t} /\ Expires' = Expires
  BY <1>1, <1>2, <1>4, <1>5 DEF Ready, Expires
<1> HIDE DEF t
<1> QED BY <1>1, <1>2, <1>3, <1>5, <1>6 DEF Due!Run, Expires, Ready, t

LEMMA DueDone ==
  ASSUME BinInv, ActionDone
  PROVE  Due!Done
<1> DEFINE t == activated[at + 1]
           r == timers[t].rate
           x == (r + elapsed) % Width
<1>1. /\ WheelTypeOK /\ phase = "callback" /\ phase' = "invoke"
      /\ at < Len(activated) /\ at' = at + 1 /\ DOMAIN timers' \subseteq DOMAIN timers
      /\ UNCHANGED <<elapsed, activated>>
  BY DEF BinInv, Invoking, ActionDone, Cleared
<1>2. /\ Running = t /\ Running # NoTimer
      /\ Ready = (Left \ {t}) \cap DOMAIN timers
  BY <1>1, ReadyIs
<1>3. /\ activated \in Seq(Timers) /\ at \in Nat /\ Len(activated) \in Nat
      /\ \A i \in 1..Len(activated) : activated[i] \in Timers
      /\ NoTimer \notin Timers /\ elapsed \in Nat /\ Width \in Nat \ {0}
  BY <1>1, LenProperties, WheelAssumption DEF WheelTypeOK
<1>4. Running' = NoTimer /\ Left' = Left \ {t}
  <2>1. Left' = {activated[i] : i \in (at + 1) + 1..Len(activated)}
    BY <1>1 DEF Left
  <2>2. \A i \in at + 1..Len(activated) :
          i \in (at + 1) + 1..Len(activated) <=> activated[i] # t
    <3>1. at + 1 \in at + 1..Len(activated)
      BY <1>1, <1>3
    <3>2. \A i \in at + 1..Len(activated) : activated[i] = t <=> i = at + 1
      BY <3>1, LeftOnce
    <3> HIDE DEF t
    <3> QED BY <1>3, <3>2
  <2>3. \A i \in (at + 1) + 1..Len(activated) : i \in at + 1..Len(activated)
    BY <1>3
  <2> HIDE DEF t
  <2>4. Left' = Left \ {t}
    BY <2>1, <2>2, <2>3 DEF Left
  <2> QED BY <1>1, <2>4 DEF Running
<1>5. Activated' = Left \ {t}
  <2>1. NoTimer \notin Left
    BY <1>3 DEF Left
  <2> QED BY <1>4, <2>1 DEF Activated, Left
<1>6. DOMAIN timers \ {t} \subseteq DOMAIN timers'
  BY DEF ActionDone, Cleared
<1>7. Ready' = Ready
  <2> HIDE DEF t
  <2> QED BY <1>1, <1>2, <1>5, <1>6 DEF Ready
<1>8. CASE Used(t) /\ timers[t].loop
  <2>1. timers' = [timers EXCEPT ![t].expires = x]
    BY <1>8 DEF ActionDone
  <2>2. x \in Nat
    <3>1. r \in Nat
      BY <1>1, <1>8 DEF WheelTypeOK, TimerData, Used
    <3> DEFINE y == r + elapsed
    <3>2. y \in Nat
      BY <1>3, <3>1
    <3> HIDE DEF y
    <3>3. y % Width \in Nat
      BY <1>3, <3>2
    <3> QED BY <3>3 DEF y
  <2> HIDE DEF x
  <2> DEFINE new == [timers[t] EXCEPT !.expires = x]
  <2>3. new.expires = x
    <3> DEFINE d == timers[t]
    <3>1. d \in TimerData
      BY <1>1, <1>8 DEF WheelTypeOK, Used
    <3> HIDE DEF d
    <3>2. [d EXCEPT !.expires = x].expires = x
      BY <3>1 DEF TimerData
    <3> QED BY <3>2 DEF d
  <2>4. timers' = [timers EXCEPT ![t] = new]
    BY <2>1
  <2> HIDE DEF new, t
  <2>5. t \in DOMAIN timers /\ DOMAIN Expires = DOMAIN timers
    BY <1>8 DEF Used, Expires
  <2>6. DOMAIN timers' = DOMAIN timers
        /\ \A u \in DOMAIN timers : timers'[u] = IF u = t THEN new ELSE timers[u]
    BY <2>4
  <2>7. DOMAIN Expires' = DOMAIN Expires /\ Expires'[t] = x
        /\ Expires' = [u \in DOMAIN Expires \cup {t} |->
                         IF u = t THEN x ELSE Expires[u]]
    BY <2>3, <2>5, <2>6 DEF Expires
  <2>8. Due!StartsAt(t)
    BY <2>2, <2>5, <2>7 DEF Due!StartsAt, Due!With, Expires
  <2>9. Running \in DOMAIN Expires /\ Due!StartsAt(Running)
    BY <1>2, <2>5, <2>8 DEF Due!StartsAt, Due!With
  <2> QED BY <1>1, <1>2, <1>4, <1>7, <2>9 DEF Due!Done, Expires, Ready
<1>9. CASE ~(Used(t) /\ timers[t].loop)
  <2>1. timers' = [u \in DOMAIN timers \ {t} |-> timers[u]]
    BY <1>9 DEF ActionDone, Cleared
  <2> HIDE DEF t
  <2>2. Expires' = [u \in DOMAIN Expires \ {t} |-> Expires[u]]
    BY <2>1 DEF Expires
  <2> QED BY <1>1, <1>2, <1>4, <1>7, <2>2 DEF Due!Done, Due!Without, Expires, Ready
<1> QED BY <1>8, <1>9

(* Steps between the callbacks, which show nothing. *)
Shown == <<elapsed, Expires, Ready, Running>>

LEMMA DueSkip ==
  ASSUME BinInv, Skip
  PROVE  UNCHANGED Shown
<1>1. /\ WheelTypeOK /\ phase = "invoke" /\ phase' = phase /\ at' = at + 1
      /\ at < Len(activated) /\ activated[at + 1] \notin DOMAIN timers
      /\ UNCHANGED <<elapsed, timers, activated>>
  BY DEF BinInv, Skip, Used
<1>2. Running = NoTimer /\ Ready = Left \cap DOMAIN timers
  BY <1>1, ReadyIs
<1>3. /\ at \in Nat /\ Len(activated) \in Nat /\ NoTimer \notin Timers
      /\ \A i \in 1..Len(activated) : activated[i] \in Timers
  BY <1>1, LenProperties, WheelAssumption DEF WheelTypeOK
<1>4. Running' = NoTimer
  BY <1>1 DEF Running
<1>5. Left' = {activated[i] : i \in (at + 1) + 1..Len(activated)}
  BY <1>1 DEF Left
<1>6. \A i : i \in at + 1..Len(activated) <=>
               i = at + 1 \/ i \in (at + 1) + 1..Len(activated)
  BY <1>1, <1>3
<1>7. Left' \cap DOMAIN timers = Left \cap DOMAIN timers
  BY <1>1, <1>5, <1>6 DEF Left
<1>8. NoTimer \notin Left'
  BY <1>3, <1>5
<1>9. Activated' = Left' \ {NoTimer}
  BY <1>4 DEF Activated, Left
<1>10. Ready' = Ready
  BY <1>1, <1>2, <1>7, <1>8, <1>9 DEF Ready
<1> QED BY <1>1, <1>2, <1>4, <1>10 DEF Shown, Expires

LEMMA DueEndInvoke ==
  ASSUME BinInv, EndInvoke
  PROVE  UNCHANGED Shown
<1>1. /\ WheelTypeOK /\ phase = "invoke" /\ phase' = "idle" /\ at' = 0
      /\ at = Len(activated) /\ activated' = <<>> /\ at \in Nat
      /\ UNCHANGED <<elapsed, timers>>
  BY LenProperties DEF BinInv, EndInvoke, WheelTypeOK
<1>2. Activated = {}
  BY <1>1 DEF Activated
<1>3. Activated' = {}
  <2>1. Len(<<>>) = 0 /\ 0 + 1..0 = {}
    OBVIOUS
  <2> QED BY <1>1, <2>1 DEF Activated
<1>4. Running = NoTimer /\ Running' = NoTimer
  BY <1>1 DEF Running
<1> QED BY <1>1, <1>2, <1>3, <1>4 DEF Shown, Expires, Ready

LEMMA DueTick ==
  ASSUME NEW ms, EndTick \/ StartTick(ms)
  PROVE  UNCHANGED Shown
<1>1. /\ phase # "callback" /\ phase' # "callback"
      /\ UNCHANGED <<elapsed, timers, activated, at>>
  BY DEF EndTick, StartTick
<1>2. Running' = NoTimer /\ Running = NoTimer
  BY <1>1 DEF Running
<1> QED BY <1>1, <1>2 DEF Shown, Expires, Ready, Activated

DueStep == [Due!DueNext]_Shown

LEMMA EveryDueStep ==
  ASSUME InRange, DueInv, [Next]_vars
  PROVE  DueStep
<1>1. BinInv
  BY DEF DueInv
<1>2. CASE \E t \in Timers : ClearTimer(t)
  BY <1>2, DueCancel DEF DueStep, Due!DueNext
<1>3. CASE \E t \in Timers, d \in Delays, extra, loop \in BOOLEAN :
             SetTimer(t, d, extra, loop)
  BY <1>1, <1>3, DueSet DEF DueStep, Due!DueNext
<1>4. CASE \E ms \in Elapses : StartTick(ms)
  BY <1>4, DueTick DEF DueStep
<1>5. CASE Jiffy
  BY <1>5, DueAdvance DEF DueStep, Due!DueNext
<1>6. CASE EndTick
  BY <1>6, DueTick DEF DueStep
<1>7. CASE Skip
  BY <1>1, <1>7, DueSkip DEF DueStep
<1>8. CASE CallAction
  BY <1>1, <1>8, DueRun DEF DueStep, Due!DueNext
<1>9. CASE ActionDone
  BY <1>1, <1>9, DueDone DEF DueStep, Due!DueNext
<1>10. CASE EndInvoke
  BY <1>1, <1>10, DueEndInvoke DEF DueStep
<1>11. CASE UNCHANGED vars
  BY <1>11 DEF DueStep, Shown, vars, Expires, Ready, Activated, Running
<1> QED BY <1>2, <1>3, <1>4, <1>5, <1>6, <1>7, <1>8, <1>9, <1>10, <1>11 DEF Next

(***************************************************************************)
(* The hierarchical wheel implements the abstract timers, for any number   *)
(* of wheels but one, any slots, delays, updates and callbacks: in the     *)
(* jiffy in which a timer is due, and in none a jiffy or more before it,   *)
(* the timer is activated, from whatever wheel and however often it was    *)
(* moved; it is run once, unless it was cleared.  The delays are those     *)
(* whose due time fits the width of the clock: a larger one wraps.         *)
(***************************************************************************)
THEOREM WheelsImplementTimers == InRange => (Spec => ImplementsDueTimers)
<1> SUFFICES ASSUME InRange PROVE Spec => ImplementsDueTimers
  OBVIOUS
<1>1. Init => DueInv /\ Due!DueInit
  <2> SUFFICES ASSUME Init PROVE Due!DueInit /\ DueInv
    OBVIOUS
  <2>1. elapsed = 0 /\ timers = [t \in {} |-> 0] /\ activated = <<>> /\ at = 0
        /\ phase = "idle"
    BY DEF Init
  <2>2. Running = NoTimer
    BY <2>1 DEF Running
  <2>3. DOMAIN timers = {}
    BY <2>1
  <2>4. Expires = [t \in {} |-> 0] /\ Ready = {}
    BY <2>3 DEF Expires, Ready
  <2> QED BY <2>1, <2>2, <2>4, DueInvInit DEF Due!DueInit, Expires, Ready
<1>2. DueInv /\ [Next]_vars => DueInv' /\ DueStep
  BY DueInvNext, EveryDueStep
<1> QED BY <1>1, <1>2, PTL
        DEF Spec, DueStep, Shown, Expires, Ready, ImplementsDueTimers,
            Due!DueSpec, Due!dueVars
-----------------------------------------------------------------------------
(***************************************************************************)
(* Order.  Two timers that are due at the same time keep their order in    *)
(* every bin and always move together: while a slot is emptied, the first  *)
(* of them may already be where the second goes next.                      *)
(***************************************************************************)
Sequential(Q, t, u) ==
  \A p, q, i, j : At(Q, p, i, t) /\ At(Q, q, j, u) => p = q /\ i < j

Ordered(Q, t, u, h) ==
  \A p, q, i, j : At(Q, p, i, t) /\ At(Q, q, j, u) =>
    (p = q /\ i < j) \/ (q = Moving /\ p = h)

LEMMA MoveOrder ==
  ASSUME NEW Q \in [Bins -> Seq(Timers)],
         NEW p \in Bins, NEW q \in Bins, p # q,
         NEW R, R = Moved(Q, p, q),
         NEW t, NEW u, Sequential(Q, t, u)
  PROVE  Sequential(R, t, u)
<1> DEFINE n == Len(Q[q])
<1>1. n \in Nat
  OBVIOUS
<1>2. \A r, i, v : At(R, r, i, v) =>
        /\ At(Q, From(r, i, p, q, n), Index(r, i, q, n), v)
        /\ i \in Nat /\ r # p
  BY MovedAt
<1> HIDE DEF n
<1>3. ASSUME NEW r, NEW s, NEW i, NEW j, At(R, r, i, t), At(R, s, j, u)
      PROVE  r = s /\ i < j
  <2>1. /\ From(r, i, p, q, n) = From(s, j, p, q, n)
        /\ Index(r, i, q, n) < Index(s, j, q, n)
        /\ i \in Nat /\ j \in Nat /\ r # p /\ s # p
    BY <1>2, <1>3 DEF Sequential
  <2> QED BY <1>1, <2>1 DEF From, Index
<1> QED BY <1>3 DEF Sequential

(* The first timer of the bin of those that move goes on to bin g.         *)
LEMMA PassOrder ==
  ASSUME NEW Q \in [Bins -> Seq(Timers)], Once(Q), Q[Moving] # <<>>,
         NEW R, R = Popped(Q, Moving),
         NEW t, NEW u, NEW h, Ordered(Q, t, u, h)
  PROVE  /\ Ordered(R, t, u, h)
         /\ \A g \in Bins \ {Moving} :
              (Q[Moving][1] \in {t, u} => g = h) /\ t # u =>
                Ordered(Appended(R, g, Q[Moving][1]), t, u, h)
<1> DEFINE v == Q[Moving][1]
<1>1. /\ R \in [Bins -> Seq(Timers)]
      /\ At(Q, Moving, 1, v) /\ v \in Timers
      /\ \A q, i, w : At(R, q, i, w) =>
           At(Q, q, IF q = Moving THEN i + 1 ELSE i, w) /\ i \in Nat \ {0}
  BY BinsApart, PoppedAt
<1> HIDE DEF v
<1>2. Ordered(R, t, u, h)
  <2> SUFFICES ASSUME NEW p, NEW q, NEW i, NEW j, At(R, p, i, t), At(R, q, j, u)
               PROVE  (p = q /\ i < j) \/ (q = Moving /\ p = h)
    BY DEF Ordered
  <2>1. /\ At(Q, p, IF p = Moving THEN i + 1 ELSE i, t) /\ i \in Nat
        /\ At(Q, q, IF q = Moving THEN j + 1 ELSE j, u) /\ j \in Nat
    BY <1>1
  <2>2. \/ p = q /\ (IF p = Moving THEN i + 1 ELSE i) <
                       (IF q = Moving THEN j + 1 ELSE j)
        \/ q = Moving /\ p = h
    BY <2>1 DEF Ordered
  <2> QED BY <2>1, <2>2
<1>3. \A q, i : ~At(R, q, i, v)
  <2> SUFFICES ASSUME NEW q, NEW i, At(R, q, i, v) PROVE FALSE
    OBVIOUS
  <2>1. At(Q, q, IF q = Moving THEN i + 1 ELSE i, v) /\ i \in Nat \ {0}
    BY <1>1
  <2>2. q = Moving /\ (IF q = Moving THEN i + 1 ELSE i) = 1
    BY <1>1, <2>1 DEF Once
  <2> QED BY <2>1, <2>2
<1>4. ASSUME NEW g \in Bins \ {Moving}, v \in {t, u} => g = h, t # u
      PROVE  Ordered(Appended(R, g, v), t, u, h)
  <2> DEFINE S == Appended(R, g, v)
             n == Len(R[g]) + 1
  <2>1. \A q, i, w : At(S, q, i, w) <=>
          At(R, q, i, w) \/ (q = g /\ i = n /\ w = v)
    <3>1. S = Appended(R, g, v) /\ R \in [Bins -> Seq(Timers)]
          /\ g \in Bins /\ v \in Timers
      BY <1>1
    <3> HIDE DEF S
    <3> QED BY <3>1, AppendedAt
  <2>2. \A i, w : At(R, g, i, w) => i < n
    BY <1>1 DEF At
  <2> HIDE DEF S, n
  <2> SUFFICES ASSUME NEW p, NEW q, NEW i, NEW j, At(S, p, i, t), At(S, q, j, u)
               PROVE  (p = q /\ i < j) \/ (q = Moving /\ p = h)
    BY DEF Ordered, S
  <2>3. CASE v # t /\ v # u
    BY <1>2, <2>1, <2>3 DEF Ordered
  <2>4. CASE v = t
    <3>1. p = g /\ g = h /\ At(R, q, j, u)
      BY <1>3, <1>4, <2>1, <2>4
    <3>2. At(Q, q, IF q = Moving THEN j + 1 ELSE j, u)
      BY <1>1, <3>1
    <3>3. q = Moving
      BY <1>1, <2>4, <3>2 DEF Ordered
    <3> QED BY <3>1, <3>3
  <2>5. CASE v = u
    <3>1. q = g /\ j = n /\ g = h /\ At(R, p, i, t)
      BY <1>3, <1>4, <2>1, <2>5
    <3>2. /\ At(Q, p, IF p = Moving THEN i + 1 ELSE i, t) /\ i \in Nat \ {0}
      BY <1>1, <3>1
    <3>3. p = h
      <4>1. \/ p = Moving /\ (IF p = Moving THEN i + 1 ELSE i) < 1
            \/ p = h
        BY <1>1, <2>5, <3>2 DEF Ordered
      <4> QED BY <3>2, <4>1
    <3> QED BY <2>2, <3>1, <3>3
  <2> QED BY <2>3, <2>4, <2>5
<1> QED BY <1>2, <1>4 DEF v

(* Two timers with one due time. *)
Twins(t, u) ==
  /\ t # u /\ Used(t) /\ Used(u)
  /\ timers[t].expires = timers[u].expires

(* Where the twins t and u go when they are placed. *)
InOrder(x, mov, t, u) ==
  Ordered(Layout(x.wheels, x.activated, mov), t, u, Goal(x, timers[t].expires))

LEMMA SlotForSame ==
  ASSUME NEW ws, NEW r, \A v \in Wheels : r[v].index = ws[v].index,
         NEW d \in Nat
  PROVE  SlotFor(r, d) = SlotFor(ws, d)
BY WheelForType DEF SlotFor

LEMMA PlaceOrder ==
  ASSUME WheelTypeOK, NEW x \in State, NEW mov \in Seq(Timers), mov # <<>>,
         AllPlaced(x.wheels, x.activated, mov),
         NEW t, NEW u, Twins(t, u), InOrder(x, mov, t, u)
  PROVE  InOrder(Place(x, mov[1]), Tail(mov), t, u)
<1> DEFINE v == mov[1]
           y == Place(x, v)
           L == Layout(x.wheels, x.activated, mov)
           P == Popped(L, Moving)
           M == Layout(y.wheels, y.activated, Tail(mov))
           g == Goal(x, timers[v].expires)
           h == Goal(x, timers[t].expires)
<1>1. y \in State /\ Alike(x, y) /\ GoesOn(x, y, mov, v)
  BY PlaceIs
<1> HIDE DEF y
<1>2. L \in [Bins -> Seq(Timers)] /\ L[Moving] = mov
  BY LayoutType DEF State
<1>3. Once(L) /\ Ordered(L, t, u, h)
  BY DEF AllPlaced, InOrder
<1> HIDE DEF L
<1>4. IF ~Used(v) THEN M = P
      ELSE g \in Bins \ {Moving} /\ M = Appended(P, g, v)
  <2> HIDE DEF v
  <2> QED BY <1>1 DEF GoesOn, L
<1>5. v \in {t, u} => g = h
  <2> HIDE DEF v
  <2> QED BY DEF Twins
<1> HIDE DEF g, h, M
<1>6. /\ Ordered(P, t, u, h)
      /\ \A k \in Bins \ {Moving} :
           (v \in {t, u} => k = h) /\ t # u => Ordered(Appended(P, k, v), t, u, h)
  BY <1>2, <1>3, PassOrder
<1>7. Ordered(M, t, u, h)
  <2> HIDE DEF v, P
  <2> QED BY <1>4, <1>5, <1>6 DEF Twins
<1>8. Goal(y, timers[t].expires) = h
  <2>1. /\ y.elapsed = x.elapsed /\ x.elapsed \in Nat
        /\ timers[t].expires \in Nat
        /\ \A w \in Wheels : y.wheels[w].index = x.wheels[w].index
    BY <1>1 DEF State, Alike, Twins, Used, WheelTypeOK, TimerData
  <2> DEFINE d == timers[t].expires - x.elapsed
  <2>2. CASE timers[t].expires > x.elapsed
    <3>1. d \in Nat
      BY <2>1, <2>2
    <3> HIDE DEF d
    <3>2. SlotFor(y.wheels, d) = SlotFor(x.wheels, d)
      BY <2>1, <3>1, SlotForSame
    <3> QED BY <2>1, <2>2, <3>2 DEF Goal, h, d
  <2>3. CASE ~(timers[t].expires > x.elapsed)
    BY <2>1, <2>3 DEF Goal, h
  <2> QED BY <2>2, <2>3
<1> QED BY <1>7, <1>8 DEF InOrder, M, y

LEMMA GrowsMore ==
  ASSUME NEW a \in Seq(Timers), NEW b \in Seq(Timers), NEW c \in Seq(Timers),
         Grows(a, b), Grows(b, c)
  PROVE  Grows(a, c)
<1>1. Len(a) \in Nat /\ Len(b) \in Nat /\ Len(c) \in Nat
  BY LenProperties
<1>2. \A i \in 1..Len(a) : i \in 1..Len(b)
  BY <1>1 DEF Grows
<1> QED BY <1>1, <1>2 DEF Grows

(* What a step of tick() keeps: the order of twins, and those it activated. *)
Steady(x, y, mov) ==
  /\ Grows(x.activated, y.activated)
  /\ \A t, u : Twins(t, u) /\ Sequential(Layout(x.wheels, x.activated, mov), t, u) =>
       Sequential(Layout(y.wheels, y.activated, <<>>), t, u)

LEMMA PlaceAllGrows ==
  ASSUME WheelTypeOK, NEW x \in State,
         AllPlaced(x.wheels, x.activated, x.moving)
  PROVE  /\ PlaceAll(x) \in State
         /\ Grows(x.activated, PlaceAll(x).activated)
         /\ \A t, u : Twins(t, u) /\ InOrder(x, x.moving, t, u) =>
              InOrder(PlaceAll(x), <<>>, t, u)
<1> DEFINE m == x.moving
           n == Len(m)
           Kept(y, r) == \A t, u : Twins(t, u) /\ InOrder(x, x.moving, t, u) =>
                           InOrder(y, r, t, u)
           Good(k) == {y \in State :
                         /\ AllPlaced(y.wheels, y.activated, Rest(m, k))
                         /\ Grows(x.activated, y.activated)
                         /\ Kept(y, Rest(m, k))}
           S == [k \in 0..n |-> Good(k)]
<1>1. m \in Seq(Timers) /\ n \in Nat
  BY LenProperties DEF State
<1>2. \A k \in 0..n : S[k] = Good(k)
  OBVIOUS
<1>3. ASSUME NEW k \in 1..n, NEW y \in S[k - 1]
      PROVE  Place(y, m[k]) \in S[k]
  <2> DEFINE r == Rest(m, k - 1)
             z == Place(y, r[1])
  <2>1. k - 1 \in 0..n /\ k \in 0..n
    BY <1>1
  <2>2. r \in Seq(Timers) /\ r # <<>> /\ r[1] = m[k] /\ Tail(r) = Rest(m, k)
    <3> HIDE DEF m
    <3> QED BY <1>1, <2>1, RestProperties
  <2>3. /\ y \in State /\ AllPlaced(y.wheels, y.activated, r)
        /\ Grows(x.activated, y.activated) /\ Kept(y, r)
    BY <1>2, <2>1
  <2> HIDE DEF r, Kept
  <2>4. /\ z \in State /\ AllPlaced(z.wheels, z.activated, Tail(r))
        /\ Grows(y.activated, z.activated)
    BY <2>2, <2>3, PlaceSound, PlaceIs
  <2>5. Grows(x.activated, z.activated)
    <3>1. /\ x.activated \in Seq(Timers) /\ y.activated \in Seq(Timers)
          /\ z.activated \in Seq(Timers)
      BY <2>3, <2>4 DEF State
    <3> QED BY <2>3, <2>4, <3>1, GrowsMore
  <2>6. Kept(z, Tail(r))
    <3> SUFFICES ASSUME NEW t, NEW u, Twins(t, u), InOrder(x, x.moving, t, u)
                 PROVE  InOrder(z, Tail(r), t, u)
      BY DEF Kept
    <3>1. InOrder(y, r, t, u)
      BY <2>3 DEF Kept
    <3> QED BY <2>2, <2>3, <3>1, PlaceOrder
  <2> HIDE DEF z
  <2>7. z \in Good(k)
    BY <2>2, <2>4, <2>5, <2>6
  <2> HIDE DEF S, Good
  <2> QED BY <1>2, <2>1, <2>2, <2>7 DEF z
<1>4. x \in S[0]
  <2>1. Rest(m, 0) = m
    BY <1>1, RestProperties
  <2>2. x \in Good(0)
    BY <2>1 DEF Grows, State
  <2> HIDE DEF Good, S
  <2> QED BY <1>1, <1>2, <2>2
<1>5. PlaceAll(x) \in S[n]
  <2>1. x \in State /\ x \in S[0]
    BY <1>4
  <2>2. \A k \in 1..n : \A y \in S[k - 1] : Place(y, m[k]) \in S[k]
    BY <1>3
  <2> HIDE DEF S
  <2> QED BY ONLY <2>1, <2>2, PlaceAllIn
<1>6. PlaceAll(x) \in Good(n)
  <2>1. n \in 0..n
    BY <1>1
  <2> HIDE DEF S, n, Good
  <2> QED BY <1>2, <1>5, <2>1
<1>7. Rest(m, n) = <<>>
  BY <1>1, RestProperties
<1> QED BY <1>6, <1>7

LEMMA PlaceAllOrder ==
  ASSUME WheelTypeOK, NEW x \in State,
         AllPlaced(x.wheels, x.activated, x.moving)
  PROVE  Steady(x, PlaceAll(x), x.moving)
<1> DEFINE y == PlaceAll(x)
           e == <<>>
<1>1. /\ y \in State /\ Grows(x.activated, y.activated)
      /\ \A t, u : Twins(t, u) /\ InOrder(x, x.moving, t, u) =>
           InOrder(y, e, t, u)
  BY PlaceAllGrows
<1>2. e \in Seq(Timers) /\ Len(e) = 0
  OBVIOUS
<1> HIDE DEF y, e
<1>3. ASSUME NEW t, NEW u, Twins(t, u),
             Sequential(Layout(x.wheels, x.activated, x.moving), t, u)
      PROVE  Sequential(Layout(y.wheels, y.activated, e), t, u)
  <2>1. InOrder(x, x.moving, t, u)
    BY <1>3 DEF InOrder, Ordered, Sequential
  <2>2. InOrder(y, e, t, u)
    BY <1>1, <1>3, <2>1
  <2>3. Layout(y.wheels, y.activated, e)[Moving] = e
    <3> DEFINE ws == y.wheels
               act == y.activated
    <3>1. ws \in [Wheels -> Turning] /\ act \in Seq(Timers)
      BY <1>1 DEF State
    <3> HIDE DEF ws, act
    <3>2. Layout(ws, act, e)[Moving] = e
      BY ONLY <1>2, <3>1, LayoutType
    <3> QED BY <3>2 DEF ws, act
  <2>4. \A j : ~At(Layout(y.wheels, y.activated, e), Moving, j, u)
    BY <1>2, <2>3 DEF At
  <2> QED BY <2>2, <2>4 DEF InOrder, Ordered, Sequential
<1> QED BY <1>1, <1>3 DEF Steady, y, e

LEMMA RollOrder ==
  ASSUME WheelTypeOK, NEW x, NEW w \in Wheels, Turned(x, w - 1)
  PROVE  Steady(x, Roll(x, w), <<>>)
<1>1. /\ x \in State /\ AllPlaced(x.wheels, x.activated, <<>>)
      /\ \A v \in Wheels : x.wheels[v].index = SlotNum => v = w /\ x.carry
      /\ w \in 1..WheelNum /\ WheelNum \in Nat
  BY WheelAssumption DEF Turned, Wheels
<1>2. CASE ~x.carry \/ x.wheels[w].index # SlotNum
  <2> DEFINE y == [x EXCEPT !.carry = FALSE]
  <2>1. Roll(x, w) = y
    BY <1>2 DEF Roll
  <2>2. y.wheels = x.wheels /\ y.activated = x.activated
    BY <1>1 DEF State
  <2>3. Len(x.activated) \in Nat
    BY <1>1, LenProperties DEF State
  <2> HIDE DEF y
  <2> QED BY <2>1, <2>2, <2>3 DEF Steady, Grows
<1>3. CASE x.carry /\ x.wheels[w].index = SlotNum
  <2> DEFINE round == Rounded(x, w)
             taken == Take(round, w + 1)
             e == <<>>
  <2>1. Roll(x, w) = IF w = WheelNum THEN round ELSE PlaceAll(taken)
    BY <1>3 DEF Roll, Rounded
  <2>2. /\ round \in State /\ AllPlaced(round.wheels, round.activated, e)
        /\ round.wheels[w].index = 0
        /\ \A v \in Wheels \ {w} : round.wheels[v] = x.wheels[v]
        /\ round.activated = x.activated
        /\ Layout(round.wheels, round.activated, e) =
             Layout(x.wheels, x.activated, e)
    BY <1>1, RoundSound
  <2>3. Len(x.activated) \in Nat /\ e \in Seq(Timers)
    BY <1>1, LenProperties DEF State
  <2> HIDE DEF round
  <2>4. \A v \in Wheels : round.wheels[v].index # SlotNum
    BY <1>1, <2>2, WheelAssumption
  <2>5. CASE w = WheelNum
    <3> HIDE DEF e
    <3>1. Steady(x, round, e)
      <4>1. Grows(x.activated, round.activated)
        BY <2>2, <2>3 DEF Grows
      <4>2. \A t, u : Sequential(Layout(x.wheels, x.activated, e), t, u) =>
                        Sequential(Layout(round.wheels, round.activated, e), t, u)
        BY <2>2
      <4> QED BY <4>1, <4>2 DEF Steady, e
    <3> QED BY <2>1, <2>5, <3>1 DEF e
  <2>6. CASE w # WheelNum
    <3> DEFINE L == Layout(x.wheels, x.activated, e)
               p == <<w + 1, round.wheels[w + 1].index>>
               M == Layout(taken.wheels, taken.activated, taken.moving)
               y == PlaceAll(taken)
    <3>1. w + 1 \in Wheels
      BY <1>1, <2>6 DEF Wheels
    <3>2. /\ taken \in State /\ taken.activated = x.activated
          /\ p \in Bins \ {Moving} /\ M = Moved(L, p, Moving)
          /\ AllPlaced(taken.wheels, taken.activated, taken.moving)
      BY <2>2, <2>4, <3>1, TakeSound, TakeLayout
    <3>3. L \in [Bins -> Seq(Timers)] /\ Moving \in Bins
      BY <1>1, <2>3, LayoutType, BinsApart DEF State
    <3> HIDE DEF taken
    <3>4. Steady(taken, y, taken.moving)
      BY <3>2, PlaceAllOrder
    <3> HIDE DEF y, L, p, M
    <3>5. ASSUME NEW t, NEW u, Sequential(L, t, u) PROVE Sequential(M, t, u)
      BY <3>2, <3>3, <3>5, MoveOrder
    <3>6. Steady(x, y, e)
      <4>1. Grows(x.activated, y.activated)
        BY <3>2, <3>4 DEF Steady
      <4>2. ASSUME NEW t, NEW u, Twins(t, u), Sequential(L, t, u)
            PROVE  Sequential(Layout(y.wheels, y.activated, e), t, u)
        <5>1. Sequential(M, t, u)
          BY <3>5, <4>2
        <5> QED BY <3>4, <4>2, <5>1 DEF Steady, M
      <4> QED BY <4>1, <4>2 DEF Steady, L
    <3> QED BY <2>1, <2>6, <3>6 DEF y
  <2> QED BY <2>5, <2>6
<1> QED BY <1>1, <1>2, <1>3 DEF State

LEMMA RollAllOrder ==
  ASSUME WheelTypeOK, NEW x, Turned(x, 0)
  PROVE  Steady(x, RollAll(x), <<>>)
<1> DEFINE n == WheelNum
           Good(k) == {y \in State : Turned(y, k) /\ Steady(x, y, <<>>)}
           S == [k \in 0..n |-> Good(k)]
<1>1. n \in Nat /\ n \in 0..n
  BY WheelAssumption
<1>2. \A k \in 0..n : S[k] = Good(k)
  OBVIOUS
<1>3. x \in State /\ x.activated \in Seq(Timers) /\ Len(x.activated) \in Nat
  BY LenProperties DEF Turned, State
<1>4. ASSUME NEW k \in Wheels, NEW y \in S[k - 1]
      PROVE  Roll(y, k) \in S[k]
  <2> DEFINE z == Roll(y, k)
             e == <<>>
  <2>1. k - 1 \in 0..n /\ k \in 0..n
    BY <1>1 DEF Wheels
  <2>2. Turned(y, k - 1) /\ Steady(x, y, e)
    BY <1>2, <2>1
  <2>3. Turned(z, k) /\ Steady(y, z, e)
    BY <2>2, RollSound, RollOrder
  <2> HIDE DEF z, e
  <2>4. /\ z \in State /\ y.activated \in Seq(Timers)
        /\ z.activated \in Seq(Timers)
    BY <2>2, <2>3 DEF Turned, State
  <2>5. Steady(x, z, e)
    <3>1. Grows(x.activated, z.activated)
      BY <1>3, <2>2, <2>3, <2>4, GrowsMore DEF Steady
    <3> QED BY <2>2, <2>3, <3>1 DEF Steady, e
  <2>6. z \in Good(k)
    BY <2>3, <2>4, <2>5 DEF e
  <2> HIDE DEF S, Good
  <2> QED BY <1>2, <2>1, <2>6 DEF z
<1>5. x \in S[0]
  <2>1. x \in Good(0)
    BY <1>3 DEF Steady, Grows
  <2> HIDE DEF Good, S
  <2> QED BY <1>1, <1>2, <2>1
<1>6. RollAll(x) \in S[WheelNum]
  <2>1. \A k \in Wheels : \A y \in S[k - 1] : Roll(y, k) \in S[k]
    BY <1>4
  <2> HIDE DEF S
  <2> QED BY ONLY <1>5, <2>1, RollAllIn
<1>7. RollAll(x) \in Good(n)
  <2> HIDE DEF S, Good
  <2> QED BY <1>1, <1>2, <1>6
<1> QED BY <1>7

LEMMA JiffyOrder ==
  ASSUME BinInv, Jiffy
  PROVE  /\ Grows(activated, activated')
         /\ \A t, u : Twins(t, u) /\ Sequential(Here, t, u) => Sequential(Here', t, u)
<1> DEFINE x == FirstTaken
           y == RollAll(x)
           e == <<>>
           p == <<1, wheels[1].index>>
           M == Moved(Here, p, Moving)
           L == Layout(x.wheels, x.activated, e)
<1>1. /\ at = 0 /\ Turned(x, 0) /\ Grows(activated, x.activated)
      /\ p \in Bins \ {Moving} /\ Here \in [Bins -> Seq(Timers)]
      /\ L = Moved(M, Moving, Now)
  BY FirstTurn DEF Jiffy
<1>2. /\ wheels' = y.wheels /\ activated' = y.activated /\ at' = at
  BY JiffyEnds
<1>3. WheelTypeOK /\ WheelTypeOK'
  BY JiffyStep DEF BinInv
<1> HIDE DEF x
<1>4. Steady(x, y, e)
  BY <1>1, <1>3, RollAllOrder
<1> HIDE DEF y, e
<1>5. Here' = Layout(y.wheels, y.activated, e)
  <2>1. activated' \in Seq(Timers)
    BY <1>3 DEF WheelTypeOK
  <2>2. Rest(activated', 0) = activated'
    BY <2>1, RestProperties
  <2> QED BY <1>1, <1>2, <2>2 DEF Here, e
<1>6. Grows(activated, activated')
  <2>1. /\ activated \in Seq(Timers) /\ activated' \in Seq(Timers)
        /\ x.activated \in Seq(Timers)
    BY <1>1, <1>3 DEF WheelTypeOK, Turned, State
  <2> QED BY <1>1, <1>2, <1>4, <2>1, GrowsMore DEF Steady
<1>7. Moving \in Bins /\ Now \in Bins /\ Moving # Now
  BY BinsApart
<1>8. M \in [Bins -> Seq(Timers)]
  BY <1>1, <1>7, MovedIs DEF Moves
<1> HIDE DEF p
<1>9. ASSUME NEW t, NEW u, Twins(t, u), Sequential(Here, t, u)
      PROVE  Sequential(Here', t, u)
  <2>1. Sequential(M, t, u)
    BY <1>1, <1>7, <1>9, MoveOrder
  <2> HIDE DEF M, L
  <2>2. Sequential(L, t, u)
    BY <1>1, <1>7, <1>8, <2>1, MoveOrder
  <2> QED BY <1>4, <1>5, <1>9, <2>2 DEF Steady, L, e
<1> QED BY <1>6, <1>9

-----------------------------------------------------------------------------
(***************************************************************************)
(* Two timeouts of the same delay.  They were set at a beat of the clock,  *)
(* so their due times are the same, one jiffy apart, or more.              *)
(***************************************************************************)
Beats == {Jiffies * k : k \in Nat}

LEMMA BeatsApart ==
  /\ 0 \in Beats /\ Jiffies \in Beats
  /\ \A a, b \in Beats : a \in Nat /\ a + b \in Beats /\ (a < b => a + Jiffies <= b)
<1>1. Jiffies \in Nat \ {0}
  BY WheelAssumption
<1>2. Jiffies * 0 = 0 /\ Jiffies * 1 = Jiffies
  BY <1>1
<1>3. ASSUME NEW a \in Beats, NEW b \in Beats
      PROVE  a \in Nat /\ a + b \in Beats /\ (a < b => a + Jiffies <= b)
  <2>1. PICK k \in Nat : a = Jiffies * k
    BY DEF Beats
  <2>2. PICK l \in Nat : b = Jiffies * l
    BY DEF Beats
  <2>3. a \in Nat /\ b \in Nat
    BY <1>1, <2>1, <2>2
  <2>4. a + b = Jiffies * (k + l)
    BY <1>1, <2>1, <2>2
  <2>5. ASSUME a < b PROVE a + Jiffies <= b
    <3>1. ~(l <= k)
      BY <1>1, <2>1, <2>2, <2>3, <2>5, Monotone
    <3>2. k + 1 \in Nat /\ k + 1 <= l
      BY <3>1
    <3>3. Jiffies * (k + 1) <= Jiffies * l
      BY <1>1, <3>2, Monotone
    <3>4. Jiffies * (k + 1) = Jiffies * k + Jiffies
      BY <1>1, Distribute
    <3> QED BY <2>1, <2>2, <3>3, <3>4
  <2>6. k + l \in Nat
    OBVIOUS
  <2> QED BY <2>3, <2>4, <2>5, <2>6 DEF Beats
<1> QED BY <1>1, <1>2, <1>3 DEF Beats

(* When a timer was set; where it is in that jiffy; and from then on.      *)
Born(t) ==
  /\ timers[t].expires - timers[t].rate \in Beats
  /\ timers[t].expires - timers[t].rate <= elapsed

Recent(t) ==
  timers[t].expires = elapsed + timers[t].rate =>
    \A p, i : At(Here, p, i, t) => p = SlotFor(wheels, timers[t].rate)

Pending(t) ==
  \A p, i : At(Here, p, i, t) /\ p # Now =>
    \/ elapsed < timers[t].expires
    \/ elapsed = timers[t].expires /\ timers[t].rate = 0

(* When u is activated then so is t, and before it, if they are not those  *)
(* that may swap.                                                          *)
InTurn(t, u) ==
  \A p, i, j : At(Here, Now, j, u) /\ At(Here, p, i, t) =>
    p = Now /\ (i < j \/ MaySwap(t, u))

Lined(t, u) ==
  /\ t # u /\ timers[t].expires <= timers[u].expires
  /\ timers[t].expires = timers[u].expires => Sequential(Here, t, u)
  /\ InTurn(t, u)

OrderInv ==
  /\ elapsed \in Beats
  /\ \A t \in DOMAIN timers :
       ~timers[t].loop => Born(t) /\ Recent(t) /\ Pending(t)
  /\ \A t, u \in DOMAIN timers : Follows(t, u) => Lined(t, u)

(* Steps in which nothing moves but the front of what is activated.        *)
Slides(k) ==
  \A t \in DOMAIN timers' : ~timers'[t].loop =>
    \A p, i : At(Here', p, i, t) =>
      At(Here, p, IF p = Now THEN i + k ELSE i, t) /\ i \in Nat

LEMMA KeepOrder ==
  ASSUME WheelTypeOK, OrderInv, NEW k \in Nat, Slides(k),
         elapsed' = elapsed, order' = order,
         DOMAIN timers' \subseteq DOMAIN timers,
         \A t \in DOMAIN timers' : ~timers'[t].loop => timers'[t] = timers[t],
         \A w \in Wheels : wheels'[w].index = wheels[w].index
  PROVE  OrderInv'
<1>1. ASSUME NEW t \in DOMAIN timers', ~timers'[t].loop
      PROVE  (Born(t) /\ Recent(t) /\ Pending(t))'
  <2>1. Born(t) /\ Recent(t) /\ Pending(t) /\ timers'[t] = timers[t]
    BY <1>1 DEF OrderInv
  <2>2. SlotFor(wheels', timers[t].rate) = SlotFor(wheels, timers[t].rate)
    <3>1. timers[t].rate \in Nat
      BY DEF WheelTypeOK, TimerData
    <3> QED BY <3>1, SlotForSame
  <2>3. \A p, i : At(Here', p, i, t) =>
          At(Here, p, IF p = Now THEN i + k ELSE i, t)
    BY <1>1 DEF Slides
  <2>4. Born(t)'
    BY <2>1 DEF Born
  <2>5. Recent(t)'
    BY <2>1, <2>2, <2>3 DEF Recent
  <2>6. Pending(t)'
    BY <2>1, <2>3 DEF Pending
  <2> QED BY <2>4, <2>5, <2>6
<1>2. ASSUME NEW t \in DOMAIN timers', NEW u \in DOMAIN timers', Follows(t, u)'
      PROVE  Lined(t, u)'
  <2>1. ~timers'[t].loop /\ ~timers'[u].loop
    BY <1>2 DEF Follows
  <2>2. timers'[t] = timers[t] /\ timers'[u] = timers[u]
    BY <2>1
  <2>3. Lined(t, u)
    BY <1>2, <2>2 DEF OrderInv, Follows, Used
  <2>4. \A p, q, i, j : At(Here', p, i, t) /\ At(Here', q, j, u) =>
          /\ At(Here, p, IF p = Now THEN i + k ELSE i, t) /\ i \in Nat
          /\ At(Here, q, IF q = Now THEN j + k ELSE j, u) /\ j \in Nat
    BY <2>1 DEF Slides
  <2>5. timers[t].expires = timers[u].expires => Sequential(Here, t, u)'
    <3> SUFFICES ASSUME timers[t].expires = timers[u].expires,
                        NEW p, NEW q, NEW i, NEW j,
                        At(Here', p, i, t), At(Here', q, j, u)
                 PROVE  p = q /\ i < j
      BY DEF Sequential
    <3>1. Sequential(Here, t, u)
      BY <2>3 DEF Lined
    <3>2. /\ At(Here, p, IF p = Now THEN i + k ELSE i, t) /\ i \in Nat
          /\ At(Here, q, IF q = Now THEN j + k ELSE j, u) /\ j \in Nat
      BY <2>4
    <3>3. p = q /\ (IF p = Now THEN i + k ELSE i) < (IF q = Now THEN j + k ELSE j)
      BY <3>1, <3>2 DEF Sequential
    <3> QED BY <3>2, <3>3
  <2>6. InTurn(t, u)'
    <3> SUFFICES ASSUME NEW p, NEW i, NEW j,
                        At(Here', Now, j, u), At(Here', p, i, t)
                 PROVE  p = Now /\ (i < j \/ MaySwap(t, u)')
      BY DEF InTurn
    <3>1. MaySwap(t, u)' <=> MaySwap(t, u)
      BY <2>2 DEF MaySwap
    <3>2. /\ At(Here, p, IF p = Now THEN i + k ELSE i, t) /\ i \in Nat
          /\ At(Here, Now, j + k, u) /\ j \in Nat
      BY <2>4
    <3>3. p = Now /\ ((IF p = Now THEN i + k ELSE i) < j + k \/ MaySwap(t, u))
      BY <2>3, <3>2 DEF Lined, InTurn
    <3> QED BY <3>1, <3>2, <3>3
  <2> QED BY <2>2, <2>3, <2>5, <2>6 DEF Lined
<1> QED BY <1>1, <1>2 DEF OrderInv

LEMMA HereStays ==
  ASSUME WheelTypeOK, Here' = Here
  PROVE  Slides(0)
<1>1. Here \in [Bins -> Seq(Timers)]
  BY HereIn
<1>2. \A p \in Bins : Len(Here[p]) \in Nat
  BY <1>1, LenProperties
<1>3. ASSUME NEW p, NEW i, NEW t, At(Here, p, i, t)
      PROVE  At(Here, p, IF p = Now THEN i + 0 ELSE i, t) /\ i \in Nat
  <2>1. i \in Nat
    BY <1>2, <1>3 DEF At
  <2>2. (IF p = Now THEN i + 0 ELSE i) = i
    BY <2>1
  <2> QED BY <1>3, <2>1, <2>2
<1>4. \A p, i, t : At(Here', p, i, t) =>
        At(Here, p, IF p = Now THEN i + 0 ELSE i, t) /\ i \in Nat
  BY <1>3
<1> QED BY <1>4 DEF Slides

LEMMA PoppedSlides ==
  ASSUME WheelTypeOK, Binned, at < Len(activated),
         Here' = Popped(Here, Now)
  PROVE  Slides(1)
<1>1. Here \in [Bins -> Seq(Timers)] /\ Here[Now] # <<>> /\ Now \in Bins
  BY NextTimer, BinsApart
<1> DEFINE R == Popped(Here, Now)
<1>2. \A q, i, u : At(R, q, i, u) =>
        At(Here, q, IF q = Now THEN i + 1 ELSE i, u) /\ i \in Nat \ {0}
  BY <1>1, PoppedAt
<1>3. \A q, i, u : At(Here', q, i, u) =>
        At(Here, q, IF q = Now THEN i + 1 ELSE i, u) /\ i \in Nat
  <2> HIDE DEF R
  <2> QED BY <1>2 DEF R
<1> QED BY <1>3 DEF Slides

LEMMA SkipOrder ==
  ASSUME BinInv, OrderInv, Skip
  PROVE  OrderInv'
<1>1. WheelTypeOK /\ Binned /\ at < Len(activated)
  BY DEF BinInv, Skip
<1>2. UNCHANGED <<elapsed, timers, order, wheels, activated>> /\ at' = at + 1
  BY DEF Skip
<1>3. Here' = Popped(Here, Now)
  BY <1>1, <1>2, NextTimer DEF Here
<1>4. Slides(1)
  BY <1>1, <1>3, PoppedSlides
<1> QED BY <1>1, <1>2, <1>4, KeepOrder

LEMMA StayOrder ==
  ASSUME WheelTypeOK, OrderInv, Here' = Here,
         UNCHANGED <<elapsed, order, wheels>>,
         DOMAIN timers' \subseteq DOMAIN timers,
         \A t \in DOMAIN timers' : timers'[t] = timers[t]
  PROVE  OrderInv'
<1>1. Slides(0)
  BY HereStays
<1> QED BY <1>1, KeepOrder

LEMMA EndInvokeOrder ==
  ASSUME BinInv, OrderInv, EndInvoke
  PROVE  OrderInv'
<1>1. WheelTypeOK
  BY DEF BinInv
<1>2. Rest(activated, at) = <<>> /\ Rest(activated', at') = <<>>
  <2>1. activated \in Seq(Timers) /\ activated' = <<>> /\ <<>> \in Seq(Timers)
    BY <1>1 DEF WheelTypeOK, EndInvoke
  <2>2. Len(<<>>) = 0
    OBVIOUS
  <2> QED BY <2>1, <2>2, RestProperties DEF EndInvoke
<1>3. Here' = Here /\ UNCHANGED <<elapsed, order, wheels, timers>>
  BY <1>2 DEF Here, EndInvoke
<1> QED BY <1>1, <1>3, StayOrder

LEMMA ActionDoneOrder ==
  ASSUME BinInv, OrderInv, ActionDone
  PROVE  OrderInv'
<1> DEFINE act == Rest(activated, at + 1)
           R == Layout(wheels, act, <<>>)
           v == activated[at + 1]
<1>1. /\ WheelTypeOK /\ Binned /\ at < Len(activated)
      /\ at' = at + 1 /\ UNCHANGED <<elapsed, order, activated>>
  BY DEF BinInv, Invoking, ActionDone
<1>2. /\ act \in Seq(Timers) /\ v \in Timers
      /\ Here \in [Bins -> Seq(Timers)] /\ R = Popped(Here, Now)
      /\ Here[Now] # <<>>
  BY <1>1, NextTimer
<1>3. Here' = Layout(wheels', act, <<>>)
  BY <1>1 DEF Here
<1>4. /\ R \in [Bins -> Seq(Timers)]
      /\ \A q, i, u : At(R, q, i, u) =>
           At(Here, q, IF q = Now THEN i + 1 ELSE i, u) /\ i \in Nat
  <2> HIDE DEF R
  <2> QED BY <1>2, PoppedAt, BinsApart
<1>5. CASE Used(v) /\ timers[v].loop
  <2> DEFINE d == timers[v].rate
             x == (d + elapsed) % Width
  <2>1. timers' = [timers EXCEPT ![v].expires = x]
        /\ wheels' = Rearrange(wheels, v, d)
    BY <1>5 DEF ActionDone
  <2>2. timers[v] \in TimerData /\ d \in Nat /\ v \in DOMAIN timers
    BY <1>1, <1>5 DEF WheelTypeOK, TimerData, Used
  <2>3. /\ DOMAIN timers' = DOMAIN timers
        /\ \A t \in DOMAIN timers' : ~timers'[t].loop =>
             t # v /\ timers'[t] = timers[t]
    <3> DEFINE new == [timers[v] EXCEPT !.expires = x]
    <3>1. timers' = [timers EXCEPT ![v] = new]
      BY <2>1
    <3>2. new.loop = timers[v].loop
      <4> DEFINE c == timers[v]
      <4>1. c \in TimerData
        BY <2>2
      <4> HIDE DEF c, x
      <4>2. [c EXCEPT !.expires = x].loop = c.loop
        BY <4>1 DEF TimerData
      <4> QED BY <4>2 DEF c
    <3> HIDE DEF new, v
    <3> QED BY <1>5, <2>2, <3>1, <3>2
  <2>4. /\ \A w \in Wheels : wheels'[w].index = wheels[w].index
        /\ SlotFor(wheels, d) \in Bins
        /\ Here' = Appended(R, SlotFor(wheels, d), v)
    <3> DEFINE e == <<>>
    <3>1. /\ wheels \in [Wheels -> Turning] /\ e \in Seq(Timers)
          /\ act \in Seq(Timers) /\ v \in Timers /\ d \in Nat
      BY <1>1, <1>2, <2>2, HereType
    <3> HIDE DEF act, v, d, e
    <3>2. /\ \A w \in Wheels : Rearrange(wheels, v, d)[w].index = wheels[w].index
          /\ SlotFor(wheels, d) \in Bins \ {Now, Moving}
          /\ Layout(Rearrange(wheels, v, d), act, e) =
               Appended(Layout(wheels, act, e), SlotFor(wheels, d), v)
      BY ONLY <3>1, RearrangeLayout
    <3> QED BY <1>3, <2>1, <3>2 DEF e
  <2> HIDE DEF R, v, d, act
  <2>5. \A q, i, u : At(Here', q, i, u) => At(R, q, i, u) \/ u = v
    <3> DEFINE S == Here'
               s == SlotFor(wheels, d)
    <3>1. /\ S = Appended(R, s, v) /\ s \in Bins
          /\ R \in [Bins -> Seq(Timers)] /\ v \in Timers
      BY <1>2, <1>4, <2>4
    <3> HIDE DEF S, s
    <3>2. \A q, i, u : At(S, q, i, u) => At(R, q, i, u) \/ u = v
      BY ONLY <3>1, AppendedAt
    <3> QED BY <3>2 DEF S
  <2>6. Slides(1)
    <3>1. ASSUME NEW p, NEW i, NEW t, t \in DOMAIN timers', ~timers'[t].loop,
                 At(Here', p, i, t)
          PROVE  At(Here, p, IF p = Now THEN i + 1 ELSE i, t) /\ i \in Nat
      <4>1. At(R, p, i, t)
        BY <2>3, <2>5, <3>1
      <4> QED BY <1>4, <4>1
    <3> QED BY <3>1 DEF Slides
  <2> QED BY <1>1, <2>3, <2>4, <2>6, KeepOrder
<1>6. CASE ~(Used(v) /\ timers[v].loop)
  <2>1. /\ DOMAIN timers' \subseteq DOMAIN timers /\ wheels' = wheels
        /\ \A t \in DOMAIN timers' : timers'[t] = timers[t]
    BY <1>6 DEF ActionDone, Cleared
  <2>2. Here' = Popped(Here, Now)
    BY <1>2, <1>3, <2>1
  <2>3. Slides(1)
    BY <1>1, <2>2, PoppedSlides
  <2> QED BY <1>1, <2>1, <2>3, KeepOrder
<1> QED BY <1>5, <1>6

LEMMA SetOrder ==
  ASSUME InRange, DueInv, OrderInv, NEW v \in Timers, NEW delay \in Delays,
         NEW extra \in BOOLEAN, NEW loop \in BOOLEAN,
         SetTimer(v, delay, extra, loop)
  PROVE  OrderInv'
<1> DEFINE r == Span(delay, extra)
           x == (r + elapsed) % Width
           s == SlotFor(wheels, r)
           act == Rest(activated, at)
<1>1. /\ WheelTypeOK /\ Binned /\ NoWrap /\ elapsed \in Nat /\ elapsed \in Beats
      /\ order \in Seq(Timers) /\ Len(order) \in Nat
  BY LenProperties DEF DueInv, BinInv, OrderInv, WheelTypeOK
<1>2. /\ wheels' = Rearrange(wheels, v, r)
      /\ UNCHANGED <<elapsed, activated, at>>
      /\ timers' = [u \in DOMAIN timers \cup {v} |->
                     IF u # v THEN timers[u]
                     ELSE [loop |-> loop, rate |-> r, expires |-> x]]
      /\ order' = Append(order, v) /\ ~WasSet(v)
  BY DEF SetTimer, WasSet
<1>3. r \in Nat /\ r + MaxElapsed < Width
  BY SpanType DEF InRange
<1> HIDE DEF r
<1>4. x = elapsed + r
  BY <1>1, <1>3, NoOverflow
<1> HIDE DEF x
<1>5. /\ DOMAIN timers' = DOMAIN timers \cup {v} /\ timers'[v].rate = r
      /\ timers'[v].expires = elapsed + r
      /\ v \notin DOMAIN timers /\ ~Has(Here, v)
      /\ \A u \in DOMAIN timers' \ {v} : timers'[u] = timers[u]
  BY <1>1, <1>2, <1>4 DEF Binned
<1>6. /\ \A w \in Wheels : wheels'[w].index = wheels[w].index
      /\ s \in Bins \ {Now, Moving}
      /\ Here' = Appended(Here, s, v)
      /\ Here \in [Bins -> Seq(Timers)]
  <2> DEFINE e == <<>>
  <2>1. wheels \in [Wheels -> Turning] /\ e \in Seq(Timers) /\ act \in Seq(Timers)
    BY <1>1, HereType
  <2> HIDE DEF act, e
  <2>2. /\ \A w \in Wheels : Rearrange(wheels, v, r)[w].index = wheels[w].index
        /\ s \in Bins \ {Now, Moving}
        /\ Layout(Rearrange(wheels, v, r), act, e) =
             Appended(Layout(wheels, act, e), s, v)
    BY ONLY <1>3, <2>1, v \in Timers, RearrangeLayout
  <2>3. Here = Layout(wheels, act, e) /\ Here' = Layout(wheels', act, e)
    BY <1>2 DEF Here, act, e
  <2> QED BY <1>1, <1>2, <2>2, <2>3, HereIn
<1>7. \A d \in Nat : SlotFor(wheels', d) = SlotFor(wheels, d)
  BY <1>6, SlotForSame
<1> DEFINE S == Here'
           n == Len(Here[s]) + 1
<1>8. \A q, i, u : At(S, q, i, u) <=> At(Here, q, i, u) \/ (q = s /\ i = n /\ u = v)
  <2>1. /\ Here \in [Bins -> Seq(Timers)] /\ s \in Bins /\ v \in Timers
        /\ S = Appended(Here, s, v)
    BY <1>6
  <2> HIDE DEF S, s
  <2> QED BY ONLY <2>1, AppendedAt
<1>9. \A i, u : At(Here, s, i, u) => i < n
  BY <1>6 DEF At
<1> HIDE DEF s, n
<1>10. ASSUME NEW t \in DOMAIN timers', ~timers'[t].loop
       PROVE  (Born(t) /\ Recent(t) /\ Pending(t))'
  <2>1. CASE t = v
    <3>1. \A p, i : At(Here', p, i, t) => p = s
      BY <1>5, <1>8, <2>1 DEF Has
    <3>2. Born(t)'
      BY <1>1, <1>2, <1>3, <1>5, <2>1 DEF Born
    <3>3. Recent(t)'
      BY <1>3, <1>5, <1>7, <2>1, <3>1 DEF Recent, s
    <3>4. Pending(t)'
      <4>1. \/ elapsed' < timers'[t].expires
            \/ elapsed' = timers'[t].expires /\ timers'[t].rate = 0
        <5>1. elapsed' = elapsed /\ timers'[t].rate = r
              /\ timers'[t].expires = elapsed + r
          BY <1>2, <1>5, <2>1
        <5>2. CASE r = 0
          BY <1>1, <5>1, <5>2
        <5>3. CASE r # 0
          BY <1>1, <1>3, <5>1, <5>3
        <5> QED BY <5>2, <5>3
      <4> QED BY <4>1 DEF Pending
    <3> QED BY <3>2, <3>3, <3>4
  <2>2. CASE t # v
    <3>1. /\ t \in DOMAIN timers /\ timers'[t] = timers[t]
          /\ Born(t) /\ Recent(t) /\ Pending(t)
          /\ timers[t].rate \in Nat
      BY <1>1, <1>5, <1>10, <2>2 DEF OrderInv, WheelTypeOK, TimerData
    <3>2. \A p, i : At(Here', p, i, t) => At(Here, p, i, t)
      BY <1>8, <2>2
    <3>3. Born(t)'
      BY <1>2, <3>1 DEF Born
    <3>4. Recent(t)'
      BY <1>2, <1>7, <3>1, <3>2 DEF Recent
    <3>5. Pending(t)'
      BY <1>2, <3>1, <3>2 DEF Pending
    <3> QED BY <3>3, <3>4, <3>5
  <2> QED BY <2>1, <2>2
<1>11. ASSUME NEW t \in DOMAIN timers', NEW u \in DOMAIN timers', Follows(t, u)'
       PROVE  t \in DOMAIN timers /\ t # v /\ (u # v => Follows(t, u))
  <2> PICK j \in 1..Len(order') :
             \E i \in 1..j - 1 : order'[i] = t /\ order'[j] = u
    BY <1>11 DEF Follows
  <2>1. PICK i \in 1..j - 1 : order'[i] = t /\ order'[j] = u
    OBVIOUS
  <2>2. /\ Len(order') = Len(order) + 1 /\ order'[Len(order) + 1] = v
        /\ \A k \in 1..Len(order) : order'[k] = order[k] /\ order[k] # v
    BY <1>1, <1>2, AppendProperties DEF WasSet
  <2>3. i \in 1..Len(order)
    BY <1>1, <2>1, <2>2
  <2>4. t # v /\ t \in DOMAIN timers
    BY <1>5, <2>1, <2>2, <2>3
  <2>5. ASSUME u # v PROVE Follows(t, u)
    <3>1. j \in 1..Len(order)
      BY <1>1, <2>1, <2>2, <2>5
    <3>2. order[i] = t /\ order[j] = u
      BY <2>1, <2>2, <2>3, <3>1
    <3>3. u \in DOMAIN timers /\ timers'[t] = timers[t] /\ timers'[u] = timers[u]
      BY <1>5, <2>4, <2>5
    <3> QED BY <1>11, <2>4, <3>1, <3>2, <3>3 DEF Follows, Used
  <2> QED BY <2>4, <2>5
<1>12. ASSUME NEW t \in DOMAIN timers', NEW u \in DOMAIN timers', Follows(t, u)'
       PROVE  Lined(t, u)'
  <2>1. /\ t \in DOMAIN timers /\ t # v /\ timers'[t] = timers[t]
        /\ u # v => Follows(t, u)
    BY <1>5, <1>11, <1>12
  <2>2. /\ timers'[t].rate = timers'[u].rate /\ ~timers'[t].loop
    BY <1>12 DEF Follows
  <2>3. \A p, i : At(Here', p, i, t) => At(Here, p, i, t)
    BY <1>8, <2>1
  <2>4. CASE u = v
    <3>1. Born(t) /\ Recent(t)
      BY <2>1, <2>2 DEF OrderInv
    <3>2. timers[t].rate = r /\ timers[t].expires \in Nat
      BY <1>1, <1>5, <2>1, <2>2, <2>4 DEF WheelTypeOK, TimerData
    <3>3. timers'[t].expires <= timers'[u].expires
      BY <1>1, <1>3, <1>5, <2>1, <2>4, <3>1, <3>2 DEF Born
    <3>4. \A q, j : At(Here', q, j, u) => q = s /\ j = n
      BY <1>5, <1>8, <2>4 DEF Has
    <3>5. timers'[t].expires = timers'[u].expires => Sequential(Here, t, u)'
      <4> SUFFICES ASSUME timers'[t].expires = timers'[u].expires,
                          NEW p, NEW q, NEW i, NEW j,
                          At(Here', p, i, t), At(Here', q, j, u)
                   PROVE  p = q /\ i < j
        BY DEF Sequential
      <4>1. p = s
        BY <1>5, <2>1, <2>3, <2>4, <3>1, <3>2 DEF Recent, s
      <4> QED BY <1>9, <2>3, <3>4, <4>1
    <3>6. InTurn(t, u)'
      BY <1>6, <3>4 DEF InTurn
    <3> QED BY <2>1, <2>4, <3>3, <3>5, <3>6 DEF Lined
  <2>5. CASE u # v
    <3>1. Lined(t, u) /\ timers'[u] = timers[u]
      BY <1>5, <2>1, <2>5 DEF OrderInv
    <3>2. \A p, i : At(Here', p, i, u) => At(Here, p, i, u)
      BY <1>8, <2>5
    <3>3. MaySwap(t, u)' <=> MaySwap(t, u)
      BY <2>1, <3>1 DEF MaySwap
    <3>4. timers[t].expires = timers[u].expires => Sequential(Here, t, u)'
      BY <2>3, <3>1, <3>2 DEF Lined, Sequential
    <3>5. InTurn(t, u)'
      BY <2>3, <3>1, <3>2, <3>3 DEF Lined, InTurn
    <3> QED BY <2>1, <3>1, <3>4, <3>5 DEF Lined
  <2> QED BY <2>4, <2>5
<1> QED BY <1>1, <1>2, <1>10, <1>12 DEF OrderInv

(* After a jiffy every timer in a slot is due later; what is activated is  *)
(* found where it was.                                                     *)
LEMMA JiffyPlaces ==
  ASSUME InRange, DueInv, Jiffy
  PROVE  /\ elapsed' = elapsed + Jiffies /\ Once(Here) /\ Once(Here')
         /\ \A t \in DOMAIN timers : \A p, i :
              At(Here', p, i, t) /\ p # Now => elapsed' < timers[t].expires
         /\ \A t, i : At(Here, Now, i, t) => At(Here', Now, i, t)
         /\ \A t, i, j : At(Here, Now, i, t) =>
              \A u : At(Here', Now, j, u) => At(Here, Now, j, u) \/ i < j
         /\ \A t \in DOMAIN timers : \A i : At(Here', Now, i, t) =>
              (\E j : At(Here, Now, j, t)) \/ timers[t].expires < elapsed' + Jiffies
<1>1. /\ BinInv /\ OnClock /\ WheelTypeOK /\ Binned /\ BinInv' /\ WheelTypeOK'
      /\ Binned' /\ UNCHANGED <<timers, at>> /\ at = 0
  BY JiffyStep, JiffyEnds DEF DueInv, BinInv, Invoking
<1>2. /\ elapsed' = elapsed + Jiffies
      /\ Activates(activated, activated', elapsed')
      /\ \A w \in Wheels, s \in Slots, t \in DOMAIN timers :
           Contains(wheels'[w].slots[s], t) => elapsed' < Expires[t]
      /\ Grows(activated, activated')
  BY <1>1, JiffyTimes, JiffyOrder
<1>3. /\ \A t \in DOMAIN timers : Expires[t] = timers[t].expires
      /\ Len(activated) \in Nat /\ Len(activated') \in Nat
  BY <1>1, ExpiresType, LenProperties DEF WheelTypeOK
<1> DEFINE e == <<>>
           a == activated
           b == activated'
           ws == wheels'
           L == Layout(wheels, a, e)
           M == Layout(ws, b, e)
<1>4. /\ wheels \in [Wheels -> Turning] /\ ws \in [Wheels -> Turning]
      /\ a \in Seq(Timers) /\ b \in Seq(Timers) /\ e \in Seq(Timers)
      /\ Len(e) = 0
  <2>1. Slots \subseteq 0..SlotNum
    BY WheelAssumption DEF Slots
  <2>2. wheels \in [Wheels -> Turning] /\ a \in Seq(Timers)
    BY <1>1, <2>1 DEF WheelTypeOK, Wheel, Turning
  <2>3. ws \in [Wheels -> Turning] /\ b \in Seq(Timers)
    BY <1>1, <2>1 DEF WheelTypeOK, Wheel, Turning
  <2>4. e \in Seq(Timers) /\ Len(e) = 0
    OBVIOUS
  <2> QED BY <2>2, <2>3, <2>4
<1>5. Here = L /\ Here' = M
  <2>1. Rest(activated, 0) = activated /\ Rest(activated', 0) = activated'
    BY <1>4, RestProperties
  <2> QED BY <1>1, <2>1 DEF Here
<1> HIDE DEF e, a, b, ws, L, M
<1>6. L[Now] = a /\ M[Now] = b /\ M[Moving] = e
  <2> DEFINE vs == wheels
  <2>1. Layout(vs, a, e)[Now] = a
    <3>1. vs \in [Wheels -> Turning] /\ a \in Seq(Timers) /\ e \in Seq(Timers)
      BY <1>4
    <3> HIDE DEF vs
    <3> QED BY ONLY <3>1, LayoutType
  <2>2. Layout(ws, b, e)[Now] = b /\ Layout(ws, b, e)[Moving] = e
    <3>1. ws \in [Wheels -> Turning] /\ b \in Seq(Timers) /\ e \in Seq(Timers)
      BY <1>4
    <3> QED BY ONLY <3>1, LayoutType
  <2> QED BY <2>1, <2>2 DEF L, M
<1>7. /\ \A i, t : At(L, Now, i, t) <=> i \in 1..Len(a) /\ a[i] = t
      /\ \A i, t : At(M, Now, i, t) <=> i \in 1..Len(b) /\ b[i] = t
      /\ \A i, t : ~At(M, Moving, i, t)
  <2>1. Now \in Bins
    BY BinsApart
  <2> QED BY <1>4, <1>6, <2>1 DEF At
<1>8. ASSUME NEW t \in DOMAIN timers, NEW p, NEW i, At(M, p, i, t), p # Now
      PROVE  elapsed' < timers[t].expires
  <2>1. p \in Bins /\ p # Moving
    <3>1. p # Moving
      BY <1>7, <1>8
    <3> QED BY <1>8, <3>1 DEF At
  <2>2. PICK w \in Wheels, s \in Slots : p = <<w, s>>
    BY <1>8, <2>1, BinsApart
  <2>3. BinsOf(ws, b)
    BY <1>4, LayoutHas
  <2>4. Contains(ws[w].slots[s], t)
    BY <1>8, <2>2, <2>3 DEF BinsOf, M, e
  <2> QED BY <1>2, <1>3, <2>4 DEF ws
<1>9. ASSUME NEW i, NEW t, At(L, Now, i, t) PROVE At(M, Now, i, t)
  BY <1>2, <1>3, <1>7, <1>9 DEF Grows, a, b
<1>10. ASSUME NEW t, NEW u, NEW i, NEW j, At(L, Now, i, t), At(M, Now, j, u)
       PROVE  At(L, Now, j, u) \/ i < j
  <2>1. CASE j \in 1..Len(a)
    <3>1. a[j] = u
      BY <1>2, <1>7, <1>10, <2>1 DEF Grows, a, b
    <3> QED BY <1>7, <2>1, <3>1
  <2>2. CASE ~(j \in 1..Len(a))
    BY <1>3, <1>7, <1>10, <2>2 DEF a, b
  <2> QED BY <2>1, <2>2
<1>11. ASSUME NEW t \in DOMAIN timers, NEW i, At(M, Now, i, t)
       PROVE  (\E j : At(L, Now, j, t)) \/ timers[t].expires < elapsed' + Jiffies
  <2>1. Contains(b, t)
    BY <1>7, <1>11 DEF Contains
  <2>2. Contains(a, t) \/ timers[t].expires < elapsed' + Jiffies
    BY <1>2, <1>3, <2>1 DEF Activates, a, b
  <2>3. Contains(a, t) => \E j : At(L, Now, j, t)
    BY <1>7 DEF Contains
  <2> QED BY <2>2, <2>3
<1>12. Once(L) /\ Once(M)
  BY <1>1, <1>5 DEF Binned
<1> QED BY <1>2, <1>5, <1>8, <1>9, <1>10, <1>11, <1>12

LEMMA JiffyInTurn ==
  ASSUME InRange, DueInv, OrderInv, Jiffy, NEW t \in DOMAIN timers,
         NEW u \in DOMAIN timers, Follows(t, u),
         NEW p, NEW i, NEW j, At(Here', Now, j, u), At(Here', p, i, t)
  PROVE  p = Now /\ (i < j \/ MaySwap(t, u))
<1> DEFINE x == timers[t].expires
           y == timers[u].expires
           r == timers[t].rate
<1>1. /\ BinInv /\ WheelTypeOK /\ Binned
      /\ timers[u].rate = r /\ ~timers[t].loop /\ ~timers[u].loop
      /\ t # u /\ x <= y /\ InTurn(t, u)
      /\ x = y => Sequential(Here, t, u)
      /\ Born(t) /\ Born(u) /\ Pending(t) /\ elapsed \in Beats
  BY DEF DueInv, BinInv, Follows, OrderInv, Lined
<1>2. /\ x \in Nat /\ y \in Nat /\ r \in Nat /\ elapsed \in Nat
      /\ Jiffies \in Nat \ {0}
  BY <1>1, WheelAssumption DEF WheelTypeOK, TimerData
<1>3. /\ elapsed' = elapsed + Jiffies /\ Once(Here) /\ Once(Here')
      /\ p # Now => elapsed' < x
      /\ \A v, k : At(Here, Now, k, v) => At(Here', Now, k, v)
      /\ \A v, k : At(Here, Now, k, v) => At(Here, Now, j, u) \/ k < j
      /\ (\E k : At(Here, Now, k, u)) \/ y < elapsed' + Jiffies
  BY JiffyPlaces
<1>4. CASE x = y
  <2>1. Sequential(Here', t, u)
    BY <1>1, <1>4, JiffyOrder DEF Twins, Used
  <2> QED BY <2>1 DEF Sequential
<1>5. CASE \E k : At(Here, Now, k, u)
  <2>1. PICK k : At(Here, Now, k, u)
    BY <1>5
  <2>2. PICK q, l : At(Here, q, l, t)
    BY <1>1 DEF Binned, Has
  <2>3. q = Now /\ (l < k \/ MaySwap(t, u))
    BY <1>1, <2>1, <2>2 DEF InTurn
  <2>4. At(Here', Now, k, u) /\ At(Here', Now, l, t)
    BY <1>3, <2>1, <2>2, <2>3
  <2>5. p = Now /\ i = l /\ j = k
    BY <1>3, <2>4 DEF Once
  <2> QED BY <2>3, <2>5
<1>6. CASE x # y /\ ~\E k : At(Here, Now, k, u)
  <2>1. x < y /\ y < elapsed' + Jiffies
    BY <1>1, <1>2, <1>3, <1>6
  <2>2. /\ x - r \in Beats /\ y - r \in Beats
        /\ x - r < y - r /\ y - r <= elapsed
    BY <1>1, <1>2, <2>1 DEF Born
  <2>3. x + Jiffies <= y
    <3>1. (x - r) + Jiffies <= y - r
      BY <2>2, BeatsApart
    <3> QED BY <1>2, <3>1
  <2>4. p = Now
    BY <1>2, <1>3, <2>1, <2>3
  <2>5. CASE \E k : At(Here, Now, k, t)
    <3>1. PICK k : At(Here, Now, k, t)
      BY <2>5
    <3>2. i = k /\ k < j
      BY <1>3, <1>6, <2>4, <3>1 DEF Once
    <3> QED BY <2>4, <3>2
  <2>6. CASE ~\E k : At(Here, Now, k, t)
    <3>1. elapsed < x \/ (elapsed = x /\ r = 0)
      <4>1. PICK q, l : At(Here, q, l, t)
        BY <1>1 DEF Binned, Has
      <4>2. q # Now
        BY <2>6, <4>1
      <4> QED BY <1>1, <4>1, <4>2 DEF Pending
    <3>2. y = x + Jiffies
      <4>1. ~((x - r) + Jiffies < y - r)
        <5>1. ASSUME (x - r) + Jiffies < y - r PROVE FALSE
          <6>1. (x - r) + Jiffies \in Beats
            BY <2>2, BeatsApart
          <6>2. ((x - r) + Jiffies) + Jiffies <= y - r
            BY <2>2, <5>1, <6>1, BeatsApart
          <6>3. x < elapsed
            BY <1>2, <1>3, <2>1, <6>2
          <6> QED BY <1>2, <3>1, <6>3
        <5> QED BY <5>1
      <4> QED BY <1>2, <2>3, <4>1
    <3>3. r % Jiffies # 0
      <4> SUFFICES ASSUME r % Jiffies = 0 PROVE FALSE
        OBVIOUS
      <4> DEFINE d == r \div Jiffies
                 m == r % Jiffies
      <4>1. r = Jiffies * d /\ d \in Nat
        <5>1. r = Jiffies * d + m /\ d \in Nat
          <6> HIDE DEF r
          <6> QED BY <1>2, Euclid
        <5>2. m = 0
          OBVIOUS
        <5> HIDE DEF d, m
        <5>3. Jiffies * d \in Nat
          BY <1>2, <5>1
        <5> QED BY <5>1, <5>2, <5>3
      <4> HIDE DEF d
      <4>2. r \in Beats
        BY <4>1 DEF Beats
      <4>3. (x - r) + r \in Beats
        BY <2>2, <4>2, BeatsApart
      <4>4. x \in Beats
        BY <1>2, <4>3
      <4>5. ~(elapsed < x)
        <5>1. ASSUME elapsed < x PROVE FALSE
          <6>1. elapsed + Jiffies <= x
            BY <1>1, <4>4, <5>1, BeatsApart
          <6> QED BY <1>2, <1>3, <2>1, <2>3, <6>1
        <5> QED BY <5>1
      <4>6. elapsed = x /\ r = 0
        BY <3>1, <4>5
      <4> QED BY <1>2, <2>2, <3>2, <4>6
    <3>4. MaySwap(t, u)
      BY <3>2, <3>3 DEF MaySwap
    <3> QED BY <2>4, <3>4
  <2> QED BY <2>5, <2>6
<1> QED BY <1>4, <1>5, <1>6

LEMMA JiffyKeepsOrder ==
  ASSUME InRange, DueInv, OrderInv, Jiffy
  PROVE  OrderInv'
<1>1. BinInv /\ WheelTypeOK /\ UNCHANGED <<timers, order>>
  BY JiffyEnds DEF DueInv, BinInv
<1>2. /\ elapsed' = elapsed + Jiffies
      /\ \A t \in DOMAIN timers : \A p, i :
           At(Here', p, i, t) /\ p # Now => elapsed' < timers[t].expires
  BY JiffyPlaces
<1>3. elapsed \in Beats /\ elapsed \in Nat /\ Jiffies \in Nat \ {0}
  BY <1>1, WheelAssumption DEF OrderInv, WheelTypeOK
<1>4. elapsed' \in Beats
  BY <1>2, <1>3, BeatsApart
<1>5. ASSUME NEW t \in DOMAIN timers, ~timers[t].loop
      PROVE  (Born(t) /\ Recent(t) /\ Pending(t))'
  <2>1. Born(t)
    BY <1>5 DEF OrderInv
  <2>2. timers[t].expires \in Nat /\ timers[t].rate \in Nat
    BY <1>1 DEF WheelTypeOK, TimerData
  <2>3. Born(t)'
    BY <1>1, <1>2, <1>3, <2>1, <2>2 DEF Born
  <2>4. timers[t].expires # elapsed' + timers[t].rate
    BY <1>2, <1>3, <2>1, <2>2 DEF Born
  <2>5. Recent(t)'
    BY <1>1, <2>4 DEF Recent
  <2>6. Pending(t)'
    BY <1>1, <1>2 DEF Pending
  <2> QED BY <2>3, <2>5, <2>6
<1>6. ASSUME NEW t \in DOMAIN timers, NEW u \in DOMAIN timers, Follows(t, u)
      PROVE  Lined(t, u)'
  <2>1. Lined(t, u)
    BY <1>6 DEF OrderInv
  <2>2. timers[t].expires = timers[u].expires => Sequential(Here', t, u)
    BY <1>1, <2>1, JiffyOrder DEF Lined, Twins, Used
  <2>3. MaySwap(t, u)' <=> MaySwap(t, u)
    BY <1>1 DEF MaySwap
  <2>4. \A p, i, j : At(Here', Now, j, u) /\ At(Here', p, i, t) =>
          p = Now /\ (i < j \/ MaySwap(t, u))
    BY <1>6, JiffyInTurn
  <2>5. InTurn(t, u)'
    BY <2>3, <2>4 DEF InTurn
  <2> QED BY <1>1, <2>1, <2>2, <2>5 DEF Lined
<1>7. \A t, u : Follows(t, u)' <=> Follows(t, u)
  BY <1>1 DEF Follows, Used
<1> QED BY <1>1, <1>4, <1>5, <1>6, <1>7 DEF OrderInv

LEMMA OrderInit == Init => OrderInv
<1> SUFFICES ASSUME Init PROVE OrderInv
  OBVIOUS
<1>1. elapsed = 0 /\ DOMAIN timers = {}
  BY DEF Init
<1> QED BY <1>1, BeatsApart DEF OrderInv

LEMMA OrderNext == InRange /\ DueInv /\ OrderInv /\ [Next]_vars => OrderInv'
<1> SUFFICES ASSUME InRange, DueInv, OrderInv, [Next]_vars PROVE OrderInv'
  OBVIOUS
<1>1. BinInv /\ WheelTypeOK
  BY DEF DueInv, BinInv
<1>2. CASE \E t \in Timers : ClearTimer(t)
  <2>1. /\ UNCHANGED <<elapsed, order, wheels, activated, at>>
        /\ DOMAIN timers' \subseteq DOMAIN timers
        /\ \A t \in DOMAIN timers' : timers'[t] = timers[t]
    BY <1>2 DEF ClearTimer, Cleared
  <2>2. Here' = Here
    BY <2>1 DEF Here
  <2> QED BY <1>1, <2>1, <2>2, StayOrder
<1>3. CASE \E t \in Timers, d \in Delays, extra, loop \in BOOLEAN :
             SetTimer(t, d, extra, loop)
  BY <1>3, SetOrder
<1>4. CASE Jiffy
  BY <1>4, JiffyKeepsOrder
<1>5. CASE Skip
  BY <1>1, <1>5, SkipOrder
<1>6. CASE ActionDone
  BY <1>1, <1>6, ActionDoneOrder
<1>7. CASE EndInvoke
  BY <1>1, <1>7, EndInvokeOrder
<1>8. CASE \/ \E ms \in Elapses : StartTick(ms)
           \/ EndTick \/ CallAction \/ UNCHANGED vars
  <2>1. UNCHANGED <<elapsed, order, wheels, timers, activated, at>>
    BY <1>8 DEF StartTick, EndTick, CallAction, vars
  <2>2. Here' = Here
    BY <2>1 DEF Here
  <2> QED BY <1>1, <2>1, <2>2, StayOrder
<1> QED BY <1>2, <1>3, <1>4, <1>5, <1>6, <1>7, <1>8 DEF Next

(* The timer whose callback runs is the first of those that were activated. *)
LEMMA OrderTurn == DueInv /\ OrderInv => OnlyNeighboursSwap
<1> SUFFICES ASSUME DueInv, OrderInv,
                    NEW t \in DOMAIN timers, NEW u \in DOMAIN timers,
                    Follows(t, u), u = Running
             PROVE  t \in Activated /\ MaySwap(t, u)
  BY DEF OnlyNeighboursSwap
<1>1. /\ BinInv /\ WheelTypeOK /\ Binned /\ Invoking
      /\ t # u /\ InTurn(t, u) /\ u \in Timers
  BY DEF DueInv, BinInv, OrderInv, Lined, WheelTypeOK
<1>2. phase = "callback" /\ u = activated[at + 1] /\ at < Len(activated)
  BY <1>1, WheelAssumption DEF Running, Invoking
<1>3. At(Here, Now, 1, u)
  <2>1. /\ Here \in [Bins -> Seq(Timers)] /\ Here[Now] # <<>>
        /\ Here[Now][1] = u /\ Now \in Bins
    BY <1>1, <1>2, NextTimer, BinsApart
  <2> QED BY <2>1, PoppedAt
<1>4. PICK p, i : At(Here, p, i, t)
  BY <1>1 DEF Binned, Has
<1>5. p = Now /\ (i < 1 \/ MaySwap(t, u))
  BY <1>1, <1>3, <1>4 DEF InTurn
<1>6. i \in 1..Len(Here[Now])
  BY <1>4, <1>5 DEF At
<1>7. MaySwap(t, u)
  <2>1. Here[Now] \in Seq(Timers)
    BY <1>1, HereIn, BinsApart
  <2>2. Len(Here[Now]) \in Nat
    BY <2>1, LenProperties
  <2> QED BY <1>5, <1>6, <2>2
<1>8. t \in Left
  <2>1. Contains(Rest(activated, at), t)
    BY <1>1, <1>4, <1>5, InBins
  <2>2. activated \in Seq(Timers) /\ at \in 0..Len(activated)
    BY <1>1 DEF WheelTypeOK
  <2> QED BY <2>1, <2>2, RestIs DEF Left
<1> QED BY <1>1, <1>7, <1>8 DEF Activated, Left

(***************************************************************************)
(* Two timeouts with the same delay are run in the order in which they     *)
(* were set, for any number of wheels but one, any slots, delays, updates  *)
(* and callbacks: they swap only if they were set one jiffy apart and the  *)
(* delay is no multiple of a jiffy, and even then one update runs both.    *)
(***************************************************************************)
THEOREM OnlyNeighbours == InRange => (Spec => []OnlyNeighboursSwap)
<1> SUFFICES ASSUME InRange PROVE Spec => []OnlyNeighboursSwap
  OBVIOUS
<1>1. Init => DueInv /\ OrderInv
  BY DueInvInit, OrderInit
<1>2. DueInv /\ OrderInv /\ [Next]_vars => DueInv' /\ OrderInv'
  BY DueInvNext, OrderNext
<1>3. DueInv /\ OrderInv => OnlyNeighboursSwap
  BY OrderTurn
<1> QED BY <1>1, <1>2, <1>3, PTL DEF Spec
=============================================================================
