--------------------------- MODULE SlotArrayProofs ---------------------------
(***************************************************************************)
(* Proofs about module SlotArray, for every set of values, revision mask,  *)
(* capacity and depth of nested removals: the types, the two lists that    *)
(* the slots are on, what a handle finds, and that the array implements    *)
(* the ordered map.                                                        *)
(***************************************************************************)
EXTENDS SlotArray, SequenceTheorems, WellFoundedInduction, TLAPS

-----------------------------------------------------------------------------
(***************************************************************************)
(* Paths.  A sequence of slots is the path from start along next if each   *)
(* is linked to the one after it and the last one to none.                 *)
(***************************************************************************)
IsPath(next, start, s) ==
  /\ start = IF Len(s) = 0 THEN None ELSE s[1]
  /\ \A k \in 1..Len(s) : next[s[k]] = IF k = Len(s) THEN None ELSE s[k + 1]

(* Induction over the natural numbers, as a fact about sets of them. *)
LEMMA LeastOf ==
  ASSUME NEW S, S \subseteq Nat, S # {}
  PROVE  \E x \in S : \A y \in S : x <= y
<1>1. PICK x \in S : \A y \in S : ~(<<y, x>> \in OpToRel(<, Nat))
  BY NatLessThanWellFounded, WFMin
<1>2. \A y \in S : ~(y < x)
  BY <1>1 DEF OpToRel
<1> QED BY <1>2

LEMMA ChainIsPath ==
  ASSUME NEW n \in Nat, NEW next, NEW start, NEW T, None \notin T,
         NEW s \in Seq(T), Len(s) < n, IsPath(next, start, s)
  PROVE  Chain(next, start, n) = s
<1> DEFINE Walk(f) == [k \in 1..n |->
             IF k = 1 THEN start
             ELSE IF f[k - 1] = None THEN None ELSE next[f[k - 1]]]
           at == CHOOSE f : f = Walk(f)
           g == [k \in 1..n |-> IF k <= Len(s) THEN s[k] ELSE None]
<1>1. Chain(next, start, n) = [k \in {m \in 1..n : at[m] # None} |-> at[k]]
  BY DEF Chain
<1>2. /\ Len(s) \in Nat /\ s = [k \in 1..Len(s) |-> s[k]]
      /\ \A k \in 1..Len(s) : s[k] \in T /\ s[k] # None
  BY LenProperties
<1>3. g = Walk(g)
  <2> SUFFICES ASSUME NEW k \in 1..n
               PROVE  g[k] = IF k = 1 THEN start
                             ELSE IF g[k - 1] = None THEN None
                             ELSE next[g[k - 1]]
    OBVIOUS
  <2>1. CASE k = 1
    BY <1>2, <2>1 DEF IsPath
  <2>2. CASE k # 1
    <3>1. k - 1 \in 1..n /\ (k - 1) + 1 = k /\ k - 1 \in Nat
      BY <2>2
    <3>2. g[k - 1] = IF k - 1 <= Len(s) THEN s[k - 1] ELSE None
      BY <3>1
    <3>3. CASE k - 1 \in 1..Len(s)
      <4>1. next[s[k - 1]] = IF k - 1 = Len(s) THEN None ELSE s[k]
        BY <3>1, <3>3 DEF IsPath
      <4> QED BY <1>2, <2>2, <3>1, <3>2, <3>3, <4>1
    <3>4. CASE ~(k - 1 <= Len(s))
      BY <1>2, <2>2, <3>1, <3>2, <3>4
    <3> QED BY <1>2, <3>1, <3>3, <3>4
  <2> QED BY <2>1, <2>2
<1>4. at = Walk(at)
  <2> HIDE DEF Walk, g
  <2> QED BY <1>3
<1>5. at = g
  <2> DEFINE Off == {k \in 1..n : at[k] # g[k]}
  <2>1. Off = {}
    <3> SUFFICES ASSUME Off # {} PROVE FALSE
      OBVIOUS
    <3> HIDE DEF at, g
    <3>0. Off \subseteq Nat
      OBVIOUS
    <3>1. PICK k \in Off : \A m \in Off : k <= m
      <4> HIDE DEF Off
      <4> QED BY <3>0, LeastOf
    <3>2. k \in 1..n /\ at[k] # g[k]
      OBVIOUS
    <3>3. /\ at[k] = IF k = 1 THEN start
                     ELSE IF at[k - 1] = None THEN None ELSE next[at[k - 1]]
          /\ g[k] = IF k = 1 THEN start
                    ELSE IF g[k - 1] = None THEN None ELSE next[g[k - 1]]
      BY <1>3, <1>4, <3>2
    <3>4. k # 1 => at[k - 1] = g[k - 1]
      <4> SUFFICES ASSUME k # 1 PROVE at[k - 1] = g[k - 1]
        OBVIOUS
      <4>1. k - 1 \in 1..n /\ ~(k <= k - 1)
        BY <3>2
      <4> QED BY <3>1, <4>1
    <3> QED BY <3>2, <3>3, <3>4
  <2>2. \A k \in 1..n : at[k] = g[k]
    BY <2>1
  <2> HIDE DEF at
  <2>3. at = [k \in 1..n |-> at[k]]
    BY <1>4
  <2> QED BY <2>2, <2>3
<1> HIDE DEF at
<1>6. {m \in 1..n : at[m] # None} = 1..Len(s)
  BY <1>2, <1>5
<1>7. \A k \in 1..Len(s) : at[k] = s[k]
  BY <1>2, <1>5
<1>8. [k \in {m \in 1..n : at[m] # None} |-> at[k]] = s
  BY <1>2, <1>6, <1>7
<1> QED BY <1>1, <1>8

-----------------------------------------------------------------------------
(***************************************************************************)
(* Sequences without repetition, one element of which is cut out and into  *)
(* which one is put at a position.                                         *)
(***************************************************************************)
Distinct(s) == \A j, k \in 1..Len(s) : s[j] = s[k] => j = k
Elems(s) == {s[k] : k \in 1..Len(s)}

Cut(s, p) == [k \in 1..(Len(s) - 1) |-> IF k < p THEN s[k] ELSE s[k + 1]]

Put(s, p, i) ==
  [k \in 1..(Len(s) + 1) |->
     IF k < p THEN s[k] ELSE IF k = p THEN i ELSE s[k - 1]]

LEMMA CutSeq ==
  ASSUME NEW T, NEW s \in Seq(T), Distinct(s), NEW p \in 1..Len(s)
  PROVE  /\ Cut(s, p) \in Seq(T) /\ Len(Cut(s, p)) = Len(s) - 1
         /\ \A k \in 1..(Len(s) - 1) :
              Cut(s, p)[k] = IF k < p THEN s[k] ELSE s[k + 1]
         /\ Elems(Cut(s, p)) = Elems(s) \ {s[p]}
         /\ Distinct(Cut(s, p))
<1>1. Len(s) \in Nat /\ \A k \in 1..Len(s) : s[k] \in T
  BY LenProperties
<1>2. Len(s) - 1 \in Nat
  BY <1>1
<1>3. \A k \in 1..(Len(s) - 1) : /\ k \in 1..Len(s) /\ k + 1 \in 1..Len(s)
  BY <1>1
<1> DEFINE c == Cut(s, p)
<1>4. c \in [1..(Len(s) - 1) -> T]
  BY <1>1, <1>3 DEF Cut
<1>5. c \in Seq(T) /\ Len(c) = Len(s) - 1
  BY <1>2, <1>4, SMTT(30)
<1>6. \A k \in 1..(Len(s) - 1) : c[k] = IF k < p THEN s[k] ELSE s[k + 1]
  BY DEF Cut
<1> HIDE DEF c
<1>7. Distinct(c)
  BY <1>1, <1>3, <1>5, <1>6 DEF Distinct
<1>8. Elems(c) = Elems(s) \ {s[p]}
  <2>1. ASSUME NEW k \in 1..(Len(s) - 1) PROVE c[k] \in Elems(s) \ {s[p]}
    BY <1>1, <1>3, <1>6 DEF Distinct, Elems
  <2>2. ASSUME NEW k \in 1..Len(s), k # p PROVE s[k] \in Elems(c)
    <3>1. CASE k < p
      <4>1. k \in 1..(Len(s) - 1) /\ c[k] = s[k]
        BY <1>1, <1>6, <3>1
      <4> QED BY <1>5, <4>1 DEF Elems
    <3>2. CASE k > p
      <4>1. k - 1 \in 1..(Len(s) - 1) /\ ~(k - 1 < p) /\ (k - 1) + 1 = k
        BY <1>1, <3>2
      <4>2. c[k - 1] = s[k]
        BY <1>6, <4>1
      <4> QED BY <1>5, <4>1, <4>2 DEF Elems
    <3> QED BY <1>1, <2>2, <3>1, <3>2
  <2> QED BY <1>5, <2>1, <2>2 DEF Elems
<1> QED BY <1>5, <1>6, <1>7, <1>8 DEF c

LEMMA PutSeq ==
  ASSUME NEW T, NEW s \in Seq(T), Distinct(s), NEW p \in 1..(Len(s) + 1),
         NEW i \in T, i \notin Elems(s)
  PROVE  /\ Put(s, p, i) \in Seq(T) /\ Len(Put(s, p, i)) = Len(s) + 1
         /\ \A k \in 1..(Len(s) + 1) :
              Put(s, p, i)[k] =
                IF k < p THEN s[k] ELSE IF k = p THEN i ELSE s[k - 1]
         /\ Elems(Put(s, p, i)) = Elems(s) \cup {i}
         /\ Distinct(Put(s, p, i))
<1>1. Len(s) \in Nat /\ \A k \in 1..Len(s) : s[k] \in T
  BY LenProperties
<1>2. \A k \in 1..(Len(s) + 1) : /\ k < p => k \in 1..Len(s)
                                /\ k > p => k - 1 \in 1..Len(s)
  BY <1>1
<1> DEFINE c == Put(s, p, i)
<1>3. c \in [1..(Len(s) + 1) -> T]
  BY <1>1, <1>2 DEF Put
<1>4. c \in Seq(T) /\ Len(c) = Len(s) + 1
  <2>1. Len(s) + 1 \in Nat
    BY <1>1
  <2> QED BY <1>3, <2>1, SMTT(30)
<1>5. \A k \in 1..(Len(s) + 1) :
        c[k] = IF k < p THEN s[k] ELSE IF k = p THEN i ELSE s[k - 1]
  BY DEF Put
<1> HIDE DEF c
<1>6. ASSUME NEW j \in 1..(Len(s) + 1), NEW k \in 1..(Len(s) + 1), c[j] = c[k]
      PROVE  j = k
  <2>1. \A m \in 1..Len(s) : s[m] # i
    BY DEF Elems
  <2>2. CASE j = p
    BY <1>1, <1>2, <1>5, <1>6, <2>1, <2>2
  <2>3. CASE k = p
    BY <1>1, <1>2, <1>5, <1>6, <2>1, <2>3
  <2>4. CASE j # p /\ k # p
    <3>1. c[j] = s[IF j < p THEN j ELSE j - 1]
          /\ c[k] = s[IF k < p THEN k ELSE k - 1]
      BY <1>1, <1>5, <2>4
    <3>2. (IF j < p THEN j ELSE j - 1) \in 1..Len(s)
          /\ (IF k < p THEN k ELSE k - 1) \in 1..Len(s)
      BY <1>1, <1>2, <2>4
    <3>3. (IF j < p THEN j ELSE j - 1) = (IF k < p THEN k ELSE k - 1)
      BY <1>6, <3>1, <3>2 DEF Distinct
    <3> QED BY <2>4, <3>3
  <2> QED BY <2>2, <2>3, <2>4
<1>7. Distinct(c)
  BY <1>4, <1>6 DEF Distinct
<1>8. Elems(c) = Elems(s) \cup {i}
  <2>1. ASSUME NEW k \in 1..(Len(s) + 1) PROVE c[k] \in Elems(s) \cup {i}
    BY <1>1, <1>2, <1>5 DEF Elems
  <2>2. i \in Elems(c)
    BY <1>1, <1>4, <1>5 DEF Elems
  <2>3. ASSUME NEW k \in 1..Len(s) PROVE s[k] \in Elems(c)
    <3>1. CASE k < p
      <4>1. k \in 1..(Len(s) + 1) /\ c[k] = s[k]
        BY <1>1, <1>5, <3>1
      <4> QED BY <1>4, <4>1 DEF Elems
    <3>2. CASE k >= p
      <4>1. k + 1 \in 1..(Len(s) + 1) /\ ~(k + 1 < p) /\ k + 1 # p
            /\ (k + 1) - 1 = k
        BY <1>1, <3>2
      <4>2. c[k + 1] = s[k]
        BY <1>5, <4>1
      <4> QED BY <1>4, <4>1, <4>2 DEF Elems
    <3> QED BY <1>1, <3>1, <3>2
  <2> QED BY <1>4, <2>1, <2>2, <2>3 DEF Elems
<1> QED BY <1>4, <1>5, <1>7, <1>8 DEF c

(* s is t without its element i. *)
CutFrom(s, t, i) == \E p \in 1..Len(t) : t[p] = i /\ s = Cut(t, p)

LEMMA CutPut ==
  ASSUME NEW T, NEW s \in Seq(T), Distinct(s), NEW p \in 1..(Len(s) + 1),
         NEW i \in T, i \notin Elems(s)
  PROVE  Put(s, p, i)[p] = i /\ CutFrom(s, Put(s, p, i), i)
<1> DEFINE t == Put(s, p, i)
           n == Len(s)
<1>1. n \in Nat /\ s \in [1..n -> T]
  BY LenProperties
<1>2. /\ Len(t) = n + 1
      /\ \A k \in 1..(n + 1) :
           t[k] = IF k < p THEN s[k] ELSE IF k = p THEN i ELSE s[k - 1]
  BY PutSeq
<1>3. p \in 1..(n + 1) /\ p \in 1..Len(t)
  BY <1>2
<1>4. t[p] = i
  BY <1>1, <1>2, <1>3
<1>5. Cut(t, p) = [k \in 1..n |-> IF k < p THEN t[k] ELSE t[k + 1]]
  <2>1. Len(t) - 1 = n
    BY <1>1, <1>2
  <2> QED BY <2>1 DEF Cut
<1> HIDE DEF t, n
<1>6. \A k \in 1..n : (IF k < p THEN t[k] ELSE t[k + 1]) = s[k]
  BY <1>1, <1>2, <1>3
<1>7. s = [k \in 1..n |-> s[k]]
  BY <1>1
<1>8. Cut(t, p) = s
  BY <1>5, <1>6, <1>7
<1> QED BY <1>3, <1>4, <1>8 DEF CutFrom, t

-----------------------------------------------------------------------------
(***************************************************************************)
(* The two links of every slot of a list, and the ends of the list.        *)
(***************************************************************************)
IsLinked(next, prev, first, last, s) ==
  /\ IsPath(next, first, s)
  /\ last = IF Len(s) = 0 THEN None ELSE s[Len(s)]
  /\ \A k \in 1..Len(s) : prev[s[k]] = IF k = 1 THEN None ELSE s[k - 1]

(* A slot is taken out of its list: the code's NextWithout and PrevWithout. *)
LEMMA CutLinked ==
  ASSUME NEW T, None \notin T, NEW next \in [T -> T \cup {None}],
         NEW prev \in [T -> T \cup {None}], NEW first, NEW last,
         NEW s \in Seq(T), Distinct(s), NEW p \in 1..Len(s),
         IsLinked(next, prev, first, last, s)
  PROVE  /\ IsLinked(Link(next, prev[s[p]], next[s[p]]),
                     Link(prev, next[s[p]], prev[s[p]]),
                     IF first = s[p] THEN next[s[p]] ELSE first,
                     IF last = s[p] THEN prev[s[p]] ELSE last,
                     Cut(s, p))
         /\ Link(next, prev[s[p]], next[s[p]]) \in [T -> T \cup {None}]
         /\ Link(prev, next[s[p]], prev[s[p]]) \in [T -> T \cup {None}]
         /\ \A j \in T \ Elems(s) :
              Link(next, prev[s[p]], next[s[p]])[j] = next[j]
<1> DEFINE i == s[p]
           after == next[i]
           before == prev[i]
           nx == Link(next, before, after)
           pv == Link(prev, after, before)
           c == Cut(s, p)
<1>1. Len(s) \in Nat /\ \A k \in 1..Len(s) : s[k] \in T /\ s[k] # None
  BY LenProperties
<1>2. /\ first = s[1] /\ last = s[Len(s)]
      /\ \A k \in 1..Len(s) :
           /\ next[s[k]] = IF k = Len(s) THEN None ELSE s[k + 1]
           /\ prev[s[k]] = IF k = 1 THEN None ELSE s[k - 1]
  BY <1>1 DEF IsLinked, IsPath
<1>3. /\ after = IF p = Len(s) THEN None ELSE s[p + 1]
      /\ before = IF p = 1 THEN None ELSE s[p - 1]
  BY <1>2
<1>4. i \in T /\ after \in T \cup {None} /\ before \in T \cup {None}
  BY <1>1
<1> HIDE DEF i, after, before
<1>5. nx \in [T -> T \cup {None}] /\ pv \in [T -> T \cup {None}]
  BY <1>4 DEF Link
<1>6. \A j \in T : /\ nx[j] = IF j = before THEN after ELSE next[j]
                   /\ pv[j] = IF j = after THEN before ELSE prev[j]
  BY <1>4 DEF Link
<1>7. /\ c \in Seq(T) /\ Len(c) = Len(s) - 1
      /\ \A k \in 1..(Len(s) - 1) : c[k] = IF k < p THEN s[k] ELSE s[k + 1]
  BY CutSeq
<1> HIDE DEF nx, pv, c
<1>8. \A k \in 1..Len(s) :
        /\ nx[s[k]] = IF k = p - 1 THEN after ELSE next[s[k]]
        /\ pv[s[k]] = IF k = p + 1 THEN before ELSE prev[s[k]]
  <2> TAKE k \in 1..Len(s)
  <2>1. s[k] = before <=> k = p - 1
    <3>1. CASE p = 1
      BY <1>1, <1>3, <3>1
    <3>2. CASE p # 1
      <4>1. p - 1 \in 1..Len(s)
        BY <1>1, <3>2
      <4> QED BY <1>3, <3>2, <4>1 DEF Distinct
    <3> QED BY <3>1, <3>2
  <2>2. s[k] = after <=> k = p + 1
    <3>1. CASE p = Len(s)
      BY <1>1, <1>3, <3>1
    <3>2. CASE p # Len(s)
      <4>1. p + 1 \in 1..Len(s)
        BY <1>1, <3>2
      <4> QED BY <1>3, <3>2, <4>1 DEF Distinct
    <3> QED BY <3>1, <3>2
  <2> QED BY <1>1, <1>6, <2>1, <2>2
<1>9. ASSUME NEW k \in 1..Len(c)
      PROVE  /\ nx[c[k]] = IF k = Len(c) THEN None ELSE c[k + 1]
             /\ pv[c[k]] = IF k = 1 THEN None ELSE c[k - 1]
  <2>0. k \in 1..(Len(s) - 1) /\ k \in 1..Len(s) /\ k + 1 \in 1..Len(s)
    BY <1>1, <1>7
  <2>1. CASE k < p
    <3>1. c[k] = s[k]
      BY <1>7, <2>0, <2>1
    <3>2. nx[s[k]] = IF k = Len(c) THEN None ELSE c[k + 1]
      <4>1. CASE k = p - 1
        <5>1. nx[s[k]] = IF p = Len(s) THEN None ELSE s[p + 1]
          BY <1>3, <1>8, <2>0, <4>1
        <5>2. p # Len(s) => p \in 1..(Len(s) - 1) /\ c[p] = s[p + 1]
          BY <1>1, <1>7
        <5>3. k + 1 = p /\ (k = Len(c) <=> p = Len(s))
          BY <1>1, <1>7, <4>1
        <5> QED BY <5>1, <5>2, <5>3
      <4>2. CASE k # p - 1
        <5>1. nx[s[k]] = s[k + 1]
          BY <1>1, <1>2, <1>8, <2>0, <2>1, <4>2
        <5>2. k + 1 \in 1..(Len(s) - 1) /\ k + 1 < p /\ k # Len(c)
          BY <1>1, <1>7, <2>0, <2>1, <4>2
        <5> QED BY <1>7, <5>1, <5>2
      <4> QED BY <4>1, <4>2
    <3>3. pv[s[k]] = IF k = 1 THEN None ELSE c[k - 1]
      <4>1. pv[s[k]] = IF k = 1 THEN None ELSE s[k - 1]
        BY <1>2, <1>8, <2>0, <2>1
      <4>2. k # 1 => k - 1 \in 1..(Len(s) - 1) /\ k - 1 < p
        BY <2>0, <2>1
      <4> QED BY <1>7, <4>1, <4>2
    <3> QED BY <3>1, <3>2, <3>3
  <2>2. CASE k >= p
    <3>1. c[k] = s[k + 1] /\ ~(k < p)
      BY <1>7, <2>0, <2>2
    <3>2. nx[s[k + 1]] = IF k = Len(c) THEN None ELSE c[k + 1]
      <4>1. nx[s[k + 1]] = IF k + 1 = Len(s) THEN None ELSE s[(k + 1) + 1]
        BY <1>2, <1>8, <2>0, <2>2
      <4>2. k # Len(c) => /\ k + 1 \in 1..(Len(s) - 1) /\ ~(k + 1 < p)
        BY <1>7, <2>0, <2>2
      <4>3. k = Len(c) <=> k + 1 = Len(s)
        BY <1>1, <1>7, <2>0
      <4> QED BY <1>7, <4>1, <4>2, <4>3
    <3>3. pv[s[k + 1]] = IF k = 1 THEN None ELSE c[k - 1]
      <4>1. CASE k = p
        <5>1. pv[s[k + 1]] = IF k = 1 THEN None ELSE s[k - 1]
          BY <1>3, <1>8, <2>0, <4>1
        <5>2. k # 1 => k - 1 \in 1..(Len(s) - 1) /\ k - 1 < p
          BY <2>0, <4>1
        <5> QED BY <1>7, <5>1, <5>2
      <4>2. CASE k # p
        <5>1. pv[s[k + 1]] = s[k] /\ k # 1
          BY <1>2, <1>8, <2>0, <2>2, <4>2
        <5>2. k - 1 \in 1..(Len(s) - 1) /\ ~(k - 1 < p) /\ (k - 1) + 1 = k
          BY <2>0, <2>2, <4>2
        <5> QED BY <1>7, <5>1, <5>2
      <4> QED BY <4>1, <4>2
    <3> QED BY <3>1, <3>2, <3>3
  <2> QED BY <2>0, <2>1, <2>2
<1>10. (IF first = i THEN after ELSE first) = IF Len(c) = 0 THEN None ELSE c[1]
  <2>1. first = i <=> p = 1
    BY <1>1, <1>2 DEF i, Distinct
  <2>2. CASE p = 1
    <3>1. Len(c) = 0 <=> p = Len(s)
      BY <1>1, <1>7, <2>2
    <3>2. Len(c) # 0 => 1 \in 1..(Len(s) - 1) /\ ~(1 < p) /\ c[1] = s[p + 1]
      BY <1>1, <1>7, <2>2
    <3> QED BY <1>3, <2>1, <2>2, <3>1, <3>2
  <2>3. CASE p # 1
    <3>1. Len(c) # 0 /\ 1 \in 1..(Len(s) - 1) /\ 1 < p
      BY <1>1, <1>7, <2>3
    <3> QED BY <1>2, <1>7, <2>1, <2>3, <3>1
  <2> QED BY <2>2, <2>3
<1>11. (IF last = i THEN before ELSE last)
         = IF Len(c) = 0 THEN None ELSE c[Len(c)]
  <2>1. last = i <=> p = Len(s)
    BY <1>1, <1>2 DEF i, Distinct
  <2>2. CASE p = Len(s)
    <3>1. Len(c) = 0 <=> p = 1
      BY <1>1, <1>7, <2>2
    <3>2. Len(c) # 0 => /\ Len(c) \in 1..(Len(s) - 1) /\ Len(c) < p
                        /\ c[Len(c)] = s[p - 1]
      BY <1>1, <1>7, <2>2
    <3> QED BY <1>3, <2>1, <2>2, <3>1, <3>2
  <2>3. CASE p # Len(s)
    <3>1. Len(c) # 0 /\ Len(c) \in 1..(Len(s) - 1) /\ ~(Len(c) < p)
          /\ Len(c) + 1 = Len(s)
      BY <1>1, <1>7, <2>3
    <3> QED BY <1>2, <1>7, <2>1, <2>3, <3>1
  <2> QED BY <2>2, <2>3
<1>12. \A j \in T \ Elems(s) : nx[j] = next[j]
  <2> SUFFICES ASSUME NEW j \in T \ Elems(s) PROVE nx[j] = next[j]
    OBVIOUS
  <2>1. j # before
    <3>1. CASE p = 1
      BY <1>3, <3>1
    <3>2. CASE p # 1
      <4>1. p - 1 \in 1..Len(s)
        BY <1>1, <3>2
      <4> QED BY <1>3, <3>2, <4>1 DEF Elems
    <3> QED BY <3>1, <3>2
  <2> QED BY <1>6, <2>1
<1>13. IsLinked(nx, pv, IF first = i THEN after ELSE first,
                IF last = i THEN before ELSE last, c)
  BY <1>9, <1>10, <1>11 DEF IsLinked, IsPath
<1> QED BY <1>5, <1>12, <1>13 DEF nx, pv, c, i, after, before

(* A slot is put into a list before the one at position p, or at the end.   *)
Before(s, p) == IF p = 1 THEN None ELSE s[p - 1]
After(s, p) == IF p = Len(s) + 1 THEN None ELSE s[p]
LinkIn(next, i, before, after) == [Link(next, before, i) EXCEPT ![i] = after]
FirstWith(first, p, i) == IF p = 1 THEN i ELSE first
LastWith(last, s, p, i) == IF p = Len(s) + 1 THEN i ELSE last

LEMMA PutLinked ==
  ASSUME NEW T, None \notin T, NEW next \in [T -> T \cup {None}],
         NEW prev \in [T -> T \cup {None}], NEW first, NEW last,
         NEW s \in Seq(T), Distinct(s), NEW p \in 1..(Len(s) + 1),
         NEW i \in T, i \notin Elems(s),
         IsLinked(next, prev, first, last, s),
         NEW before, before = Before(s, p),
         NEW after, after = After(s, p)
  PROVE  /\ IsLinked(LinkIn(next, i, before, after), LinkIn(prev, i, after, before),
                     FirstWith(first, p, i), LastWith(last, s, p, i),
                     Put(s, p, i))
         /\ LinkIn(next, i, before, after) \in [T -> T \cup {None}]
         /\ LinkIn(prev, i, after, before) \in [T -> T \cup {None}]
         /\ \A j \in T \ (Elems(s) \cup {i}) :
              LinkIn(next, i, before, after)[j] = next[j]
<1> DEFINE nx == [Link(next, before, i) EXCEPT ![i] = after]
           pv == [Link(prev, after, i) EXCEPT ![i] = before]
           c == Put(s, p, i)
<1>1. Len(s) \in Nat /\ \A k \in 1..Len(s) : s[k] \in T /\ s[k] # None
  BY LenProperties
<1>2. /\ first = IF Len(s) = 0 THEN None ELSE s[1]
      /\ last = IF Len(s) = 0 THEN None ELSE s[Len(s)]
      /\ \A k \in 1..Len(s) :
           /\ next[s[k]] = IF k = Len(s) THEN None ELSE s[k + 1]
           /\ prev[s[k]] = IF k = 1 THEN None ELSE s[k - 1]
  BY <1>1 DEF IsLinked, IsPath
<1>3. /\ p # 1 => p - 1 \in 1..Len(s) /\ before = s[p - 1]
      /\ p = 1 => before = None
      /\ p # Len(s) + 1 => p \in 1..Len(s) /\ after = s[p]
      /\ p = Len(s) + 1 => after = None
  BY <1>1 DEF Before, After
<1>4. /\ before \in T \cup {None} /\ after \in T \cup {None}
      /\ before # i /\ after # i
  <2>1. \A k \in 1..Len(s) : s[k] # i
    BY DEF Elems
  <2> QED BY <1>1, <1>3, <2>1
<1>5. Link(next, before, i) \in [T -> T \cup {None}]
      /\ Link(prev, after, i) \in [T -> T \cup {None}]
      /\ \A j \in T : /\ Link(next, before, i)[j]
                           = IF j = before THEN i ELSE next[j]
                      /\ Link(prev, after, i)[j]
                           = IF j = after THEN i ELSE prev[j]
  BY <1>4 DEF Link
<1>6. nx \in [T -> T \cup {None}] /\ pv \in [T -> T \cup {None}]
  BY <1>4, <1>5
<1>7. \A j \in T : /\ nx[j] = IF j = i THEN after
                             ELSE IF j = before THEN i ELSE next[j]
                   /\ pv[j] = IF j = i THEN before
                             ELSE IF j = after THEN i ELSE prev[j]
  BY <1>4, <1>5
<1>8. /\ c \in Seq(T) /\ Len(c) = Len(s) + 1
      /\ \A k \in 1..(Len(s) + 1) :
           c[k] = IF k < p THEN s[k] ELSE IF k = p THEN i ELSE s[k - 1]
  BY PutSeq
<1> HIDE DEF nx, pv, c
<1>9. \A k \in 1..Len(s) :
        /\ nx[s[k]] = IF k = p - 1 THEN i ELSE next[s[k]]
        /\ pv[s[k]] = IF k = p THEN i ELSE prev[s[k]]
  <2> TAKE k \in 1..Len(s)
  <2>1. s[k] = before <=> k = p - 1
    BY <1>1, <1>3 DEF Distinct
  <2>2. s[k] = after <=> k = p
    BY <1>1, <1>3 DEF Distinct
  <2>3. s[k] # i /\ s[k] \in T
    BY <1>1 DEF Elems
  <2> QED BY <1>7, <2>1, <2>2, <2>3
<1>10. ASSUME NEW k \in 1..Len(c)
       PROVE  /\ nx[c[k]] = IF k = Len(c) THEN None ELSE c[k + 1]
              /\ pv[c[k]] = IF k = 1 THEN None ELSE c[k - 1]
  <2>0. k \in 1..(Len(s) + 1) /\ Len(c) = Len(s) + 1
    BY <1>8
  <2>1. CASE k < p
    <3>0. k \in 1..Len(s) /\ c[k] = s[k]
      BY <1>1, <1>8, <2>0, <2>1
    <3>1. nx[s[k]] = IF k = Len(c) THEN None ELSE c[k + 1]
      <4>1. CASE k = p - 1
        <5>1. k + 1 \in 1..(Len(s) + 1) /\ k + 1 = p /\ k # Len(c)
          BY <2>0, <3>0, <4>1
        <5>2. c[k + 1] = i
          BY <1>8, <5>1
        <5> QED BY <1>9, <3>0, <4>1, <5>1, <5>2
      <4>2. CASE k # p - 1
        <5>1. k + 1 \in 1..(Len(s) + 1) /\ k + 1 < p /\ k # Len(c) /\ k # Len(s)
          BY <1>1, <2>0, <2>1, <3>0, <4>2
        <5>2. c[k + 1] = s[k + 1]
          BY <1>8, <5>1
        <5>3. nx[s[k]] = s[k + 1]
          BY <1>2, <1>9, <3>0, <4>2, <5>1
        <5> QED BY <5>1, <5>2, <5>3
      <4> QED BY <4>1, <4>2
    <3>2. pv[s[k]] = IF k = 1 THEN None ELSE c[k - 1]
      <4>1. k # 1 => k - 1 \in 1..(Len(s) + 1) /\ k - 1 < p
        BY <2>0, <2>1
      <4>2. k # 1 => c[k - 1] = s[k - 1]
        BY <1>8, <4>1
      <4>3. pv[s[k]] = prev[s[k]]
        BY <1>1, <1>9, <2>1, <3>0
      <4>4. pv[s[k]] = IF k = 1 THEN None ELSE s[k - 1]
        BY <1>2, <3>0, <4>3
      <4> QED BY <4>2, <4>4
    <3> QED BY <3>0, <3>1, <3>2
  <2>2. CASE k = p
    <3>0. c[k] = i
      BY <1>8, <2>0, <2>2
    <3>1. nx[i] = IF k = Len(c) THEN None ELSE c[k + 1]
      <4>1. nx[i] = after
        BY <1>7
      <4>2. k # Len(c) => /\ k + 1 \in 1..(Len(s) + 1) /\ ~(k + 1 < p)
                          /\ k + 1 # p /\ (k + 1) - 1 = k
        BY <2>0, <2>2
      <4>3. k # Len(c) => c[k + 1] = s[k]
        BY <1>8, <4>2
      <4> QED BY <1>3, <2>0, <2>2, <4>1, <4>3
    <3>2. pv[i] = IF k = 1 THEN None ELSE c[k - 1]
      <4>1. pv[i] = before
        BY <1>7
      <4>2. k # 1 => k - 1 \in 1..(Len(s) + 1) /\ k - 1 < p
        BY <2>0, <2>2
      <4>3. k # 1 => c[k - 1] = s[k - 1]
        BY <1>8, <4>2
      <4> QED BY <1>3, <2>0, <2>2, <4>1, <4>3
    <3> QED BY <3>0, <3>1, <3>2
  <2>3. CASE k > p
    <3>0. k - 1 \in 1..Len(s) /\ c[k] = s[k - 1] /\ (k - 1) + 1 = k
      BY <1>1, <1>8, <2>0, <2>3
    <3>1. nx[s[k - 1]] = IF k = Len(c) THEN None ELSE c[k + 1]
      <4>1. nx[s[k - 1]] = IF k - 1 = Len(s) THEN None ELSE s[k]
        BY <1>2, <1>9, <2>3, <3>0
      <4>2. k # Len(c) => /\ k + 1 \in 1..(Len(s) + 1) /\ ~(k + 1 < p)
                          /\ k + 1 # p /\ (k + 1) - 1 = k
        BY <2>0, <2>3
      <4>3. k # Len(c) => c[k + 1] = s[k]
        BY <1>8, <4>2
      <4>4. k = Len(c) <=> k - 1 = Len(s)
        BY <1>1, <2>0
      <4> QED BY <4>1, <4>3, <4>4
    <3>2. pv[s[k - 1]] = IF k = 1 THEN None ELSE c[k - 1]
      <4>0. k # 1 /\ k - 1 \in 1..(Len(s) + 1)
        BY <2>0, <2>3
      <4>1. CASE k - 1 = p
        <5>1. c[k - 1] = i
          BY <1>8, <4>0, <4>1
        <5> QED BY <1>9, <3>0, <4>0, <4>1, <5>1
      <4>2. CASE k - 1 # p
        <5>1. k - 1 > p /\ k - 1 # 1
          BY <2>0, <2>3, <4>2
        <5>2. c[k - 1] = s[(k - 1) - 1]
          BY <1>8, <4>0, <5>1
        <5>3. pv[s[k - 1]] = s[(k - 1) - 1]
          BY <1>2, <1>9, <3>0, <4>2, <5>1
        <5> QED BY <4>0, <5>2, <5>3
      <4> QED BY <4>1, <4>2
    <3> QED BY <3>0, <3>1, <3>2
  <2> QED BY <2>0, <2>1, <2>2, <2>3
<1>11. (IF p = 1 THEN i ELSE first) = c[1]
  <2>1. 1 \in 1..(Len(s) + 1)
    BY <1>1
  <2>2. p # 1 => 1 < p /\ Len(s) # 0
    BY <1>1
  <2> QED BY <1>2, <1>8, <2>1, <2>2
<1>12. (IF p = Len(s) + 1 THEN i ELSE last) = c[Len(c)]
  <2>1. Len(c) \in 1..(Len(s) + 1) /\ Len(c) = Len(s) + 1 /\ Len(c) - 1 = Len(s)
    BY <1>1, <1>8
  <2>2. CASE p = Len(s) + 1
    BY <1>8, <2>1, <2>2
  <2>3. CASE p # Len(s) + 1
    <3>1. ~(Len(c) < p) /\ Len(c) # p /\ Len(s) # 0
      BY <1>1, <2>1, <2>3
    <3>2. c[Len(c)] = s[Len(c) - 1]
      BY <1>8, <2>1, <3>1
    <3> QED BY <1>2, <2>1, <2>3, <3>1, <3>2
  <2> QED BY <2>2, <2>3
<1>13. \A j \in T \ (Elems(s) \cup {i}) : nx[j] = next[j]
  <2> SUFFICES ASSUME NEW j \in T, j \notin Elems(s), j # i
               PROVE  nx[j] = next[j]
    OBVIOUS
  <2>1. j # before
    <3>1. j # None
      OBVIOUS
    <3> QED BY <1>3, <3>1 DEF Elems
  <2> QED BY <1>7, <2>1
<1>14. Len(c) # 0
  BY <1>1, <1>8
<1>15. IsLinked(nx, pv, IF p = 1 THEN i ELSE first,
                IF p = Len(s) + 1 THEN i ELSE last, c)
  BY <1>10, <1>11, <1>12, <1>14 DEF IsLinked, IsPath
<1> QED BY <1>6, <1>13, <1>15 DEF nx, pv, c, LinkIn, FirstWith, LastWith

-----------------------------------------------------------------------------
(***************************************************************************)
(* The array.  What is_consistent() counts by walking along the links is   *)
(* stated with the two sequences as witnesses: u are the used slots from   *)
(* first to last, f the free ones.                                         *)
(***************************************************************************)
SlotsOf(b) == 1..Len(b.val)

IsRecord(b) ==
  b = [next |-> b.next, prev |-> b.prev, rev |-> b.rev, val |-> b.val,
       free |-> b.free, first |-> b.first, last |-> b.last, used |-> b.used]

Rows(b, u, f) ==
  /\ u \in Seq(SlotsOf(b)) /\ f \in Seq(SlotsOf(b))
  /\ Distinct(u) /\ Distinct(f)
  /\ Elems(u) \cap Elems(f) = {} /\ Elems(u) \cup Elems(f) = SlotsOf(b)
  /\ Len(u) = b.used /\ Len(f) = Len(b.val) - b.used
  /\ IsLinked(b.next, b.prev, b.first, b.last, u)
  /\ IsPath(b.next, b.free, f)
  /\ \A i \in SlotsOf(b) : b.val[i] = NoValue <=> i \in Elems(f)

Sound(b) == IsRecord(b) /\ IsSlots(b, Values) /\ \E u, f : Rows(b, u, f)

LEMMA SlotsTyped ==
  ASSUME NEW b, IsSlots(b, Values)
  PROVE  /\ Len(b.val) \in Nat
         /\ b.val \in [SlotsOf(b) -> Values \cup {NoValue}]
         /\ b.next \in [SlotsOf(b) -> SlotsOf(b) \cup {None}]
         /\ b.prev \in [SlotsOf(b) -> SlotsOf(b) \cup {None}]
         /\ b.rev \in [SlotsOf(b) -> 1..Mask]
         /\ {b.free, b.first, b.last} \subseteq SlotsOf(b) \cup {None}
         /\ b.used \in 0..Len(b.val) /\ b.used \in Nat
         /\ None \notin SlotsOf(b)
<1>1. b.val \in Seq(Values \cup {NoValue})
  BY DEF IsSlots
<1>2. Len(b.val) \in Nat /\ b.val \in [1..Len(b.val) -> Values \cup {NoValue}]
  BY <1>1, LenProperties
<1> QED BY <1>2 DEF IsSlots, SlotsOf, None

LEMMA PathFrame ==
  ASSUME NEW next, NEW nx, NEW start, NEW s, IsPath(next, start, s),
         \A j \in Elems(s) : nx[j] = next[j]
  PROVE  IsPath(nx, start, s)
<1>1. \A k \in 1..Len(s) : s[k] \in Elems(s)
  BY DEF Elems
<1> QED BY <1>1 DEF IsPath

LEMMA NextRevisionTyped ==
  ASSUME NEW r \in 1..Mask
  PROVE  NextRevision(r) \in 1..Mask
BY SlotsAssumption DEF NextRevision

(***************************************************************************)
(* is_consistent() succeeds on a sound array.                              *)
(***************************************************************************)
LEMMA ChainsOfRows ==
  ASSUME NEW b, IsSlots(b, Values), NEW u, NEW f, Rows(b, u, f)
  PROVE  UsedChain(b) = u /\ FreeChain(b) = f
<1>1. /\ Len(b.val) \in Nat /\ b.used \in 0..Len(b.val)
      /\ None \notin SlotsOf(b)
  BY SlotsTyped
<1>2. Len(b.val) + 1 \in Nat /\ Len(u) < Len(b.val) + 1
      /\ Len(f) < Len(b.val) + 1
  BY <1>1 DEF Rows
<1>3. /\ u \in Seq(SlotsOf(b)) /\ f \in Seq(SlotsOf(b))
      /\ IsPath(b.next, b.first, u) /\ IsPath(b.next, b.free, f)
  BY DEF Rows, IsLinked
<1> QED BY <1>1, <1>2, <1>3, ChainIsPath DEF UsedChain, FreeChain

LEMMA SoundConsistent ==
  ASSUME NEW b, Sound(b)
  PROVE  Consistent(b)
<1>1. PICK u, f : Rows(b, u, f)
  BY DEF Sound
<1>2. UsedChain(b) = u /\ FreeChain(b) = f
  BY <1>1, ChainsOfRows DEF Sound
<1>3. /\ Len(u) = b.used /\ Len(f) = Len(b.val) - b.used
      /\ \A i \in 1..Len(b.val) : b.val[i] = NoValue <=> i \in Elems(f)
      /\ b.last = IF Len(u) = 0 THEN None ELSE u[Len(u)]
      /\ \A k \in 1..Len(u) : b.prev[u[k]] = IF k = 1 THEN None ELSE u[k - 1]
  BY <1>1 DEF Rows, IsLinked, SlotsOf
<1>4. \A i : i \in Elems(f) <=> \E k \in 1..Len(f) : f[k] = i
  BY DEF Elems
<1> QED BY <1>2, <1>3, <1>4 DEF Consistent

(* A used slot has a position in the list, a free one is at none. *)
LEMMA UsedHasPosition ==
  ASSUME NEW b, IsSlots(b, Values), NEW u, NEW f, Rows(b, u, f),
         NEW i \in SlotsOf(b), b.val[i] # NoValue
  PROVE  \E p \in 1..Len(u) : u[p] = i
BY DEF Rows, Elems

LEMMA EmptySound == Sound(Empty)
<1>1. IsRecord(Empty)
  BY DEF IsRecord, Empty
<1>2. Len(<<>>) = 0 /\ 1..0 = {}
  OBVIOUS
<1>3. IsSlots(Empty, Values)
  <2>1. <<>> \in Seq(Values \cup {NoValue}) /\ <<>> \in [1..0 -> {None}]
        /\ <<>> \in [1..0 -> 1..Mask]
    BY <1>2
  <2> QED BY <1>2, <2>1 DEF IsSlots, Empty
<1>4. Rows(Empty, <<>>, <<>>)
  BY <1>2 DEF Rows, Empty, SlotsOf, Distinct, Elems, IsLinked, IsPath
<1> QED BY <1>1, <1>3, <1>4 DEF Sound

-----------------------------------------------------------------------------
(***************************************************************************)
(* The free list at its head, where slots are taken and given back.        *)
(***************************************************************************)
LEMMA PathTail ==
  ASSUME NEW T, NEW s \in Seq(T), Distinct(s), Len(s) # 0,
         NEW next, NEW start, IsPath(next, start, s)
  PROVE  start = s[1] /\ IsPath(next, next[start], Cut(s, 1))
<1>1. Len(s) \in Nat /\ 1 \in 1..Len(s)
  BY LenProperties
<1>2. /\ Len(Cut(s, 1)) = Len(s) - 1
      /\ \A k \in 1..(Len(s) - 1) : Cut(s, 1)[k] = s[k + 1]
  BY <1>1, CutSeq
<1>3. start = s[1] /\ next[s[1]] = IF Len(s) = 1 THEN None ELSE s[2]
  <2>1. 1 = Len(s) <=> Len(s) = 1
    OBVIOUS
  <2>2. next[s[1]] = IF 1 = Len(s) THEN None ELSE s[1 + 1]
    BY <1>1 DEF IsPath
  <2>3. start = s[1]
    BY <1>1 DEF IsPath
  <2> QED BY <2>1, <2>2, <2>3
<1>4. next[start] = IF Len(Cut(s, 1)) = 0 THEN None ELSE Cut(s, 1)[1]
  BY <1>1, <1>2, <1>3
<1>5. ASSUME NEW k \in 1..(Len(s) - 1)
      PROVE  next[Cut(s, 1)[k]]
               = IF k = Len(Cut(s, 1)) THEN None ELSE Cut(s, 1)[k + 1]
  <2>1. k + 1 \in 1..Len(s) /\ (k # Len(s) - 1 => k + 1 \in 1..(Len(s) - 1))
    BY <1>1
  <2>2. next[s[k + 1]] = IF k + 1 = Len(s) THEN None ELSE s[(k + 1) + 1]
    BY <2>1 DEF IsPath
  <2> QED BY <1>1, <1>2, <2>1, <2>2
<1> QED BY <1>2, <1>3, <1>4, <1>5 DEF IsPath

LEMMA PathHead ==
  ASSUME NEW T, NEW s \in Seq(T), Distinct(s), NEW i \in T, i \notin Elems(s),
         NEW next, NEW start, IsPath(next, start, s),
         NEW nx, nx[i] = start, \A j \in Elems(s) : nx[j] = next[j]
  PROVE  IsPath(nx, i, Put(s, 1, i))
<1>1. Len(s) \in Nat /\ 1 \in 1..(Len(s) + 1)
  BY LenProperties
<1> DEFINE c == Put(s, 1, i)
<1>2. /\ Len(c) = Len(s) + 1
      /\ \A k \in 1..(Len(s) + 1) : c[k] = IF k = 1 THEN i ELSE s[k - 1]
  BY <1>1, PutSeq
<1> HIDE DEF c
<1>3. ASSUME NEW k \in 1..Len(c)
      PROVE  nx[c[k]] = IF k = Len(c) THEN None ELSE c[k + 1]
  <2>1. k # Len(c) => k + 1 \in 1..(Len(s) + 1) /\ c[k + 1] = s[k]
    BY <1>1, <1>2
  <2>2. CASE k = 1
    BY <1>1, <1>2, <2>1, <2>2 DEF IsPath
  <2>3. CASE k # 1
    <3>1. k - 1 \in 1..Len(s) /\ c[k] = s[k - 1] /\ (k - 1) + 1 = k
      BY <1>1, <1>2, <2>3
    <3>2. nx[s[k - 1]] = next[s[k - 1]]
      BY <3>1 DEF Elems
    <3>3. next[s[k - 1]] = IF k - 1 = Len(s) THEN None ELSE s[k]
      BY <3>1 DEF IsPath
    <3> QED BY <1>1, <1>2, <2>1, <3>1, <3>2, <3>3
  <2> QED BY <2>2, <2>3
<1>4. i = c[1] /\ Len(c) # 0
  BY <1>1, <1>2
<1>5. IsPath(nx, i, c)
  BY <1>3, <1>4 DEF IsPath
<1> QED BY <1>5 DEF c

-----------------------------------------------------------------------------
(***************************************************************************)
(* grow_if_needed: an array that is full gets new slots, the last of them  *)
(* at the head of the free list.                                           *)
(***************************************************************************)
LEMMA FunIsSeq ==
  ASSUME NEW n \in Nat, NEW T, NEW s \in [1..n -> T]
  PROVE  s \in Seq(T) /\ Len(s) = n
BY SMTT(30)

LEMMA GrownSound ==
  ASSUME NEW b, Sound(b)
  PROVE  /\ Sound(Grown(b, 1))
         /\ Grown(b, 1).free \in SlotsOf(Grown(b, 1))
         /\ SlotsOf(b) \subseteq SlotsOf(Grown(b, 1))
         /\ \A i \in SlotsOf(b) : /\ Grown(b, 1).val[i] = b.val[i]
                                  /\ Grown(b, 1).rev[i] = b.rev[i]
         /\ \A i \in SlotsOf(Grown(b, 1)) \ SlotsOf(b) :
              Grown(b, 1).val[i] = NoValue
         /\ UsedChain(Grown(b, 1)) = UsedChain(b)
<1> DEFINE g == Grown(b, 1)
           old == Len(b.val)
           double == IF old * 2 < MinCapacity THEN MinCapacity ELSE old * 2
           new == IF double < b.used + 1 THEN b.used + 1 ELSE double
           more == 1..(new - old)
<1>1. PICK u, f : Rows(b, u, f)
  BY DEF Sound
<1>2. /\ old \in Nat
      /\ b.val \in [SlotsOf(b) -> Values \cup {NoValue}]
      /\ b.next \in [SlotsOf(b) -> SlotsOf(b) \cup {None}]
      /\ b.prev \in [SlotsOf(b) -> SlotsOf(b) \cup {None}]
      /\ b.rev \in [SlotsOf(b) -> 1..Mask]
      /\ {b.free, b.first, b.last} \subseteq SlotsOf(b) \cup {None}
      /\ b.used \in Nat /\ None \notin SlotsOf(b) /\ b.used <= old
  BY SlotsTyped DEF Sound
<1>3. CASE b.used + 1 <= old
  <2>1. g = b
    BY <1>3 DEF Grown
  <2>2. f \in Seq(SlotsOf(b)) /\ Len(f) \in Nat /\ Len(f) # 0
    BY <1>1, <1>2, <1>3, LenProperties DEF Rows
  <2>3. b.free = f[1] /\ f[1] \in SlotsOf(b)
    BY <1>1, <2>2, LenProperties DEF Rows, IsPath
  <2> QED BY <2>1, <2>3
<1>4. CASE ~(b.used + 1 <= old)
  <2>1. new \in Nat /\ new > old /\ b.used = old
    BY SMTT(30), <1>2, <1>4, SlotsAssumption
  <2>2. g = [b EXCEPT
               !.next = @ \o [i \in more |->
                                IF i = 1 THEN b.free ELSE old + i - 1],
               !.prev = @ \o [i \in more |-> None],
               !.rev = @ \o [i \in more |-> 1],
               !.val = @ \o [i \in more |-> NoValue],
               !.free = new]
    BY <1>4 DEF Grown
  <2> HIDE DEF g, double, new
  <2>3. PICK m \in Nat : m = new - old /\ m # 0 /\ new = old + m
    <3>1. new - old \in Nat /\ new - old # 0 /\ new = old + (new - old)
      BY <1>2, <2>1
    <3> QED BY <3>1
  <2>0. old \in Nat /\ m \in Nat
    BY <1>2, <2>3
  <2> DEFINE nx == b.next \o [i \in 1..m |-> IF i = 1 THEN b.free ELSE old + i - 1]
             pv == b.prev \o [i \in 1..m |-> None]
             rv == b.rev \o [i \in 1..m |-> 1]
             vl == b.val \o [i \in 1..m |-> NoValue]
  <2>4. g = [next |-> nx, prev |-> pv, rev |-> rv, val |-> vl,
             free |-> new, first |-> b.first, last |-> b.last, used |-> b.used]
    BY <2>2, <2>3 DEF Sound, IsRecord
  <2> DEFINE N == 1..(old + m)
             f2 == [k \in 1..m |-> (old + m + 1) - k]
  <2>5. SlotsOf(b) = 1..old /\ SlotsOf(b) \subseteq N /\ None \notin N
    BY <1>2, <2>3 DEF SlotsOf, None
  <2> HIDE DEF old
  <2> DEFINE T == N \cup {None}
  <2>5a. N \subseteq T /\ None \in T /\ SlotsOf(b) \cup {None} \subseteq T
    BY <2>5
  <2> HIDE DEF T
  <2>6. /\ nx \in [N -> T]
        /\ \A i \in N : nx[i] = IF i <= old THEN b.next[i]
                               ELSE IF i - old = 1 THEN b.free
                               ELSE old + (i - old) - 1
    <3> DEFINE t == [i \in 1..m |-> IF i = 1 THEN b.free ELSE old + i - 1]
    <3>1. t \in [1..m -> T] /\ b.next \in [1..old -> T]
      <4>1. b.next \in [1..old -> T]
        BY <1>2, <2>5, <2>5a
      <4>2. ASSUME NEW i \in 1..m
            PROVE  (IF i = 1 THEN b.free ELSE old + i - 1) \in T
        <5>1. i # 1 => old + i - 1 \in N
          BY <2>0
        <5> QED BY <1>2, <2>5, <2>5a, <5>1
      <4> QED BY <4>1, <4>2
    <3> HIDE DEF t
    <3>2. /\ b.next \in Seq(T) /\ Len(b.next) = old
          /\ t \in Seq(T) /\ Len(t) = m
      BY <2>0, <3>1, FunIsSeq
    <3>3. /\ b.next \o t \in Seq(T) /\ Len(b.next \o t) = old + m
          /\ \A i \in 1..(old + m) :
               (b.next \o t)[i] = IF i <= old THEN b.next[i] ELSE t[i - old]
      BY <2>0, <3>2, ConcatProperties
    <3>4. b.next \o t \in [1..(old + m) -> T]
      BY <3>3, LenProperties
    <3>5. \A i \in N : ~(i <= old) =>
            t[i - old] = IF i - old = 1 THEN b.free ELSE old + (i - old) - 1
      <4>1. \A i \in N : ~(i <= old) => i - old \in 1..m
        BY <2>0
      <4> QED BY <4>1 DEF t
    <3> QED BY <3>3, <3>4, <3>5 DEF t
  <2>7. /\ pv \in [N -> T]
        /\ \A i \in SlotsOf(b) : pv[i] = b.prev[i]
    <3> DEFINE t == [i \in 1..m |-> None]
    <3>1. t \in [1..m -> T] /\ b.prev \in [1..old -> T]
      BY <1>2, <2>5, <2>5a
    <3> HIDE DEF t
    <3>2. /\ b.prev \in Seq(T) /\ Len(b.prev) = old
          /\ t \in Seq(T) /\ Len(t) = m
      BY <2>0, <3>1, FunIsSeq
    <3>3. /\ b.prev \o t \in Seq(T) /\ Len(b.prev \o t) = old + m
          /\ \A i \in 1..(old + m) :
               (b.prev \o t)[i] = IF i <= old THEN b.prev[i] ELSE t[i - old]
      BY <2>0, <3>2, ConcatProperties
    <3>4. b.prev \o t \in [1..(old + m) -> T]
      BY <3>3, LenProperties
    <3>5. \A i \in SlotsOf(b) : i \in N /\ i <= old
      BY <2>0, <2>5
    <3> QED BY <3>3, <3>4, <3>5 DEF t
  <2>8. /\ rv \in [N -> 1..Mask]
        /\ \A i \in SlotsOf(b) : rv[i] = b.rev[i]
    <3> DEFINE t == [i \in 1..m |-> 1]
    <3>1. t \in [1..m -> 1..Mask] /\ b.rev \in [1..old -> 1..Mask]
      BY <1>2, <2>5, SlotsAssumption
    <3> HIDE DEF t
    <3>2. /\ b.rev \in Seq(1..Mask) /\ Len(b.rev) = old
          /\ t \in Seq(1..Mask) /\ Len(t) = m
      BY <2>0, <3>1, FunIsSeq
    <3>3. /\ b.rev \o t \in Seq(1..Mask) /\ Len(b.rev \o t) = old + m
          /\ \A i \in 1..(old + m) :
               (b.rev \o t)[i] = IF i <= old THEN b.rev[i] ELSE t[i - old]
      BY <2>0, <3>2, ConcatProperties
    <3>4. b.rev \o t \in [1..(old + m) -> 1..Mask]
      BY <3>3, LenProperties
    <3>5. \A i \in SlotsOf(b) : i \in N /\ i <= old
      BY <2>0, <2>5
    <3> QED BY <3>3, <3>4, <3>5 DEF t
  <2>9. /\ vl \in Seq(Values \cup {NoValue}) /\ Len(vl) = old + m
        /\ \A i \in N : vl[i] = IF i <= old THEN b.val[i] ELSE NoValue
    <3> DEFINE t == [i \in 1..m |-> NoValue]
    <3>1. t \in [1..m -> Values \cup {NoValue}] /\ b.val \in [1..old -> Values \cup {NoValue}]
      BY <1>2, <2>5
    <3> HIDE DEF t
    <3>2. /\ b.val \in Seq(Values \cup {NoValue}) /\ Len(b.val) = old
          /\ t \in Seq(Values \cup {NoValue}) /\ Len(t) = m
      BY <2>0, <3>1, FunIsSeq
    <3>3. /\ b.val \o t \in Seq(Values \cup {NoValue}) /\ Len(b.val \o t) = old + m
          /\ \A i \in 1..(old + m) :
               (b.val \o t)[i] = IF i <= old THEN b.val[i] ELSE t[i - old]
      BY <2>0, <3>2, ConcatProperties
    <3>4. b.val \o t \in [1..(old + m) -> Values \cup {NoValue}]
      BY <3>3, LenProperties
    <3>5. \A i \in N : ~(i <= old) => t[i - old] = NoValue
      <4>1. \A i \in N : ~(i <= old) => i - old \in 1..m
        BY <2>0
      <4> QED BY <4>1 DEF t
    <3> QED BY <3>3, <3>5 DEF t
  <2> HIDE DEF nx, pv, rv, vl
  <2>10. SlotsOf(g) = N /\ Len(g.val) = old + m
    BY <2>4, <2>9 DEF SlotsOf
  <2>11. IsRecord(g)
    BY <2>4 DEF IsRecord
  <2>12. IsSlots(g, Values)
    <3>1. new \in N /\ b.used \in 0..(old + m)
      BY ONLY <2>0, <2>1, <2>3
    <3>2. {new, b.first, b.last} \subseteq N \cup {None}
      BY <1>2, <2>5, <3>1
    <3>3. /\ g.next = nx /\ g.prev = pv /\ g.rev = rv /\ g.val = vl
          /\ g.free = new /\ g.first = b.first /\ g.last = b.last
          /\ g.used = b.used
      BY <2>4
    <3>4. nx \in [N -> N \cup {None}] /\ pv \in [N -> N \cup {None}]
      BY <2>6, <2>7 DEF T
    <3> QED BY <2>8, <2>9, <2>10, <3>1, <3>2, <3>3, <3>4 DEF IsSlots
  <2>13. f \in Seq(SlotsOf(b)) /\ Len(f) = 0 /\ Elems(f) = {} /\ b.free = None
    <3>1. /\ f \in Seq(SlotsOf(b)) /\ IsPath(b.next, b.free, f)
          /\ Len(f) = old - b.used
      BY <1>1 DEF Rows, old
    <3>2. Len(f) = 0 /\ 1..0 = {}
      BY <2>0, <2>1, <3>1
    <3> QED BY <3>1, <3>2 DEF Elems, IsPath
  <2>14. f2 \in [1..m -> N] /\ f2 \in Seq(N) /\ Len(f2) = m
    <3>1. f2 \in [1..m -> N]
      BY <1>2, <2>3
    <3> QED BY <2>0, <3>1, FunIsSeq
  <2>15. Distinct(f2)
    BY <1>2, <2>14 DEF Distinct
  <2>16. Elems(f2) = (old + 1)..(old + m)
    <3>1. ASSUME NEW i \in (old + 1)..(old + m) PROVE i \in Elems(f2)
      <4>1. (old + m + 1) - i \in 1..m
            /\ (old + m + 1) - ((old + m + 1) - i) = i
        BY <1>2, <2>3
      <4> QED BY <2>14, <4>1 DEF Elems
    <3>2. ASSUME NEW k \in 1..m PROVE f2[k] \in (old + 1)..(old + m)
      BY <1>2, <2>3
    <3> QED BY <2>14, <3>1, <3>2 DEF Elems
  <2>17. IsPath(nx, new, f2)
    <3>1. new = f2[1] /\ m # 0
      BY <1>2, <2>3
    <3>2. ASSUME NEW k \in 1..m
          PROVE  nx[f2[k]] = IF k = m THEN None ELSE f2[k + 1]
      <4>1. /\ f2[k] = (old + m + 1) - k /\ f2[k] \in N /\ ~(f2[k] <= old)
            /\ (f2[k] - old = 1 <=> k = m)
            /\ (k # m => f2[k + 1] = (old + m + 1) - (k + 1))
        BY SMTT(30), <1>2, <2>3
      <4>2. nx[f2[k]] = IF f2[k] - old = 1 THEN None
                        ELSE old + (f2[k] - old) - 1
        BY <2>6, <2>13, <4>1
      <4>3. old + (f2[k] - old) - 1 = (old + m + 1) - (k + 1)
        BY <1>2, <2>3, <4>1
      <4> QED BY <4>1, <4>2, <4>3
    <3> QED BY <2>14, <3>1, <3>2 DEF IsPath
  <2> HIDE DEF f2
  <2>18. /\ u \in Seq(SlotsOf(b)) /\ Elems(u) = SlotsOf(b)
         /\ Len(u) = b.used /\ Distinct(u)
         /\ IsLinked(b.next, b.prev, b.first, b.last, u)
         /\ \A i \in SlotsOf(b) : b.val[i] # NoValue
    BY <1>1, <2>13 DEF Rows
  <2>19. IsLinked(nx, pv, b.first, b.last, u)
    <3>1. \A k \in 1..Len(u) : /\ nx[u[k]] = b.next[u[k]]
                               /\ pv[u[k]] = b.prev[u[k]]
      <4> TAKE k \in 1..Len(u)
      <4>1. u[k] \in SlotsOf(b)
        BY <2>18, LenProperties
      <4>2. u[k] \in N /\ u[k] <= old
        BY <2>0, <2>5, <4>1
      <4> QED BY <2>6, <2>7, <4>1, <4>2
    <3> QED BY <2>18, <3>1 DEF IsLinked, IsPath
  <2>20. Rows(g, u, f2)
    <3>1. u \in Seq(N)
      <4>1. u \in [1..Len(u) -> N] /\ Len(u) \in Nat
        BY <2>5, <2>18, LenProperties
      <4> QED BY <4>1, FunIsSeq
    <3>2. /\ Elems(u) \cap Elems(f2) = {}
          /\ Elems(u) \cup Elems(f2) = N
      BY SMTT(30), <1>2, <2>3, <2>5, <2>16, <2>18
    <3>3. Len(f2) = (old + m) - b.used
      BY <2>0, <2>1, <2>14
    <3>4. \A i \in N : vl[i] = NoValue <=> i \in Elems(f2)
      <4> TAKE i \in N
      <4>1. CASE i <= old
        <5>1. i \in SlotsOf(b) /\ i \notin Elems(f2)
          BY <2>0, <2>5, <2>16, <4>1
        <5> QED BY <2>9, <2>18, <4>1, <5>1
      <4>2. CASE ~(i <= old)
        <5>1. i \in Elems(f2)
          BY <2>0, <2>16, <4>2
        <5> QED BY <2>9, <4>2, <5>1
      <4> QED BY <4>1, <4>2
    <3> QED BY <2>4, <2>10, <2>14, <2>15, <2>17, <2>18, <2>19,
               <3>1, <3>2, <3>3, <3>4 DEF Rows
  <2>21. Sound(g)
    BY <2>11, <2>12, <2>20 DEF Sound
  <2>22. g.free \in SlotsOf(g)
    BY <1>2, <2>3, <2>4, <2>10
  <2>23. /\ \A i \in SlotsOf(b) : g.val[i] = b.val[i] /\ g.rev[i] = b.rev[i]
         /\ \A i \in SlotsOf(g) \ SlotsOf(b) : g.val[i] = NoValue
    BY SMTT(30), <1>2, <2>3, <2>4, <2>5, <2>8, <2>9, <2>10
  <2>24. UsedChain(g) = UsedChain(b)
    <3>1. UsedChain(b) = u
      BY <1>1, ChainsOfRows DEF Sound
    <3>2. UsedChain(g) = u
      BY <2>12, <2>20, ChainsOfRows
    <3> QED BY <3>1, <3>2
  <2> QED BY <2>5, <2>10, <2>21, <2>22, <2>23, <2>24 DEF g
<1> QED BY <1>2, <1>3, <1>4

-----------------------------------------------------------------------------
(***************************************************************************)
(* add and insert: the first free slot is put into the list of used ones.  *)
(***************************************************************************)
LEMMA TakenSound ==
  ASSUME NEW g, IsSlots(g, Values), NEW u, NEW f, Rows(g, u, f),
         g.free \in SlotsOf(g), NEW v \in Values,
         NEW p \in 1..(Len(u) + 1),
         NEW before, before = Before(u, p),
         NEW after, after = After(u, p),
         NEW d,
         d = [next |-> LinkIn(g.next, g.free, before, after),
              prev |-> LinkIn(g.prev, g.free, after, before),
              rev |-> [g.rev EXCEPT ![g.free] = NextRevision(@)],
              val |-> [g.val EXCEPT ![g.free] = v],
              free |-> g.next[g.free],
              first |-> FirstWith(g.first, p, g.free),
              last |-> LastWith(g.last, u, p, g.free),
              used |-> g.used + 1]
  PROVE  /\ Sound(d) /\ g.val[g.free] = NoValue
         /\ CutFrom(UsedChain(g), UsedChain(d), g.free)
<1> DEFINE T == SlotsOf(g)
<1>1. PICK i \in T : i = g.free
  OBVIOUS
<1>2. /\ Len(g.val) \in Nat
      /\ g.val \in [T -> Values \cup {NoValue}]
      /\ g.next \in [T -> T \cup {None}] /\ g.prev \in [T -> T \cup {None}]
      /\ g.rev \in [T -> 1..Mask]
      /\ {g.free, g.first, g.last} \subseteq T \cup {None}
      /\ g.used \in Nat /\ g.used <= Len(g.val) /\ None \notin T
  BY SMTT(30), SlotsTyped
<1>3. /\ u \in Seq(T) /\ f \in Seq(T) /\ Distinct(u) /\ Distinct(f)
      /\ Elems(u) \cap Elems(f) = {} /\ Elems(u) \cup Elems(f) = T
      /\ Len(u) = g.used /\ Len(f) = Len(g.val) - g.used
      /\ IsLinked(g.next, g.prev, g.first, g.last, u)
      /\ IsPath(g.next, g.free, f)
      /\ \A j \in T : g.val[j] = NoValue <=> j \in Elems(f)
  BY DEF Rows
<1>4. Len(f) \in Nat /\ Len(u) \in Nat /\ T = 1..Len(g.val)
  BY <1>3, LenProperties DEF SlotsOf
<1>5. Len(f) # 0
  BY <1>1, <1>2, <1>3 DEF IsPath
<1> HIDE DEF T
<1>6. 1 \in 1..Len(f)
  BY <1>4, <1>5
<1> DEFINE f2 == Cut(f, 1)
           u2 == Put(u, p, i)
           nx == LinkIn(g.next, i, before, after)
           pv == LinkIn(g.prev, i, after, before)
<1>7. i = f[1] /\ IsPath(g.next, g.next[i], f2)
  BY <1>1, <1>3, <1>5, PathTail
<1>8. i \in Elems(f) /\ i \notin Elems(u)
  BY <1>3, <1>6, <1>7 DEF Elems
<1>9. /\ f2 \in Seq(T) /\ Len(f2) = Len(f) - 1
      /\ Elems(f2) = Elems(f) \ {i} /\ Distinct(f2)
  BY <1>3, <1>6, <1>7, CutSeq
<1>10. /\ u2 \in Seq(T) /\ Len(u2) = Len(u) + 1
       /\ Elems(u2) = Elems(u) \cup {i} /\ Distinct(u2)
  BY <1>3, <1>8, PutSeq
<1>11. /\ IsLinked(nx, pv, FirstWith(g.first, p, i),
                   LastWith(g.last, u, p, i), u2)
       /\ nx \in [T -> T \cup {None}] /\ pv \in [T -> T \cup {None}]
       /\ \A j \in T \ (Elems(u) \cup {i}) : nx[j] = g.next[j]
  <2>1. /\ None \notin T /\ g.next \in [T -> T \cup {None}]
        /\ g.prev \in [T -> T \cup {None}] /\ u \in Seq(T) /\ Distinct(u)
        /\ i \in T /\ i \notin Elems(u) /\ p \in 1..(Len(u) + 1)
        /\ IsLinked(g.next, g.prev, g.first, g.last, u)
    BY <1>2, <1>3, <1>8
  <2>2. before = Before(u, p) /\ after = After(u, p)
    OBVIOUS
  <2> QED BY ONLY <2>1, <2>2, PutLinked DEF nx, pv
<1> HIDE DEF f2, u2, nx, pv
<1>12. IsPath(nx, g.next[i], f2)
  <2>1. \A j \in Elems(f2) : nx[j] = g.next[j]
    BY <1>3, <1>9, <1>11
  <2> QED BY <1>7, <2>1, PathFrame
<1> DEFINE vl == [g.val EXCEPT ![i] = v]
           rv == [g.rev EXCEPT ![i] = NextRevision(@)]
<1>13. /\ d.next = nx /\ d.prev = pv /\ d.rev = rv /\ d.val = vl
       /\ d.free = g.next[i] /\ d.first = FirstWith(g.first, p, i)
       /\ d.last = LastWith(g.last, u, p, i)
       /\ d.used = g.used + 1 /\ IsRecord(d)
  BY <1>1 DEF nx, pv, IsRecord
<1>14. vl \in [T -> Values \cup {NoValue}] /\ rv \in [T -> 1..Mask]
       /\ \A j \in T : vl[j] = IF j = i THEN v ELSE g.val[j]
  BY <1>2, NextRevisionTyped
<1> HIDE DEF vl, rv
<1>15. vl \in Seq(Values \cup {NoValue}) /\ Len(vl) = Len(g.val)
  BY <1>2, <1>4, <1>14, FunIsSeq
<1>16. SlotsOf(d) = T
  BY <1>4, <1>13, <1>15 DEF SlotsOf
<1>17. IsSlots(d, Values)
  <2>0. Len(g.val) \in Nat /\ g.used \in Nat
        /\ Len(f) = Len(g.val) - g.used /\ Len(f) \in Nat /\ Len(f) # 0
    BY <1>2, <1>3, <1>4, <1>5
  <2>1. d.used \in 0..Len(g.val)
    BY <1>13, <2>0
  <2>2. {d.free, d.first, d.last} \subseteq T \cup {None}
    BY <1>2, <1>13 DEF FirstWith, LastWith
  <2>3. T = 1..Len(d.val)
    BY <1>4, <1>13, <1>15
  <2> QED BY <1>11, <1>13, <1>14, <1>15, <2>1, <2>2, <2>3 DEF IsSlots
<1>18. Rows(d, u2, f2)
  <2>1. Len(f2) = Len(d.val) - d.used /\ Len(u2) = d.used
    BY SMTT(30), <1>2, <1>3, <1>4, <1>9, <1>10, <1>13, <1>15
  <2>2. Elems(u2) \cap Elems(f2) = {} /\ Elems(u2) \cup Elems(f2) = T
    BY <1>3, <1>9, <1>10
  <2>3. \A j \in T : vl[j] = NoValue <=> j \in Elems(f2)
    BY <1>3, <1>9, <1>14, SlotArrayAssumption
  <2> QED BY <1>9, <1>10, <1>11, <1>12, <1>13, <1>16, <2>1, <2>2, <2>3 DEF Rows
<1>19. g.val[i] = NoValue
  BY <1>3, <1>8
<1>20. CutFrom(UsedChain(g), UsedChain(d), i)
  <2>1. UsedChain(g) = u /\ UsedChain(d) = u2
    BY <1>17, <1>18, ChainsOfRows
  <2>2. u \in Seq(T) /\ Distinct(u) /\ i \in T /\ i \notin Elems(u)
    BY <1>3, <1>8
  <2>3. CutFrom(u, u2, i)
    BY ONLY <2>2, CutPut, p \in 1..(Len(u) + 1) DEF u2
  <2> QED BY <2>1, <2>3
<1> QED BY <1>1, <1>13, <1>17, <1>18, <1>19, <1>20 DEF Sound

(* d is b with a value in a slot that was free. *)
Gains(b, d, v) ==
  /\ Sound(d)
  /\ Grown(b, 1).val[Grown(b, 1).free] = NoValue
  /\ d.val = [Grown(b, 1).val EXCEPT ![Grown(b, 1).free] = v]
  /\ d.rev = [Grown(b, 1).rev EXCEPT ![Grown(b, 1).free] = NextRevision(@)]
  /\ CutFrom(UsedChain(b), UsedChain(d), Grown(b, 1).free)

LEMMA AddedSound ==
  ASSUME NEW b, Sound(b), NEW v \in Values
  PROVE  Gains(b, Added(b, v), v)
<1>1. PICK g : g = Grown(b, 1)
  OBVIOUS
<1>2. Sound(g) /\ g.free \in SlotsOf(g) /\ UsedChain(g) = UsedChain(b)
  BY <1>1, GrownSound
<1>3. PICK u, f : Rows(g, u, f)
  BY <1>2 DEF Sound
<1>4. /\ IsSlots(g, Values) /\ u \in Seq(SlotsOf(g)) /\ None \notin SlotsOf(g)
      /\ IsLinked(g.next, g.prev, g.first, g.last, u)
  BY <1>2, <1>3, SlotsTyped DEF Sound, Rows
<1>5. /\ Len(u) \in Nat /\ \A k \in 1..Len(u) : u[k] \in SlotsOf(g)
      /\ g.last = IF Len(u) = 0 THEN None ELSE u[Len(u)]
      /\ g.first = IF Len(u) = 0 THEN None ELSE u[1]
  BY <1>4, LenProperties DEF IsLinked, IsPath
<1> DEFINE p == Len(u) + 1
           d == [next |-> [Link(g.next, g.last, g.free) EXCEPT ![g.free] = None],
                 prev |-> [g.prev EXCEPT ![g.free] = g.last],
                 rev |-> [g.rev EXCEPT ![g.free] = NextRevision(@)],
                 val |-> [g.val EXCEPT ![g.free] = v],
                 free |-> g.next[g.free],
                 first |-> IF p = 1 THEN g.free ELSE g.first,
                 last |-> g.free,
                 used |-> g.used + 1]
<1>6. p \in 1..(Len(u) + 1) /\ p = Len(u) + 1
      /\ g.last = Before(u, p)
  BY <1>5 DEF Before
<1>7. p = 1 <=> g.first = None
  BY <1>4, <1>5
<1>8. Added(b, v) = d
  BY <1>1, <1>7 DEF Added
<1>9. [Link(g.prev, None, g.free) EXCEPT ![g.free] = g.last]
        = [g.prev EXCEPT ![g.free] = g.last]
  BY DEF Link
<1> HIDE DEF p
<1>10. d = [next |-> LinkIn(g.next, g.free, g.last, None),
            prev |-> LinkIn(g.prev, g.free, None, g.last),
            rev |-> [g.rev EXCEPT ![g.free] = NextRevision(@)],
            val |-> [g.val EXCEPT ![g.free] = v],
            free |-> g.next[g.free],
            first |-> FirstWith(g.first, p, g.free),
            last |-> LastWith(g.last, u, p, g.free),
            used |-> g.used + 1]
  BY <1>6, <1>9 DEF LinkIn, FirstWith, LastWith
<1>11. d.val = [g.val EXCEPT ![g.free] = v]
       /\ d.rev = [g.rev EXCEPT ![g.free] = NextRevision(@)]
  OBVIOUS
<1> HIDE DEF d
<1>12. None = After(u, p)
  BY <1>6 DEF After
<1>13. /\ Sound(d) /\ g.val[g.free] = NoValue
       /\ CutFrom(UsedChain(g), UsedChain(d), g.free)
  BY <1>2, <1>3, <1>4, <1>6, <1>10, <1>12, TakenSound
<1> QED BY <1>1, <1>2, <1>8, <1>11, <1>13 DEF Gains

LEMMA InsertedSound ==
  ASSUME NEW b, Sound(b), NEW v \in Values,
         NEW q \in SlotsOf(b), b.val[q] # NoValue
  PROVE  Gains(b, Inserted(b, q, v), v)
<1>1. PICK g : g = Grown(b, 1)
  OBVIOUS
<1>2. /\ Sound(g) /\ g.free \in SlotsOf(g)
      /\ q \in SlotsOf(g) /\ g.val[q] # NoValue
      /\ UsedChain(g) = UsedChain(b)
  BY <1>1, GrownSound
<1>3. PICK u, f : Rows(g, u, f)
  BY <1>2 DEF Sound
<1>4. /\ IsSlots(g, Values) /\ u \in Seq(SlotsOf(g)) /\ None \notin SlotsOf(g)
      /\ IsLinked(g.next, g.prev, g.first, g.last, u) /\ Distinct(u)
      /\ g.prev \in [SlotsOf(g) -> SlotsOf(g) \cup {None}]
  BY <1>2, <1>3, SlotsTyped DEF Sound, Rows
<1>5. PICK p \in 1..Len(u) : u[p] = q
  BY <1>2, <1>3, <1>4, UsedHasPosition
<1>6. /\ Len(u) \in Nat /\ \A k \in 1..Len(u) : u[k] \in SlotsOf(g)
      /\ \A k \in 1..Len(u) : g.prev[u[k]] = IF k = 1 THEN None ELSE u[k - 1]
      /\ g.first = IF Len(u) = 0 THEN None ELSE u[1]
  BY <1>4, LenProperties DEF IsLinked, IsPath
<1>7. PICK before : before = g.prev[q]
  OBVIOUS
<1>8. /\ p \in 1..(Len(u) + 1) /\ p # Len(u) + 1
      /\ before = Before(u, p) /\ q = After(u, p)
  BY <1>5, <1>6, <1>7 DEF Before, After
<1>9. g.first = q <=> p = 1
  <2>1. 1 \in 1..Len(u) /\ Len(u) # 0
    BY <1>5, <1>6
  <2> QED BY <1>4, <1>5, <1>6, <2>1 DEF Distinct
<1>10. PICK i \in SlotsOf(g) : i = g.free
  BY <1>2
<1>11. i # q /\ i # before
  <2>1. i \in Elems(f)
    <3>1. f \in Seq(SlotsOf(g)) /\ IsPath(g.next, g.free, f)
      BY <1>3 DEF Rows
    <3>2. Len(f) \in Nat /\ Len(f) # 0 /\ g.free = f[1]
      BY <1>4, <1>10, <3>1, LenProperties DEF IsPath
    <3>3. 1 \in 1..Len(f)
      BY <3>2
    <3> QED BY <1>10, <3>2, <3>3 DEF Elems
  <2>2. i \notin Elems(u)
    BY <1>3, <2>1 DEF Rows
  <2>3. p # 1 => p - 1 \in 1..Len(u)
    BY <1>5, <1>6
  <2> QED BY <1>4, <1>5, <1>8, <1>10, <2>2, <2>3 DEF Elems, Before
<1> DEFINE d == [next |-> Link([g.next EXCEPT ![i] = q], before, i),
                 prev |-> [g.prev EXCEPT ![i] = before, ![q] = i],
                 rev |-> [g.rev EXCEPT ![i] = NextRevision(@)],
                 val |-> [g.val EXCEPT ![i] = v],
                 free |-> g.next[i],
                 first |-> IF p = 1 THEN i ELSE g.first,
                 last |-> g.last,
                 used |-> g.used + 1]
<1>12. Inserted(b, q, v) = d
  BY <1>1, <1>7, <1>9, <1>10 DEF Inserted
<1>13. Link([g.next EXCEPT ![i] = q], before, i)
         = [Link(g.next, before, i) EXCEPT ![i] = q]
  BY <1>11 DEF Link
<1>14. [g.prev EXCEPT ![i] = before, ![q] = i]
         = [Link(g.prev, q, i) EXCEPT ![i] = before]
  BY <1>2, <1>4, <1>11 DEF Link
<1>15. d = [next |-> LinkIn(g.next, g.free, before, q),
            prev |-> LinkIn(g.prev, g.free, q, before),
            rev |-> [g.rev EXCEPT ![g.free] = NextRevision(@)],
            val |-> [g.val EXCEPT ![g.free] = v],
            free |-> g.next[g.free],
            first |-> FirstWith(g.first, p, g.free),
            last |-> LastWith(g.last, u, p, g.free),
            used |-> g.used + 1]
  BY <1>8, <1>10, <1>13, <1>14 DEF LinkIn, FirstWith, LastWith
<1>16. d.val = [g.val EXCEPT ![g.free] = v]
       /\ d.rev = [g.rev EXCEPT ![g.free] = NextRevision(@)]
  BY <1>10
<1> HIDE DEF d
<1>17. /\ Sound(d) /\ g.val[g.free] = NoValue
       /\ CutFrom(UsedChain(g), UsedChain(d), g.free)
  BY <1>2, <1>3, <1>4, <1>8, <1>15, TakenSound
<1> QED BY <1>1, <1>2, <1>12, <1>16, <1>17 DEF Gains

-----------------------------------------------------------------------------
(***************************************************************************)
(* move_to_front and move_to_back: the used slots in another order.        *)
(***************************************************************************)
Relinked(b, d, u, u2) ==
  /\ u2 \in Seq(SlotsOf(b)) /\ Distinct(u2) /\ Len(u2) = Len(u)
  /\ Elems(u2) = Elems(u)
  /\ IsRecord(d) /\ d.val = b.val /\ d.rev = b.rev
  /\ d.free = b.free /\ d.used = b.used
  /\ d.next \in [SlotsOf(b) -> SlotsOf(b) \cup {None}]
  /\ d.prev \in [SlotsOf(b) -> SlotsOf(b) \cup {None}]
  /\ IsLinked(d.next, d.prev, d.first, d.last, u2)
  /\ \A j \in SlotsOf(b) \ Elems(u) : d.next[j] = b.next[j]

LEMMA Reordered ==
  ASSUME NEW b, IsSlots(b, Values), NEW u, NEW f, Rows(b, u, f),
         NEW d, NEW u2, Relinked(b, d, u, u2)
  PROVE  Sound(d) /\ UsedChain(b) = u /\ UsedChain(d) = u2
<1>0. /\ u2 \in Seq(SlotsOf(b)) /\ Distinct(u2) /\ Len(u2) = Len(u)
      /\ Elems(u2) = Elems(u)
      /\ IsRecord(d) /\ d.val = b.val /\ d.rev = b.rev
      /\ d.free = b.free /\ d.used = b.used
      /\ d.next \in [SlotsOf(b) -> SlotsOf(b) \cup {None}]
      /\ d.prev \in [SlotsOf(b) -> SlotsOf(b) \cup {None}]
      /\ IsLinked(d.next, d.prev, d.first, d.last, u2)
      /\ \A j \in SlotsOf(b) \ Elems(u) : d.next[j] = b.next[j]
  BY DEF Relinked
<1>1. SlotsOf(d) = SlotsOf(b) /\ SlotsOf(b) = 1..Len(b.val)
  BY <1>0 DEF SlotsOf
<1>2. {d.first, d.last} \subseteq SlotsOf(b) \cup {None}
  <2>1. /\ d.first = IF Len(u2) = 0 THEN None ELSE u2[1]
        /\ d.last = IF Len(u2) = 0 THEN None ELSE u2[Len(u2)]
    BY <1>0 DEF IsLinked, IsPath
  <2>2. Len(u2) # 0 => 1 \in 1..Len(u2) /\ Len(u2) \in 1..Len(u2)
    BY <1>0, LenProperties
  <2>3. \A k \in 1..Len(u2) : u2[k] \in SlotsOf(b)
    BY <1>0, LenProperties
  <2> QED BY <2>1, <2>2, <2>3
<1>3. IsSlots(d, Values)
  BY SMTT(30), <1>0, <1>1, <1>2 DEF IsSlots
<1>4. IsPath(d.next, d.free, f)
  <2>1. \A j \in Elems(f) : d.next[j] = b.next[j]
    BY <1>0 DEF Rows
  <2> QED BY <1>0, <2>1, PathFrame DEF Rows
<1>5. Rows(d, u2, f)
  BY <1>0, <1>1, <1>4 DEF Rows
<1>6. UsedChain(b) = u /\ UsedChain(d) = u2
  BY <1>3, <1>5, ChainsOfRows
<1> QED BY <1>0, <1>3, <1>5, <1>6 DEF Sound

(* An element is taken from one place and put to another one. *)
Reput(s, t, i) == \E c : CutFrom(c, s, i) /\ CutFrom(c, t, i)

FirstWithout(b, i) == IF b.first = i THEN b.next[i] ELSE b.first
LastWithout(b, i) == IF b.last = i THEN b.prev[i] ELSE b.last

LEMMA MovedSound ==
  ASSUME NEW b, IsSlots(b, Values), NEW u, NEW f, Rows(b, u, f),
         NEW p \in 1..Len(u), NEW i \in SlotsOf(b), u[p] = i,
         NEW c, c = Cut(u, p), NEW q \in 1..(Len(c) + 1),
         NEW before, before = Before(c, q), NEW after, after = After(c, q),
         NEW first, first = FirstWithout(b, i),
         NEW last, last = LastWithout(b, i),
         NEW d,
         d = [next |-> LinkIn(NextWithout(b, i), i, before, after),
              prev |-> LinkIn(PrevWithout(b, i), i, after, before),
              rev |-> b.rev, val |-> b.val, free |-> b.free,
              first |-> FirstWith(first, q, i),
              last |-> LastWith(last, c, q, i),
              used |-> b.used]
  PROVE  /\ Sound(d) /\ Reput(UsedChain(b), UsedChain(d), i)
         /\ UsedChain(d)[q] = i /\ Len(UsedChain(d)) = Len(u)
<1>1. PICK T : T = SlotsOf(b)
  OBVIOUS
<1>2. /\ None \notin T
      /\ b.next \in [T -> T \cup {None}] /\ b.prev \in [T -> T \cup {None}]
      /\ u \in Seq(T) /\ Distinct(u)
      /\ IsLinked(b.next, b.prev, b.first, b.last, u)
  BY <1>1, SlotsTyped DEF Rows
<1> DEFINE n0 == NextWithout(b, i)
           p0 == PrevWithout(b, i)
<1>3. /\ IsLinked(n0, p0, first, last, c)
      /\ n0 \in [T -> T \cup {None}] /\ p0 \in [T -> T \cup {None}]
      /\ \A j \in T \ Elems(u) : n0[j] = b.next[j]
  <2> DEFINE j == u[p]
             nj == Link(b.next, b.prev[j], b.next[j])
             pj == Link(b.prev, b.next[j], b.prev[j])
  <2>1. /\ IsLinked(nj, pj, IF b.first = j THEN b.next[j] ELSE b.first,
                    IF b.last = j THEN b.prev[j] ELSE b.last, Cut(u, p))
        /\ nj \in [T -> T \cup {None}] /\ pj \in [T -> T \cup {None}]
        /\ \A k \in T \ Elems(u) : nj[k] = b.next[k]
    BY <1>2, CutLinked
  <2>2. j = i
    OBVIOUS
  <2> HIDE DEF j
  <2>3. nj = n0 /\ pj = p0
    BY <2>2 DEF NextWithout, PrevWithout
  <2>4. first = (IF b.first = i THEN b.next[i] ELSE b.first)
        /\ last = (IF b.last = i THEN b.prev[i] ELSE b.last)
    BY DEF FirstWithout, LastWithout
  <2> HIDE DEF nj, pj, n0, p0
  <2> QED BY <2>1, <2>2, <2>3, <2>4
<1>4. /\ c \in Seq(T) /\ Len(c) = Len(u) - 1
      /\ Elems(c) = Elems(u) \ {i} /\ Distinct(c)
  <2>1. /\ Cut(u, p) \in Seq(T) /\ Len(Cut(u, p)) = Len(u) - 1
        /\ Elems(Cut(u, p)) = Elems(u) \ {u[p]} /\ Distinct(Cut(u, p))
    BY SMTT(30), <1>2, CutSeq
  <2> QED BY <2>1
<1>5. Len(u) \in Nat /\ Len(c) \in Nat /\ i \in Elems(u)
  BY <1>2, <1>4, LenProperties DEF Elems
<1> DEFINE nx == LinkIn(n0, i, before, after)
           pv == LinkIn(p0, i, after, before)
           u2 == Put(c, q, i)
<1> HIDE DEF n0, p0
<1>6. i \in T /\ i \notin Elems(c)
  BY <1>1, <1>4
<1>7. /\ IsLinked(nx, pv, FirstWith(first, q, i), LastWith(last, c, q, i), u2)
      /\ nx \in [T -> T \cup {None}] /\ pv \in [T -> T \cup {None}]
      /\ \A j \in T \ (Elems(c) \cup {i}) : nx[j] = n0[j]
  <2>1. /\ None \notin T /\ n0 \in [T -> T \cup {None}]
        /\ p0 \in [T -> T \cup {None}] /\ c \in Seq(T) /\ Distinct(c)
        /\ i \in T /\ i \notin Elems(c) /\ q \in 1..(Len(c) + 1)
        /\ IsLinked(n0, p0, first, last, c)
    BY <1>2, <1>3, <1>4, <1>6
  <2>2. before = Before(c, q) /\ after = After(c, q)
    OBVIOUS
  <2> QED BY ONLY <2>1, <2>2, PutLinked DEF nx, pv, u2
<1>8. /\ u2 \in Seq(T) /\ Len(u2) = Len(u)
      /\ Elems(u2) = Elems(u) /\ Distinct(u2)
  <2>1. /\ u2 \in Seq(T) /\ Len(u2) = Len(c) + 1
        /\ Elems(u2) = Elems(c) \cup {i} /\ Distinct(u2)
    BY <1>4, <1>6, PutSeq
  <2> QED BY <1>4, <1>5, <2>1
<1> HIDE DEF nx, pv, u2
<1>9. /\ d.next = nx /\ d.prev = pv /\ d.rev = b.rev /\ d.val = b.val
      /\ d.free = b.free /\ d.first = FirstWith(first, q, i)
      /\ d.last = LastWith(last, c, q, i)
      /\ d.used = b.used /\ IsRecord(d)
  BY DEF nx, pv, n0, p0, IsRecord
<1>10. IsLinked(d.next, d.prev, d.first, d.last, u2)
  BY <1>7, <1>9
<1>11. \A j \in T \ Elems(u) : nx[j] = b.next[j]
  BY <1>3, <1>4, <1>5, <1>7
<1>12. u2 \in Seq(SlotsOf(b)) /\ d.next \in [SlotsOf(b) -> SlotsOf(b) \cup {None}]
       /\ d.prev \in [SlotsOf(b) -> SlotsOf(b) \cup {None}]
       /\ \A j \in SlotsOf(b) \ Elems(u) : d.next[j] = b.next[j]
  BY <1>1, <1>7, <1>8, <1>9, <1>11
<1>13. Sound(d) /\ UsedChain(b) = u /\ UsedChain(d) = u2
  <2>1. Relinked(b, d, u, u2)
    BY <1>8, <1>9, <1>10, <1>12 DEF Relinked
  <2> QED BY ONLY IsSlots(b, Values), Rows(b, u, f), <2>1, Reordered
<1>14. CutFrom(c, u, i)
  BY DEF CutFrom
<1>15. CutFrom(c, u2, i) /\ u2[q] = i
  <2>1. c \in Seq(T) /\ Distinct(c) /\ i \in T /\ i \notin Elems(c)
    BY <1>4, <1>6
  <2> QED BY ONLY <2>1, CutPut, q \in 1..(Len(c) + 1) DEF u2
<1> QED BY <1>8, <1>13, <1>14, <1>15 DEF Reput

LEMMA MovedToFrontSound ==
  ASSUME NEW b, Sound(b), NEW i \in SlotsOf(b), b.val[i] # NoValue
  PROVE  /\ Sound(MovedToFront(b, i))
         /\ MovedToFront(b, i).val = b.val /\ MovedToFront(b, i).rev = b.rev
         /\ Reput(UsedChain(b), UsedChain(MovedToFront(b, i)), i)
         /\ UsedChain(MovedToFront(b, i))[1] = i
         /\ Len(UsedChain(MovedToFront(b, i))) = Len(UsedChain(b))
<1>1. CASE b.first = i
  <2>1. PICK u, f : Rows(b, u, f)
    BY DEF Sound
  <2>2. /\ UsedChain(b) = u /\ None \notin SlotsOf(b)
        /\ u \in Seq(SlotsOf(b)) /\ Len(u) \in Nat
        /\ IsLinked(b.next, b.prev, b.first, b.last, u)
    BY <2>1, ChainsOfRows, SlotsTyped, LenProperties DEF Sound, Rows
  <2>3. Len(u) # 0 /\ u[1] = i
    BY <1>1, <2>2 DEF IsLinked, IsPath
  <2>4. CutFrom(Cut(u, 1), u, i)
    BY <2>2, <2>3 DEF CutFrom
  <2>5. MovedToFront(b, i) = b
    BY <1>1 DEF MovedToFront
  <2> QED BY <2>2, <2>3, <2>4, <2>5 DEF Reput
<1>2. CASE b.first # i
  <2>1. PICK u, f : Rows(b, u, f)
    BY DEF Sound
  <2>2. /\ IsSlots(b, Values) /\ IsRecord(b) /\ None \notin SlotsOf(b)
        /\ b.next \in [SlotsOf(b) -> SlotsOf(b) \cup {None}]
        /\ b.prev \in [SlotsOf(b) -> SlotsOf(b) \cup {None}]
        /\ {b.first, b.last} \subseteq SlotsOf(b) \cup {None}
        /\ u \in Seq(SlotsOf(b)) /\ Len(u) \in Nat
        /\ IsLinked(b.next, b.prev, b.first, b.last, u)
    BY <2>1, SlotsTyped, LenProperties DEF Sound, Rows
  <2>3. PICK p \in 1..Len(u) : u[p] = i
    BY <2>1, <2>2, UsedHasPosition
  <2>4. b.first = u[1] /\ p # 1 /\ Len(u) # 0
    BY <1>2, <2>2, <2>3 DEF IsLinked, IsPath
  <2>5. PICK c : c = Cut(u, p)
    OBVIOUS
  <2>6. Len(c) = Len(u) - 1 /\ c[1] = u[1]
    <3>1. 1 \in 1..(Len(u) - 1) /\ 1 < p
      BY <2>2, <2>3, <2>4
    <3>2. Distinct(u)
      BY <2>1 DEF Rows
    <3> QED BY <2>2, <2>3, <2>5, <3>1, <3>2, CutSeq
  <2>7. PICK q \in 1..(Len(c) + 1) : q = 1
    BY <2>2, <2>6
  <2>8. q # Len(c) + 1 /\ None = Before(c, q) /\ b.first = After(c, q)
    BY <2>2, <2>3, <2>4, <2>6, <2>7 DEF Before, After
  <2>9. b.first \in SlotsOf(b)
    BY <2>2, <2>4, LenProperties
  <2> DEFINE first == FirstWithout(b, i)
             last == LastWithout(b, i)
             d == [next |-> LinkIn(NextWithout(b, i), i, None, b.first),
                   prev |-> LinkIn(PrevWithout(b, i), i, b.first, None),
                   rev |-> b.rev, val |-> b.val, free |-> b.free,
                   first |-> FirstWith(first, q, i),
                   last |-> LastWith(last, c, q, i), used |-> b.used]
  <2>10. MovedToFront(b, i) = d
    <3>1. PrevWithout(b, i) \in [SlotsOf(b) -> SlotsOf(b) \cup {None}]
      BY <2>2 DEF PrevWithout, Link
    <3>2. Link(NextWithout(b, i), None, i) = NextWithout(b, i)
      BY DEF Link
    <3>3. Link(PrevWithout(b, i), b.first, i)
            = [PrevWithout(b, i) EXCEPT ![b.first] = i]
      BY <2>2, <2>9 DEF Link
    <3>4. [[PrevWithout(b, i) EXCEPT ![b.first] = i] EXCEPT ![i] = None]
            = [PrevWithout(b, i) EXCEPT ![i] = None, ![b.first] = i]
      BY <1>2, <2>9, <3>1
    <3>5. FirstWith(first, q, i) = i /\ LastWith(last, c, q, i) = last
      BY <2>7, <2>8 DEF FirstWith, LastWith
    <3> QED BY <1>2, <2>2, <3>2, <3>3, <3>4, <3>5
            DEF MovedToFront, IsRecord, LinkIn, LastWithout
  <2>11. d.val = b.val /\ d.rev = b.rev
    OBVIOUS
  <2>12. /\ Sound(d) /\ Reput(UsedChain(b), UsedChain(d), i)
         /\ UsedChain(d)[q] = i /\ Len(UsedChain(d)) = Len(u)
    <3> HIDE DEF d, first, last
    <3>1. d = [next |-> LinkIn(NextWithout(b, i), i, None, b.first),
               prev |-> LinkIn(PrevWithout(b, i), i, b.first, None),
               rev |-> b.rev, val |-> b.val, free |-> b.free,
               first |-> FirstWith(first, q, i),
               last |-> LastWith(last, c, q, i), used |-> b.used]
      BY DEF d
    <3>2. first = FirstWithout(b, i) /\ last = LastWithout(b, i)
      BY DEF first, last
    <3> QED BY <2>1, <2>2, <2>3, <2>5, <2>8, <3>1, <3>2, MovedSound
  <2>13. UsedChain(b) = u
    BY <2>1, <2>2, ChainsOfRows
  <2> HIDE DEF d
  <2> QED BY <2>7, <2>10, <2>11, <2>12, <2>13
<1> QED BY <1>1, <1>2

LEMMA MovedToBackSound ==
  ASSUME NEW b, Sound(b), NEW i \in SlotsOf(b), b.val[i] # NoValue
  PROVE  /\ Sound(MovedToBack(b, i))
         /\ MovedToBack(b, i).val = b.val /\ MovedToBack(b, i).rev = b.rev
         /\ Reput(UsedChain(b), UsedChain(MovedToBack(b, i)), i)
         /\ UsedChain(MovedToBack(b, i))[Len(UsedChain(b))] = i
         /\ Len(UsedChain(MovedToBack(b, i))) = Len(UsedChain(b))
<1>1. CASE b.last = i
  <2>1. PICK u, f : Rows(b, u, f)
    BY DEF Sound
  <2>2. /\ UsedChain(b) = u /\ None \notin SlotsOf(b)
        /\ u \in Seq(SlotsOf(b)) /\ Len(u) \in Nat
        /\ IsLinked(b.next, b.prev, b.first, b.last, u)
    BY <2>1, ChainsOfRows, SlotsTyped, LenProperties DEF Sound, Rows
  <2>3. Len(u) # 0 /\ u[Len(u)] = i
    BY <1>1, <2>2 DEF IsLinked
  <2>4. CutFrom(Cut(u, Len(u)), u, i)
    BY <2>2, <2>3 DEF CutFrom
  <2>5. MovedToBack(b, i) = b
    BY <1>1 DEF MovedToBack
  <2> QED BY <2>2, <2>3, <2>4, <2>5 DEF Reput
<1>2. CASE b.last # i
  <2>1. PICK u, f : Rows(b, u, f)
    BY DEF Sound
  <2>2. /\ IsSlots(b, Values) /\ IsRecord(b) /\ None \notin SlotsOf(b)
        /\ b.next \in [SlotsOf(b) -> SlotsOf(b) \cup {None}]
        /\ b.prev \in [SlotsOf(b) -> SlotsOf(b) \cup {None}]
        /\ {b.first, b.last} \subseteq SlotsOf(b) \cup {None}
        /\ u \in Seq(SlotsOf(b)) /\ Len(u) \in Nat
        /\ IsLinked(b.next, b.prev, b.first, b.last, u)
    BY <2>1, SlotsTyped, LenProperties DEF Sound, Rows
  <2>3. PICK p \in 1..Len(u) : u[p] = i
    BY <2>1, <2>2, UsedHasPosition
  <2>4. b.last = u[Len(u)] /\ p # Len(u) /\ Len(u) # 0
    BY <1>2, <2>2, <2>3 DEF IsLinked
  <2>5. PICK c : c = Cut(u, p)
    OBVIOUS
  <2>6. Len(c) = Len(u) - 1 /\ c[Len(c)] = u[Len(u)] /\ Len(c) \in Nat \ {0}
    <3>1. /\ Len(u) - 1 \in 1..(Len(u) - 1) /\ ~(Len(u) - 1 < p)
          /\ (Len(u) - 1) + 1 = Len(u) /\ Len(u) - 1 \in Nat \ {0}
      BY <2>2, <2>3, <2>4
    <3>2. Distinct(u)
      BY <2>1 DEF Rows
    <3>3. Len(Cut(u, p)) = Len(u) - 1
          /\ \A k \in 1..(Len(u) - 1) :
               Cut(u, p)[k] = IF k < p THEN u[k] ELSE u[k + 1]
      BY <2>2, <2>3, <3>2, CutSeq
    <3> QED BY <2>5, <3>1, <3>3
  <2>7. PICK q \in 1..(Len(c) + 1) : q = Len(c) + 1
    BY <2>6
  <2>8. q # 1 /\ b.last = Before(c, q) /\ None = After(c, q)
    <3>1. q # 1 /\ q - 1 = Len(c)
      BY <2>6, <2>7
    <3> QED BY <2>4, <2>6, <2>7, <3>1 DEF Before, After
  <2>9. b.last \in SlotsOf(b)
    BY <2>2, <2>4, LenProperties
  <2> DEFINE first == FirstWithout(b, i)
             last == LastWithout(b, i)
             d == [next |-> LinkIn(NextWithout(b, i), i, b.last, None),
                   prev |-> LinkIn(PrevWithout(b, i), i, None, b.last),
                   rev |-> b.rev, val |-> b.val, free |-> b.free,
                   first |-> FirstWith(first, q, i),
                   last |-> LastWith(last, c, q, i), used |-> b.used]
  <2>10. MovedToBack(b, i) = d
    <3>1. NextWithout(b, i) \in [SlotsOf(b) -> SlotsOf(b) \cup {None}]
      BY <2>2 DEF NextWithout, Link
    <3>2. Link(PrevWithout(b, i), None, i) = PrevWithout(b, i)
      BY DEF Link
    <3>3. Link(NextWithout(b, i), b.last, i)
            = [NextWithout(b, i) EXCEPT ![b.last] = i]
      BY <2>2, <2>9 DEF Link
    <3>4. [[NextWithout(b, i) EXCEPT ![b.last] = i] EXCEPT ![i] = None]
            = [NextWithout(b, i) EXCEPT ![i] = None, ![b.last] = i]
      BY <1>2, <2>9, <3>1
    <3>5. FirstWith(first, q, i) = first /\ LastWith(last, c, q, i) = i
      BY <2>7, <2>8 DEF FirstWith, LastWith
    <3> QED BY <1>2, <2>2, <3>2, <3>3, <3>4, <3>5
            DEF MovedToBack, IsRecord, LinkIn, FirstWithout
  <2>11. d.val = b.val /\ d.rev = b.rev
    OBVIOUS
  <2>12. /\ Sound(d) /\ Reput(UsedChain(b), UsedChain(d), i)
         /\ UsedChain(d)[q] = i /\ Len(UsedChain(d)) = Len(u)
    <3> HIDE DEF d, first, last
    <3>1. d = [next |-> LinkIn(NextWithout(b, i), i, b.last, None),
               prev |-> LinkIn(PrevWithout(b, i), i, None, b.last),
               rev |-> b.rev, val |-> b.val, free |-> b.free,
               first |-> FirstWith(first, q, i),
               last |-> LastWith(last, c, q, i), used |-> b.used]
      BY DEF d
    <3>2. first = FirstWithout(b, i) /\ last = LastWithout(b, i)
      BY DEF first, last
    <3> QED BY SMTT(30), <2>1, <2>2, <2>3, <2>5, <2>8, <3>1, <3>2, MovedSound
  <2>13. UsedChain(b) = u
    BY <2>1, <2>2, ChainsOfRows
  <2>14. q = Len(u)
    BY <2>2, <2>6, <2>7
  <2> HIDE DEF d
  <2> QED BY <2>10, <2>11, <2>12, <2>13, <2>14
<1> QED BY <1>1, <1>2

-----------------------------------------------------------------------------
(***************************************************************************)
(* remove_at: the revision counts up, and after the destructor the slot    *)
(* goes from the list of used ones to the head of the free list.           *)
(***************************************************************************)
LEMMA InvalidatedSound ==
  ASSUME NEW b, Sound(b), NEW i \in SlotsOf(b)
  PROVE  /\ Sound(Invalidated(b, i)) /\ Invalidated(b, i).val = b.val
         /\ Invalidated(b, i).rev = [b.rev EXCEPT ![i] = NextRevision(@)]
         /\ UsedChain(Invalidated(b, i)) = UsedChain(b)
<1>1. PICK u, f : Rows(b, u, f)
  BY DEF Sound
<1> DEFINE rv == [b.rev EXCEPT ![i] = NextRevision(@)]
           d == [next |-> b.next, prev |-> b.prev, rev |-> rv, val |-> b.val,
                 free |-> b.free, first |-> b.first, last |-> b.last,
                 used |-> b.used]
<1>2. Invalidated(b, i) = d
  BY DEF Invalidated, Sound, IsRecord
<1>3. rv \in [SlotsOf(b) -> 1..Mask]
  BY SlotsTyped, NextRevisionTyped DEF Sound
<1> HIDE DEF rv
<1>4. /\ d.next = b.next /\ d.prev = b.prev /\ d.rev = rv /\ d.val = b.val
      /\ d.free = b.free /\ d.first = b.first /\ d.last = b.last
      /\ d.used = b.used /\ IsRecord(d)
  BY DEF IsRecord
<1> HIDE DEF d
<1>5. IsSlots(d, Values)
  BY <1>3, <1>4 DEF Sound, IsSlots, SlotsOf
<1>6. Rows(d, u, f)
  BY <1>1, <1>4 DEF Rows, SlotsOf
<1>7. UsedChain(d) = UsedChain(b)
  BY <1>1, <1>5, <1>6, ChainsOfRows DEF Sound
<1> QED BY <1>2, <1>4, <1>5, <1>6, <1>7 DEF Sound, rv

LEMMA UnlinkedSound ==
  ASSUME NEW b, Sound(b), NEW i \in SlotsOf(b), b.val[i] # NoValue
  PROVE  /\ Sound(Unlinked(b, i)) /\ Unlinked(b, i).rev = b.rev
         /\ Unlinked(b, i).val = [b.val EXCEPT ![i] = NoValue]
         /\ CutFrom(UsedChain(Unlinked(b, i)), UsedChain(b), i)
<1>1. PICK u, f : Rows(b, u, f)
  BY DEF Sound
<1>2. PICK T : T = SlotsOf(b)
  OBVIOUS
<1>3. /\ IsSlots(b, Values) /\ IsRecord(b) /\ None \notin T
      /\ Len(b.val) \in Nat /\ T = 1..Len(b.val)
      /\ b.val \in [T -> Values \cup {NoValue}] /\ b.rev \in [T -> 1..Mask]
      /\ b.next \in [T -> T \cup {None}] /\ b.prev \in [T -> T \cup {None}]
      /\ {b.free, b.first, b.last} \subseteq T \cup {None} /\ i \in T
  BY <1>2, SlotsTyped DEF Sound, SlotsOf
<1>4. /\ u \in Seq(T) /\ f \in Seq(T) /\ Distinct(u) /\ Distinct(f)
      /\ Elems(u) \cap Elems(f) = {} /\ Elems(u) \cup Elems(f) = T
      /\ Len(u) = b.used /\ Len(f) = Len(b.val) - b.used
      /\ IsLinked(b.next, b.prev, b.first, b.last, u)
      /\ IsPath(b.next, b.free, f)
      /\ \A j \in T : b.val[j] = NoValue <=> j \in Elems(f)
  BY <1>1, <1>2 DEF Rows
<1>5. PICK p \in 1..Len(u) : u[p] = i
  BY <1>1, <1>3, UsedHasPosition
<1>6. Len(u) \in Nat /\ Len(f) \in Nat /\ i \in Elems(u) /\ i \notin Elems(f)
  BY <1>3, <1>4, <1>5, LenProperties DEF Elems
<1> DEFINE n0 == NextWithout(b, i)
           p0 == PrevWithout(b, i)
           first == FirstWithout(b, i)
           last == LastWithout(b, i)
           c == Cut(u, p)
           f2 == Put(f, 1, i)
<1>7. /\ IsLinked(n0, p0, first, last, c)
      /\ n0 \in [T -> T \cup {None}] /\ p0 \in [T -> T \cup {None}]
      /\ \A j \in T \ Elems(u) : n0[j] = b.next[j]
  <2> DEFINE j == u[p]
             nj == Link(b.next, b.prev[j], b.next[j])
             pj == Link(b.prev, b.next[j], b.prev[j])
  <2>1. /\ IsLinked(nj, pj, IF b.first = j THEN b.next[j] ELSE b.first,
                    IF b.last = j THEN b.prev[j] ELSE b.last, Cut(u, p))
        /\ nj \in [T -> T \cup {None}] /\ pj \in [T -> T \cup {None}]
        /\ \A k \in T \ Elems(u) : nj[k] = b.next[k]
    <3>1. /\ None \notin T /\ b.next \in [T -> T \cup {None}]
          /\ b.prev \in [T -> T \cup {None}] /\ u \in Seq(T) /\ Distinct(u)
          /\ p \in 1..Len(u) /\ IsLinked(b.next, b.prev, b.first, b.last, u)
      BY <1>3, <1>4
    <3> QED BY ONLY <3>1, CutLinked
  <2>2. j = i
    BY <1>5
  <2> HIDE DEF j
  <2>3. nj = n0 /\ pj = p0
    BY <2>2 DEF NextWithout, PrevWithout
  <2>4. first = (IF b.first = i THEN b.next[i] ELSE b.first)
        /\ last = (IF b.last = i THEN b.prev[i] ELSE b.last)
    BY DEF FirstWithout, LastWithout
  <2> HIDE DEF nj, pj, n0, p0
  <2> QED BY <2>1, <2>2, <2>3, <2>4
<1>8. /\ c \in Seq(T) /\ Len(c) = Len(u) - 1
      /\ Elems(c) = Elems(u) \ {i} /\ Distinct(c)
  <2>1. /\ Cut(u, p) \in Seq(T) /\ Len(Cut(u, p)) = Len(u) - 1
        /\ Elems(Cut(u, p)) = Elems(u) \ {u[p]} /\ Distinct(Cut(u, p))
    BY SMTT(30), <1>4, <1>5, CutSeq
  <2> QED BY <1>5, <2>1
<1>9. /\ f2 \in Seq(T) /\ Len(f2) = Len(f) + 1
      /\ Elems(f2) = Elems(f) \cup {i} /\ Distinct(f2)
  <2>1. 1 \in 1..(Len(f) + 1)
    BY <1>6
  <2>2. f \in Seq(T) /\ Distinct(f) /\ i \in T /\ i \notin Elems(f)
    BY <1>3, <1>4, <1>6
  <2> QED BY ONLY <2>1, <2>2, PutSeq DEF f2
<1> DEFINE nx == [n0 EXCEPT ![i] = b.free]
           pv == [p0 EXCEPT ![i] = None]
           vl == [b.val EXCEPT ![i] = NoValue]
           d == [next |-> nx, prev |-> pv, rev |-> b.rev, val |-> vl,
                 free |-> i, first |-> first, last |-> last,
                 used |-> b.used - 1]
<1>10. Unlinked(b, i) = d
  <2>1. b = [next |-> b.next, prev |-> b.prev, rev |-> b.rev, val |-> b.val,
             free |-> b.free, first |-> b.first, last |-> b.last,
             used |-> b.used]
    BY <1>3 DEF IsRecord
  <2>2. Unlinked(b, i) = [b EXCEPT !.next = nx, !.prev = pv, !.val = vl,
                                   !.free = i, !.used = b.used - 1,
                                   !.first = first, !.last = last]
    BY <2>1 DEF Unlinked, FirstWithout, LastWithout
  <2> HIDE DEF nx, pv, vl, first, last
  <2> QED BY <2>1, <2>2
<1> HIDE DEF n0, p0, first, last, c, f2
<1>11. /\ nx \in [T -> T \cup {None}] /\ pv \in [T -> T \cup {None}]
       /\ \A j \in T : nx[j] = (IF j = i THEN b.free ELSE n0[j])
                       /\ pv[j] = (IF j = i THEN None ELSE p0[j])
  BY <1>3, <1>7
<1>12. /\ vl \in [T -> Values \cup {NoValue}]
       /\ \A j \in T : vl[j] = IF j = i THEN NoValue ELSE b.val[j]
  BY <1>3
<1> HIDE DEF nx, pv, vl
<1>13. vl \in Seq(Values \cup {NoValue}) /\ Len(vl) = Len(b.val)
  BY <1>3, <1>12, FunIsSeq
<1>14. /\ d.next = nx /\ d.prev = pv /\ d.rev = b.rev /\ d.val = vl
       /\ d.free = i /\ d.first = first /\ d.last = last
       /\ d.used = b.used - 1 /\ IsRecord(d)
  BY DEF IsRecord
<1> HIDE DEF d
<1>15. IsLinked(nx, pv, first, last, c)
  <2>1. \A k \in 1..Len(c) : c[k] \in T /\ c[k] # i
    BY <1>8, LenProperties DEF Elems
  <2>2. \A k \in 1..Len(c) : nx[c[k]] = n0[c[k]] /\ pv[c[k]] = p0[c[k]]
    BY <1>11, <2>1
  <2> QED BY <1>7, <2>2 DEF IsLinked, IsPath
<1>16. IsPath(nx, i, f2)
  <2>1. nx[i] = b.free /\ \A j \in Elems(f) : nx[j] = b.next[j]
    BY <1>3, <1>4, <1>6, <1>7, <1>11
  <2> QED BY <1>3, <1>4, <1>6, <2>1, PathHead DEF f2
<1>17. SlotsOf(d) = T
  BY <1>3, <1>13, <1>14 DEF SlotsOf
<1>18. {first, last} \subseteq T \cup {None}
  <2>1. /\ first = IF Len(c) = 0 THEN None ELSE c[1]
        /\ last = IF Len(c) = 0 THEN None ELSE c[Len(c)]
    BY <1>7 DEF IsLinked, IsPath
  <2>2. Len(c) # 0 => 1 \in 1..Len(c) /\ Len(c) \in 1..Len(c)
    BY <1>8, LenProperties
  <2> QED BY <1>8, <2>1, <2>2, LenProperties
<1>19. d.used = Len(c) /\ d.used \in 0..Len(b.val)
       /\ Len(f2) = Len(b.val) - d.used
  <2>1. /\ Len(u) \in Nat /\ Len(f) \in Nat /\ Len(b.val) \in Nat /\ Len(u) # 0
        /\ b.used = Len(u) /\ Len(f) = Len(b.val) - b.used
    BY <1>3, <1>4, <1>5, <1>6
  <2>2. Len(c) = Len(u) - 1 /\ Len(f2) = Len(f) + 1 /\ d.used = b.used - 1
    BY <1>8, <1>9, <1>14
  <2> QED BY ONLY <2>1, <2>2
<1>20. IsSlots(d, Values)
  <2>1. T = 1..Len(d.val) /\ {d.free, d.first, d.last} \subseteq T \cup {None}
    BY <1>3, <1>13, <1>14, <1>18
  <2>2. d.used \in 0..Len(d.val)
    BY <1>13, <1>14, <1>19
  <2> QED BY <1>3, <1>11, <1>13, <1>14, <2>1, <2>2 DEF IsSlots
<1>21. Rows(d, c, f2)
  <2>1. Elems(c) \cap Elems(f2) = {} /\ Elems(c) \cup Elems(f2) = T
    <3>1. /\ i \in T /\ i \in Elems(u) /\ i \notin Elems(f)
          /\ Elems(u) \cap Elems(f) = {} /\ Elems(u) \cup Elems(f) = T
      BY <1>3, <1>4, <1>6
    <3>2. Elems(c) = Elems(u) \ {i} /\ Elems(f2) = Elems(f) \cup {i}
      BY <1>8, <1>9
    <3> QED BY ONLY <3>1, <3>2
  <2>2. \A j \in T : vl[j] = NoValue <=> j \in Elems(f2)
    BY <1>4, <1>9, <1>12
  <2> QED BY <1>8, <1>9, <1>13, <1>14, <1>15, <1>16, <1>17, <1>19, <2>1, <2>2
          DEF Rows
<1>22. CutFrom(UsedChain(d), UsedChain(b), i)
  <2>1. UsedChain(d) = c /\ UsedChain(b) = u
    BY <1>1, <1>3, <1>20, <1>21, ChainsOfRows
  <2> QED BY <1>5, <2>1 DEF CutFrom, c
<1> QED BY <1>10, <1>14, <1>20, <1>21, <1>22 DEF Sound, vl

-----------------------------------------------------------------------------
(***************************************************************************)
(* clear: the used slots come before the free ones, in reversed order.     *)
(***************************************************************************)
LEMMA ClearedSound ==
  ASSUME NEW b, Sound(b)
  PROVE  /\ Sound(Cleared(b)) /\ Len(Cleared(b).val) = Len(b.val)
         /\ \A i \in SlotsOf(b) :
              /\ Cleared(b).val[i] = NoValue
              /\ Cleared(b).rev[i] = IF b.val[i] = NoValue THEN b.rev[i]
                                     ELSE NextRevision(b.rev[i])
         /\ UsedChain(Cleared(b)) = <<>>
<1>1. PICK u, f : Rows(b, u, f)
  BY DEF Sound
<1>2. PICK T : T = SlotsOf(b)
  OBVIOUS
<1>3. /\ IsSlots(b, Values) /\ IsRecord(b) /\ None \notin T
      /\ Len(b.val) \in Nat /\ T = 1..Len(b.val)
      /\ b.val \in [T -> Values \cup {NoValue}] /\ b.rev \in [T -> 1..Mask]
      /\ b.next \in [T -> T \cup {None}]
      /\ b.free \in T \cup {None}
  BY <1>2, SlotsTyped DEF Sound, SlotsOf
<1>4. /\ u \in Seq(T) /\ f \in Seq(T) /\ Distinct(u) /\ Distinct(f)
      /\ Elems(u) \cap Elems(f) = {} /\ Elems(u) \cup Elems(f) = T
      /\ Len(f) = Len(b.val) - Len(u) /\ IsPath(b.next, b.free, f)
      /\ \A j \in T : b.val[j] = NoValue <=> j \in Elems(f)
  BY <1>1, <1>2 DEF Rows
<1>5. PICK n \in Nat : n = Len(u)
  BY <1>4, LenProperties
<1>6. PICK m \in Nat : m = Len(f)
  BY <1>4, LenProperties
<1>7. /\ \A k \in 1..n : u[k] \in T /\ u[k] \in Elems(u)
      /\ \A k \in 1..m : f[k] \in T /\ f[k] \in Elems(f)
      /\ \A i \in Elems(u) : \E k \in 1..n : u[k] = i
      /\ \A i \in Elems(f) : \E k \in 1..m : f[k] = i
  BY <1>4, <1>5, <1>6, LenProperties DEF Elems
<1> DEFINE in(i) == \E k \in 1..n : u[k] = i
           at(i) == CHOOSE k \in 1..n : u[k] = i
           nx == [i \in T |-> IF ~in(i) THEN b.next[i]
                              ELSE IF at(i) = 1 THEN b.free ELSE u[at(i) - 1]]
           pv == [i \in T |-> None]
           rv == [i \in T |-> IF in(i) THEN NextRevision(b.rev[i]) ELSE b.rev[i]]
           vl == [i \in T |-> IF in(i) THEN NoValue ELSE b.val[i]]
           free == IF n = 0 THEN b.free ELSE u[n]
           d == [next |-> nx, prev |-> pv, rev |-> rv, val |-> vl,
                 free |-> free, first |-> None, last |-> None, used |-> 0]
<1>8. Cleared(b) = d
  <2>1. UsedChain(b) = u
    BY <1>1, <1>3, ChainsOfRows
  <2>2. b = [next |-> b.next, prev |-> b.prev, rev |-> b.rev, val |-> b.val,
             free |-> b.free, first |-> b.first, last |-> b.last,
             used |-> b.used]
    BY <1>3 DEF IsRecord
  <2>3. Cleared(b) = [b EXCEPT !.next = nx, !.prev = pv, !.rev = rv, !.val = vl,
                               !.free = free, !.first = None, !.last = None,
                               !.used = 0]
    BY <1>3, <1>5, <2>1 DEF Cleared
  <2> HIDE DEF nx, pv, rv, vl, free
  <2> QED BY <2>2, <2>3
<1>9. \A i \in T : in(i) <=> b.val[i] # NoValue
  BY <1>4, <1>7
<1>10. \A k \in 1..n : in(u[k]) /\ at(u[k]) = k
  BY <1>4, <1>5 DEF Distinct
<1> HIDE DEF in, at
<1>11. /\ nx \in [T -> T \cup {None}]
       /\ \A k \in 1..n : nx[u[k]] = IF k = 1 THEN b.free ELSE u[k - 1]
       /\ \A k \in 1..m : nx[f[k]] = b.next[f[k]]
  <2>1. \A k \in 1..n : nx[u[k]] = IF k = 1 THEN b.free ELSE u[k - 1]
    BY <1>7, <1>10
  <2>2. \A k \in 1..m : nx[f[k]] = b.next[f[k]]
    BY <1>4, <1>7, <1>9
  <2>3. ASSUME NEW i \in T PROVE nx[i] \in T \cup {None}
    <3>1. CASE i \in Elems(f)
      BY SMTT(30), <1>3, <1>7, <2>2, <3>1
    <3>2. CASE i \in Elems(u)
      <4>1. PICK k \in 1..n : u[k] = i
        BY <1>7, <3>2
      <4>2. k # 1 => k - 1 \in 1..n
        OBVIOUS
      <4> QED BY <1>3, <1>7, <2>1, <4>1, <4>2
    <3> QED BY <1>4, <3>1, <3>2
  <2> QED BY <2>1, <2>2, <2>3
<1>12. /\ pv \in [T -> T \cup {None}] /\ rv \in [T -> 1..Mask]
       /\ vl \in [T -> Values \cup {NoValue}]
       /\ \A i \in T : /\ vl[i] = NoValue
                       /\ rv[i] = IF b.val[i] = NoValue THEN b.rev[i]
                                  ELSE NextRevision(b.rev[i])
  BY <1>3, <1>9, NextRevisionTyped
<1>13. vl \in Seq(Values \cup {NoValue}) /\ Len(vl) = Len(b.val)
  <2> HIDE DEF vl
  <2> QED BY <1>3, <1>12, FunIsSeq
<1> DEFINE f2 == [k \in 1..(n + m) |->
                    IF k <= n THEN u[(n + 1) - k] ELSE f[k - n]]
<1>14. \A k \in 1..(n + m) : /\ k <= n => (n + 1) - k \in 1..n
                             /\ ~(k <= n) => k - n \in 1..m
  OBVIOUS
<1>15. f2 \in Seq(T) /\ Len(f2) = n + m
  <2>1. f2 \in [1..(n + m) -> T]
    BY <1>7, <1>14
  <2> HIDE DEF f2
  <2> QED BY <2>1, FunIsSeq
<1>16. Distinct(f2)
  <2>1. ASSUME NEW j \in 1..(n + m), NEW k \in 1..(n + m), f2[j] = f2[k]
        PROVE  j = k
    <3>1. CASE j <= n /\ k <= n
      <4>1. (n + 1) - j = (n + 1) - k
        BY <1>4, <1>5, <1>14, <2>1, <3>1 DEF Distinct
      <4> QED BY <4>1
    <3>2. CASE ~(j <= n) /\ ~(k <= n)
      <4>1. j - n = k - n
        BY <1>4, <1>6, <1>14, <2>1, <3>2 DEF Distinct
      <4> QED BY <4>1
    <3>3. CASE j <= n /\ ~(k <= n)
      BY <1>4, <1>7, <1>14, <2>1, <3>3
    <3>4. CASE ~(j <= n) /\ k <= n
      BY <1>4, <1>7, <1>14, <2>1, <3>4
    <3> QED BY <3>1, <3>2, <3>3, <3>4
  <2> HIDE DEF f2
  <2> QED BY <1>15, <2>1 DEF Distinct
<1>17. Elems(f2) = T
  <2>1. ASSUME NEW i \in Elems(u) PROVE i \in Elems(f2)
    <3>1. PICK k \in 1..n : u[k] = i
      BY <1>7
    <3>2. /\ (n + 1) - k \in 1..(n + m) /\ (n + 1) - k <= n
          /\ (n + 1) - ((n + 1) - k) = k
      OBVIOUS
    <3>3. f2[(n + 1) - k] = i
      BY <3>1, <3>2
    <3> HIDE DEF f2
    <3> QED BY <1>15, <3>2, <3>3 DEF Elems
  <2>2. ASSUME NEW i \in Elems(f) PROVE i \in Elems(f2)
    <3>1. PICK k \in 1..m : f[k] = i
      BY <1>7
    <3>2. k + n \in 1..(n + m) /\ ~(k + n <= n) /\ (k + n) - n = k
      OBVIOUS
    <3>3. f2[k + n] = i
      BY <3>1, <3>2
    <3> HIDE DEF f2
    <3> QED BY <1>15, <3>2, <3>3 DEF Elems
  <2> HIDE DEF f2
  <2>3. Elems(f2) \subseteq T
    BY <1>15, LenProperties DEF Elems
  <2> QED BY <1>4, <2>1, <2>2, <2>3
<1> HIDE DEF nx, pv, rv, vl
<1>18. IsPath(nx, free, f2)
  <2>1. b.free = (IF m = 0 THEN None ELSE f[1])
        /\ \A k \in 1..m : b.next[f[k]] = IF k = m THEN None ELSE f[k + 1]
    BY <1>4, <1>6 DEF IsPath
  <2>2. ASSUME NEW k \in 1..(n + m)
        PROVE  nx[f2[k]] = IF k = n + m THEN None ELSE f2[k + 1]
    <3>1. CASE k <= n
      <4>1. f2[k] = u[(n + 1) - k] /\ (n + 1) - k \in 1..n
        BY <1>14, <3>1
      <4>2. nx[f2[k]] = IF (n + 1) - k = 1 THEN b.free ELSE u[((n + 1) - k) - 1]
        BY <1>11, <4>1
      <4>3. CASE k = n
        <5>1. (n + 1) - k = 1 /\ (k = n + m <=> m = 0)
          BY <4>3
        <5>2. m # 0 => /\ k + 1 \in 1..(n + m) /\ ~(k + 1 <= n)
                       /\ (k + 1) - n = 1
          BY <4>3
        <5>3. m # 0 => f2[k + 1] = f[1]
          BY <5>2
        <5> QED BY <2>1, <4>2, <5>1, <5>3
      <4>4. CASE k # n
        <5>1. /\ (n + 1) - k # 1 /\ k # n + m /\ k + 1 \in 1..(n + m)
              /\ k + 1 <= n /\ ((n + 1) - k) - 1 = (n + 1) - (k + 1)
          BY <3>1, <4>4
        <5>2. f2[k + 1] = u[(n + 1) - (k + 1)]
          BY <5>1
        <5> QED BY <4>2, <5>1, <5>2
      <4> QED BY <4>3, <4>4
    <3>2. CASE ~(k <= n)
      <4>1. f2[k] = f[k - n] /\ k - n \in 1..m
        BY <1>14, <3>2
      <4>2. nx[f2[k]] = IF k - n = m THEN None ELSE f[(k - n) + 1]
        BY <1>11, <2>1, <4>1
      <4>3. /\ k - n = m <=> k = n + m
            /\ k # n + m => /\ k + 1 \in 1..(n + m) /\ ~(k + 1 <= n)
                            /\ (k + 1) - n = (k - n) + 1
        BY <3>2
      <4>4. k # n + m => f2[k + 1] = f[(k - n) + 1]
        BY <4>3
      <4> QED BY <4>2, <4>3, <4>4
    <3> QED BY <3>1, <3>2
  <2>3. free = IF n + m = 0 THEN None ELSE f2[1]
    <3>1. CASE n = 0
      <4>1. m # 0 => 1 \in 1..(n + m) /\ ~(1 <= n) /\ 1 - n = 1
        BY <3>1
      <4>2. m # 0 => f2[1] = f[1]
        BY <4>1
      <4> QED BY <2>1, <3>1, <4>2
    <3>2. CASE n # 0
      <4>1. 1 \in 1..(n + m) /\ 1 <= n /\ (n + 1) - 1 = n /\ n + m # 0
        BY <3>2
      <4>2. f2[1] = u[n]
        BY <4>1
      <4> QED BY <3>2, <4>1, <4>2
    <3> QED BY <3>1, <3>2
  <2> HIDE DEF f2, free
  <2> QED BY <1>15, <2>2, <2>3 DEF IsPath
<1>19. free \in T \cup {None}
  <2>1. n # 0 => n \in 1..n
    OBVIOUS
  <2> QED BY <1>3, <1>7, <2>1
<1> HIDE DEF f2, free
<1>20. /\ d.next = nx /\ d.prev = pv /\ d.rev = rv /\ d.val = vl
       /\ d.free = free /\ d.first = None /\ d.last = None
       /\ d.used = 0 /\ IsRecord(d)
  BY DEF IsRecord
<1> HIDE DEF d
<1>21. SlotsOf(d) = T /\ T = 1..Len(d.val) /\ Len(d.val) \in Nat
  BY <1>3, <1>13, <1>20 DEF SlotsOf
<1>22. IsSlots(d, Values)
  <2>1. d.used \in 0..Len(d.val)
    BY <1>20, <1>21
  <2>2. {d.free, d.first, d.last} \subseteq T \cup {None}
    BY <1>19, <1>20
  <2> QED BY <1>11, <1>12, <1>13, <1>20, <1>21, <2>1, <2>2 DEF IsSlots
<1>23. Rows(d, <<>>, f2)
  <2>1. Len(<<>>) = 0 /\ 1..0 = {}
    OBVIOUS
  <2>2. <<>> \in Seq(T) /\ Distinct(<<>>) /\ Elems(<<>>) = {}
    BY <2>1 DEF Distinct, Elems
  <2>3. IsLinked(d.next, d.prev, d.first, d.last, <<>>)
    BY <1>20, <2>1 DEF IsLinked, IsPath
  <2>4. Len(f2) = Len(d.val) - d.used
    <3>1. n + m = Len(b.val) /\ Len(b.val) - 0 = Len(b.val)
      BY <1>3, <1>4, <1>5, <1>6
    <3> QED BY <1>13, <1>15, <1>20, <3>1
  <2>5. \A j \in T : d.val[j] = NoValue <=> j \in Elems(f2)
    BY <1>12, <1>17, <1>20
  <2> QED BY <1>15, <1>16, <1>17, <1>18, <1>20, <1>21,
             <2>1, <2>2, <2>3, <2>4, <2>5 DEF Rows
<1>24. UsedChain(d) = <<>>
  BY <1>22, <1>23, ChainsOfRows
<1> QED BY <1>2, <1>8, <1>12, <1>13, <1>20, <1>22, <1>23, <1>24 DEF Sound

-----------------------------------------------------------------------------
(***************************************************************************)
(* The inductive invariant.  HandlesFindTheirs alone is not inductive: it  *)
(* says nothing of a handle whose value is gone, and a removal that is     *)
(* under way has to find its slot still used when the destructor returns.  *)
(* Known says of every handle, valid or not, what its slot can hold.       *)
(***************************************************************************)
Known(h) ==
  /\ h.index \in SlotsOf(a)
  /\ a.rev[h.index] = h.revision =>
       a.val[h.index] = h.id /\ ~BeingRemoved(h.index)
  /\ \A i \in SlotsOf(a) :
       a.val[i] = h.id /\ ~BeingRemoved(i) =>
         i = h.index /\ a.rev[i] = h.revision

HandlesKnown == \A h \in handles : Known(h)

RemovedAreUsed ==
  /\ removing \in Seq(SlotsOf(a)) /\ Distinct(removing)
  /\ \A k \in 1..Len(removing) : a.val[removing[k]] # NoValue

SlotInv ==
  /\ Sound(a) /\ handles \in SUBSET Handle
  /\ RemovedAreUsed /\ HandlesKnown

LEMMA SlotInvTypes ==
  ASSUME SlotInv
  PROVE  /\ Len(a.val) \in Nat /\ SlotsOf(a) = 1..Len(a.val)
         /\ a.val \in [SlotsOf(a) -> Values \cup {NoValue}]
         /\ a.rev \in [SlotsOf(a) -> 1..Mask]
         /\ removing \in Seq(SlotsOf(a)) /\ Len(removing) \in Nat
         /\ \A k \in 1..Len(removing) : removing[k] \in SlotsOf(a)
         /\ \A h \in handles : /\ h.id \in Values /\ h.id # NoValue
                               /\ h.revision \in 1..Mask /\ h.revision # 0
<1>1. IsSlots(a, Values) /\ removing \in Seq(SlotsOf(a)) /\ handles \subseteq Handle
  BY DEF SlotInv, Sound, RemovedAreUsed
<1>2. \A h \in handles : /\ h.id \in Values /\ h.id # NoValue
                         /\ h.revision \in 1..Mask /\ h.revision # 0
  BY <1>1, SlotArrayAssumption DEF Handle
<1>3. Len(removing) \in Nat
      /\ \A k \in 1..Len(removing) : removing[k] \in SlotsOf(a)
  BY <1>1, LenProperties
<1> QED BY <1>1, <1>2, <1>3, SlotsTyped DEF SlotsOf

(* A handle is valid when its revision is the slot's. *)
LEMMA ValidIsUsed ==
  ASSUME SlotInv, NEW h \in handles
  PROVE  /\ Valid(h) <=> a.rev[h.index] = h.revision
         /\ Valid(h) => /\ h.index \in SlotsOf(a) /\ a.val[h.index] # NoValue
                        /\ a.val[h.index] = h.id /\ ~BeingRemoved(h.index)
<1>1. Known(h)
  BY DEF SlotInv, HandlesKnown
<1> QED BY <1>1, SlotInvTypes DEF Known, Valid, IsValidIndex

LEMMA SlotInvInit == Init => SlotInv
<1> SUFFICES ASSUME Init PROVE SlotInv
  OBVIOUS
<1>1. Sound(a)
  BY EmptySound DEF Init
<1>2. handles = {} /\ removing = <<>>
  BY DEF Init
<1> QED BY <1>1, <1>2 DEF SlotInv, RemovedAreUsed, HandlesKnown, Distinct

(***************************************************************************)
(* What the actions do to the values and the revisions.                    *)
(***************************************************************************)
LEMMA TakeStep ==
  ASSUME SlotInv, ~Careless, NEW v \in Values, New(v), Take(v), removing' = removing,
         NEW g, g = Grown(a, 1), NEW i, i = g.free, g.val[i] = NoValue, Sound(a'),
         a'.val = [g.val EXCEPT ![i] = v],
         a'.rev = [g.rev EXCEPT ![i] = NextRevision(@)]
  PROVE  SlotInv'
<1>1. /\ Sound(g) /\ i \in SlotsOf(g) /\ SlotsOf(a) \subseteq SlotsOf(g)
      /\ \A j \in SlotsOf(a) : g.val[j] = a.val[j] /\ g.rev[j] = a.rev[j]
      /\ \A j \in SlotsOf(g) \ SlotsOf(a) : g.val[j] = NoValue
  BY GrownSound DEF SlotInv
<1>2. /\ Len(g.val) \in Nat /\ SlotsOf(g) = 1..Len(g.val)
      /\ g.val \in [SlotsOf(g) -> Values \cup {NoValue}]
      /\ g.rev \in [SlotsOf(g) -> 1..Mask]
  BY <1>1, SlotsTyped DEF Sound, SlotsOf
<1>3. /\ SlotsOf(a)' = SlotsOf(g)
      /\ \A j \in SlotsOf(g) :
           /\ a'.val[j] = IF j = i THEN v ELSE g.val[j]
           /\ a'.rev[j] = IF j = i THEN NextRevision(g.rev[i]) ELSE g.rev[j]
  <2>1. /\ a'.val \in [SlotsOf(g) -> Values \cup {NoValue}]
        /\ \A j \in SlotsOf(g) : a'.val[j] = IF j = i THEN v ELSE g.val[j]
    <3>1. PICK w : w = g.val
      OBVIOUS
    <3>2. /\ w \in [SlotsOf(g) -> Values \cup {NoValue}]
          /\ a'.val = [w EXCEPT ![i] = v]
      BY <1>2, <3>1
    <3> QED BY ONLY <3>1, <3>2, v \in Values
  <2>2. Len(a'.val) = Len(g.val)
    BY <1>2, <2>1, FunIsSeq
  <2> QED BY <1>1, <1>2, <2>1, <2>2 DEF SlotsOf
<1> DEFINE new == [id |-> v, index |-> i, revision |-> NextRevision(g.rev[i])]
<1>4. /\ handles' = handles \cup {new}
      /\ \A h \in handles : ~(h.index = i /\ h.revision = NextRevision(g.rev[i]))
  BY DEF Take, Outlived
<1>5. NextRevision(g.rev[i]) \in 1..Mask
  BY <1>1, <1>2, NextRevisionTyped
<1>6. new \in Handle
  <2>1. i \in Nat \ {0}
    BY <1>1, <1>2
  <2> QED BY <1>5, <2>1 DEF Handle
<1>7. /\ \A j \in SlotsOf(a) : a.val[j] # v
      /\ \A h \in handles : h.id # v
  BY DEF New, SlotsOf
<1>8. v # NoValue
  BY SlotArrayAssumption
<1>9. RemovedAreUsed /\ HandlesKnown
  BY DEF SlotInv
<1>10. /\ \A k \in 1..Len(removing) : removing[k] \in SlotsOf(a) /\ removing[k] # i
       /\ ~BeingRemoved(i) /\ \A j : BeingRemoved(j)' <=> BeingRemoved(j)
  BY SMTT(30), <1>1, <1>9, SlotInvTypes DEF RemovedAreUsed, BeingRemoved
<1>11. RemovedAreUsed'
  <2>1. removing \in Seq(SlotsOf(a)')
    <3>1. removing \in [1..Len(removing) -> SlotsOf(a)'] /\ Len(removing) \in Nat
      BY <1>1, <1>3, SlotInvTypes, LenProperties
    <3> QED BY <3>1, FunIsSeq
  <2>2. \A k \in 1..Len(removing) : a'.val[removing[k]] # NoValue
    BY <1>1, <1>3, <1>9, <1>10 DEF RemovedAreUsed
  <2> QED BY <1>9, <2>1, <2>2 DEF RemovedAreUsed
<1>12. ASSUME NEW h \in handles' PROVE Known(h)'
  <2>1. CASE h = new
    <3>1. h.id = v /\ h.index = i /\ h.revision = NextRevision(g.rev[i])
      BY <2>1
    <3>2. \A j \in SlotsOf(g) : a'.val[j] = v => j = i
      BY <1>1, <1>3, <1>7, <1>8
    <3> QED BY <1>1, <1>3, <1>10, <3>1, <3>2 DEF Known
  <2>2. CASE h \in handles
    <3>1. Known(h) /\ h.id # NoValue
      BY <1>9, <2>2, SlotInvTypes DEF HandlesKnown
    <3>2. h.index \in SlotsOf(g)
      BY <1>1, <3>1 DEF Known
    <3>3. ASSUME a'.rev[h.index] = h.revision
          PROVE  a'.val[h.index] = h.id /\ ~BeingRemoved(h.index)
      <4>1. h.index # i
        BY <1>3, <1>4, <2>2, <3>2, <3>3
      <4> QED BY <1>1, <1>3, <3>1, <3>2, <3>3, <4>1 DEF Known
    <3>4. ASSUME NEW j \in SlotsOf(g), a'.val[j] = h.id, ~BeingRemoved(j)
          PROVE  j = h.index /\ a'.rev[j] = h.revision
      <4>1. j # i
        BY <1>3, <1>7, <2>2, <3>4
      <4>2. j \in SlotsOf(a) /\ a.val[j] = h.id
        BY <1>1, <1>3, <3>1, <3>4, <4>1
      <4> QED BY <1>1, <1>3, <3>1, <3>4, <4>1, <4>2 DEF Known
    <3> QED BY <1>3, <1>10, <3>2, <3>3, <3>4 DEF Known
  <2> QED BY <1>4, <2>1, <2>2
<1>13. HandlesKnown'
  BY <1>12 DEF HandlesKnown
<1>14. (handles \in SUBSET Handle)'
  BY <1>4, <1>6 DEF SlotInv
<1> QED BY <1>11, <1>13, <1>14 DEF SlotInv

LEMMA MoveStep ==
  ASSUME SlotInv, Sound(a'), a'.val = a.val, a'.rev = a.rev,
         UNCHANGED <<handles, removing>>
  PROVE  SlotInv'
BY DEF SlotInv, RemovedAreUsed, HandlesKnown, Known, BeingRemoved, SlotsOf

LEMMA DestructStep ==
  ASSUME SlotInv, ~Careless, NEW i \in SlotsOf(a), a.val[i] # NoValue,
         ~BeingRemoved(i), Destruct(i)
  PROVE  SlotInv' /\ \A j : BeingRemoved(j)' <=> BeingRemoved(j) \/ j = i
<1>1. /\ Sound(a') /\ a'.val = a.val
      /\ a'.rev = [a.rev EXCEPT ![i] = NextRevision(@)]
  BY InvalidatedSound DEF SlotInv, Destruct
<1>2. /\ removing' = Append(removing, i) /\ handles' = handles
      /\ \A h \in handles : ~(h.index = i /\ h.revision = NextRevision(a.rev[i]))
  BY DEF Destruct, Outlived
<1>3. RemovedAreUsed /\ HandlesKnown
  BY DEF SlotInv
<1>4. SlotsOf(a)' = SlotsOf(a)
  BY <1>1 DEF SlotsOf
<1>5. \A j \in SlotsOf(a) :
        a'.rev[j] = IF j = i THEN NextRevision(a.rev[i]) ELSE a.rev[j]
  BY <1>1, SlotInvTypes
<1>6. /\ removing' \in Seq(SlotsOf(a)) /\ Len(removing') = Len(removing) + 1
      /\ \A k \in 1..Len(removing') :
           removing'[k] = IF k = Len(removing) + 1 THEN i ELSE removing[k]
  BY <1>2, SlotInvTypes, AppendProperties
<1>7. \A k \in 1..Len(removing) : removing[k] # i
  BY DEF BeingRemoved
<1>8. \A j : BeingRemoved(j)' <=> BeingRemoved(j) \/ j = i
  <2> TAKE j
  <2>1. \A k \in 1..Len(removing) :
          k \in 1..Len(removing') /\ k # Len(removing) + 1
    BY SMTT(30), <1>6, SlotInvTypes
  <2>2. Len(removing) + 1 \in 1..Len(removing')
    BY <1>6, SlotInvTypes
  <2>3. \A k \in 1..Len(removing') :
          k # Len(removing) + 1 => k \in 1..Len(removing)
    BY <1>6, SlotInvTypes
  <2> QED BY <1>6, <2>1, <2>2, <2>3 DEF BeingRemoved
<1>9. RemovedAreUsed'
  <2>1. \A k \in 1..Len(removing') :
          k # Len(removing) + 1 => k \in 1..Len(removing)
    BY <1>6, SlotInvTypes
  <2>2. Distinct(removing')
    BY <1>3, <1>6, <1>7, <2>1 DEF RemovedAreUsed, Distinct
  <2>3. \A k \in 1..Len(removing') : a'.val[removing'[k]] # NoValue
    BY <1>1, <1>3, <1>6, <2>1 DEF RemovedAreUsed
  <2> QED BY <1>4, <1>6, <2>2, <2>3 DEF RemovedAreUsed
<1>10. HandlesKnown'
  <2> SUFFICES ASSUME NEW h \in handles PROVE Known(h)'
    BY <1>2 DEF HandlesKnown
  <2>1. Known(h)
    BY <1>3 DEF HandlesKnown
  <2> QED BY <1>1, <1>2, <1>4, <1>5, <1>8, <2>1 DEF Known
<1> QED BY <1>1, <1>2, <1>8, <1>9, <1>10 DEF SlotInv

LEMMA EndRemoveStep ==
  ASSUME SlotInv, EndRemove
  PROVE  /\ SlotInv'
         /\ \A j : BeingRemoved(j)' <=>
                    BeingRemoved(j) /\ j # removing[Len(removing)]
<1> DEFINE n == Len(removing)
<1>1. /\ removing # <<>> /\ a' = Unlinked(a, removing[n])
      /\ removing' = SubSeq(removing, 1, n - 1) /\ handles' = handles
  BY DEF EndRemove
<1>2. RemovedAreUsed /\ HandlesKnown
  BY DEF SlotInv
<1>3. n \in 1..Len(removing) /\ n \in Nat /\ n - 1 \in 0..n
  BY <1>1, SlotInvTypes, EmptySeq
<1>4. PICK i \in SlotsOf(a) : i = removing[n]
  BY <1>3, SlotInvTypes
<1>5. /\ Sound(a') /\ a'.rev = a.rev /\ a'.val = [a.val EXCEPT ![i] = NoValue]
  <2>1. a.val[i] # NoValue
    BY <1>2, <1>3, <1>4 DEF RemovedAreUsed
  <2> QED BY <1>1, <1>4, <2>1, UnlinkedSound DEF SlotInv
<1>6. /\ removing' \in Seq(SlotsOf(a)) /\ Len(removing') = n - 1
      /\ \A k \in 1..(n - 1) : removing'[k] = removing[k]
  <2>1. PICK m \in Int : m = n - 1
    BY <1>3
  <2>2. \A k \in 1..m : removing[k] \in SlotsOf(a)
    BY SMTT(30), <1>3, <2>1, SlotInvTypes
  <2>3. /\ SubSeq(removing, 1, m) \in Seq(SlotsOf(a))
        /\ Len(SubSeq(removing, 1, m)) = (IF 1 <= m THEN m - 1 + 1 ELSE 0)
        /\ \A k \in 1..(m - 1 + 1) : SubSeq(removing, 1, m)[k] = removing[1 + k - 1]
    BY <2>2, SubSeqProperties
  <2>4. m \in Nat /\ m - 1 + 1 = m /\ \A k \in 1..m : 1 + k - 1 = k
    BY <1>3, <2>1
  <2> QED BY <1>1, <2>1, <2>3, <2>4
<1>7. \A k \in 1..(n - 1) : k \in 1..Len(removing) /\ k # n
  BY <1>3
<1>8. /\ SlotsOf(a)' = SlotsOf(a)
      /\ \A j \in SlotsOf(a) : a'.val[j] = IF j = i THEN NoValue ELSE a.val[j]
  <2>1. /\ a'.val \in [SlotsOf(a) -> Values \cup {NoValue}]
        /\ \A j \in SlotsOf(a) : a'.val[j] = IF j = i THEN NoValue ELSE a.val[j]
    BY <1>5, SlotInvTypes
  <2>2. Len(a'.val) = Len(a.val)
    BY <2>1, SlotInvTypes, FunIsSeq
  <2> QED BY <2>1, <2>2 DEF SlotsOf
<1>9. \A k \in 1..(n - 1) : removing[k] # i
  BY <1>2, <1>3, <1>4, <1>7 DEF RemovedAreUsed, Distinct
<1>10. \A j : BeingRemoved(j)' <=> BeingRemoved(j) /\ j # i
  <2> TAKE j
  <2>1. \A k \in 1..Len(removing) : k = n \/ k \in 1..(n - 1)
    BY <1>3
  <2>2. BeingRemoved(j)' <=> \E k \in 1..(n - 1) : removing[k] = j
    BY <1>6 DEF BeingRemoved
  <2> QED BY <1>4, <1>7, <1>9, <2>1, <2>2 DEF BeingRemoved
<1>11. RemovedAreUsed'
  <2>1. Distinct(removing')
    BY <1>2, <1>6, <1>7 DEF RemovedAreUsed, Distinct
  <2>2. \A k \in 1..Len(removing') : a'.val[removing'[k]] # NoValue
    BY <1>2, <1>6, <1>7, <1>8, <1>9, SlotInvTypes DEF RemovedAreUsed
  <2> QED BY <1>6, <1>8, <2>1, <2>2 DEF RemovedAreUsed
<1>12. HandlesKnown'
  <2> SUFFICES ASSUME NEW h \in handles PROVE Known(h)'
    BY <1>1 DEF HandlesKnown
  <2>1. Known(h) /\ h.id # NoValue
    BY <1>2, SlotInvTypes DEF HandlesKnown
  <2>2. BeingRemoved(i)
    BY <1>3, <1>4 DEF BeingRemoved
  <2> QED BY <1>5, <1>8, <1>10, <2>1, <2>2 DEF Known
<1> QED BY <1>1, <1>4, <1>5, <1>10, <1>11, <1>12 DEF SlotInv

LEMMA ClearStep ==
  ASSUME SlotInv, ~Careless, Clear
  PROVE  SlotInv'
<1>1. /\ removing = <<>> /\ removing' = removing /\ handles' = handles
      /\ a' = Cleared(a)
      /\ \A i \in SlotsOf(a) : a.val[i] # NoValue =>
           \A h \in handles : ~(h.index = i /\ h.revision = NextRevision(a.rev[i]))
  BY DEF Clear, Outlived, SlotsOf
<1>2. /\ Sound(a') /\ SlotsOf(a)' = SlotsOf(a)
      /\ \A i \in SlotsOf(a) :
           /\ a'.val[i] = NoValue
           /\ a'.rev[i] = IF a.val[i] = NoValue THEN a.rev[i]
                          ELSE NextRevision(a.rev[i])
  BY <1>1, ClearedSound DEF SlotInv, SlotsOf
<1>3. RemovedAreUsed'
  BY <1>1 DEF RemovedAreUsed, Distinct
<1>4. HandlesKnown'
  <2> SUFFICES ASSUME NEW h \in handles PROVE Known(h)'
    BY <1>1 DEF HandlesKnown
  <2>1. Known(h) /\ h.id # NoValue
    BY SlotInvTypes DEF SlotInv, HandlesKnown
  <2> QED BY <1>1, <1>2, <2>1 DEF Known
<1> QED BY <1>1, <1>2, <1>3, <1>4 DEF SlotInv

(* The ends of the list of used slots are used. *)
LEMMA EndIsUsed ==
  ASSUME NEW b, Sound(b), NEW i \in {b.first, b.last}, i # None
  PROVE  i \in SlotsOf(b) /\ b.val[i] # NoValue
<1>1. PICK u, f : Rows(b, u, f)
  BY DEF Sound
<1>2. /\ u \in Seq(SlotsOf(b)) /\ Elems(u) \cap Elems(f) = {}
      /\ \A j \in SlotsOf(b) : b.val[j] = NoValue <=> j \in Elems(f)
      /\ b.first = IF Len(u) = 0 THEN None ELSE u[1]
      /\ b.last = IF Len(u) = 0 THEN None ELSE u[Len(u)]
  BY <1>1 DEF Rows, IsLinked, IsPath
<1>3. Len(u) # 0 => 1 \in 1..Len(u) /\ Len(u) \in 1..Len(u)
  BY <1>2, LenProperties
<1>4. PICK k \in 1..Len(u) : u[k] = i
  BY <1>2, <1>3
<1>5. i \in Elems(u) /\ i \in SlotsOf(b)
  BY <1>2, <1>4, LenProperties DEF Elems
<1> QED BY <1>2, <1>5

LEMMA SlotInvStep ==
  ASSUME SlotInv, ~Careless, [Next]_vars
  PROVE  SlotInv'
<1>0. Sound(a)
  BY DEF SlotInv
<1>1. ASSUME NEW v \in Values, Add(v) PROVE SlotInv'
  <2>1. /\ Sound(a') /\ Grown(a, 1).val[Grown(a, 1).free] = NoValue
        /\ a'.val = [Grown(a, 1).val EXCEPT ![Grown(a, 1).free] = v]
        /\ a'.rev = [Grown(a, 1).rev EXCEPT ![Grown(a, 1).free] = NextRevision(@)]
    BY <1>0, <1>1, AddedSound DEF Add, Gains
  <2> QED BY <1>1, <2>1, TakeStep DEF Add
<1>2. ASSUME NEW h \in handles, NEW v \in Values, Insert(h, v) PROVE SlotInv'
  <2>1. h.index \in SlotsOf(a) /\ a.val[h.index] # NoValue
    BY <1>2, ValidIsUsed DEF Insert
  <2>2. /\ Sound(a') /\ Grown(a, 1).val[Grown(a, 1).free] = NoValue
        /\ a'.val = [Grown(a, 1).val EXCEPT ![Grown(a, 1).free] = v]
        /\ a'.rev = [Grown(a, 1).rev EXCEPT ![Grown(a, 1).free] = NextRevision(@)]
    <3>1. Gains(a, a', v)
      BY <1>0, <1>2, <2>1, InsertedSound DEF Insert
    <3> QED BY <3>1 DEF Gains
  <2> QED BY <1>2, <2>2, TakeStep DEF Insert
<1>3. ASSUME NEW h \in handles, MoveToFront(h) PROVE SlotInv'
  <2>1. h.index \in SlotsOf(a) /\ a.val[h.index] # NoValue
    BY <1>3, ValidIsUsed DEF MoveToFront
  <2> QED BY <1>0, <1>3, <2>1, MovedToFrontSound, MoveStep DEF MoveToFront
<1>4. ASSUME NEW h \in handles, MoveToBack(h) PROVE SlotInv'
  <2>1. h.index \in SlotsOf(a) /\ a.val[h.index] # NoValue
    BY <1>4, ValidIsUsed DEF MoveToBack
  <2> QED BY <1>0, <1>4, <2>1, MovedToBackSound, MoveStep DEF MoveToBack
<1>5. ASSUME NEW h \in handles, RemoveAt(h) PROVE SlotInv'
  BY <1>5, ValidIsUsed, DestructStep DEF RemoveAt
<1>6. ASSUME NEW h \in handles, Drop(h) PROVE SlotInv'
  <2>1. handles' \subseteq handles /\ a' = a /\ removing' = removing
    BY <1>6 DEF Drop
  <2> QED BY <2>1 DEF SlotInv, RemovedAreUsed, HandlesKnown, Known,
                     BeingRemoved, SlotsOf
<1>7. ASSUME NEW i \in {a.first, a.last}, RemoveEnd(i) PROVE SlotInv'
  BY <1>0, <1>7, EndIsUsed, DestructStep DEF RemoveEnd
<1>8. CASE EndRemove
  BY <1>8, EndRemoveStep
<1>9. CASE Clear
  BY <1>9, ClearStep
<1>10. CASE UNCHANGED vars
  BY <1>10 DEF vars, SlotInv, RemovedAreUsed, HandlesKnown, Known,
               BeingRemoved, SlotsOf
<1> QED BY <1>1, <1>2, <1>3, <1>4, <1>5, <1>6, <1>7, <1>8, <1>9, <1>10 DEF Next

LEMMA SlotInvAlways ==
  ASSUME ~Careless
  PROVE  Spec => []SlotInv
<1>1. Init => SlotInv
  BY SlotInvInit
<1>2. SlotInv /\ [Next]_vars => SlotInv'
  BY SlotInvStep
<1> QED BY <1>1, <1>2, PTL DEF Spec

(***************************************************************************)
(* Every field of the array and every handle has its type, whatever the    *)
(* destructors of the values do with the array meanwhile.                  *)
(***************************************************************************)
THEOREM SlotTypes ==
  ASSUME ~Careless
  PROVE  Spec => []SlotArrayTypeOK
<1>1. SlotInv => SlotArrayTypeOK
  BY DEF SlotInv, Sound, RemovedAreUsed, SlotArrayTypeOK, SlotsOf
<1> QED BY <1>1, SlotInvAlways, PTL

(***************************************************************************)
(* is_consistent() succeeds after every step of every operation: the used  *)
(* and the free list partition the slots, are linked in both directions    *)
(* and have the counted lengths.                                           *)
(***************************************************************************)
THEOREM ListsAlwaysConsistent ==
  ASSUME ~Careless
  PROVE  Spec => []ListsConsistent
<1>1. SlotInv => ListsConsistent
  BY SoundConsistent DEF SlotInv, ListsConsistent
<1> QED BY <1>1, SlotInvAlways, PTL

(***************************************************************************)
(* A handle is valid exactly as long as its value is in the array and not  *)
(* being destructed, and finds that value, for every revision mask and any *)
(* number of uses of the slot that a handle does not outlive.              *)
(***************************************************************************)
THEOREM HandlesAlwaysFindTheirs ==
  ASSUME ~Careless
  PROVE  Spec => []HandlesFindTheirs
<1>1. SlotInv => HandlesFindTheirs
  <2> SUFFICES ASSUME SlotInv, NEW h \in handles
               PROVE  /\ Valid(h) => a.val[h.index] = h.id
                      /\ Valid(h) <=> \E i \in 1..Len(a.val) :
                                        a.val[i] = h.id /\ ~BeingRemoved(i)
    BY DEF HandlesFindTheirs
  <2>1. Known(h) /\ SlotsOf(a) = 1..Len(a.val)
    BY DEF SlotInv, HandlesKnown, SlotsOf
  <2> QED BY <2>1, ValidIsUsed DEF Known
<1> QED BY <1>1, SlotInvAlways, PTL

(***************************************************************************)
(* The assertion of is_valid_index that the slot of a valid index has a    *)
(* value: only a handle that outlives its revision can make it fail.       *)
(***************************************************************************)
THEOREM ValidAlwaysHasValue ==
  ASSUME ~Careless
  PROVE  Spec => []ValidHasValue
<1>1. SlotInv => ValidHasValue
  BY ValidIsUsed DEF ValidHasValue
<1> QED BY <1>1, SlotInvAlways, PTL

-----------------------------------------------------------------------------
(***************************************************************************)
(* The order of the elements of a sequence.  A sequence without repetition *)
(* is known by its elements and their order.                               *)
(***************************************************************************)
Ranks(s, x, y) == \E j, k \in 1..Len(s) : j < k /\ s[j] = x /\ s[k] = y

SameOrder(s, t) ==
  Elems(s) = Elems(t) /\ \A x, y : Ranks(s, x, y) <=> Ranks(t, x, y)

LEMMA SameOrderAgrees ==
  ASSUME NEW T, NEW s \in Seq(T), NEW t \in Seq(T),
         Distinct(s), Distinct(t), SameOrder(s, t)
  PROVE  \A k \in 1..Len(s) : k <= Len(t) /\ s[k] = t[k]
<1> DEFINE Off == {k \in 1..Len(s) : ~(k <= Len(t) /\ s[k] = t[k])}
<1> SUFFICES ASSUME Off # {} PROVE FALSE
  OBVIOUS
<1>1. Len(s) \in Nat /\ Len(t) \in Nat
  BY LenProperties
<1>2. Off \subseteq Nat
  BY <1>1
<1>3. PICK k \in Off : \A j \in Off : k <= j
  <2> HIDE DEF Off
  <2> QED BY <1>2, LeastOf
<1>4. k \in 1..Len(s) /\ ~(k <= Len(t) /\ s[k] = t[k])
  OBVIOUS
<1>5. \A j \in 1..Len(s) : j < k => j <= Len(t) /\ s[j] = t[j]
  <2> SUFFICES ASSUME NEW j \in 1..Len(s), j < k
               PROVE  j <= Len(t) /\ s[j] = t[j]
    OBVIOUS
  <2>1. j \notin Off
    BY <1>1, <1>3, <1>4
  <2> QED BY <2>1
<1> HIDE DEF Off
<1>6. PICK m \in 1..Len(t) : t[m] = s[k]
  BY <1>4 DEF SameOrder, Elems
<1>7. m > k
  <2>1. m < k => m \in 1..Len(s) /\ s[m] = s[k]
    BY <1>1, <1>4, <1>5, <1>6
  <2>2. ~(m < k)
    BY <1>1, <1>4, <2>1 DEF Distinct
  <2>3. m # k
    BY <1>1, <1>4, <1>6
  <2> QED BY <1>1, <1>4, <1>6, <2>2, <2>3
<1>8. k \in 1..Len(t) /\ t[k] # s[k]
  BY <1>1, <1>4, <1>6, <1>7
<1>9. PICK n \in 1..Len(s) : s[n] = t[k]
  BY <1>8 DEF SameOrder, Elems
<1>10. n > k
  <2>1. n < k => n \in 1..Len(t) /\ t[n] = t[k]
    BY <1>1, <1>4, <1>5, <1>9
  <2>2. ~(n < k)
    BY <1>1, <1>8, <2>1 DEF Distinct
  <2> QED BY <1>1, <1>4, <1>8, <1>9, <2>2
<1>11. Ranks(s, s[k], t[k])
  BY <1>4, <1>9, <1>10 DEF Ranks
<1>12. PICK i, j \in 1..Len(t) : i < j /\ t[i] = s[k] /\ t[j] = t[k]
  BY <1>11 DEF SameOrder, Ranks
<1>13. i = m /\ j = k
  BY <1>6, <1>8, <1>12 DEF Distinct
<1> QED BY <1>1, <1>4, <1>7, <1>12, <1>13

LEMMA SameSequence ==
  ASSUME NEW T, NEW s \in Seq(T), NEW t \in Seq(T),
         Distinct(s), Distinct(t), SameOrder(s, t)
  PROVE  s = t
<1>1. SameOrder(t, s)
  BY DEF SameOrder
<1>2. \A k \in 1..Len(s) : k <= Len(t) /\ s[k] = t[k]
  BY SameOrderAgrees
<1>3. \A k \in 1..Len(t) : k <= Len(s) /\ t[k] = s[k]
  BY ONLY <1>1, s \in Seq(T), t \in Seq(T), Distinct(s), Distinct(t),
          SameOrderAgrees
<1>4. Len(s) \in Nat /\ Len(t) \in Nat
  BY LenProperties
<1>5. Len(s) = Len(t)
  <2>1. Len(s) # 0 => Len(s) \in 1..Len(s)
    BY <1>4
  <2>2. Len(t) # 0 => Len(t) \in 1..Len(t)
    BY <1>4
  <2>3. Len(s) <= Len(t) /\ Len(t) <= Len(s)
    BY <1>2, <1>3, <1>4, <2>1, <2>2
  <2> QED BY <1>4, <2>3
<1>6. /\ s = [k \in 1..Len(s) |-> s[k]] /\ t = [k \in 1..Len(t) |-> t[k]]
  BY LenProperties
<1> QED BY <1>2, <1>5, <1>6

LEMMA CutRanks ==
  ASSUME NEW T, NEW s \in Seq(T), Distinct(s), NEW p \in 1..Len(s)
  PROVE  \A x, y : Ranks(Cut(s, p), x, y) <=>
                     Ranks(s, x, y) /\ x # s[p] /\ y # s[p]
<1> DEFINE c == Cut(s, p)
           n == Len(s)
           at(k) == IF k < p THEN k ELSE k + 1
<1>1. n \in Nat /\ p \in 1..n
  BY LenProperties
<1>2. Len(c) = n - 1 /\ \A k \in 1..(n - 1) : c[k] = s[at(k)]
  <2>1. Len(c) = n - 1
        /\ \A k \in 1..(n - 1) : c[k] = IF k < p THEN s[k] ELSE s[k + 1]
    BY CutSeq
  <2> QED BY <2>1
<1>3. \A k \in 1..(n - 1) : at(k) \in 1..n /\ at(k) # p
  BY <1>1
<1>4. \A j, k \in 1..(n - 1) : j < k <=> at(j) < at(k)
  BY <1>1
<1>5. \A k \in 1..n : k # p => \E j \in 1..(n - 1) : at(j) = k
  <2> SUFFICES ASSUME NEW k \in 1..n, k # p
               PROVE  \E j \in 1..(n - 1) : at(j) = k
    OBVIOUS
  <2>1. CASE k < p
    <3>1. k \in 1..(n - 1) /\ at(k) = k
      BY <1>1, <2>1
    <3> QED BY <3>1
  <2>2. CASE ~(k < p)
    <3>1. k - 1 \in 1..(n - 1) /\ at(k - 1) = k
      BY <1>1, <2>2
    <3> QED BY <3>1
  <2> QED BY <2>1, <2>2
<1> HIDE DEF at, c
<1>6. ASSUME NEW x, NEW y, Ranks(c, x, y)
      PROVE  Ranks(s, x, y) /\ x # s[p] /\ y # s[p]
  <2>1. PICK j, k \in 1..(n - 1) : j < k /\ c[j] = x /\ c[k] = y
    BY <1>2, <1>6 DEF Ranks
  <2>2. /\ at(j) \in 1..n /\ at(k) \in 1..n /\ at(j) < at(k)
        /\ s[at(j)] = x /\ s[at(k)] = y /\ at(j) # p /\ at(k) # p
    BY <1>2, <1>3, <1>4, <2>1
  <2>3. Ranks(s, x, y)
    BY <2>2 DEF Ranks
  <2> QED BY <1>1, <2>2, <2>3 DEF Distinct
<1>7. ASSUME NEW x, NEW y, Ranks(s, x, y), x # s[p], y # s[p]
      PROVE  Ranks(c, x, y)
  <2>1. PICK i, m \in 1..n : i < m /\ s[i] = x /\ s[m] = y
    BY <1>7 DEF Ranks
  <2>2. PICK j \in 1..(n - 1) : at(j) = i
    BY <1>5, <1>7, <2>1
  <2>3. PICK k \in 1..(n - 1) : at(k) = m
    BY <1>5, <1>7, <2>1
  <2>4. j < k /\ c[j] = x /\ c[k] = y
    BY <1>2, <1>4, <2>1, <2>2, <2>3
  <2> QED BY <1>2, <2>2, <2>3, <2>4 DEF Ranks
<1> QED BY <1>6, <1>7 DEF c

LEMMA AppendRanks ==
  ASSUME NEW T, NEW s \in Seq(T), Distinct(s), NEW v \in T, v \notin Elems(s)
  PROVE  /\ Append(s, v) \in Seq(T) /\ Distinct(Append(s, v))
         /\ Elems(Append(s, v)) = Elems(s) \cup {v}
         /\ \A x, y : Ranks(Append(s, v), x, y) <=>
                        Ranks(s, x, y) \/ (x \in Elems(s) /\ y = v)
<1> DEFINE t == Append(s, v)
           n == Len(s)
<1>1. n \in Nat /\ \A k \in 1..n : s[k] # v
  BY LenProperties DEF Elems
<1>2. /\ t \in Seq(T) /\ Len(t) = n + 1 /\ t[n + 1] = v
      /\ \A k \in 1..n : t[k] = s[k]
  BY AppendProperties
<1> HIDE DEF t
<1>3. \A k : k \in 1..(n + 1) <=> k \in 1..n \/ k = n + 1
  BY <1>1
<1>4. Distinct(t)
  BY <1>1, <1>2, <1>3 DEF Distinct
<1>5. Elems(t) = Elems(s) \cup {v}
  BY <1>2, <1>3 DEF Elems
<1>6. ASSUME NEW x, NEW y, Ranks(t, x, y)
      PROVE  Ranks(s, x, y) \/ (x \in Elems(s) /\ y = v)
  <2>1. PICK j, k \in 1..(n + 1) : j < k /\ t[j] = x /\ t[k] = y
    BY <1>2, <1>6 DEF Ranks
  <2>2. j \in 1..n /\ s[j] = x
    BY <1>1, <1>2, <2>1
  <2>3. CASE k = n + 1
    BY <1>2, <2>1, <2>2, <2>3 DEF Elems
  <2>4. CASE k # n + 1
    <3>1. k \in 1..n /\ s[k] = y
      BY <1>1, <1>2, <2>1, <2>4
    <3> QED BY <2>1, <2>2, <3>1 DEF Ranks
  <2> QED BY <2>3, <2>4
<1>7. ASSUME NEW x, NEW y, Ranks(s, x, y)
      PROVE  Ranks(t, x, y)
  <2>1. PICK j, k \in 1..n : j < k /\ s[j] = x /\ s[k] = y
    BY <1>7 DEF Ranks
  <2>2. j \in 1..(n + 1) /\ k \in 1..(n + 1)
    BY <1>3
  <2> QED BY <1>2, <2>1, <2>2 DEF Ranks
<1>8. ASSUME NEW x \in Elems(s) PROVE Ranks(t, x, v)
  <2>1. PICK j \in 1..n : s[j] = x
    BY DEF Elems
  <2>2. j \in 1..(n + 1) /\ n + 1 \in 1..(n + 1) /\ j < n + 1
    BY <1>1
  <2> QED BY <1>2, <2>1, <2>2 DEF Ranks
<1> QED BY <1>2, <1>4, <1>5, <1>6, <1>7, <1>8 DEF t

LEMMA SameEntries ==
  ASSUME NEW T, NEW s \in Seq(T), NEW t \in Seq(T), Len(s) = Len(t),
         \A k \in 1..Len(s) : s[k] = t[k]
  PROVE  s = t
<1>1. s = [k \in 1..Len(s) |-> s[k]] /\ t = [k \in 1..Len(t) |-> t[k]]
  BY LenProperties
<1> QED BY <1>1

(* A sequence without an element, and with it, in terms of SubSeq. *)
LEMMA PartsOf ==
  ASSUME NEW T, NEW s \in Seq(T), NEW m \in Nat, NEW n \in Nat, n <= Len(s)
  PROVE  /\ SubSeq(s, m + 1, n) \in Seq(T)
         /\ Len(SubSeq(s, m + 1, n)) = IF m < n THEN n - m ELSE 0
         /\ \A k \in 1..(n - m) : SubSeq(s, m + 1, n)[k] = s[m + k]
<1>1. m + 1 \in Int /\ n \in Int /\ Len(s) \in Nat
  BY LenProperties
<1>2. \A i \in (m + 1)..n : s[i] \in T
  <2>1. \A i \in (m + 1)..n : i \in 1..Len(s)
    BY <1>1
  <2> QED BY <2>1, LenProperties
<1>3. /\ SubSeq(s, m + 1, n) \in Seq(T)
      /\ Len(SubSeq(s, m + 1, n)) = IF m + 1 <= n THEN n - (m + 1) + 1 ELSE 0
      /\ \A i \in 1..(n - (m + 1) + 1) : SubSeq(s, m + 1, n)[i] = s[(m + 1) + i - 1]
  BY <1>1, <1>2, SubSeqProperties
<1>4. \A k \in 1..(n - m) : k \in 1..(n - (m + 1) + 1) /\ (m + 1) + k - 1 = m + k
  OBVIOUS
<1>5. (IF m + 1 <= n THEN n - (m + 1) + 1 ELSE 0) = IF m < n THEN n - m ELSE 0
  OBVIOUS
<1> QED BY <1>3, <1>4, <1>5

LEMMA CutIsParts ==
  ASSUME NEW T, NEW s \in Seq(T), Distinct(s), NEW p \in 1..Len(s)
  PROVE  Cut(s, p) = SubSeq(s, 1, p - 1) \o SubSeq(s, p + 1, Len(s))
<1> DEFINE n == Len(s)
           x == SubSeq(s, 1, p - 1)
           y == SubSeq(s, p + 1, n)
<1>1. n \in Nat /\ p \in Nat /\ p - 1 \in Nat /\ p - 1 <= n /\ p <= n /\ 0 + 1 = 1
  BY LenProperties
<1>2. /\ x \in Seq(T) /\ Len(x) = p - 1
      /\ \A k \in 1..(p - 1) : x[k] = s[k]
  <2>1. /\ SubSeq(s, 0 + 1, p - 1) \in Seq(T)
        /\ Len(SubSeq(s, 0 + 1, p - 1)) = IF 0 < p - 1 THEN (p - 1) - 0 ELSE 0
        /\ \A k \in 1..((p - 1) - 0) : SubSeq(s, 0 + 1, p - 1)[k] = s[0 + k]
    BY <1>1, PartsOf
  <2>2. (IF 0 < p - 1 THEN (p - 1) - 0 ELSE 0) = p - 1
        /\ \A k \in 1..(p - 1) : k \in 1..((p - 1) - 0) /\ 0 + k = k
    BY <1>1
  <2> QED BY <1>1, <2>1, <2>2
<1>3. /\ y \in Seq(T) /\ Len(y) = n - p
      /\ \A k \in 1..(n - p) : y[k] = s[p + k]
  <2>1. /\ SubSeq(s, p + 1, n) \in Seq(T)
        /\ Len(SubSeq(s, p + 1, n)) = IF p < n THEN n - p ELSE 0
        /\ \A k \in 1..(n - p) : SubSeq(s, p + 1, n)[k] = s[p + k]
    BY <1>1, PartsOf
  <2>2. (IF p < n THEN n - p ELSE 0) = n - p
    BY <1>1
  <2> QED BY <2>1, <2>2
<1> HIDE DEF x, y
<1>4. /\ x \o y \in Seq(T) /\ Len(x \o y) = n - 1
      /\ \A k \in 1..(n - 1) : (x \o y)[k] = IF k <= p - 1 THEN x[k] ELSE y[k - (p - 1)]
  <2>0. /\ x \o y \in Seq(T) /\ Len(x \o y) = Len(x) + Len(y)
        /\ \A k \in 1..(Len(x) + Len(y)) :
             (x \o y)[k] = IF k <= Len(x) THEN x[k] ELSE y[k - Len(x)]
    <3>1. x \in Seq(T) /\ y \in Seq(T)
      BY <1>2, <1>3
    <3> QED BY ONLY <3>1, ConcatProperties
  <2>1. /\ x \o y \in Seq(T) /\ Len(x \o y) = (p - 1) + (n - p)
        /\ \A k \in 1..((p - 1) + (n - p)) :
             (x \o y)[k] = IF k <= p - 1 THEN x[k] ELSE y[k - (p - 1)]
    BY <1>2, <1>3, <2>0
  <2>2. (p - 1) + (n - p) = n - 1
    BY <1>1
  <2> QED BY <2>1, <2>2
<1>5. \A k \in 1..(n - 1) : (x \o y)[k] = IF k < p THEN s[k] ELSE s[k + 1]
  <2> TAKE k \in 1..(n - 1)
  <2>1. CASE k < p
    BY <1>1, <1>2, <1>4, <2>1
  <2>2. CASE ~(k < p)
    <3>1. /\ ~(k <= p - 1) /\ k - (p - 1) \in 1..(n - p)
          /\ p + (k - (p - 1)) = k + 1
      BY <1>1, <2>2
    <3> QED BY <1>3, <1>4, <2>2, <3>1
  <2> QED BY <2>1, <2>2
<1>6. /\ Cut(s, p) \in Seq(T) /\ Len(Cut(s, p)) = n - 1
      /\ \A k \in 1..(n - 1) :
           Cut(s, p)[k] = IF k < p THEN s[k] ELSE s[k + 1]
  BY CutSeq
<1> QED BY <1>4, <1>5, <1>6, SameEntries DEF x, y

HasPut(s, c, p, v) ==
  /\ p \in 1..(Len(c) + 1)
  /\ s = (SubSeq(c, 1, p - 1) \o <<v>>) \o SubSeq(c, p, Len(c))

LEMMA PutIsParts ==
  ASSUME NEW T, NEW s \in Seq(T), Distinct(s), NEW p \in 1..Len(s),
         NEW c, c = Cut(s, p)
  PROVE  HasPut(s, c, p, s[p])
<1> DEFINE n == Len(s)
           x == SubSeq(c, 1, p - 1)
           e == <<s[p]>>
           y == SubSeq(c, p, n - 1)
<1>1. /\ n \in Nat /\ p \in Nat /\ p - 1 \in Nat /\ n - 1 \in Nat
      /\ p - 1 <= n - 1 /\ p <= n /\ 0 + 1 = 1 /\ (p - 1) + 1 = p
  BY LenProperties
<1>2. /\ c \in Seq(T) /\ Len(c) = n - 1
      /\ \A k \in 1..(n - 1) : c[k] = IF k < p THEN s[k] ELSE s[k + 1]
  BY CutSeq
<1>3. /\ x \in Seq(T) /\ Len(x) = p - 1
      /\ \A k \in 1..(p - 1) : x[k] = c[k]
  <2>1. /\ SubSeq(c, 0 + 1, p - 1) \in Seq(T)
        /\ Len(SubSeq(c, 0 + 1, p - 1)) = IF 0 < p - 1 THEN (p - 1) - 0 ELSE 0
        /\ \A k \in 1..((p - 1) - 0) : SubSeq(c, 0 + 1, p - 1)[k] = c[0 + k]
    BY <1>1, <1>2, PartsOf
  <2>2. (IF 0 < p - 1 THEN (p - 1) - 0 ELSE 0) = p - 1
        /\ \A k \in 1..(p - 1) : k \in 1..((p - 1) - 0) /\ 0 + k = k
    BY <1>1
  <2> QED BY <1>1, <2>1, <2>2
<1>4. /\ y \in Seq(T) /\ Len(y) = n - p
      /\ \A k \in 1..(n - p) : y[k] = c[(p - 1) + k]
  <2>1. /\ SubSeq(c, (p - 1) + 1, n - 1) \in Seq(T)
        /\ Len(SubSeq(c, (p - 1) + 1, n - 1)) =
             IF p - 1 < n - 1 THEN (n - 1) - (p - 1) ELSE 0
        /\ \A k \in 1..((n - 1) - (p - 1)) :
             SubSeq(c, (p - 1) + 1, n - 1)[k] = c[(p - 1) + k]
    BY <1>1, <1>2, PartsOf
  <2>2. (IF p - 1 < n - 1 THEN (n - 1) - (p - 1) ELSE 0) = n - p
        /\ (n - 1) - (p - 1) = n - p
    BY <1>1
  <2> QED BY <1>1, <2>1, <2>2
<1>5. e \in Seq(T) /\ Len(e) = 1 /\ e[1] = s[p]
  <2>1. s[p] \in T
    BY LenProperties
  <2> QED BY <2>1
<1>6. s[p] = e[1]
  BY <1>5
<1> HIDE DEF x, e, y
<1>7. /\ x \o e \in Seq(T) /\ Len(x \o e) = p
      /\ \A k \in 1..p : (x \o e)[k] = IF k <= p - 1 THEN x[k] ELSE e[k - (p - 1)]
  <2>0. /\ x \o e \in Seq(T) /\ Len(x \o e) = Len(x) + Len(e)
        /\ \A k \in 1..(Len(x) + Len(e)) :
             (x \o e)[k] = IF k <= Len(x) THEN x[k] ELSE e[k - Len(x)]
    <3>1. x \in Seq(T) /\ e \in Seq(T)
      BY <1>3, <1>5
    <3> QED BY ONLY <3>1, ConcatProperties
  <2>1. /\ x \o e \in Seq(T) /\ Len(x \o e) = (p - 1) + 1
        /\ \A k \in 1..((p - 1) + 1) :
             (x \o e)[k] = IF k <= p - 1 THEN x[k] ELSE e[k - (p - 1)]
    BY <1>3, <1>5, <2>0
  <2> QED BY <1>1, <2>1
<1> DEFINE z == x \o e
<1>8. z \in Seq(T) /\ Len(z) = p
      /\ \A k \in 1..p : z[k] = s[k]
  <2>1. \A k \in 1..p : z[k] = s[k]
    <3> TAKE k \in 1..p
    <3>1. CASE k <= p - 1
      <4>1. k \in 1..(p - 1) /\ k \in 1..(n - 1) /\ k < p
        BY <1>1, <3>1
      <4> QED BY <1>2, <1>3, <1>7, <3>1, <4>1
    <3>2. CASE ~(k <= p - 1)
      <4>1. k = p /\ k - (p - 1) = 1
        BY <1>1, <3>2
      <4> QED BY <1>6, <1>7, <3>2, <4>1
    <3> QED BY <3>1, <3>2
  <2> QED BY <1>7, <2>1
<1> HIDE DEF z
<1>9. /\ z \o y \in Seq(T) /\ Len(z \o y) = n
      /\ \A k \in 1..n : (z \o y)[k] = IF k <= p THEN z[k] ELSE y[k - p]
  <2>0. /\ z \o y \in Seq(T) /\ Len(z \o y) = Len(z) + Len(y)
        /\ \A k \in 1..(Len(z) + Len(y)) :
             (z \o y)[k] = IF k <= Len(z) THEN z[k] ELSE y[k - Len(z)]
    <3>1. z \in Seq(T) /\ y \in Seq(T)
      BY <1>4, <1>8
    <3> QED BY ONLY <3>1, ConcatProperties
  <2>1. /\ z \o y \in Seq(T) /\ Len(z \o y) = p + (n - p)
        /\ \A k \in 1..(p + (n - p)) :
             (z \o y)[k] = IF k <= p THEN z[k] ELSE y[k - p]
    BY <1>4, <1>8, <2>0
  <2>2. p + (n - p) = n
    BY <1>1
  <2> QED BY <2>1, <2>2
<1>10. \A k \in 1..n : (z \o y)[k] = s[k]
  <2> TAKE k \in 1..n
  <2>1. CASE k <= p
    BY <1>1, <1>8, <1>9, <2>1
  <2>2. CASE ~(k <= p)
    <3>1. /\ k - p \in 1..(n - p) /\ (p - 1) + (k - p) = k - 1
          /\ k - 1 \in 1..(n - 1) /\ ~(k - 1 < p) /\ (k - 1) + 1 = k
      BY <1>1, <2>2
    <3> QED BY <1>2, <1>4, <1>9, <2>2, <3>1
  <2> QED BY <2>1, <2>2
<1>11. z \o y = s
  BY <1>9, <1>10, SameEntries
<1>12. p \in 1..(Len(c) + 1)
  BY <1>1, <1>2
<1>13. s = (SubSeq(c, 1, p - 1) \o <<s[p]>>) \o SubSeq(c, p, n - 1)
  BY <1>11 DEF x, y, z, e
<1> HIDE DEF n
<1> QED BY <1>2, <1>12, <1>13 DEF HasPut

LEMMA FrontParts ==
  ASSUME NEW T, NEW s \in Seq(T), Distinct(s), 1 \in 1..Len(s),
         NEW c, c = Cut(s, 1)
  PROVE  s = <<s[1]>> \o c
<1> DEFINE n == Len(s)
           e == <<s[1]>>
<1>1. n \in Nat /\ 1 <= n /\ s[1] \in T
  BY LenProperties
<1>2. /\ c \in Seq(T) /\ Len(c) = n - 1
      /\ \A k \in 1..(n - 1) : c[k] = s[k + 1]
  <2>1. /\ c \in Seq(T) /\ Len(c) = n - 1
        /\ \A k \in 1..(n - 1) : c[k] = IF k < 1 THEN s[k] ELSE s[k + 1]
    BY CutSeq
  <2>2. \A k \in 1..(n - 1) : ~(k < 1)
    BY <1>1
  <2> QED BY <2>1, <2>2
<1>3. e \in Seq(T) /\ Len(e) = 1 /\ e[1] = s[1]
  BY <1>1
<1> HIDE DEF e
<1>4. /\ e \o c \in Seq(T) /\ Len(e \o c) = Len(e) + Len(c)
      /\ \A k \in 1..(Len(e) + Len(c)) :
           (e \o c)[k] = IF k <= Len(e) THEN e[k] ELSE c[k - Len(e)]
  <2>1. e \in Seq(T) /\ c \in Seq(T)
    BY <1>2, <1>3
  <2> QED BY ONLY <2>1, ConcatProperties
<1>5. Len(e \o c) = n
  BY <1>1, <1>2, <1>3, <1>4
<1>6. \A k \in 1..n : (e \o c)[k] = s[k]
  <2> TAKE k \in 1..n
  <2>1. k \in 1..(Len(e) + Len(c))
    BY <1>1, <1>2, <1>3
  <2>2. CASE k = 1
    BY <1>3, <1>4, <2>1, <2>2
  <2>3. CASE k # 1
    <3>1. k - 1 \in 1..(n - 1) /\ (k - 1) + 1 = k /\ ~(k <= 1)
      BY <1>1, <2>3
    <3> QED BY <1>2, <1>3, <1>4, <2>1, <3>1
  <2> QED BY <2>2, <2>3
<1>7. e \o c = s
  BY <1>4, <1>5, <1>6, SameEntries
<1> QED BY <1>7 DEF e

LEMMA BackParts ==
  ASSUME NEW T, NEW s \in Seq(T), Distinct(s), Len(s) \in 1..Len(s),
         NEW c, c = Cut(s, Len(s))
  PROVE  s = Append(c, s[Len(s)])
<1> DEFINE n == Len(s)
           t == Append(c, s[n])
<1>1. n \in Nat /\ 1 <= n /\ s[n] \in T
  BY LenProperties
<1>2. /\ c \in Seq(T) /\ Len(c) = n - 1
      /\ \A k \in 1..(n - 1) : c[k] = s[k]
  <2>1. /\ c \in Seq(T) /\ Len(c) = n - 1
        /\ \A k \in 1..(n - 1) : c[k] = IF k < n THEN s[k] ELSE s[k + 1]
    BY CutSeq
  <2>2. \A k \in 1..(n - 1) : k < n
    BY <1>1
  <2> QED BY <2>1, <2>2
<1>3. /\ t \in Seq(T) /\ Len(t) = Len(c) + 1 /\ t[Len(c) + 1] = s[n]
      /\ \A k \in 1..Len(c) : t[k] = c[k]
  BY <1>1, <1>2, AppendProperties
<1> HIDE DEF t
<1>4. Len(t) = n /\ \A k \in 1..n : t[k] = s[k]
  <2>1. (n - 1) + 1 = n /\ \A k \in 1..n : k = n \/ k \in 1..(n - 1)
    BY <1>1
  <2> QED BY <1>2, <1>3, <2>1
<1>5. t = s
  BY <1>3, <1>4, SameEntries
<1> QED BY <1>5 DEF t

-----------------------------------------------------------------------------
(***************************************************************************)
(* A sequence s that shows the values f of those slots of the chain u that *)
(* are in K, in the order of u.  There is one such sequence only.          *)
(***************************************************************************)
Picks(s, u, K, f) ==
  /\ \A x : x \in Elems(s) <=> \E i \in K : i \in Elems(u) /\ f[i] = x
  /\ \A x, y : Ranks(s, x, y) <=>
                 \E i, j \in K : Ranks(u, i, j) /\ f[i] = x /\ f[j] = y

(* Two chains of which the same is shown. *)
Alike(u, K, f, w, M, g) ==
  /\ \A i : i \in K /\ i \in Elems(u) <=> i \in M /\ i \in Elems(w)
  /\ \A i \in K : i \in Elems(u) => f[i] = g[i]
  /\ \A i, j \in K : i \in Elems(u) /\ j \in Elems(u) =>
                       (Ranks(u, i, j) <=> Ranks(w, i, j))

LEMMA RanksElems ==
  ASSUME NEW u, NEW i, NEW j, Ranks(u, i, j)
  PROVE  i \in Elems(u) /\ j \in Elems(u)
BY DEF Ranks, Elems

LEMMA SamePicks ==
  ASSUME NEW T, NEW s \in Seq(T), NEW t \in Seq(T), Distinct(s), Distinct(t),
         NEW u, NEW K, NEW f, NEW w, NEW M, NEW g,
         Picks(s, u, K, f), Picks(t, w, M, g), Alike(u, K, f, w, M, g)
  PROVE  s = t
<1>1. \A x : x \in Elems(s) <=> x \in Elems(t)
  BY DEF Picks, Alike
<1>2. ASSUME NEW x, NEW y, Ranks(s, x, y) PROVE Ranks(t, x, y)
  <2>1. PICK i, j \in K : Ranks(u, i, j) /\ f[i] = x /\ f[j] = y
    BY <1>2 DEF Picks
  <2>2. i \in Elems(u) /\ j \in Elems(u)
    BY <2>1, RanksElems
  <2>3. i \in M /\ j \in M /\ Ranks(w, i, j) /\ g[i] = x /\ g[j] = y
    BY <2>1, <2>2 DEF Alike
  <2> QED BY <2>3 DEF Picks
<1>3. ASSUME NEW x, NEW y, Ranks(t, x, y) PROVE Ranks(s, x, y)
  <2>1. PICK i, j \in M : Ranks(w, i, j) /\ g[i] = x /\ g[j] = y
    BY <1>3 DEF Picks
  <2>2. i \in Elems(w) /\ j \in Elems(w)
    BY <2>1, RanksElems
  <2>3. i \in K /\ j \in K /\ Ranks(u, i, j) /\ f[i] = x /\ f[j] = y
    BY <2>1, <2>2 DEF Alike
  <2> QED BY <2>3 DEF Picks
<1>4. SameOrder(s, t)
  BY <1>1, <1>2, <1>3 DEF SameOrder
<1> QED BY <1>4, SameSequence

LEMMA CutPicks ==
  ASSUME NEW T, NEW s \in Seq(T), Distinct(s), NEW u, NEW K, NEW f,
         Picks(s, u, K, f), NEW i \in K, i \in Elems(u),
         \A j \in K : j \in Elems(u) /\ f[j] = f[i] => j = i
  PROVE  \E p \in 1..Len(s) : s[p] = f[i] /\ Picks(Cut(s, p), u, K \ {i}, f)
<1>1. f[i] \in Elems(s)
  BY DEF Picks
<1>2. PICK p \in 1..Len(s) : s[p] = f[i]
  BY <1>1 DEF Elems
<1> DEFINE c == Cut(s, p)
<1>3. Elems(c) = Elems(s) \ {f[i]}
  BY <1>2, CutSeq
<1>4. \A x, y : Ranks(c, x, y) <=> Ranks(s, x, y) /\ x # f[i] /\ y # f[i]
  BY <1>2, CutRanks
<1> HIDE DEF c
<1>5. \A x : x \in Elems(c) <=> \E j \in K \ {i} : j \in Elems(u) /\ f[j] = x
  BY <1>3 DEF Picks
<1>6. ASSUME NEW x, NEW y, Ranks(c, x, y)
      PROVE  \E j, k \in K \ {i} : Ranks(u, j, k) /\ f[j] = x /\ f[k] = y
  BY <1>4, <1>6 DEF Picks
<1>7. ASSUME NEW j \in K \ {i}, NEW k \in K \ {i}, Ranks(u, j, k)
      PROVE  Ranks(c, f[j], f[k])
  <2>1. j \in Elems(u) /\ k \in Elems(u)
    BY <1>7, RanksElems
  <2>2. f[j] # f[i] /\ f[k] # f[i]
    BY <2>1
  <2>3. Ranks(s, f[j], f[k])
    BY <1>7 DEF Picks
  <2> QED BY <1>4, <2>2, <2>3
<1>8. Picks(c, u, K \ {i}, f)
  BY <1>5, <1>6, <1>7 DEF Picks
<1> QED BY <1>2, <1>8 DEF c

-----------------------------------------------------------------------------
(***************************************************************************)
(* Towards the ordered map: Present picks the values of the slots that are *)
(* kept from the chain of used ones.                                       *)
(***************************************************************************)
Kept == {i \in SlotsOf(a) : ~BeingRemoved(i)}

ValuesApart ==
  \A i, j \in SlotsOf(a) : a.val[i] = a.val[j] /\ a.val[i] # NoValue => i = j

PresentPicks ==
  /\ Present \in Seq(Values) /\ Distinct(Present)
  /\ Picks(Present, UsedChain(a), Kept, a.val)

MapInv == SlotInv /\ ValuesApart

LEMMA ChainFacts ==
  ASSUME NEW b, Sound(b)
  PROVE  /\ UsedChain(b) \in Seq(SlotsOf(b)) /\ Distinct(UsedChain(b))
         /\ \A i : i \in Elems(UsedChain(b)) <=>
                     i \in SlotsOf(b) /\ b.val[i] # NoValue
<1>1. PICK u, f : Rows(b, u, f)
  BY DEF Sound
<1>2. UsedChain(b) = u
  BY <1>1, ChainsOfRows DEF Sound
<1>3. /\ u \in Seq(SlotsOf(b)) /\ Distinct(u)
      /\ Elems(u) \cap Elems(f) = {} /\ Elems(u) \cup Elems(f) = SlotsOf(b)
      /\ \A i \in SlotsOf(b) : b.val[i] = NoValue <=> i \in Elems(f)
  BY <1>1 DEF Rows
<1> QED BY <1>2, <1>3

-----------------------------------------------------------------------------
(***************************************************************************)
(* Iteration, as for the wheels: a recursive function on 0..n whose steps  *)
(* lead from one set into the next is defined and stays in these sets.     *)
(***************************************************************************)
Keeps(g, n, S) ==
  g[0] \in S[0] /\ \A k \in 1..n : g[k - 1] \in S[k - 1] => g[k] \in S[k]

LEMMA StaysIn ==
  ASSUME NEW n \in Nat, NEW S, NEW g, Keeps(g, n, S)
  PROVE  \A k \in 0..n : g[k] \in S[k]
<1> DEFINE Off == {k \in 0..n : g[k] \notin S[k]}
<1> SUFFICES ASSUME Off # {} PROVE FALSE
  OBVIOUS
<1>1. Off \subseteq Nat
  OBVIOUS
<1>2. PICK k \in Off : \A m \in Off : k <= m
  <2> HIDE DEF Off
  <2> QED BY <1>1, LeastOf
<1>3. k \in 1..n /\ g[k] \notin S[k]
  BY DEF Keeps
<1>4. k - 1 \in 0..n /\ ~(k <= k - 1)
  BY <1>3
<1>5. g[k - 1] \in S[k - 1]
  BY <1>2, <1>4
<1> QED BY <1>3, <1>5 DEF Keeps

Leads(n, S, b, step) ==
  b \in S[0] /\ \A k \in 1..n : \A y \in S[k - 1] : step[k][y] \in S[k]

Runs(f, n, S, b, step) ==
  /\ f[0] = b /\ \A k \in 1..n : f[k] = step[k][f[k - 1]]
  /\ \A k \in 0..n : f[k] \in S[k]

LEMMA IsDefined ==
  ASSUME NEW n \in Nat, NEW S, NEW b, NEW step, Leads(n, S, b, step)
  PROVE  \E f : Runs(f, n, S, b, step)
<1> DEFINE Upto(f, m) ==
             f = [k \in 0..m |-> IF k = 0 THEN b ELSE step[k][f[k - 1]]]
           Off == {m \in 0..n : ~\E f : Upto(f, m)}
<1> SUFFICES ASSUME Off # {} PROVE FALSE
  <2>1. n \notin Off
    OBVIOUS
  <2>2. PICK f : Upto(f, n)
    BY <2>1
  <2>3. f[0] = b /\ \A k \in 1..n : f[k] = step[k][f[k - 1]]
    <3>1. /\ 0 \in 0..n
          /\ \A k \in 1..n : k \in 0..n /\ k # 0
      OBVIOUS
    <3> QED BY <2>2, <3>1
  <2>4. f[0] \in S[0] /\ \A k \in 1..n : f[k - 1] \in S[k - 1] => f[k] \in S[k]
    BY <2>3 DEF Leads
  <2>5. \A k \in 0..n : f[k] \in S[k]
    BY <2>4, StaysIn DEF Keeps
  <2> QED BY <2>3, <2>5 DEF Runs
<1>1. Off \subseteq Nat
  OBVIOUS
<1>2. PICK m \in Off : \A k \in Off : m <= k
  <2> HIDE DEF Off
  <2> QED BY <1>1, LeastOf
<1>3. m \in 0..n /\ ~\E f : Upto(f, m)
  OBVIOUS
<1>4. CASE m = 0
  <2> DEFINE f == [k \in 0..0 |-> b]
  <2>1. f = [k \in 0..0 |-> IF k = 0 THEN b ELSE step[k][f[k - 1]]]
    OBVIOUS
  <2>2. Upto(f, 0)
    BY <2>1
  <2> QED BY <1>3, <1>4, <2>2
<1>5. CASE m # 0
  <2>1. m - 1 \in 0..n /\ m - 1 \notin Off /\ m \in 1..n
    BY <1>2, <1>3, <1>5
  <2>2. PICK g : g = [k \in 0..(m - 1) |->
                        IF k = 0 THEN b ELSE step[k][g[k - 1]]]
    BY <2>1
  <2> DEFINE f == [k \in 0..m |-> IF k = m THEN step[m][g[m - 1]] ELSE g[k]]
  <2>3. ASSUME NEW k \in 0..m
        PROVE  f[k] = IF k = 0 THEN b ELSE step[k][f[k - 1]]
    <3>1. CASE k = m
      <4>1. m - 1 \in 0..m /\ m - 1 # m
        BY <2>1
      <4> QED BY <1>5, <3>1, <4>1
    <3>2. CASE k # m /\ k # 0
      <4>1. k - 1 \in 0..m /\ k - 1 # m /\ k \in 0..(m - 1)
        BY <2>1, <3>2
      <4>2. f[k - 1] = g[k - 1] /\ f[k] = g[k]
        BY <3>2, <4>1
      <4>3. g[k] = step[k][g[k - 1]]
        BY <2>2, <3>2, <4>1
      <4> QED BY <3>2, <4>2, <4>3
    <3>3. CASE k # m /\ k = 0
      <4>1. k \in 0..(m - 1)
        BY <2>1, <3>3
      <4>2. f[k] = g[k] /\ g[k] = b
        BY <2>2, <3>3, <4>1
      <4> QED BY <3>3, <4>2
    <3> QED BY <3>1, <3>2, <3>3
  <2>4. f = [k \in 0..m |-> f[k]]
    OBVIOUS
  <2> HIDE DEF f
  <2>5. Upto(f, m)
    BY <2>3, <2>4
  <2> QED BY <1>3, <2>5
<1> QED BY <1>4, <1>5

(* What is picked from the first n slots of a chain. *)
PicksTo(s, n, u, K, f) ==
  /\ \A x : x \in Elems(s) <=> \E k \in 1..n : u[k] \in K /\ f[u[k]] = x
  /\ \A x, y : Ranks(s, x, y) <=>
                 \E j, k \in 1..n : /\ j < k /\ u[j] \in K /\ u[k] \in K
                                   /\ f[u[j]] = x /\ f[u[k]] = y

LEMMA PicksNone ==
  ASSUME NEW T, NEW u, NEW K, NEW f
  PROVE  <<>> \in Seq(T) /\ Distinct(<<>>) /\ PicksTo(<<>>, 0, u, K, f)
<1>1. Len(<<>>) = 0 /\ <<>> \in Seq(T)
  OBVIOUS
<1>2. \A k \in 1..0 : FALSE
  OBVIOUS
<1>3. Distinct(<<>>) /\ Elems(<<>>) = {} /\ \A x, y : ~Ranks(<<>>, x, y)
  BY <1>1, <1>2 DEF Distinct, Elems, Ranks
<1> QED BY <1>1, <1>2, <1>3 DEF PicksTo

LEMMA PicksSkip ==
  ASSUME NEW s, NEW n \in Nat \ {0}, NEW u, NEW K, NEW f,
         PicksTo(s, n - 1, u, K, f), u[n] \notin K
  PROVE  PicksTo(s, n, u, K, f)
<1>1. \A k \in 1..n : u[k] \in K => k \in 1..(n - 1)
  <2>1. \A k \in 1..n : k = n \/ k \in 1..(n - 1)
    OBVIOUS
  <2> QED BY <2>1
<1>2. \A k \in 1..(n - 1) : k \in 1..n
  OBVIOUS
<1> QED BY ONLY PicksTo(s, n - 1, u, K, f), <1>1, <1>2 DEF PicksTo

LEMMA PicksNext ==
  ASSUME NEW T, NEW s \in Seq(T), Distinct(s), NEW n \in Nat \ {0},
         NEW u, NEW K, NEW f, PicksTo(s, n - 1, u, K, f),
         u[n] \in K, NEW v, v = f[u[n]], v \in T,
         \A k \in 1..(n - 1) : u[k] \in K => f[u[k]] # v
  PROVE  /\ Append(s, v) \in Seq(T) /\ Distinct(Append(s, v))
         /\ PicksTo(Append(s, v), n, u, K, f)
<1> DEFINE t == Append(s, v)
<1>1. v \notin Elems(s)
  BY DEF PicksTo
<1>2. /\ t \in Seq(T) /\ Distinct(t) /\ Elems(t) = Elems(s) \cup {v}
      /\ \A x, y : Ranks(t, x, y) <=>
                     Ranks(s, x, y) \/ (x \in Elems(s) /\ y = v)
  BY <1>1, AppendRanks
<1> HIDE DEF t
<1>3. \A k : k \in 1..n <=> k \in 1..(n - 1) \/ k = n
  OBVIOUS
<1>4. \A k \in 1..(n - 1) : k < n /\ ~(n < k)
  OBVIOUS
<1>5. ~(n < n)
  OBVIOUS
<1>6. ASSUME NEW x PROVE x \in Elems(t) <=> \E k \in 1..n : u[k] \in K /\ f[u[k]] = x
  BY <1>2, <1>3 DEF PicksTo
<1>7. ASSUME NEW x, NEW y, Ranks(t, x, y)
      PROVE  \E j, k \in 1..n : /\ j < k /\ u[j] \in K /\ u[k] \in K
                                /\ f[u[j]] = x /\ f[u[k]] = y
  <2>1. CASE Ranks(s, x, y)
    BY <1>3, <2>1 DEF PicksTo
  <2>2. CASE x \in Elems(s) /\ y = v
    <3>1. PICK j \in 1..(n - 1) : u[j] \in K /\ f[u[j]] = x
      BY <2>2 DEF PicksTo
    <3> QED BY <1>3, <1>4, <2>2, <3>1
  <2> QED BY <1>2, <1>7, <2>1, <2>2
<1>8. ASSUME NEW j \in 1..n, NEW k \in 1..n, j < k, u[j] \in K, u[k] \in K
      PROVE  Ranks(t, f[u[j]], f[u[k]])
  <2>1. j \in 1..(n - 1)
    BY <1>8
  <2>2. f[u[j]] \in Elems(s)
    BY <1>8, <2>1 DEF PicksTo
  <2>3. CASE k = n
    BY <1>2, <2>2, <2>3
  <2>4. CASE k # n
    <3>1. k \in 1..(n - 1)
      BY <1>3, <2>4
    <3>2. Ranks(s, f[u[j]], f[u[k]])
      BY <1>8, <2>1, <3>1 DEF PicksTo
    <3> QED BY <1>2, <3>2
  <2> QED BY <2>3, <2>4
<1>9. PicksTo(t, n, u, K, f)
  BY <1>6, <1>7, <1>8 DEF PicksTo
<1> QED BY <1>2, <1>9 DEF t

LEMMA PicksAll ==
  ASSUME NEW s, NEW n, NEW u, n = Len(u), NEW K, NEW f, PicksTo(s, n, u, K, f)
  PROVE  Picks(s, u, K, f)
<1>1. ASSUME NEW x
      PROVE  x \in Elems(s) <=> \E i \in K : i \in Elems(u) /\ f[i] = x
  <2>1. x \in Elems(s) <=> \E k \in 1..n : u[k] \in K /\ f[u[k]] = x
    BY DEF PicksTo
  <2>2. \A i : i \in Elems(u) <=> \E k \in 1..n : u[k] = i
    BY DEF Elems
  <2> QED BY <2>1, <2>2
<1>2. ASSUME NEW x, NEW y, Ranks(s, x, y)
      PROVE  \E i, j \in K : Ranks(u, i, j) /\ f[i] = x /\ f[j] = y
  <2>1. PICK j, k \in 1..n : /\ j < k /\ u[j] \in K /\ u[k] \in K
                            /\ f[u[j]] = x /\ f[u[k]] = y
    BY <1>2 DEF PicksTo
  <2>2. Ranks(u, u[j], u[k])
    BY <2>1 DEF Ranks
  <2> QED BY <2>1, <2>2
<1>3. ASSUME NEW i \in K, NEW m \in K, Ranks(u, i, m)
      PROVE  Ranks(s, f[i], f[m])
  <2>1. PICK j, k \in 1..n : j < k /\ u[j] = i /\ u[k] = m
    BY <1>3 DEF Ranks
  <2> QED BY <2>1 DEF PicksTo
<1> QED BY <1>1, <1>2, <1>3 DEF Picks

(* Present shows the values of the slots that are kept, in their order. *)
LEMMA PresentSound ==
  ASSUME MapInv
  PROVE  PresentPicks
<1> DEFINE u == UsedChain(a)
           n == Len(u)
           K == Kept
           f == a.val
           Good(k) == {s \in Seq(Values) : Distinct(s) /\ PicksTo(s, k, u, K, f)}
           S == [k \in 0..n |-> Good(k)]
           Next1(k, y) == IF BeingRemoved(u[k]) THEN y ELSE Append(y, f[u[k]])
           step == [k \in 1..n |-> [y \in S[k - 1] |-> Next1(k, y)]]
           Turn(g) == [k \in 0..n |->
                         IF k = 0 THEN <<>>
                         ELSE IF BeingRemoved(u[k]) THEN g[k - 1]
                         ELSE Append(g[k - 1], a.val[u[k]])]
           upto == CHOOSE g : g = Turn(g)
<1>1. /\ u \in Seq(SlotsOf(a)) /\ Distinct(u) /\ n \in Nat
      /\ \A k \in 1..n : /\ u[k] \in SlotsOf(a) /\ f[u[k]] \in Values
                         /\ f[u[k]] # NoValue
                         /\ (u[k] \in K <=> ~BeingRemoved(u[k]))
  <2>1. /\ u \in Seq(SlotsOf(a)) /\ Distinct(u)
        /\ \A i : i \in Elems(u) <=> i \in SlotsOf(a) /\ a.val[i] # NoValue
    BY ChainFacts DEF MapInv, SlotInv
  <2>2. n \in Nat
    BY <2>1, LenProperties
  <2>3. \A k \in 1..n : u[k] \in Elems(u)
    BY DEF Elems
  <2>4. a.val \in [SlotsOf(a) -> Values \cup {NoValue}]
    BY SlotInvTypes DEF MapInv
  <2> HIDE DEF u
  <2> QED BY <2>1, <2>2, <2>3, <2>4 DEF Kept
<1>2. \A k \in 0..n : S[k] = Good(k)
  OBVIOUS
<1>3. ASSUME NEW k \in 1..n, NEW y \in S[k - 1]
      PROVE  Next1(k, y) \in S[k] /\ step[k][y] = Next1(k, y)
  <2>1. k - 1 \in 0..n /\ k \in 0..n /\ k \in Nat \ {0}
    BY <1>1
  <2>2. y \in Seq(Values) /\ Distinct(y) /\ PicksTo(y, k - 1, u, K, f)
    BY <1>2, <2>1
  <2>3. Next1(k, y) \in Good(k)
    <3>1. CASE BeingRemoved(u[k])
      <4>1. u[k] \notin K
        BY <1>1, <3>1
      <4>2. PicksTo(y, k, u, K, f)
        <5> HIDE DEF u, K, f
        <5> QED BY ONLY <2>1, <2>2, <4>1, PicksSkip
      <4> QED BY <2>2, <3>1, <4>2
    <3>2. CASE ~BeingRemoved(u[k])
      <4>1. u[k] \in K /\ f[u[k]] \in Values
        BY <1>1, <3>2
      <4>2. \A m \in 1..(k - 1) : u[m] \in K => f[u[m]] # f[u[k]]
        <5>1. \A m \in 1..(k - 1) : m \in 1..n /\ m # k
          BY <1>1
        <5>2. ValuesApart
          BY DEF MapInv
        <5> HIDE DEF u, K
        <5> QED BY <1>1, <5>1, <5>2 DEF ValuesApart, Distinct
      <4> DEFINE v == f[u[k]]
      <4>3. v = f[u[k]] /\ v \in Values /\ \A m \in 1..(k - 1) : u[m] \in K => f[u[m]] # v
        BY <4>1, <4>2
      <4> HIDE DEF v
      <4>4. Append(y, v) \in Good(k)
        <5> HIDE DEF u, K, f
        <5>1. /\ Append(y, v) \in Seq(Values) /\ Distinct(Append(y, v))
              /\ PicksTo(Append(y, v), k, u, K, f)
          BY ONLY <2>1, <2>2, <4>1, <4>3, PicksNext
        <5> QED BY <5>1
      <4> QED BY <3>2, <4>4 DEF v
    <3> QED BY <3>1, <3>2
  <2>4. step[k] = [z \in S[k - 1] |-> Next1(k, z)]
    OBVIOUS
  <2> HIDE DEF S, step, Good, Next1
  <2> QED BY <1>2, <2>1, <2>3, <2>4
<1>4. <<>> \in S[0]
  <2>1. <<>> \in Good(0)
    <3> HIDE DEF u, K, f
    <3> QED BY PicksNone
  <2>2. 0 \in 0..n
    BY <1>1
  <2> HIDE DEF S, Good, n
  <2> QED BY <1>2, <2>1, <2>2
<1>5. PICK g : Runs(g, n, S, <<>>, step)
  <2>1. n \in Nat
    BY <1>1
  <2> HIDE DEF n, S, step, Next1
  <2>2. Leads(n, S, <<>>, step)
    BY <1>3, <1>4 DEF Leads
  <2> QED BY ONLY <2>1, <2>2, IsDefined
<1>6. /\ g[0] = <<>> /\ \A k \in 1..n : g[k] = step[k][g[k - 1]]
      /\ \A k \in 0..n : g[k] \in S[k]
  <2> HIDE DEF n, S, step
  <2> QED BY <1>5 DEF Runs
<1>7. \A k \in 1..n : g[k] = Next1(k, g[k - 1])
  <2> SUFFICES ASSUME NEW k \in 1..n PROVE g[k] = Next1(k, g[k - 1])
    OBVIOUS
  <2>1. k - 1 \in 0..n
    BY <1>1
  <2> HIDE DEF n, S, step, Next1
  <2> QED BY <1>3, <1>6, <2>1
<1> DEFINE h == [k \in 0..n |-> g[k]]
<1>8. h = Turn(h)
  <2> SUFFICES ASSUME NEW k \in 0..n
               PROVE  g[k] = IF k = 0 THEN <<>>
                             ELSE IF BeingRemoved(u[k]) THEN h[k - 1]
                             ELSE Append(h[k - 1], a.val[u[k]])
    OBVIOUS
  <2>1. CASE k = 0
    BY <1>6, <2>1
  <2>2. CASE k # 0
    <3>1. k \in 1..n /\ k - 1 \in 0..n
      BY <1>1, <2>2
    <3>2. h[k - 1] = g[k - 1]
      BY <3>1
    <3>3. g[k] = Next1(k, g[k - 1])
      <4> HIDE DEF n, Next1
      <4> QED BY <1>7, <3>1
    <3> HIDE DEF h
    <3> QED BY <2>2, <3>2, <3>3
  <2> QED BY <2>1, <2>2
<1>9. upto = Turn(upto)
  <2> HIDE DEF Turn, h
  <2> QED BY <1>8
<1>10. Present = upto[n]
  BY DEF Present
<1> HIDE DEF upto
<1>11. upto[0] = <<>> /\ \A k \in 1..n : upto[k] = Next1(k, upto[k - 1])
  <2>1. \A k \in 0..n : upto[k] = IF k = 0 THEN <<>> ELSE Next1(k, upto[k - 1])
    BY <1>9
  <2>2. 0 \in 0..n /\ \A k \in 1..n : k \in 0..n /\ k # 0
    BY <1>1
  <2> HIDE DEF Next1
  <2> QED BY <2>1, <2>2
<1>12. \A k \in 0..n : upto[k] \in S[k]
  <2> HIDE DEF Next1
  <2>1. \A k \in 1..n : upto[k - 1] \in S[k - 1] => upto[k] \in S[k]
    <3> HIDE DEF S, n
    <3> QED BY <1>3, <1>11
  <2>2. upto[0] \in S[0]
    BY <1>4, <1>11
  <2>3. n \in Nat
    BY <1>1
  <2> HIDE DEF n, S
  <2>4. Keeps(upto, n, S)
    BY <2>1, <2>2 DEF Keeps
  <2> QED BY ONLY <2>3, <2>4, StaysIn
<1>13. upto[n] \in Good(n)
  <2>1. n \in 0..n
    BY <1>1
  <2> HIDE DEF S, n, Good
  <2> QED BY <1>2, <1>12, <2>1
<1>14. Present \in Seq(Values) /\ Distinct(Present) /\ PicksTo(Present, n, u, K, f)
  BY <1>10, <1>13
<1>15. Picks(Present, u, K, f)
  <2> HIDE DEF u, K, f
  <2> QED BY <1>14, PicksAll
<1> QED BY <1>14, <1>15 DEF PresentPicks

(* A value is put into a slot only where no slot has it. *)
LEMMA PutApart ==
  ASSUME ValuesApart, Sound(a), NEW v \in Values, New(v),
         NEW g, g = Grown(a, 1), NEW i, i = g.free, a'.val = [g.val EXCEPT ![i] = v]
  PROVE  ValuesApart'
<1>1. /\ Sound(g) /\ i \in SlotsOf(g) /\ SlotsOf(a) \subseteq SlotsOf(g)
      /\ \A j \in SlotsOf(a) : g.val[j] = a.val[j]
      /\ \A j \in SlotsOf(g) \ SlotsOf(a) : g.val[j] = NoValue
  BY GrownSound
<1>2. g.val \in [SlotsOf(g) -> Values \cup {NoValue}] /\ SlotsOf(g) = 1..Len(g.val)
      /\ Len(g.val) \in Nat
  BY <1>1, SlotsTyped DEF Sound, SlotsOf
<1>3. /\ a'.val \in [SlotsOf(g) -> Values \cup {NoValue}]
      /\ \A j \in SlotsOf(g) : a'.val[j] = IF j = i THEN v ELSE g.val[j]
  BY <1>1, <1>2
<1>4. Len(a'.val) = Len(g.val)
  BY <1>2, <1>3, FunIsSeq
<1>5. SlotsOf(a)' = SlotsOf(g)
  BY <1>2, <1>4 DEF SlotsOf
<1>6. \A j \in SlotsOf(a) : a.val[j] # v
  BY DEF New, SlotsOf
<1>7. v # NoValue
  BY SlotArrayAssumption
<1>8. \A j \in SlotsOf(g) : j # i => a'.val[j] # v /\ a'.val[j] = g.val[j]
  BY <1>1, <1>3, <1>6, <1>7
<1>9. \A j, k \in SlotsOf(g) : g.val[j] = g.val[k] /\ g.val[j] # NoValue => j = k
  BY <1>1 DEF ValuesApart
<1> QED BY <1>1, <1>3, <1>5, <1>8, <1>9 DEF ValuesApart

(* What a chain shows without one of its slots. *)
LEMMA AlikeCut ==
  ASSUME NEW T, NEW w \in Seq(T), Distinct(w), NEW u, NEW i, CutFrom(u, w, i),
         NEW K, NEW M, NEW f, NEW g,
         \A j \in Elems(w) : j # i => (j \in K <=> j \in M) /\ f[j] = g[j]
  PROVE  /\ Elems(u) = Elems(w) \ {i} /\ i \in Elems(w)
         /\ Alike(u, K, f, w, M \ {i}, g)
<1>1. PICK p \in 1..Len(w) : w[p] = i /\ u = Cut(w, p)
  BY DEF CutFrom
<1>2. Elems(u) = Elems(w) \ {i} /\ i \in Elems(w)
  <2>1. i \in Elems(w)
    BY <1>1 DEF Elems
  <2>2. Elems(Cut(w, p)) = Elems(w) \ {w[p]}
    BY CutSeq
  <2> QED BY <1>1, <2>1, <2>2
<1>3. \A x, y : Ranks(u, x, y) <=> Ranks(w, x, y) /\ x # i /\ y # i
  BY <1>1, CutRanks
<1>4. \A j : j \in K /\ j \in Elems(u) <=> j \in M \ {i} /\ j \in Elems(w)
  BY <1>2
<1>5. \A j \in K : j \in Elems(u) => f[j] = g[j]
  BY <1>2
<1>6. \A j, k \in K : j \in Elems(u) /\ k \in Elems(u) =>
                        (Ranks(u, j, k) <=> Ranks(w, j, k))
  BY <1>2, <1>3
<1> QED BY <1>2, <1>4, <1>5, <1>6 DEF Alike

LEMMA AlikeReput ==
  ASSUME NEW T, NEW u \in Seq(T), NEW w \in Seq(T), Distinct(u), Distinct(w),
         NEW i, Reput(u, w, i), NEW K, NEW f
  PROVE  /\ Elems(u) = Elems(w)
         /\ Alike(u, K \ {i}, f, w, K \ {i}, f)
<1>1. PICK c : CutFrom(c, u, i) /\ CutFrom(c, w, i)
  BY DEF Reput
<1>2. PICK p \in 1..Len(u) : u[p] = i /\ c = Cut(u, p)
  BY <1>1 DEF CutFrom
<1>3. PICK q \in 1..Len(w) : w[q] = i /\ c = Cut(w, q)
  BY <1>1 DEF CutFrom
<1>4. Elems(c) = Elems(u) \ {i} /\ i \in Elems(u)
  <2>1. i \in Elems(u)
    BY <1>2 DEF Elems
  <2>2. Elems(Cut(u, p)) = Elems(u) \ {u[p]}
    BY CutSeq
  <2> QED BY <1>2, <2>1, <2>2
<1>5. Elems(c) = Elems(w) \ {i} /\ i \in Elems(w)
  <2>1. i \in Elems(w)
    BY <1>3 DEF Elems
  <2>2. Elems(Cut(w, q)) = Elems(w) \ {w[q]}
    BY CutSeq
  <2> QED BY <1>3, <2>1, <2>2
<1>6. \A x, y : Ranks(c, x, y) <=> Ranks(u, x, y) /\ x # i /\ y # i
  BY <1>2, CutRanks
<1>7. \A x, y : Ranks(c, x, y) <=> Ranks(w, x, y) /\ x # i /\ y # i
  BY <1>3, CutRanks
<1>8. Elems(u) = Elems(w)
  <2>1. Elems(u) = Elems(c) \cup {i}
    BY <1>4
  <2>2. Elems(w) = Elems(c) \cup {i}
    BY <1>5
  <2> QED BY <2>1, <2>2
<1>9. \A j, k \in K \ {i} : Ranks(u, j, k) <=> Ranks(w, j, k)
  BY <1>6, <1>7
<1> QED BY <1>8, <1>9 DEF Alike

(* What a sequence shows that lacks one slot of another. *)
LEMMA LacksOne ==
  ASSUME NEW T, NEW s \in Seq(T), NEW t \in Seq(T), Distinct(s), Distinct(t),
         NEW u, NEW K, NEW f, NEW w, NEW M, NEW g, NEW i \in M, i \in Elems(w),
         Picks(s, u, K, f), Picks(t, w, M, g), Alike(u, K, f, w, M \ {i}, g),
         \A j \in M : j \in Elems(w) /\ g[j] = g[i] => j = i
  PROVE  \E p \in 1..Len(t) : t[p] = g[i] /\ s = Cut(t, p)
<1>1. PICK p \in 1..Len(t) : t[p] = g[i] /\ Picks(Cut(t, p), w, M \ {i}, g)
  BY CutPicks
<1> DEFINE c == Cut(t, p)
<1>2. c \in Seq(T) /\ Distinct(c) /\ Picks(c, w, M \ {i}, g)
  BY <1>1, CutSeq
<1> HIDE DEF c
<1> DEFINE N == M \ {i}
<1>3. Picks(c, w, N, g) /\ Alike(u, K, f, w, N, g)
  BY <1>2
<1> HIDE DEF N
<1>4. s = c
  <2>1. s \in Seq(T) /\ c \in Seq(T) /\ Distinct(s) /\ Distinct(c)
        /\ Picks(s, u, K, f)
    BY <1>2
  <2> QED BY ONLY <1>3, <2>1, SamePicks
<1> QED BY <1>1, <1>4 DEF c

LEMMA PutMaps ==
  ASSUME MapInv, PresentPicks, ValuesApart', PresentPicks', Sound(a'),
         NEW v \in Values, New(v), Take(v), removing' = removing,
         NEW g, g = Grown(a, 1), NEW i, i = g.free, g.val[i] = NoValue,
         a'.val = [g.val EXCEPT ![i] = v], CutFrom(UsedChain(a), UsedChain(a'), i)
  PROVE  Map!Put(v)
<1> DEFINE L == Present
           M == Present'
           u == UsedChain(a)
           w == UsedChain(a')
           K == Kept
           N == Kept'
           f == a.val
           h == a'.val
<1>1. /\ Sound(g) /\ i \in SlotsOf(g) /\ SlotsOf(a) \subseteq SlotsOf(g)
      /\ \A j \in SlotsOf(a) : g.val[j] = a.val[j]
  BY GrownSound DEF MapInv, SlotInv
<1>2. /\ SlotsOf(a') = SlotsOf(g)
      /\ \A j \in SlotsOf(g) : h[j] = IF j = i THEN v ELSE g.val[j]
  <2>1. g.val \in [SlotsOf(g) -> Values \cup {NoValue}] /\ SlotsOf(g) = 1..Len(g.val)
        /\ Len(g.val) \in Nat
    BY <1>1, SlotsTyped DEF Sound, SlotsOf
  <2>2. /\ h \in [SlotsOf(g) -> Values \cup {NoValue}]
        /\ \A j \in SlotsOf(g) : h[j] = IF j = i THEN v ELSE g.val[j]
    BY <1>1, <2>1
  <2>3. Len(h) = Len(g.val)
    BY <2>1, <2>2, FunIsSeq
  <2> QED BY <2>1, <2>2, <2>3 DEF SlotsOf
<1>3. v # NoValue
  BY SlotArrayAssumption
<1>4. /\ u \in Seq(SlotsOf(a)) /\ Distinct(u)
      /\ \A j : j \in Elems(u) <=> j \in SlotsOf(a) /\ f[j] # NoValue
  BY ChainFacts DEF MapInv, SlotInv
<1>5. /\ w \in Seq(SlotsOf(a')) /\ Distinct(w)
      /\ \A j : j \in Elems(w) <=> j \in SlotsOf(a') /\ h[j] # NoValue
  BY ChainFacts
<1>6. i \in Elems(w)
  BY <1>1, <1>2, <1>3, <1>5
<1>7. ~BeingRemoved(i)
  <2>1. RemovedAreUsed
    BY DEF MapInv, SlotInv
  <2>2. \A k \in 1..Len(removing) : removing[k] \in SlotsOf(a) /\ removing[k] # i
    BY <1>1, <2>1, SlotInvTypes DEF RemovedAreUsed, MapInv
  <2> QED BY <2>2 DEF BeingRemoved
<1>8. /\ \A j : j \in K <=> j \in SlotsOf(a) /\ ~BeingRemoved(j)
      /\ \A j : j \in N <=> j \in SlotsOf(a') /\ ~BeingRemoved(j)
  BY DEF Kept, BeingRemoved
<1>9. \A j \in Elems(w) : j # i => (j \in K <=> j \in N) /\ f[j] = h[j]
  <2> SUFFICES ASSUME NEW j \in Elems(w), j # i
               PROVE  j \in SlotsOf(a) /\ j \in SlotsOf(a') /\ f[j] = h[j]
    BY <1>8
  <2>1. j \in SlotsOf(g) /\ h[j] # NoValue /\ h[j] = g.val[j]
    BY <1>2, <1>5
  <2>2. j \in SlotsOf(a)
    BY <2>1, GrownSound DEF MapInv, SlotInv
  <2> QED BY <1>1, <1>2, <2>1, <2>2
<1>10. i \in N
  BY <1>1, <1>2, <1>7, <1>8
<1>11. \A j \in N : j \in Elems(w) /\ h[j] = h[i] => j = i
  <2>1. \A j, k \in SlotsOf(a') : h[j] = h[k] /\ h[j] # NoValue => j = k
    BY DEF ValuesApart
  <2> HIDE DEF N, w, h
  <2> QED BY <1>5, <1>6, <2>1
<1>12. /\ L \in Seq(Values) /\ Distinct(L) /\ Picks(L, u, K, f)
       /\ M \in Seq(Values) /\ Distinct(M) /\ Picks(M, w, N, h)
  BY DEF PresentPicks
<1>13. h[i] = v
  BY <1>1, <1>2
<1>14. CutFrom(u, w, i)
  OBVIOUS
<1> HIDE DEF L, M, u, w, K, N, f, h
<1>15. Alike(u, K, f, w, N \ {i}, h)
  BY ONLY <1>5, <1>9, <1>14, AlikeCut
<1>16. PICK p \in 1..Len(M) : M[p] = h[i] /\ L = Cut(M, p)
  BY ONLY <1>6, <1>10, <1>11, <1>12, <1>15, LacksOne
<1>17. HasPut(M, L, p, M[p])
  <2>1. /\ M \in Seq(Values) /\ Distinct(M) /\ p \in 1..Len(M)
        /\ L = Cut(M, p)
    BY <1>12, <1>16
  <2> QED BY ONLY <2>1, PutIsParts
<1>18. \A j \in 1..Len(L) : L[j] # v
  <2>1. Elems(Cut(M, p)) = Elems(M) \ {M[p]}
    BY ONLY <1>12, <1>16, CutSeq
  <2> QED BY <1>13, <1>16, <2>1 DEF Elems
<1>19. \E k \in 1..(Len(L) + 1) :
          M = SubSeq(L, 1, k - 1) \o <<v>> \o SubSeq(L, k, Len(L))
  BY <1>13, <1>16, <1>17 DEF HasPut
<1>20. /\ v \notin {x.id : x \in handles}
       /\ {x.id : x \in handles'} = {x.id : x \in handles} \cup {v}
  <2>1. PICK x : handles' = handles \cup {x} /\ x.id = v
    <3> DEFINE x == [id |-> v, index |-> i, revision |-> NextRevision(g.rev[i])]
    <3>1. handles' = handles \cup {x}
      BY DEF Take
    <3>2. x.id = v
      OBVIOUS
    <3> HIDE DEF x
    <3> QED BY <3>1, <3>2
  <2>2. \A y \in handles : y.id # v
    BY DEF New
  <2> QED BY <2>1, <2>2
<1> QED BY <1>18, <1>19, <1>20 DEF Map!Put, L, M

(* The first half of a removal takes the value away. *)
LEMMA RemoveMaps ==
  ASSUME MapInv, PresentPicks, PresentPicks', ~Careless,
         NEW i \in SlotsOf(a), a.val[i] # NoValue, ~BeingRemoved(i), Destruct(i)
  PROVE  Map!Change
<1> DEFINE L == Present
           M == Present'
           u == UsedChain(a)
           K == Kept
           N == Kept'
           f == a.val
<1>1. /\ a' = Invalidated(a, i) /\ handles' = handles
  BY DEF Destruct
<1>2. /\ a'.val = f /\ UsedChain(a') = u /\ SlotsOf(a') = SlotsOf(a)
  BY <1>1, InvalidatedSound DEF MapInv, SlotInv, SlotsOf
<1>3. \A j : BeingRemoved(j)' <=> BeingRemoved(j) \/ j = i
  BY DestructStep DEF MapInv
<1>4. N = K \ {i}
  BY <1>2, <1>3 DEF Kept
<1>5. i \in K /\ i \in Elems(u)
  BY ChainFacts DEF Kept, MapInv, SlotInv
<1>6. \A j \in K : j \in Elems(u) /\ f[j] = f[i] => j = i
  BY DEF MapInv, ValuesApart, Kept
<1>7. /\ L \in Seq(Values) /\ Distinct(L) /\ Picks(L, u, K, f)
      /\ M \in Seq(Values) /\ Distinct(M) /\ Picks(M, u, N, f)
  BY <1>2 DEF PresentPicks
<1> HIDE DEF L, M, u, K, N, f
<1>9. Alike(u, N, f, u, K \ {i}, f)
  BY <1>4 DEF Alike
<1>10. PICK p \in 1..Len(L) : L[p] = f[i] /\ M = Cut(L, p)
  BY ONLY <1>5, <1>6, <1>7, <1>9, LacksOne
<1>11. Cut(L, p) = SubSeq(L, 1, p - 1) \o SubSeq(L, p + 1, Len(L))
  BY <1>7, CutIsParts
<1>12. Map!Remove(p)
  BY <1>10, <1>11 DEF Map!Remove, Map!Without, L, M
<1> QED BY <1>1, <1>10, <1>12 DEF Map!Change, L

(* The second half changes nothing that is shown. *)
LEMMA EndMaps ==
  ASSUME MapInv, PresentPicks, PresentPicks', EndRemove
  PROVE  Present' = Present /\ handles' = handles
<1> DEFINE L == Present
           M == Present'
           u == UsedChain(a)
           w == UsedChain(a')
           K == Kept
           N == Kept'
           f == a.val
           g == a'.val
           i == removing[Len(removing)]
<1>1. a' = Unlinked(a, i) /\ handles' = handles /\ removing # <<>>
  BY DEF EndRemove
<1>2. i \in SlotsOf(a) /\ a.val[i] # NoValue /\ BeingRemoved(i)
  <2>1. RemovedAreUsed
    BY DEF MapInv, SlotInv
  <2>2. Len(removing) \in 1..Len(removing)
    BY <1>1, SlotInvTypes, LenProperties DEF MapInv
  <2> QED BY <2>1, <2>2, SlotInvTypes DEF MapInv, RemovedAreUsed, BeingRemoved
<1>3. \A j : BeingRemoved(j)' <=> BeingRemoved(j) /\ j # i
  BY EndRemoveStep DEF MapInv
<1> HIDE DEF i
<1>4. g = [f EXCEPT ![i] = NoValue] /\ CutFrom(w, u, i)
  BY <1>1, <1>2, UnlinkedSound DEF MapInv, SlotInv
<1>5. /\ SlotsOf(a') = SlotsOf(a)
      /\ \A j \in SlotsOf(a) : g[j] = IF j = i THEN NoValue ELSE f[j]
  <2>1. f \in [SlotsOf(a) -> Values \cup {NoValue}] /\ SlotsOf(a) = 1..Len(f)
        /\ Len(f) \in Nat
    BY SlotInvTypes DEF MapInv
  <2>2. /\ g \in [SlotsOf(a) -> Values \cup {NoValue}]
        /\ \A j \in SlotsOf(a) : g[j] = IF j = i THEN NoValue ELSE f[j]
    BY <1>4, <2>1
  <2>3. Len(g) = Len(f)
    BY <2>1, <2>2, FunIsSeq
  <2> QED BY <2>1, <2>2, <2>3 DEF SlotsOf
<1>7. /\ u \in Seq(SlotsOf(a)) /\ Distinct(u)
      /\ \A j : j \in Elems(u) <=> j \in SlotsOf(a) /\ f[j] # NoValue
  BY ChainFacts DEF MapInv, SlotInv
<1>8. \A j \in SlotsOf(a) : j # i => (j \in N <=> j \in K) /\ g[j] = f[j]
  BY <1>3, <1>5 DEF Kept
<1>9. K \ {i} = K
  BY <1>2 DEF Kept
<1>10. /\ L \in Seq(Values) /\ Distinct(L) /\ Picks(L, u, K, f)
       /\ M \in Seq(Values) /\ Distinct(M) /\ Picks(M, w, N, g)
  BY DEF PresentPicks
<1> HIDE DEF L, M, u, w, K, N, f, g
<1>11. \A j \in Elems(u) : j # i => (j \in N <=> j \in K) /\ g[j] = f[j]
  BY <1>7, <1>8
<1>12. Alike(w, N, g, u, K \ {i}, f)
  BY ONLY <1>4, <1>7, <1>11, AlikeCut
<1>13. Alike(w, N, g, u, K, f)
  BY <1>9, <1>12
<1>14. M = L
  BY ONLY <1>10, <1>13, SamePicks
<1> QED BY <1>1, <1>14 DEF L, M

(* A slot that becomes the first of the chain shows its value first. *)
LEMMA FrontMaps ==
  ASSUME MapInv, PresentPicks, PresentPicks', UNCHANGED <<handles, removing>>,
         NEW i \in SlotsOf(a), a.val[i] # NoValue, ~BeingRemoved(i),
         a' = MovedToFront(a, i)
  PROVE  Map!Change
<1> DEFINE L == Present
           M == Present'
           u == UsedChain(a)
           w == UsedChain(a')
           K == Kept
           f == a.val
<1>1. /\ Sound(a') /\ a'.val = f /\ Reput(u, w, i)
      /\ w[1] = i /\ Len(w) = Len(u)
  BY MovedToFrontSound DEF MapInv, SlotInv
<1>2. SlotsOf(a') = SlotsOf(a) /\ Kept' = K
  BY <1>1 DEF SlotsOf, Kept, BeingRemoved
<1>4. /\ u \in Seq(SlotsOf(a)) /\ Distinct(u) /\ i \in Elems(u)
  BY ChainFacts DEF MapInv, SlotInv
<1>5. w \in Seq(SlotsOf(a)) /\ Distinct(w)
  BY <1>1, <1>2, ChainFacts
<1>6. i \in K
  BY DEF Kept
<1>7. \A j \in K : f[j] = f[i] => j = i
  BY DEF MapInv, ValuesApart, Kept
<1>8. /\ L \in Seq(Values) /\ Distinct(L) /\ Picks(L, u, K, f)
      /\ M \in Seq(Values) /\ Distinct(M) /\ Picks(M, w, K, f)
  BY <1>1, <1>2 DEF PresentPicks
<1> HIDE DEF L, M, u, w, K, f
<1>9. Elems(u) = Elems(w) /\ Alike(u, K \ {i}, f, w, K \ {i}, f)
  BY ONLY <1>1, <1>4, <1>5, AlikeReput
<1>10. PICK p \in 1..Len(L) : L[p] = f[i] /\ Picks(Cut(L, p), u, K \ {i}, f)
  BY ONLY <1>4, <1>6, <1>7, <1>8, CutPicks
<1>11. PICK q \in 1..Len(M) : M[q] = f[i] /\ Picks(Cut(M, q), w, K \ {i}, f)
  <2>1. i \in Elems(w)
    BY <1>4, <1>9
  <2> QED BY ONLY <1>6, <1>7, <1>8, <2>1, CutPicks
<1>12. Cut(L, p) = Cut(M, q)
  <2> DEFINE c == Cut(L, p)
             d == Cut(M, q)
             N == K \ {i}
  <2>1. /\ c \in Seq(Values) /\ Distinct(c) /\ d \in Seq(Values) /\ Distinct(d)
    BY <1>8, CutSeq
  <2>2. Picks(c, u, N, f) /\ Picks(d, w, N, f) /\ Alike(u, N, f, w, N, f)
    BY <1>9, <1>10, <1>11
  <2> HIDE DEF c, d, N
  <2>3. c = d
    BY ONLY <2>1, <2>2, SamePicks
  <2> QED BY <2>3 DEF c, d
<1>13. Len(M) \in Nat /\ Len(w) \in Nat
  BY <1>5, <1>8, LenProperties
<1>14. q = 1
  <2> SUFFICES ASSUME q # 1 PROVE FALSE
    OBVIOUS
  <2>1. Ranks(M, M[1], M[q])
    <3>1. 1 \in 1..Len(M) /\ 1 < q
      BY <1>11, <1>13
    <3> QED BY <1>11, <3>1 DEF Ranks
  <2>2. PICK j, k \in K : Ranks(w, j, k) /\ f[k] = f[i]
    BY <1>8, <1>11, <2>1 DEF Picks
  <2>3. k = i
    BY <1>7, <2>2
  <2>4. PICK m, n \in 1..Len(w) : m < n /\ w[n] = i
    BY <2>2, <2>3 DEF Ranks
  <2>5. 1 \in 1..Len(w)
    BY <1>13, <2>4
  <2>6. n = 1
    BY <1>1, <1>5, <2>4, <2>5 DEF Distinct
  <2> QED BY <1>13, <2>4, <2>6
<1>15. M = <<M[1]>> \o Cut(M, 1)
  <2>1. 1 \in 1..Len(M)
    BY <1>11, <1>14
  <2>2. M \in Seq(Values) /\ Distinct(M)
    BY <1>8
  <2> DEFINE c == Cut(M, 1)
  <2>3. c = Cut(M, 1)
    OBVIOUS
  <2> HIDE DEF c
  <2>4. M = <<M[1]>> \o c
    BY ONLY <2>1, <2>2, <2>3, FrontParts
  <2> QED BY <2>3, <2>4
<1>16. Cut(L, p) = SubSeq(L, 1, p - 1) \o SubSeq(L, p + 1, Len(L))
  BY <1>8, CutIsParts
<1>17. Map!ToFront(p)
  BY <1>10, <1>11, <1>12, <1>14, <1>15, <1>16 DEF Map!ToFront, Map!Without, L, M
<1> QED BY <1>10, <1>17 DEF Map!Change, L

(* And one that becomes the last shows it last. *)
LEMMA BackMaps ==
  ASSUME MapInv, PresentPicks, PresentPicks', UNCHANGED <<handles, removing>>,
         NEW i \in SlotsOf(a), a.val[i] # NoValue, ~BeingRemoved(i),
         a' = MovedToBack(a, i)
  PROVE  Map!Change
<1> DEFINE L == Present
           M == Present'
           u == UsedChain(a)
           w == UsedChain(a')
           K == Kept
           f == a.val
<1>1. /\ Sound(a') /\ a'.val = f /\ Reput(u, w, i)
      /\ w[Len(u)] = i /\ Len(w) = Len(u)
  BY MovedToBackSound DEF MapInv, SlotInv
<1>2. SlotsOf(a') = SlotsOf(a) /\ Kept' = K
  BY <1>1 DEF SlotsOf, Kept, BeingRemoved
<1>4. /\ u \in Seq(SlotsOf(a)) /\ Distinct(u) /\ i \in Elems(u)
  BY ChainFacts DEF MapInv, SlotInv
<1>5. w \in Seq(SlotsOf(a)) /\ Distinct(w)
  BY <1>1, <1>2, ChainFacts
<1>6. i \in K
  BY DEF Kept
<1>7. \A j \in K : f[j] = f[i] => j = i
  BY DEF MapInv, ValuesApart, Kept
<1>8. /\ L \in Seq(Values) /\ Distinct(L) /\ Picks(L, u, K, f)
      /\ M \in Seq(Values) /\ Distinct(M) /\ Picks(M, w, K, f)
  BY <1>1, <1>2 DEF PresentPicks
<1> HIDE DEF L, M, u, w, K, f
<1>9. Elems(u) = Elems(w) /\ Alike(u, K \ {i}, f, w, K \ {i}, f)
  BY ONLY <1>1, <1>4, <1>5, AlikeReput
<1>10. PICK p \in 1..Len(L) : L[p] = f[i] /\ Picks(Cut(L, p), u, K \ {i}, f)
  BY ONLY <1>4, <1>6, <1>7, <1>8, CutPicks
<1>11. PICK q \in 1..Len(M) : M[q] = f[i] /\ Picks(Cut(M, q), w, K \ {i}, f)
  <2>1. i \in Elems(w)
    BY <1>4, <1>9
  <2> QED BY ONLY <1>6, <1>7, <1>8, <2>1, CutPicks
<1>12. Cut(L, p) = Cut(M, q)
  <2> DEFINE c == Cut(L, p)
             d == Cut(M, q)
             N == K \ {i}
  <2>1. /\ c \in Seq(Values) /\ Distinct(c) /\ d \in Seq(Values) /\ Distinct(d)
    BY <1>8, CutSeq
  <2>2. Picks(c, u, N, f) /\ Picks(d, w, N, f) /\ Alike(u, N, f, w, N, f)
    BY <1>9, <1>10, <1>11
  <2> HIDE DEF c, d, N
  <2>3. c = d
    BY ONLY <2>1, <2>2, SamePicks
  <2> QED BY <2>3 DEF c, d
<1>13. Len(M) \in Nat /\ Len(w) \in Nat
  BY <1>5, <1>8, LenProperties
<1>14. q = Len(M)
  <2> SUFFICES ASSUME q # Len(M) PROVE FALSE
    OBVIOUS
  <2>1. Ranks(M, M[q], M[Len(M)])
    <3>1. Len(M) \in 1..Len(M) /\ q < Len(M)
      BY <1>11, <1>13
    <3> QED BY <1>11, <3>1 DEF Ranks
  <2>2. PICK j, k \in K : Ranks(w, j, k) /\ f[j] = f[i]
    BY <1>8, <1>11, <2>1 DEF Picks
  <2>3. j = i
    BY <1>7, <2>2
  <2>4. PICK m, n \in 1..Len(w) : m < n /\ w[m] = i
    BY <2>2, <2>3 DEF Ranks
  <2>5. Len(w) \in 1..Len(w)
    BY <1>13, <2>4
  <2>6. m = Len(w)
    BY <1>1, <1>5, <2>4, <2>5 DEF Distinct
  <2> QED BY <1>13, <2>4, <2>6
<1>15. M = Append(Cut(M, Len(M)), M[Len(M)])
  <2>1. Len(M) \in 1..Len(M)
    BY <1>11, <1>14
  <2>2. M \in Seq(Values) /\ Distinct(M)
    BY <1>8
  <2> DEFINE c == Cut(M, Len(M))
  <2>3. c = Cut(M, Len(M))
    OBVIOUS
  <2> HIDE DEF c
  <2>4. M = Append(c, M[Len(M)])
    BY ONLY <2>1, <2>2, <2>3, BackParts
  <2> QED BY <2>3, <2>4
<1>16. Cut(L, p) = SubSeq(L, 1, p - 1) \o SubSeq(L, p + 1, Len(L))
  BY <1>8, CutIsParts
<1>17. Map!ToBack(p)
  BY <1>10, <1>11, <1>12, <1>14, <1>15, <1>16 DEF Map!ToBack, Map!Without, L, M
<1> QED BY <1>10, <1>17 DEF Map!Change, L

LEMMA ClearMaps ==
  ASSUME MapInv, PresentPicks', Clear
  PROVE  Map!Change
<1>1. a' = Cleared(a) /\ handles' = handles
  BY DEF Clear
<1>2. /\ UsedChain(a') = <<>> /\ Len(a'.val) = Len(a.val)
      /\ \A i \in SlotsOf(a) : a'.val[i] = NoValue
  BY <1>1, ClearedSound DEF MapInv, SlotInv
<1> DEFINE M == Present'
<1>4. M \in Seq(Values) /\ Picks(M, <<>>, Kept', a'.val)
  BY <1>2 DEF PresentPicks
<1> HIDE DEF M
<1>5. Elems(<<>>) = {}
  BY DEF Elems
<1>6. Elems(M) = {}
  BY <1>4, <1>5 DEF Picks
<1>7. M = <<>>
  <2>1. Len(M) \in Nat
    BY <1>4, LenProperties
  <2>2. Len(M) = 0
    <3>1. Len(M) # 0 => 1 \in 1..Len(M)
      BY <2>1
    <3> QED BY <1>6, <3>1 DEF Elems
  <2> QED BY <1>4, <2>2, EmptySeq
<1>8. Map!Clear
  BY <1>7 DEF Map!Clear, M
<1> QED BY <1>1, <1>8 DEF Map!Change

(* Forgetting a handle, which need not be the last one of its value. *)
LEMMA DropMaps ==
  ASSUME MapInv, NEW h \in handles, Drop(h)
  PROVE  Map!Forget(h.id) \/ UNCHANGED <<Present, {x.id : x \in handles}>>
<1>1. /\ handles' = handles \ {h} /\ a' = a /\ removing' = removing
  BY DEF Drop
<1>2. Present' = Present
  BY <1>1 DEF Present, BeingRemoved
<1>3. CASE \E x \in handles \ {h} : x.id = h.id
  <2>1. {x.id : x \in handles'} = {x.id : x \in handles}
    BY <1>1, <1>3
  <2> QED BY <1>2, <2>1
<1>4. CASE ~\E x \in handles \ {h} : x.id = h.id
  <2>1. {x.id : x \in handles'} = {x.id : x \in handles} \ {h.id}
    BY <1>1, <1>4
  <2> QED BY <1>2, <2>1 DEF Map!Forget
<1> QED BY <1>3, <1>4

(* No value is ever in two slots. *)
LEMMA EndApart ==
  ASSUME MapInv, EndRemove
  PROVE  ValuesApart'
<1> DEFINE i == removing[Len(removing)]
<1>1. a' = Unlinked(a, i) /\ removing # <<>>
  BY DEF EndRemove
<1>2. i \in SlotsOf(a) /\ a.val[i] # NoValue
  <2>1. RemovedAreUsed
    BY DEF MapInv, SlotInv
  <2>2. Len(removing) \in 1..Len(removing)
    BY <1>1, SlotInvTypes, LenProperties DEF MapInv
  <2> QED BY <2>1, <2>2, SlotInvTypes DEF MapInv, RemovedAreUsed
<1> HIDE DEF i
<1>3. a'.val = [a.val EXCEPT ![i] = NoValue]
  BY <1>1, <1>2, UnlinkedSound DEF MapInv, SlotInv
<1>4. /\ SlotsOf(a') = SlotsOf(a)
      /\ \A j \in SlotsOf(a) : a'.val[j] = IF j = i THEN NoValue ELSE a.val[j]
  <2>1. a.val \in [SlotsOf(a) -> Values \cup {NoValue}] /\ SlotsOf(a) = 1..Len(a.val)
        /\ Len(a.val) \in Nat
    BY SlotInvTypes DEF MapInv
  <2>2. /\ a'.val \in [SlotsOf(a) -> Values \cup {NoValue}]
        /\ \A j \in SlotsOf(a) : a'.val[j] = IF j = i THEN NoValue ELSE a.val[j]
    BY <1>3, <2>1
  <2>3. Len(a'.val) = Len(a.val)
    BY <2>1, <2>2, FunIsSeq
  <2> QED BY <2>1, <2>2, <2>3 DEF SlotsOf
<1> QED BY <1>4 DEF MapInv, ValuesApart

LEMMA ApartStep ==
  ASSUME MapInv, ~Careless, [Next]_vars
  PROVE  MapInv'
<1>0. SlotInv /\ ValuesApart /\ Sound(a)
  BY DEF MapInv, SlotInv
<1>1. ASSUME a'.val = a.val PROVE ValuesApart'
  BY <1>0, <1>1 DEF ValuesApart, SlotsOf
<1>2. ASSUME NEW v \in Values, Add(v) PROVE ValuesApart'
  <2>1. a'.val = [Grown(a, 1).val EXCEPT ![Grown(a, 1).free] = v]
    BY <1>0, <1>2, AddedSound DEF Add, Gains
  <2> QED BY <1>0, <1>2, <2>1, PutApart DEF Add
<1>3. ASSUME NEW h \in handles, NEW v \in Values, Insert(h, v) PROVE ValuesApart'
  <2>1. h.index \in SlotsOf(a) /\ a.val[h.index] # NoValue
    BY <1>0, <1>3, ValidIsUsed DEF Insert
  <2>2. a'.val = [Grown(a, 1).val EXCEPT ![Grown(a, 1).free] = v]
    <3>1. Gains(a, a', v)
      BY <1>0, <1>3, <2>1, InsertedSound DEF Insert
    <3> QED BY <3>1 DEF Gains
  <2> QED BY <1>0, <1>3, <2>2, PutApart DEF Insert
<1>4. ASSUME NEW h \in handles, MoveToFront(h) \/ MoveToBack(h) PROVE ValuesApart'
  <2>1. h.index \in SlotsOf(a) /\ a.val[h.index] # NoValue
    BY <1>0, <1>4, ValidIsUsed DEF MoveToFront, MoveToBack
  <2> QED BY <1>0, <1>1, <1>4, <2>1, MovedToFrontSound, MovedToBackSound
          DEF MoveToFront, MoveToBack
<1>5. ASSUME NEW i \in SlotsOf(a), Destruct(i) PROVE ValuesApart'
  BY <1>0, <1>1, <1>5, InvalidatedSound DEF Destruct
<1>6. ASSUME NEW h \in handles, RemoveAt(h) PROVE ValuesApart'
  BY <1>0, <1>5, <1>6, ValidIsUsed DEF RemoveAt
<1>7. ASSUME NEW h \in handles, Drop(h) PROVE ValuesApart'
  BY <1>1, <1>7 DEF Drop
<1>8. ASSUME NEW i \in {a.first, a.last}, RemoveEnd(i) PROVE ValuesApart'
  BY <1>0, <1>5, <1>8, EndIsUsed DEF RemoveEnd
<1>9. ASSUME EndRemove PROVE ValuesApart'
  BY <1>9, EndApart
<1>10. ASSUME Clear PROVE ValuesApart'
  <2>1. /\ Len(a'.val) = Len(a.val)
        /\ \A i \in SlotsOf(a) : a'.val[i] = NoValue
    BY <1>0, <1>10, ClearedSound DEF Clear
  <2> QED BY <2>1 DEF ValuesApart, SlotsOf
<1>11. ASSUME UNCHANGED vars PROVE ValuesApart'
  BY <1>1, <1>11 DEF vars
<1>12. ValuesApart'
  BY <1>2, <1>3, <1>4, <1>6, <1>7, <1>8, <1>9, <1>10, <1>11 DEF Next
<1>13. SlotInv'
  BY <1>0, SlotInvStep
<1> QED BY <1>12, <1>13 DEF MapInv

(* What every step does to the map. *)
MapStep == [Map!Next]_<<Present, {h.id : h \in handles}>>

LEMMA EveryMapStep ==
  ASSUME MapInv, MapInv', PresentPicks, PresentPicks', ~Careless, [Next]_vars
  PROVE  MapStep
<1>0. SlotInv /\ Sound(a) /\ Sound(a') /\ ValuesApart'
  BY DEF MapInv, SlotInv
<1>1. ASSUME NEW v \in Values, Add(v) PROVE MapStep
  <2>1. /\ Grown(a, 1).val[Grown(a, 1).free] = NoValue
        /\ a'.val = [Grown(a, 1).val EXCEPT ![Grown(a, 1).free] = v]
        /\ CutFrom(UsedChain(a), UsedChain(a'), Grown(a, 1).free)
    BY <1>0, <1>1, AddedSound DEF Add, Gains
  <2>2. Map!Put(v)
    BY <1>0, <1>1, <2>1, PutMaps DEF Add
  <2> QED BY <2>2 DEF MapStep, Map!Next
<1>2. ASSUME NEW h \in handles, NEW v \in Values, Insert(h, v) PROVE MapStep
  <2>1. h.index \in SlotsOf(a) /\ a.val[h.index] # NoValue
    BY <1>0, <1>2, ValidIsUsed DEF Insert
  <2>2. /\ Grown(a, 1).val[Grown(a, 1).free] = NoValue
        /\ a'.val = [Grown(a, 1).val EXCEPT ![Grown(a, 1).free] = v]
        /\ CutFrom(UsedChain(a), UsedChain(a'), Grown(a, 1).free)
    <3>1. Gains(a, a', v)
      BY <1>0, <1>2, <2>1, InsertedSound DEF Insert
    <3> QED BY <3>1 DEF Gains
  <2>3. Map!Put(v)
    BY <1>0, <1>2, <2>2, PutMaps DEF Insert
  <2> QED BY <2>3 DEF MapStep, Map!Next
<1>3. ASSUME NEW h \in handles, MoveToFront(h) PROVE MapStep
  <2>1. h.index \in SlotsOf(a) /\ a.val[h.index] # NoValue /\ ~BeingRemoved(h.index)
    BY <1>0, <1>3, ValidIsUsed DEF MoveToFront
  <2>2. Map!Change
    BY <1>3, <2>1, FrontMaps DEF MoveToFront
  <2> QED BY <2>2 DEF MapStep, Map!Next
<1>4. ASSUME NEW h \in handles, MoveToBack(h) PROVE MapStep
  <2>1. h.index \in SlotsOf(a) /\ a.val[h.index] # NoValue /\ ~BeingRemoved(h.index)
    BY <1>0, <1>4, ValidIsUsed DEF MoveToBack
  <2>2. Map!Change
    BY <1>4, <2>1, BackMaps DEF MoveToBack
  <2> QED BY <2>2 DEF MapStep, Map!Next
<1>5. ASSUME NEW i \in SlotsOf(a), a.val[i] # NoValue, ~BeingRemoved(i), Destruct(i)
      PROVE  MapStep
  <2>1. Map!Change
    BY <1>5, RemoveMaps
  <2> QED BY <2>1 DEF MapStep, Map!Next
<1>6. ASSUME NEW h \in handles, RemoveAt(h) PROVE MapStep
  BY <1>0, <1>5, <1>6, ValidIsUsed DEF RemoveAt
<1>7. ASSUME NEW i \in {a.first, a.last}, RemoveEnd(i) PROVE MapStep
  BY <1>0, <1>5, <1>7, EndIsUsed DEF RemoveEnd
<1>8. ASSUME NEW x \in handles, Drop(x) PROVE MapStep
  <2>1. x.id \in Values
    BY <1>0, SlotInvTypes
  <2>2. Map!Forget(x.id) \/ UNCHANGED <<Present, {h.id : h \in handles}>>
    BY <1>8, DropMaps
  <2> QED BY <2>1, <2>2 DEF MapStep, Map!Next
<1>9. CASE EndRemove
  <2>1. Present' = Present /\ handles' = handles
    BY <1>9, EndMaps
  <2> QED BY <2>1 DEF MapStep
<1>10. CASE Clear
  <2>1. Map!Change
    BY <1>10, ClearMaps
  <2> QED BY <2>1 DEF MapStep, Map!Next
<1>11. CASE UNCHANGED vars
  <2>1. a' = a /\ handles' = handles /\ removing' = removing
    BY <1>11 DEF vars
  <2>2. Present' = Present
    BY <2>1 DEF Present, BeingRemoved
  <2> QED BY <2>1, <2>2 DEF MapStep
<1> QED BY <1>1, <1>2, <1>3, <1>4, <1>6, <1>7, <1>8, <1>9, <1>10, <1>11 DEF Next

(***************************************************************************)
(* The array implements the ordered map, for any number of values, slots   *)
(* and nested destructors: every operation of SArray makes one change to   *)
(* the order of the values that are present, and the second half of        *)
(* remove_at none.                                                         *)
(***************************************************************************)
THEOREM SlotsImplementMap ==
  ASSUME ~Careless
  PROVE  Spec => ImplementsOrderedMap
<1> DEFINE Starts == Present = <<>> /\ {h.id : h \in handles} = {}
<1>1. Init => MapInv /\ Starts
  <2> SUFFICES ASSUME Init PROVE MapInv /\ Starts
    OBVIOUS
  <2>1. a = Empty /\ handles = {} /\ removing = <<>>
    BY DEF Init
  <2>2. SlotInv
    BY SlotInvInit
  <2>3. SlotsOf(a) = {}
    BY <2>1 DEF SlotsOf, Empty
  <2>4. MapInv
    BY <2>2, <2>3 DEF MapInv, ValuesApart
  <2>5. PresentPicks
    BY <2>4, PresentSound
  <2>6. Elems(Present) = {}
    BY <2>3, <2>5 DEF PresentPicks, Picks, Kept
  <2>7. Present = <<>>
    <3>1. Present \in Seq(Values) /\ Len(Present) \in Nat
      BY <2>5, LenProperties DEF PresentPicks
    <3>2. Len(Present) # 0 => 1 \in 1..Len(Present)
      BY <3>1
    <3>3. Len(Present) = 0
      BY <2>6, <3>2 DEF Elems
    <3> QED BY <3>1, <3>3, EmptySeq
  <2> QED BY <2>1, <2>4, <2>7
<1>2. MapInv /\ [Next]_vars => MapInv'
  BY ApartStep
<1>3. MapInv => PresentPicks
  BY PresentSound
<1>4. MapInv /\ MapInv' /\ PresentPicks /\ PresentPicks' /\ [Next]_vars => MapStep
  BY EveryMapStep
<1> QED BY <1>1, <1>2, <1>3, <1>4, PTL
       DEF Spec, MapStep, ImplementsOrderedMap, Map!Spec
=============================================================================
