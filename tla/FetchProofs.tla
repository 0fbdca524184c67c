------------------------------- MODULE FetchProofs -------------------------------
(***************************************************************************)
(* That a listing comes whole and from one source, and that a listing      *)
(* fails only when every source has, for every adapter, configuration,     *)
(* number of rows and failure.                                             *)
(*                                                                         *)
(* What has been tried is a sequence of any length, so some facts need     *)
(* induction.  It is done on sets of numbers: a set with 0 and the         *)
(* successor of each of its members has every number.                      *)
(***************************************************************************)
EXTENDS MetadataPlanProofs, NaturalsInduction, WellFoundedInduction

\* Numbers have a least one among them.
LEMMA LeastNumber ==
  ASSUME NEW T \in SUBSET Nat, T # {}
  PROVE  \E x \in T : \A y \in T : x <= y
<1>1. IsWellFoundedOn(OpToRel(<, Nat), Nat)
  BY NatLessThanWellFounded
<1>2. \E x \in T : \A y \in T : ~(<< y, x >> \in OpToRel(<, Nat))
  BY <1>1, WFMin
<1>3. \A x, y \in T : << y, x >> \in OpToRel(<, Nat) <=> y < x
  BY DEF OpToRel
<1>4. \E x \in T : \A y \in T : ~(y < x)
  BY <1>2, <1>3
<1> QED
  BY <1>4

\* What holds of 0 and of the successor of each number it holds of, as a set.
LEMMA EveryNumber ==
  ASSUME NEW T, 0 \in T, \A n \in Nat : n \in T => n + 1 \in T
  PROVE  Nat \subseteq T
<1> SUFFICES ASSUME NEW m \in Nat, m \notin T PROVE FALSE
  OBVIOUS
<1> DEFINE U == { n \in Nat : n \notin T }
<1>1. PICK x \in U : \A y \in U : x <= y
  BY LeastNumber
<1>2. x # 0 /\ x - 1 \in Nat /\ x - 1 \in T
  BY <1>1
<1> QED
  BY <1>1, <1>2
------------------------------------------------------------------------------
\* Sums.

\* t has the sums of the first 0, 1, ... numbers of s.
IsTotal(t, s) ==
  t = [i \in 0 .. Len(s) |-> IF i = 0 THEN 0 ELSE t[i - 1] + s[i]]

\* The one function that adds up a sequence gives its total.
LEMMA TotalIs ==
  ASSUME NEW s, NEW t, IsTotal(t, s), \A u : IsTotal(u, s) => u = t
  PROVE  Total(s) = t[Len(s)]
BY DEF Total, IsTotal

\* There is one such t.
LEMMA OneTotal ==
  ASSUME NEW s, Len(s) \in Nat, NEW t, IsTotal(t, s), NEW u, IsTotal(u, s)
  PROVE  t = u
<1> DEFINE n == Len(s)
           T == { k \in Nat : k <= n => t[k] = u[k] }
<1>1. n \in Nat
  OBVIOUS
<1>2. /\ t = [i \in 0 .. n |-> IF i = 0 THEN 0 ELSE t[i - 1] + s[i]]
      /\ u = [i \in 0 .. n |-> IF i = 0 THEN 0 ELSE u[i - 1] + s[i]]
  BY DEF IsTotal
<1> HIDE DEF n
<1>3. 0 \in T
  <2>1. 0 \in 0 .. n
    BY <1>1
  <2>2. t[0] = 0 /\ u[0] = 0
    BY <1>2, <2>1
  <2> QED
    BY <2>2
<1>4. ASSUME NEW k \in Nat, k \in T PROVE k + 1 \in T
  <2> SUFFICES ASSUME k + 1 <= n PROVE t[k + 1] = u[k + 1]
    OBVIOUS
  <2> DEFINE m == k + 1
  <2>1. m \in 0 .. n /\ m # 0 /\ m - 1 = k /\ t[k] = u[k]
    BY <1>1, <1>4
  <2> HIDE DEF m
  <2>2. t[m] = t[m - 1] + s[m] /\ u[m] = u[m - 1] + s[m]
    BY <1>2, <2>1
  <2>3. t[m] = u[m]
    BY <2>1, <2>2
  <2> QED
    BY <2>3 DEF m
<1> HIDE DEF T
<1>5. Nat \subseteq T
  BY <1>3, <1>4, EveryNumber
<1>6. \A i \in 0 .. n : t[i] = u[i]
  BY <1>1, <1>5 DEF T
<1> QED
  BY <1>2, <1>6

\* The sums of s go on in the sums of Append(s, x).
LEMMA MoreTotal ==
  ASSUME NEW s \in Seq(Nat), NEW x \in Nat, NEW t \in [0 .. Len(s) -> Nat], IsTotal(t, s)
  PROVE  \E u \in [0 .. Len(s) + 1 -> Nat] :
           IsTotal(u, Append(s, x)) /\ u[Len(s) + 1] = t[Len(s)] + x
<1> DEFINE n == Len(s)
           a == Append(s, x)
           u == [i \in 0 .. n + 1 |-> IF i <= n THEN t[i] ELSE t[n] + x]
<1>1. /\ n \in Nat /\ Len(a) = n + 1 /\ a[n + 1] = x
      /\ \A i \in 1 .. n : a[i] = s[i] /\ s[i] \in Nat
  BY AppendProperties, LenProperties, ElementOfSeq
<1>2. t = [i \in 0 .. n |-> IF i = 0 THEN 0 ELSE t[i - 1] + s[i]]
  BY DEF IsTotal
<1>3. t \in [0 .. n -> Nat]
  OBVIOUS
<1> HIDE DEF n, a
<1>4. u \in [0 .. n + 1 -> Nat] /\ u[n + 1] = t[n] + x
  BY <1>1, <1>3
<1>5. ASSUME NEW i \in 0 .. n + 1
      PROVE  u[i] = IF i = 0 THEN 0 ELSE u[i - 1] + a[i]
  <2>1. CASE i = 0
    <3>1. 0 \in 0 .. n /\ 0 <= n
      BY <1>1
    <3>2. t[0] = 0
      BY <1>2, <3>1
    <3> QED
      BY <2>1, <3>1, <3>2
  <2>2. CASE i \in 1 .. n
    <3>1. i \in 0 .. n /\ i # 0 /\ i <= n /\ i - 1 \in 0 .. n + 1 /\ i - 1 <= n
      BY <1>1, <2>2
    <3>2. t[i] = t[i - 1] + s[i]
      BY <1>2, <3>1
    <3> QED
      BY <1>1, <2>2, <3>1, <3>2
  <2>3. CASE i = n + 1
    <3>1. i # 0 /\ ~(i <= n) /\ i - 1 = n /\ n \in 0 .. n + 1
      BY <1>1, <2>3
    <3>2. u[i] = t[n] + x /\ u[n] = t[n]
      BY <1>1, <3>1
    <3> QED
      BY <1>1, <2>3, <3>1, <3>2
  <2> QED
    BY <1>1, <2>1, <2>2, <2>3
<1> HIDE DEF u
<1>6. u = [i \in 0 .. n + 1 |-> IF i = 0 THEN 0 ELSE u[i - 1] + a[i]]
  BY <1>4, <1>5
<1>7. IsTotal(u, a)
  BY <1>1, <1>6 DEF IsTotal
<1> QED
  BY <1>4, <1>7 DEF n, a

\* Every sequence of numbers has its sums: those of its first n numbers, for
\* every n.
LEMMA SomeTotal ==
  ASSUME NEW s \in Seq(Nat)
  PROVE  \E t \in [0 .. Len(s) -> Nat] : IsTotal(t, s)
<1> DEFINE T == { n \in Nat :
                    \A q \in Seq(Nat) : Len(q) = n =>
                      \E t \in [0 .. n -> Nat] : IsTotal(t, q) }
<1>1. 0 \in T
  <2> SUFFICES ASSUME NEW q \in Seq(Nat), Len(q) = 0
               PROVE  \E t \in [0 .. 0 -> Nat] : IsTotal(t, q)
    OBVIOUS
  <2> DEFINE t == [i \in 0 .. 0 |-> 0]
  <2>1. t \in [0 .. 0 -> Nat] /\ t = [i \in 0 .. 0 |-> IF i = 0 THEN 0 ELSE t[i - 1] + q[i]]
    OBVIOUS
  <2> HIDE DEF t
  <2> QED
    BY <2>1 DEF IsTotal
<1>2. ASSUME NEW n \in Nat, n \in T PROVE n + 1 \in T
  <2> SUFFICES ASSUME NEW q \in Seq(Nat), Len(q) = n + 1
               PROVE  \E t \in [0 .. n + 1 -> Nat] : IsTotal(t, q)
    OBVIOUS
  <2> DEFINE s0 == [i \in 1 .. n |-> q[i]]
             x  == q[n + 1]
  <2>1. /\ s0 \in Seq(Nat) /\ Len(s0) = n /\ x \in Nat
        /\ \A i \in 1 .. n : s0[i] = q[i]
    <3>1. \A i \in 1 .. n + 1 : q[i] \in Nat
      BY ElementOfSeq
    <3> QED
      BY <3>1
  <2> HIDE DEF s0, x
  <2>2. q = Append(s0, x)
    <3>1. /\ Append(s0, x) \in Seq(Nat) /\ Len(Append(s0, x)) = n + 1
          /\ Append(s0, x)[n + 1] = x
          /\ \A i \in 1 .. n : Append(s0, x)[i] = s0[i]
      BY <2>1, AppendProperties
    <3>2. \A i \in 1 .. n + 1 : q[i] = Append(s0, x)[i]
      <4>1. \A i \in 1 .. n + 1 : i \in 1 .. n \/ i = n + 1
        OBVIOUS
      <4> QED
        BY <2>1, <3>1, <4>1 DEF x
    <3> QED
      BY <3>1, <3>2, SeqEqual
  <2>3. PICK t \in [0 .. n -> Nat] : IsTotal(t, s0)
    BY <1>2, <2>1
  <2>4. \E u \in [0 .. n + 1 -> Nat] : IsTotal(u, Append(s0, x))
    BY <2>1, <2>3, MoreTotal
  <2> QED
    BY <2>2, <2>4
<1> HIDE DEF T
<1>3. Nat \subseteq T
  BY <1>1, <1>2, EveryNumber
<1>4. Len(s) \in T
  BY <1>3, LenProperties
<1> QED
  BY <1>4 DEF T

\* The sum of a sequence of numbers is a number, and adding a number at the end
\* adds it to the sum.
LEMMA TotalFacts ==
  ASSUME NEW s \in Seq(Nat), NEW x \in Nat
  PROVE  Total(s) \in Nat /\ Total(Append(s, x)) = Total(s) + x
<1> DEFINE n == Len(s)
           a == Append(s, x)
<1>1. n \in Nat /\ a \in Seq(Nat) /\ Len(a) = n + 1
  BY AppendProperties, LenProperties
<1>2. PICK t \in [0 .. n -> Nat] : IsTotal(t, s)
  BY SomeTotal
<1>3. PICK u \in [0 .. n + 1 -> Nat] : IsTotal(u, a) /\ u[n + 1] = t[n] + x
  BY <1>2, MoreTotal
<1>4. \A v : IsTotal(v, s) => v = t
  BY <1>1, <1>2, OneTotal
<1>5. \A v : IsTotal(v, a) => v = u
  <2>1. Len(a) \in Nat
    BY <1>1
  <2> HIDE DEF a
  <2> QED
    BY <1>3, <2>1, OneTotal
<1>6. Total(s) = t[n]
  BY <1>2, <1>4, TotalIs
<1>7. Total(a) = u[n + 1]
  <2>1. Total(a) = u[Len(a)]
    BY <1>3, <1>5, TotalIs
  <2> QED
    BY <1>1, <2>1
<1>8. t[n] \in Nat
  BY <1>1, <1>2
<1> QED
  BY <1>3, <1>6, <1>7, <1>8
------------------------------------------------------------------------------
\* What has been tried.

\* A sequence of records whose outcomes add up where they are used.
Counts(seq, used) ==
  /\ Len(seq) \in Nat /\ DOMAIN seq = 1 .. Len(seq)
  /\ used \subseteq DOMAIN seq
  /\ \A i \in used : seq[i].outcome \in Nat

\* Where nothing counts there are no rows.
LEMMA NoRows ==
  ASSUME NEW seq, Len(seq) \in Nat, DOMAIN seq = 1 .. Len(seq)
  PROVE  RowsOf(seq, {}) = 0
<1> DEFINE T == { n \in Nat : Total([i \in 1 .. n |-> 0]) = 0 }
<1>1. \A n \in Nat : /\ [i \in 1 .. n |-> 0] \in Seq(Nat)
                     /\ Len([i \in 1 .. n |-> 0]) = n
  OBVIOUS
<1>2. 0 \in T
  <2> DEFINE s == [i \in 1 .. 0 |-> 0]
             t == [i \in 0 .. 0 |-> 0]
  <2>1. s \in Seq(Nat) /\ Len(s) = 0
    BY <1>1
  <2>2. t = [i \in 0 .. 0 |-> IF i = 0 THEN 0 ELSE t[i - 1] + s[i]] /\ t[0] = 0
    OBVIOUS
  <2> HIDE DEF s, t
  <2>3. IsTotal(t, s)
    BY <2>1, <2>2 DEF IsTotal
  <2>4. \A u : IsTotal(u, s) => u = t
    BY <2>1, <2>3, OneTotal
  <2>5. Total(s) = 0
    BY <2>1, <2>2, <2>3, <2>4, TotalIs
  <2> QED
    BY <2>5 DEF s
<1>3. ASSUME NEW n \in Nat, n \in T PROVE n + 1 \in T
  <2> DEFINE s == [i \in 1 .. n |-> 0]
             u == [i \in 1 .. n + 1 |-> 0]
  <2>1. /\ s \in Seq(Nat) /\ Len(s) = n /\ \A i \in 1 .. n : s[i] = 0
        /\ u \in Seq(Nat) /\ Len(u) = n + 1 /\ \A i \in 1 .. n + 1 : u[i] = 0
    BY <1>1
  <2> HIDE DEF s, u
  <2>2. u = Append(s, 0)
    <3>1. /\ Append(s, 0) \in Seq(Nat) /\ Len(Append(s, 0)) = n + 1
          /\ Append(s, 0)[n + 1] = 0
          /\ \A i \in 1 .. n : Append(s, 0)[i] = s[i]
      BY <2>1, AppendProperties
    <3>2. \A i \in 1 .. n + 1 : i \in 1 .. n \/ i = n + 1
      OBVIOUS
    <3>3. \A i \in 1 .. n + 1 : u[i] = Append(s, 0)[i]
      BY <2>1, <3>1, <3>2
    <3> QED
      BY <2>1, <3>1, <3>3, SeqEqual
  <2>3. Total(s) = 0
    BY <1>3 DEF s
  <2>4. Total(u) = Total(s) + 0
    BY <2>1, <2>2, TotalFacts
  <2>5. Total(u) = 0
    BY <2>3, <2>4
  <2> QED
    BY <2>5 DEF u
<1> HIDE DEF T
<1>4. Len(seq) \in T
  BY <1>2, <1>3, EveryNumber
<1>5. Total([i \in 1 .. Len(seq) |-> 0]) = 0
  BY <1>4 DEF T
<1>6. [i \in DOMAIN seq |-> IF i \in {} THEN seq[i].outcome ELSE 0]
        = [i \in 1 .. Len(seq) |-> 0]
  OBVIOUS
<1> QED
  BY <1>5, <1>6 DEF RowsOf

\* One record was added at the end.
Extends(more, seq) ==
  DOMAIN more = 1 .. Len(seq) + 1 /\ \A i \in DOMAIN seq : more[i] = seq[i]

\* One more record counts when it is used.
LEMMA MoreRows ==
  ASSUME NEW seq, NEW used, Counts(seq, used), NEW more, Extends(more, seq)
  PROVE  /\ RowsOf(seq, used) \in Nat
         /\ RowsOf(more, used) = RowsOf(seq, used)
         /\ more[Len(seq) + 1].outcome \in Nat =>
              RowsOf(more, used \cup {Len(seq) + 1})
                = RowsOf(seq, used) + more[Len(seq) + 1].outcome
<1> DEFINE n == Len(seq)
           s == [i \in 1 .. n |-> IF i \in used THEN seq[i].outcome ELSE 0]
           last == more[n + 1].outcome
           with(w) == [i \in 1 .. n + 1 |-> IF i \in w THEN more[i].outcome ELSE 0]
<1>1. /\ n \in Nat /\ DOMAIN seq = 1 .. n /\ DOMAIN more = 1 .. n + 1
      /\ used \subseteq 1 .. n /\ n + 1 \notin used
      /\ \A i \in used : seq[i].outcome \in Nat
      /\ \A i \in 1 .. n : more[i] = seq[i]
  BY DEF Counts, Extends
<1> HIDE DEF n
<1>2. /\ s \in Seq(Nat) /\ Len(s) = n /\ RowsOf(seq, used) = Total(s)
      /\ \A i \in 1 .. n : s[i] = (IF i \in used THEN seq[i].outcome ELSE 0) /\ s[i] \in Nat
  BY <1>1 DEF RowsOf
<1>3. \A i \in 1 .. n + 1 : i \in 1 .. n \/ i = n + 1
  BY <1>1
<1> HIDE DEF s
<1>4. ASSUME NEW w, NEW x \in Nat, \A i \in 1 .. n : i \in w <=> i \in used,
             x = IF n + 1 \in w THEN last ELSE 0
      PROVE  with(w) = Append(s, x)
  <2>1. /\ Append(s, x) \in Seq(Nat) /\ Len(Append(s, x)) = n + 1
        /\ Append(s, x)[n + 1] = x
        /\ \A i \in 1 .. n : Append(s, x)[i] = s[i]
    BY <1>2, AppendProperties
  <2>2. \A i \in 1 .. n : with(w)[i] = s[i]
    BY <1>1, <1>2, <1>3, <1>4
  <2>3. with(w)[n + 1] = x
    BY <1>1, <1>4
  <2>4. \A i \in 1 .. n + 1 : with(w)[i] \in Nat
    BY <1>2, <1>3, <1>4, <2>2, <2>3
  <2>5. with(w) \in Seq(Nat) /\ Len(with(w)) = n + 1
    <3> DEFINE f == with(w)
    <3>1. f = [i \in 1 .. n + 1 |-> f[i]] /\ \A i \in 1 .. n + 1 : f[i] \in Nat
      BY <2>4
    <3> HIDE DEF f
    <3>2. f \in Seq(Nat) /\ Len(f) = n + 1
      BY <1>1, <3>1
    <3> QED
      BY <3>2 DEF f
  <2> HIDE DEF with
  <2>6. \A i \in 1 .. n + 1 : with(w)[i] = Append(s, x)[i]
    BY <1>3, <2>1, <2>2, <2>3
  <2> QED
    BY <2>1, <2>5, <2>6, SeqEqual
<1>5. RowsOf(seq, used) = Total(s)
  BY <1>2
<1>6. \A w : RowsOf(more, w) = Total(with(w))
  BY <1>1 DEF RowsOf
<1> HIDE DEF with, last
<1>7. Total(s) \in Nat /\ \A x \in Nat : Total(Append(s, x)) = Total(s) + x
  BY <1>2, TotalFacts
<1>8. RowsOf(more, used) = RowsOf(seq, used)
  <2>1. with(used) = Append(s, 0)
    BY <1>1, <1>4
  <2>2. Total(s) + 0 = Total(s)
    BY <1>7
  <2> QED
    BY <1>5, <1>6, <1>7, <2>1, <2>2
<1>9. ASSUME last \in Nat
      PROVE  RowsOf(more, used \cup {n + 1}) = RowsOf(seq, used) + last
  <2> DEFINE w == used \cup {n + 1}
  <2>1. n + 1 \in w /\ \A i \in 1 .. n : i \in w <=> i \in used
    BY <1>1
  <2> HIDE DEF w
  <2>2. with(w) = Append(s, last)
    BY <1>4, <1>9, <2>1
  <2>3. RowsOf(more, w) = RowsOf(seq, used) + last
    BY <1>5, <1>6, <1>7, <1>9, <2>2
  <2> QED
    BY <2>3 DEF w
<1> QED
  BY <1>5, <1>7, <1>8, <1>9 DEF n, last
------------------------------------------------------------------------------
\* Plans, and how they change.

\* A plan has tasks, which have alternatives, which are sequences.
LEMMA PlanIs ==
  ASSUME NEW m \in Nat, NEW h, NEW p, PlanFrom(p, h, m)
  PROVE  /\ Len(p) \in Nat \ {0} /\ DOMAIN p = 1 .. Len(p) /\ 1 \in 1 .. Len(p)
         /\ \A k \in 1 .. Len(p) :
              /\ Len(p[k]) \in Nat \ {0} /\ DOMAIN p[k] = 1 .. Len(p[k])
              /\ 1 \in 1 .. Len(p[k])
              /\ \A j \in 1 .. Len(p[k]) : p[k][j] \in Seq(Instructions)
<1>1. /\ p \in Seq(Seq(Seq(Instructions))) /\ Len(p) \in Nat \ {0}
      /\ \A k \in 1 .. Len(p) : p[k] \in Seq(Seq(Instructions)) /\ Len(p[k]) \in Nat \ {0}
  BY FirstAlternative
<1>2. DOMAIN p = 1 .. Len(p) /\ 1 \in 1 .. Len(p)
  BY <1>1, LenProperties
<1>3. ASSUME NEW k \in 1 .. Len(p)
      PROVE  /\ DOMAIN p[k] = 1 .. Len(p[k]) /\ 1 \in 1 .. Len(p[k])
             /\ \A j \in 1 .. Len(p[k]) : p[k][j] \in Seq(Instructions)
  <2>1. p[k] \in Seq(Seq(Instructions)) /\ Len(p[k]) \in Nat \ {0}
    BY <1>1
  <2> QED
    BY <2>1, LenProperties, ElementOfSeq
<1> QED
  BY <1>1, <1>2, <1>3

\* An instruction of the first alternative has been carried out.
LEMMA PlanProceeds ==
  ASSUME NEW m \in Nat, NEW h, NEW p, PlanFrom(p, h, m), NEW s
  PROVE  LET q == [p EXCEPT ![1][1] = s]
         IN  /\ Len(q) = Len(p) /\ DOMAIN q = DOMAIN p /\ q[1][1] = s
             /\ \A k \in 1 .. Len(p) :
                  /\ Len(q[k]) = Len(p[k]) /\ DOMAIN q[k] = DOMAIN p[k]
                  /\ \A j \in 1 .. Len(p[k]) : k # 1 \/ j # 1 => q[k][j] = p[k][j]
<1> DEFINE u == [p[1] EXCEPT ![1] = s]
           q == [p EXCEPT ![1] = u]
<1>1. /\ p \in Seq(Seq(Seq(Instructions))) /\ 1 \in 1 .. Len(p)
      /\ p[1] \in Seq(Seq(Instructions)) /\ 1 \in 1 .. Len(p[1])
      /\ DOMAIN p[1] = 1 .. Len(p[1]) /\ Len(p[1]) \in Nat
      /\ Len(p) \in Nat /\ DOMAIN p = 1 .. Len(p)
  BY PlanIs, FirstAlternative
<1>2. /\ DOMAIN u = 1 .. Len(p[1]) /\ Len(u) = Len(p[1]) /\ u[1] = s
      /\ \A j \in 1 .. Len(p[1]) : j # 1 => u[j] = p[1][j]
  <2>1. DOMAIN u = 1 .. Len(p[1])
    BY <1>1
  <2>2. Len(u) = Len(p[1])
    BY <1>1, <2>1
  <2> QED
    BY <1>1, <2>1, <2>2
<1> HIDE DEF u
<1>3. /\ DOMAIN q = 1 .. Len(p) /\ Len(q) = Len(p) /\ q[1] = u
      /\ \A k \in 1 .. Len(p) : k # 1 => q[k] = p[k]
  <2>1. DOMAIN q = 1 .. Len(p)
    BY <1>1
  <2>2. Len(q) = Len(p)
    BY <1>1, <2>1
  <2> QED
    BY <1>1, <2>1, <2>2
<1> HIDE DEF q
<1>4. q[1][1] = s
  BY <1>2, <1>3
<1>5. ASSUME NEW k \in 1 .. Len(p)
      PROVE  /\ Len(q[k]) = Len(p[k]) /\ DOMAIN q[k] = DOMAIN p[k]
             /\ \A j \in 1 .. Len(p[k]) : k # 1 \/ j # 1 => q[k][j] = p[k][j]
  <2>1. CASE k = 1
    BY <1>1, <1>2, <1>3, <2>1
  <2>2. CASE k # 1
    BY <1>3, <2>2
  <2> QED
    BY <2>1, <2>2
<1>6. q = [p EXCEPT ![1][1] = s]
  BY DEF q, u
<1> QED
  BY <1>1, <1>3, <1>4, <1>5, <1>6

\* The first alternative is given up for the next one.
LEMMA PlanFallsBack ==
  ASSUME NEW m \in Nat, NEW h, NEW p, PlanFrom(p, h, m), Len(p[1]) > 1
  PROVE  LET q == [p EXCEPT ![1] = Tail(@)]
         IN  /\ Len(q) = Len(p) /\ DOMAIN q = DOMAIN p
             /\ Len(q[1]) = Len(p[1]) - 1 /\ DOMAIN q[1] = 1 .. Len(p[1]) - 1
             /\ \A j \in 1 .. Len(p[1]) - 1 : q[1][j] = p[1][j + 1]
             /\ \A k \in 1 .. Len(p) : k # 1 => q[k] = p[k]
<1> DEFINE u == Tail(p[1])
           q == [p EXCEPT ![1] = u]
<1>1. /\ p \in Seq(Seq(Seq(Instructions))) /\ 1 \in 1 .. Len(p)
      /\ p[1] \in Seq(Seq(Instructions)) /\ Len(p[1]) \in Nat \ {0}
      /\ Len(p) \in Nat /\ DOMAIN p = 1 .. Len(p) /\ p[1] # << >>
  BY PlanIs, FirstAlternative DEF PlanFrom
<1>2. /\ u \in Seq(Seq(Instructions)) /\ Len(u) = Len(p[1]) - 1
      /\ \A j \in 1 .. Len(p[1]) - 1 : u[j] = p[1][j + 1]
  BY <1>1, HeadTailProperties
<1>3. DOMAIN u = 1 .. Len(p[1]) - 1
  BY <1>2, LenProperties
<1> HIDE DEF u
<1>4. /\ DOMAIN q = 1 .. Len(p) /\ Len(q) = Len(p) /\ q[1] = u
      /\ \A k \in 1 .. Len(p) : k # 1 => q[k] = p[k]
  BY <1>1, <1>2, ExceptSeq, LenProperties
<1> HIDE DEF q
<1>5. q = [p EXCEPT ![1] = Tail(@)]
  BY DEF q, u
<1> QED
  BY <1>1, <1>2, <1>3, <1>4, <1>5

\* The first task is done.
LEMMA PlanMovesOn ==
  ASSUME NEW m \in Nat, NEW h, NEW p, PlanFrom(p, h, m)
  PROVE  /\ Len(Tail(p)) = Len(p) - 1 /\ DOMAIN Tail(p) = 1 .. Len(p) - 1
         /\ \A k \in 1 .. Len(p) - 1 : Tail(p)[k] = p[k + 1]
         /\ Len(p) = 1 => Tail(p) = << >>
<1>1. p \in Seq(Seq(Seq(Instructions))) /\ p # << >> /\ Len(p) \in Nat \ {0}
  BY FirstAlternative DEF PlanFrom
<1>2. /\ Tail(p) \in Seq(Seq(Seq(Instructions))) /\ Len(Tail(p)) = Len(p) - 1
      /\ \A k \in 1 .. Len(p) - 1 : Tail(p)[k] = p[k + 1]
  BY <1>1, HeadTailProperties
<1>3. DOMAIN Tail(p) = 1 .. Len(p) - 1
  BY <1>2, LenProperties
<1>4. ASSUME Len(p) = 1 PROVE Tail(p) = << >>
  <2>1. Len(Tail(p)) = 0
    BY <1>1, <1>2, <1>4
  <2> QED
    BY <1>2, <2>1, EmptySeq
<1> QED
  BY <1>2, <1>3, <1>4
------------------------------------------------------------------------------
\* Every connection is opened to ask something on it.

HasAsk(s) == \E i \in DOMAIN s : s[i].do = "ask"

\* What opens a connection may leave the asking to what follows it.
LEMMA UsefulConcat ==
  ASSUME NEW x \in Seq(Instructions), NEW y \in Seq(Instructions), IsUseful(y),
         IsUseful(x) \/ HasAsk(y)
  PROVE  IsUseful(x \o y)
<1> DEFINE n == Len(x)
           k == Len(y)
           z == x \o y
<1>1. /\ n \in Nat /\ k \in Nat /\ DOMAIN x = 1 .. n /\ DOMAIN y = 1 .. k
      /\ DOMAIN z = 1 .. n + k
      /\ \A i \in 1 .. n + k : z[i] = IF i <= n THEN x[i] ELSE y[i - n]
  BY ConcatProperties, LenProperties
<1> HIDE DEF n, k, z
<1>2. \A j \in 1 .. k : n + j \in 1 .. n + k /\ n < n + j /\ z[n + j] = y[j]
  <2> SUFFICES ASSUME NEW j \in 1 .. k
               PROVE  n + j \in 1 .. n + k /\ n < n + j /\ z[n + j] = y[j]
    OBVIOUS
  <2>1. n + j \in 1 .. n + k /\ n < n + j /\ ~(n + j <= n) /\ (n + j) - n = j
    BY <1>1
  <2> QED
    BY <1>1, <2>1
<1>3. ASSUME NEW i \in 1 .. n + k, z[i].do = "open"
      PROVE  \E j \in 1 .. n + k : i < j /\ z[j].do = "ask"
  <2>1. CASE i <= n
    <3>1. i \in 1 .. n /\ z[i] = x[i]
      BY <1>1, <2>1
    <3>2. CASE HasAsk(y)
      <4>1. PICK j \in 1 .. k : y[j].do = "ask"
        BY <1>1, <3>2 DEF HasAsk
      <4>2. i < n + j
        BY <1>1, <2>1
      <4> QED
        BY <1>2, <4>1, <4>2
    <3>3. CASE IsUseful(x)
      <4>1. PICK j \in 1 .. n : i < j /\ x[j].do = "ask"
        BY <1>1, <1>3, <3>1, <3>3 DEF IsUseful
      <4>2. j \in 1 .. n + k /\ z[j] = x[j]
        BY <1>1
      <4> QED
        BY <4>1, <4>2
    <3> QED
      BY <3>2, <3>3
  <2>2. CASE i > n
    <3>1. i - n \in 1 .. k /\ z[i] = y[i - n]
      BY <1>1, <2>2
    <3>2. PICK j \in 1 .. k : i - n < j /\ y[j].do = "ask"
      BY <1>1, <1>3, <3>1 DEF IsUseful
    <3>3. i < n + j
      BY <1>1, <3>2
    <3> QED
      BY <1>2, <3>2, <3>3
  <2> QED
    BY <1>1, <2>1, <2>2
<1>4. IsUseful(z)
  BY <1>1, <1>3 DEF IsUseful
<1> QED
  BY <1>4 DEF z

\* A connection that is open no longer counts.
LEMMA UsefulTail ==
  ASSUME NEW s \in Seq(Instructions), s # << >>, IsUseful(s)
  PROVE  IsUseful(Tail(s))
<1> DEFINE n == Len(s)
           t == Tail(s)
<1>1. /\ n \in Nat \ {0} /\ DOMAIN s = 1 .. n /\ DOMAIN t = 1 .. n - 1
      /\ \A i \in 1 .. n - 1 : t[i] = s[i + 1]
  BY HeadTailProperties, LenProperties, EmptySeq
<1> HIDE DEF n, t
<1>2. ASSUME NEW i \in 1 .. n - 1, t[i].do = "open"
      PROVE  \E j \in 1 .. n - 1 : i < j /\ t[j].do = "ask"
  <2>1. i + 1 \in 1 .. n /\ s[i + 1].do = "open"
    BY <1>1, <1>2
  <2>2. PICK j \in 1 .. n : i + 1 < j /\ s[j].do = "ask"
    BY <1>1, <2>1 DEF IsUseful
  <2>3. j - 1 \in 1 .. n - 1 /\ i < j - 1 /\ (j - 1) + 1 = j
    BY <1>1, <2>2
  <2>4. t[j - 1].do = "ask"
    BY <1>1, <2>2, <2>3
  <2> QED
    BY <2>3, <2>4
<1>3. IsUseful(t)
  BY <1>1, <1>2 DEF IsUseful
<1> QED
  BY <1>3 DEF t

\* The pieces the statements of the adapters are put together from.
LEMMA UsefulParts ==
  ASSUME NEW w \in What, NEW o \in Source
  PROVE  /\ Query(w, o) \in Seq(Instructions) /\ IsUseful(Query(w, o)) /\ HasAsk(Query(w, o))
         /\ << Open >> \in Seq(Instructions)
         /\ << >> \in Seq(Instructions) /\ IsUseful(<< >>)
         /\ << Ask(w, o) >> \in Seq(Instructions)
         /\ IsUseful(<< Ask(w, o) >>) /\ HasAsk(<< Ask(w, o) >>)
         /\ << Ask(w, o), Close >> \in Seq(Instructions)
         /\ IsUseful(<< Ask(w, o), Close >>) /\ HasAsk(<< Ask(w, o), Close >>)
<1>1. Open.do = "open" /\ Close.do = "close" /\ Ask(w, o).do = "ask"
  BY DEF Open, Close, Ask
<1>2. Open \in Instructions /\ Close \in Instructions /\ Ask(w, o) \in Instructions
  BY Single
<1>3. /\ Query(w, o) \in Seq(Instructions) /\ IsUseful(Query(w, o)) /\ HasAsk(Query(w, o))
  <2> DEFINE q == Query(w, o)
  <2>1. /\ q \in Seq(Instructions) /\ DOMAIN q = 1 .. 3
        /\ q[1].do = "open" /\ q[2].do = "ask" /\ q[3].do = "close"
    BY <1>1, <1>2 DEF Query
  <2> HIDE DEF q
  <2>2. \A i \in 1 .. 3 : i = 1 \/ i = 2 \/ i = 3
    OBVIOUS
  <2>3. IsUseful(q) /\ HasAsk(q)
    BY <2>1, <2>2 DEF IsUseful, HasAsk
  <2> QED
    BY <2>1, <2>3 DEF q
<1>4. /\ << >> \in Seq(Instructions) /\ IsUseful(<< >>) /\ << Open >> \in Seq(Instructions)
  BY <1>2, EmptySeq DEF IsUseful
<1>5. /\ << Ask(w, o) >> \in Seq(Instructions)
      /\ IsUseful(<< Ask(w, o) >>) /\ HasAsk(<< Ask(w, o) >>)
  <2> DEFINE q == << Ask(w, o) >>
  <2>1. q \in Seq(Instructions) /\ DOMAIN q = 1 .. 1 /\ q[1].do = "ask"
    BY <1>1, <1>2
  <2> HIDE DEF q
  <2>2. IsUseful(q) /\ HasAsk(q)
    BY <2>1 DEF IsUseful, HasAsk
  <2> QED
    BY <2>1, <2>2 DEF q
<1>6. /\ << Ask(w, o), Close >> \in Seq(Instructions)
      /\ IsUseful(<< Ask(w, o), Close >>) /\ HasAsk(<< Ask(w, o), Close >>)
  <2> DEFINE q == << Ask(w, o), Close >>
  <2>1. q \in Seq(Instructions) /\ DOMAIN q = 1 .. 2 /\ q[1].do = "ask" /\ q[2].do = "close"
    BY <1>1, <1>2
  <2> HIDE DEF q
  <2>2. \A i \in 1 .. 2 : i = 1 \/ i = 2
    OBVIOUS
  <2>3. IsUseful(q) /\ HasAsk(q)
    BY <2>1, <2>2 DEF IsUseful, HasAsk
  <2> QED
    BY <2>1, <2>3 DEF q
<1> QED
  BY <1>3, <1>4, <1>5, <1>6
\* SHOW TABLES of one schema after the other.
LEMMA RepeatedIs ==
  ASSUME NEW w \in What, NEW o \in Source, NEW n \in Nat
  PROVE  LET s == repeated(Query(w, o), n)
         IN  /\ s \in Seq(Instructions) /\ Len(s) = n * 3 /\ DOMAIN s = 1 .. n * 3
             /\ \A i \in 1 .. n * 3 : s[i] = Query(w, o)[((i - 1) % 3) + 1]
<1> DEFINE q == Query(w, o)
           k == n * 3
           s == repeated(q, n)
<1>1. /\ q \in Seq(Instructions) /\ Len(q) = 3
      /\ q[1] \in Instructions /\ q[2] \in Instructions /\ q[3] \in Instructions
  BY Single DEF Query
<1>2. k \in Nat
  OBVIOUS
<1> HIDE DEF q, k
<1>3. s = [i \in 1 .. k |-> q[((i - 1) % 3) + 1]]
  BY <1>1 DEF repeated, k
<1>4. \A i \in 1 .. k : q[((i - 1) % 3) + 1] \in Instructions
  <2> SUFFICES ASSUME NEW i \in 1 .. k PROVE q[((i - 1) % 3) + 1] \in Instructions
    OBVIOUS
  <2>1. ((i - 1) % 3) + 1 \in {1, 2, 3}
    BY <1>2
  <2> QED
    BY <1>1, <2>1
<1>5. s \in Seq(Instructions) /\ Len(s) = k
  BY <1>2, <1>3, <1>4
<1>6. DOMAIN s = 1 .. k /\ \A i \in 1 .. k : s[i] = q[((i - 1) % 3) + 1]
  BY <1>3
<1> QED
  BY <1>5, <1>6 DEF k, q

\* One query after the other.
LEMMA UsefulRepeated ==
  ASSUME NEW w \in What, NEW o \in Source, NEW n \in Nat
  PROVE  /\ repeated(Query(w, o), n) \in Seq(Instructions)
         /\ IsUseful(repeated(Query(w, o), n))
<1> DEFINE s == repeated(Query(w, o), n)
           k == n * 3
<1>1. /\ s \in Seq(Instructions) /\ DOMAIN s = 1 .. k
      /\ \A i \in 1 .. k : s[i] = Query(w, o)[((i - 1) % 3) + 1]
  BY RepeatedIs
<1>2. k \in Nat /\ k % 3 = 0
  OBVIOUS
<1>3. /\ Query(w, o)[1].do = "open" /\ Query(w, o)[2].do = "ask"
      /\ Query(w, o)[3].do = "close"
  BY DEF Query, Open, Ask, Close
<1> HIDE DEF s, k
<1>4. ASSUME NEW i \in 1 .. k, s[i].do = "open"
      PROVE  i + 1 \in 1 .. k /\ i < i + 1 /\ s[i + 1].do = "ask"
  <2>1. (i - 1) % 3 \in {0, 1, 2}
    BY <1>2
  <2>2. ((i - 1) % 3) + 1 = 1
    BY <1>1, <1>3, <1>4, <2>1
  <2>3. i % 3 = 1
    BY <1>2, <2>1, <2>2
  <2>4. i + 1 \in 1 .. k /\ (((i + 1) - 1) % 3) + 1 = 2
    BY <1>2, <2>3
  <2>5. s[i + 1] = Query(w, o)[2]
    BY <1>1, <2>4
  <2> QED
    BY <1>3, <2>4, <2>5
<1>5. IsUseful(s)
  BY <1>1, <1>4 DEF IsUseful
<1> QED
  BY <1>1, <1>5 DEF s

AllUseful(p) == \A k \in DOMAIN p : \A j \in DOMAIN p[k] : IsUseful(p[k][j])

\* Alternatives none of which opens a connection for nothing.
UsefulTask(t) ==
  /\ t \in Seq(Seq(Instructions)) /\ \A j \in DOMAIN t : IsUseful(t[j])

\* Tasks and plans, put together.
LEMMA UsefulTasks ==
  /\ \A t, u : UsefulTask(t) /\ UsefulTask(u) => UsefulTask(t \o u)
  /\ \A s \in Seq(Instructions) :
       IsUseful(s) => UsefulTask(<< s >>) /\ AllUseful(<< << s >> >>)
  /\ \A t : UsefulTask(t) => AllUseful(<< t >>)
  /\ \A t, u : UsefulTask(t) /\ UsefulTask(u) => AllUseful(<< t, u >>)
<1>1. ASSUME NEW t, NEW u, UsefulTask(t), UsefulTask(u)
      PROVE  UsefulTask(t \o u)
  <2> DEFINE n == Len(t)
             k == Len(u)
             z == t \o u
  <2>1. /\ n \in Nat /\ k \in Nat /\ DOMAIN t = 1 .. n /\ DOMAIN u = 1 .. k
        /\ DOMAIN z = 1 .. n + k /\ z \in Seq(Seq(Instructions))
        /\ \A i \in 1 .. n + k : z[i] = IF i <= n THEN t[i] ELSE u[i - n]
    BY <1>1, ConcatProperties, LenProperties DEF UsefulTask
  <2> HIDE DEF n, k, z
  <2>2. ASSUME NEW i \in 1 .. n + k PROVE IsUseful(z[i])
    <3>1. CASE i <= n
      <4>1. i \in 1 .. n /\ z[i] = t[i]
        BY <2>1, <3>1
      <4> QED
        BY <1>1, <2>1, <4>1 DEF UsefulTask
    <3>2. CASE i > n
      <4>1. i - n \in 1 .. k /\ z[i] = u[i - n]
        BY <2>1, <3>2
      <4> QED
        BY <1>1, <2>1, <4>1 DEF UsefulTask
    <3> QED
      BY <2>1, <3>1, <3>2
  <2> QED
    BY <2>1, <2>2 DEF UsefulTask, z
<1>2. ASSUME NEW s \in Seq(Instructions), IsUseful(s)
      PROVE  UsefulTask(<< s >>)
  <2> DEFINE t == << s >>
  <2>1. t \in Seq(Seq(Instructions)) /\ DOMAIN t = 1 .. 1 /\ t[1] = s
    OBVIOUS
  <2> HIDE DEF t
  <2>2. UsefulTask(t)
    BY <1>2, <2>1 DEF UsefulTask
  <2> QED
    BY <2>2 DEF t
<1>3. ASSUME NEW t, UsefulTask(t) PROVE AllUseful(<< t >>)
  <2> DEFINE p == << t >>
  <2>1. DOMAIN p = 1 .. 1 /\ p[1] = t
    OBVIOUS
  <2> HIDE DEF p
  <2>2. AllUseful(p)
    BY <1>3, <2>1 DEF UsefulTask, AllUseful
  <2> QED
    BY <2>2 DEF p
<1>4. ASSUME NEW t, NEW u, UsefulTask(t), UsefulTask(u)
      PROVE  AllUseful(<< t, u >>)
  <2> DEFINE p == << t, u >>
  <2>1. DOMAIN p = 1 .. 2 /\ p[1] = t /\ p[2] = u
    OBVIOUS
  <2> HIDE DEF p
  <2>2. \A i \in 1 .. 2 : i = 1 \/ i = 2
    OBVIOUS
  <2>3. AllUseful(p)
    BY <1>4, <2>1, <2>2 DEF UsefulTask, AllUseful
  <2> QED
    BY <2>3 DEF p
<1> QED
  BY <1>1, <1>2, <1>3, <1>4

\* The information schemas of Databricks.
LEMMA UsefulDatabricks ==
  ASSUME NEW w \in What, NEW catalog
  PROVE  UsefulTask(run_metadata_query(w, catalog))
<1> DEFINE q == metadata_sources(catalog)
           r == run_metadata_query(w, catalog)
<1>1. \A o \in Source : Query(w, o) \in Seq(Instructions) /\ IsUseful(Query(w, o))
  BY UsefulParts
<1>2. \E n \in {1, 2} : DOMAIN q = 1 .. n /\ \A i \in 1 .. n : q[i] \in Source
  BY DEF metadata_sources, Source
<1> HIDE DEF q
<1>3. PICK n \in {1, 2} : DOMAIN q = 1 .. n /\ \A i \in 1 .. n : q[i] \in Source
  BY <1>2
<1>4. r = [i \in 1 .. n |-> Query(w, q[i])]
  BY <1>3 DEF run_metadata_query, q
<1> HIDE DEF r
<1>5. r \in Seq(Seq(Instructions)) /\ DOMAIN r = 1 .. n
  BY <1>1, <1>3, <1>4
<1>6. \A j \in 1 .. n : IsUseful(r[j])
  BY <1>1, <1>3, <1>4
<1> QED
  BY <1>5, <1>6 DEF UsefulTask, r

\* The statements of SQL Server and of Snowflake.
LEMMA UsefulServer ==
  ASSUME NEW catalog, NEW home, NEW w \in What
  PROVE  /\ IsUseful(sqlserver_list_schemas) /\ IsUseful(sqlserver_list_tables(catalog))
         /\ IsUseful(sqlserver_describe_table(catalog))
         /\ IsUseful(snowflake_list(w, catalog, home))
         /\ IsUseful(snowflake_describe_table(catalog, home))
         /\ sqlserver_list_schemas \in Seq(Instructions)
         /\ sqlserver_list_tables(catalog) \in Seq(Instructions)
         /\ sqlserver_describe_table(catalog) \in Seq(Instructions)
         /\ snowflake_list(w, catalog, home) \in Seq(Instructions)
         /\ snowflake_describe_table(catalog, home) \in Seq(Instructions)
<1> DEFINE open == << Open >>
           name == Query("name", "server")
           prefix == information_schema_prefix(catalog)
           ask(v) == << Ask(v, "server") >>
           last(v) == << Ask(v, "server"), Close >>
<1>1. /\ "server" \in Source
      /\ {"name", "schemas", "tables", "table", "columns", "keys"} \subseteq What
  BY DEF Source, What
<1>2. /\ open \in Seq(Instructions)
      /\ name \in Seq(Instructions) /\ IsUseful(name)
      /\ \A v \in What : /\ ask(v) \in Seq(Instructions)
                         /\ last(v) \in Seq(Instructions)
                         /\ IsUseful(last(v)) /\ HasAsk(last(v))
                         /\ Query(v, "server") \in Seq(Instructions)
                         /\ IsUseful(Query(v, "server"))
  BY <1>1, UsefulParts
<1>3. prefix \in Seq(Instructions)
  BY <1>1, <1>2, UsefulParts DEF information_schema_prefix, CurrentCatalog
<1>4. \A x, y \in Seq(Instructions) : x \o y \in Seq(Instructions)
  BY ConcatProperties
<1>5. \A x, y \in Seq(Instructions) : IsUseful(y) /\ HasAsk(y) => IsUseful(x \o y)
  BY UsefulConcat
<1>6. \A x, y \in Seq(Instructions) : IsUseful(x) /\ IsUseful(y) => IsUseful(x \o y)
  BY UsefulConcat
<1> HIDE DEF open, name, prefix, ask, last
<1>7. /\ IsUseful(sqlserver_list_schemas)
      /\ sqlserver_list_schemas \in Seq(Instructions)
  <2>1. open \o name \in Seq(Instructions)
    BY <1>2, <1>4
  <2>2. IsUseful((open \o name) \o last("schemas"))
    BY <1>1, <1>2, <1>5, <2>1
  <2>3. (open \o name) \o last("schemas") \in Seq(Instructions)
    BY <1>1, <1>2, <1>4, <2>1
  <2>4. IsUseful(((open \o name) \o last("schemas")) \o name)
    BY <1>2, <1>6, <2>2, <2>3
  <2>5. ((open \o name) \o last("schemas")) \o name \in Seq(Instructions)
    BY <1>2, <1>4, <2>3
  <2> QED
    BY <2>4, <2>5 DEF sqlserver_list_schemas, CurrentCatalog, open, name, last
<1>8. /\ IsUseful(sqlserver_list_tables(catalog))
      /\ sqlserver_list_tables(catalog) \in Seq(Instructions)
  <2>1. open \o prefix \in Seq(Instructions)
    BY <1>2, <1>3, <1>4
  <2>2. IsUseful((open \o prefix) \o last("tables"))
    BY <1>1, <1>2, <1>5, <2>1
  <2>3. (open \o prefix) \o last("tables") \in Seq(Instructions)
    BY <1>1, <1>2, <1>4, <2>1
  <2> QED
    BY <2>2, <2>3 DEF sqlserver_list_tables, open, prefix, last
<1>9. /\ IsUseful(sqlserver_describe_table(catalog))
      /\ sqlserver_describe_table(catalog) \in Seq(Instructions)
  <2> DEFINE a == (open \o prefix) \o ask("columns")
             b == ((a \o prefix) \o ask("keys")) \o prefix
  <2>1. open \o prefix \in Seq(Instructions) /\ ask("columns") \in Seq(Instructions)
        /\ ask("keys") \in Seq(Instructions) /\ last("keys") \in Seq(Instructions)
    BY <1>1, <1>2, <1>3, <1>4
  <2>2. a \in Seq(Instructions)
    BY <1>4, <2>1
  <2> HIDE DEF a
  <2>3. a \o prefix \in Seq(Instructions)
    BY <1>3, <1>4, <2>2
  <2>4. (a \o prefix) \o ask("keys") \in Seq(Instructions)
    BY <1>4, <2>1, <2>3
  <2>5. b \in Seq(Instructions)
    BY <1>3, <1>4, <2>4
  <2> HIDE DEF b
  <2>6. IsUseful(b \o last("keys")) /\ b \o last("keys") \in Seq(Instructions)
    BY <1>1, <1>2, <1>4, <1>5, <2>1, <2>5
  <2> QED
    BY <2>6 DEF sqlserver_describe_table, open, prefix, ask, last, a, b
<1>10. /\ database_name(catalog, home) \in Seq(Instructions)
       /\ IsUseful(database_name(catalog, home))
  BY <1>1, <1>2, UsefulParts DEF database_name, name
<1>11. /\ IsUseful(snowflake_list(w, catalog, home))
       /\ snowflake_list(w, catalog, home) \in Seq(Instructions)
  BY <1>1, <1>2, <1>4, <1>6, <1>10 DEF snowflake_list
<1>12. /\ IsUseful(snowflake_describe_table(catalog, home))
       /\ snowflake_describe_table(catalog, home) \in Seq(Instructions)
  <2> DEFINE s == << Open, Ask("table", "server"), Ask("columns", "server"),
                     Ask("keys", "server"), Close >>
  <2>1. /\ Open.do = "open" /\ Close.do = "close" /\ \A v : Ask(v, "server").do = "ask"
        /\ Open \in Instructions /\ Close \in Instructions
        /\ \A v \in What : Ask(v, "server") \in Instructions
    BY <1>1, Single DEF Open, Close, Ask
  <2>2. /\ s \in Seq(Instructions) /\ DOMAIN s = 1 .. 5
        /\ s[1].do = "open" /\ s[2].do = "ask" /\ s[3].do = "ask" /\ s[4].do = "ask"
        /\ s[5].do = "close"
    BY <1>1, <2>1
  <2> HIDE DEF s
  <2>3. \A i \in 1 .. 5 : i = 1 \/ i = 2 \/ i = 3 \/ i = 4 \/ i = 5
    OBVIOUS
  <2>4. IsUseful(s)
    BY <2>2, <2>3 DEF IsUseful
  <2>5. /\ IsUseful(database_name(catalog, home) \o s)
        /\ database_name(catalog, home) \o s \in Seq(Instructions)
    BY <1>4, <1>6, <1>10, <2>2, <2>4
  <2> QED
    BY <2>5 DEF snowflake_describe_table, s
<1> QED
  BY <1>7, <1>8, <1>9, <1>11, <1>12

\* No adapter opens a connection for nothing.
LEMMA UsefulPlans ==
  ASSUME NEW type \in {"sqlserver", "snowflake", "databricks"},
         NEW r \in Requests, r.tool # "list_connections", NEW home
  PROVE  AllUseful(adapter_plan(type, r, home))
<1>1. r.tool \in {"test_connection", "list_schemas", "list_tables", "describe_table"}
  BY MetadataAssumption DEF Request
<1>2. /\ {"server", "show"} \subseteq Source
      /\ {"name", "schemas", "tables", "table", "columns"} \subseteq What
  BY DEF Source, What
<1>3. Query("name", "server") \in Seq(Instructions) /\ IsUseful(Query("name", "server"))
  BY <1>2, UsefulParts
<1>4. AllUseful(<< << Query("name", "server") >> >>)
  BY <1>3, UsefulTasks
<1>5. CASE type = "sqlserver"
  <2>1. \E s \in Seq(Instructions) : sqlserver_plan(r) = << << s >> >> /\ IsUseful(s)
    BY <1>1, <1>2, <1>3, UsefulServer DEF sqlserver_plan
  <2> QED
    BY <1>5, <2>1, UsefulTasks DEF adapter_plan
<1>6. CASE type = "snowflake"
  <2>1. \E s \in Seq(Instructions) : snowflake_plan(r, home) = << << s >> >> /\ IsUseful(s)
    BY <1>1, <1>2, <1>3, UsefulServer DEF snowflake_plan
  <2> QED
    BY <1>6, <2>1, UsefulTasks DEF adapter_plan
<1>7. CASE type = "databricks"
  <2>1. /\ UsefulTask(<< Query("schemas", "show") >>)
        /\ \A catalog, schema : UsefulTask(<< show_tables(catalog, schema) >>)
    BY <1>2, UsefulParts, UsefulTasks DEF show_tables
  <2>2. \A v \in What : \A catalog : UsefulTask(run_metadata_query(v, catalog))
    BY UsefulDatabricks
  <2>3. CASE r.tool = "test_connection"
    BY <1>4, <1>7, <2>3 DEF adapter_plan, databricks_plan
  <2>4. CASE r.tool = "list_schemas"
    <3>1. UsefulTask(run_metadata_query("schemas", home.catalog)
                       \o << Query("schemas", "show") >>)
      BY <1>2, <2>1, <2>2, UsefulTasks
    <3> QED
      BY <1>7, <2>4, <3>1, UsefulTasks DEF adapter_plan, databricks_plan
  <2>5. CASE r.tool = "list_tables"
    <3> DEFINE c == Or(r.catalog, home.catalog)
               s == Or(r.schema, home.schema)
    <3>1. UsefulTask(run_metadata_query("tables", c) \o << show_tables(c, s) >>)
      BY <1>2, <2>1, <2>2, UsefulTasks
    <3> QED
      BY <1>7, <2>5, <3>1, UsefulTasks
         DEF adapter_plan, databricks_plan, databricks_list_tables
  <2>6. CASE r.tool = "describe_table"
    <3> DEFINE c == Or(r.catalog, home.catalog)
    <3>1. UsefulTask(run_metadata_query("table", c)) /\ UsefulTask(run_metadata_query("columns", c))
      BY <1>2, <2>2
    <3> QED
      BY <1>7, <2>6, <3>1, UsefulTasks DEF adapter_plan, databricks_plan
  <2> QED
    BY <1>1, <2>3, <2>4, <2>5, <2>6
<1> QED
  BY <1>5, <1>6, <1>7
------------------------------------------------------------------------------
\* What is being asked.

\* There is a first statement if there is one.
LEMMA FirstAsk ==
  ASSUME NEW s \in Seq(Instructions), HasAsk(s)
  PROVE  \E i \in DOMAIN s : s[i].do = "ask" /\ \A j \in 1 .. i - 1 : s[j].do # "ask"
<1> DEFINE T == { i \in DOMAIN s : s[i].do = "ask" }
<1>1. DOMAIN s = 1 .. Len(s) /\ Len(s) \in Nat
  BY LenProperties
<1>2. T \in SUBSET Nat /\ T # {}
  BY <1>1 DEF HasAsk
<1>3. PICK i \in T : \A j \in T : i <= j
  BY <1>2, LeastNumber
<1>4. ASSUME NEW j \in 1 .. i - 1 PROVE s[j].do # "ask"
  <2>1. j \in DOMAIN s /\ ~(i <= j)
    BY <1>1
  <2> QED
    BY <1>3, <2>1
<1> QED
  BY <1>3, <1>4

\* An instruction is in the plan, and so is the statement whose connection it
\* opens.
LEMMA AskedIs ==
  ASSUME plan[1][1] \in Seq(Instructions), plan[1][1] # << >>, IsUseful(plan[1][1])
  PROVE  /\ 1 \in DOMAIN plan[1][1] /\ Instruction \in Instructions
         /\ Instruction.do \in {"open", "ask"} =>
              \E i \in DOMAIN plan[1][1] :
                NextAsk = plan[1][1][i] /\ NextAsk.do = "ask" /\ NextAsk \in Instructions
<1> DEFINE left == plan[1][1]
           First(i) == left[i].do = "ask" /\ \A j \in 1 .. i - 1 : left[j].do # "ask"
           k == CHOOSE i \in DOMAIN left : First(i)
<1>1. DOMAIN left = 1 .. Len(left) /\ Len(left) \in Nat \ {0}
  BY LenProperties, EmptySeq
<1>2. 1 \in DOMAIN left /\ \A i \in DOMAIN left : left[i] \in Instructions
  BY <1>1, ElementOfSeq
<1>3. ASSUME left[1].do \in {"open", "ask"}
      PROVE  \E i \in DOMAIN left :
               NextAsk = left[i] /\ NextAsk.do = "ask" /\ NextAsk \in Instructions
  <2>1. HasAsk(left)
    BY <1>2, <1>3 DEF IsUseful, HasAsk
  <2>2. \E i \in DOMAIN left : First(i)
    BY <2>1, FirstAsk
  <2>3. k \in DOMAIN left /\ First(k)
    BY <2>2
  <2>4. NextAsk = left[k]
    BY DEF NextAsk
  <2> HIDE DEF k
  <2> QED
    BY <1>2, <2>3, <2>4
<1> QED
  BY <1>2, <1>3 DEF Instruction

\* A statement is about something and asked somewhere.
LEMMA AskTypes ==
  ASSUME NEW i \in Instructions, i.do = "ask"
  PROVE  i.what \in What /\ i.source \in Source
BY DEF Instructions, What, Source

\* The steps that ask something.
Answering == StatementReturns \/ NoDatabase \/ StatementRefused \/ BackendFails

\* What they try, and when.
LEMMA AskingStep ==
  ASSUME PlanInv, PlanFacts, Answering
  PROVE  /\ stage = "asking" /\ UNCHANGED << config, calls, touched, audit, answers >>
         /\ plan[1][1] \in Seq(Instructions) /\ plan[1][1] # << >>
         /\ \E ask \in Instructions, outcome \in RowCounts \cup {None} :
              /\ Try(ask, outcome) /\ ask.do = "ask"
              /\ \E i \in DOMAIN plan[1][1] : ask = plan[1][1][i]
<1> DEFINE left == plan[1][1]
<1>1. stage = "asking" /\ left # << >> /\ UNCHANGED << config, calls, touched, audit, answers >>
  BY DEF Answering, StatementReturns, NoDatabase, StatementRefused, BackendFails, Asking
<1>2. /\ DOMAIN plan = 1 .. Len(plan) /\ 1 \in 1 .. Len(plan)
      /\ DOMAIN plan[1] = 1 .. Len(plan[1]) /\ 1 \in 1 .. Len(plan[1])
      /\ left \in Seq(Instructions)
  BY <1>1, PlanHolds, PlanIs
<1>3. IsUseful(left)
  BY <1>1, <1>2 DEF PlanFacts
<1>4. /\ 1 \in DOMAIN left /\ Instruction \in Instructions /\ Instruction = left[1]
      /\ Instruction.do \in {"open", "ask"} =>
           \E i \in DOMAIN left :
             NextAsk = left[i] /\ NextAsk.do = "ask" /\ NextAsk \in Instructions
  BY <1>1, <1>2, <1>3, AskedIs DEF Instruction
<1>5. CASE BackendFails
  <2>1. Try(NextAsk, None) /\ Instruction.do \in {"open", "ask"}
    BY <1>5 DEF BackendFails, Asking
  <2> QED
    BY <1>1, <1>2, <1>4, <2>1
<1>6. CASE StatementReturns \/ NoDatabase \/ StatementRefused
  <2>1. Instruction.do = "ask" /\ \E outcome \in RowCounts \cup {None} : Try(Instruction, outcome)
    BY <1>6 DEF StatementReturns, NoDatabase, StatementRefused, Asking, nameless
  <2> QED
    BY <1>1, <1>2, <1>4, <2>1
<1> QED
  BY <1>5, <1>6 DEF Answering

\* What a failing alternative does to the plan.
LEMMA FailedPlan ==
  ASSUME NEW exc, FailAlternative(exc), stage = "asking"
  PROVE  \/ /\ Len(plan[1]) > 1 /\ plan' = [plan EXCEPT ![1] = Tail(@)] /\ rows' = 0
            /\ stage' = "asking"
         \/ /\ ~(Len(plan[1]) > 1) /\ plan' = << >>
            /\ \/ catches(Target.type, Call.tool) /\ stage' = "auditing" /\ rows' = None
               \/ ~catches(Target.type, Call.tool) /\ stage' = "failing" /\ rows' = 0
BY DEF FailAlternative, Fail

\* No step leaves a connection to be opened for nothing.
LEMMA PlanFactsStep ==
  ASSUME CallTypes, CallFacts, ToolInv, PlanInv, PlanFacts, [Next]_vars
  PROVE  PlanFacts'
<1>1. CASE UNCHANGED vars \/ Finished
  BY <1>1 DEF Finished, vars, PlanFacts
<1>2. CASE (\E r \in Requests : Receive(r)) \/ Accept \/ Refuse \/ ResolveSecrets
             \/ BuildFails \/ AuditSuccess
  <2>1. stage # "asking" /\ stage' # "asking" /\ plan' = plan
    BY <1>2 DEF Receive, Accept, Refuse, ResolveSecrets, BuildFails, AuditSuccess, Fail
  <2> QED
    BY <2>1 DEF PlanFacts
<1>3. CASE Return \/ AuditFailure \/ Crash
  BY <1>3 DEF Return, AuditFailure, Crash, Forget, PlanFacts
<1>4. CASE BuildAdapter
  <2>1. /\ stage = "building" /\ stage' = "asking"
        /\ plan' = adapter_plan(Target.type, Call, Home)
    BY <1>4 DEF BuildAdapter
  <2>2. /\ Call \in Requests /\ Call.tool # "list_connections"
        /\ Target.type \in {"sqlserver", "snowflake", "databricks"}
    <3>1. config \in Configs /\ Known(Call) /\ Call \in Requests
      BY <2>1, CallOpen DEF CallTypes, CallFacts
    <3> QED
      BY <2>1, <3>1, MetadataAssumption
         DEF IsConfig, Known, Target, Connection, ToolInv
  <2>3. AllUseful(plan')
    BY <2>1, <2>2, UsefulPlans
  <2> QED
    BY <2>1, <2>3 DEF PlanFacts, AllUseful
<1> DEFINE m == Needs(Target.type)
<1>5. ASSUME stage = "asking"
      PROVE  /\ m \in Nat /\ PlanFrom(plan, held, m) /\ AllUseful(plan)
             /\ DOMAIN plan = 1 .. Len(plan) /\ 1 \in 1 .. Len(plan)
             /\ Len(plan) \in Nat \ {0}
             /\ \A k \in 1 .. Len(plan) :
                  DOMAIN plan[k] = 1 .. Len(plan[k]) /\ Len(plan[k]) \in Nat
             /\ 1 \in 1 .. Len(plan[1]) /\ plan[1][1] \in Seq(Instructions)
  BY <1>5, PlanHolds, PlanIs DEF PlanFacts, AllUseful
<1> HIDE DEF m
<1>6. ASSUME stage = "asking", NEW s, IsUseful(s), plan' = [plan EXCEPT ![1][1] = s]
      PROVE  AllUseful(plan')
  <2>1. /\ DOMAIN plan' = DOMAIN plan /\ plan'[1][1] = s
        /\ \A k \in 1 .. Len(plan) :
             /\ DOMAIN plan'[k] = DOMAIN plan[k]
             /\ \A j \in 1 .. Len(plan[k]) : k # 1 \/ j # 1 => plan'[k][j] = plan[k][j]
    BY <1>5, <1>6, PlanProceeds
  <2>2. ASSUME NEW k \in 1 .. Len(plan), NEW j \in 1 .. Len(plan[k])
        PROVE  IsUseful(plan'[k][j])
    BY <1>5, <1>6, <2>1 DEF AllUseful
  <2> QED
    BY <1>5, <1>6, <2>1, <2>2 DEF AllUseful
<1>7. CASE OpenConnection \/ CloseConnection
  <2>1. /\ stage = "asking" /\ stage' = "asking" /\ plan[1][1] # << >>
        /\ plan' = [plan EXCEPT ![1][1] = Tail(plan[1][1])]
    BY <1>7 DEF OpenConnection, CloseConnection, Asking, Proceed
  <2>2. IsUseful(Tail(plan[1][1]))
    BY <1>5, <2>1, UsefulTail DEF AllUseful
  <2>3. AllUseful(plan')
    BY <1>6, <2>1, <2>2
  <2> QED
    BY <2>1, <2>3 DEF PlanFacts, AllUseful
<1>8. CASE StatementReturns
  <2>1. PICK n \in RowCounts :
          plan' = [plan EXCEPT ![1][1] = Tail(plan[1][1]) \o followed_by(Instruction, n)]
    BY <1>8 DEF StatementReturns, Proceed
  <2>2. stage = "asking" /\ stage' = "asking" /\ plan[1][1] # << >>
    BY <1>8 DEF StatementReturns, Asking
  <2>3. IsUseful(Tail(plan[1][1])) /\ Tail(plan[1][1]) \in Seq(Instructions)
    BY <1>5, <2>2, UsefulTail, HeadTailProperties DEF AllUseful
  <2>4. /\ followed_by(Instruction, n) \in Seq(Instructions)
        /\ IsUseful(followed_by(Instruction, n))
    <3>1. n \in Nat
      BY MetadataAssumption
    <3> QED
      BY <3>1, UsefulRepeated, UsefulParts DEF followed_by, What, Source
  <2>5. AllUseful(plan')
    BY <1>6, <2>1, <2>2, <2>3, <2>4, UsefulConcat
  <2> QED
    BY <2>2, <2>5 DEF PlanFacts, AllUseful
<1>9. CASE NoDatabase \/ StatementRefused \/ BackendFails
  <2>1. stage = "asking" /\ \E exc : FailAlternative(exc)
    BY <1>9 DEF NoDatabase, StatementRefused, BackendFails, Asking
  <2>2. CASE Len(plan[1]) > 1
    <3>1. stage' = "asking" /\ plan' = [plan EXCEPT ![1] = Tail(@)]
      BY <2>1, <2>2, FailedPlan
    <3>2. /\ DOMAIN plan' = DOMAIN plan /\ DOMAIN plan'[1] = 1 .. Len(plan[1]) - 1
          /\ \A j \in 1 .. Len(plan[1]) - 1 : plan'[1][j] = plan[1][j + 1]
          /\ \A k \in 1 .. Len(plan) : k # 1 => plan'[k] = plan[k]
      BY <1>5, <2>1, <2>2, <3>1, PlanFallsBack
    <3>3. ASSUME NEW k \in 1 .. Len(plan), NEW j \in DOMAIN plan'[k]
          PROVE  IsUseful(plan'[k][j])
      <4>1. CASE k = 1
        <5>1. j \in 1 .. Len(plan[1]) - 1 /\ j + 1 \in 1 .. Len(plan[1])
          BY <1>5, <2>1, <3>2, <3>3, <4>1
        <5> QED
          BY <1>5, <2>1, <3>2, <4>1, <5>1 DEF AllUseful
      <4>2. CASE k # 1
        BY <1>5, <2>1, <3>2, <3>3, <4>2 DEF AllUseful
      <4> QED
        BY <4>1, <4>2
    <3> QED
      BY <1>5, <2>1, <3>1, <3>2, <3>3 DEF PlanFacts
  <2>3. CASE ~(Len(plan[1]) > 1)
    <3>1. stage' # "asking" /\ plan' = << >>
      BY <2>1, <2>3, FailedPlan
    <3> QED
      BY <3>1 DEF PlanFacts
  <2> QED
    BY <2>2, <2>3
<1>10. CASE TaskDone
  <2>1. /\ stage = "asking" /\ plan' = Tail(plan)
        /\ stage' = (IF Len(plan) = 1 THEN "auditing" ELSE stage)
    BY <1>10 DEF TaskDone
  <2>2. /\ DOMAIN Tail(plan) = 1 .. Len(plan) - 1
        /\ \A k \in 1 .. Len(plan) - 1 : Tail(plan)[k] = plan[k + 1]
        /\ Len(plan) = 1 => Tail(plan) = << >>
    BY <1>5, <2>1, PlanMovesOn
  <2>3. AllUseful(plan')
    <3> SUFFICES ASSUME NEW k \in 1 .. Len(plan) - 1, NEW j \in DOMAIN plan[k + 1]
                 PROVE  IsUseful(plan[k + 1][j])
      BY <2>1, <2>2 DEF AllUseful
    <3>1. k + 1 \in 1 .. Len(plan)
      BY <1>5, <2>1
    <3> QED
      BY <1>5, <2>1, <3>1 DEF AllUseful
  <2> QED
    BY <2>1, <2>2, <2>3 DEF PlanFacts, AllUseful
<1> QED
  BY <1>1, <1>2, <1>3, <1>4, <1>7, <1>8, <1>9, <1>10 DEF Next, ServerStep, BackendStep
------------------------------------------------------------------------------
\* The types of the plan and of what was tried.

\* Each step keeps the types of the plan and of the history.
LEMMA PlanTypesStep ==
  ASSUME CallTypes, CallFacts, PlanTypes, PlanFacts, PlanInv, PlanFacts', PlanInv', [Next]_vars
  PROVE  PlanTypes'
<1>1. plan' \in Seq(Seq(Seq(Instructions))) /\ held' \in Nat
  <2>1. CASE stage' = "asking"
    <3>1. PICK m \in Nat : PlanFrom(plan', held', m)
      <4>1. Needs(Target.type)' \in Nat
        BY DEF Needs
      <4>2. PlanFrom(plan', held', Needs(Target.type)')
        BY <2>1 DEF PlanInv
      <4> QED
        BY <4>1, <4>2
    <3>2. plan' \in Seq(Seq(Seq(Instructions))) /\ Leads(plan'[1][1], held', 0, m)
      BY <3>1 DEF PlanFrom
    <3>3. held' \in 0 .. m
      BY <3>2, LenProperties DEF Leads, Follows
    <3> QED
      BY <3>2, <3>3
  <2>2. CASE stage' # "asking"
    BY <2>2, EmptySeq DEF PlanFacts, PlanInv
  <2> QED
    BY <2>1, <2>2
<1>2. tried' \in Seq(TriedRecord(Len(calls')))
  <2>1. CASE \E r \in Requests : Receive(r)
    <3>1. Len(calls') = Len(calls) + 1 /\ Len(calls) \in Nat /\ tried' = tried
      BY <2>1, ReceivedCall DEF Current
    <3>2. TriedRecord(Len(calls)) \subseteq TriedRecord(Len(calls'))
      BY <3>1 DEF TriedRecord
    <3> QED
      BY <3>1, <3>2, SeqMonotonic DEF PlanTypes
  <2>2. CASE Answering
    <3>1. PICK ask \in Instructions, outcome \in RowCounts \cup {None} :
            Try(ask, outcome) /\ ask.do = "ask"
      BY <2>2, AskingStep
    <3>2. UNCHANGED calls /\ stage # "idle"
      BY <2>2, AskingStep
    <3>3. ask.what \in What /\ ask.source \in Source
      BY <3>1, AskTypes
    <3>4. Current \in 1 .. Len(calls)
      BY <3>2, CallOpen DEF Current
    <3> DEFINE t == [ call |-> Current, what |-> ask.what, source |-> ask.source,
                      outcome |-> outcome ]
    <3>5. t \in TriedRecord(Len(calls))
      BY <3>3, <3>4 DEF TriedRecord, What, Source
    <3> HIDE DEF t
    <3>6. tried' = Append(tried, t)
      BY <3>1 DEF Try, t
    <3> QED
      BY <3>2, <3>5, <3>6, AppendProperties DEF PlanTypes
  <2>3. CASE UNCHANGED << calls, tried >>
    BY <2>3 DEF PlanTypes
  <2> QED
    BY <2>1, <2>2, <2>3
       DEF Next, ServerStep, BackendStep, Answering, Accept, Refuse, ResolveSecrets,
           BuildAdapter, BuildFails, OpenConnection, CloseConnection, TaskDone,
           AuditSuccess, Return, AuditFailure, Crash, Finished, vars
<1> QED
  BY <1>1, <1>2 DEF PlanTypes
------------------------------------------------------------------------------
\* How what was tried changes.

\* What the history of statements is made of.
LEMMA TriedIs ==
  ASSUME PlanTypes
  PROVE  /\ Len(tried) \in Nat /\ DOMAIN tried = 1 .. Len(tried)
         /\ \A i \in DOMAIN tried : /\ tried[i] \in TriedRecord(Len(calls))
                                    /\ tried[i].outcome # None => tried[i].outcome \in Nat
         /\ \A c : TriedBy(c) \subseteq DOMAIN tried /\ Mine(c) \subseteq TriedBy(c)
         /\ \A c, s : Used(c, s) \subseteq Mine(c)
<1>1. Len(tried) \in Nat /\ DOMAIN tried = 1 .. Len(tried)
  BY LenProperties DEF PlanTypes
<1>2. \A i \in DOMAIN tried : tried[i] \in TriedRecord(Len(calls))
  BY <1>1, ElementOfSeq DEF PlanTypes
<1>3. \A i \in DOMAIN tried : tried[i].outcome # None => tried[i].outcome \in Nat
  BY <1>2, MetadataAssumption DEF TriedRecord
<1> QED
  BY <1>1, <1>2, <1>3 DEF TriedBy, Mine, Used

\* Nothing is tried.
LEMMA NothingTried ==
  ASSUME UNCHANGED tried, NEW c, calls'[c] = calls[c]
  PROVE  /\ TriedBy(c)' = TriedBy(c) /\ Mine(c)' = Mine(c)
         /\ \A s : Used(c, s)' = Used(c, s)
         /\ \A s : FailedAt(c, s)' <=> FailedAt(c, s)
         /\ \A s : CameFrom(c, s)' <=> CameFrom(c, s)
<1>1. TriedBy(c)' = TriedBy(c)
  BY DEF TriedBy
<1>2. Mine(c)' = Mine(c)
  BY <1>1 DEF Mine
<1>3. \A s : Used(c, s)' = Used(c, s)
  BY <1>2 DEF Used
<1>4. \A s : FailedAt(c, s)' <=> FailedAt(c, s)
  BY <1>1 DEF FailedAt
<1>5. \A s : CameFrom(c, s)' <=> CameFrom(c, s)
  BY <1>2, <1>3 DEF CameFrom
<1> QED
  BY <1>1, <1>2, <1>3, <1>4, <1>5

\* One more statement is tried.
LEMMA OneMoreTried ==
  ASSUME PlanTypes, UNCHANGED calls, NEW ask, NEW outcome, Try(ask, outcome)
  PROVE  LET n == Len(tried)
         IN  /\ n \in Nat /\ DOMAIN tried = 1 .. n /\ DOMAIN tried' = 1 .. n + 1
             /\ \A i \in 1 .. n : tried'[i] = tried[i]
             /\ tried'[n + 1] = [ call |-> Current, what |-> ask.what,
                                  source |-> ask.source, outcome |-> outcome ]
             /\ \A c : TriedBy(c)' =
                  TriedBy(c) \cup IF c = Current THEN {n + 1} ELSE {}
             /\ \A c : Mine(c)' =
                  Mine(c) \cup IF c = Current /\ ask.what \in Relevant(calls[c].tool)
                               THEN {n + 1} ELSE {}
             /\ \A c, s : Used(c, s)' =
                  Used(c, s) \cup IF c = Current /\ ask.source = s
                                     /\ ask.what = Kept(calls[c].tool)
                                  THEN {n + 1} ELSE {}
             /\ \A c, s : FailedAt(c, s)' <=>
                  FailedAt(c, s) \/ (c = Current /\ ask.source = s /\ outcome = None)
<1> DEFINE n == Len(tried)
           t == [ call |-> Current, what |-> ask.what, source |-> ask.source,
                  outcome |-> outcome ]
           S == TriedRecord(Len(calls)) \cup {t}
<1>1. n \in Nat /\ DOMAIN tried = 1 .. n
  BY TriedIs
<1>2. tried \in Seq(S) /\ t \in S
  BY SeqMonotonic DEF PlanTypes
<1>3. tried' = Append(tried, t)
  BY DEF Try
<1>4. /\ t.call = Current /\ t.what = ask.what /\ t.source = ask.source
      /\ t.outcome = outcome
  OBVIOUS
<1> HIDE DEF S, t
<1>5. /\ DOMAIN tried' = 1 .. n + 1 /\ tried'[n + 1] = t
      /\ \A i \in 1 .. n : tried'[i] = tried[i]
  BY <1>1, <1>2, <1>3, AppendProperties, LenProperties
<1> HIDE DEF n
<1>6. \A i : i \in 1 .. n + 1 <=> i \in 1 .. n \/ i = n + 1
  BY <1>1
<1>7. n + 1 \notin 1 .. n
  BY <1>1
<1>8. \A c : TriedBy(c)' = TriedBy(c) \cup IF c = Current THEN {n + 1} ELSE {}
  BY <1>1, <1>4, <1>5, <1>6, <1>7 DEF TriedBy
<1>9. \A c : TriedBy(c) \subseteq 1 .. n
  BY <1>1 DEF TriedBy
<1>10. \A c : Mine(c)' =
         Mine(c) \cup IF c = Current /\ ask.what \in Relevant(calls[c].tool)
                      THEN {n + 1} ELSE {}
  BY <1>4, <1>5, <1>7, <1>8, <1>9 DEF Mine
<1>11. \A c : Mine(c) \subseteq 1 .. n
  BY <1>9 DEF Mine
<1>12. \A c, s : Used(c, s)' =
         Used(c, s) \cup IF c = Current /\ ask.source = s /\ ask.what = Kept(calls[c].tool)
                         THEN {n + 1} ELSE {}
  BY <1>4, <1>5, <1>7, <1>10, <1>11 DEF Used, Relevant
<1>13. \A c, s : FailedAt(c, s)' <=>
         FailedAt(c, s) \/ (c = Current /\ ask.source = s /\ outcome = None)
  BY <1>4, <1>5, <1>7, <1>8, <1>9 DEF FailedAt
<1> QED
  BY <1>1, <1>4, <1>5, <1>8, <1>10, <1>12, <1>13 DEF n, t

\* A source has failed that had failed before, or that fails now.
LEMMA OneMoreFailed ==
  ASSUME PlanTypes, UNCHANGED calls, NEW ask, NEW outcome, Try(ask, outcome), NEW c, NEW s
  PROVE  FailedAt(c, s)' <=>
           FailedAt(c, s) \/ (c = Current /\ ask.source = s /\ outcome = None)
BY OneMoreTried

\* To the other calls it makes no difference.
LEMMA OthersKept ==
  ASSUME PlanTypes, UNCHANGED calls, NEW ask, NEW outcome, Try(ask, outcome),
         NEW c, c # Current
  PROVE  /\ TriedBy(c)' = TriedBy(c) /\ Mine(c)' = Mine(c)
         /\ \A s : Used(c, s)' = Used(c, s)
         /\ \A s : FailedAt(c, s)' <=> FailedAt(c, s)
         /\ \A s : CameFrom(c, s)' <=> CameFrom(c, s)
         /\ \A s : CameFrom(c, s) =>
              RowsOf(tried', Used(c, s)) = RowsOf(tried, Used(c, s))
<1> DEFINE n == Len(tried)
<1>1. /\ n \in Nat /\ DOMAIN tried = 1 .. n /\ DOMAIN tried' = 1 .. n + 1
      /\ \A i \in 1 .. n : tried'[i] = tried[i]
  BY OneMoreTried
<1>2. /\ TriedBy(c)' = TriedBy(c) /\ Mine(c)' = Mine(c)
      /\ \A s : Used(c, s)' = Used(c, s)
      /\ \A s : FailedAt(c, s)' <=> FailedAt(c, s)
  <2>1. TriedBy(c)' = TriedBy(c) \cup {} /\ Mine(c)' = Mine(c) \cup {}
    BY OneMoreTried
  <2>2. \A s : Used(c, s)' = Used(c, s) \cup {}
    BY OneMoreTried
  <2>3. \A s : FailedAt(c, s)' <=> FailedAt(c, s)
    BY OneMoreTried
  <2> QED
    BY <2>1, <2>2, <2>3
<1>3. Mine(c) \subseteq 1 .. n /\ \A s : Used(c, s) \subseteq Mine(c)
  BY <1>1, TriedIs
<1>4. \A s : CameFrom(c, s)' <=> CameFrom(c, s)
  BY <1>1, <1>2, <1>3 DEF CameFrom
<1>5. ASSUME NEW s, CameFrom(c, s)
      PROVE  RowsOf(tried', Used(c, s)) = RowsOf(tried, Used(c, s))
  <2>1. \A i \in Used(c, s) : tried[i].outcome # None
    BY <1>5 DEF CameFrom, Used
  <2>2. Counts(tried, Used(c, s))
    BY <1>1, <1>3, <2>1, TriedIs DEF Counts
  <2>3. PICK used : used = Used(c, s)
    OBVIOUS
  <2>4. RowsOf(tried', used) = RowsOf(tried, used)
    <3>1. Counts(tried, used) /\ Extends(tried', tried)
      BY <1>1, <2>2, <2>3 DEF Extends
    <3> HIDE DEF n
    <3> QED
      BY <3>1, MoreRows
  <2> QED
    BY <2>3, <2>4
<1> QED
  BY <1>2, <1>4, <1>5
------------------------------------------------------------------------------
\* Queries, one after the other.

\* A query opens, asks and closes.
LEMMA QueryIs ==
  ASSUME NEW w, NEW o
  PROVE  /\ DOMAIN Query(w, o) = 1 .. 3 /\ Len(Query(w, o)) = 3
         /\ Query(w, o)[1] = Open /\ Query(w, o)[2] = Ask(w, o) /\ Query(w, o)[3] = Close
         /\ Open.do = "open" /\ Close.do = "close"
         /\ Ask(w, o).do = "ask" /\ Ask(w, o).what = w /\ Ask(w, o).source = o
BY DEF Query, Open, Close, Ask

\* A query asks once.
LEMMA WholeQuery ==
  ASSUME NEW w, NEW o
  PROVE  IsQueries(Query(w, o), w, o) /\ AsksIn(Query(w, o)) = 1
<1> DEFINE q == Query(w, o)
<1>1. DOMAIN q = 1 .. 3 /\ Len(q) = 3
  BY QueryIs
<1> HIDE DEF q
<1>2. \A i \in 1 .. 3 : 3 - ((3 - i) % 3) = i
  OBVIOUS
<1>3. (3 + 1) \div 3 = 1
  OBVIOUS
<1>4. AsksIn(q) = 1
  BY <1>1, <1>3 DEF AsksIn
<1>5. IsQueries(q, w, o)
  BY <1>1, <1>2 DEF IsQueries, q
<1> QED
  BY <1>4, <1>5 DEF q

\* The first instruction is carried out.
LEMMA FewerQueries ==
  ASSUME NEW s \in Seq(Instructions), s # << >>, NEW w, NEW o, IsQueries(s, w, o)
  PROVE  /\ IsQueries(Tail(s), w, o) /\ AsksIn(s) \in Nat /\ AsksIn(Tail(s)) \in Nat
         /\ s[1].do = "ask" => s[1] = Ask(w, o) /\ AsksIn(s) = AsksIn(Tail(s)) + 1
         /\ s[1].do # "ask" => AsksIn(s) = AsksIn(Tail(s))
         /\ s[1].do # "close" => AsksIn(s) # 0
         /\ \A i \in DOMAIN s : s[i].do = "ask" => s[i] = Ask(w, o)
<1> DEFINE n == Len(s)
           t == Tail(s)
           q == Query(w, o)
<1>1. /\ n \in Nat \ {0} /\ DOMAIN s = 1 .. n /\ DOMAIN t = 1 .. n - 1
      /\ Len(t) = n - 1 /\ \A i \in 1 .. n - 1 : t[i] = s[i + 1]
  BY HeadTailProperties, LenProperties, EmptySeq
<1>2. /\ q[1].do = "open" /\ q[2] = Ask(w, o) /\ q[2].do = "ask" /\ q[3].do = "close"
  BY QueryIs
<1>3. \A i \in 1 .. n : s[i] = q[3 - ((n - i) % 3)]
  BY <1>1 DEF IsQueries
<1> HIDE DEF n, t, q
<1>4. IsQueries(t, w, o)
  <2> SUFFICES ASSUME NEW i \in 1 .. n - 1
               PROVE  t[i] = q[3 - (((n - 1) - i) % 3)]
    BY <1>1 DEF IsQueries, q
  <2>1. i + 1 \in 1 .. n /\ n - (i + 1) = (n - 1) - i
    BY <1>1
  <2>2. s[i + 1] = q[3 - ((n - (i + 1)) % 3)]
    BY <1>3, <2>1
  <2> QED
    BY <1>1, <2>1, <2>2
<1>5. AsksIn(s) = (n + 1) \div 3 /\ AsksIn(t) = n \div 3
  <2>1. (n - 1) + 1 = n
    BY <1>1
  <2> QED
    BY <1>1, <2>1 DEF AsksIn, n
<1>6. \A i \in 1 .. n : 3 - ((n - i) % 3) \in {1, 2, 3}
  BY <1>1
<1>7. \A i \in 1 .. n : s[i].do = "ask" => s[i] = Ask(w, o)
  BY <1>2, <1>3, <1>6
<1>8. s[1] = q[3 - ((n - 1) % 3)] /\ 1 \in 1 .. n
  BY <1>1, <1>3
<1>9. (n + 1) \div 3 \in Nat /\ n \div 3 \in Nat
  BY <1>1
<1>10. CASE (n - 1) % 3 = 0
  <2>1. (n + 1) \div 3 = n \div 3
    BY <1>1, <1>10
  <2>2. s[1].do = "close"
    BY <1>2, <1>8, <1>10
  <2> QED
    BY <1>1, <1>4, <1>5, <1>7, <1>9, <2>1, <2>2 DEF t
<1>11. CASE (n - 1) % 3 = 1
  <2>1. (n + 1) \div 3 = (n \div 3) + 1
    BY <1>1, <1>11
  <2>2. s[1] = Ask(w, o) /\ s[1].do = "ask"
    BY <1>2, <1>8, <1>11
  <2>3. (n + 1) \div 3 # 0
    BY <1>9, <2>1
  <2> QED
    BY <1>1, <1>4, <1>5, <1>7, <1>9, <2>1, <2>2, <2>3 DEF t
<1>12. CASE (n - 1) % 3 = 2
  <2>1. (n + 1) \div 3 = n \div 3 /\ n \div 3 # 0
    BY <1>1, <1>12
  <2>2. s[1].do = "open"
    BY <1>2, <1>8, <1>12
  <2> QED
    BY <1>1, <1>4, <1>5, <1>7, <1>9, <2>1, <2>2 DEF t
<1>13. (n - 1) % 3 \in {0, 1, 2}
  BY <1>1
<1> QED
  BY <1>10, <1>11, <1>12, <1>13

\* SHOW SCHEMAS is over, and one SHOW TABLES per schema follows.
LEMMA QueriesFollow ==
  ASSUME NEW w \in What, NEW o \in Source, NEW n \in Nat
  PROVE  LET s == << Close >> \o repeated(Query(w, o), n)
         IN  IsQueries(s, w, o) /\ AsksIn(s) = n
<1> DEFINE r == repeated(Query(w, o), n)
           c == << Close >>
           s == c \o r
           q == Query(w, o)
           k == n * 3
<1>1. /\ r \in Seq(Instructions) /\ Len(r) = k
      /\ \A i \in 1 .. k : r[i] = q[((i - 1) % 3) + 1]
  BY RepeatedIs
<1>2. c \in Seq(Instructions) /\ Len(c) = 1 /\ c[1] = Close
  BY Single
<1>3. k \in Nat /\ k % 3 = 0 /\ (k + 2) \div 3 = n
  OBVIOUS
<1>4. q[3] = Close
  BY QueryIs
<1> HIDE DEF r, c, q, k
<1>5. /\ Len(s) = k + 1 /\ DOMAIN s = 1 .. k + 1
      /\ s[1] = Close /\ \A i \in 2 .. k + 1 : s[i] = r[i - 1]
  <2>1. /\ s \in Seq(Instructions) /\ Len(s) = 1 + k
        /\ \A i \in 1 .. 1 + k : s[i] = IF i <= 1 THEN c[i] ELSE r[i - 1]
    <3>1. /\ s \in Seq(Instructions) /\ Len(s) = Len(c) + Len(r)
          /\ \A i \in 1 .. Len(c) + Len(r) :
               s[i] = IF i <= Len(c) THEN c[i] ELSE r[i - Len(c)]
      BY <1>1, <1>2, ConcatProperties
    <3> HIDE DEF s
    <3> QED
      BY <1>1, <1>2, <3>1
  <2>2. DOMAIN s = 1 .. 1 + k
    BY <2>1, LenProperties
  <2> HIDE DEF s
  <2> QED
    BY <1>2, <1>3, <2>1, <2>2
<1> HIDE DEF s
<1>6. ASSUME NEW i \in 1 .. k + 1 PROVE s[i] = q[3 - (((k + 1) - i) % 3)]
  <2>1. CASE i = 1
    <3>1. 3 - (((k + 1) - i) % 3) = 3
      BY <1>3, <2>1
    <3> QED
      BY <1>4, <1>5, <2>1, <3>1
  <2>2. CASE i # 1
    <3>1. i \in 2 .. k + 1 /\ i - 1 \in 1 .. k
      BY <1>3, <2>2
    <3>2. s[i] = q[(((i - 1) - 1) % 3) + 1]
      BY <1>1, <1>5, <3>1
    <3>3. (((i - 1) - 1) % 3) + 1 = 3 - (((k + 1) - i) % 3)
      BY <1>3, <3>1
    <3> QED
      BY <3>2, <3>3
  <2> QED
    BY <2>1, <2>2
<1>7. IsQueries(s, w, o)
  BY <1>5, <1>6 DEF IsQueries, q
<1>8. AsksIn(s) = n
  <2>1. (k + 1) + 1 = k + 2
    BY <1>3
  <2> QED
    BY <1>3, <1>5, <2>1 DEF AsksIn
<1> QED
  BY <1>7, <1>8 DEF s, c, r
------------------------------------------------------------------------------
\* The sources of a call.

\* While calls and configuration stay, so does all that is said of the call.
LEMMA SameCall ==
  ASSUME UNCHANGED << config, calls >>
  PROVE  /\ Current' = Current /\ Call' = Call /\ Target' = Target /\ Chain' = Chain
         /\ \A r : CatalogOf(r)' = CatalogOf(r)
<1>1. Current' = Current /\ Call' = Call /\ Target' = Target
  BY DEF Current, Call, Target
<1>2. \A r : CatalogOf(r)' = CatalogOf(r)
  BY DEF CatalogOf
<1>3. CatalogOf(Call)' = CatalogOf(Call)
  BY <1>1 DEF CatalogOf
<1> QED
  BY <1>1, <1>2, <1>3 DEF Chain

\* Databricks has one or two information schemas, each of them once.
LEMMA SourcesAre ==
  ASSUME NEW catalog
  PROVE  LET s == metadata_sources(catalog)
         IN  /\ s \in Seq(Source) /\ Len(s) \in {1, 2} /\ DOMAIN s = 1 .. Len(s)
             /\ \A i \in 1 .. Len(s) : s[i] # "show"
             /\ \A i, j \in 1 .. Len(s) : s[i] = s[j] => i = j
<1> DEFINE s == metadata_sources(catalog)
<1>1. CASE s = << "system" >>
  <2> DEFINE t == << "system" >>
  <2>1. /\ t \in Seq(Source) /\ Len(t) = 1 /\ DOMAIN t = 1 .. 1 /\ t[1] = "system"
    BY DEF Source
  <2> HIDE DEF t
  <2>2. \A i \in 1 .. 1 : i = 1
    OBVIOUS
  <2>3. s = t
    BY <1>1 DEF t
  <2> HIDE DEF s
  <2>4. /\ s \in Seq(Source) /\ Len(s) \in {1, 2} /\ DOMAIN s = 1 .. Len(s)
        /\ \A i \in 1 .. Len(s) : s[i] # "show"
        /\ \A i, j \in 1 .. Len(s) : s[i] = s[j] => i = j
    BY <2>1, <2>2, <2>3
  <2> QED
    BY <2>4 DEF s
<1>2. ASSUME NEW o \in {"session", "catalog"}, s = << "system", o >>
      PROVE  /\ s \in Seq(Source) /\ Len(s) \in {1, 2} /\ DOMAIN s = 1 .. Len(s)
             /\ \A i \in 1 .. Len(s) : s[i] # "show"
             /\ \A i, j \in 1 .. Len(s) : s[i] = s[j] => i = j
  <2> DEFINE t == << "system", o >>
  <2>1. /\ t \in Seq(Source) /\ Len(t) = 2 /\ DOMAIN t = 1 .. 2
        /\ t[1] = "system" /\ t[2] = o
    BY DEF Source
  <2> HIDE DEF t
  <2>2. \A i \in 1 .. 2 : i = 1 \/ i = 2
    OBVIOUS
  <2>3. s = t
    BY <1>2 DEF t
  <2> HIDE DEF s
  <2> QED
    BY <2>1, <2>2, <2>3
<1>3. s = << "system" >> \/ s = << "system", "session" >> \/ s = << "system", "catalog" >>
  BY DEF metadata_sources
<1> QED
  BY <1>1, <1>2, <1>3

\* The information schemas first, each once, and SHOW last, where there is one.
LEMMA ChainIs ==
  ASSUME Call.tool \in Listing
  PROVE  LET sources == metadata_sources(CatalogOf(Call))
         IN  /\ Len(Chain) \in Nat \ {0} /\ DOMAIN Chain = 1 .. Len(Chain)
             /\ \A i \in 1 .. Len(Chain) : Chain[i] \in Source
             /\ \A i, j \in 1 .. Len(Chain) : Chain[i] = Chain[j] => i = j
             /\ \A i \in 1 .. Len(Chain) :
                  Chain[i] = "show" => i = Len(Chain) /\ Call.tool # "describe_table"
             /\ Target.type # "databricks" => Len(Chain) = 1 /\ Chain[1] = "server"
             /\ Target.type = "databricks" =>
                  /\ Len(Chain) = Len(sources) + IF Call.tool = "describe_table" THEN 0 ELSE 1
                  /\ \A i \in 1 .. Len(sources) : Chain[i] = sources[i]
                  /\ Call.tool # "describe_table" => Chain[Len(Chain)] = "show"
<1> DEFINE sources == metadata_sources(CatalogOf(Call))
<1>1. CASE Target.type # "databricks"
  <2> DEFINE t == << "server" >>
  <2>1. Len(t) = 1 /\ DOMAIN t = 1 .. 1 /\ t[1] = "server" /\ "server" \in Source
    BY DEF Source
  <2> HIDE DEF t
  <2>2. Chain = t
    BY <1>1 DEF Chain, t
  <2>3. Len(Chain) = 1 /\ DOMAIN Chain = 1 .. 1 /\ Chain[1] = "server"
    BY <2>1, <2>2
  <2>4. \A i \in 1 .. 1 : i = 1 /\ Chain[i] \in Source /\ Chain[i] # "show"
    BY <2>1, <2>3
  <2> HIDE DEF sources
  <2> QED
    BY <1>1, <2>3, <2>4
<1>2. CASE Target.type = "databricks"
  <2> DEFINE n == Len(sources)
             last == IF Call.tool = "describe_table" THEN << >> ELSE << "show" >>
             k == IF Call.tool = "describe_table" THEN 0 ELSE 1
  <2>1. /\ sources \in Seq(Source) /\ n \in {1, 2} /\ DOMAIN sources = 1 .. n
        /\ \A i \in 1 .. n : sources[i] # "show"
        /\ \A i, j \in 1 .. n : sources[i] = sources[j] => i = j
    BY SourcesAre
  <2>2. last \in Seq(Source) /\ Len(last) = k /\ (k = 1 => last[1] = "show") /\ k \in {0, 1}
    <3>1. << "show" >> \in Seq(Source) /\ Len(<< "show" >>) = 1 /\ << "show" >>[1] = "show"
      BY DEF Source
    <3> QED
      BY <3>1, EmptySeq
  <2>3. k = 1 <=> Call.tool # "describe_table"
    OBVIOUS
  <2> HIDE DEF n, last, k
  <2>4. Chain = sources \o last
    BY <1>2 DEF Chain, last
  <2> HIDE DEF sources
  <2>5. /\ Chain \in Seq(Source) /\ Len(Chain) = n + k
        /\ \A i \in 1 .. n + k : Chain[i] = IF i <= n THEN sources[i] ELSE last[i - n]
    BY <2>1, <2>2, <2>4, ConcatProperties DEF n
  <2>6. DOMAIN Chain = 1 .. n + k /\ \A i \in 1 .. n + k : Chain[i] \in Source
    BY <2>5, LenProperties, ElementOfSeq
  <2>7. \A i \in 1 .. n : Chain[i] = sources[i] /\ i \in 1 .. n + k
    BY <2>1, <2>2, <2>5
  <2>8. k = 1 => Chain[n + k] = "show"
    <3> SUFFICES ASSUME k = 1 PROVE Chain[n + k] = "show"
      OBVIOUS
    <3>1. n + 1 \in 1 .. n + k /\ ~(n + 1 <= n) /\ (n + 1) - n = 1
      BY <2>1
    <3>2. Chain[n + 1] = last[1]
      BY <2>5, <3>1
    <3> QED
      BY <2>2, <3>2
  <2>9. \A i \in 1 .. n + k : i \in 1 .. n \/ (i = n + k /\ k = 1)
    BY <2>1, <2>2
  <2>10. \A i, j \in 1 .. n + k : Chain[i] = Chain[j] => i = j
    BY <2>1, <2>7, <2>8, <2>9
  <2>11. \A i \in 1 .. n + k : Chain[i] = "show" => i = n + k /\ k = 1
    BY <2>1, <2>7, <2>8, <2>9
  <2>12. n + k \in Nat \ {0}
    BY <2>1, <2>2
  <2> QED
    BY <1>2, <2>3, <2>5, <2>6, <2>7, <2>8, <2>10, <2>11, <2>12 DEF sources, n, k
<1> QED
  BY <1>1, <1>2
------------------------------------------------------------------------------
\* The plans of the listings, when nothing of them has been carried out.

\* One query for each information schema.
LEMMA RunIs ==
  ASSUME NEW w \in What, NEW catalog
  PROVE  LET s == metadata_sources(catalog)
             r == run_metadata_query(w, catalog)
         IN  /\ Len(r) = Len(s) /\ DOMAIN r = 1 .. Len(s)
             /\ \A i \in 1 .. Len(s) : r[i] = Query(w, s[i])
<1> DEFINE s == metadata_sources(catalog)
           r == run_metadata_query(w, catalog)
           n == Len(s)
<1>1. n \in {1, 2} /\ DOMAIN s = 1 .. n /\ \A i \in 1 .. n : s[i] \in Source
  BY SourcesAre, ElementOfSeq
<1>2. r = [i \in DOMAIN s |-> Query(w, s[i])]
  BY DEF run_metadata_query
<1>3. \A o \in Source : Query(w, o) \in Seq(Instructions)
  BY UsefulParts
<1> HIDE DEF s, r, n
<1>4. r = [i \in 1 .. n |-> Query(w, s[i])]
  BY <1>1, <1>2
<1>5. Len(r) = n /\ DOMAIN r = 1 .. n
  BY <1>1, <1>3, <1>4
<1> QED
  BY <1>4, <1>5 DEF s, r, n

\* The same, and something to try after them.
LEMMA TaskIs ==
  ASSUME NEW w \in What, NEW catalog, NEW x \in Seq(Instructions)
  PROVE  LET s == metadata_sources(catalog)
             r == run_metadata_query(w, catalog)
             t == r \o << x >>
         IN  /\ Len(r) = Len(s) /\ DOMAIN r = 1 .. Len(s)
             /\ \A i \in 1 .. Len(s) : r[i] = Query(w, s[i])
             /\ Len(t) = Len(s) + 1 /\ DOMAIN t = 1 .. Len(s) + 1
             /\ \A i \in 1 .. Len(s) : t[i] = Query(w, s[i])
             /\ t[Len(s) + 1] = x
<1> DEFINE s == metadata_sources(catalog)
           r == run_metadata_query(w, catalog)
           y == << x >>
           t == r \o y
           n == Len(s)
<1>1. n \in {1, 2} /\ DOMAIN s = 1 .. n /\ \A i \in 1 .. n : s[i] \in Source
  BY SourcesAre, ElementOfSeq
<1>2. r = [i \in DOMAIN s |-> Query(w, s[i])]
  BY DEF run_metadata_query
<1>3. \A o \in Source : Query(w, o) \in Seq(Instructions)
  BY UsefulParts
<1> HIDE DEF s, r, n
<1>4. r = [i \in 1 .. n |-> Query(w, s[i])]
  BY <1>1, <1>2
<1>5. r \in Seq(Seq(Instructions)) /\ Len(r) = n /\ DOMAIN r = 1 .. n
  BY <1>1, <1>3, <1>4
<1>6. y \in Seq(Seq(Instructions)) /\ Len(y) = 1 /\ y[1] = x
  OBVIOUS
<1> HIDE DEF y
<1>7. /\ t \in Seq(Seq(Instructions)) /\ Len(t) = n + 1
      /\ \A i \in 1 .. n + 1 : t[i] = IF i <= n THEN r[i] ELSE y[i - n]
  <2>1. /\ t \in Seq(Seq(Instructions)) /\ Len(t) = Len(r) + Len(y)
        /\ \A i \in 1 .. Len(r) + Len(y) : t[i] = IF i <= Len(r) THEN r[i] ELSE y[i - Len(r)]
    BY <1>5, <1>6, ConcatProperties
  <2> HIDE DEF t
  <2> QED
    BY <1>5, <1>6, <2>1
<1>8. DOMAIN t = 1 .. n + 1
  BY <1>7, LenProperties
<1> HIDE DEF t
<1>9. \A i \in 1 .. n : r[i] = Query(w, s[i]) /\ t[i] = Query(w, s[i])
  BY <1>1, <1>4, <1>7
<1>10. t[n + 1] = x
  <2>1. n + 1 \in 1 .. n + 1 /\ ~(n + 1 <= n) /\ (n + 1) - n = 1
    BY <1>1
  <2> QED
    BY <1>6, <1>7, <2>1
<1> QED
  BY <1>5, <1>7, <1>8, <1>9, <1>10 DEF s, r, y, t, n

\* The plans of Databricks ask each source in its turn.
LEMMA DatabricksPlan ==
  ASSUME Call.tool \in Listing, Target.type = "databricks"
  PROVE  LET p == adapter_plan(Target.type, Call, Home)
         IN  /\ Len(p) = IF Call.tool = "describe_table" THEN 2 ELSE 1
             /\ DOMAIN p = 1 .. Len(p)
             /\ \A k \in 1 .. Len(p) :
                  /\ Len(p[k]) = Len(Chain) /\ DOMAIN p[k] = 1 .. Len(Chain)
                  /\ \A j \in 1 .. Len(Chain) :
                       IsFresh(p[k][j], About(p, k, Call.tool), Chain[j])
<1> DEFINE p == adapter_plan(Target.type, Call, Home)
           catalog == CatalogOf(Call)
           s == metadata_sources(catalog)
           n == Len(s)
           r(w) == run_metadata_query(w, catalog)
<1>1. /\ {"server", "show"} \subseteq Source
      /\ {"schemas", "tables", "table", "columns"} \subseteq What
  BY DEF Source, What
<1>2. /\ Query("schemas", "show") \in Seq(Instructions)
      /\ Query("tables", "show") \in Seq(Instructions)
  BY <1>1, UsefulParts
<1>3. /\ Len(Chain) = n + IF Call.tool = "describe_table" THEN 0 ELSE 1
      /\ \A i \in 1 .. n : Chain[i] = s[i]
      /\ Call.tool # "describe_table" => Chain[Len(Chain)] = "show"
      /\ n \in {1, 2}
  BY ChainIs, SourcesAre
<1>4. \A i \in 1 .. n + 1 : i \in 1 .. n \/ i = n + 1
  BY <1>3
<1>5. CASE Call.tool = "list_schemas"
  <2> DEFINE t == r("schemas") \o << Query("schemas", "show") >>
  <2>1. catalog = Home.catalog
    BY <1>5 DEF CatalogOf, Home
  <2>2. p = << t >>
    BY <1>5, <2>1 DEF adapter_plan, databricks_plan
  <2>3. /\ Len(t) = n + 1 /\ DOMAIN t = 1 .. n + 1
        /\ \A i \in 1 .. n : t[i] = Query("schemas", s[i])
        /\ t[n + 1] = Query("schemas", "show")
    BY <1>1, <1>2, TaskIs
  <2> HIDE DEF p, s, n, t, catalog
  <2>4. Len(p) = 1 /\ DOMAIN p = 1 .. 1 /\ p[1] = t
    BY <2>2
  <2>5. About(p, 1, Call.tool) = "schemas"
    BY <1>5, <2>4 DEF About, Kept
  <2>6. \A j \in 1 .. n + 1 : IsFresh(t[j], "schemas", Chain[j])
    BY <1>3, <1>4, <1>5, <2>3 DEF IsFresh
  <2> QED
    BY <1>3, <1>5, <2>3, <2>4, <2>5, <2>6 DEF p
<1>6. CASE Call.tool = "list_tables"
  <2> DEFINE schema == Or(Call.schema, Home.schema)
             x == show_tables(catalog, schema)
             t == r("tables") \o << x >>
  <2>1. catalog = Or(Call.catalog, Home.catalog)
    BY <1>6 DEF CatalogOf, Home
  <2>2. p = << t >>
    BY <1>6, <2>1 DEF adapter_plan, databricks_plan, databricks_list_tables
  <2>3. x \in {ShowSchemas, Query("tables", "show")} /\ x \in Seq(Instructions)
    BY <1>2 DEF show_tables, ShowSchemas
  <2> HIDE DEF x
  <2>4. /\ Len(t) = n + 1 /\ DOMAIN t = 1 .. n + 1
        /\ \A i \in 1 .. n : t[i] = Query("tables", s[i])
        /\ t[n + 1] = x
    BY <1>1, <2>3, TaskIs
  <2> HIDE DEF p, s, n, t, catalog
  <2>5. Len(p) = 1 /\ DOMAIN p = 1 .. 1 /\ p[1] = t
    BY <2>2
  <2>6. About(p, 1, Call.tool) = "tables"
    BY <1>6, <2>5 DEF About, Kept
  <2>7. \A j \in 1 .. n + 1 : IsFresh(t[j], "tables", Chain[j])
    BY <1>3, <1>4, <1>6, <2>3, <2>4 DEF IsFresh
  <2> QED
    BY <1>3, <1>6, <2>4, <2>5, <2>6, <2>7 DEF p
<1>7. CASE Call.tool = "describe_table"
  <2> DEFINE t == r("table")
             u == r("columns")
  <2>1. catalog = Or(Call.catalog, Home.catalog)
    BY <1>7 DEF CatalogOf, Home
  <2>2. p = << t, u >>
    BY <1>7, <2>1 DEF adapter_plan, databricks_plan
  <2>3. ASSUME NEW w \in What
        PROVE  /\ Len(r(w)) = n /\ DOMAIN r(w) = 1 .. n
               /\ \A i \in 1 .. n : r(w)[i] = Query(w, s[i])
    BY RunIs
  <2> HIDE DEF r, p, s, n, catalog
  <2>9. /\ Len(t) = n /\ DOMAIN t = 1 .. n /\ \A i \in 1 .. n : t[i] = Query("table", s[i])
        /\ Len(u) = n /\ DOMAIN u = 1 .. n /\ \A i \in 1 .. n : u[i] = Query("columns", s[i])
    BY <1>1, <2>3
  <2> HIDE DEF t, u
  <2>4. Len(p) = 2 /\ DOMAIN p = 1 .. 2 /\ p[1] = t /\ p[2] = u
    BY <2>2
  <2>5. About(p, 1, Call.tool) = "table" /\ About(p, 2, Call.tool) = "columns"
    BY <1>7, <2>4 DEF About, Kept
  <2>6. \A j \in 1 .. n : IsFresh(t[j], "table", Chain[j]) /\ IsFresh(u[j], "columns", Chain[j])
    BY <1>3, <2>9 DEF IsFresh
  <2>7. \A k \in 1 .. 2 : k = 1 \/ k = 2
    OBVIOUS
  <2>8. Len(Chain) = n
    BY <1>3, <1>7
  <2> QED
    BY <1>7, <2>4, <2>5, <2>6, <2>7, <2>8, <2>9 DEF p
<1> QED
  BY <1>5, <1>6, <1>7 DEF Listing

\* The instructions of a list and another.
LEMMA RangeOf ==
  /\ \A x, y \in Seq(Instructions) : /\ x \o y \in Seq(Instructions)
                                     /\ Range(x \o y) = Range(x) \cup Range(y)
  /\ Range(<< >>) = {}
  /\ \A a : Range(<< a >>) = {a}
  /\ \A a, b : Range(<< a, b >>) = {a, b}
  /\ \A w, o : Range(Query(w, o)) = {Open, Ask(w, o), Close}
<1>1. ASSUME NEW x \in Seq(Instructions), NEW y \in Seq(Instructions)
      PROVE  x \o y \in Seq(Instructions) /\ Range(x \o y) = Range(x) \cup Range(y)
  <2> DEFINE n == Len(x)
             k == Len(y)
             z == x \o y
  <2>1. /\ n \in Nat /\ k \in Nat /\ DOMAIN x = 1 .. n /\ DOMAIN y = 1 .. k
        /\ DOMAIN z = 1 .. n + k /\ z \in Seq(Instructions)
        /\ \A i \in 1 .. n + k : z[i] = IF i <= n THEN x[i] ELSE y[i - n]
    BY ConcatProperties, LenProperties
  <2> HIDE DEF n, k, z
  <2>2. \A i \in 1 .. n : i \in 1 .. n + k /\ z[i] = x[i]
    BY <2>1
  <2>3. \A i \in 1 .. k : n + i \in 1 .. n + k /\ z[n + i] = y[i]
    <3> SUFFICES ASSUME NEW i \in 1 .. k PROVE n + i \in 1 .. n + k /\ z[n + i] = y[i]
      OBVIOUS
    <3>1. n + i \in 1 .. n + k /\ ~(n + i <= n) /\ (n + i) - n = i
      BY <2>1
    <3> QED
      BY <2>1, <3>1
  <2>4. \A i \in 1 .. n + k : i \in 1 .. n \/ \E j \in 1 .. k : i = n + j
    <3> SUFFICES ASSUME NEW i \in 1 .. n + k, i > n PROVE i - n \in 1 .. k /\ i = n + (i - n)
      BY <2>1
    <3> QED
      BY <2>1
  <2>5. ASSUME NEW e PROVE e \in Range(z) <=> e \in Range(x) \cup Range(y)
    <3>1. ASSUME NEW i \in 1 .. n + k, z[i] = e PROVE e \in Range(x) \cup Range(y)
      <4>1. CASE i \in 1 .. n
        BY <2>1, <2>2, <3>1, <4>1 DEF Range
      <4>2. CASE \E j \in 1 .. k : i = n + j
        BY <2>1, <2>3, <3>1, <4>2 DEF Range
      <4> QED
        BY <2>4, <4>1, <4>2
    <3>2. ASSUME NEW i \in 1 .. n, x[i] = e PROVE e \in Range(z)
      BY <2>1, <2>2, <3>2 DEF Range
    <3>3. ASSUME NEW i \in 1 .. k, y[i] = e PROVE e \in Range(z)
      BY <2>1, <2>3, <3>3 DEF Range
    <3> QED
      BY <2>1, <3>1, <3>2, <3>3 DEF Range
  <2> QED
    BY <2>1, <2>5 DEF z
<1>2. Range(<< >>) = {}
  BY DEF Range
<1>3. \A a : Range(<< a >>) = {a}
  BY DEF Range
<1>4. \A a, b : Range(<< a, b >>) = {a, b}
  BY DEF Range
<1>5. \A w, o : Range(Query(w, o)) = {Open, Ask(w, o), Close}
  BY DEF Range, Query
<1> QED
  BY <1>1, <1>2, <1>3, <1>4, <1>5

\* What the lists of the adapters that have one source ask.
LEMMA ServerRanges ==
  ASSUME NEW catalog, NEW home, NEW w \in What
  PROVE  LET others == {Open, Close, Ask("name", "server")}
             described == others \cup { Ask(v, "server") : v \in {"table", "columns", "keys"} }
         IN  /\ Range(sqlserver_list_schemas) = others \cup {Ask("schemas", "server")}
             /\ Range(sqlserver_list_tables(catalog)) \subseteq others \cup {Ask("tables", "server")}
             /\ Ask("tables", "server") \in Range(sqlserver_list_tables(catalog))
             /\ Range(sqlserver_describe_table(catalog)) \subseteq described
             /\ Ask("columns", "server") \in Range(sqlserver_describe_table(catalog))
             /\ Range(snowflake_list(w, catalog, home)) \subseteq others \cup {Ask(w, "server")}
             /\ Ask(w, "server") \in Range(snowflake_list(w, catalog, home))
             /\ Range(snowflake_describe_table(catalog, home)) \subseteq described
             /\ Ask("columns", "server") \in Range(snowflake_describe_table(catalog, home))
<1> DEFINE open == << Open >>
           name == Query("name", "server")
           prefix == information_schema_prefix(catalog)
           ask(v) == << Ask(v, "server") >>
           last(v) == << Ask(v, "server"), Close >>
           others == {Open, Close, Ask("name", "server")}
           described == others \cup { Ask(v, "server") : v \in {"table", "columns", "keys"} }
<1>1. /\ "server" \in Source
      /\ {"name", "schemas", "tables", "table", "columns", "keys"} \subseteq What
  BY DEF Source, What
<1>2. /\ open \in Seq(Instructions) /\ Range(open) = {Open}
      /\ name \in Seq(Instructions) /\ Range(name) = {Open, Ask("name", "server"), Close}
      /\ \A v \in What : /\ ask(v) \in Seq(Instructions) /\ Range(ask(v)) = {Ask(v, "server")}
                         /\ last(v) \in Seq(Instructions)
                         /\ Range(last(v)) = {Ask(v, "server"), Close}
                         /\ Query(v, "server") \in Seq(Instructions)
                         /\ Range(Query(v, "server")) = {Open, Ask(v, "server"), Close}
  BY <1>1, UsefulParts, RangeOf
<1>3. prefix \in Seq(Instructions) /\ Range(prefix) \subseteq others
  BY <1>1, <1>2, UsefulParts, RangeOf DEF information_schema_prefix, CurrentCatalog
<1>4. \A x, y \in Seq(Instructions) : /\ x \o y \in Seq(Instructions)
                                      /\ Range(x \o y) = Range(x) \cup Range(y)
  BY RangeOf
<1> HIDE DEF open, name, prefix, ask, last
<1>5. Range(sqlserver_list_schemas) = others \cup {Ask("schemas", "server")}
  <2> DEFINE a == open \o name
             b == a \o last("schemas")
  <2>1. a \in Seq(Instructions) /\ Range(a) = Range(open) \cup Range(name)
    BY <1>2, <1>4
  <2> HIDE DEF a
  <2>2. b \in Seq(Instructions) /\ Range(b) = Range(a) \cup Range(last("schemas"))
    BY <1>1, <1>2, <1>4, <2>1
  <2> HIDE DEF b
  <2>3. Range(b \o name) = Range(b) \cup Range(name)
    BY <1>2, <1>4, <2>2
  <2>4. sqlserver_list_schemas = b \o name
    BY DEF sqlserver_list_schemas, CurrentCatalog, a, b, open, name, last
  <2> QED
    BY <1>1, <1>2, <2>1, <2>2, <2>3, <2>4
<1>6. /\ Range(sqlserver_list_tables(catalog)) \subseteq others \cup {Ask("tables", "server")}
      /\ Ask("tables", "server") \in Range(sqlserver_list_tables(catalog))
  <2> DEFINE a == open \o prefix
  <2>1. a \in Seq(Instructions) /\ Range(a) = Range(open) \cup Range(prefix)
    BY <1>2, <1>3, <1>4
  <2> HIDE DEF a
  <2>2. Range(a \o last("tables")) = Range(a) \cup Range(last("tables"))
    BY <1>1, <1>2, <1>4, <2>1
  <2>3. sqlserver_list_tables(catalog) = a \o last("tables")
    BY DEF sqlserver_list_tables, a, open, prefix, last
  <2> QED
    BY <1>1, <1>2, <1>3, <2>1, <2>2, <2>3
<1>7. /\ Range(sqlserver_describe_table(catalog)) \subseteq described
      /\ Ask("columns", "server") \in Range(sqlserver_describe_table(catalog))
  <2> DEFINE a == (open \o prefix) \o ask("columns")
             b == ((a \o prefix) \o ask("keys")) \o prefix
  <2>1. /\ open \o prefix \in Seq(Instructions)
        /\ Range(open \o prefix) = Range(open) \cup Range(prefix)
    BY <1>2, <1>3, <1>4
  <2>2. a \in Seq(Instructions) /\ Range(a) = Range(open \o prefix) \cup Range(ask("columns"))
    BY <1>1, <1>2, <1>4, <2>1
  <2> HIDE DEF a
  <2>3. a \o prefix \in Seq(Instructions) /\ Range(a \o prefix) = Range(a) \cup Range(prefix)
    BY <1>3, <1>4, <2>2
  <2>4. /\ (a \o prefix) \o ask("keys") \in Seq(Instructions)
        /\ Range((a \o prefix) \o ask("keys")) = Range(a \o prefix) \cup Range(ask("keys"))
    BY <1>1, <1>2, <1>4, <2>3
  <2>5. /\ b \in Seq(Instructions)
        /\ Range(b) = Range((a \o prefix) \o ask("keys")) \cup Range(prefix)
    BY <1>3, <1>4, <2>4
  <2> HIDE DEF b
  <2>6. Range(b \o last("keys")) = Range(b) \cup Range(last("keys"))
    BY <1>1, <1>2, <1>4, <2>5
  <2>7. sqlserver_describe_table(catalog) = b \o last("keys")
    BY DEF sqlserver_describe_table, open, prefix, ask, last, a, b
  <2>8. \A v \in {"columns", "keys"} : /\ Range(ask(v)) = {Ask(v, "server")}
                                       /\ Range(last(v)) = {Ask(v, "server"), Close}
                                       /\ Ask(v, "server") \in described
    BY <1>1, <1>2
  <2>9. others \subseteq described /\ Open \in others /\ Close \in others
    OBVIOUS
  <2> HIDE DEF others, described
  <2> QED
    BY <1>2, <1>3, <2>1, <2>2, <2>3, <2>4, <2>5, <2>6, <2>7, <2>8, <2>9
<1>8. /\ database_name(catalog, home) \in Seq(Instructions)
      /\ Range(database_name(catalog, home)) \subseteq others
  BY <1>1, <1>2, UsefulParts, RangeOf DEF database_name, name
<1>9. /\ Range(snowflake_list(w, catalog, home)) \subseteq others \cup {Ask(w, "server")}
      /\ Ask(w, "server") \in Range(snowflake_list(w, catalog, home))
  <2>1. Range(snowflake_list(w, catalog, home))
          = Range(database_name(catalog, home)) \cup Range(Query(w, "server"))
    BY <1>2, <1>4, <1>8 DEF snowflake_list
  <2> QED
    BY <1>2, <1>8, <2>1
<1>10. /\ Range(snowflake_describe_table(catalog, home)) \subseteq described
       /\ Ask("columns", "server") \in Range(snowflake_describe_table(catalog, home))
  <2> DEFINE s == << Open, Ask("table", "server"), Ask("columns", "server"),
                     Ask("keys", "server"), Close >>
  <2>1. /\ Open \in Instructions /\ Close \in Instructions
        /\ \A v \in What : Ask(v, "server") \in Instructions
    BY <1>1, Single
  <2>2. /\ s \in Seq(Instructions)
        /\ Range(s) = {Open, Ask("table", "server"), Ask("columns", "server"),
                       Ask("keys", "server"), Close}
    BY <1>1, <2>1 DEF Range
  <2>3. snowflake_describe_table(catalog, home) = database_name(catalog, home) \o s
    BY DEF snowflake_describe_table
  <2> HIDE DEF s
  <2>4. Range(snowflake_describe_table(catalog, home))
          = Range(database_name(catalog, home)) \cup Range(s)
    BY <1>4, <1>8, <2>2, <2>3
  <2> QED
    BY <1>8, <2>2, <2>4
<1> QED
  BY <1>5, <1>6, <1>7, <1>9, <1>10

\* The plans of the others ask the server for what their tool keeps.
LEMMA ServerPlan ==
  ASSUME Call.tool \in Listing, Target.type \in {"sqlserver", "snowflake"}
  PROVE  LET p == adapter_plan(Target.type, Call, Home)
         IN  /\ ServerShape(p, Call.tool)
             /\ \E i \in DOMAIN p[1][1] :
                  p[1][1][i].do = "ask" /\ p[1][1][i].what = Kept(Call.tool)
<1> DEFINE p == adapter_plan(Target.type, Call, Home)
           Asked(s) ==
             /\ \A e \in Range(s) : e.do = "ask" =>
                  e.source = "server" /\ (Call.tool = "list_tables" => e.what # "schemas")
             /\ \E e \in Range(s) : e.do = "ask" /\ e.what = Kept(Call.tool)
<1>1. \A w, o : Ask(w, o).do = "ask" /\ Ask(w, o).what = w /\ Ask(w, o).source = o
  BY QueryIs
<1>2. Open.do # "ask" /\ Close.do # "ask" /\ "schemas" \in What /\ "tables" \in What
  BY DEF Open, Close, What
<1> DEFINE others == {Open, Close, Ask("name", "server")}
           described == others \cup { Ask(v, "server") : v \in {"table", "columns", "keys"} }
<1>6. \A e \in others : e.do = "ask" => e.source = "server" /\ e.what = "name"
  BY <1>1, <1>2
<1>7. \A e \in described : e.do = "ask" => e.source = "server" /\ e.what # "schemas"
  BY <1>1, <1>6
<1>3. CASE Call.tool = "list_schemas"
  <2>1. /\ Asked(sqlserver_list_schemas)
        /\ Asked(snowflake_list("schemas", None, Home))
    BY <1>1, <1>2, <1>3, ServerRanges DEF Kept
  <2>2. /\ Target.type = "sqlserver" => p = << << sqlserver_list_schemas >> >>
        /\ Target.type = "snowflake" => p = << << snowflake_list("schemas", None, Home) >> >>
    BY <1>3 DEF adapter_plan, sqlserver_plan, snowflake_plan
  <2>3. \E s : p = << << s >> >> /\ Asked(s)
    BY <2>1, <2>2
  <2> QED
    BY <2>3 DEF ServerShape, Range
<1>4. CASE Call.tool = "list_tables"
  <2>1. ASSUME NEW s, Range(s) \subseteq others \cup {Ask("tables", "server")},
               Ask("tables", "server") \in Range(s)
        PROVE  Asked(s)
    BY <1>1, <1>4, <1>6, <2>1 DEF Kept
  <2>4. ASSUME NEW s, s \in { sqlserver_list_tables(Call.catalog),
                              snowflake_list("tables", Call.catalog, Home) }
        PROVE  Asked(s)
    <3>1. /\ Range(s) \subseteq others \cup {Ask("tables", "server")}
          /\ Ask("tables", "server") \in Range(s)
      BY <1>2, <2>4, ServerRanges
    <3> QED
      BY <2>1, <3>1
  <2>2. /\ Target.type = "sqlserver" => p = << << sqlserver_list_tables(Call.catalog) >> >>
        /\ Target.type = "snowflake" => p = << << snowflake_list("tables", Call.catalog, Home) >> >>
    BY <1>4 DEF adapter_plan, sqlserver_plan, snowflake_plan
  <2>3. \E s : p = << << s >> >> /\ Asked(s)
    BY <2>2, <2>4
  <2> QED
    BY <2>3 DEF ServerShape, Range
<1>5. CASE Call.tool = "describe_table"
  <2>1. ASSUME NEW s, Range(s) \subseteq described, Ask("columns", "server") \in Range(s)
        PROVE  Asked(s)
    BY <1>1, <1>5, <1>7, <2>1 DEF Kept
  <2>4. ASSUME NEW s, s \in { sqlserver_describe_table(Call.catalog),
                              snowflake_describe_table(Call.catalog, Home) }
        PROVE  Asked(s)
    <3>1. Range(s) \subseteq described /\ Ask("columns", "server") \in Range(s)
      BY <1>2, <2>4, ServerRanges
    <3> QED
      BY <2>1, <3>1
  <2>2. /\ Target.type = "sqlserver" => p = << << sqlserver_describe_table(Call.catalog) >> >>
        /\ Target.type = "snowflake" => p = << << snowflake_describe_table(Call.catalog, Home) >> >>
    BY <1>5 DEF adapter_plan, sqlserver_plan, snowflake_plan
  <2>3. \E s : p = << << s >> >> /\ Asked(s)
    BY <2>2, <2>4
  <2> QED
    BY <2>3 DEF ServerShape, Range
<1> QED
  BY <1>3, <1>4, <1>5 DEF Listing
------------------------------------------------------------------------------
\* The turn of a source.

\* What each listing keeps, and what it needs to know.
LEMMA KeptIs ==
  /\ Kept("list_schemas") = "schemas" /\ Kept("list_tables") = "tables"
  /\ Kept("describe_table") = "columns"
  /\ \A tool \in Listing : Kept(tool) \in Relevant(tool) /\ Kept(tool) # "table"
  /\ Relevant("describe_table") = {"columns"}
  /\ Relevant("list_tables") = {"tables", "schemas"}
  /\ Relevant("list_schemas") = {"schemas"}
BY DEF Kept, Relevant, Listing

\* Where a listing in progress stands.
LEMMA TurnIs ==
  ASSUME Fetching, PlanInv, PlanShape
  PROVE  /\ Len(plan) \in {1, 2} /\ DOMAIN plan = 1 .. Len(plan)
         /\ Len(plan[1]) \in 1 .. Len(Chain) /\ DOMAIN plan[1] = 1 .. Len(plan[1])
         /\ plan[1][1] \in Seq(Instructions)
         /\ Len(Chain) \in Nat \ {0} /\ Turn \in 1 .. Len(Chain) /\ Now = Chain[Turn]
         /\ Turn = Len(Chain) - Len(plan[1]) + 1
         /\ Now = "show" => Turn = Len(Chain) /\ Call.tool # "describe_table"
         /\ Len(plan) = 2 => Target.type = "databricks" /\ Call.tool = "describe_table"
         /\ Target.type # "databricks" =>
              Len(plan) = 1 /\ Len(plan[1]) = 1 /\ Turn = 1 /\ Now = "server"
<1>1. /\ Len(plan) \in Nat \ {0} /\ DOMAIN plan = 1 .. Len(plan) /\ 1 \in 1 .. Len(plan)
      /\ DOMAIN plan[1] = 1 .. Len(plan[1]) /\ Len(plan[1]) \in Nat \ {0}
      /\ plan[1][1] \in Seq(Instructions)
  BY PlanHolds, PlanIs, FirstAlternative DEF Fetching
<1>2. /\ Len(Chain) \in Nat \ {0}
      /\ \A i \in 1 .. Len(Chain) : Chain[i] = "show" => i = Len(Chain) /\ Call.tool # "describe_table"
      /\ Target.type # "databricks" => Len(Chain) = 1 /\ Chain[1] = "server"
  BY ChainIs DEF Fetching
<1>3. /\ Len(plan) \in {1, 2} /\ Len(plan[1]) \in 1 .. Len(Chain)
      /\ Len(plan) = 2 => Target.type = "databricks" /\ Call.tool = "describe_table"
      /\ Target.type # "databricks" => Len(plan) = 1 /\ Len(plan[1]) = 1
  <2>1. CASE Target.type = "databricks"
    <3>1. DatabricksShape(plan, Call.tool, Chain)
      BY <2>1 DEF PlanShape
    <3>2. /\ Len(plan) \in 1 .. (IF Call.tool = "describe_table" THEN 2 ELSE 1)
          /\ Len(plan[1]) \in 1 .. Len(Chain)
      BY <1>1, <3>1 DEF DatabricksShape
    <3>3. CASE Call.tool = "describe_table"
      <4>1. Len(plan) \in 1 .. 2
        BY <3>2, <3>3
      <4> QED
        BY <2>1, <3>2, <3>3, <4>1
    <3>4. CASE Call.tool # "describe_table"
      <4>1. Len(plan) \in 1 .. 1
        BY <3>2, <3>4
      <4> QED
        BY <2>1, <3>2, <4>1
    <3> QED
      BY <3>3, <3>4
  <2>2. CASE Target.type # "databricks"
    <3>1. ServerShape(plan, Call.tool)
      BY <2>2 DEF PlanShape
    <3> QED
      BY <1>2, <2>2, <3>1 DEF ServerShape
  <2> QED
    BY <2>1, <2>2
<1>4. /\ Turn = Len(Chain) - Len(plan[1]) + 1 /\ Turn \in 1 .. Len(Chain) /\ Now = Chain[Turn]
  BY <1>2, <1>3 DEF Turn, Now
<1> QED
  BY <1>1, <1>2, <1>3, <1>4

\* What is left to ask of Databricks is asked of the source whose turn it is.
LEMMA LeftAsks ==
  ASSUME Fetching, PlanInv, PlanShape, LeftFacts, Target.type = "databricks",
         NEW i \in DOMAIN plan[1][1], plan[1][1][i].do = "ask"
  PROVE  /\ plan[1][1][i].source = Now
         /\ \/ /\ plan[1][1][i].what = "schemas" /\ Call.tool = "list_tables"
               /\ Len(plan) = 1 /\ Now = "show"
            \/ /\ plan[1][1][i].what = About(plan, 1, Call.tool)
               /\ IsQueries(plan[1][1], About(plan, 1, Call.tool), Now)
<1> DEFINE left == plan[1][1]
<1>1. left \in Seq(Instructions) /\ left # << >> /\ Len(plan) \in {1, 2}
      /\ (Len(plan) = 2 => Call.tool = "describe_table")
  BY TurnIs, EmptySeq
<1>2. CASE /\ Call.tool = "list_tables" /\ Now = "show"
           /\ left \in {ShowSchemas, Tail(ShowSchemas)}
  <2>1. left[i] = Ask("schemas", "show")
    <3> DEFINE q == Query("schemas", "show")
               t == << Ask("schemas", "show"), Close >>
    <3>1. ShowSchemas = q /\ Tail(ShowSchemas) = t
      BY DEF ShowSchemas, Query
    <3>2. /\ DOMAIN q = 1 .. 3 /\ q[1].do # "ask" /\ q[2] = Ask("schemas", "show")
          /\ q[3].do # "ask"
      BY QueryIs
    <3>3. DOMAIN t = 1 .. 2 /\ t[1] = Ask("schemas", "show") /\ t[2] = Close
      OBVIOUS
    <3>4. Close.do # "ask"
      BY DEF Close
    <3> HIDE DEF q, t
    <3>5. /\ \A j \in 1 .. 3 : j = 1 \/ j = 2 \/ j = 3
          /\ \A j \in 1 .. 2 : j = 1 \/ j = 2
      OBVIOUS
    <3>6. left = q \/ left = t
      BY <1>2, <3>1
    <3> QED
      BY <3>2, <3>3, <3>4, <3>5, <3>6
  <2> QED
    BY <1>1, <1>2, <2>1 DEF Ask
<1>3. CASE IsQueries(left, About(plan, 1, Call.tool), Now)
  <2>1. left[i] = Ask(About(plan, 1, Call.tool), Now)
    BY <1>1, <1>3, FewerQueries
  <2> QED
    BY <1>3, <2>1 DEF Ask
<1> QED
  BY <1>2, <1>3 DEF LeftFacts

\* What a plan of the other backends may ask.
ServerAsks(s, tool) ==
  \A i \in DOMAIN s : s[i].do = "ask" =>
    s[i].source = "server" /\ (tool = "list_tables" => s[i].what # "schemas")

\* Carrying out an instruction leaves the shape of a plan.
LEMMA ShapeProceeds ==
  ASSUME NEW m \in Nat, NEW h, NEW p, PlanFrom(p, h, m), NEW s, NEW tool, NEW chain
  PROVE  LET q == [p EXCEPT ![1][1] = s]
         IN  /\ DatabricksShape(p, tool, chain) => DatabricksShape(q, tool, chain)
             /\ ServerShape(p, tool) /\ ServerAsks(s, tool) => ServerShape(q, tool)
             /\ \A k : About(q, k, tool) = About(p, k, tool)
<1> DEFINE q == [p EXCEPT ![1][1] = s]
<1>1. /\ Len(p) \in Nat \ {0} /\ DOMAIN p = 1 .. Len(p) /\ 1 \in 1 .. Len(p)
      /\ \A k \in 1 .. Len(p) :
           /\ Len(p[k]) \in Nat \ {0} /\ DOMAIN p[k] = 1 .. Len(p[k]) /\ 1 \in 1 .. Len(p[k])
  BY PlanIs
<1>2. /\ Len(q) = Len(p) /\ DOMAIN q = DOMAIN p /\ q[1][1] = s
      /\ \A k \in 1 .. Len(p) :
           /\ Len(q[k]) = Len(p[k]) /\ DOMAIN q[k] = DOMAIN p[k]
           /\ \A j \in 1 .. Len(p[k]) : k # 1 \/ j # 1 => q[k][j] = p[k][j]
  BY PlanProceeds
<1> HIDE DEF q
<1>3. \A k : About(q, k, tool) = About(p, k, tool)
  BY <1>2 DEF About
<1>4. ASSUME DatabricksShape(p, tool, chain) PROVE DatabricksShape(q, tool, chain)
  <2>1. ASSUME NEW k \in 1 .. Len(p), NEW j \in 1 .. Len(p[k]), k > 1 \/ j > 1
        PROVE  IsFresh(q[k][j], About(q, k, tool), chain[Len(chain) - Len(q[k]) + j])
    <3>1. k # 1 \/ j # 1
      BY <1>1, <2>1
    <3>2. IsFresh(p[k][j], About(p, k, tool), chain[Len(chain) - Len(p[k]) + j])
      BY <1>1, <1>4, <2>1 DEF DatabricksShape
    <3> QED
      BY <1>2, <1>3, <3>1, <3>2
  <2>2. /\ Len(q) \in 1 .. (IF tool = "describe_table" THEN 2 ELSE 1)
        /\ \A k \in 1 .. Len(p) : /\ Len(q[k]) \in 1 .. Len(chain)
                                  /\ k > 1 => Len(q[k]) = Len(chain)
    BY <1>1, <1>2, <1>4 DEF DatabricksShape
  <2> QED
    BY <1>1, <1>2, <2>1, <2>2 DEF DatabricksShape
<1>5. ASSUME ServerShape(p, tool), ServerAsks(s, tool)
      PROVE  ServerShape(q, tool)
  BY <1>1, <1>2, <1>5 DEF ServerShape, ServerAsks
<1> QED
  BY <1>3, <1>4, <1>5 DEF q

\* An instruction has been carried out: the turn is the same.
LEMMA SameTurn ==
  ASSUME UNCHANGED << config, calls >>, Fetching, stage' = "asking", PlanInv, PlanShape,
         NEW s, plan' = [plan EXCEPT ![1][1] = s],
         Target.type # "databricks" =>
           \A i \in DOMAIN s : s[i].do = "ask" =>
             s[i].source = "server" /\ (Call.tool = "list_tables" => s[i].what # "schemas")
  PROVE  /\ Fetching' /\ PlanShape' /\ Turn' = Turn /\ Now' = Now
         /\ Len(plan') = Len(plan) /\ plan'[1][1] = s
         /\ About(plan', 1, Call.tool) = About(plan, 1, Call.tool)
<1> DEFINE m == Needs(Target.type)
<1>1. m \in Nat /\ PlanFrom(plan, held, m)
  BY PlanHolds DEF Fetching
<1> HIDE DEF m
<1>2. Call' = Call /\ Target' = Target /\ Chain' = Chain
  BY SameCall
<1>3. /\ Len(plan') = Len(plan) /\ plan'[1][1] = s /\ Len(plan'[1]) = Len(plan[1])
  BY <1>1, PlanIs, PlanProceeds
<1>4. PICK tool : tool = Call.tool
  OBVIOUS
<1>5. PICK chain : chain = Chain
  OBVIOUS
<1>6. /\ DatabricksShape(plan, tool, chain) => DatabricksShape(plan', tool, chain)
      /\ ServerShape(plan, tool) /\ ServerAsks(s, tool) => ServerShape(plan', tool)
      /\ \A k : About(plan', k, tool) = About(plan, k, tool)
  <2>1. PICK p : p = plan
    OBVIOUS
  <2>2. PICK h : h = held
    OBVIOUS
  <2> DEFINE q == [p EXCEPT ![1][1] = s]
  <2>3. /\ DatabricksShape(p, tool, chain) => DatabricksShape(q, tool, chain)
        /\ ServerShape(p, tool) /\ ServerAsks(s, tool) => ServerShape(q, tool)
        /\ \A k : About(q, k, tool) = About(p, k, tool)
    <3>1. m \in Nat /\ PlanFrom(p, h, m)
      BY <1>1, <2>1, <2>2
    <3>2. /\ DatabricksShape(p, tool, chain) => DatabricksShape(q, tool, chain)
          /\ ServerShape(p, tool) /\ ServerAsks(s, tool) => ServerShape(q, tool)
      BY <3>1, ShapeProceeds
    <3>3. ASSUME NEW k
          PROVE  About(q, k, tool) = About(p, k, tool)
      BY <3>1, ShapeProceeds
    <3> QED
      BY <3>2, <3>3
  <2>4. plan' = q
    BY <2>1
  <2> HIDE DEF q
  <2> QED
    BY <2>1, <2>3, <2>4
<1>7. Fetching'
  BY <1>2 DEF Fetching
<1>8. Call.tool' = tool /\ Chain' = chain /\ Target.type' = Target.type
  BY <1>2, <1>4, <1>5
<1>9. PlanShape'
  <2>1. Target.type # "databricks" => ServerAsks(s, tool)
    BY <1>4 DEF ServerAsks
  <2> QED
    BY <1>4, <1>5, <1>6, <1>8, <2>1 DEF PlanShape
<1>10. Turn' = Turn
  BY <1>2, <1>3 DEF Turn
<1>11. Now' = Now
  BY <1>2, <1>10 DEF Now
<1> QED
  BY <1>3, <1>4, <1>6, <1>7, <1>9, <1>10, <1>11

\* What was tried for the call in progress, after a step.
LEMMA CurrentIs ==
  ASSUME UNCHANGED << config, calls >>, NEW c, c = Current, NEW chain, chain = Chain,
         NEW now, now = Now'
  PROVE  /\ TriedBy(Current)' = TriedBy(c)' /\ Mine(Current)' = Mine(c)'
         /\ Used(Current, Now)' = Used(c, now)'
         /\ \A k : FailedAt(Current, Chain[k])' <=> FailedAt(c, chain[k])'
         /\ NamedAt' = { i \in Mine(c)' : /\ tried'[i].outcome # None
                                          /\ tried'[i].what # Kept(Call.tool) }
<1>1. Current' = c /\ Call' = Call /\ Chain' = chain
  BY SameCall
<1>2. TriedBy(Current)' = TriedBy(c)'
  BY <1>1 DEF TriedBy
<1>3. Mine(Current)' = Mine(c)'
  BY <1>1, <1>2 DEF Mine
<1>4. Used(Current, Now)' = Used(c, now)'
  BY <1>1, <1>3 DEF Used
<1>5. \A k : FailedAt(Current, Chain[k])' <=> FailedAt(c, chain[k])'
  BY <1>1, <1>2 DEF FailedAt
<1>6. NamedAt' = { i \in Mine(c)' : /\ tried'[i].outcome # None
                                    /\ tried'[i].what # Kept(Call.tool) }
  BY <1>1, <1>3 DEF NamedAt
<1> QED
  BY <1>2, <1>3, <1>4, <1>5, <1>6
------------------------------------------------------------------------------
\* Opening and closing a connection.

\* A connection that is opened or closed leaves everything as it is.
LEMMA FetchAdvances ==
  ASSUME PlanInv, PlanShape, TurnFacts, LeftFacts, Fetching,
         OpenConnection \/ CloseConnection
  PROVE  PlanShape' /\ TurnFacts' /\ LeftFacts'
<1> DEFINE left == plan[1][1]
           s == Tail(left)
<1>1. /\ stage' = "asking" /\ left # << >> /\ plan' = [plan EXCEPT ![1][1] = s]
      /\ UNCHANGED << config, calls, rows, tried >> /\ left[1].do # "ask"
      /\ left[1].do \in {"open", "close"}
  BY DEF OpenConnection, CloseConnection, Asking, Proceed, Instruction
<1>2. /\ Len(plan) \in {1, 2} /\ DOMAIN plan = 1 .. Len(plan)
      /\ DOMAIN plan[1] = 1 .. Len(plan[1]) /\ 1 \in DOMAIN plan[1] /\ 1 \in DOMAIN plan
      /\ left \in Seq(Instructions)
  BY TurnIs
<1>3. /\ s \in Seq(Instructions) /\ DOMAIN left = 1 .. Len(left) /\ Len(left) \in Nat \ {0}
      /\ DOMAIN s = 1 .. Len(left) - 1 /\ \A i \in 1 .. Len(left) - 1 : s[i] = left[i + 1]
  <2>1. /\ s \in Seq(Instructions) /\ Len(s) = Len(left) - 1
        /\ \A i \in 1 .. Len(left) - 1 : s[i] = left[i + 1]
    BY <1>1, <1>2, HeadTailProperties
  <2> QED
    BY <1>1, <1>2, <2>1, LenProperties, EmptySeq
<1>4. ASSUME Target.type # "databricks"
      PROVE  \A i \in DOMAIN s : s[i].do = "ask" =>
               s[i].source = "server" /\ (Call.tool = "list_tables" => s[i].what # "schemas")
  <2>1. ServerShape(plan, Call.tool)
    BY <1>4 DEF PlanShape, Fetching
  <2>2. \A i \in DOMAIN s : i + 1 \in DOMAIN left /\ s[i] = left[i + 1]
    BY <1>3
  <2> QED
    BY <2>1, <2>2 DEF ServerShape
<1> HIDE DEF s
<1>5. /\ Fetching' /\ PlanShape' /\ Turn' = Turn /\ Now' = Now
      /\ Len(plan') = Len(plan) /\ plan'[1][1] = s
      /\ About(plan', 1, Call.tool) = About(plan, 1, Call.tool)
  BY <1>1, <1>4, SameTurn
<1>6. PICK c : c = Current
  OBVIOUS
<1>7. PICK chain : chain = Chain
  OBVIOUS
<1>8. PICK now : now = Now
  OBVIOUS
<1>9. Current' = Current /\ Call' = Call /\ Target' = Target /\ Chain' = Chain
  BY <1>1, SameCall
<1>10. /\ Mine(Current)' = Mine(Current) /\ Used(Current, Now)' = Used(Current, Now)
       /\ \A k : FailedAt(Current, Chain[k])' <=> FailedAt(Current, Chain[k])
       /\ NamedAt' = NamedAt
  <2>1. /\ Mine(c)' = Mine(c) /\ \A o : Used(c, o)' = Used(c, o)
        /\ \A o : FailedAt(c, o)' <=> FailedAt(c, o)
    BY <1>1, NothingTried
  <2>2. /\ Mine(Current)' = Mine(c)' /\ Used(Current, Now)' = Used(c, now)'
        /\ \A k : FailedAt(Current, Chain[k])' <=> FailedAt(c, chain[k])'
        /\ NamedAt' = { i \in Mine(c)' : /\ tried'[i].outcome # None
                                         /\ tried'[i].what # Kept(Call.tool) }
    BY <1>1, <1>5, <1>6, <1>7, <1>8, CurrentIs
  <2> QED
    BY <1>1, <1>6, <1>7, <1>8, <2>1, <2>2 DEF NamedAt
<1>11. TurnFacts'
  BY <1>1, <1>5, <1>9, <1>10 DEF TurnFacts
<1>12. LeftFacts'
  <2>1. CASE Target.type # "databricks"
    <3>1. \/ Used(Current, Now) # {}
          \/ \E i \in DOMAIN left : left[i].do = "ask" /\ left[i].what = Kept(Call.tool)
      BY <2>1 DEF LeftFacts
    <3>2. ASSUME NEW i \in DOMAIN left, left[i].do = "ask", left[i].what = Kept(Call.tool)
          PROVE  \E j \in DOMAIN s : s[j].do = "ask" /\ s[j].what = Kept(Call.tool)
      <4>1. i - 1 \in 1 .. Len(left) - 1 /\ (i - 1) + 1 = i
        BY <1>1, <1>3, <3>2
      <4>2. i - 1 \in DOMAIN s /\ s[i - 1] = left[i]
        BY <1>3, <4>1
      <4> QED
        BY <3>2, <4>2
    <3>3. \/ Used(Current, Now) # {}
          \/ \E j \in DOMAIN s : s[j].do = "ask" /\ s[j].what = Kept(Call.tool)
      BY <3>1, <3>2
    <3> QED
      BY <1>5, <1>9, <1>10, <2>1, <3>3 DEF LeftFacts
  <2>2. CASE Target.type = "databricks"
    <3>1. CASE /\ Call.tool = "list_tables" /\ Now = "show"
               /\ left \in {ShowSchemas, Tail(ShowSchemas)}
               /\ \A i \in Mine(Current) : tried[i].source # "show"
      <4>1. s = Tail(ShowSchemas)
        <5>1. Tail(ShowSchemas)[1].do = "ask"
          BY DEF ShowSchemas, Query, Ask
        <5> QED
          BY <1>1, <3>1, <5>1 DEF s
      <4> QED
        BY <1>1, <1>5, <1>9, <1>10, <2>2, <3>1, <4>1 DEF LeftFacts
    <3>2. CASE /\ IsQueries(left, About(plan, 1, Call.tool), Now)
               /\ Len(plan) = 1 =>
                    /\ NamedAt = {} => Cardinality(Used(Current, Now)) + AsksIn(left) = 1
                    /\ \A i \in NamedAt :
                         tried[i].outcome = Cardinality(Used(Current, Now)) + AsksIn(left)
      <4>1. IsQueries(s, About(plan, 1, Call.tool), Now) /\ AsksIn(s) = AsksIn(left)
        BY <1>1, <1>2, <3>2, FewerQueries DEF s
      <4> QED
        BY <1>1, <1>5, <1>9, <1>10, <2>2, <3>2, <4>1 DEF LeftFacts
    <3> QED
      BY <2>2, <3>1, <3>2 DEF LeftFacts
  <2> QED
    BY <2>1, <2>2
<1> QED
  BY <1>5, <1>11, <1>12
------------------------------------------------------------------------------
\* A statement returns.

\* What a call has collected are the rows of records that count.
LEMMA UsedCounts ==
  ASSUME PlanTypes, TurnFacts, Fetching
  PROVE  /\ Counts(tried, Used(Current, Now))
         /\ IsFiniteSet(Used(Current, Now)) /\ Cardinality(Used(Current, Now)) \in Nat
         /\ \A i \in Used(Current, Now) : i \in 1 .. Len(tried) /\ tried[i].source = Now
<1>1. /\ Len(tried) \in Nat /\ DOMAIN tried = 1 .. Len(tried)
      /\ \A i \in DOMAIN tried : tried[i].outcome # None => tried[i].outcome \in Nat
      /\ Mine(Current) \subseteq DOMAIN tried /\ Used(Current, Now) \subseteq Mine(Current)
  BY TriedIs
<1>2. \A i \in Used(Current, Now) : tried[i].source = Now /\ tried[i].outcome # None
  BY DEF TurnFacts, Used
<1>3. IsFiniteSet(Used(Current, Now))
  <2>1. Used(Current, Now) \subseteq 1 .. Len(tried) /\ IsFiniteSet(1 .. Len(tried))
    BY <1>1, FS_Interval
  <2> QED
    BY <2>1, FS_Subset
<1>4. Cardinality(Used(Current, Now)) \in Nat
  BY <1>3, FS_CardinalityType
<1> QED
  BY <1>1, <1>2, <1>3, <1>4 DEF Counts

\* What the source in turn returns is added to what it has returned.
LEMMA TurnFactsReturn ==
  ASSUME PlanTypes, PlanInv, PlanShape, TurnFacts, Fetching, UNCHANGED << config, calls >>,
         Turn' = Turn, Now' = Now, Len(plan') = Len(plan),
         NEW ask, ask.source = Now, NEW n \in Nat, Try(ask, n),
         rows' = IF ask.what = Kept(Call.tool) THEN rows + n ELSE rows,
         ask.what \in Relevant(Call.tool) =>
           Len(plan) = 1 /\ (ask.what = Kept(Call.tool) \/ Now = "show")
  PROVE  /\ TurnFacts'
         /\ LET k == Len(tried) + 1
            IN  /\ Mine(Current)' = Mine(Current)
                     \cup IF ask.what \in Relevant(Call.tool) THEN {k} ELSE {}
                /\ Used(Current, Now)' = Used(Current, Now)
                     \cup IF ask.what = Kept(Call.tool) THEN {k} ELSE {}
                /\ NamedAt' = NamedAt
                     \cup IF ask.what \in Relevant(Call.tool) \ {Kept(Call.tool)}
                          THEN {k} ELSE {}
                /\ Cardinality(Used(Current, Now))' = Cardinality(Used(Current, Now))
                     + IF ask.what = Kept(Call.tool) THEN 1 ELSE 0
                /\ tried'[k].outcome = n /\ tried'[k].source = Now
                /\ \A i \in Mine(Current) : i # k /\ tried'[i] = tried[i]
<1> DEFINE k == Len(tried) + 1
<1>1. PICK c : c = Current
  OBVIOUS
<1>2. PICK chain : chain = Chain
  OBVIOUS
<1>3. PICK now : now = Now
  OBVIOUS
<1>4. PICK tool : tool = Call.tool
  OBVIOUS
<1>5. Current' = c /\ Call' = Call /\ Target' = Target /\ Chain' = chain
  BY <1>1, <1>2, SameCall
<1>6. /\ Len(tried) \in Nat /\ k \in Nat /\ DOMAIN tried = 1 .. Len(tried)
      /\ DOMAIN tried' = 1 .. k /\ k \notin DOMAIN tried
      /\ \A i \in DOMAIN tried : tried'[i] = tried[i]
      /\ tried'[k].outcome = n /\ tried'[k].source = now /\ tried'[k].what = ask.what
  <2>1. /\ Len(tried) \in Nat /\ DOMAIN tried = 1 .. Len(tried) /\ DOMAIN tried' = 1 .. k
        /\ \A i \in 1 .. Len(tried) : tried'[i] = tried[i]
        /\ tried'[k] = [ call |-> Current, what |-> ask.what, source |-> ask.source,
                         outcome |-> n ]
    BY OneMoreTried
  <2>2. k \in Nat /\ k \notin 1 .. Len(tried)
    BY <2>1
  <2> HIDE DEF k
  <2> QED
    BY <1>3, <2>1, <2>2
<1>7. /\ Mine(c)' = Mine(c) \cup IF ask.what \in Relevant(tool) THEN {k} ELSE {}
      /\ \A o : Used(c, o)' = Used(c, o)
           \cup IF now = o /\ ask.what = Kept(tool) THEN {k} ELSE {}
      /\ \A o : FailedAt(c, o)' <=> FailedAt(c, o) \/ (now = o /\ n = None)
  <2>1. /\ Mine(c)' = Mine(c) \cup IF c = Current /\ ask.what \in Relevant(calls[c].tool)
                                   THEN {k} ELSE {}
    BY OneMoreTried
  <2>2. ASSUME NEW o
        PROVE  FailedAt(c, o)' <=>
                 FailedAt(c, o) \/ (c = Current /\ ask.source = o /\ n = None)
    BY OneMoreFailed
  <2>3. calls[c].tool = tool
    BY <1>1, <1>4 DEF Call
  <2>5. Mine(c)' = Mine(c) \cup IF ask.what \in Relevant(tool) THEN {k} ELSE {}
    BY <1>1, <2>1, <2>3
  <2>6. Mine(c) \subseteq DOMAIN tried
    BY TriedIs
  <2>7. Kept(tool) \in Relevant(tool) /\ calls'[c] = calls[c]
    BY DEF Relevant
  <2>4. ASSUME NEW o
        PROVE  Used(c, o)' = Used(c, o)
                 \cup IF now = o /\ ask.what = Kept(tool) THEN {k} ELSE {}
    <3> HIDE DEF k
    <3>1. Used(c, o) = { i \in Mine(c) : tried[i].source = o /\ tried[i].what = Kept(tool) }
      BY <2>3 DEF Used
    <3>2. Used(c, o)' = { i \in Mine(c)' : tried'[i].source = o /\ tried'[i].what = Kept(tool) }
      BY <2>3, <2>7 DEF Used
    <3> QED
      BY <1>6, <2>5, <2>6, <2>7, <3>1, <3>2
  <2> HIDE DEF k
  <2> QED
    BY <1>1, <1>3, <2>2, <2>4, <2>5
<1>8. /\ Mine(c) \subseteq DOMAIN tried
      /\ \A i \in DOMAIN tried : tried[i].outcome # None => tried[i].outcome \in Nat
  BY TriedIs
<1>9. /\ Mine(Current)' = Mine(c)' /\ Used(Current, Now)' = Used(c, now)'
      /\ \A j : FailedAt(Current, Chain[j])' <=> FailedAt(c, chain[j])'
      /\ NamedAt' = { i \in Mine(c)' : /\ tried'[i].outcome # None
                                       /\ tried'[i].what # Kept(tool) }
  BY <1>1, <1>2, <1>3, <1>4, CurrentIs
<1>10. n # None /\ Kept(tool) \in Relevant(tool)
  BY MetadataNoneAssumption DEF Relevant
<1>11. NamedAt' = NamedAt \cup IF ask.what \in Relevant(tool) \ {Kept(tool)} THEN {k} ELSE {}
  <2>1. NamedAt = { i \in Mine(c) : /\ tried[i].outcome # None
                                    /\ tried[i].what # Kept(tool) }
    BY <1>1, <1>4 DEF NamedAt
  <2> HIDE DEF k
  <2> QED
    BY <1>6, <1>7, <1>8, <1>9, <1>10, <2>1
<1>12. /\ Counts(tried, Used(c, now))
       /\ IsFiniteSet(Used(c, now)) /\ Cardinality(Used(c, now)) \in Nat
       /\ k \notin Used(c, now)
  <2>1. /\ Counts(tried, Used(c, now)) /\ IsFiniteSet(Used(c, now))
        /\ Cardinality(Used(c, now)) \in Nat
    BY <1>1, <1>3, UsedCounts
  <2> QED
    BY <1>6, <2>1 DEF Counts
<1>13. Cardinality(Used(c, now)') = Cardinality(Used(c, now))
                                      + IF ask.what = Kept(tool) THEN 1 ELSE 0
  <2>1. CASE ask.what = Kept(tool)
    <3>1. Used(c, now)' = Used(c, now) \cup {k}
      BY <1>7, <2>1
    <3> QED
      BY <1>12, <2>1, <3>1, FS_AddElement
  <2>2. CASE ask.what # Kept(tool)
    <3>1. Used(c, now)' = Used(c, now)
      BY <1>7, <2>2
    <3> QED
      BY <1>12, <2>2, <3>1
  <2> QED
    BY <2>1, <2>2
<1>14. rows' = RowsOf(tried', Used(c, now)')
  <2>1. rows = RowsOf(tried, Used(c, now))
    BY <1>1, <1>3 DEF TurnFacts
  <2>2. PICK used : used = Used(c, now)
    OBVIOUS
  <2>3. /\ RowsOf(tried, used) \in Nat /\ RowsOf(tried', used) = RowsOf(tried, used)
        /\ RowsOf(tried', used \cup {k}) = RowsOf(tried, used) + n
    <3>1. /\ Counts(tried, used) /\ DOMAIN tried' = 1 .. Len(tried) + 1
          /\ \A i \in DOMAIN tried : tried'[i] = tried[i]
          /\ tried'[Len(tried) + 1].outcome = n
      BY <1>6, <1>12, <2>2
    <3>2. PICK more : more = tried'
      OBVIOUS
    <3>3. PICK seq : seq = tried
      OBVIOUS
    <3> HIDE DEF k
    <3>4. Counts(seq, used) /\ Extends(more, seq) /\ more[Len(seq) + 1].outcome = n
      BY <3>1, <3>2, <3>3 DEF Extends
    <3>5. RowsOf(seq, used) \in Nat /\ RowsOf(more, used) = RowsOf(seq, used)
      BY <3>4, MoreRows
    <3>6. more[Len(seq) + 1].outcome \in Nat =>
            RowsOf(more, used \cup {Len(seq) + 1})
              = RowsOf(seq, used) + more[Len(seq) + 1].outcome
      BY <3>4, MoreRows
    <3>7. RowsOf(more, used \cup {Len(seq) + 1}) = RowsOf(seq, used) + n
      BY <3>4, <3>6
    <3> QED
      BY <3>2, <3>3, <3>5, <3>7 DEF k
  <2>4. CASE ask.what = Kept(tool)
    <3>1. Used(c, now)' = used \cup {k} /\ rows' = rows + n
      BY <1>4, <1>7, <2>2, <2>4
    <3> QED
      BY <2>1, <2>2, <2>3, <3>1
  <2>5. CASE ask.what # Kept(tool)
    <3>1. Used(c, now)' = used /\ rows' = rows
      BY <1>4, <1>7, <2>2, <2>5
    <3> QED
      BY <2>1, <2>2, <2>3, <3>1
  <2> QED
    BY <2>4, <2>5
<1>15. Turn \in 1 .. Len(Chain) /\ Now = Chain[Turn] /\ Len(Chain) \in Nat
  BY TurnIs
<1>16. ASSUME NEW i \in Mine(c)'
       PROVE  /\ \E j \in 1 .. Turn : tried'[i].source = chain[j]
              /\ tried'[i].source = now <=> tried'[i].outcome # None
              /\ \A j \in Mine(c)' : tried'[i].source = now /\ i < j => tried'[j].source = now
              /\ tried'[i].what # Kept(tool) => tried'[i].source = "show"
  <2>1. CASE i \in Mine(c)
    <3>1. /\ \E j \in 1 .. Turn : tried[i].source = chain[j]
          /\ tried[i].source = now <=> tried[i].outcome # None
          /\ \A j \in Mine(c) : tried[i].source = now /\ i < j => tried[j].source = now
          /\ tried[i].what # Kept(tool) => tried[i].source = "show"
      BY <1>1, <1>2, <1>3, <1>4, <2>1 DEF TurnFacts
    <3>2. tried'[i] = tried[i]
      BY <1>6, <1>8, <2>1
    <3>3. \A j \in Mine(c)' : j \in Mine(c) \/ j = k
      BY <1>7
    <3>4. \A j \in Mine(c) : tried'[j] = tried[j]
      BY <1>6, <1>8
    <3> HIDE DEF k
    <3> QED
      BY <1>6, <3>1, <3>2, <3>3, <3>4
  <2>2. CASE i \notin Mine(c)
    <3>1. i = k /\ ask.what \in Relevant(tool)
      BY <1>7, <2>2
    <3>2. ~(k < k) /\ \A j \in Mine(c) : ~(k < j)
      BY <1>6, <1>8
    <3>3. \A j \in Mine(c)' : j \in Mine(c) \/ j = k
      BY <1>7
    <3>4. now = chain[Turn] /\ Turn \in 1 .. Turn
      BY <1>2, <1>3, <1>15
    <3>5. ask.what # Kept(tool) => now = "show"
      BY <1>3, <1>4, <3>1
    <3> HIDE DEF k
    <3> QED
      BY <1>6, <1>10, <3>1, <3>2, <3>3, <3>4, <3>5
  <2> QED
    BY <2>1, <2>2
<1>17. Len(plan) = 2 => Mine(c)' = {}
  BY <1>1, <1>4, <1>7 DEF TurnFacts
<1>18. Len(plan) = 1 => \A j \in 1 .. Turn - 1 : FailedAt(c, chain[j])'
  BY <1>1, <1>2, <1>7 DEF TurnFacts
<1>19. TurnFacts'
  <2>1. Mine(Current)' = Mine(c)' /\ Used(Current, Now)' = Used(c, now)'
    BY <1>9
  <2>2. \A j \in 1 .. Turn - 1 : FailedAt(c, chain[j])' => FailedAt(Current, Chain[j])'
    BY <1>9
  <2>3. Call'.tool = tool /\ Now' = now /\ Chain' = chain /\ Turn' = Turn /\ Len(plan') = Len(plan)
    BY <1>3, <1>4, <1>5
  <2> QED
    BY <1>14, <1>16, <1>17, <1>18, <2>1, <2>2, <2>3 DEF TurnFacts
<1>20. \A i \in Mine(c) : i # k /\ tried'[i] = tried[i]
  BY <1>6, <1>8
<1>21. Cardinality(Used(Current, Now))' = Cardinality(Used(c, now)')
  BY <1>9
<1> HIDE DEF k
<1>22. /\ Mine(Current)' = Mine(Current) \cup IF ask.what \in Relevant(Call.tool) THEN {k} ELSE {}
       /\ Used(Current, Now)' = Used(Current, Now)
            \cup IF ask.what = Kept(Call.tool) THEN {k} ELSE {}
  BY <1>1, <1>3, <1>4, <1>7, <1>9
<1>23. NamedAt' = NamedAt
         \cup IF ask.what \in Relevant(Call.tool) \ {Kept(Call.tool)} THEN {k} ELSE {}
  BY <1>4, <1>11
<1>24. Cardinality(Used(Current, Now))' = Cardinality(Used(Current, Now))
         + IF ask.what = Kept(Call.tool) THEN 1 ELSE 0
  BY <1>1, <1>3, <1>4, <1>13, <1>21
<1>25. /\ tried'[k].outcome = n /\ tried'[k].source = Now
       /\ \A i \in Mine(Current) : i # k /\ tried'[i] = tried[i]
  BY <1>1, <1>3, <1>6, <1>20
<1> QED
  BY <1>19, <1>22, <1>23, <1>24, <1>25 DEF k
\* One instruction of several is left out.
LEMMA TailIs ==
  ASSUME NEW s \in Seq(Instructions), s # << >>
  PROVE  /\ Tail(s) \in Seq(Instructions) /\ 1 \in DOMAIN s
         /\ \A i \in DOMAIN Tail(s) : i + 1 \in DOMAIN s /\ Tail(s)[i] = s[i + 1]
         /\ \A i \in DOMAIN s : i # 1 => i - 1 \in DOMAIN Tail(s) /\ Tail(s)[i - 1] = s[i]
<1>1. DOMAIN s = 1 .. Len(s) /\ Len(s) \in Nat \ {0}
  BY LenProperties, EmptySeq
<1>2. /\ Tail(s) \in Seq(Instructions) /\ Len(Tail(s)) = Len(s) - 1
      /\ \A i \in 1 .. Len(s) - 1 : Tail(s)[i] = s[i + 1]
  BY HeadTailProperties
<1>3. DOMAIN Tail(s) = 1 .. Len(s) - 1
  BY <1>2, LenProperties
<1>4. ASSUME NEW i \in 1 .. Len(s), i # 1
      PROVE  i - 1 \in 1 .. Len(s) - 1 /\ Tail(s)[i - 1] = s[i]
  <2>1. i - 1 \in 1 .. Len(s) - 1 /\ (i - 1) + 1 = i
    BY <1>1, <1>4
  <2> QED
    BY <1>2, <2>1
<1>5. \A i \in 1 .. Len(s) - 1 : i + 1 \in 1 .. Len(s)
  BY <1>1
<1> QED
  BY <1>1, <1>2, <1>3, <1>4, <1>5

\* SHOW SCHEMAS says which schemas' tables are to be shown.
LEMMA SchemasAreNamed ==
  ASSUME PlanTypes, PlanInv, PlanShape, TurnFacts, Fetching, StatementReturns,
         Target.type = "databricks", Call.tool = "list_tables", Now = "show",
         plan[1][1] \in {ShowSchemas, Tail(ShowSchemas)},
         \A i \in Mine(Current) : tried[i].source # "show"
  PROVE  PlanShape' /\ TurnFacts' /\ LeftFacts'
<1> DEFINE left == plan[1][1]
           ask == Instruction
           q == Query("tables", "show")
<1>1. PICK n \in RowCounts :
        /\ Try(ask, n) /\ rows' = (IF ask.what = Kept(Call.tool) THEN rows + n ELSE rows)
        /\ plan' = [plan EXCEPT ![1][1] = Tail(left) \o followed_by(ask, n)]
  BY DEF StatementReturns, Proceed
<1>2. n \in Nat
  BY MetadataAssumption
<1>3. /\ UNCHANGED << config, calls >> /\ stage' = "asking" /\ left[1].do = "ask"
  BY DEF StatementReturns, Asking, Instruction, Fetching
<1>4. /\ ask = Ask("schemas", "show") /\ Tail(left) = << Close >>
      /\ ask.what = "schemas" /\ ask.source = "show"
  <2>1. ShowSchemas[1].do # "ask"
    BY DEF ShowSchemas, Query, Open
  <2>2. left = Tail(ShowSchemas)
    BY <1>3, <2>1
  <2>3. Tail(ShowSchemas) = << Ask("schemas", "show"), Close >>
    BY DEF ShowSchemas, Query
  <2>4. left = << Ask("schemas", "show"), Close >>
    BY <2>2, <2>3
  <2>5. ask = Ask("schemas", "show")
    BY <2>4 DEF Instruction
  <2> QED
    BY <2>4, <2>5 DEF Ask
<1>5. /\ Kept(Call.tool) = "tables" /\ Relevant(Call.tool) = {"tables", "schemas"}
      /\ Len(plan) = 1
  BY KeptIs, TurnIs
<1> DEFINE s == << Close >> \o repeated(q, n)
<1>6. plan' = [plan EXCEPT ![1][1] = s] /\ rows' = rows
  BY <1>1, <1>4, <1>5 DEF followed_by
<1> HIDE DEF s
<1>7. /\ Fetching' /\ PlanShape' /\ Turn' = Turn /\ Now' = Now
      /\ Len(plan') = Len(plan) /\ plan'[1][1] = s
      /\ About(plan', 1, Call.tool) = About(plan, 1, Call.tool)
  BY <1>3, <1>6, SameTurn
<1> DEFINE k == Len(tried) + 1
<1> HIDE DEF ask
<1>8. /\ TurnFacts'
      /\ Used(Current, Now)' = Used(Current, Now) \cup {}
      /\ NamedAt' = NamedAt \cup {k}
      /\ Cardinality(Used(Current, Now))' = Cardinality(Used(Current, Now)) + 0
      /\ tried'[k].outcome = n
  BY <1>1, <1>2, <1>3, <1>4, <1>5, <1>7, TurnFactsReturn
<1>9. NamedAt = {}
  BY DEF NamedAt, TurnFacts
<1>10. Used(Current, Now) = {}
  BY DEF Used
<1>11. Cardinality(Used(Current, Now))' = 0
  BY <1>8, <1>10, FS_EmptySet
<1>12. IsQueries(s, "tables", "show") /\ AsksIn(s) = n
  BY <1>2, QueriesFollow DEF s, What, Source
<1>13. About(plan, 1, Call.tool) = "tables"
  BY <1>5 DEF About
<1>14. Call' = Call /\ Target' = Target
  BY <1>3, SameCall
<1>15. \A i \in NamedAt' : tried'[i].outcome = n
  BY <1>8, <1>9
<1>16. NamedAt' # {}
  BY <1>8
<1>17. Cardinality(Used(Current, Now))' + AsksIn(s) = n
  BY <1>2, <1>11, <1>12
<1>18. LeftFacts'
  BY <1>7, <1>12, <1>13, <1>14, <1>15, <1>16, <1>17 DEF LeftFacts
<1> QED
  BY <1>7, <1>8, <1>18

\* A query of Databricks returns that lists something, or checks for the table.
LEMMA QueryReturns ==
  ASSUME PlanTypes, PlanInv, PlanShape, TurnFacts, Fetching, StatementReturns,
         Target.type = "databricks",
         IsQueries(plan[1][1], About(plan, 1, Call.tool), Now),
         Len(plan) = 1 =>
           /\ NamedAt = {} => Cardinality(Used(Current, Now)) + AsksIn(plan[1][1]) = 1
           /\ \A i \in NamedAt :
                tried[i].outcome = Cardinality(Used(Current, Now)) + AsksIn(plan[1][1])
  PROVE  PlanShape' /\ TurnFacts' /\ LeftFacts'
<1> DEFINE left == plan[1][1]
           ask == Instruction
           s == Tail(left)
           about == About(plan, 1, Call.tool)
<1>1. PICK n \in RowCounts :
        /\ Try(ask, n) /\ rows' = (IF ask.what = Kept(Call.tool) THEN rows + n ELSE rows)
        /\ plan' = [plan EXCEPT ![1][1] = Tail(left) \o followed_by(ask, n)]
  BY DEF StatementReturns, Proceed
<1>2. n \in Nat
  BY MetadataAssumption
<1>3. /\ UNCHANGED << config, calls >> /\ stage' = "asking" /\ left[1].do = "ask"
      /\ left # << >> /\ ask = left[1] /\ Call.tool \in Listing
  BY DEF StatementReturns, Asking, Instruction, Fetching
<1>4. left \in Seq(Instructions) /\ Len(plan) \in {1, 2}
      /\ (Len(plan) = 2 => Call.tool = "describe_table")
  BY TurnIs
<1>5. /\ s \in Seq(Instructions)
      /\ IsQueries(s, about, Now) /\ AsksIn(s) \in Nat /\ AsksIn(left) = AsksIn(s) + 1
      /\ ask = Ask(about, Now) /\ ask.what = about /\ ask.source = Now
  <2>1. s \in Seq(Instructions)
    BY <1>3, <1>4, TailIs
  <2>2. /\ IsQueries(s, about, Now) /\ AsksIn(s) \in Nat /\ AsksIn(left) = AsksIn(s) + 1
        /\ ask = Ask(about, Now)
    BY <1>3, <1>4, FewerQueries
  <2> QED
    BY <2>1, <2>2 DEF Ask
<1> HIDE DEF ask
<1>6. /\ Len(plan) = 1 => about = Kept(Call.tool)
      /\ Len(plan) = 2 => about = "table" /\ about \notin Relevant(Call.tool)
  <2>1. about = IF 1 < Len(plan) THEN "table" ELSE Kept(Call.tool)
    BY DEF About
  <2> HIDE DEF about
  <2>2. CASE Len(plan) = 1
    BY <2>1, <2>2
  <2>3. CASE Len(plan) = 2
    <3>1. about = "table"
      BY <2>1, <2>3
    <3>2. Relevant(Call.tool) = {"columns"}
      BY <1>4, <2>3, KeptIs
    <3> QED
      BY <2>3, <3>1, <3>2
  <2> QED
    BY <1>4, <2>2, <2>3
<1>7. followed_by(ask, n) = << >>
  <2>1. Call.tool = "list_tables" => about = "tables"
    BY <1>4, <1>6, KeptIs
  <2> QED
    BY <1>5, <2>1 DEF followed_by
<1>8. s \o << >> = s
  BY <1>5, ConcatEmptySeq
<1>9. plan' = [plan EXCEPT ![1][1] = s]
  BY <1>1, <1>7, <1>8
<1> HIDE DEF s
<1>10. /\ Fetching' /\ PlanShape' /\ Turn' = Turn /\ Now' = Now
       /\ Len(plan') = Len(plan) /\ plan'[1][1] = s
       /\ About(plan', 1, Call.tool) = About(plan, 1, Call.tool)
  BY <1>3, <1>9, SameTurn
<1> DEFINE k == Len(tried) + 1
<1>11. Kept(Call.tool) \in Relevant(Call.tool)
  BY DEF Relevant
<1> HIDE DEF about
<1>12. ask.what \in Relevant(Call.tool) => Len(plan) = 1 /\ ask.what = Kept(Call.tool)
  BY <1>4, <1>5, <1>6
<1>13. /\ TurnFacts'
       /\ NamedAt' = NamedAt \cup {}
       /\ Cardinality(Used(Current, Now))' = Cardinality(Used(Current, Now))
            + (IF ask.what = Kept(Call.tool) THEN 1 ELSE 0)
       /\ \A i \in Mine(Current) : tried'[i] = tried[i]
  <2>1. ask.what \notin Relevant(Call.tool) \ {Kept(Call.tool)}
    BY <1>12
  <2> QED
    BY <1>1, <1>2, <1>3, <1>5, <1>10, <1>12, <2>1, TurnFactsReturn
<1>14. Call' = Call /\ Target' = Target
  BY <1>3, SameCall
<1>15. NamedAt \subseteq Mine(Current)
  BY DEF NamedAt
<1>16. Len(plan) = 1 =>
         Cardinality(Used(Current, Now))' + AsksIn(s) = Cardinality(Used(Current, Now)) + AsksIn(left)
  <2>1. Cardinality(Used(Current, Now)) \in Nat
    BY UsedCounts
  <2> QED
    BY <1>5, <1>6, <1>13, <2>1
<1>17. LeftFacts'
  <2>1. IsQueries(s, About(plan, 1, Call.tool), Now)
    BY <1>5 DEF about
  <2>2. /\ NamedAt' = NamedAt
        /\ \A i \in NamedAt : tried'[i].outcome = tried[i].outcome
    BY <1>13, <1>15
  <2>3. Len(plan) = 1 =>
          /\ NamedAt = {} => Cardinality(Used(Current, Now))' + AsksIn(s) = 1
          /\ \A i \in NamedAt :
               tried[i].outcome = Cardinality(Used(Current, Now))' + AsksIn(s)
    BY <1>16
  <2>4. Len(plan') = 1 =>
          /\ NamedAt' = {} => Cardinality(Used(Current, Now))' + AsksIn(s) = 1
          /\ \A i \in NamedAt' :
               tried'[i].outcome = Cardinality(Used(Current, Now))' + AsksIn(s)
    BY <1>10, <2>2, <2>3
  <2> QED
    BY <1>10, <1>14, <2>1, <2>4 DEF LeftFacts
<1> QED
  BY <1>10, <1>13, <1>17

\* A statement of an adapter that has one source returns.
LEMMA ServerReturns ==
  ASSUME PlanTypes, PlanInv, PlanShape, TurnFacts, LeftFacts, Fetching, StatementReturns,
         Target.type # "databricks"
  PROVE  PlanShape' /\ TurnFacts' /\ LeftFacts'
<1> DEFINE left == plan[1][1]
           ask == Instruction
           s == Tail(left)
<1>1. PICK n \in RowCounts :
        /\ Try(ask, n) /\ rows' = (IF ask.what = Kept(Call.tool) THEN rows + n ELSE rows)
        /\ plan' = [plan EXCEPT ![1][1] = Tail(left) \o followed_by(ask, n)]
  BY DEF StatementReturns, Proceed
<1>2. n \in Nat
  BY MetadataAssumption
<1>3. /\ UNCHANGED << config, calls >> /\ stage' = "asking" /\ left[1].do = "ask"
      /\ left # << >> /\ ask = left[1] /\ Call.tool \in Listing
  BY DEF StatementReturns, Asking, Instruction, Fetching
<1>4. /\ left \in Seq(Instructions) /\ Len(plan) = 1 /\ Now = "server"
      /\ 1 \in DOMAIN plan /\ 1 \in DOMAIN plan[1]
  BY TurnIs
<1>5. /\ s \in Seq(Instructions) /\ 1 \in DOMAIN left
      /\ \A i \in DOMAIN s : i + 1 \in DOMAIN left /\ s[i] = left[i + 1]
      /\ \A i \in DOMAIN left : i # 1 => i - 1 \in DOMAIN s /\ s[i - 1] = left[i]
  BY <1>3, <1>4, TailIs
<1>6. \A i \in DOMAIN left : left[i].do = "ask" =>
        left[i].source = "server" /\ (Call.tool = "list_tables" => left[i].what # "schemas")
  BY DEF PlanShape, ServerShape
<1>7. ask.source = Now /\ (Call.tool = "list_tables" => ask.what # "schemas")
  BY <1>3, <1>4, <1>5, <1>6
<1>8. s \o << >> = s
  BY <1>5, ConcatEmptySeq
<1>9. plan' = [plan EXCEPT ![1][1] = s]
  BY <1>1, <1>7, <1>8 DEF followed_by
<1>10. \A i \in DOMAIN s : s[i].do = "ask" =>
         s[i].source = "server" /\ (Call.tool = "list_tables" => s[i].what # "schemas")
  BY <1>5, <1>6
<1> HIDE DEF s, ask
<1>11. /\ Fetching' /\ PlanShape' /\ Turn' = Turn /\ Now' = Now
       /\ Len(plan') = Len(plan) /\ plan'[1][1] = s
  BY <1>3, <1>9, <1>10, SameTurn
<1>12. ask.what \in Relevant(Call.tool) => ask.what = Kept(Call.tool)
  BY <1>3, <1>7, KeptIs DEF Listing
<1> DEFINE k == Len(tried) + 1
<1>13. /\ TurnFacts'
       /\ Used(Current, Now)' = Used(Current, Now)
            \cup (IF ask.what = Kept(Call.tool) THEN {k} ELSE {})
  BY <1>1, <1>2, <1>3, <1>4, <1>7, <1>11, <1>12, TurnFactsReturn
<1>14. Call' = Call /\ Target' = Target
  BY <1>3, SameCall
<1>15. \/ Used(Current, Now)' # {}
       \/ \E i \in DOMAIN s : s[i].do = "ask" /\ s[i].what = Kept(Call.tool)
  <2>1. CASE Used(Current, Now) # {} \/ ask.what = Kept(Call.tool)
    BY <1>13, <2>1
  <2>2. CASE Used(Current, Now) = {} /\ ask.what # Kept(Call.tool)
    <3>1. PICK i \in DOMAIN left : left[i].do = "ask" /\ left[i].what = Kept(Call.tool)
      BY <2>2 DEF LeftFacts
    <3>2. i # 1
      BY <1>3, <2>2, <3>1
    <3> QED
      BY <1>5, <3>1, <3>2
  <2> QED
    BY <2>1, <2>2
<1>16. LeftFacts'
  BY <1>11, <1>14, <1>15 DEF LeftFacts
<1> QED
  BY <1>11, <1>13, <1>16

\* A statement returns.
LEMMA FetchReturns ==
  ASSUME PlanTypes, PlanInv, PlanShape, TurnFacts, LeftFacts, Fetching, StatementReturns
  PROVE  PlanShape' /\ TurnFacts' /\ LeftFacts'
BY SchemasAreNamed, QueryReturns, ServerReturns DEF LeftFacts
------------------------------------------------------------------------------
\* A source fails.

Failing == NoDatabase \/ StatementRefused \/ BackendFails

\* Databricks: what has failed is noted with the source whose turn it is.
LEMMA SourceFails ==
  ASSUME PlanInv, PlanFacts, PlanShape, LeftFacts, Fetching, Failing,
         Target.type = "databricks"
  PROVE  /\ UNCHANGED << config, calls, touched, audit, answers >>
         /\ \E exc : FailAlternative(exc)
         /\ plan[1][1] # << >> /\ plan[1][1][1].do # "close"
         /\ \E ask \in Instructions :
              /\ Try(ask, None) /\ ask.source = Now
              /\ \/ /\ ask.what = "schemas" /\ Call.tool = "list_tables"
                    /\ Len(plan) = 1 /\ Now = "show"
                 \/ /\ ask.what = About(plan, 1, Call.tool)
                    /\ IsQueries(plan[1][1], About(plan, 1, Call.tool), Now)
<1> DEFINE left == plan[1][1]
<1>1. BackendFails
  BY DEF Failing, NoDatabase, StatementRefused, nameless, Answerable
<1>2. /\ UNCHANGED << config, calls, touched, audit, answers >>
      /\ \E exc : FailAlternative(exc)
      /\ left # << >> /\ Instruction.do \in {"open", "ask"} /\ Try(NextAsk, None)
  BY <1>1 DEF BackendFails, Asking
<1>3. /\ left \in Seq(Instructions) /\ 1 \in DOMAIN plan /\ 1 \in DOMAIN plan[1]
  BY TurnIs
<1>4. IsUseful(left)
  BY <1>3 DEF PlanFacts, Fetching
<1>5. PICK i \in DOMAIN left : NextAsk = left[i] /\ NextAsk.do = "ask" /\ NextAsk \in Instructions
  BY <1>2, <1>3, <1>4, AskedIs
<1>6. /\ left[i].source = Now
      /\ \/ /\ left[i].what = "schemas" /\ Call.tool = "list_tables"
            /\ Len(plan) = 1 /\ Now = "show"
         \/ /\ left[i].what = About(plan, 1, Call.tool)
            /\ IsQueries(left, About(plan, 1, Call.tool), Now)
  BY <1>5, LeftAsks
<1>7. left[1].do # "close"
  BY <1>2 DEF Instruction
<1> QED
  BY <1>2, <1>5, <1>6, <1>7

\* Another one is asked when nothing of this one has come.
LEMMA NothingCame ==
  ASSUME PlanTypes, PlanInv, PlanShape, TurnFacts, LeftFacts, Fetching,
         Target.type = "databricks", Turn # Len(Chain), Len(plan) = 1,
         plan[1][1] # << >>, plan[1][1][1].do # "close"
  PROVE  \A i \in Mine(Current) : tried[i].source # Now /\ tried[i].outcome = None
<1> DEFINE left == plan[1][1]
           used == Used(Current, Now)
<1>1. Now # "show" /\ left \in Seq(Instructions)
  BY TurnIs
<1>2. /\ IsQueries(left, About(plan, 1, Call.tool), Now)
      /\ NamedAt = {} => Cardinality(used) + AsksIn(left) = 1
  BY <1>1 DEF LeftFacts
<1>3. NamedAt = {}
  BY <1>1 DEF NamedAt, TurnFacts
<1>4. AsksIn(left) \in Nat /\ AsksIn(left) # 0
  BY <1>1, <1>2, FewerQueries
<1>5. IsFiniteSet(used) /\ Cardinality(used) \in Nat
  BY UsedCounts
<1>6. Cardinality(used) = 0
  BY <1>2, <1>3, <1>4, <1>5
<1>7. used = {}
  BY <1>5, <1>6, FS_EmptySet
<1>8. ASSUME NEW i \in Mine(Current) PROVE tried[i].outcome = None
  <2>1. tried[i].outcome # None => tried[i].source = Now /\ tried[i].what = Kept(Call.tool)
    BY <1>3 DEF NamedAt, TurnFacts
  <2> QED
    BY <1>7, <2>1 DEF Used, Call
<1> QED
  BY <1>8 DEF TurnFacts

\* The next alternative is a fresh one.
LEMMA ShapeFallsBack ==
  ASSUME NEW m \in Nat, NEW h, NEW p, PlanFrom(p, h, m), Len(p[1]) > 1, NEW tool, NEW chain,
         DatabricksShape(p, tool, chain), Len(chain) \in Nat
  PROVE  LET q == [p EXCEPT ![1] = Tail(@)]
         IN  /\ DatabricksShape(q, tool, chain)
             /\ Len(q) = Len(p) /\ Len(q[1]) = Len(p[1]) - 1
             /\ IsFresh(q[1][1], About(p, 1, tool), chain[Len(chain) - Len(p[1]) + 2])
             /\ About(q, 1, tool) = About(p, 1, tool)
<1> DEFINE q == [p EXCEPT ![1] = Tail(@)]
<1>1. /\ Len(p) \in Nat \ {0} /\ DOMAIN p = 1 .. Len(p) /\ 1 \in 1 .. Len(p)
      /\ \A k \in 1 .. Len(p) :
           Len(p[k]) \in Nat \ {0} /\ DOMAIN p[k] = 1 .. Len(p[k])
  BY PlanIs
<1>2. /\ Len(q) = Len(p) /\ DOMAIN q = DOMAIN p
      /\ Len(q[1]) = Len(p[1]) - 1 /\ DOMAIN q[1] = 1 .. Len(p[1]) - 1
      /\ \A j \in 1 .. Len(p[1]) - 1 : q[1][j] = p[1][j + 1]
      /\ \A k \in 1 .. Len(p) : k # 1 => q[k] = p[k]
  BY PlanFallsBack
<1> HIDE DEF q
<1>3. \A k : About(q, k, tool) = About(p, k, tool)
  BY <1>2 DEF About
<1>4. ASSUME NEW j \in 1 .. Len(p[1]) - 1
      PROVE  IsFresh(q[1][j], About(p, 1, tool), chain[Len(chain) - Len(q[1]) + j])
  <2>1. j + 1 \in DOMAIN p[1] /\ j + 1 > 1 /\ 1 \in DOMAIN p
        /\ Len(chain) - Len(p[1]) + (j + 1) = Len(chain) - Len(q[1]) + j
    BY <1>1, <1>2
  <2>2. IsFresh(p[1][j + 1], About(p, 1, tool), chain[Len(chain) - Len(p[1]) + (j + 1)])
    BY <2>1 DEF DatabricksShape
  <2> QED
    BY <1>2, <2>1, <2>2
<1>5. ASSUME NEW k \in 1 .. Len(p)
      PROVE  /\ Len(q[k]) \in 1 .. Len(chain) /\ (k > 1 => Len(q[k]) = Len(chain))
             /\ \A j \in DOMAIN q[k] : k > 1 \/ j > 1 =>
                  IsFresh(q[k][j], About(q, k, tool), chain[Len(chain) - Len(q[k]) + j])
  <2>1. Len(p[k]) \in 1 .. Len(chain) /\ (k > 1 => Len(p[k]) = Len(chain))
    BY <1>1 DEF DatabricksShape
  <2>2. CASE k = 1
    <3>1. Len(q[1]) \in 1 .. Len(chain) /\ ~(k > 1)
      BY <1>1, <1>2, <2>1, <2>2
    <3>2. \A j \in DOMAIN q[1] :
            IsFresh(q[1][j], About(q, 1, tool), chain[Len(chain) - Len(q[1]) + j])
      BY <1>2, <1>3, <1>4
    <3> QED
      BY <2>2, <3>1, <3>2
  <2>3. CASE k # 1
    <3>1. k > 1 /\ q[k] = p[k] /\ k \in DOMAIN p
      BY <1>1, <1>2, <2>3
    <3>2. \A j \in DOMAIN p[k] :
            IsFresh(p[k][j], About(p, k, tool), chain[Len(chain) - Len(p[k]) + j])
      BY <3>1 DEF DatabricksShape
    <3> QED
      BY <1>3, <2>1, <3>1, <3>2
  <2> QED
    BY <2>2, <2>3
<1>6. DatabricksShape(q, tool, chain)
  <2>1. Len(q) \in 1 .. (IF tool = "describe_table" THEN 2 ELSE 1)
    BY <1>2 DEF DatabricksShape
  <2> QED
    BY <1>1, <1>2, <1>5, <2>1 DEF DatabricksShape
<1>7. IsFresh(q[1][1], About(p, 1, tool), chain[Len(chain) - Len(p[1]) + 2])
  <2>1. 1 \in 1 .. Len(p[1]) - 1 /\ Len(chain) - Len(q[1]) + 1 = Len(chain) - Len(p[1]) + 2
    BY <1>1, <1>2
  <2> QED
    BY <1>4, <2>1
<1> QED
  BY <1>2, <1>3, <1>6, <1>7 DEF q

\* An alternative fails, and another source is asked.
LEMMA FetchFallsBack ==
  ASSUME PlanTypes, PlanInv, PlanFacts, PlanShape, TurnFacts, LeftFacts, Fetching, Failing,
         Len(plan[1]) > 1
  PROVE  PlanShape' /\ TurnFacts' /\ LeftFacts'
<1> DEFINE m == Needs(Target.type)
<1>1. Target.type = "databricks" /\ Call.tool \in Listing /\ stage = "asking"
  <2>1. Target.type # "databricks" => Len(plan[1]) = 1
    BY TurnIs
  <2>2. Len(plan[1]) \in 1 .. Len(Chain) /\ Len(Chain) \in Nat
    BY TurnIs
  <2>3. PICK l : l = Len(plan[1])
    OBVIOUS
  <2>4. l > 1
    BY <2>3
  <2>5. l # 1
    BY <2>4
  <2> QED
    BY <2>1, <2>3, <2>5 DEF Fetching
<1>2. PICK ask \in Instructions :
        /\ Try(ask, None) /\ ask.source = Now
        /\ \/ /\ ask.what = "schemas" /\ Call.tool = "list_tables"
              /\ Len(plan) = 1 /\ Now = "show"
           \/ /\ ask.what = About(plan, 1, Call.tool)
              /\ IsQueries(plan[1][1], About(plan, 1, Call.tool), Now)
  BY <1>1, SourceFails
<1>3. /\ UNCHANGED << config, calls >>
      /\ plan[1][1] # << >> /\ plan[1][1][1].do # "close" /\ \E exc : FailAlternative(exc)
  BY <1>1, SourceFails
<1>4. plan' = [plan EXCEPT ![1] = Tail(@)] /\ rows' = 0 /\ stage' = "asking"
  BY <1>1, <1>3, FailedPlan
<1>5. /\ Len(plan) \in {1, 2} /\ Len(plan[1]) \in 1 .. Len(Chain) /\ Len(Chain) \in Nat \ {0}
      /\ Turn = Len(Chain) - Len(plan[1]) + 1 /\ Now = Chain[Turn]
      /\ (Now = "show" => Turn = Len(Chain))
      /\ (Len(plan) = 2 => Call.tool = "describe_table")
  BY TurnIs
<1>6. /\ Turn \in 1 .. Len(Chain) - 1 /\ Now # "show"
      /\ ask.what = About(plan, 1, Call.tool)
  <2>1. Turn \in 1 .. Len(Chain) - 1 /\ Turn # Len(Chain)
    BY <1>5
  <2>2. Now # "show"
    BY <1>5, <2>1
  <2> QED
    BY <1>2, <2>1, <2>2
<1>7. m \in Nat /\ PlanFrom(plan, held, m)
  BY <1>1, PlanHolds
<1> HIDE DEF m
<1>8. PICK c : c = Current
  OBVIOUS
<1>9. PICK chain : chain = Chain
  OBVIOUS
<1>10. PICK tool : tool = Call.tool
  OBVIOUS
<1>11. PICK turn : turn = Turn
  OBVIOUS
<1>12. Current' = c /\ Call' = Call /\ Target' = Target /\ Chain' = chain /\ Call.tool' = tool
  BY <1>3, <1>8, <1>9, <1>10, SameCall
<1>13. /\ DatabricksShape(plan', tool, chain)
       /\ Len(plan') = Len(plan) /\ Len(plan'[1]) = Len(plan[1]) - 1
       /\ IsFresh(plan'[1][1], About(plan, 1, tool), chain[Len(chain) - Len(plan[1]) + 2])
       /\ About(plan', 1, tool) = About(plan, 1, tool)
  <2>1. DatabricksShape(plan, tool, chain)
    BY <1>1, <1>9, <1>10 DEF PlanShape
  <2>2. Len(chain) \in Nat
    BY <1>5, <1>9
  <2> QED
    BY <1>4, <1>7, <2>1, <2>2, ShapeFallsBack
<1>14. Fetching'
  BY <1>1, <1>4, <1>12 DEF Fetching
<1>15. PlanShape'
  BY <1>1, <1>12, <1>13 DEF PlanShape
<1>26. PICK next : next = chain[turn + 1]
  OBVIOUS
<1>16. Turn' = turn + 1 /\ Now' = next
  <2>1. Turn' = turn + 1
    BY <1>5, <1>9, <1>11, <1>12, <1>13 DEF Turn
  <2> QED
    BY <1>12, <1>26, <2>1 DEF Now
<1>17. /\ turn \in 1 .. Len(chain) - 1 /\ Len(chain) \in Nat /\ turn + 1 \in 1 .. Len(chain)
       /\ chain[turn] = Now /\ turn = Len(chain) - Len(plan[1]) + 1
  BY <1>5, <1>6, <1>9, <1>11
<1>18. \A i, j \in 1 .. Len(chain) : chain[i] = chain[j] => i = j
  BY <1>1, <1>9, ChainIs
<1>19. \A i \in 1 .. turn : chain[i] # next
  <2> SUFFICES ASSUME NEW i \in 1 .. turn PROVE chain[i] # chain[turn + 1]
    BY <1>26
  <2>1. i \in 1 .. Len(chain) /\ i # turn + 1
    BY <1>17
  <2> QED
    BY <1>17, <1>18, <2>1
<1> DEFINE k == Len(tried) + 1
<1>20. /\ Len(tried) \in Nat /\ k \in Nat /\ DOMAIN tried = 1 .. Len(tried)
       /\ DOMAIN tried' = 1 .. k /\ k \notin DOMAIN tried
       /\ \A i \in DOMAIN tried : tried'[i] = tried[i]
       /\ tried'[k].outcome = None /\ tried'[k].source = chain[turn]
       /\ tried'[k].what = ask.what
  <2>1. /\ Len(tried) \in Nat /\ DOMAIN tried = 1 .. Len(tried) /\ DOMAIN tried' = 1 .. k
        /\ \A i \in 1 .. Len(tried) : tried'[i] = tried[i]
        /\ tried'[k] = [ call |-> Current, what |-> ask.what, source |-> ask.source,
                         outcome |-> None ]
    BY <1>2, <1>3, OneMoreTried
  <2>2. k \in Nat /\ k \notin 1 .. Len(tried)
    BY <2>1
  <2> HIDE DEF k
  <2> QED
    BY <1>2, <1>17, <2>1, <2>2
<1>21. /\ Mine(c)' = Mine(c) \cup IF ask.what \in Relevant(tool) THEN {k} ELSE {}
       /\ \A o : FailedAt(c, o)' <=> FailedAt(c, o) \/ chain[turn] = o
  <2>1. /\ Mine(c)' = Mine(c) \cup IF c = Current /\ ask.what \in Relevant(calls[c].tool)
                                   THEN {k} ELSE {}
        /\ \A o : FailedAt(c, o)' <=>
             FailedAt(c, o) \/ (c = Current /\ ask.source = o /\ None = None)
    BY <1>2, <1>3, OneMoreTried
  <2>2. calls[c].tool = tool
    BY <1>8, <1>10 DEF Call
  <2> HIDE DEF k
  <2> QED
    BY <1>2, <1>8, <1>17, <2>1, <2>2
<1>22. Mine(c) \subseteq DOMAIN tried
  BY TriedIs
<1>23. Kept(tool) \in Relevant(tool) /\ Kept(tool) # "table" /\ tool \in Listing
       /\ Relevant("describe_table") = {"columns"}
  BY <1>1, <1>10, KeptIs
<1>24. CASE Len(plan) = 2
  <2>1. tool = "describe_table" /\ ask.what = "table" /\ ask.what \notin Relevant(tool)
    BY <1>5, <1>6, <1>10, <1>23, <1>24 DEF About
  <2>2. Mine(c)' = {}
    BY <1>8, <1>10, <1>21, <1>24, <2>1 DEF TurnFacts
  <2>3. Len(plan') = 2
    BY <1>13, <1>24
  <2>4. Mine(Current)' = {} /\ Used(Current, Now)' = {}
    <3>1. Mine(Current)' = {}
      BY <1>3, <1>8, <2>2, CurrentIs
    <3> QED
      BY <3>1 DEF Used
  <2>5. rows' = RowsOf(tried, Used(Current, Now))'
    <3>1. RowsOf(tried', {}) = 0
      <4>1. Len(tried') \in Nat /\ DOMAIN tried' = 1 .. Len(tried')
        BY <1>20, LenProperties
      <4> QED
        BY <4>1, NoRows
    <3> QED
      BY <1>4, <2>4, <3>1
  <2>6. TurnFacts'
    BY <2>3, <2>4, <2>5 DEF TurnFacts
  <2>7. plan'[1][1] = Query("table", next)
    <3>1. About(plan, 1, tool) = "table" /\ Len(chain) - Len(plan[1]) + 2 = turn + 1
      BY <1>5, <1>9, <1>11, <1>24 DEF About
    <3> QED
      BY <1>13, <1>26, <3>1 DEF IsFresh
  <2>8. LeftFacts'
    <3>1. IsQueries(plan'[1][1], "table", next)
      BY <2>7, WholeQuery
    <3>2. About(plan', 1, tool) = "table"
      BY <1>13, <1>24 DEF About
    <3> QED
      BY <1>1, <1>12, <1>16, <2>3, <3>1, <3>2 DEF LeftFacts
  <2> QED
    BY <1>15, <2>6, <2>8
<1>25. CASE Len(plan) = 1
  <2>1. ask.what = Kept(tool) /\ Len(plan') = 1
    BY <1>6, <1>10, <1>13, <1>25 DEF About
  <2>2. Mine(c)' = Mine(c) \cup {k}
    BY <1>21, <1>23, <2>1
  <2>3. \A i \in Mine(c) : tried[i].source # Now /\ tried[i].outcome = None
    <3>1. Turn # Len(Chain)
      BY <1>5, <1>6
    <3> QED
      BY <1>1, <1>3, <1>8, <1>25, <3>1, NothingCame
  <2>4. \A i \in Mine(c) :
          /\ \E j \in 1 .. turn : tried[i].source = chain[j]
          /\ tried[i].what # Kept(tool) => tried[i].source = "show"
    BY <1>8, <1>9, <1>10, <1>11 DEF TurnFacts
  <2>5. ASSUME NEW i \in Mine(c)'
        PROVE  /\ \E j \in 1 .. turn : tried'[i].source = chain[j]
               /\ tried'[i].outcome = None
               /\ tried'[i].what # Kept(tool) => tried'[i].source = "show"
    <3>1. CASE i \in Mine(c)
      <4>1. tried'[i] = tried[i]
        BY <1>20, <1>22, <3>1
      <4> QED
        BY <2>3, <2>4, <3>1, <4>1
    <3>2. CASE i = k
      <4>1. turn \in 1 .. turn
        BY <1>17
      <4> HIDE DEF k
      <4> QED
        BY <1>20, <2>1, <3>2, <4>1
    <3> QED
      BY <2>2, <3>1, <3>2
  <2>6. \A i \in Mine(c)' : tried'[i].source # next
    BY <1>19, <2>5
  <2>7. /\ Mine(Current)' = Mine(c)'
        /\ \A j : FailedAt(Current, Chain[j])' <=> FailedAt(c, chain[j])'
        /\ Used(Current, Now)' = Used(c, next)'
        /\ NamedAt' = { i \in Mine(c)' : /\ tried'[i].outcome # None
                                         /\ tried'[i].what # Kept(tool) }
    BY <1>3, <1>8, <1>9, <1>10, <1>16, CurrentIs
  <2>8. Used(c, next)' = {} /\ NamedAt' = {}
    BY <2>5, <2>6, <2>7 DEF Used
  <2>9. rows' = RowsOf(tried, Used(Current, Now))'
    <3>1. RowsOf(tried', {}) = 0
      <4>1. Len(tried') \in Nat /\ DOMAIN tried' = 1 .. Len(tried')
        BY <1>20, LenProperties
      <4> QED
        BY <4>1, NoRows
    <3>2. Used(Current, Now)' = {}
      BY <2>7, <2>8
    <3> QED
      BY <1>4, <3>1, <3>2
  <2>10. \A j \in 1 .. (turn + 1) - 1 : FailedAt(c, chain[j])'
    <3>1. \A j \in 1 .. turn - 1 : FailedAt(c, chain[j])
      BY <1>8, <1>9, <1>11, <1>25 DEF TurnFacts
    <3>2. \A j \in 1 .. (turn + 1) - 1 : j \in 1 .. turn - 1 \/ j = turn
      <4>1. turn \in Nat
        BY <1>17
      <4> QED
        BY <4>1
    <3> QED
      BY <1>21, <3>1, <3>2
  <2>11. \A i \in Mine(c)' : \E j \in 1 .. turn + 1 : tried'[i].source = chain[j]
    <3>1. \A j \in 1 .. turn : j \in 1 .. turn + 1
      BY <1>17
    <3> QED
      BY <2>5, <3>1
  <2>12. TurnFacts'
    <3>1. \A i \in Mine(Current)' :
            /\ \E j \in 1 .. Turn' : tried'[i].source = chain[j]
            /\ tried'[i].source # Now' /\ tried'[i].outcome = None
            /\ tried'[i].what # Kept(Call.tool') => tried'[i].source = "show"
      BY <1>12, <1>16, <2>5, <2>6, <2>7, <2>11
    <3>2. \A j \in 1 .. Turn' - 1 : FailedAt(Current, Chain[j])'
      <4>1. Turn' - 1 = (turn + 1) - 1
        BY <1>16
      <4> QED
        BY <2>7, <2>10, <4>1
    <3>3. Len(plan') # 2
      BY <2>1
    <3> QED
      BY <1>12, <2>9, <3>1, <3>2, <3>3 DEF TurnFacts
  <2>13. IsFresh(plan'[1][1], Kept(tool), next)
    <3>1. About(plan, 1, tool) = Kept(tool) /\ Len(chain) - Len(plan[1]) + 2 = turn + 1
      BY <1>5, <1>9, <1>11, <1>25 DEF About
    <3> QED
      BY <1>13, <1>26, <3>1
  <2>14. About(plan', 1, tool) = Kept(tool)
    BY <2>1 DEF About
  <2>15. LeftFacts'
    <3>1. CASE plan'[1][1] = Query(Kept(tool), next)
      <4>1. /\ IsQueries(plan'[1][1], Kept(tool), next) /\ AsksIn(plan'[1][1]) = 1
        BY <3>1, WholeQuery
      <4>2. Used(Current, Now)' = {} /\ Cardinality({}) = 0
        BY <2>7, <2>8, FS_EmptySet
      <4>3. Cardinality(Used(Current, Now))' + AsksIn(plan'[1][1]) = 1
        BY <4>1, <4>2
      <4> QED
        BY <1>1, <1>12, <1>16, <2>8, <2>14, <4>1, <4>3 DEF LeftFacts
    <3>2. CASE next = "show" /\ Kept(tool) = "tables" /\ plan'[1][1] = ShowSchemas
      <4>1. tool = "list_tables"
        BY <1>23, <3>2, KeptIs DEF Listing
      <4>2. \A i \in Mine(Current)' : tried'[i].source # "show"
        BY <2>6, <2>7, <3>2
      <4> QED
        BY <1>1, <1>12, <1>16, <3>2, <4>1, <4>2 DEF LeftFacts
    <3> QED
      BY <2>13, <3>1, <3>2 DEF IsFresh
  <2> QED
    BY <1>15, <2>12, <2>15
<1> QED
  BY <1>5, <1>24, <1>25
------------------------------------------------------------------------------
\* A task begins.

\* Nothing was collected for it.
LEMMA TurnBegins ==
  ASSUME PlanTypes, UNCHANGED << config, calls, tried >>, rows' = 0, Mine(Current) = {},
         Turn' = 1
  PROVE  TurnFacts' /\ Used(Current, Now)' = {} /\ NamedAt' = {}
<1>1. PICK c : c = Current
  OBVIOUS
<1>2. PICK chain : chain = Chain
  OBVIOUS
<1>3. PICK now : now = Now'
  OBVIOUS
<1>4. calls'[c] = calls[c] /\ UNCHANGED << config, calls >> /\ UNCHANGED tried
  OBVIOUS
<1>5. Mine(c)' = {}
  BY <1>1, <1>4, NothingTried
<1>6. /\ Mine(Current)' = Mine(c)' /\ Used(Current, Now)' = Used(c, now)'
      /\ NamedAt' = { i \in Mine(c)' : /\ tried'[i].outcome # None
                                       /\ tried'[i].what # Kept(Call.tool) }
  BY <1>1, <1>2, <1>3, <1>4, CurrentIs
<1>7. Used(c, now)' = {}
  BY <1>5 DEF Used
<1>8. RowsOf(tried, {}) = 0
  BY TriedIs, NoRows
<1>9. rows' = RowsOf(tried, Used(Current, Now))'
  BY <1>4, <1>6, <1>7, <1>8
<1>10. Mine(Current)' = {} /\ 1 .. Turn' - 1 = {}
  BY <1>5, <1>6
<1>11. TurnFacts'
  BY <1>9, <1>10 DEF TurnFacts
<1> QED
  BY <1>5, <1>6, <1>7, <1>11

\* A plan of Databricks nothing of which has been carried out.
FreshPlan(p) ==
  /\ Len(p) \in 1 .. IF Call.tool = "describe_table" THEN 2 ELSE 1
  /\ DOMAIN p = 1 .. Len(p)
  /\ \A k \in 1 .. Len(p) :
       /\ Len(p[k]) = Len(Chain) /\ DOMAIN p[k] = 1 .. Len(Chain)
       /\ \A j \in 1 .. Len(Chain) : IsFresh(p[k][j], About(p, k, Call.tool), Chain[j])

\* The first source of Databricks is asked.
LEMMA DatabricksBegins ==
  ASSUME PlanTypes, UNCHANGED << config, calls, tried >>, stage' = "asking", rows' = 0,
         Call.tool \in Listing, Target.type = "databricks", Mine(Current) = {},
         NEW p, plan' = p, FreshPlan(p)
  PROVE  PlanShape' /\ TurnFacts' /\ LeftFacts'
<1>1. PICK chain : chain = Chain
  OBVIOUS
<1>2. PICK tool : tool = Call.tool
  OBVIOUS
<1>3. Call' = Call /\ Target' = Target /\ Chain' = chain /\ Call.tool' = tool
  BY <1>1, <1>2, SameCall
<1>4. Fetching'
  BY <1>2, <1>3 DEF Fetching
<1>5. /\ Len(chain) \in Nat \ {0} /\ 1 \in 1 .. Len(chain) /\ chain[1] # "show"
  <2>1. /\ Len(chain) \in Nat \ {0}
        /\ \A i \in 1 .. Len(chain) : chain[i] = "show" => i = Len(chain) /\ tool # "describe_table"
        /\ Len(chain) = Len(metadata_sources(CatalogOf(Call)))
                          + IF tool = "describe_table" THEN 0 ELSE 1
    BY <1>1, <1>2, ChainIs
  <2>2. Len(metadata_sources(CatalogOf(Call))) \in {1, 2}
    BY SourcesAre
  <2>3. PICK n : n = Len(chain)
    OBVIOUS
  <2>4. tool # "describe_table" => n # 1
    BY <2>1, <2>2, <2>3
  <2>5. 1 \in 1 .. n
    BY <2>1, <2>3
  <2> QED
    BY <2>1, <2>3, <2>4, <2>5
<1>6. /\ Len(p) \in 1 .. (IF tool = "describe_table" THEN 2 ELSE 1) /\ DOMAIN p = 1 .. Len(p)
      /\ \A k \in 1 .. Len(p) :
           /\ Len(p[k]) = Len(chain) /\ DOMAIN p[k] = 1 .. Len(chain)
           /\ \A j \in 1 .. Len(chain) : IsFresh(p[k][j], About(p, k, tool), chain[j])
  BY <1>1, <1>2 DEF FreshPlan
<1>7. DatabricksShape(p, tool, chain)
  <2>1. \A j \in 1 .. Len(chain) : Len(chain) - Len(chain) + j = j
    BY <1>5
  <2>2. Len(chain) \in 1 .. Len(chain)
    BY <1>5
  <2> QED
    BY <1>6, <2>1, <2>2 DEF DatabricksShape
<1>8. PlanShape'
  BY <1>3, <1>7 DEF PlanShape
<1>9. 1 \in 1 .. Len(p) /\ Len(p[1]) = Len(chain) /\ IsFresh(p[1][1], About(p, 1, tool), chain[1])
  <2>1. 1 \in 1 .. Len(p)
    BY <1>6
  <2> QED
    BY <1>5, <1>6, <2>1
<1>10. Turn' = 1 /\ Now' = chain[1]
  <2>1. Turn' = Len(chain) - Len(chain) + 1
    BY <1>3, <1>9 DEF Turn
  <2>2. Turn' = 1
    BY <1>5, <2>1
  <2> QED
    BY <1>3, <2>2 DEF Now
<1>11. TurnFacts' /\ Used(Current, Now)' = {} /\ NamedAt' = {}
  BY <1>10, TurnBegins
<1>12. p[1][1] = Query(About(p, 1, tool), chain[1])
  BY <1>5, <1>9 DEF IsFresh
<1>13. IsQueries(p[1][1], About(p, 1, tool), chain[1]) /\ AsksIn(p[1][1]) = 1
  BY <1>12, WholeQuery
<1>14. Cardinality(Used(Current, Now))' + AsksIn(plan'[1][1]) = 1
  <2>1. Cardinality(Used(Current, Now))' = 0
    BY <1>11, FS_EmptySet
  <2> QED
    BY <1>13, <2>1
<1>15. LeftFacts'
  BY <1>3, <1>10, <1>11, <1>13, <1>14 DEF LeftFacts
<1> QED
  BY <1>8, <1>11, <1>15

\* The one source of the others is asked.
LEMMA ServerBegins ==
  ASSUME PlanTypes, UNCHANGED << config, calls, tried >>, stage' = "asking", rows' = 0,
         Call.tool \in Listing, Target.type # "databricks", Mine(Current) = {},
         NEW p, plan' = p, ServerShape(p, Call.tool),
         NEW i \in DOMAIN p[1][1], p[1][1][i].do = "ask", p[1][1][i].what = Kept(Call.tool)
  PROVE  PlanShape' /\ TurnFacts' /\ LeftFacts'
<1>1. Call' = Call /\ Target' = Target /\ Chain' = Chain
  BY SameCall
<1>2. Len(Chain) = 1 /\ Len(p[1]) = 1
  BY ChainIs DEF ServerShape
<1>3. Turn' = 1
  <2>1. Turn' = Len(Chain) - Len(p[1]) + 1
    BY <1>1 DEF Turn
  <2> QED
    BY <1>2, <2>1
<1>4. TurnFacts'
  BY <1>3, TurnBegins
<1>5. PlanShape'
  BY <1>1 DEF PlanShape
<1>6. LeftFacts'
  BY <1>1 DEF LeftFacts
<1> QED
  BY <1>4, <1>5, <1>6

\* The adapter is there: it is asked for its listing.
LEMMA FetchBegins ==
  ASSUME CallTypes, CallFacts, PlanTypes, OutcomeFacts, BuildAdapter, Call.tool \in Listing
  PROVE  PlanShape' /\ TurnFacts' /\ LeftFacts'
<1>1. /\ stage = "building" /\ stage' = "asking" /\ plan' = adapter_plan(Target.type, Call, Home)
      /\ UNCHANGED << config, calls, tried >> /\ rows' = rows
  BY DEF BuildAdapter
<1>2. rows' = 0 /\ Mine(Current) = {}
  BY <1>1 DEF OutcomeFacts, Mine
<1>3. PICK p : p = adapter_plan(Target.type, Call, Home)
  OBVIOUS
<1>4. Target.type \in {"sqlserver", "snowflake", "databricks"}
  <2>1. config \in Configs /\ Known(Call)
    BY <1>1 DEF CallTypes, CallFacts
  <2> QED
    BY <2>1, MetadataAssumption DEF IsConfig, Known, Target, Connection
<1>5. CASE Target.type = "databricks"
  <2>1. FreshPlan(p)
    <3>1. /\ Len(p) = (IF Call.tool = "describe_table" THEN 2 ELSE 1)
          /\ DOMAIN p = 1 .. Len(p)
          /\ \A k \in 1 .. Len(p) :
               /\ Len(p[k]) = Len(Chain) /\ DOMAIN p[k] = 1 .. Len(Chain)
               /\ \A j \in 1 .. Len(Chain) :
                    IsFresh(p[k][j], About(p, k, Call.tool), Chain[j])
      BY <1>3, <1>5, DatabricksPlan
    <3> QED
      BY <3>1 DEF FreshPlan
  <2> QED
    BY <1>1, <1>2, <1>3, <1>5, <2>1, DatabricksBegins
<1>6. CASE Target.type # "databricks"
  <2>1. /\ ServerShape(p, Call.tool)
        /\ \E i \in DOMAIN p[1][1] : p[1][1][i].do = "ask" /\ p[1][1][i].what = Kept(Call.tool)
    BY <1>3, <1>4, <1>6, ServerPlan
  <2>2. PICK i \in DOMAIN p[1][1] : p[1][1][i].do = "ask" /\ p[1][1][i].what = Kept(Call.tool)
    BY <2>1
  <2> QED
    BY <1>1, <1>2, <1>3, <1>6, <2>1, <2>2, ServerBegins
<1> QED
  BY <1>5, <1>6

\* Databricks describes a table in two tasks; the first has come to its end.
LEMMA FetchMovesOn ==
  ASSUME PlanTypes, PlanInv, PlanShape, TurnFacts, Fetching, TaskDone, Len(plan) = 2
  PROVE  PlanShape' /\ TurnFacts' /\ LeftFacts'
<1> DEFINE m == Needs(Target.type)
<1>1. Target.type = "databricks" /\ Call.tool = "describe_table"
  BY TurnIs
<1>2. /\ stage' = "asking" /\ plan' = Tail(plan) /\ UNCHANGED << config, calls, tried >>
      /\ rows' = rows /\ Call.tool \in Listing
  BY DEF TaskDone, Fetching
<1>3. m \in Nat /\ PlanFrom(plan, held, m)
  BY PlanHolds DEF Fetching
<1> HIDE DEF m
<1>4. PICK p : p = Tail(plan)
  OBVIOUS
<1>5. Len(p) = 1 /\ DOMAIN p = 1 .. 1 /\ p[1] = plan[2]
  <2>1. /\ Len(p) = Len(plan) - 1 /\ DOMAIN p = 1 .. Len(plan) - 1
        /\ \A k \in 1 .. Len(plan) - 1 : p[k] = plan[k + 1]
    BY <1>3, <1>4, PlanMovesOn
  <2> QED
    BY <2>1
<1>6. 2 \in 1 .. Len(plan) /\ DOMAIN plan = 1 .. Len(plan) /\ DOMAIN plan[2] = 1 .. Len(plan[2])
  <2>1. 2 \in 1 .. Len(plan)
    OBVIOUS
  <2> QED
    BY <1>3, <2>1, PlanIs
<1>7. /\ Len(plan[2]) = Len(Chain) /\ Len(Chain) \in Nat
      /\ \A j \in DOMAIN plan[2] : IsFresh(plan[2][j], About(plan, 2, Call.tool), Chain[j])
  <2>1. DatabricksShape(plan, Call.tool, Chain)
    BY <1>1 DEF PlanShape
  <2>2. /\ Len(plan[2]) = Len(Chain)
        /\ \A j \in DOMAIN plan[2] :
             IsFresh(plan[2][j], About(plan, 2, Call.tool), Chain[Len(Chain) - Len(plan[2]) + j])
    BY <1>6, <2>1 DEF DatabricksShape
  <2>3. Len(Chain) \in Nat
    BY <1>2, ChainIs
  <2>4. \A j \in 1 .. Len(Chain) : Len(Chain) - Len(Chain) + j = j
    BY <2>3
  <2> QED
    BY <1>6, <2>2, <2>3, <2>4
<1>8. About(plan, 2, Call.tool) = About(p, 1, Call.tool)
  BY <1>5 DEF About
<1>9. FreshPlan(p)
  BY <1>1, <1>5, <1>6, <1>7, <1>8 DEF FreshPlan
<1>10. Mine(Current) = {} /\ rows' = 0
  <2>1. Mine(Current) = {} /\ rows = RowsOf(tried, Used(Current, Now))
    BY DEF TurnFacts
  <2>2. Used(Current, Now) = {}
    BY <2>1 DEF Used
  <2>3. RowsOf(tried, {}) = 0
    BY TriedIs, NoRows
  <2> QED
    BY <1>2, <2>1, <2>2, <2>3
<1> QED
  BY <1>1, <1>2, <1>4, <1>9, <1>10, DatabricksBegins
------------------------------------------------------------------------------
\* What is asked, and what is left to ask.

\* Nothing happens.
LEMMA SameFetch ==
  ASSUME UNCHANGED vars
  PROVE  /\ PlanShape => PlanShape'
         /\ TurnFacts => TurnFacts'
         /\ LeftFacts => LeftFacts'
         /\ OutcomeFacts => OutcomeFacts'
<1>1. /\ UNCHANGED << config, calls, tried, plan, stage, rows, touched >>
      /\ Current' = Current /\ Call' = Call /\ Target' = Target /\ Chain' = Chain
  BY SameCall DEF vars
<1>2. Turn' = Turn
  BY <1>1 DEF Turn
<1>3. Now' = Now
  BY <1>1, <1>2 DEF Now
<1>4. Fetching' <=> Fetching
  BY <1>1 DEF Fetching
<1>5. \A c : TriedBy(c)' = TriedBy(c)
  BY <1>1 DEF TriedBy
<1>6. \A c : Mine(c)' = Mine(c)
  BY <1>1, <1>5 DEF Mine
<1>7. \A c, s : Used(c, s)' = Used(c, s)
  BY <1>1, <1>6 DEF Used
<1>8. \A c, s : FailedAt(c, s)' <=> FailedAt(c, s)
  BY <1>1, <1>5 DEF FailedAt
<1>9. \A c, s : CameFrom(c, s)' <=> CameFrom(c, s)
  BY <1>1, <1>6, <1>7 DEF CameFrom
<1>10. /\ TriedBy(Current)' = TriedBy(Current) /\ Mine(Current)' = Mine(Current)
       /\ Used(Current, Now)' = Used(Current, Now)
  BY <1>1, <1>3 DEF TriedBy, Mine, Used
<1>11. \A k : FailedAt(Current, Chain[k])' <=> FailedAt(Current, Chain[k])
  BY <1>1, <1>10 DEF FailedAt
<1>12. NamedAt' = NamedAt
  BY <1>1, <1>10 DEF NamedAt
<1>13. ASSUME PlanShape PROVE PlanShape'
  BY <1>1, <1>4, <1>13 DEF PlanShape
<1>14. ASSUME TurnFacts PROVE TurnFacts'
  BY <1>1, <1>2, <1>3, <1>4, <1>10, <1>11, <1>14 DEF TurnFacts
<1>15. ASSUME LeftFacts PROVE LeftFacts'
  BY <1>1, <1>3, <1>4, <1>10, <1>12, <1>15 DEF LeftFacts
<1>16. ASSUME OutcomeFacts PROVE OutcomeFacts'
  <2>1. \A s : CameFrom(Current, s)' <=> CameFrom(Current, s)
    BY <1>1, <1>10 DEF CameFrom, Used
  <2>2. \A s : Used(Current, s)' = Used(Current, s)
    BY <1>1, <1>10 DEF Used
  <2> QED
    BY <1>1, <1>10, <1>11, <1>16, <2>1, <2>2 DEF OutcomeFacts
<1> QED
  BY <1>13, <1>14, <1>15, <1>16

\* Every step keeps what is asked and what is left to ask together.
LEMMA FetchStep ==
  ASSUME CallTypes, CallFacts, PlanTypes, ToolInv, PlanInv, PlanFacts, PlanShape, TurnFacts, LeftFacts,
         OutcomeFacts, [Next]_vars
  PROVE  PlanShape' /\ TurnFacts' /\ LeftFacts'
<1>1. CASE ~Fetching'
  BY <1>1 DEF PlanShape, TurnFacts, LeftFacts
<1>2. CASE UNCHANGED vars
  BY <1>2, SameFetch
<1>3. CASE \/ (\E r \in Requests : Receive(r)) \/ Accept \/ Refuse \/ ResolveSecrets
           \/ BuildFails \/ AuditSuccess \/ Return \/ AuditFailure \/ Crash
  <2>1. stage' # "asking"
    BY <1>3 DEF Receive, Accept, Refuse, ResolveSecrets, BuildFails, AuditSuccess,
                Return, AuditFailure, Crash, Forget, Fail
  <2> QED
    BY <1>1, <2>1 DEF Fetching
<1>4. CASE BuildAdapter
  <2>1. UNCHANGED << config, calls >>
    BY <1>4 DEF BuildAdapter
  <2>2. Fetching' => Call.tool \in Listing
    BY <2>1, SameCall DEF Fetching
  <2> QED
    BY <1>1, <1>4, <2>2, FetchBegins
<1>5. ASSUME stage = "asking", Fetching', UNCHANGED << config, calls >> PROVE Fetching
  <2>1. Call' = Call
    BY <1>5, SameCall
  <2> QED
    BY <1>5, <2>1 DEF Fetching
<1>6. CASE OpenConnection \/ CloseConnection
  <2>1. stage = "asking" /\ UNCHANGED << config, calls >>
    BY <1>6 DEF OpenConnection, CloseConnection, Asking
  <2> QED
    BY <1>1, <1>5, <1>6, <2>1, FetchAdvances
<1>7. CASE StatementReturns
  <2>1. stage = "asking" /\ UNCHANGED << config, calls >>
    BY <1>7 DEF StatementReturns, Asking
  <2> QED
    BY <1>1, <1>5, <1>7, <2>1, FetchReturns
<1>8. CASE Failing
  <2>1. /\ stage = "asking" /\ UNCHANGED << config, calls >>
        /\ \E exc : FailAlternative(exc)
    BY <1>8 DEF Failing, NoDatabase, StatementRefused, BackendFails, Asking
  <2>2. CASE Len(plan[1]) > 1
    BY <1>1, <1>5, <1>8, <2>1, <2>2, FetchFallsBack
  <2>3. CASE ~(Len(plan[1]) > 1)
    <3>1. stage' # "asking"
      BY <2>1, <2>3, FailedPlan
    <3> QED
      BY <1>1, <3>1 DEF Fetching
  <2> QED
    BY <2>2, <2>3
<1>9. CASE TaskDone
  <2>1. stage = "asking" /\ UNCHANGED << config, calls >>
    BY <1>9 DEF TaskDone
  <2>2. CASE Fetching /\ Len(plan) = 2
    BY <1>9, <2>2, FetchMovesOn
  <2>3. CASE Fetching /\ Len(plan) # 2
    <3>1. Len(plan) = 1
      BY <2>3, TurnIs
    <3>2. stage' # "asking"
      BY <1>9, <3>1 DEF TaskDone
    <3> QED
      BY <1>1, <3>2 DEF Fetching
  <2> QED
    BY <1>1, <1>5, <2>1, <2>2, <2>3
<1> QED
  BY <1>2, <1>3, <1>4, <1>6, <1>7, <1>8, <1>9
     DEF Next, ServerStep, BackendStep, Failing, Finished
------------------------------------------------------------------------------
\* How a call comes out.

\* When nothing is left to ask, the listing is there.
LEMMA ListingIsThere ==
  ASSUME PlanTypes, PlanInv, PlanShape, TurnFacts, LeftFacts, Fetching, Len(plan) = 1,
         plan[1][1] = << >>
  PROVE  /\ Now \in { tried[i].source : i \in Mine(Current) }
         /\ CameFrom(Current, Now) /\ rows = RowsOf(tried, Used(Current, Now))
<1>1. PICK c : c = Current
  OBVIOUS
<1>2. PICK now : now = Now
  OBVIOUS
<1>3. PICK tool : tool = Call.tool
  OBVIOUS
<1>4. calls[c].tool = tool
  BY <1>1, <1>3 DEF Call
<1>5. /\ \A i \in Mine(c) :
           /\ \E k \in 1 .. Turn : tried[i].source = Chain[k]
           /\ tried[i].source = now <=> tried[i].outcome # None
           /\ \A j \in Mine(c) : tried[i].source = now /\ i < j => tried[j].source = now
           /\ tried[i].what # Kept(tool) => tried[i].source = "show"
      /\ rows = RowsOf(tried, Used(c, now))
  BY <1>1, <1>2, <1>3 DEF TurnFacts
<1>6. /\ Counts(tried, Used(c, now)) /\ Used(c, now) \subseteq Mine(c)
      /\ Cardinality(Used(c, now)) \in Nat
      /\ \A i \in Used(c, now) : tried[i].source = now
  BY <1>1, <1>2, UsedCounts, TriedIs
<1>7. NamedAt \subseteq Mine(c)
      /\ \A i \in Mine(c) : i \in NamedAt <=> tried[i].outcome # None /\ tried[i].what # Kept(tool)
  BY <1>1, <1>3 DEF NamedAt
<1>8. CASE Target.type # "databricks"
  <2>1. Used(c, now) # {}
    BY <1>1, <1>2, <1>8 DEF LeftFacts
  <2>2. Turn = 1 /\ Chain[1] = "server"
    BY <1>8, TurnIs
  <2>3. \A i \in Mine(c) : tried[i].what = Kept(tool)
    BY <1>5, <2>2
  <2>4. CameFrom(c, now)
    BY <1>4, <1>5, <2>3 DEF CameFrom
  <2> QED
    BY <1>1, <1>2, <1>5, <1>6, <2>1, <2>4
<1>9. CASE Target.type = "databricks"
  <2>1. plan[1][1] \notin {ShowSchemas, Tail(ShowSchemas)}
    <3>1. ShowSchemas # << >> /\ Tail(ShowSchemas) # << >>
      BY DEF ShowSchemas, Query
    <3> QED
      BY <3>1
  <2>2. /\ NamedAt = {} => Cardinality(Used(c, now)) + AsksIn(plan[1][1]) = 1
        /\ \A i \in NamedAt : tried[i].outcome = Cardinality(Used(c, now)) + AsksIn(plan[1][1])
    BY <1>1, <1>2, <1>9, <2>1 DEF LeftFacts
  <2>3. AsksIn(plan[1][1]) = 0
    BY DEF AsksIn
  <2>4. /\ NamedAt = {} => Cardinality(Used(c, now)) = 1
        /\ \A i \in NamedAt : tried[i].outcome = Cardinality(Used(c, now))
    BY <1>6, <2>2, <2>3
  <2>5. CameFrom(c, now)
    BY <1>4, <1>5, <1>7, <2>4 DEF CameFrom
  <2>6. \E i \in Mine(c) : tried[i].source = now
    <3>1. CASE NamedAt = {}
      <4>1. Used(c, now) # {}
        BY <2>4, <3>1, FS_EmptySet
      <4> QED
        BY <1>6, <4>1
    <3>2. CASE NamedAt # {}
      BY <1>5, <1>7, <3>2
    <3> QED
      BY <3>1, <3>2
  <2> QED
    BY <1>1, <1>2, <1>5, <2>5, <2>6
<1> QED
  BY <1>8, <1>9

\* When the last source has failed, all of them have.
LEMMA AllFailed ==
  ASSUME PlanTypes, PlanInv, PlanFacts, PlanShape, TurnFacts, LeftFacts, Failing,
         stage = "asking", ~(Len(plan[1]) > 1), Target.type = "databricks",
         Call.tool \in {"list_schemas", "list_tables"},
         NEW c, c = Current, NEW k \in DOMAIN Chain
  PROVE  FailedAt(c, Chain[k])'
<1>1. Fetching
  BY DEF Fetching, Listing
<1>2. PICK chain : chain = Chain
  OBVIOUS
<1>3. /\ Len(plan) \in {1, 2} /\ (Len(plan) = 2 => Call.tool = "describe_table")
      /\ Len(plan[1]) \in 1 .. Len(chain) /\ Len(chain) \in Nat \ {0}
      /\ Turn = Len(chain) - Len(plan[1]) + 1 /\ Now = chain[Turn]
      /\ DOMAIN chain = 1 .. Len(chain)
  BY <1>1, <1>2, TurnIs, ChainIs DEF Fetching
<1>4. Len(plan) = 1
  BY <1>3
<1>5. Turn = Len(chain)
  <2>1. PICK l : l = Len(plan[1])
    OBVIOUS
  <2>2. l \in Nat \ {0} /\ ~(l > 1)
    BY <1>3, <2>1
  <2>3. l = 1
    BY <2>2
  <2> QED
    BY <1>3, <2>1, <2>3
<1>6. UNCHANGED << config, calls >> /\ Chain' = chain
  <2>1. UNCHANGED << config, calls >>
    BY <1>1, SourceFails
  <2> QED
    BY <1>2, <2>1, SameCall
<1>7. PICK ask \in Instructions : Try(ask, None) /\ ask.source = Now
  BY <1>1, SourceFails
<1>8. k \in 1 .. Turn - 1 \/ k = Turn
  <2>1. PICK n : n = Turn
    OBVIOUS
  <2>2. n \in Nat \ {0} /\ k \in 1 .. n
    BY <1>2, <1>3, <1>5, <2>1
  <2>3. k \in 1 .. n - 1 \/ k = n
    BY <2>2
  <2> QED
    BY <2>1, <2>3
<1>9. k \in 1 .. Turn - 1 => FailedAt(c, chain[k])
  BY <1>1, <1>2, <1>4 DEF TurnFacts
<1>10. FailedAt(c, chain[k])' <=> FailedAt(c, chain[k]) \/ (c = Current /\ ask.source = chain[k] /\ None = None)
  BY <1>6, <1>7, OneMoreFailed
<1>11. FailedAt(c, chain[k])'
  BY <1>3, <1>7, <1>8, <1>9, <1>10
<1> QED
  BY <1>2, <1>6, <1>11

\* Every step keeps what a call can come to.
LEMMA OutcomeFactsStep ==
  ASSUME CallTypes, CallFacts, PlanTypes, PlanInv, PlanFacts, PlanShape, TurnFacts, LeftFacts,
         OutcomeFacts, [Next]_vars
  PROVE  OutcomeFacts'
<1>1. CASE UNCHANGED vars
  BY <1>1, SameFetch
<1>2. CASE \E r \in Requests : Receive(r)
  <2>1. PICK r \in Requests : Receive(r)
    BY <1>2
  <2>2. /\ stage = "idle" /\ UNCHANGED tried
        /\ \/ /\ r.tool = "list_connections" /\ stage' = "auditing"
           \/ stage' = "validating" /\ rows' = rows
    BY <2>1 DEF Receive
  <2>3. Current' = Current + 1 /\ Current \in Nat /\ calls'[Current + 1] = r
    BY <2>1, ReceivedCall
  <2>4. Call' = r
    BY <2>3 DEF Call
  <2>5. \A i \in DOMAIN tried : tried[i].call # Current + 1
    <3>1. \A i \in DOMAIN tried : tried[i].call \in 1 .. Current
      BY TriedIs DEF TriedRecord, Current
    <3> QED
      BY <2>3, <3>1
  <2>6. TriedBy(Current)' = {}
    BY <2>2, <2>3, <2>5 DEF TriedBy
  <2> QED
    BY <2>2, <2>4, <2>6 DEF OutcomeFacts, Listing
<1>3. PICK c : c = Current
  OBVIOUS
<1>4. PICK chain : chain = Chain
  OBVIOUS
<1>5. PICK now : now = Now'
  OBVIOUS
<1>6. ASSUME UNCHANGED << config, calls >>
      PROVE  /\ Current' = c /\ Call' = Call /\ Target' = Target /\ Chain' = chain
             /\ TriedBy(Current)' = TriedBy(c)' /\ Mine(Current)' = Mine(c)'
             /\ \A k : FailedAt(Current, Chain[k])' <=> FailedAt(c, chain[k])'
  BY <1>3, <1>4, <1>5, <1>6, SameCall, CurrentIs
<1>7. CASE Preparing
  <2>1. /\ UNCHANGED << config, calls, rows, tried >>
        /\ stage' \in {"resolving", "building", "asking", "failing"}
    BY <1>7, PreparingStep
  <2>2. stage \in {"validating", "resolving", "building"}
    BY <1>7 DEF Preparing, Accept, Refuse, ResolveSecrets, BuildAdapter, BuildFails
  <2>3. rows = 0 /\ TriedBy(c) = {}
    BY <1>3, <2>2 DEF OutcomeFacts
  <2>4. TriedBy(c)' = {}
    BY <2>1, <2>3, NothingTried
  <2> QED
    BY <1>6, <2>1, <2>3, <2>4 DEF OutcomeFacts
<1>8. CASE OpenConnection \/ CloseConnection \/ StatementReturns
  <2>1. stage' = "asking"
    BY <1>8 DEF OpenConnection, CloseConnection, StatementReturns, Asking
  <2> QED
    BY <2>1 DEF OutcomeFacts
<1>9. CASE Failing
  <2>1. /\ stage = "asking" /\ UNCHANGED << config, calls >>
        /\ \E exc : FailAlternative(exc)
    BY <1>9 DEF Failing, NoDatabase, StatementRefused, BackendFails, Asking
  <2>2. CASE Len(plan[1]) > 1
    <3>1. stage' = "asking"
      BY <2>1, <2>2, FailedPlan
    <3> QED
      BY <3>1 DEF OutcomeFacts
  <2>3. CASE ~(Len(plan[1]) > 1) /\ catches(Target.type, Call.tool)
    <3>1. stage' = "auditing"
      BY <2>1, <2>3, FailedPlan
    <3>2. Call.tool' \notin Listing
      BY <1>6, <2>1, <2>3 DEF catches, Listing
    <3> QED
      BY <3>1, <3>2 DEF OutcomeFacts
  <2>4. CASE ~(Len(plan[1]) > 1) /\ ~catches(Target.type, Call.tool)
    <3>1. stage' = "failing"
      BY <2>1, <2>4, FailedPlan
    <3>2. ASSUME Call.tool \in {"list_schemas", "list_tables"}, Target.type = "databricks",
                 NEW k \in DOMAIN chain
          PROVE  FailedAt(c, chain[k])'
      <4>1. k \in DOMAIN Chain /\ Chain' = chain /\ Chain = chain
        BY <1>4, <1>6, <2>1, <3>2
      <4>2. FailedAt(c, Chain[k])'
        BY <1>3, <1>9, <2>1, <2>4, <3>2, <4>1, AllFailed
      <4> QED
        BY <4>1, <4>2
    <3> QED
      BY <1>6, <2>1, <3>1, <3>2 DEF OutcomeFacts
  <2> QED
    BY <2>2, <2>3, <2>4
<1>10. CASE TaskDone
  <2>1. /\ stage = "asking" /\ plan[1][1] = << >> /\ UNCHANGED << config, calls, tried, rows >>
        /\ stage' = (IF Len(plan) = 1 THEN "auditing" ELSE stage)
    BY <1>10 DEF TaskDone
  <2>2. CASE Len(plan) # 1
    <3>1. stage' = "asking"
      BY <2>1, <2>2
    <3> QED
      BY <3>1 DEF OutcomeFacts
  <2>3. CASE Len(plan) = 1
    <3>1. stage' = "auditing"
      BY <2>1, <2>3
    <3>2. ASSUME Call.tool \in Listing
          PROVE  \E s \in { tried'[i].source : i \in Mine(Current)' } :
                   /\ CameFrom(Current, s)'
                   /\ rows' = RowsOf(tried', Used(Current, s)')
      <4>1. PICK s : s = Now
        OBVIOUS
      <4>2. Fetching
        BY <2>1, <3>2 DEF Fetching
      <4>3. /\ s \in { tried[i].source : i \in Mine(c) }
            /\ CameFrom(c, s) /\ rows = RowsOf(tried, Used(c, s))
        BY <1>3, <2>1, <2>3, <4>1, <4>2, ListingIsThere
      <4>4. /\ Mine(c)' = Mine(c) /\ Used(c, s)' = Used(c, s)
            /\ CameFrom(c, s)' <=> CameFrom(c, s)
        <5>1. calls'[c] = calls[c] /\ UNCHANGED tried
          BY <2>1
        <5> QED
          BY <5>1, NothingTried
      <4>5. /\ Mine(Current)' = Mine(c)' /\ Used(Current, s)' = Used(c, s)'
            /\ CameFrom(Current, s)' <=> CameFrom(c, s)'
        BY <1>6, <2>1 DEF Mine, TriedBy, Used, CameFrom
      <4> QED
        BY <2>1, <4>3, <4>4, <4>5
    <3> QED
      BY <1>6, <2>1, <3>1, <3>2 DEF OutcomeFacts
  <2> QED
    BY <2>2, <2>3
<1>11. CASE AuditSuccess
  <2>1. stage = "auditing" /\ stage' = "returning" /\ UNCHANGED << config, calls, tried, rows >>
    BY <1>11 DEF AuditSuccess
  <2>2. ASSUME Call.tool \in Listing
        PROVE  \E s \in { tried'[i].source : i \in Mine(Current)' } :
                 /\ CameFrom(Current, s)'
                 /\ rows' = RowsOf(tried', Used(Current, s)')
    <3>1. PICK s \in { tried[i].source : i \in Mine(c) } :
            CameFrom(c, s) /\ rows = RowsOf(tried, Used(c, s))
      BY <1>3, <2>1, <2>2 DEF OutcomeFacts
    <3>2. /\ Mine(c)' = Mine(c) /\ Used(c, s)' = Used(c, s)
          /\ CameFrom(c, s)' <=> CameFrom(c, s)
      <4>1. calls'[c] = calls[c] /\ UNCHANGED tried
        BY <2>1
      <4> QED
        BY <4>1, NothingTried
    <3>3. /\ Mine(Current)' = Mine(c)' /\ Used(Current, s)' = Used(c, s)'
          /\ CameFrom(Current, s)' <=> CameFrom(c, s)'
      BY <1>6, <2>1 DEF Mine, TriedBy, Used, CameFrom
    <3> QED
      BY <2>1, <3>1, <3>2, <3>3
  <2> QED
    BY <1>6, <2>1, <2>2 DEF OutcomeFacts
<1>12. CASE Closing
  <2>1. stage' = "idle" /\ rows' = 0
    BY <1>12, ClosingStep
  <2> QED
    BY <2>1 DEF OutcomeFacts
<1> QED
  BY <1>1, <1>2, <1>7, <1>8, <1>9, <1>10, <1>11, <1>12, Steps DEF Asks, Failing
------------------------------------------------------------------------------
\* Listings are whole.

\* What a call has tried stays as it is unless it is being answered.
LEMMA CallStays ==
  ASSUME CallTypes, CallFacts, PlanTypes, PlanInv, PlanFacts, [Next]_vars,
         NEW c \in DOMAIN calls, c # Current \/ ~Answering
  PROVE  /\ TriedBy(c)' = TriedBy(c) /\ Mine(c)' = Mine(c)
         /\ \A i \in TriedBy(c) : tried'[i] = tried[i]
         /\ \A s : Used(c, s)' = Used(c, s)
         /\ \A s : FailedAt(c, s)' <=> FailedAt(c, s)
         /\ \A s : CameFrom(c, s)' <=> CameFrom(c, s)
         /\ \A s : CameFrom(c, s) =>
              RowsOf(tried', Used(c, s)) = RowsOf(tried, Used(c, s))
<1>1. calls'[c] = calls[c]
  BY CallsKept
<1>2. CASE UNCHANGED tried
  BY <1>1, <1>2, NothingTried
<1>3. CASE Answering
  <2>1. c # Current /\ UNCHANGED calls
    BY <1>3, AskingStep
  <2>2. PICK ask \in Instructions, outcome \in RowCounts \cup {None} : Try(ask, outcome)
    BY <1>3, AskingStep
  <2>3. \A i \in 1 .. Len(tried) : tried'[i] = tried[i]
    BY <2>1, <2>2, OneMoreTried
  <2>4. TriedBy(c) \subseteq 1 .. Len(tried)
    BY TriedIs
  <2> QED
    BY <2>1, <2>2, <2>3, <2>4, OthersKept
<1>4. UNCHANGED tried \/ Answering
  BY Steps, PreparingStep, ClosingStep
     DEF Asks, Answering, Receive, OpenConnection, CloseConnection, TaskDone, AuditSuccess, vars
<1> QED
  BY <1>2, <1>3, <1>4

\* Every step keeps the listings that were answered whole.
LEMMA ListingsStep ==
  ASSUME CallTypes, CallFacts, PlanTypes, PlanInv, PlanFacts, OutcomeFacts,
         ListingsAreWhole, [Next]_vars
  PROVE  ListingsAreWhole'
<1> SUFFICES ASSUME NEW c \in DOMAIN answers', answers'[c].status = "ok",
                    calls'[c].tool \in Listing
             PROVE  \E s \in { tried'[i].source : i \in Mine(c)' } :
                      CameFrom(c, s)' /\ answers'[c].rows = RowsOf(tried', Used(c, s)')
  BY DEF ListingsAreWhole
<1>1. CASE c \in DOMAIN answers /\ answers'[c] = answers[c]
  <2>1. c \in DOMAIN calls /\ calls'[c] = calls[c]
    BY <1>1, CallsKept, Histories
  <2>2. PICK s \in { tried[i].source : i \in Mine(c) } :
          CameFrom(c, s) /\ answers[c].rows = RowsOf(tried, Used(c, s))
    BY <1>1, <2>1 DEF ListingsAreWhole
  <2>3. c # Current \/ ~Answering
    <3>1. Answering => answers[Current].status = "open"
      BY AskingStep DEF CallFacts, Unanswered
    <3> QED
      BY <1>1, <3>1
  <2>4. /\ Mine(c)' = Mine(c) /\ Used(c, s)' = Used(c, s) /\ CameFrom(c, s)'
        /\ RowsOf(tried', Used(c, s)) = RowsOf(tried, Used(c, s))
        /\ \A i \in Mine(c) : tried'[i] = tried[i]
    BY <2>1, <2>2, <2>3, CallStays DEF Mine
  <2> QED
    BY <1>1, <2>2, <2>4
<1>2. CASE Closing /\ c = Current /\ c \in DOMAIN answers
  <2>1. stage # "idle" /\ UNCHANGED << config, calls, tried >>
    BY <1>2, ClosingStep
  <2>2. stage = "returning" /\ Answer(Answered(rows))
    <3>1. CASE Answer(Lost)
      BY <1>2, <2>1, <3>1, AnsweredCall, AnswerTypes
    <3>2. CASE stage = "failing" /\ Answer(Failed(normalize_exception(error)))
      BY <1>2, <2>1, <3>2, AnsweredCall, AnswerTypes, FailingError
    <3> QED
      BY <1>2, <3>1, <3>2, ClosingStep
  <2>3. answers'[c].rows = rows
    BY <1>2, <2>1, <2>2, AnsweredCall, AnswerTypes DEF CallTypes
  <2>4. Call.tool \in Listing
    BY <1>2, <2>1 DEF Call
  <2>5. PICK s \in { tried[i].source : i \in Mine(c) } :
          CameFrom(c, s) /\ rows = RowsOf(tried, Used(c, s))
    BY <1>2, <2>2, <2>4 DEF OutcomeFacts
  <2>6. Mine(c)' = Mine(c) /\ Used(c, s)' = Used(c, s) /\ (CameFrom(c, s)' <=> CameFrom(c, s))
    <3>1. calls'[c] = calls[c] /\ UNCHANGED tried
      BY <2>1
    <3> QED
      BY <3>1, NothingTried
  <2> QED
    BY <2>1, <2>3, <2>5, <2>6
<1> QED
  BY <1>1, <1>2, AnswersAfter DEF Unanswered
------------------------------------------------------------------------------
\* Sources are exhausted.

\* Databricks: a listing asks the source whose turn it is.
LEMMA AskedSource ==
  ASSUME PlanInv, PlanFacts, PlanShape, LeftFacts, Fetching, Answering,
         Target.type = "databricks"
  PROVE  \E ask \in Instructions, outcome \in RowCounts \cup {None} :
           Try(ask, outcome) /\ ask.source = Now
<1>1. CASE Failing
  BY <1>1, SourceFails
<1>2. CASE StatementReturns
  <2>1. PICK n \in RowCounts : Try(Instruction, n)
    BY <1>2 DEF StatementReturns
  <2>2. plan[1][1] # << >> /\ Instruction.do = "ask"
    BY <1>2 DEF StatementReturns, Asking
  <2>3. 1 \in DOMAIN plan[1][1] /\ plan[1][1] \in Seq(Instructions)
    BY <2>2, TurnIs, TailIs
  <2>4. Instruction \in Instructions
    BY <2>3, ElementOfSeq, LenProperties DEF Instruction
  <2>5. Instruction.source = Now
    BY <2>2, <2>3, LeftAsks DEF Instruction
  <2> QED
    BY <2>1, <2>4, <2>5
<1> QED
  BY <1>1, <1>2 DEF Answering, Failing

\* When SHOW is asked, each information schema has failed.
LEMMA ShownLast ==
  ASSUME PlanTypes, PlanInv, PlanShape, TurnFacts, Fetching, Target.type = "databricks",
         Call.tool \in {"list_schemas", "list_tables"}, Now = "show",
         NEW sources, sources = metadata_sources(CatalogOf(Call)),
         NEW k \in DOMAIN sources
  PROVE  FailedAt(Current, sources[k])
<1>1. /\ Turn = Len(Chain) /\ Len(plan) \in {1, 2}
      /\ (Len(plan) = 2 => Call.tool = "describe_table")
  BY TurnIs
<1>2. /\ Len(Chain) = Len(sources) + 1 /\ \A i \in 1 .. Len(sources) : Chain[i] = sources[i]
  BY ChainIs DEF Fetching
<1>3. DOMAIN sources = 1 .. Len(sources) /\ Len(sources) \in Nat
  BY SourcesAre
<1>4. Len(plan) = 1
  BY <1>1
<1>5. \A i \in 1 .. Turn - 1 : FailedAt(Current, Chain[i])
  BY <1>4 DEF TurnFacts
<1>6. Turn - 1 = Len(sources)
  BY <1>1, <1>2, <1>3
<1> QED
  BY <1>2, <1>3, <1>5, <1>6

\* Every step keeps listings from failing with a source unasked.
LEMMA ExhaustedStep ==
  ASSUME CallTypes, CallFacts, PlanTypes, PlanInv, PlanFacts, PlanShape, TurnFacts, LeftFacts,
         OutcomeFacts, SourcesAreExhausted, [Next]_vars
  PROVE  SourcesAreExhausted'
<1> SUFFICES ASSUME NEW c \in touched', NEW sources,
                    sources = metadata_sources(CatalogOf(calls[c])'),
                    calls'[c].tool \in {"list_schemas", "list_tables"},
                    config'.connections[calls'[c].connection_name].type = "databricks"
             PROVE  /\ answers'[c].status = "error" /\ TriedBy(c)' # {} => FailedAt(c, "show")'
                    /\ (\E i \in TriedBy(c)' : tried'[i].source = "show") =>
                         \A k \in DOMAIN sources : FailedAt(c, sources[k])'
  BY DEF SourcesAreExhausted
<1>1. c \in touched \/ (ResolveSecrets /\ c = Current)
  BY Steps, AsksStep, ClosingStep
     DEF Preparing, Receive, Accept, Refuse, ResolveSecrets, BuildAdapter, BuildFails,
         AuditSuccess, vars
<1>2. CASE ResolveSecrets /\ c = Current
  <2>1. /\ stage = "resolving" /\ UNCHANGED << calls, tried >>
    BY <1>2 DEF ResolveSecrets
  <2>2. TriedBy(c) = {}
    BY <1>2, <2>1 DEF OutcomeFacts
  <2>3. TriedBy(c)' = {}
    BY <2>1, <2>2, NothingTried
  <2> QED
    BY <2>3
<1>3. CASE c \in touched
  <2>1. c \in DOMAIN calls /\ c \in DOMAIN answers
    BY <1>3, Histories DEF CallTypes
  <2>2. config' = config /\ calls'[c] = calls[c]
    BY <2>1, CallsKept
  <2>3. sources = metadata_sources(CatalogOf(calls[c]))
    BY <2>2 DEF CatalogOf
  <2>4. /\ calls[c].tool \in {"list_schemas", "list_tables"}
        /\ config.connections[calls[c].connection_name].type = "databricks"
    BY <2>2
  <2>5. /\ answers[c].status = "error" /\ TriedBy(c) # {} => FailedAt(c, "show")
        /\ (\E i \in TriedBy(c) : tried[i].source = "show") =>
             \A k \in DOMAIN sources : FailedAt(c, sources[k])
    BY <1>3, <2>3, <2>4 DEF SourcesAreExhausted
  <2>6. ASSUME c # Current \/ ~Answering
        PROVE  /\ TriedBy(c)' = TriedBy(c) /\ \A s : FailedAt(c, s)' <=> FailedAt(c, s)
               /\ \A i \in TriedBy(c) : tried'[i] = tried[i]
    BY <2>1, <2>6, CallStays
  <2>7. Answering => answers[Current].status = "open" /\ UNCHANGED answers
    BY AskingStep DEF CallFacts, Unanswered
  <2>8. ASSUME answers'[c].status = "error", TriedBy(c)' # {}
        PROVE  FailedAt(c, "show")'
    <3>1. CASE answers'[c] = answers[c]
      <4>1. c # Current \/ ~Answering
        BY <2>7, <2>8, <3>1
      <4> QED
        BY <2>5, <2>6, <2>8, <3>1, <4>1
    <3>2. CASE Closing /\ c = Current
      <4>1. /\ stage # "idle" /\ stage # "asking" /\ UNCHANGED << config, calls, tried >>
            /\ stage = "failing"
        <5>1. /\ stage # "idle" /\ UNCHANGED << config, calls, tried >>
          BY <3>2, ClosingStep
        <5>2. ~Answer(Lost)
          BY <2>8, <3>2, <5>1, AnsweredCall, AnswerTypes
        <5>3. ~Answer(Answered(rows))
          BY <2>8, <3>2, <5>1, AnsweredCall, AnswerTypes DEF CallTypes
        <5> QED
          BY <3>2, <5>1, <5>2, <5>3, ClosingStep
      <4>2. /\ Call.tool \in {"list_schemas", "list_tables"} /\ Target.type = "databricks"
            /\ Current \in touched
        BY <1>3, <2>4, <3>2 DEF Call, Target
      <4>3. TriedBy(c) # {} /\ (FailedAt(c, "show")' <=> FailedAt(c, "show"))
        <5>1. calls'[c] = calls[c] /\ UNCHANGED tried
          BY <4>1
        <5> QED
          BY <2>8, <5>1, NothingTried
      <4>4. \A k \in DOMAIN Chain : FailedAt(c, Chain[k])
        BY <3>2, <4>1, <4>2, <4>3 DEF OutcomeFacts
      <4>5. /\ Len(Chain) \in Nat \ {0} /\ DOMAIN Chain = 1 .. Len(Chain)
            /\ Chain[Len(Chain)] = "show"
        BY <4>2, ChainIs DEF Listing
      <4>6. Len(Chain) \in DOMAIN Chain
        BY <4>5
      <4> QED
        BY <4>3, <4>4, <4>5, <4>6
    <3> QED
      <4>1. c \in DOMAIN answers'
        <5>1. c \in DOMAIN calls' /\ CallTypes'
          BY <2>1, CallsKept, TypesStep
        <5> QED
          BY <5>1 DEF CallTypes
      <4> QED
        BY <2>8, <3>1, <3>2, <4>1, AnswersAfter DEF Unanswered
  <2>9. ASSUME NEW i \in TriedBy(c)', tried'[i].source = "show", NEW k \in DOMAIN sources
        PROVE  FailedAt(c, sources[k])'
    <3>1. CASE c # Current \/ ~Answering
      BY <2>5, <2>6, <2>9, <3>1
    <3>2. CASE c = Current /\ Answering
      <4>1. Fetching /\ Target.type = "databricks"
        <5>1. stage = "asking"
          BY <3>2, AskingStep
        <5> QED
          BY <2>4, <3>2, <5>1 DEF Fetching, Call, Target, Listing
      <4>2. PICK ask \in Instructions, outcome \in RowCounts \cup {None} :
              Try(ask, outcome) /\ ask.source = Now
        BY <3>2, <4>1, AskedSource
      <4>3. UNCHANGED calls
        BY <3>2, AskingStep
      <4>4. FailedAt(c, sources[k])
        <5>1. CASE i \in TriedBy(c)
          <6>1. tried'[i] = tried[i]
            <7>1. i \in 1 .. Len(tried)
              BY <5>1, TriedIs
            <7> QED
              BY <4>2, <4>3, <7>1, OneMoreTried
          <6> QED
            BY <2>5, <2>9, <5>1, <6>1
        <5>2. CASE i \notin TriedBy(c)
          <6>1. i = Len(tried) + 1
            <7>1. TriedBy(c)' = TriedBy(c) \cup {Len(tried) + 1}
              BY <3>2, <4>2, <4>3, OneMoreTried
            <7> QED
              BY <2>9, <5>2, <7>1
          <6>2. tried'[Len(tried) + 1].source = ask.source
            <7>1. tried'[Len(tried) + 1] = [ call |-> Current, what |-> ask.what,
                                             source |-> ask.source, outcome |-> outcome ]
              BY <4>2, <4>3, OneMoreTried
            <7> QED
              BY <7>1
          <6>3. Now = "show"
            BY <2>9, <4>2, <6>1, <6>2
          <6>4. Call.tool \in {"list_schemas", "list_tables"}
                /\ sources = metadata_sources(CatalogOf(Call))
            BY <2>3, <2>4, <3>2 DEF Call
          <6>5. FailedAt(Current, sources[k])
            BY <2>9, <4>1, <6>3, <6>4, ShownLast
          <6> QED
            BY <3>2, <6>5
        <5> QED
          BY <5>1, <5>2
      <4> QED
        BY <4>2, <4>3, <4>4, OneMoreFailed
    <3> QED
      BY <3>1, <3>2
  <2> QED
    BY <2>8, <2>9
<1> QED
  BY <1>1, <1>2, <1>3
------------------------------------------------------------------------------
\* The inductive invariant, and what it says of every run.

\* In the beginning nothing was asked.
LEMMA InitFetch == Init => FetchInv
<1> SUFFICES ASSUME Init PROVE FetchInv
  OBVIOUS
<1>1. /\ stage = "idle" /\ calls = << >> /\ answers = << >> /\ plan = << >> /\ held = 0
      /\ rows = 0 /\ touched = {} /\ tried = << >>
  BY DEF Init
<1>2. PlanTypes
  BY <1>1, EmptySeq DEF PlanTypes
<1>3. ~Fetching
  BY <1>1 DEF Fetching
<1>4. PlanFacts /\ PlanShape /\ TurnFacts /\ LeftFacts
  BY <1>1, <1>3 DEF PlanFacts, PlanShape, TurnFacts, LeftFacts
<1>5. OutcomeFacts
  BY <1>1 DEF OutcomeFacts
<1>6. ListingsAreWhole /\ SourcesAreExhausted
  BY <1>1 DEF ListingsAreWhole, SourcesAreExhausted
<1> QED
  BY <1>2, <1>4, <1>5, <1>6 DEF FetchInv

\* What the invariant of the calls, of the connections and of the listings say
\* together is kept by every step.
LEMMA FetchInvStep ==
  ASSUME MetadataInv, ToolInv, PlanInv, PlanInv', FetchInv, [Next]_vars
  PROVE  FetchInv'
<1>1. CallTypes /\ CallFacts
  BY DEF MetadataInv
<1>2. /\ PlanTypes /\ PlanFacts /\ PlanShape /\ TurnFacts /\ LeftFacts /\ OutcomeFacts
      /\ ListingsAreWhole /\ SourcesAreExhausted
  BY DEF FetchInv
<1>3. PlanFacts'
  BY <1>1, <1>2, PlanFactsStep
<1>4. PlanTypes'
  BY <1>1, <1>2, <1>3, PlanTypesStep
<1>5. PlanShape' /\ TurnFacts' /\ LeftFacts'
  BY <1>1, <1>2, FetchStep
<1>6. OutcomeFacts'
  BY <1>1, <1>2, OutcomeFactsStep
<1>7. ListingsAreWhole'
  BY <1>1, <1>2, ListingsStep
<1>8. SourcesAreExhausted'
  BY <1>1, <1>2, ExhaustedStep
<1> QED
  BY <1>3, <1>4, <1>5, <1>6, <1>7, <1>8 DEF FetchInv

\* Whatever a plan of an adapter has still to ask makes up, with what it was
\* told, one whole listing from one source.
THEOREM FetchInvariant == Spec => []FetchInv
<1>1. Init => ToolInv /\ PlanInv
  BY DEF Init, ToolInv, PlanInv
<1>2. MetadataInv /\ ToolInv /\ PlanInv /\ [Next]_vars => ToolInv' /\ PlanInv'
  BY ToolStep, PlanStep DEF MetadataInv
<1>3. MetadataInv /\ ToolInv /\ PlanInv /\ PlanInv' /\ FetchInv /\ [Next]_vars => FetchInv'
  BY FetchInvStep
<1> QED
  BY MetadataInvariant, InitFetch, <1>1, <1>2, <1>3, PTL DEF Spec

\* A listing that is answered comes whole and from one source.
THEOREM WholeListings == Spec => []ListingsAreWhole
<1>1. FetchInv => ListingsAreWhole
  BY DEF FetchInv
<1> QED
  BY FetchInvariant, <1>1, PTL

\* A listing on Databricks fails only when every source it has was asked and has
\* failed, SHOW as the last of them.
THEOREM ExhaustedSources == Spec => []SourcesAreExhausted
<1>1. FetchInv => SourcesAreExhausted
  BY DEF FetchInv
<1> QED
  BY FetchInvariant, <1>1, PTL

\* What a plan for a listing or a description has left: at most two tasks, with
\* three sources for each.
PlansStayShort ==
  Fetching => /\ Len(plan) \in 1 .. 2
              /\ \A k \in DOMAIN plan : Len(plan[k]) \in 1 .. 3

\* The types of the state, of the plan and of what was tried among it; and an
\* adapter never has more left to ask than two tasks, of three sources each.
THEOREM MetadataTypes == Spec => [](MetadataTypeOK /\ PlansStayShort)
<1>1. MetadataInv /\ FetchInv => MetadataTypeOK
  BY DEF MetadataInv, FetchInv, MetadataTypeOK
<1>2. FetchInv => PlansStayShort
  <2> SUFFICES ASSUME FetchInv, Fetching
               PROVE  /\ Len(plan) \in 1 .. 2
                      /\ \A k \in DOMAIN plan : Len(plan[k]) \in 1 .. 3
    BY DEF PlansStayShort
  <2>1. Call.tool \in Listing
    BY DEF Fetching
  <2>2. CASE Target.type = "databricks"
    <3>1. DatabricksShape(plan, Call.tool, Chain)
      BY <2>2 DEF FetchInv, PlanShape
    <3>2. Len(Chain) \in 1 .. 3
      <4>1. Len(metadata_sources(CatalogOf(Call))) \in {1, 2}
        BY SourcesAre
      <4>2. Len(Chain) = Len(metadata_sources(CatalogOf(Call)))
                           + IF Call.tool = "describe_table" THEN 0 ELSE 1
        BY <2>1, <2>2, ChainIs
      <4>3. \A a \in {1, 2} : \A b \in {0, 1} : a + b \in 1 .. 3
        OBVIOUS
      <4> QED
        BY <4>1, <4>2, <4>3
    <3>3. Len(plan) \in 1 .. 2
      <4>1. Len(plan) \in 1 .. IF Call.tool = "describe_table" THEN 2 ELSE 1
        BY <3>1 DEF DatabricksShape
      <4>2. \A n \in {1, 2} : \A a \in 1 .. n : a \in 1 .. 2
        OBVIOUS
      <4> QED
        BY <4>1, <4>2
    <3>4. ASSUME NEW k \in DOMAIN plan
          PROVE  Len(plan[k]) \in 1 .. 3
      <4>1. Len(plan[k]) \in 1 .. Len(Chain)
        BY <3>1 DEF DatabricksShape
      <4>2. \A n \in 1 .. 3 : \A a \in 1 .. n : a \in 1 .. 3
        OBVIOUS
      <4> QED
        BY <3>2, <4>1, <4>2
    <3> QED
      BY <3>3, <3>4
  <2>3. CASE Target.type # "databricks"
    <3>1. ServerShape(plan, Call.tool) /\ plan \in Seq(Seq(Seq(Instructions)))
      BY <2>3 DEF FetchInv, PlanShape, PlanTypes
    <3>2. Len(plan) = 1 /\ Len(plan[1]) = 1
      BY <3>1 DEF ServerShape
    <3>3. \A k \in DOMAIN plan : k = 1
      BY <3>1, <3>2
    <3> QED
      BY <3>2, <3>3
  <2> QED
    BY <2>2, <2>3
<1> QED
  BY MetadataInvariant, FetchInvariant, <1>1, <1>2, PTL
=============================================================================
