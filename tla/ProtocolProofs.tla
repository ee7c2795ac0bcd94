---------------------------- MODULE ProtocolProofs ----------------------------
(***************************************************************************)
(* Theorems about Protocol, for any messages, any number of frames and any *)
(* places where the line is cut.                                           *)
(***************************************************************************)
EXTENDS Protocol, SequenceTheorems, WellFoundedInduction, TLAPS

(***************************************************************************)
(* Sums and concatenations.                                                *)
(***************************************************************************)

(* A non-empty set of natural numbers has a least element: induction in a  *)
(* form without an operator parameter.                                     *)
LEMMA LeastNumber ==
    ASSUME NEW T, T \subseteq Nat, T # {}
    PROVE  \E m \in T : \A n \in T : ~(n < m)
<1> DEFINE R == {p \in Nat \X Nat : p[1] < p[2]}
<1>1. IsWellFoundedOn(R, Nat)
  BY NatLessThanWellFounded, Zenon DEF OpToRel
<1>2. PICK m \in T : \A n \in T : ~(<<n, m>> \in R)
  <2> HIDE DEF R
  <2> QED BY <1>1, WFMin, Zenon
<1>3. ASSUME NEW n \in T PROVE ~(n < m)
  BY <1>2
<1> QED BY <1>3

(* The recursive definition of the sums, and the same up to n numbers as a *)
(* property of the values of f.                                            *)
IsSums(f, ns) == f = [k \in 0..Len(ns) |-> IF k = 0 THEN 0 ELSE f[k - 1] + ns[k]]

SumsTo(f, ns, n) ==
    /\ f \in [0..n -> Nat] /\ f[0] = 0
    /\ \A k \in 1..n : f[k] = f[k - 1] + ns[k]

(* The recursive definition has a solution.                                *)
LEMMA SumsExist ==
    ASSUME NEW ns \in Seq(Nat), NEW n \in 0..Len(ns)
    PROVE  \E f : SumsTo(f, ns, n)
<1> DEFINE T == {k \in 0..Len(ns) : ~ \E f : SumsTo(f, ns, k)}
<1> SUFFICES ASSUME T # {} PROVE FALSE
  OBVIOUS
<1>0. Len(ns) \in Nat /\ T \subseteq Nat
  OBVIOUS
<1>1. PICK m \in T : \A k \in T : ~(k < m)
  <2> HIDE DEF T
  <2> QED BY <1>0, LeastNumber
<1>2. m # 0
  <2> DEFINE z == [k \in 0..0 |-> 0]
  <2>1. SumsTo(z, ns, 0)
    BY DEF SumsTo
  <2> HIDE DEF z
  <2> QED BY <1>1, <2>1
<1>3. m - 1 \in 0..Len(ns) /\ m - 1 < m /\ ns[m] \in Nat
  BY <1>0, <1>1, <1>2
<1>4. PICK f : SumsTo(f, ns, m - 1)
  BY <1>1, <1>3
<1> DEFINE g == [k \in 0..m |-> IF k = m THEN f[m - 1] + ns[m] ELSE f[k]]
<1>5. SumsTo(g, ns, m)
  <2>1. f \in [0..(m - 1) -> Nat] /\ f[0] = 0 /\ \A k \in 1..(m - 1) : f[k] = f[k - 1] + ns[k]
    BY <1>4 DEF SumsTo
  <2>2. g \in [0..m -> Nat] /\ g[0] = 0
    BY <1>0, <1>1, <1>2, <1>3, <2>1
  <2>3. \A k \in 1..m : g[k] = g[k - 1] + ns[k]
    BY <1>0, <1>1, <1>2, <1>3, <2>1, SMTT(20)
  <2> HIDE DEF g
  <2> QED BY <2>2, <2>3 DEF SumsTo
<1> HIDE DEF g
<1> QED BY <1>1, <1>5

(* The sums of the first numbers of a sequence.                            *)
LEMMA SumsStep ==
    ASSUME NEW ns \in Seq(Nat)
    PROVE  /\ Sums(ns) \in [0..Len(ns) -> Nat]
           /\ Sums(ns)[0] = 0
           /\ \A k \in 1..Len(ns) : Sums(ns)[k] = Sums(ns)[k - 1] + ns[k]
<1>0. Len(ns) \in Nat /\ \A k \in 1..Len(ns) : ns[k] \in Nat
  OBVIOUS
<1>1. PICK f : SumsTo(f, ns, Len(ns))
  BY <1>0, SumsExist
<1>2. IsSums(f, ns)
  BY <1>0, <1>1 DEF SumsTo, IsSums
<1>3. IsSums(Sums(ns), ns)
  BY <1>2, Zenon DEF Sums, IsSums
<1> DEFINE g == Sums(ns)
<1>4. g = [k \in 0..Len(ns) |-> IF k = 0 THEN 0 ELSE g[k - 1] + ns[k]]
  BY <1>3 DEF IsSums
<1> HIDE DEF g
<1>5. g[0] = 0 /\ \A k \in 1..Len(ns) : g[k] = g[k - 1] + ns[k]
  BY <1>0, <1>4
<1>6. \A k \in 0..Len(ns) : g[k] \in Nat
  <2> DEFINE T == {k \in 0..Len(ns) : ~(g[k] \in Nat)}
  <2> SUFFICES ASSUME T # {} PROVE FALSE
    OBVIOUS
  <2>1. T \subseteq Nat
    BY <1>0
  <2>2. PICK m \in T : \A k \in T : ~(k < m)
    <3> HIDE DEF T
    <3> QED BY <2>1, LeastNumber
  <2>3. m # 0
    BY <1>5, <2>2
  <2>4. m - 1 \in 0..Len(ns) /\ m - 1 < m /\ m \in 1..Len(ns)
    BY <1>0, <2>2, <2>3
  <2>5. g[m - 1] \in Nat
    BY <2>2, <2>4
  <2>6. g[m] = g[m - 1] + ns[m] /\ ns[m] \in Nat
    BY <1>0, <1>5, <2>4
  <2>7. ~(g[m] \in Nat)
    BY <2>2
  <2> QED BY <2>5, <2>6, <2>7
<1>7. g \in [0..Len(ns) -> Nat]
  BY <1>4, <1>6
<1> QED BY <1>5, <1>7 DEF g

(* The sums ascend.                                                        *)
LEMMA SumsAscend ==
    ASSUME NEW ns \in Seq(Nat), NEW i \in 0..Len(ns), NEW j \in i..Len(ns)
    PROVE  Sums(ns)[i] <= Sums(ns)[j]
<1> DEFINE g == Sums(ns)
           T == {k \in i..Len(ns) : ~(g[i] <= g[k])}
<1>0. Len(ns) \in Nat /\ \A k \in 1..Len(ns) : ns[k] \in Nat
  OBVIOUS
<1>1. g \in [0..Len(ns) -> Nat] /\ \A k \in 1..Len(ns) : g[k] = g[k - 1] + ns[k]
  BY SumsStep
<1> HIDE DEF g
<1> SUFFICES ASSUME T # {} PROVE FALSE
  BY DEF g
<1>2. T \subseteq Nat
  BY <1>0
<1>3. PICK m \in T : \A k \in T : ~(k < m)
  <2> HIDE DEF T
  <2> QED BY <1>2, LeastNumber
<1>4. m # i
  BY <1>0, <1>1, <1>3
<1>5. m - 1 \in i..Len(ns) /\ m - 1 < m /\ m \in 1..Len(ns)
  BY <1>0, <1>3, <1>4
<1>6. g[i] <= g[m - 1]
  BY <1>3, <1>5
<1>7. g[m] = g[m - 1] + ns[m] /\ ns[m] \in Nat
  BY <1>0, <1>1, <1>5
<1>8. g[m - 1] \in Nat /\ g[i] \in Nat
  <2>1. m - 1 \in 0..Len(ns)
    BY <1>0, <1>5
  <2> QED BY <1>1, <2>1
<1>9. ~(g[i] <= g[m])
  BY <1>3
<1> QED BY <1>6, <1>7, <1>8, <1>9

(* A part of a sequence.                                                   *)
LEMMA Slice ==
    ASSUME NEW S, NEW s \in Seq(S), NEW a \in Nat, NEW w \in Nat, a + w <= Len(s)
    PROVE  /\ SubSeq(s, a + 1, a + w) \in Seq(S)
           /\ Len(SubSeq(s, a + 1, a + w)) = w
           /\ \A i \in 1..w : SubSeq(s, a + 1, a + w)[i] = s[a + i]
  OBVIOUS

(* The parts of a concatenation.                                           *)
LEMMA Joined ==
    ASSUME NEW S, NEW s \in Seq(S), NEW t \in Seq(S)
    PROVE  /\ s \o t \in Seq(S)
           /\ Len(s \o t) \in Nat /\ Len(s \o t) = Len(s) + Len(t)
           /\ \A i \in 1..Len(s) : (s \o t)[i] = s[i]
           /\ \A i \in 1..Len(t) : (s \o t)[Len(s) + i] = t[i]
<1>1. s \o t \in Seq(S) /\ Len(s \o t) = Len(s) + Len(t) /\ Len(s) \in Nat /\ Len(t) \in Nat
  OBVIOUS
<1>2. \A i \in 1..Len(s) : (s \o t)[i] = s[i]
  OBVIOUS
<1>3. \A i \in 1..Len(t) : (s \o t)[Len(s) + i] = t[i]
  OBVIOUS
<1> QED BY <1>1, <1>2, <1>3

(* The sizes of the parts of a concatenation.                              *)
Sizes(ss) == [k \in 1..Len(ss) |-> Len(ss[k])]

(* The recursive definition of FlattenSeq, and the same up to n parts as a *)
(* property of the values of f.                                            *)
IsFlat(f, ss) == f = [i \in 1..Len(ss) |-> IF i = 1 THEN ss[i] ELSE f[i - 1] \o ss[i]]

FlatTo(f, ss, n, S) ==
    /\ f \in [1..n -> Seq(S)] /\ (n > 0 => f[1] = ss[1])
    /\ \A i \in 2..n : f[i] = f[i - 1] \o ss[i]

(* The recursive definition has a solution.                                *)
LEMMA FlatExists ==
    ASSUME NEW S, NEW ss \in Seq(Seq(S)), NEW n \in 0..Len(ss)
    PROVE  \E f : FlatTo(f, ss, n, S)
<1> DEFINE T == {k \in 0..Len(ss) : ~ \E f : FlatTo(f, ss, k, S)}
<1> SUFFICES ASSUME T # {} PROVE FALSE
  OBVIOUS
<1>0. Len(ss) \in Nat /\ T \subseteq Nat
  OBVIOUS
<1>1. PICK m \in T : \A k \in T : ~(k < m)
  <2> HIDE DEF T
  <2> QED BY <1>0, LeastNumber
<1>2. m # 0
  <2> DEFINE z == [k \in 1..0 |-> <<>>]
  <2>1. FlatTo(z, ss, 0, S)
    BY DEF FlatTo
  <2> HIDE DEF z
  <2> QED BY <1>1, <2>1
<1>3. m - 1 \in 0..Len(ss) /\ m - 1 < m /\ ss[m] \in Seq(S) /\ m \in Nat
  BY <1>0, <1>1, <1>2
<1>4. PICK f : FlatTo(f, ss, m - 1, S)
  BY <1>1, <1>3
<1>5. /\ f \in [1..(m - 1) -> Seq(S)] /\ (m - 1 > 0 => f[1] = ss[1])
      /\ \A i \in 2..(m - 1) : f[i] = f[i - 1] \o ss[i]
  BY <1>4 DEF FlatTo
<1> DEFINE last == IF m = 1 THEN ss[1] ELSE f[m - 1] \o ss[m]
           g == [i \in 1..m |-> IF i = m THEN last ELSE f[i]]
<1>6. last \in Seq(S)
  <2>1. CASE m = 1
    BY <1>3, <2>1
  <2>2. CASE m # 1
    <3>1. f[m - 1] \in Seq(S)
      BY <1>2, <1>3, <1>5, <2>2
    <3> QED BY <1>3, <2>2, <3>1
  <2> QED BY <2>1, <2>2
<1>7. FlatTo(g, ss, m, S)
  <2>1. g \in [1..m -> Seq(S)]
    <3> HIDE DEF last
    <3> QED BY <1>3, <1>5, <1>6
  <2>2. g[1] = ss[1]
    BY <1>2, <1>3, <1>5
  <2>3. ASSUME NEW i \in 2..m PROVE g[i] = g[i - 1] \o ss[i]
    <3>1. i \in 1..m /\ i - 1 \in 1..m /\ i - 1 # m
      BY <1>3
    <3>2. g[i - 1] = f[i - 1] /\ g[i] = IF i = m THEN last ELSE f[i]
      BY <3>1
    <3>3. CASE i = m
      <4>1. m # 1
        BY <1>3, <3>3
      <4> QED BY <3>2, <3>3, <4>1, Zenon
    <3>4. CASE i # m
      <4>1. i \in 2..(m - 1)
        BY <1>3, <3>1, <3>4
      <4> QED BY <1>5, <3>2, <3>4, <4>1
    <3> QED BY <3>3, <3>4
  <2> HIDE DEF g
  <2> QED BY <2>1, <2>2, <2>3 DEF FlatTo
<1> HIDE DEF g
<1> QED BY <1>1, <1>7

(* What FlattenSeq is built from.                                          *)
LEMMA FlatSteps ==
    ASSUME NEW S, NEW ss \in Seq(Seq(S)), ss # <<>>
    PROVE  \E f \in [1..Len(ss) -> Seq(S)] :
              /\ f[1] = ss[1]
              /\ \A i \in 2..Len(ss) : f[i] = f[i - 1] \o ss[i]
              /\ FlattenSeq(ss) = f[Len(ss)]
<1>0. Len(ss) \in Nat /\ Len(ss) > 0
  OBVIOUS
<1> DEFINE g == CHOOSE f : IsFlat(f, ss)
<1>1. PICK h : FlatTo(h, ss, Len(ss), S)
  BY <1>0, FlatExists
<1>2. /\ h \in [1..Len(ss) -> Seq(S)] /\ h[1] = ss[1]
      /\ \A i \in 2..Len(ss) : h[i] = h[i - 1] \o ss[i]
  BY <1>0, <1>1 DEF FlatTo
<1>3. IsFlat(h, ss)
  <2>1. ASSUME NEW i \in 1..Len(ss) PROVE h[i] = IF i = 1 THEN ss[i] ELSE h[i - 1] \o ss[i]
    <3>1. CASE i = 1
      BY <1>2, <3>1
    <3>2. CASE i # 1
      <4>1. i \in 2..Len(ss)
        BY <1>0, <3>2
      <4> QED BY <1>2, <3>2, <4>1
    <3> QED BY <3>1, <3>2
  <2>2. h = [i \in 1..Len(ss) |-> h[i]]
    BY <1>2
  <2> QED BY <2>1, <2>2, Zenon DEF IsFlat
<1>4. IsFlat(g, ss)
  BY <1>3, Zenon
<1>5. FlattenSeq(ss) = g[Len(ss)]
  <2>1. ~(Len(ss) = 0)
    BY <1>0
  <2> QED BY <2>1, Zenon DEF FlattenSeq, IsFlat
<1> HIDE DEF g
<1>6. g = [i \in 1..Len(ss) |-> IF i = 1 THEN ss[i] ELSE g[i - 1] \o ss[i]]
  BY <1>4 DEF IsFlat
<1>7. g[1] = ss[1] /\ \A i \in 2..Len(ss) : g[i] = g[i - 1] \o ss[i]
  <2>1. ASSUME NEW i \in 1..Len(ss) PROVE g[i] = IF i = 1 THEN ss[i] ELSE g[i - 1] \o ss[i]
    BY <1>6, Zenon
  <2>2. \A i \in 2..Len(ss) : i \in 1..Len(ss) /\ i # 1
    BY <1>0
  <2>3. 1 \in 1..Len(ss)
    BY <1>0
  <2> QED BY <2>1, <2>2, <2>3, Zenon
<1>8. \A i \in 1..Len(ss) : g[i] \in Seq(S)
  <2> DEFINE T == {i \in 1..Len(ss) : ~(g[i] \in Seq(S))}
  <2> SUFFICES ASSUME T # {} PROVE FALSE
    OBVIOUS
  <2>1. T \subseteq Nat
    BY <1>0
  <2>2. PICK m \in T : \A k \in T : ~(k < m)
    <3> HIDE DEF T
    <3> QED BY <2>1, LeastNumber
  <2>3. ss[1] \in Seq(S) /\ ss[m] \in Seq(S)
    BY <1>0, <2>2
  <2>4. m # 1
    BY <1>7, <2>2, <2>3
  <2>5. m - 1 \in 1..Len(ss) /\ m - 1 < m /\ m \in 2..Len(ss)
    BY <1>0, <2>2, <2>4
  <2>6. g[m - 1] \in Seq(S)
    BY <2>2, <2>5
  <2>7. g[m] = g[m - 1] \o ss[m]
    BY <1>7, <2>5
  <2>8. ~(g[m] \in Seq(S))
    BY <2>2
  <2> QED BY <2>3, <2>6, <2>7, <2>8
<1>9. g \in [1..Len(ss) -> Seq(S)]
  BY <1>6, <1>8
<1> QED BY <1>5, <1>7, <1>9

(* Where the parts of a concatenation are.                                 *)
LEMMA Concatenation ==
    ASSUME NEW S, NEW ss \in Seq(Seq(S))
    PROVE  /\ FlattenSeq(ss) \in Seq(S)
           /\ Sizes(ss) \in Seq(Nat) /\ Len(Sizes(ss)) = Len(ss)
           /\ Len(FlattenSeq(ss)) = Sum(Sizes(ss))
           /\ \A k \in 1..Len(ss) : \A i \in 1..Len(ss[k]) :
                  FlattenSeq(ss)[Sums(Sizes(ss))[k - 1] + i] = ss[k][i]
<1> DEFINE g == Sums(Sizes(ss))
<1>0. Len(ss) \in Nat /\ \A k \in 1..Len(ss) : ss[k] \in Seq(S) /\ Len(ss[k]) \in Nat
  OBVIOUS
<1>1. Sizes(ss) \in Seq(Nat) /\ Len(Sizes(ss)) = Len(ss) /\ DOMAIN Sizes(ss) = 1..Len(ss)
  BY <1>0 DEF Sizes
<1>2. /\ g \in [0..Len(ss) -> Nat] /\ g[0] = 0
      /\ \A k \in 1..Len(ss) : g[k] = g[k - 1] + Len(ss[k])
  <2>1. /\ g \in [0..Len(ss) -> Nat] /\ g[0] = 0
        /\ \A k \in 1..Len(ss) : g[k] = g[k - 1] + Sizes(ss)[k]
    BY <1>1, SumsStep
  <2> HIDE DEF g
  <2> QED BY <2>1 DEF Sizes
<1>3. Sum(Sizes(ss)) = g[Len(ss)]
  BY <1>1 DEF Sum
<1>4. CASE ss = <<>>
  <2>1. FlattenSeq(ss) = <<>>
    BY <1>4 DEF FlattenSeq
  <2> HIDE DEF g
  <2> QED BY <1>0, <1>1, <1>2, <1>3, <1>4, <2>1
<1>5. CASE ss # <<>>
  <2> HIDE DEF g
  <2>1. PICK f \in [1..Len(ss) -> Seq(S)] :
           /\ f[1] = ss[1]
           /\ \A i \in 2..Len(ss) : f[i] = f[i - 1] \o ss[i]
           /\ FlattenSeq(ss) = f[Len(ss)]
    BY <1>5, FlatSteps
  <2> DEFINE Right(n) == /\ Len(f[n]) = g[n]
                         /\ \A k \in 1..n : \A i \in 1..Len(ss[k]) : f[n][g[k - 1] + i] = ss[k][i]
             T == {n \in 1..Len(ss) : ~Right(n)}
  <2>2. Right(1)
    <3>1. g[1] = Len(ss[1]) /\ g[0] = 0 /\ ss[1] \in Seq(S)
      BY <1>0, <1>2, <1>5
    <3> QED BY <2>1, <3>1
  <2>3. ASSUME NEW m \in 2..Len(ss), Right(m - 1) PROVE Right(m)
    <3> HIDE DEF T
    <3>1. m \in 1..Len(ss) /\ m - 1 \in 1..Len(ss)
      BY <1>0
    <3> DEFINE s == f[m - 1]
               t == ss[m]
    <3>2. f[m] = s \o t /\ s \in Seq(S) /\ t \in Seq(S)
      BY <1>0, <2>1, <3>1
    <3>3. Len(s) = g[m - 1] /\ g[m] = g[m - 1] + Len(t) /\ g[m - 1] \in Nat
      BY <1>2, <2>3, <3>1
    <3>4. \A k \in 1..(m - 1) : \A i \in 1..Len(ss[k]) : s[g[k - 1] + i] = ss[k][i]
      BY <2>3
    <3> HIDE DEF s
    <3>5. /\ Len(f[m]) = Len(s) + Len(t)
          /\ \A i \in 1..Len(s) : f[m][i] = s[i]
          /\ \A i \in 1..Len(t) : f[m][Len(s) + i] = t[i]
      <4> HIDE DEF t
      <4> QED BY <3>2
    <3>6. ASSUME NEW k \in 1..m, NEW i \in 1..Len(ss[k]) PROVE f[m][g[k - 1] + i] = ss[k][i]
      <4>1. CASE k = m
        BY <3>3, <3>5, <4>1
      <4>2. CASE k # m
        <5>1. k \in 1..(m - 1) /\ k \in 0..Len(ss) /\ k - 1 \in 0..Len(ss) /\ m - 1 \in k..Len(ss)
              /\ k \in 1..Len(ss)
          BY <1>0, <4>2
        <5>2. g[k] <= g[m - 1]
          BY <1>1, <5>1, SumsAscend DEF g
        <5>3. g[k] = g[k - 1] + Len(ss[k]) /\ g[k - 1] \in Nat /\ Len(ss[k]) \in Nat
          BY <1>0, <1>2, <5>1
        <5>4. g[k - 1] + i \in 1..Len(s)
          <6>1. \A a, b, c \in Nat : \A j \in 1..b : a + b <= c => a + j \in 1..c
            OBVIOUS
          <6>2. g[k - 1] + Len(ss[k]) <= Len(s) /\ Len(s) \in Nat
            BY <3>3, <5>2, <5>3
          <6> QED BY <5>3, <6>1, <6>2, Zenon
        <5>5. f[m][g[k - 1] + i] = s[g[k - 1] + i]
          BY <3>5, <5>4
        <5> QED BY <3>4, <5>1, <5>5
      <4> QED BY <4>1, <4>2
    <3>7. Len(f[m]) = g[m]
      BY <3>3, <3>5
    <3> QED BY <3>6, <3>7
  <2>4. ASSUME T # {} PROVE FALSE
    <3> HIDE DEF Right
    <3>1. T \subseteq Nat
      BY <1>0
    <3>2. PICK m \in T : \A k \in T : ~(k < m)
      <4> HIDE DEF T
      <4> QED BY <2>4, <3>1, LeastNumber
    <3>3. m \in 1..Len(ss) /\ ~Right(m)
      BY <3>2
    <3>4. m \in 2..Len(ss) /\ m - 1 \in 1..Len(ss) /\ m - 1 < m
      BY <1>0, <2>2, <3>3
    <3>5. Right(m - 1)
      BY <3>2, <3>4
    <3> QED BY <2>3, <3>3, <3>4, <3>5
  <2>5. Right(Len(ss)) /\ Len(ss) \in 1..Len(ss)
    <3> HIDE DEF Right
    <3>1. Len(ss) \in 1..Len(ss)
      BY <1>0, <1>5
    <3> QED BY <2>4, <3>1
  <2> QED BY <1>1, <1>3, <2>1, <2>5 DEF g
<1> QED BY <1>4, <1>5

(***************************************************************************)
(* Numbers and their bytes.                                                *)
(***************************************************************************)

(* The widths of numbers in the code.                                      *)
Width == {1, 2, 4}

(* What serialize() writes for a field.                                    *)
Field(v, w, order) == IF order = "big" THEN Reverse(Bytes(v, w)) ELSE Bytes(v, w)

(* The weights of bytes.                                                   *)
LEMMA Weights ==
    /\ Weight[1] = 1 /\ Weight[2] = 256 /\ Weight[3] = 65536 /\ Weight[4] = 16777216
  BY DEF Weight

(* Positions and values of bytes, without the large numbers.               *)
LEMMA Positions ==
    /\ \A w \in Width : w \in Nat /\ (w = 1 \/ w = 2 \/ w = 4)
    /\ \A w \in Width : \A i \in 1..w : Weight[i] \in Nat /\ Weight[i] > 0
    /\ \A w \in Width : 1 \in 1..w /\ (w > 1 => 2 \in 1..w) /\ (w > 2 => 3 \in 1..w /\ 4 \in 1..w)
    /\ \A x : x \in Byte <=> x \in Nat /\ x < 256
  BY DEF Weight, Width, Byte

(* The bytes of a number.                                                  *)
LEMMA BytesOfNumber ==
    ASSUME NEW v \in Nat, NEW w \in Width
    PROVE  /\ Bytes(v, w) \in Seq(Byte) /\ Len(Bytes(v, w)) = w
           /\ \A i \in 1..w : Bytes(v, w)[i] = (v \div Weight[i]) % 256
<1> DEFINE b == Bytes(v, w)
<1>1. b = [i \in 1..w |-> (v \div Weight[i]) % 256] /\ w \in Nat
  BY Positions DEF Bytes
<1>2. \A i \in 1..w : b[i] = (v \div Weight[i]) % 256
  BY <1>1
<1>3. ASSUME NEW i \in 1..w PROVE b[i] \in Byte
  <2>1. Weight[i] \in Nat /\ Weight[i] > 0
    BY Positions
  <2>2. (v \div Weight[i]) \in Nat
    BY <2>1
  <2>3. \A x \in Nat : x % 256 \in Nat /\ x % 256 < 256
    OBVIOUS
  <2> HIDE DEF b
  <2> QED BY <1>2, <2>2, <2>3, Positions
<1>4. b \in Seq(Byte) /\ Len(b) = w
  BY <1>1, <1>3
<1> QED BY <1>2, <1>4

(* The number of a few bytes.                                              *)
LEMMA NumberOfBytes ==
    ASSUME NEW b \in Seq(Byte), Len(b) \in Width
    PROVE  /\ b[1] \in Byte
           /\ Len(b) = 1 => Number(b) = b[1]
           /\ Len(b) = 2 => b[2] \in Byte /\ Number(b) = b[1] + b[2] * Weight[2]
           /\ Len(b) = 4 =>
                 /\ b[2] \in Byte /\ b[3] \in Byte /\ b[4] \in Byte
                 /\ Number(b) = b[1] + b[2] * Weight[2] + b[3] * Weight[3] + b[4] * Weight[4]
<1> DEFINE ns == [i \in DOMAIN b |-> b[i] * Weight[i]]
           g == Sums(ns)
<1>1. \A i \in 1..Len(b) : b[i] \in Byte
  OBVIOUS
<1>2. \A i \in 1..Len(b) : b[i] \in Nat /\ Weight[i] \in Nat
  BY <1>1, Positions, Zenon
<1>3. ns = [i \in 1..Len(b) |-> b[i] * Weight[i]]
  OBVIOUS
<1> HIDE DEF ns
<1>4. \A i \in 1..Len(b) : ns[i] = b[i] * Weight[i]
  BY <1>3
<1>5. ns \in Seq(Nat) /\ Len(ns) = Len(b)
  <2>1. \A x, y \in Nat : x * y \in Nat
    OBVIOUS
  <2>2. \A i \in 1..Len(b) : ns[i] \in Nat
    BY <1>2, <1>4, <2>1
  <2>3. Len(b) \in Nat
    OBVIOUS
  <2> QED BY <1>3, <2>2, <2>3
<1>6. g[0] = 0 /\ \A k \in 1..Len(b) : g[k] = g[k - 1] + ns[k]
  BY <1>5, SumsStep
<1>7. Number(b) = g[Len(b)]
  BY <1>5 DEF Number, Sum, ns
<1> HIDE DEF g
<1>8. /\ g[1] = g[0] + b[1] * Weight[1] /\ b[1] \in Byte
      /\ Len(b) > 1 => g[2] = g[1] + b[2] * Weight[2] /\ b[2] \in Byte
      /\ Len(b) > 2 => /\ g[3] = g[2] + b[3] * Weight[3] /\ b[3] \in Byte
                       /\ g[4] = g[3] + b[4] * Weight[4] /\ b[4] \in Byte
  <2>1. 1 - 1 = 0 /\ 2 - 1 = 1 /\ 3 - 1 = 2 /\ 4 - 1 = 3
    OBVIOUS
  <2> QED BY <1>1, <1>4, <1>6, <2>1, Positions, Zenon
<1>9. CASE Len(b) = 1
  <2>1. b[1] \in Nat /\ b[1] \in Byte
    BY <1>8, Positions, Zenon
  <2>2. g[1] = b[1]
    BY <1>6, <1>8, <2>1, Weights
  <2> QED BY <1>7, <1>9, <2>1, <2>2
<1>10. CASE Len(b) = 2
  <2>1. 2 > 1
    OBVIOUS
  <2>2. b[1] \in Nat /\ b[2] \in Nat /\ b[1] \in Byte /\ b[2] \in Byte
    BY <1>8, <1>10, <2>1, Positions, Zenon
  <2>3. g[2] = b[1] + b[2] * Weight[2]
    BY <1>6, <1>8, <1>10, <2>2, Weights
  <2> QED BY <1>7, <1>10, <2>2, <2>3
<1>11. CASE Len(b) = 4
  <2>1. 4 > 1 /\ 4 > 2
    OBVIOUS
  <2>2. /\ b[1] \in Nat /\ b[2] \in Nat /\ b[3] \in Nat /\ b[4] \in Nat
        /\ b[1] \in Byte /\ b[2] \in Byte /\ b[3] \in Byte /\ b[4] \in Byte
    BY <1>8, <1>11, <2>1, Positions, Zenon
  <2>3. g[4] = b[1] + b[2] * Weight[2] + b[3] * Weight[3] + b[4] * Weight[4]
    BY <1>6, <1>8, <1>11, <2>2, Weights, SMTT(20)
  <2> QED BY <1>7, <1>11, <2>2, <2>3
<1> QED BY <1>9, <1>10, <1>11, Positions

(* What it means to fit.                                                   *)
LEMMA FitsValue ==
    ASSUME NEW v, NEW w \in Width
    PROVE  Fits(v, w) <=> v \in Nat /\ v < 256 * Weight[w]
<1>1. Fits(v, w) <=> v \in Nat /\ v \div Weight[w] \in Nat /\ v \div Weight[w] < 256
  BY Positions, Zenon DEF Fits
<1>2. \A x \in Nat : /\ x \div 1 \in Nat /\ (x \div 1 < 256 <=> x < 256)
                     /\ x \div 256 \in Nat /\ (x \div 256 < 256 <=> x < 65536)
                     /\ x \div 16777216 \in Nat /\ (x \div 16777216 < 256 <=> x < 4294967296)
  OBVIOUS
<1>3. w = 1 \/ w = 2 \/ w = 4
  BY Positions, Zenon
<1> QED BY <1>1, <1>2, <1>3, Weights

(* A number is its bytes.                                                  *)
LEMMA NumberIsItsBytes ==
    ASSUME NEW w \in Width, NEW v, Fits(v, w)
    PROVE  Number(Bytes(v, w)) = v
<1> DEFINE b == Bytes(v, w)
<1>1. v \in Nat /\ v < 256 * Weight[w]
  BY FitsValue, Zenon
<1>2. b \in Seq(Byte) /\ Len(b) = w /\ \A i \in 1..w : b[i] = (v \div Weight[i]) % 256
  BY <1>1, BytesOfNumber, Zenon
<1> HIDE DEF b
<1>3. /\ w = 1 => Number(b) = b[1]
      /\ w = 2 => Number(b) = b[1] + b[2] * Weight[2]
      /\ w = 4 => Number(b) = b[1] + b[2] * Weight[2] + b[3] * Weight[3] + b[4] * Weight[4]
  BY <1>2, NumberOfBytes, Zenon
<1>7. /\ b[1] = (v \div Weight[1]) % 256
      /\ w > 1 => b[2] = (v \div Weight[2]) % 256
      /\ w > 2 => b[3] = (v \div Weight[3]) % 256 /\ b[4] = (v \div Weight[4]) % 256
  <2>1. 1 \in 1..w /\ (w > 1 => 2 \in 1..w) /\ (w > 2 => 3 \in 1..w /\ 4 \in 1..w)
    BY Positions, Zenon
  <2> DEFINE d(i) == (v \div Weight[i]) % 256
  <2>2. \A i \in 1..w : b[i] = d(i)
    BY <1>2
  <2> HIDE DEF d
  <2>3. /\ b[1] = d(1) /\ (w > 1 => b[2] = d(2))
        /\ w > 2 => b[3] = d(3) /\ b[4] = d(4)
    BY <2>1, <2>2, Zenon
  <2> QED BY <2>3, Zenon DEF d
<1>4. CASE w = 1
  <2>1. \A x \in Nat : x < 256 => x = (x \div 1) % 256
    OBVIOUS
  <2> QED BY <1>1, <1>3, <1>4, <1>7, <2>1, Weights DEF b
<1>5. CASE w = 2
  <2>1. \A x \in Nat : x < 65536 => x = ((x \div 1) % 256) + ((x \div 256) % 256) * 256
    OBVIOUS
  <2> QED BY <1>1, <1>3, <1>5, <1>7, <2>1, Weights DEF b
<1>6. CASE w = 4
  <2>1. \A x \in Nat : x < 4294967296 =>
           x = ((x \div 1) % 256) + ((x \div 256) % 256) * 256 + ((x \div 65536) % 256) * 65536
               + ((x \div 16777216) % 256) * 16777216
    OBVIOUS
  <2> QED BY <1>1, <1>3, <1>6, <1>7, <2>1, Weights DEF b
<1> QED BY <1>4, <1>5, <1>6, Positions

(* The largest number of four bytes.                                       *)
LEMMA FourBytes ==
    ASSUME NEW x \in Nat, x < 256, NEW y \in Nat, y < 256,
           NEW z \in Nat, z < 256, NEW u \in Nat, u < 256
    PROVE  /\ x + y * Weight[2] + z * Weight[3] + u * Weight[4] \in Nat
           /\ x + y * Weight[2] + z * Weight[3] + u * Weight[4] < 256 * Weight[4]
  BY Weights

(* Any bytes make a number of their width.                                 *)
LEMMA NumberFits ==
    ASSUME NEW b \in Seq(Byte), Len(b) \in Width
    PROVE  Fits(Number(b), Len(b))
<1> DEFINE n == Number(b)
           w == Len(b)
<1>1. /\ b[1] \in Byte
      /\ w = 1 => n = b[1]
      /\ w = 2 => b[2] \in Byte /\ n = b[1] + b[2] * Weight[2]
      /\ w = 4 => /\ b[2] \in Byte /\ b[3] \in Byte /\ b[4] \in Byte
                  /\ n = b[1] + b[2] * Weight[2] + b[3] * Weight[3] + b[4] * Weight[4]
  BY NumberOfBytes, Zenon
<1> HIDE DEF n
<1>2. /\ b[1] \in Nat /\ b[1] < 256
      /\ w = 2 => b[2] \in Nat /\ b[2] < 256
      /\ w = 4 => /\ b[2] \in Nat /\ b[2] < 256 /\ b[3] \in Nat /\ b[3] < 256
                  /\ b[4] \in Nat /\ b[4] < 256
  BY <1>1, Positions, Zenon
<1>3. w = 1 \/ w = 2 \/ w = 4
  BY Positions, Zenon
<1>4. n \in Nat /\ n < 256 * Weight[w]
  <2> HIDE DEF w
  <2>1. CASE w = 1
    BY <1>1, <1>2, <2>1, Weights
  <2>2. CASE w = 2
    <3>1. \A x, y \in Nat : x < 256 /\ y < 256 => x + y * 256 \in Nat /\ x + y * 256 < 256 * 256
      OBVIOUS
    <3> QED BY <1>1, <1>2, <2>2, <3>1, Weights
  <2>3. CASE w = 4
    <3>1. /\ b[1] \in Nat /\ b[1] < 256 /\ b[2] \in Nat /\ b[2] < 256
          /\ b[3] \in Nat /\ b[3] < 256 /\ b[4] \in Nat /\ b[4] < 256
      BY <1>2, <2>3
    <3>2. n = b[1] + b[2] * Weight[2] + b[3] * Weight[3] + b[4] * Weight[4]
      BY <1>1, <2>3, Zenon
    <3>3. n \in Nat /\ n < 256 * Weight[4]
      <4> DEFINE x == b[1]
                 y == b[2]
                 z == b[3]
                 u == b[4]
      <4> HIDE DEF x, y, z, u
      <4>1. /\ x \in Nat /\ x < 256 /\ y \in Nat /\ y < 256
            /\ z \in Nat /\ z < 256 /\ u \in Nat /\ u < 256
        BY <3>1, Zenon DEF x, y, z, u
      <4>2. n = x + y * Weight[2] + z * Weight[3] + u * Weight[4]
        BY <3>2, Zenon DEF x, y, z, u
      <4>3. /\ x + y * Weight[2] + z * Weight[3] + u * Weight[4] \in Nat
            /\ x + y * Weight[2] + z * Weight[3] + u * Weight[4] < 256 * Weight[4]
        BY <4>1, FourBytes
      <4> QED BY <4>2, <4>3, Zenon
    <3> QED BY <2>3, <3>3, Zenon
  <2> QED BY <1>3, <2>1, <2>2, <2>3
<1> QED BY <1>4, FitsValue, Zenon DEF n

(* The bytes of a number in either order.                                  *)
LEMMA FieldBytes ==
    ASSUME NEW w \in Width, NEW v, Fits(v, w), NEW order
    PROVE  /\ Field(v, w, order) \in Seq(Byte)
           /\ Len(Field(v, w, order)) = w
           /\ order # "big" \/ w = 1 => Number(Field(v, w, order)) = v
<1> DEFINE b == Bytes(v, w)
<1>1. b \in Seq(Byte) /\ Len(b) = w
  BY BytesOfNumber, Zenon DEF Fits
<1>2. Number(b) = v
  BY NumberIsItsBytes, Zenon
<1> HIDE DEF b
<1>3. Reverse(b) \in Seq(Byte) /\ Len(Reverse(b)) = w /\ (w = 1 => Reverse(b) = b)
  <2>1. Reverse(b) = [i \in 1..w |-> b[w - i + 1]] /\ w \in Nat
    BY <1>1, Positions DEF Reverse
  <2>2. \A i \in 1..w : w - i + 1 \in 1..w
    BY <2>1
  <2>3. \A i \in 1..w : b[w - i + 1] \in Byte
    BY <1>1, <2>2
  <2>4. Reverse(b) \in Seq(Byte) /\ Len(Reverse(b)) = w
    BY <2>1, <2>3
  <2>5. ASSUME w = 1 PROVE Reverse(b) = b
    <3>1. \A i \in 1..w : w - i + 1 = i
      BY <2>5
    <3>2. b = [i \in 1..w |-> b[i]]
      BY <1>1
    <3> QED BY <2>1, <3>1, <3>2
  <2> QED BY <2>4, <2>5
<1> QED BY <1>1, <1>2, <1>3, Zenon DEF Field, b

(***************************************************************************)
(* Fields.                                                                 *)
(***************************************************************************)

(* Widths are numbers.                                                     *)
LEMMA WidthsAreNumbers ==
    ASSUME NEW ws \in Seq(Width)
    PROVE  /\ ws \in Seq(Nat) /\ Len(ws) \in Nat /\ DOMAIN ws = 1..Len(ws)
           /\ \A k \in 1..Len(ws) : ws[k] \in Width /\ ws[k] \in Nat /\ ws[k] > 0
<1>1. \A k \in 1..Len(ws) : ws[k] \in Width
  OBVIOUS
<1>2. \A w \in Width : w \in Nat /\ w > 0
  BY DEF Width
<1>3. Len(ws) \in Nat /\ DOMAIN ws = 1..Len(ws) /\ ws = [k \in 1..Len(ws) |-> ws[k]]
  OBVIOUS
<1>4. \A k \in 1..Len(ws) : ws[k] \in Nat /\ ws[k] > 0
  BY <1>1, <1>2, Zenon
<1>5. ws \in Seq(Nat)
  BY <1>3, <1>4
<1> QED BY <1>1, <1>3, <1>4, <1>5

(* The bytes of the fields follow each other.                              *)
LEMMA Encoding ==
    ASSUME NEW ws \in Seq(Width), NEW vs, NEW order,
           \A k \in 1..Len(ws) : Fits(vs[k], ws[k])
    PROVE  /\ Encode(ws, vs, order) \in Seq(Byte)
           /\ Len(Encode(ws, vs, order)) = Sum(ws)
           /\ \A k \in 1..Len(ws) : \A i \in 1..ws[k] :
                 Encode(ws, vs, order)[Sums(ws)[k - 1] + i] = Field(vs[k], ws[k], order)[i]
<1> DEFINE ss == [k \in DOMAIN ws |-> Field(vs[k], ws[k], order)]
<1>1. /\ Len(ws) \in Nat /\ DOMAIN ws = 1..Len(ws)
      /\ \A k \in 1..Len(ws) : ws[k] \in Width
  BY WidthsAreNumbers
<1>2. Encode(ws, vs, order) = FlattenSeq(ss)
  BY Zenon DEF Encode, Field
<1>3. ss = [k \in 1..Len(ws) |-> Field(vs[k], ws[k], order)]
  BY <1>1
<1> HIDE DEF ss
<1>4. \A k \in 1..Len(ws) : /\ ss[k] = Field(vs[k], ws[k], order)
                            /\ ss[k] \in Seq(Byte) /\ Len(ss[k]) = ws[k]
  <2>1. \A k \in 1..Len(ws) : ss[k] = Field(vs[k], ws[k], order)
    BY <1>3
  <2>2. ASSUME NEW k \in 1..Len(ws)
        PROVE  Field(vs[k], ws[k], order) \in Seq(Byte) /\ Len(Field(vs[k], ws[k], order)) = ws[k]
    <3>1. ws[k] \in Width /\ Fits(vs[k], ws[k])
      BY <1>1
    <3> QED BY <3>1, FieldBytes, Zenon
  <2> QED BY <2>1, <2>2, Zenon
<1>5. ss \in Seq(Seq(Byte)) /\ Len(ss) = Len(ws)
  BY <1>1, <1>3, <1>4
<1>6. Sizes(ss) = ws
  <2>1. Sizes(ss) = [k \in 1..Len(ws) |-> Len(ss[k])]
    BY <1>5, Zenon DEF Sizes
  <2>2. ws = [k \in 1..Len(ws) |-> ws[k]]
    OBVIOUS
  <2> QED BY <1>4, <2>1, <2>2
<1>7. /\ FlattenSeq(ss) \in Seq(Byte)
      /\ Len(FlattenSeq(ss)) = Sum(ws)
      /\ \A k \in 1..Len(ws) : \A i \in 1..Len(ss[k]) : FlattenSeq(ss)[Sums(ws)[k - 1] + i] = ss[k][i]
  <2>1. /\ FlattenSeq(ss) \in Seq(Byte)
        /\ Len(FlattenSeq(ss)) = Sum(Sizes(ss))
        /\ \A k \in 1..Len(ss) : \A i \in 1..Len(ss[k]) :
              FlattenSeq(ss)[Sums(Sizes(ss))[k - 1] + i] = ss[k][i]
    BY <1>5, Concatenation
  <2> QED BY <1>5, <1>6, <2>1, Zenon
<1>8. ASSUME NEW k \in 1..Len(ws), NEW i \in 1..ws[k]
      PROVE  FlattenSeq(ss)[Sums(ws)[k - 1] + i] = Field(vs[k], ws[k], order)[i]
  <2>1. i \in 1..Len(ss[k]) /\ ss[k] = Field(vs[k], ws[k], order)
    BY <1>4
  <2> QED BY <1>7, <2>1, Zenon
<1> QED BY <1>2, <1>7, <1>8, Zenon

(* Where a field is read.                                                  *)
LEMMA FieldRead ==
    ASSUME NEW ws \in Seq(Width), NEW p \in Seq(Byte), Sum(ws) <= Len(p), NEW k \in 1..Len(ws)
    PROVE  LET a == Sums(ws)[k - 1]
               b == SubSeq(p, a + 1, Sums(ws)[k])
           IN  /\ b \in Seq(Byte) /\ Len(b) = ws[k]
               /\ \A i \in 1..ws[k] : b[i] = p[a + i]
<1> DEFINE a == Sums(ws)[k - 1]
           c == Sums(ws)[k]
<1>1. ws \in Seq(Nat) /\ Len(ws) \in Nat /\ ws[k] \in Nat
  BY WidthsAreNumbers
<1>2. a \in Nat /\ c \in Nat /\ c = a + ws[k]
  <2>1. k - 1 \in 0..Len(ws) /\ k \in 0..Len(ws)
    BY <1>1
  <2> QED BY <1>1, <2>1, SumsStep
<1>3. c <= Len(p)
  <2>1. k \in 0..Len(ws) /\ Len(ws) \in k..Len(ws)
    BY <1>1
  <2>2. c <= Sums(ws)[Len(ws)] /\ Sums(ws)[Len(ws)] \in Nat
    BY <1>1, <2>1, SumsAscend, SumsStep
  <2>3. Len(p) \in Nat
    OBVIOUS
  <2> QED BY <1>2, <2>2, <2>3 DEF Sum
<1> HIDE DEF a, c
<1>4. /\ SubSeq(p, a + 1, c) \in Seq(Byte)
      /\ Len(SubSeq(p, a + 1, c)) = ws[k]
      /\ \A i \in 1..ws[k] : SubSeq(p, a + 1, c)[i] = p[a + i]
  <2> DEFINE w == ws[k]
             b == SubSeq(p, a + 1, a + w)
  <2> HIDE DEF w
  <2>1. a + w <= Len(p) /\ w \in Nat /\ c = a + w
    BY <1>1, <1>2, <1>3 DEF w
  <2>2. b \in Seq(Byte) /\ Len(b) = w /\ \A i \in 1..w : b[i] = p[a + i]
    <3>1. p \in Seq(Byte) /\ a \in Nat /\ w \in Nat /\ a + w <= Len(p)
      BY <1>2, <2>1
    <3> QED BY <3>1, Slice
  <2> QED BY <2>1, <2>2, Zenon DEF w
<1> QED BY <1>4, Zenon DEF a, c

(* What is read fits its field.                                            *)
LEMMA Decoding ==
    ASSUME NEW ws \in Seq(Width), NEW p \in Seq(Byte), Sum(ws) <= Len(p)
    PROVE  /\ DOMAIN Decode(ws, p) = DOMAIN ws
           /\ \A k \in DOMAIN ws : Fits(Decode(ws, p)[k], ws[k])
<1>1. DOMAIN ws = 1..Len(ws) /\ \A k \in 1..Len(ws) : ws[k] \in Width
  BY WidthsAreNumbers
<1>2. ASSUME NEW k \in 1..Len(ws) PROVE Fits(Decode(ws, p)[k], ws[k])
  <2> DEFINE b == SubSeq(p, Sums(ws)[k - 1] + 1, Sums(ws)[k])
  <2>1. b \in Seq(Byte) /\ Len(b) = ws[k]
    BY FieldRead
  <2>2. Decode(ws, p)[k] = Number(b)
    BY <1>1 DEF Decode
  <2> HIDE DEF b
  <2> QED BY <1>1, <2>1, <2>2, NumberFits, Zenon
<1>3. DOMAIN Decode(ws, p) = DOMAIN ws
  BY DEF Decode
<1> QED BY <1>1, <1>2, <1>3

(* A field whose bytes stand in their place has their number.              *)
LEMMA DecodedField ==
    ASSUME NEW ws \in Seq(Width), NEW p \in Seq(Byte), Sum(ws) <= Len(p), NEW k \in 1..Len(ws),
           NEW b \in Seq(Byte), Len(b) = ws[k],
           \A i \in 1..ws[k] : p[Sums(ws)[k - 1] + i] = b[i]
    PROVE  Decode(ws, p)[k] = Number(b)
<1> DEFINE c == SubSeq(p, Sums(ws)[k - 1] + 1, Sums(ws)[k])
<1>1. c \in Seq(Byte) /\ Len(c) = ws[k] /\ \A i \in 1..ws[k] : c[i] = p[Sums(ws)[k - 1] + i]
  BY FieldRead
<1>2. Decode(ws, p)[k] = Number(c)
  BY DEF Decode
<1> HIDE DEF c
<1>3. c = b
  <2>1. c = [i \in 1..Len(c) |-> c[i]] /\ b = [i \in 1..Len(b) |-> b[i]]
    BY <1>1
  <2> QED BY <1>1, <2>1
<1> QED BY <1>2, <1>3

(***************************************************************************)
(* Layouts.                                                                *)
(***************************************************************************)

(* The classes, one by one.                                                *)
LEMMA ClassByClass ==
    ASSUME NEW c \in Classes
    PROVE  \/ c = <<M2S, 0>>
           \/ c = <<M2S, 16>>
           \/ c = <<M2S, 17>>
           \/ c = <<M2S, 18>>
           \/ c = <<M2S, 32>>
           \/ c = <<M2S, 33>>
           \/ c = <<M2S, 34>>
           \/ c = <<M2S, 48>>
           \/ c = <<S2M, 16>>
           \/ c = <<S2M, 17>>
           \/ c = <<S2M, 18>>
           \/ c = <<S2M, 48>>
           \/ c = <<B2M, 0>>
           \/ c = <<B2M, 1>>
           \/ c = <<B2M, 2>>
           \/ c = <<B2M, 3>>
           \/ c = <<M2B, 0>>
           \/ c = <<M2B, 1>>
           \/ c = <<M2B, 2>>
           \/ c = <<M2B, 3>>
           \/ c = <<S2B, 0>>
           \/ c = <<S2B, 1>>
           \/ c = <<S2B, 2>>
<1>1. c = <<c[1], c[2]>>
  BY DEF Classes
<1> QED BY <1>1 DEF Classes, M2S, S2M, B2M, M2B, S2B

(* The layout of each class.                                               *)
LEMMA LayoutByClass ==
    /\ Layout[<<M2S, 0>>] = M2S_SyncMsg
    /\ Layout[<<M2S, 16>>] = M2S_CondCfgMsg
    /\ Layout[<<M2S, 17>>] = M2S_ResCfgMsg
    /\ Layout[<<M2S, 18>>] = M2S_ClipCfgMsg
    /\ Layout[<<M2S, 32>>] = M2S_ReadCondDataMsg
    /\ Layout[<<M2S, 33>>] = M2S_ReadResDataMsg
    /\ Layout[<<M2S, 34>>] = M2S_ReadClipDataMsg
    /\ Layout[<<M2S, 48>>] = M2S_RstMsg
    /\ Layout[<<S2M, 16>>] = S2M_CondCfgMsg
    /\ Layout[<<S2M, 17>>] = S2M_ResCfgMsg
    /\ Layout[<<S2M, 18>>] = S2M_ClipCfgMsg
    /\ Layout[<<S2M, 48>>] = S2M_RstMsg
    /\ Layout[<<B2M, 0>>] = B2M_SlaveCfgMsg
    /\ Layout[<<B2M, 1>>] = B2M_ModeCfgMsg
    /\ Layout[<<B2M, 2>>] = B2M_RstMsg
    /\ Layout[<<B2M, 3>>] = B2M_CtrlMsg
    /\ Layout[<<M2B, 0>>] = M2B_SlaveCfgMsg
    /\ Layout[<<M2B, 1>>] = M2B_ModeCfgMsg
    /\ Layout[<<M2B, 2>>] = M2B_RstMsg
    /\ Layout[<<M2B, 3>>] = M2B_CtrlMsg
    /\ Layout[<<S2B, 0>>] = S2B_CondDataMsg
    /\ Layout[<<S2B, 1>>] = S2B_ResDataMsg
    /\ Layout[<<S2B, 2>>] = S2B_ClipDataMsg
<1>1. /\ Layout[<<M2S, 0>>] = M2S_SyncMsg
      /\ Layout[<<M2S, 16>>] = M2S_CondCfgMsg
      /\ Layout[<<M2S, 17>>] = M2S_ResCfgMsg
      /\ Layout[<<M2S, 18>>] = M2S_ClipCfgMsg
      /\ Layout[<<M2S, 32>>] = M2S_ReadCondDataMsg
      /\ Layout[<<M2S, 33>>] = M2S_ReadResDataMsg
      /\ Layout[<<M2S, 34>>] = M2S_ReadClipDataMsg
      /\ Layout[<<M2S, 48>>] = M2S_RstMsg
  BY DEF Layout, Classes, M2S_Message, M2S, S2M, B2M, M2B, S2B
<1>2. /\ Layout[<<S2M, 16>>] = S2M_CondCfgMsg
      /\ Layout[<<S2M, 17>>] = S2M_ResCfgMsg
      /\ Layout[<<S2M, 18>>] = S2M_ClipCfgMsg
      /\ Layout[<<S2M, 48>>] = S2M_RstMsg
  BY DEF Layout, Classes, S2M_Message, M2S, S2M, B2M, M2B, S2B
<1>3. /\ Layout[<<B2M, 0>>] = B2M_SlaveCfgMsg
      /\ Layout[<<B2M, 1>>] = B2M_ModeCfgMsg
      /\ Layout[<<B2M, 2>>] = B2M_RstMsg
      /\ Layout[<<B2M, 3>>] = B2M_CtrlMsg
  BY DEF Layout, Classes, B2M_Message, M2S, S2M, B2M, M2B, S2B
<1>4. /\ Layout[<<M2B, 0>>] = M2B_SlaveCfgMsg
      /\ Layout[<<M2B, 1>>] = M2B_ModeCfgMsg
      /\ Layout[<<M2B, 2>>] = M2B_RstMsg
      /\ Layout[<<M2B, 3>>] = M2B_CtrlMsg
  BY DEF Layout, Classes, M2B_Message, M2S, S2M, B2M, M2B, S2B
<1>5. /\ Layout[<<S2B, 0>>] = S2B_CondDataMsg
      /\ Layout[<<S2B, 1>>] = S2B_ResDataMsg
      /\ Layout[<<S2B, 2>>] = S2B_ClipDataMsg
  BY DEF Layout, Classes, S2B_Message, M2S, S2M, B2M, M2B, S2B
<1> QED BY <1>1, <1>2, <1>3, <1>4, <1>5

(* The sums of the entries.                                                *)
LEMMA EntrySums ==
    /\ Sum(<<1>>) = 1 /\ Sum(<<2>>) = 2
    /\ Sum(<<4, 1, 2>>) = 7 /\ Sum(<<4, 1, 1, 1, 2>>) = 9
    /\ Sum(<<1, 1, 2, 2, 2>>) = 8
<1>1. ASSUME NEW n \in Nat PROVE Sum(<<n>>) = n
  <2> DEFINE ws == <<n>>
  <2>1. ws \in Seq(Nat) /\ Len(ws) = 1 /\ ws[1] = n
    OBVIOUS
  <2> HIDE DEF ws
  <2>2. Sums(ws)[0] = 0 /\ Sums(ws)[1] = Sums(ws)[1 - 1] + ws[1]
    BY <2>1, SumsStep
  <2> QED BY <2>1, <2>2 DEF Sum, ws
<1>2. Sum(<<4, 1, 2>>) = 7
  <2> DEFINE ws == <<4, 1, 2>>
  <2>1. ws \in Seq(Nat) /\ Len(ws) = 3 /\ ws[1] = 4 /\ ws[2] = 1 /\ ws[3] = 2
    OBVIOUS
  <2> HIDE DEF ws
  <2>2. Sums(ws)[0] = 0 /\ \A k \in 1..3 : Sums(ws)[k] = Sums(ws)[k - 1] + ws[k]
    BY <2>1, SumsStep
  <2>3. /\ Sums(ws)[1] = Sums(ws)[0] + ws[1] /\ Sums(ws)[2] = Sums(ws)[1] + ws[2]
        /\ Sums(ws)[3] = Sums(ws)[2] + ws[3]
    BY <2>2
  <2> QED BY <2>1, <2>2, <2>3 DEF Sum, ws
<1>3. Sum(<<4, 1, 1, 1, 2>>) = 9
  <2> DEFINE ws == <<4, 1, 1, 1, 2>>
  <2>1. /\ ws \in Seq(Nat) /\ Len(ws) = 5
        /\ ws[1] = 4 /\ ws[2] = 1 /\ ws[3] = 1 /\ ws[4] = 1 /\ ws[5] = 2
    OBVIOUS
  <2> HIDE DEF ws
  <2>2. Sums(ws)[0] = 0 /\ \A k \in 1..5 : Sums(ws)[k] = Sums(ws)[k - 1] + ws[k]
    BY <2>1, SumsStep
  <2>3. /\ Sums(ws)[1] = Sums(ws)[0] + ws[1] /\ Sums(ws)[2] = Sums(ws)[1] + ws[2]
        /\ Sums(ws)[3] = Sums(ws)[2] + ws[3] /\ Sums(ws)[4] = Sums(ws)[3] + ws[4]
        /\ Sums(ws)[5] = Sums(ws)[4] + ws[5]
    BY <2>2
  <2> QED BY <2>1, <2>2, <2>3 DEF Sum, ws
<1>4. Sum(<<1, 1, 2, 2, 2>>) = 8
  <2> DEFINE ws == <<1, 1, 2, 2, 2>>
  <2>1. /\ ws \in Seq(Nat) /\ Len(ws) = 5
        /\ ws[1] = 1 /\ ws[2] = 1 /\ ws[3] = 2 /\ ws[4] = 2 /\ ws[5] = 2
    OBVIOUS
  <2> HIDE DEF ws
  <2>2. Sums(ws)[0] = 0 /\ \A k \in 1..5 : Sums(ws)[k] = Sums(ws)[k - 1] + ws[k]
    BY <2>1, SumsStep
  <2>3. /\ Sums(ws)[1] = Sums(ws)[0] + ws[1] /\ Sums(ws)[2] = Sums(ws)[1] + ws[2]
        /\ Sums(ws)[3] = Sums(ws)[2] + ws[3] /\ Sums(ws)[4] = Sums(ws)[3] + ws[4]
        /\ Sums(ws)[5] = Sums(ws)[4] + ws[5]
    BY <2>2
  <2> QED BY <2>1, <2>2, <2>3 DEF Sum, ws
<1> QED BY <1>1, <1>2, <1>3, <1>4

(* What the proofs use of a layout, and of the class it belongs to.        *)
Shape(l) ==
    /\ l.fields \in Seq(Width) /\ l.fields # <<>> /\ l.entry \in Seq(Width)
    /\ l.size \in {"exact", "logged", "list", "data"}
    /\ l.entry = <<>> <=> l.size \in {"exact", "logged"}
    /\ l.size = "list" => /\ Sum(l.entry) = 7 \/ Sum(l.entry) = 9
                          /\ \A k \in 1..Len(l.fields) : l.fields[k] = 1
    /\ l.size = "data" => l.fields = <<2>> /\ l.entry = <<1>>
    /\ l.order = "big" => l.size = "exact" /\ l.fields[1] = 1

Suits(c, l) ==
    /\ Shape(l)
    /\ c[1] = S2M => l.size = "exact" /\ l.fields[1] = 1
    /\ l.order = "big" <=> c = <<S2M, 17>>
    /\ c = <<M2S, 48>> => l.size = "logged" /\ l.fields[1] = 1

(* Every layout suits its class.                                           *)
LEMMA LayoutSuits ==
    ASSUME NEW c \in Classes
    PROVE  Suits(c, Layout[c])
<1>1. CASE c = <<M2S, 0>>
  BY <1>1, LayoutByClass, EntrySums DEF Suits, Shape, Width, M2S, S2M, B2M, M2B, S2B,
     M2S_SyncMsg, Unchecked, Message
<1>2. CASE c = <<M2S, 16>>
  BY <1>2, LayoutByClass, EntrySums DEF Suits, Shape, Width, M2S, S2M, B2M, M2B, S2B,
     M2S_CondCfgMsg, Message
<1>3. CASE c = <<M2S, 17>>
  BY <1>3, LayoutByClass, EntrySums DEF Suits, Shape, Width, M2S, S2M, B2M, M2B, S2B,
     M2S_ResCfgMsg, Message
<1>4. CASE c = <<M2S, 18>>
  BY <1>4, LayoutByClass, EntrySums DEF Suits, Shape, Width, M2S, S2M, B2M, M2B, S2B,
     M2S_ClipCfgMsg, Message
<1>5. CASE c = <<M2S, 32>>
  BY <1>5, LayoutByClass, EntrySums DEF Suits, Shape, Width, M2S, S2M, B2M, M2B, S2B,
     M2S_ReadCondDataMsg, Message
<1>6. CASE c = <<M2S, 33>>
  BY <1>6, LayoutByClass, EntrySums DEF Suits, Shape, Width, M2S, S2M, B2M, M2B, S2B,
     M2S_ReadResDataMsg, Message
<1>7. CASE c = <<M2S, 34>>
  BY <1>7, LayoutByClass, EntrySums DEF Suits, Shape, Width, M2S, S2M, B2M, M2B, S2B,
     M2S_ReadClipDataMsg, Message
<1>8. CASE c = <<M2S, 48>>
  BY <1>8, LayoutByClass, EntrySums DEF Suits, Shape, Width, M2S, S2M, B2M, M2B, S2B,
     M2S_RstMsg, Unchecked, Message
<1>9. CASE c = <<S2M, 16>>
  BY <1>9, LayoutByClass, EntrySums DEF Suits, Shape, Width, M2S, S2M, B2M, M2B, S2B,
     S2M_CondCfgMsg, Message
<1>10. CASE c = <<S2M, 17>>
  BY <1>10, LayoutByClass, EntrySums DEF Suits, Shape, Width, M2S, S2M, B2M, M2B, S2B,
     S2M_ResCfgMsg, Message, Swapped
<1>11. CASE c = <<S2M, 18>>
  BY <1>11, LayoutByClass, EntrySums DEF Suits, Shape, Width, M2S, S2M, B2M, M2B, S2B,
     S2M_ClipCfgMsg, Message
<1>12. CASE c = <<S2M, 48>>
  BY <1>12, LayoutByClass, EntrySums DEF Suits, Shape, Width, M2S, S2M, B2M, M2B, S2B,
     S2M_RstMsg, Message
<1>13. CASE c = <<B2M, 0>>
  BY <1>13, LayoutByClass, EntrySums DEF Suits, Shape, Width, M2S, S2M, B2M, M2B, S2B,
     B2M_SlaveCfgMsg, ListOf
<1>14. CASE c = <<B2M, 1>>
  BY <1>14, LayoutByClass, EntrySums DEF Suits, Shape, Width, M2S, S2M, B2M, M2B, S2B,
     B2M_ModeCfgMsg, Message
<1>15. CASE c = <<B2M, 2>>
  BY <1>15, LayoutByClass, EntrySums DEF Suits, Shape, Width, M2S, S2M, B2M, M2B, S2B,
     B2M_RstMsg, ListOf
<1>16. CASE c = <<B2M, 3>>
  BY <1>16, LayoutByClass, EntrySums DEF Suits, Shape, Width, M2S, S2M, B2M, M2B, S2B,
     B2M_CtrlMsg, Message
<1>17. CASE c = <<M2B, 0>>
  BY <1>17, LayoutByClass, EntrySums DEF Suits, Shape, Width, M2S, S2M, B2M, M2B, S2B,
     M2B_SlaveCfgMsg, ListOf
<1>18. CASE c = <<M2B, 1>>
  BY <1>18, LayoutByClass, EntrySums DEF Suits, Shape, Width, M2S, S2M, B2M, M2B, S2B,
     M2B_ModeCfgMsg, Message
<1>19. CASE c = <<M2B, 2>>
  BY <1>19, LayoutByClass, EntrySums DEF Suits, Shape, Width, M2S, S2M, B2M, M2B, S2B,
     M2B_RstMsg, ListOf
<1>20. CASE c = <<M2B, 3>>
  BY <1>20, LayoutByClass, EntrySums DEF Suits, Shape, Width, M2S, S2M, B2M, M2B, S2B,
     M2B_CtrlMsg, Message
<1>21. CASE c = <<S2B, 0>>
  BY <1>21, LayoutByClass, EntrySums DEF Suits, Shape, Width, M2S, S2M, B2M, M2B, S2B,
     S2B_CondDataMsg, Data
<1>22. CASE c = <<S2B, 1>>
  BY <1>22, LayoutByClass, EntrySums DEF Suits, Shape, Width, M2S, S2M, B2M, M2B, S2B,
     S2B_ResDataMsg, Data
<1>23. CASE c = <<S2B, 2>>
  BY <1>23, LayoutByClass, EntrySums DEF Suits, Shape, Width, M2S, S2M, B2M, M2B, S2B,
     S2B_ClipDataMsg, Message
<1> QED BY ClassByClass, <1>1, <1>2, <1>3, <1>4, <1>5, <1>6, <1>7, <1>8, <1>9, <1>10, <1>11, <1>12,
     <1>13, <1>14, <1>15, <1>16, <1>17, <1>18, <1>19, <1>20, <1>21, <1>22, <1>23

(***************************************************************************)
(* Payloads.                                                               *)
(***************************************************************************)

(* Entries are 1, 7 or 9 bytes wide; literal factors keep the arithmetic   *)
(* linear.                                                                 *)
EntryWidth == {1, 7, 9}

(* Entries of one width follow each other at its multiples.                *)
LEMMA Multiples ==
    ASSUME NEW w \in EntryWidth, NEW ns \in Seq(Nat), \A k \in 1..Len(ns) : ns[k] = w,
           NEW k \in 0..Len(ns)
    PROVE  Sums(ns)[k] = k * w
<1> DEFINE g == Sums(ns)
           T == {j \in 0..Len(ns) : ~(g[j] = j * w)}
<1>0. Len(ns) \in Nat /\ w \in Nat
  BY DEF EntryWidth
<1>1. /\ g[0] = 0 /\ \A j \in 1..Len(ns) : g[j] = g[j - 1] + ns[j]
  BY SumsStep
<1> HIDE DEF g
<1> SUFFICES ASSUME T # {} PROVE FALSE
  BY DEF g
<1>2. T \subseteq Nat
  BY <1>0
<1>3. PICK m \in T : \A j \in T : ~(j < m)
  <2> HIDE DEF T
  <2> QED BY <1>2, LeastNumber
<1>4. m \in 0..Len(ns) /\ ~(g[m] = m * w)
  BY <1>3
<1>5. m # 0
  BY <1>0, <1>1, <1>4
<1>6. m - 1 \in 0..Len(ns) /\ m - 1 < m /\ m \in 1..Len(ns) /\ m \in Nat
  BY <1>0, <1>4, <1>5
<1>7. g[m - 1] = (m - 1) * w
  BY <1>3, <1>6
<1>8. g[m] = (m - 1) * w + w
  BY <1>1, <1>6, <1>7
<1>9. \A x \in Nat : /\ (x - 1) * 1 + 1 = x * 1
                     /\ (x - 1) * 7 + 7 = x * 7
                     /\ (x - 1) * 9 + 9 = x * 9
  OBVIOUS
<1>10. w = 1 \/ w = 7 \/ w = 9
  BY DEF EntryWidth
<1> QED BY <1>4, <1>6, <1>8, <1>9, <1>10

(* Values that a message of class c may carry.                             *)
Proper(c, v) ==
    LET l == Layout[c]
    IN  /\ DOMAIN v.fields = DOMAIN l.fields
        /\ \A k \in DOMAIN l.fields : Fits(v.fields[k], l.fields[k])
        /\ v.entries \in Seq(Seq(Nat))
        /\ \A e \in DOMAIN v.entries :
               /\ DOMAIN v.entries[e] = DOMAIN l.entry
               /\ \A k \in DOMAIN l.entry : Fits(v.entries[e][k], l.entry[k])
        /\ Len(v.entries) = IF l.entry = <<>> THEN 0 ELSE v.fields[Len(l.fields)]

(* The entries, written one after another.                                 *)
Written(c, v) ==
    FlattenSeq([e \in DOMAIN v.entries |-> Encode(Layout[c].entry, v.entries[e], Layout[c].order)])

(* What the layout of a class gives.                                       *)
LEMMA LayoutFacts ==
    ASSUME NEW c \in Classes
    PROVE  LET l == Layout[c]
           IN  /\ l.fields \in Seq(Width) /\ Len(l.fields) \in Nat /\ Len(l.fields) > 0
               /\ DOMAIN l.fields = 1..Len(l.fields) /\ Sum(l.fields) \in Nat
               /\ l.entry \in Seq(Width) /\ DOMAIN l.entry = 1..Len(l.entry)
               /\ l.entry # <<>> => Sum(l.entry) \in EntryWidth
<1> DEFINE l == Layout[c]
<1>1. Shape(l)
  BY LayoutSuits DEF Suits
<1> HIDE DEF l
<1>2. l.fields \in Seq(Width) /\ l.fields # <<>> /\ l.entry \in Seq(Width)
  BY <1>1 DEF Shape
<1>3. Len(l.fields) \in Nat /\ Len(l.fields) > 0 /\ DOMAIN l.fields = 1..Len(l.fields)
  BY <1>2
<1>4. Sum(l.fields) \in Nat
  <2>1. l.fields \in Seq(Nat)
    BY <1>2, WidthsAreNumbers
  <2>2. Len(l.fields) \in 0..Len(l.fields)
    BY <1>3
  <2> QED BY <2>1, <2>2, SumsStep DEF Sum
<1>5. DOMAIN l.entry = 1..Len(l.entry)
  BY <1>2
<1>6. l.entry # <<>> => Sum(l.entry) \in EntryWidth
  <2>1. Sum(<<1>>) = 1
    BY EntrySums
  <2> QED BY <1>1, <2>1 DEF Shape, EntryWidth
<1> QED BY <1>2, <1>3, <1>4, <1>5, <1>6 DEF l

(* Products with the width of an entry.                                    *)
LEMMA Products ==
    ASSUME NEW w \in EntryWidth
    PROVE  /\ w \in Nat /\ w > 0
           /\ \A n \in Nat : /\ n * w \in Nat /\ (n * w) % w = 0 /\ (n * w) \div w = n
                             /\ (n > 0 => n * w = (n - 1) * w + w /\ (n - 1) * w \in Nat)
           /\ \A n \in Nat : \A e \in 1..n : (e - 1) * w \in Nat /\ (e - 1) * w + w <= n * w
<1>1. \A n \in Nat : /\ n * 1 = n /\ n % 1 = 0 /\ n \div 1 = n
                     /\ n * 7 \in Nat /\ (n * 7) % 7 = 0 /\ (n * 7) \div 7 = n /\ n * 7 = (n - 1) * 7 + 7
                     /\ n * 9 \in Nat /\ (n * 9) % 9 = 0 /\ (n * 9) \div 9 = n /\ n * 9 = (n - 1) * 9 + 9
  OBVIOUS
<1>2. \A n \in Nat : \A e \in 1..n : /\ e - 1 \in Nat /\ (e - 1) * 1 + 1 <= n * 1
                                     /\ (e - 1) * 7 \in Nat /\ (e - 1) * 7 + 7 <= n * 7
                                     /\ (e - 1) * 9 \in Nat /\ (e - 1) * 9 + 9 <= n * 9
  OBVIOUS
<1>3. w = 1 \/ w = 7 \/ w = 9
  BY DEF EntryWidth
<1>4. CASE w = 1
  BY <1>1, <1>2, <1>4
<1>5. CASE w = 7
  BY <1>1, <1>2, <1>5
<1>6. CASE w = 9
  BY <1>1, <1>2, <1>6
<1> QED BY <1>3, <1>4, <1>5, <1>6, Zenon

(* An entry, written.                                                      *)
Entry(c, v, e) == Encode(Layout[c].entry, v.entries[e], Layout[c].order)

LEMMA EntryBytes ==
    ASSUME NEW c \in Classes, NEW v, Proper(c, v), NEW e \in 1..Len(v.entries)
    PROVE  /\ Layout[c].entry # <<>>
           /\ Entry(c, v, e) \in Seq(Byte) /\ Len(Entry(c, v, e)) = Sum(Layout[c].entry)
           /\ DOMAIN v.entries[e] = DOMAIN Layout[c].entry
           /\ \A k \in 1..Len(Layout[c].entry) : Fits(v.entries[e][k], Layout[c].entry[k])
<1> DEFINE ws == Layout[c].entry
           vs == v.entries[e]
<1>1. ws \in Seq(Width) /\ DOMAIN ws = 1..Len(ws)
  BY LayoutFacts
<1>2. v.entries \in Seq(Seq(Nat)) /\ (ws = <<>> => Len(v.entries) = 0)
  BY Zenon DEF Proper
<1>3. DOMAIN vs = DOMAIN ws /\ \A k \in DOMAIN ws : Fits(vs[k], ws[k])
  <2>1. e \in DOMAIN v.entries
    BY <1>2
  <2> QED BY <2>1, Zenon DEF Proper
<1>4. ws # <<>>
  BY <1>2
<1> HIDE DEF ws, vs
<1>5. /\ Encode(ws, vs, Layout[c].order) \in Seq(Byte)
      /\ Len(Encode(ws, vs, Layout[c].order)) = Sum(ws)
  BY <1>1, <1>3, Encoding, Zenon
<1> QED BY <1>1, <1>3, <1>4, <1>5, Zenon DEF Entry, ws, vs

(* The list, written.                                                      *)
LEMMA WrittenBytes ==
    ASSUME NEW c \in Classes, NEW v, Proper(c, v)
    PROVE  LET n == Len(v.entries)
               w == Sum(Layout[c].entry)
           IN  /\ Written(c, v) \in Seq(Byte)
               /\ n = 0 => Len(Written(c, v)) = 0
               /\ n > 0 => w \in EntryWidth /\ Len(Written(c, v)) = n * w
               /\ \A e \in 1..n : \A i \in 1..w : Written(c, v)[(e - 1) * w + i] = Entry(c, v, e)[i]
<1> DEFINE n == Len(v.entries)
           w == Sum(Layout[c].entry)
           ss == [e \in DOMAIN v.entries |-> Entry(c, v, e)]
<1>1. n \in Nat /\ DOMAIN v.entries = 1..n
  <2>1. v.entries \in Seq(Seq(Nat))
    BY Zenon DEF Proper
  <2> QED BY <2>1
<1>2. Written(c, v) = FlattenSeq(ss)
  BY Zenon DEF Written, Entry
<1>3. ss = [e \in 1..n |-> Entry(c, v, e)]
  BY <1>1
<1>4. \A e \in 1..n : Entry(c, v, e) \in Seq(Byte) /\ Len(Entry(c, v, e)) = w
  BY EntryBytes, Zenon
<1>5. n > 0 => w \in EntryWidth
  <2>1. SUFFICES ASSUME n > 0 PROVE w \in EntryWidth
    OBVIOUS
  <2>2. 1 \in 1..n
    BY <1>1, <2>1
  <2>3. Layout[c].entry # <<>>
    BY <2>2, EntryBytes, Zenon
  <2> QED BY <2>3, LayoutFacts
<1> HIDE DEF ss, n, w
<1>6. ss \in Seq(Seq(Byte)) /\ Len(ss) = n /\ \A e \in 1..n : ss[e] = Entry(c, v, e)
  BY <1>1, <1>3, <1>4
<1>7. \A e \in 1..n : Sizes(ss)[e] = w
  BY <1>4, <1>6 DEF Sizes
<1>8. /\ FlattenSeq(ss) \in Seq(Byte)
      /\ Sizes(ss) \in Seq(Nat) /\ Len(Sizes(ss)) = n
      /\ Len(FlattenSeq(ss)) = Sum(Sizes(ss))
      /\ \A e \in 1..n : \A i \in 1..Len(ss[e]) : FlattenSeq(ss)[Sums(Sizes(ss))[e - 1] + i] = ss[e][i]
  BY <1>6, Concatenation
<1>9. CASE n = 0
  <2>1. Sum(Sizes(ss)) = 0
    BY <1>8, <1>9, SumsStep DEF Sum
  <2> QED BY <1>2, <1>8, <1>9, <2>1 DEF n, w
<1>10. CASE n > 0
  <2>1. \A e \in 0..n : Sums(Sizes(ss))[e] = e * w
    <3>1. w \in EntryWidth
      BY <1>5, <1>10
    <3> QED BY <1>7, <1>8, <3>1, Multiples
  <2>2. Len(Written(c, v)) = n * w
    <3>1. n \in 0..n
      BY <1>1
    <3> QED BY <1>2, <1>8, <2>1, <3>1, Zenon DEF Sum
  <2>3. ASSUME NEW e \in 1..n, NEW i \in 1..w
        PROVE  Written(c, v)[(e - 1) * w + i] = Entry(c, v, e)[i]
    <3>1. e - 1 \in 0..n
      BY <1>1
    <3>2. i \in 1..Len(ss[e]) /\ ss[e] = Entry(c, v, e)
      BY <1>4, <1>6
    <3> QED BY <1>2, <1>8, <2>1, <3>1, <3>2, Zenon
  <2>4. n # 0
    BY <1>10
  <2> QED BY <1>2, <1>5, <1>8, <1>10, <2>2, <2>3, <2>4, Zenon DEF n, w
<1> QED BY <1>1, <1>9, <1>10

(* A payload: the bytes of the fields, then those of the list.             *)
LEMMA PayloadBytes ==
    ASSUME NEW c \in Classes, NEW v, Proper(c, v)
    PROVE  LET l == Layout[c]
               h == Sum(l.fields)
               f == Encode(l.fields, v.fields, l.order)
               P == Payload(c, v)
           IN  /\ f \in Seq(Byte) /\ Len(f) = h /\ h \in Nat
               /\ P \in Seq(Byte) /\ Len(P) = h + Len(Written(c, v))
               /\ \A i \in 1..h : P[i] = f[i]
               /\ \A i \in 1..Len(Written(c, v)) : P[h + i] = Written(c, v)[i]
<1> DEFINE l == Layout[c]
           h == Sum(l.fields)
           f == Encode(l.fields, v.fields, l.order)
           g == Written(c, v)
<1>1. f \in Seq(Byte) /\ Len(f) = h
  <2>1. l.fields \in Seq(Width) /\ DOMAIN l.fields = 1..Len(l.fields)
    BY LayoutFacts
  <2>2. \A k \in DOMAIN l.fields : Fits(v.fields[k], l.fields[k])
    BY Zenon DEF Proper
  <2> QED BY <2>1, <2>2, Encoding, Zenon
<1>2. h \in Nat
  BY LayoutFacts
<1>3. g \in Seq(Byte)
  BY WrittenBytes, Zenon
<1>4. Payload(c, v) = f \o g
  BY Zenon DEF Payload, Written
<1> HIDE DEF f, g, h
<1>5. f \o g \in Seq(Byte) /\ Len(f \o g) = Len(f) + Len(g)
  BY <1>1, <1>3
<1>6. \A i \in 1..h : (f \o g)[i] = f[i]
  BY <1>1, <1>3
<1>7. \A i \in 1..Len(g) : (f \o g)[h + i] = g[i]
  BY <1>1, <1>2, <1>3
<1> QED BY <1>1, <1>2, <1>4, <1>5, <1>6, <1>7, Zenon DEF f, g, h

(* The value a receiver reads for a field.                                 *)
Received(c, v, k) == Number(Field(v.fields[k], Layout[c].fields[k], Layout[c].order))

(* The bytes of a field lie between those of the first and the last.       *)
LEMMA Places ==
    ASSUME NEW ws \in Seq(Width), NEW k \in 1..Len(ws)
    PROVE  \A i \in 1..ws[k] : Sums(ws)[k - 1] + i \in 1..Sum(ws)
<1>1. ws \in Seq(Nat) /\ Len(ws) \in Nat /\ ws[k] \in Nat
  BY WidthsAreNumbers
<1>2. k - 1 \in 0..Len(ws) /\ k \in 0..Len(ws) /\ Len(ws) \in k..Len(ws) /\ Len(ws) \in 0..Len(ws)
  BY <1>1
<1>3. Sums(ws)[k] = Sums(ws)[k - 1] + ws[k]
  BY <1>1, SumsStep
<1>4. Sums(ws)[k - 1] \in Nat /\ Sums(ws)[k] \in Nat /\ Sum(ws) \in Nat
  BY <1>1, <1>2, SumsStep DEF Sum
<1>5. Sums(ws)[k] <= Sum(ws)
  BY <1>1, <1>2, SumsAscend DEF Sum
<1>6. \A a, e, d, w \in Nat : e = a + w /\ e <= d => \A i \in 1..w : a + i \in 1..d
  OBVIOUS
<1> QED BY <1>1, <1>3, <1>4, <1>5, <1>6, Zenon

(* Fields whose bytes all stand in their places are read.                  *)
LEMMA FieldsArrive ==
    ASSUME NEW c \in Classes, NEW v, Proper(c, v), NEW p \in Seq(Byte),
           Sum(Layout[c].fields) <= Len(p),
           \A i \in 1..Sum(Layout[c].fields) : p[i] = Payload(c, v)[i],
           NEW k \in 1..Len(Layout[c].fields)
    PROVE  Decode(Layout[c].fields, p)[k] = Received(c, v, k)
<1> DEFINE l == Layout[c]
           ws == l.fields
           h == Sum(ws)
           f == Encode(ws, v.fields, l.order)
           b == Field(v.fields[k], ws[k], l.order)
<1>1. ws \in Seq(Width) /\ DOMAIN ws = 1..Len(ws) /\ ws \in Seq(Nat) /\ ws[k] \in Width /\ Len(ws) \in Nat
  BY LayoutFacts, WidthsAreNumbers
<1>2. \A j \in 1..Len(ws) : Fits(v.fields[j], ws[j])
  BY <1>1, Zenon DEF Proper
<1>3. \A i \in 1..h : Payload(c, v)[i] = f[i]
  BY PayloadBytes, Zenon
<1>4. b \in Seq(Byte) /\ Len(b) = ws[k]
  BY <1>1, <1>2, FieldBytes, Zenon
<1>5. \A i \in 1..ws[k] : f[Sums(ws)[k - 1] + i] = b[i]
  <2>1. k \in 1..Len(ws)
    OBVIOUS
  <2> HIDE DEF ws, l
  <2> DEFINE vs == v.fields
             o == l.order
  <2>2. ws \in Seq(Width) /\ \A j \in 1..Len(ws) : Fits(vs[j], ws[j])
    BY <1>1, <1>2
  <2> HIDE DEF vs, o
  <2>3. \A j \in 1..Len(ws) : \A i \in 1..ws[j] :
            Encode(ws, vs, o)[Sums(ws)[j - 1] + i] = Field(vs[j], ws[j], o)[i]
    BY <2>2, Encoding
  <2> QED BY <2>1, <2>3, Zenon DEF vs, o
<1>6. \A i \in 1..ws[k] : Sums(ws)[k - 1] + i \in 1..h
  BY <1>1, Places
<1> HIDE DEF f, b
<1>7. \A i \in 1..ws[k] : p[Sums(ws)[k - 1] + i] = b[i]
  BY <1>3, <1>5, <1>6, Zenon
<1> HIDE DEF ws, h, l
<1>8. Sum(ws) <= Len(p)
  BY Zenon DEF ws, l
<1> QED BY <1>1, <1>4, <1>7, <1>8, DecodedField, Zenon DEF Received, b, ws, l

(* What is received is what was sent, but for the swapped answer.          *)
LEMMA ReceivedAsSent ==
    ASSUME NEW c \in Classes, NEW v, Proper(c, v), NEW k \in 1..Len(Layout[c].fields)
    PROVE  /\ Layout[c].order # "big" \/ Layout[c].fields[k] = 1 => Received(c, v, k) = v.fields[k]
           /\ Layout[c].order = "big" =>
                 Received(c, v, k) = Number(Reverse(Bytes(v.fields[k], Layout[c].fields[k])))
           /\ Layout[c].order = "big" <=> c = <<S2M, 17>>
<1> DEFINE l == Layout[c]
           w == l.fields[k]
           x == v.fields[k]
<1>1. w \in Width /\ Fits(x, w)
  <2>1. l.fields \in Seq(Width) /\ k \in DOMAIN l.fields
    BY LayoutFacts
  <2>2. \A j \in DOMAIN l.fields : Fits(v.fields[j], l.fields[j])
    BY Zenon DEF Proper
  <2> QED BY <2>1, <2>2
<1>2. l.order = "big" <=> c = <<S2M, 17>>
  BY LayoutSuits DEF Suits
<1> HIDE DEF l
<1>3. l.order # "big" \/ w = 1 => Number(Field(x, w, l.order)) = x
  <2> DEFINE o == l.order
  <2> HIDE DEF w, x, o
  <2>1. o # "big" \/ w = 1 => Number(Field(x, w, o)) = x
    BY <1>1, FieldBytes, Zenon
  <2> QED BY <2>1, Zenon DEF o, w
<1>4. l.order = "big" => Field(x, w, l.order) = Reverse(Bytes(x, w))
  BY Zenon DEF Field
<1> HIDE DEF w, x
<1>5. Received(c, v, k) = Number(Field(x, w, l.order))
  BY Zenon DEF Received, l, w, x
<1> QED BY <1>2, <1>3, <1>4, <1>5, Zenon DEF l, w, x

(* The bytes of a payload of some class are as many as its fields and its  *)
(* list have.                                                              *)
LEMMA PayloadLength ==
    ASSUME NEW c \in Classes, NEW v, Proper(c, v)
    PROVE  LET P == Payload(c, v)
               l == Layout[c]
               n == Len(v.entries)
           IN  /\ P \in Seq(Byte) /\ Len(P) \in Nat /\ Sum(l.fields) \in Nat /\ n \in Nat
               /\ Sum(l.fields) <= Len(P)
               /\ l.entry = <<>> => n = 0 /\ Len(P) = Sum(l.fields)
               /\ l.entry # <<>> => /\ Sum(l.entry) \in EntryWidth
                                    /\ n * Sum(l.entry) \in Nat
                                    /\ Len(P) = Sum(l.fields) + n * Sum(l.entry)
<1> DEFINE P == Payload(c, v)
           l == Layout[c]
           n == Len(v.entries)
           w == Sum(l.entry)
<1>1. P \in Seq(Byte) /\ Sum(l.fields) \in Nat /\ Len(P) = Sum(l.fields) + Len(Written(c, v))
  BY PayloadBytes, Zenon
<1>2. n \in Nat /\ (l.entry = <<>> => n = 0)
  <2>1. v.entries \in Seq(Seq(Nat)) /\ (l.entry = <<>> => n = 0)
    BY Zenon DEF Proper
  <2> QED BY <2>1
<1>3. l.entry # <<>> => w \in EntryWidth
  BY LayoutFacts
<1>4. n = 0 => Len(Written(c, v)) = 0
  BY WrittenBytes, Zenon
<1>5. n > 0 => Len(Written(c, v)) = n * w
  BY WrittenBytes, Zenon
<1>6. w \in EntryWidth => n * w \in Nat
  BY <1>2, Products
<1>7. n = 0 /\ w \in EntryWidth => n * w = 0
  BY Products
<1> HIDE DEF P, l, n, w
<1>8. Len(Written(c, v)) \in Nat
  <2>1. n = 0 \/ n > 0
    BY <1>2
  <2>2. n > 0 => l.entry # <<>>
    BY <1>2
  <2> QED BY <1>3, <1>4, <1>5, <1>6, <2>1, <2>2
<1>9. l.entry # <<>> => Len(P) = Sum(l.fields) + n * w
  <2>1. n = 0 \/ n > 0
    BY <1>2
  <2> QED BY <1>1, <1>3, <1>4, <1>5, <1>7, <2>1
<1>10. Len(P) \in Nat /\ Sum(l.fields) <= Len(P)
  BY <1>1, <1>8
<1>11. l.entry = <<>> => Len(P) = Sum(l.fields)
  BY <1>1, <1>2, <1>4
<1> QED BY <1>1, <1>2, <1>3, <1>6, <1>9, <1>10, <1>11, Zenon DEF P, l, n, w

(* The receiver counts as many entries as the sender wrote.                *)
LEMMA CountArrives ==
    ASSUME NEW c \in Classes, NEW v, Proper(c, v), Layout[c].entry # <<>>
    PROVE  /\ Count(c, Payload(c, v)) = Len(v.entries)
           /\ v.fields[Len(Layout[c].fields)] = Len(v.entries)
           /\ Received(c, v, Len(Layout[c].fields)) = Len(v.entries)
<1> DEFINE P == Payload(c, v)
           l == Layout[c]
           ws == l.fields
           L == Len(ws)
           n == Len(v.entries)
<1>1. Shape(l)
  BY LayoutSuits DEF Suits
<1>2. v.fields[L] = n
  BY Zenon DEF Proper
<1>3. ws \in Seq(Width) /\ L \in Nat /\ L > 0 /\ L \in 1..L /\ Sum(ws) \in Nat
  BY LayoutFacts
<1>4. l.order # "big"
  BY <1>1 DEF Shape
<1>5. Received(c, v, L) = n
  <2>1. L \in 1..L
    BY <1>3
  <2>2. Received(c, v, L) = v.fields[L]
    BY <1>4, <2>1, ReceivedAsSent, Zenon
  <2> QED BY <1>2, <2>2, Zenon
<1>6. l.size = "list" \/ l.size = "data"
  BY <1>1 DEF Shape
<1>7. CASE l.size = "list"
  <2>1. \A k \in 1..L : ws[k] = 1
    BY <1>1, <1>7 DEF Shape
  <2>2. ws \in Seq(Nat)
    BY <1>3, WidthsAreNumbers
  <2>3. \A k \in 0..L : Sums(ws)[k] = k
    <3>1. 1 \in EntryWidth
      BY DEF EntryWidth
    <3>2. \A k \in 0..L : Sums(ws)[k] = k * 1
      BY <2>1, <2>2, <3>1, Multiples
    <3> QED BY <3>2
  <2>4. Sum(ws) = L /\ Sums(ws)[L - 1] = L - 1
    <3>1. L \in 0..L /\ L - 1 \in 0..L
      BY <1>3
    <3> QED BY <2>3, <3>1, Zenon DEF Sum
  <2>5. Fits(v.fields[L], 1) /\ 1 \in Width
    <3>1. L \in DOMAIN ws
      BY <1>3
    <3>2. Fits(v.fields[L], ws[L])
      BY <3>1, Zenon DEF Proper
    <3> QED BY <1>3, <2>1, <3>2 DEF Width
  <2>6. Field(n, 1, l.order)[1] = n
    <3> DEFINE o == l.order
               b == Field(n, 1, o)
    <3>1. Fits(n, 1)
      BY <1>2, <2>5, Zenon
    <3> HIDE DEF n, o
    <3>2. b \in Seq(Byte) /\ Len(b) = 1 /\ Number(b) = n
      BY <2>5, <3>1, FieldBytes, Zenon
    <3> HIDE DEF b
    <3>3. Number(b) = b[1]
      BY <2>5, <3>2, NumberOfBytes
    <3> QED BY <3>2, <3>3, Zenon DEF b, o
  <2>7. P[L] = Encode(ws, v.fields, l.order)[L]
    <3>1. L \in 1..Sum(ws)
      BY <1>3, <2>4
    <3> QED BY <3>1, PayloadBytes, Zenon
  <2>8. Encode(ws, v.fields, l.order)[L] = Field(v.fields[L], 1, l.order)[1]
    <3> DEFINE vs == v.fields
               o == l.order
    <3>1. \A k \in 1..Len(ws) : Fits(vs[k], ws[k])
      <4>1. DOMAIN ws = 1..Len(ws)
        BY LayoutFacts
      <4> QED BY <4>1, Zenon DEF Proper
    <3>2. ws \in Seq(Width) /\ L \in 1..Len(ws) /\ 1 \in 1..ws[L] /\ ws[L] = 1
      BY <1>3, <2>1
    <3> HIDE DEF vs, o, ws
    <3>3. Encode(ws, vs, o)[Sums(ws)[L - 1] + 1] = Field(vs[L], ws[L], o)[1]
      BY <3>1, <3>2, Encoding, SMTT(20)
    <3>4. Sums(ws)[L - 1] + 1 = L
      BY <1>3, <2>4
    <3> QED BY <3>2, <3>3, <3>4, Zenon DEF vs, o, ws
  <2>9. P[L] = n
    BY <1>2, <2>6, <2>7, <2>8, Zenon
  <2> QED BY <1>2, <1>5, <1>7, <2>9, Zenon DEF Count
<1>8. CASE l.size = "data"
  <2>1. l.entry = <<1>>
    BY <1>1, <1>8 DEF Shape
  <2>2. Sum(l.entry) = 1
    BY <2>1, EntrySums
  <2>3. Len(P) = Sum(ws) + n * Sum(l.entry) /\ n \in Nat
    BY PayloadLength, Zenon
  <2>4. Len(P) - Sum(ws) = n
    <3> HIDE DEF P, n
    <3> QED BY <1>3, <2>2, <2>3
  <2>5. Count(c, P) = Len(P) - Sum(ws)
    BY <1>8 DEF Count
  <2> QED BY <1>2, <1>5, <2>4, <2>5, Zenon
<1> QED BY <1>6, <1>7, <1>8, Zenon

(* The bytes of an entry in the payload.                                   *)
LEMMA EntryInPayload ==
    ASSUME NEW c \in Classes, NEW v, Proper(c, v), NEW e \in 1..Len(v.entries)
    PROVE  LET P == Payload(c, v)
               h == Sum(Layout[c].fields)
               w == Sum(Layout[c].entry)
               b == SubSeq(P, h + (e - 1) * w + 1, h + e * w)
           IN  b \in Seq(Byte) /\ Len(b) = w /\ \A i \in 1..w : b[i] = Entry(c, v, e)[i]
<1> DEFINE P == Payload(c, v)
           l == Layout[c]
           h == Sum(l.fields)
           w == Sum(l.entry)
           n == Len(v.entries)
           g == Written(c, v)
           a == (e - 1) * w
<1>1. l.entry # <<>>
  BY EntryBytes, Zenon
<1>2. /\ P \in Seq(Byte) /\ Len(P) \in Nat /\ h \in Nat /\ n \in Nat
      /\ w \in EntryWidth /\ Len(P) = h + n * w
  BY <1>1, PayloadLength, Zenon
<1>3. e \in 1..n /\ e \in Nat /\ e > 0 /\ n > 0
  BY <1>2
<1>4. w \in Nat /\ n * w \in Nat /\ e * w = a + w /\ a \in Nat /\ a + w <= n * w
  <2>1. w \in Nat /\ n * w \in Nat /\ e * w = a + w /\ a \in Nat
    <3> HIDE DEF n, w
    <3> QED BY <1>2, <1>3, Products, Zenon
  <2>2. (e - 1) * w + w <= n * w
    <3> HIDE DEF n, w
    <3> QED BY <1>2, <1>3, Products, Zenon
  <2> QED BY <2>1, <2>2, Zenon
<1>5. Len(g) = n * w /\ \A i \in 1..w : g[a + i] = Entry(c, v, e)[i]
  <2>1. n > 0 => Len(g) = n * w
    BY WrittenBytes, Zenon
  <2>2. \A f \in 1..n : \A i \in 1..w : g[(f - 1) * w + i] = Entry(c, v, f)[i]
    BY WrittenBytes, ZenonT(30)
  <2> QED BY <1>3, <2>1, <2>2, Zenon
<1>6. \A i \in 1..Len(g) : P[h + i] = g[i]
  BY PayloadBytes, Zenon
<1> HIDE DEF P, h, w, n, g, a
<1> DEFINE d == h + a
           b == SubSeq(P, d + 1, d + w)
<1>7. d \in Nat /\ d + w <= Len(P) /\ h + e * w = d + w /\ h + (e - 1) * w = d
  BY <1>2, <1>4 DEF a
<1> HIDE DEF d
<1>8. b \in Seq(Byte) /\ Len(b) = w /\ \A i \in 1..w : b[i] = P[d + i]
  <2>1. P \in Seq(Byte) /\ d \in Nat /\ w \in Nat /\ d + w <= Len(P)
    BY <1>2, <1>4, <1>7
  <2> QED BY <2>1, Slice, Zenon
<1>9. \A i \in 1..w : a + i \in 1..Len(g) /\ d + i = h + (a + i)
  <2>1. h \in Nat /\ a \in Nat /\ w \in Nat /\ a + w <= Len(g) /\ Len(g) \in Nat /\ d = h + a
    BY <1>2, <1>4, <1>5 DEF d
  <2> QED BY <2>1
<1> HIDE DEF b
<1>10. \A i \in 1..w : b[i] = Entry(c, v, e)[i]
  BY <1>5, <1>6, <1>8, <1>9, Zenon
<1>11. b = SubSeq(P, h + (e - 1) * w + 1, h + e * w)
  BY <1>7, Zenon DEF b
<1> QED BY <1>8, <1>10, <1>11, Zenon DEF P, h, w

(* An entry is read as it was written.                                     *)
LEMMA EntryArrives ==
    ASSUME NEW c \in Classes, NEW v, Proper(c, v), NEW e \in 1..Len(v.entries)
    PROVE  LET P == Payload(c, v)
               h == Sum(Layout[c].fields)
               w == Sum(Layout[c].entry)
           IN  Decode(Layout[c].entry, SubSeq(P, h + (e - 1) * w + 1, h + e * w)) = v.entries[e]
<1> DEFINE ws == Layout[c].entry
           vs == v.entries[e]
           o == Layout[c].order
           p == SubSeq(Payload(c, v), Sum(Layout[c].fields) + (e - 1) * Sum(ws) + 1,
                       Sum(Layout[c].fields) + e * Sum(ws))
<1>1. ws \in Seq(Width) /\ DOMAIN ws = 1..Len(ws)
  BY LayoutFacts
<1>2. DOMAIN vs = DOMAIN ws /\ \A k \in 1..Len(ws) : Fits(vs[k], ws[k])
  BY EntryBytes, Zenon
<1>3. p \in Seq(Byte) /\ Len(p) = Sum(ws) /\ \A i \in 1..Sum(ws) : p[i] = Encode(ws, vs, o)[i]
  <2>1. p \in Seq(Byte) /\ Len(p) = Sum(ws) /\ \A i \in 1..Sum(ws) : p[i] = Entry(c, v, e)[i]
    BY EntryInPayload, Zenon
  <2>2. Entry(c, v, e) = Encode(ws, vs, o)
    BY Zenon DEF Entry
  <2> QED BY <2>1, <2>2, Zenon
<1>4. o # "big"
  <2>1. ws # <<>>
    BY EntryBytes, Zenon
  <2>2. Shape(Layout[c])
    BY LayoutSuits DEF Suits
  <2> QED BY <2>1, <2>2 DEF Shape
<1>5. vs = [k \in DOMAIN vs |-> vs[k]]
  <2>1. vs \in Seq(Nat)
    <3>1. v.entries \in Seq(Seq(Nat))
      BY Zenon DEF Proper
    <3> QED BY <3>1
  <2> QED BY <2>1
<1> HIDE DEF ws, vs, o, p
<1>6. /\ Len(Encode(ws, vs, o)) = Sum(ws) /\ Sum(ws) \in Nat
      /\ \A k \in 1..Len(ws) : \A i \in 1..ws[k] :
            Encode(ws, vs, o)[Sums(ws)[k - 1] + i] = Field(vs[k], ws[k], o)[i]
  <2>1. ws \in Seq(Nat) /\ Len(ws) \in Nat
    BY <1>1, WidthsAreNumbers
  <2>2. Sum(ws) \in Nat
    <3>1. Len(ws) \in 0..Len(ws)
      BY <2>1
    <3> QED BY <2>1, <3>1, SumsStep DEF Sum
  <2> QED BY <1>1, <1>2, <2>1, <2>2, Encoding
<1>7. ASSUME NEW k \in 1..Len(ws) PROVE Decode(ws, p)[k] = vs[k]
  <2> DEFINE b == Field(vs[k], ws[k], o)
  <2>1. ws[k] \in Width /\ Fits(vs[k], ws[k])
    BY <1>1, <1>2, WidthsAreNumbers
  <2>2. b \in Seq(Byte) /\ Len(b) = ws[k] /\ Number(b) = vs[k]
    BY <1>4, <2>1, FieldBytes, Zenon
  <2>3. \A i \in 1..ws[k] : Sums(ws)[k - 1] + i \in 1..Sum(ws)
    BY <1>1, Places
  <2> HIDE DEF b
  <2>4. \A i \in 1..ws[k] : p[Sums(ws)[k - 1] + i] = b[i]
    BY <1>3, <1>6, <2>3, Zenon DEF b
  <2>5. Sum(ws) <= Len(p)
    BY <1>3, <1>6
  <2> QED BY <1>1, <1>3, <2>2, <2>4, <2>5, DecodedField, Zenon
<1>8. Decode(ws, p) = [k \in DOMAIN ws |-> Decode(ws, p)[k]]
  BY DEF Decode
<1>9. Decode(ws, p) = vs
  BY <1>1, <1>2, <1>5, <1>7, <1>8
<1> QED BY <1>9, Zenon DEF ws, vs, p

(* The list arrives.                                                       *)
LEMMA EntriesArrive ==
    ASSUME NEW c \in Classes, NEW v, Proper(c, v)
    PROVE  Entries(c, Payload(c, v)) = v.entries
<1> DEFINE P == Payload(c, v)
           l == Layout[c]
           h == Sum(l.fields)
           w == Sum(l.entry)
           N == Len(v.entries)
           q == (Len(P) - h) \div w
           n == IF l.entry = <<>> THEN 0 ELSE IF Count(c, P) < q THEN Count(c, P) ELSE q
           d == [e \in 1..n |-> Decode(l.entry, SubSeq(P, h + (e - 1) * w + 1, h + e * w))]
<1>1. Entries(c, P) = d
  BY Zenon DEF Entries
<1>2. /\ Len(P) \in Nat /\ h \in Nat /\ N \in Nat
      /\ l.entry = <<>> => N = 0
      /\ l.entry # <<>> => w \in EntryWidth /\ Len(P) = h + N * w
  BY PayloadLength, Zenon
<1>3. n = N
  <2>1. CASE l.entry = <<>>
    BY <1>2, <2>1
  <2>2. CASE l.entry # <<>>
    <3>1. Count(c, P) = N
      BY <2>2, CountArrives, Zenon
    <3>2. N * w \in Nat /\ (N * w) \div w = N
      <4> HIDE DEF w, N
      <4> QED BY <1>2, <2>2, Products, Zenon
    <3>3. Len(P) - h = N * w
      <4> HIDE DEF P, h, w, N, l
      <4> QED BY <1>2, <2>2, <3>2
    <3> QED BY <2>2, <3>1, <3>2, <3>3
  <2> QED BY <2>1, <2>2
<1>4. \A e \in 1..N : Decode(l.entry, SubSeq(P, h + (e - 1) * w + 1, h + e * w)) = v.entries[e]
  BY EntryArrives, Zenon
<1>5. v.entries = [e \in 1..N |-> v.entries[e]]
  <2>1. v.entries \in Seq(Seq(Nat))
    BY Zenon DEF Proper
  <2> QED BY <2>1
<1> HIDE DEF P, h, w, N, n
<1>6. d = v.entries
  BY <1>3, <1>4, <1>5
<1> QED BY <1>1, <1>6, Zenon DEF P

(* The size of a payload as written is the one that is checked.            *)
LEMMA SizeArrives ==
    ASSUME NEW c \in Classes, NEW v, Proper(c, v)
    PROVE  SizeFits(c, Payload(c, v))
<1> DEFINE P == Payload(c, v)
           l == Layout[c]
           h == Sum(l.fields)
           w == Sum(l.entry)
           N == Len(v.entries)
<1>1. Shape(l)
  BY LayoutSuits DEF Suits
<1>2. /\ P \in Seq(Byte) /\ Len(P) \in Nat /\ h \in Nat /\ N \in Nat /\ h <= Len(P)
      /\ l.entry = <<>> => Len(P) = h
      /\ l.entry # <<>> => w \in EntryWidth /\ Len(P) = h + N * w
  BY PayloadLength, Zenon
<1>3. CASE l.size = "exact"
  <2>1. l.entry = <<>>
    BY <1>1, <1>3 DEF Shape
  <2> QED BY <1>2, <1>3, <2>1 DEF SizeFits
<1>4. CASE l.size = "logged"
  BY <1>4 DEF SizeFits
<1>5. CASE l.size = "list"
  <2>1. l.entry # <<>>
    BY <1>1, <1>5 DEF Shape
  <2>2. N * w \in Nat /\ (N * w) % w = 0
    <3> HIDE DEF w, N
    <3> QED BY <1>2, <2>1, Products, Zenon
  <2>3. Len(P) - h = N * w
    <3> HIDE DEF P, h, w, N, l
    <3> QED BY <1>2, <2>1, <2>2
  <2> HIDE DEF P
  <2> QED BY <1>2, <1>5, <2>2, <2>3 DEF SizeFits, P
<1>6. CASE l.size = "data"
  <2>1. l.fields = <<2>> /\ l.entry = <<1>>
    BY <1>1, <1>6 DEF Shape
  <2>2. h = 2 /\ w = 1
    BY <2>1, EntrySums
  <2>3. Len(P) = 2 + N
    <3>1. Len(P) = h + N * w
      BY <1>2, <2>1
    <3> HIDE DEF P, N
    <3> QED BY <1>2, <2>2, <3>1
  <2>4. Number(SubSeq(P, 1, 2)) = N
    <3>1. Decode(l.fields, P)[1] = Number(SubSeq(P, Sums(<<2>>)[0] + 1, Sums(<<2>>)[1]))
      BY <2>1 DEF Decode
    <3>2. Sums(<<2>>)[0] + 1 = 1 /\ Sums(<<2>>)[1] = 2
      <4>1. <<2>> \in Seq(Nat) /\ Len(<<2>>) = 1
        OBVIOUS
      <4>2. Sums(<<2>>)[1] = Sum(<<2>>)
        BY <4>1 DEF Sum
      <4>3. Sums(<<2>>)[0] = 0
        BY <4>1, SumsStep
      <4> QED BY <2>1, <2>2, <4>2, <4>3
    <3>3. Decode(l.fields, P)[1] = Received(c, v, 1)
      <4>1. 1 \in 1..Len(l.fields)
        BY <2>1
      <4> QED BY <1>2, <4>1, FieldsArrive, Zenon
    <3>4. Received(c, v, 1) = N
      <4>1. Len(l.fields) = 1 /\ l.entry # <<>>
        BY <2>1
      <4>2. Received(c, v, Len(l.fields)) = N
        BY <4>1, CountArrives, Zenon
      <4> QED BY <4>1, <4>2, Zenon
    <3> QED BY <3>1, <3>2, <3>3, <3>4, Zenon
  <2>5. Len(P) >= 2
    <3> HIDE DEF P, N
    <3> QED BY <1>2, <2>3
  <2> QED BY <1>6, <2>3, <2>4, <2>5 DEF SizeFits
<1>7. l.size \in {"exact", "logged", "list", "data"}
  BY <1>1, Zenon DEF Shape
<1> QED BY <1>3, <1>4, <1>5, <1>6, <1>7

(***************************************************************************)
(* Reading payloads.                                                       *)
(***************************************************************************)

(* Bytes of a payload, made up where it is too short.                      *)
Padded(p, h, junk) == [i \in 1..h |-> IF i <= Len(p) THEN p[i] ELSE junk]

LEMMA Padding ==
    ASSUME NEW p \in Seq(Byte), NEW h \in Nat, NEW junk \in Byte
    PROVE  /\ Padded(p, h, junk) \in Seq(Byte) /\ Len(Padded(p, h, junk)) = h
           /\ \A i \in 1..h : i <= Len(p) => Padded(p, h, junk)[i] = p[i]
<1>1. \A i \in 1..h : i <= Len(p) => p[i] \in Byte
  OBVIOUS
<1> DEFINE d == Padded(p, h, junk)
<1>2. d = [i \in 1..h |-> IF i <= Len(p) THEN p[i] ELSE junk]
  BY Zenon DEF Padded
<1> HIDE DEF d
<1>3. \A i \in 1..h : d[i] \in Byte /\ (i <= Len(p) => d[i] = p[i])
  BY <1>1, <1>2
<1>4. d \in [1..h -> Byte]
  BY <1>2, <1>3
<1>5. d \in Seq(Byte) /\ Len(d) = h
  BY <1>4
<1> QED BY <1>3, <1>5, Zenon DEF d

(* A payload as written is read: the same list, and each field received.   *)
LEMMA Delivered ==
    ASSUME NEW c \in Classes, NEW v, Proper(c, v), NEW junk \in Byte
    PROVE  /\ Deserialized(c, Payload(c, v), junk).entries = v.entries
           /\ \A k \in 1..Len(Layout[c].fields) :
                 Deserialized(c, Payload(c, v), junk).fields[k] = Received(c, v, k)
<1> DEFINE P == Payload(c, v)
           l == Layout[c]
           h == Sum(l.fields)
           d == Padded(P, h, junk)
<1>1. P \in Seq(Byte) /\ Len(P) \in Nat /\ h \in Nat /\ h <= Len(P)
  BY PayloadLength, Zenon
<1>2. Deserialized(c, P, junk) = [fields |-> Decode(l.fields, d), entries |-> Entries(c, P)]
  <2>1. SizeFits(c, P)
    BY SizeArrives, Zenon
  <2> QED BY <2>1, Zenon DEF Deserialized, Padded
<1>3. Entries(c, P) = v.entries
  BY EntriesArrive, Zenon
<1>4. d \in Seq(Byte) /\ Len(d) = h /\ \A i \in 1..h : d[i] = P[i]
  <2> HIDE DEF P, h
  <2>1. d \in Seq(Byte) /\ Len(d) = h /\ \A i \in 1..h : i <= Len(P) => d[i] = P[i]
    BY <1>1, Padding, Zenon
  <2>2. \A i \in 1..h : i <= Len(P)
    BY <1>1
  <2> QED BY <2>1, <2>2, Zenon
<1>5. h <= Len(d)
  BY <1>1, <1>4
<1> HIDE DEF d
<1>6. \A k \in 1..Len(l.fields) : Decode(l.fields, d)[k] = Received(c, v, k)
  BY <1>4, <1>5, FieldsArrive, Zenon
<1> HIDE DEF P
<1>7. /\ Deserialized(c, P, junk).fields = Decode(l.fields, d)
      /\ Deserialized(c, P, junk).entries = v.entries
  BY <1>2, <1>3
<1> QED BY <1>6, <1>7, Zenon DEF P

(* A first field of one byte is read from the first byte.                  *)
LEMMA FirstField ==
    ASSUME NEW c \in Classes, NEW v, Proper(c, v), Layout[c].fields[1] = 1,
           NEW p \in Seq(Byte), Sum(Layout[c].fields) <= Len(p), p[1] = Payload(c, v)[1]
    PROVE  Decode(Layout[c].fields, p)[1] = v.fields[1]
<1> DEFINE l == Layout[c]
           ws == l.fields
           h == Sum(ws)
           P == Payload(c, v)
<1>1. ws \in Seq(Width) /\ 1 \in 1..Len(ws) /\ ws \in Seq(Nat) /\ 1 \in Width
  <2>1. ws \in Seq(Width) /\ Len(ws) \in Nat /\ Len(ws) > 0
    BY LayoutFacts
  <2> QED BY <2>1, WidthsAreNumbers DEF Width
<1>2. P \in Seq(Byte) /\ h <= Len(P)
  BY PayloadLength, Zenon
<1>3. Decode(ws, P)[1] = v.fields[1]
  <2>1. Decode(ws, P)[1] = Received(c, v, 1)
    BY <1>1, <1>2, FieldsArrive, Zenon
  <2>2. Received(c, v, 1) = v.fields[1]
    BY <1>1, ReceivedAsSent, Zenon
  <2> QED BY <2>1, <2>2, Zenon
<1> DEFINE b == <<P[1]>>
<1>4. b \in Seq(Byte) /\ Len(b) = ws[1]
  <2>1. 1 \in 1..h /\ h \in Nat
    <3>1. 1 \in 1..ws[1] /\ Sums(ws)[1 - 1] + 1 = 1
      BY <1>1, SumsStep
    <3> QED BY <1>1, <3>1, Places, LayoutFacts
  <2>2. P[1] \in Byte
    <3> HIDE DEF P, h
    <3> QED BY <1>2, <2>1
  <2> HIDE DEF P
  <2> QED BY <2>2
<1>5. \A i \in 1..ws[1] : Sums(ws)[1 - 1] + i = 1 /\ b[i] = P[1]
  BY <1>1, SumsStep
<1>6. h <= Len(p) /\ p[1] = P[1]
  OBVIOUS
<1> HIDE DEF h, P, b, l, ws
<1>7. \A q \in Seq(Byte) : h <= Len(q) /\ q[1] = P[1] => Decode(ws, q)[1] = Number(b)
  <2>1. ASSUME NEW q \in Seq(Byte), h <= Len(q), q[1] = P[1]
        PROVE  Decode(ws, q)[1] = Number(b)
    <3>1. \A i \in 1..ws[1] : q[Sums(ws)[1 - 1] + i] = b[i]
      BY <1>5, <2>1, Zenon
    <3>2. Sum(ws) <= Len(q)
      BY <2>1, Zenon DEF h
    <3> QED BY <1>1, <1>4, <3>1, <3>2, DecodedField, Zenon
  <2> QED BY <2>1, Zenon
<1>8. Decode(ws, p)[1] = Decode(ws, P)[1]
  BY <1>2, <1>6, <1>7
<1> QED BY <1>3, <1>8, Zenon DEF l, ws

(* The values of a class have its types.                                   *)
Typed(c, v) ==
    LET l == Layout[c]
    IN  /\ DOMAIN v = {"fields", "entries"}
        /\ DOMAIN v.fields = DOMAIN l.fields
        /\ \A k \in DOMAIN l.fields : Fits(v.fields[k], l.fields[k])
        /\ \A e \in DOMAIN v.entries :
               /\ DOMAIN v.entries[e] = DOMAIN l.entry
               /\ \A k \in DOMAIN l.entry : Fits(v.entries[e][k], l.entry[k])

(* A payload of a size that fits holds its fields and a number of entries. *)
LEMMA SizeChecked ==
    ASSUME NEW c \in Classes, NEW p \in Seq(Byte), SizeFits(c, p), Layout[c].entry # <<>>
    PROVE  Sum(Layout[c].fields) <= Len(p) /\ Count(c, p) \in Int
<1> DEFINE l == Layout[c]
           h == Sum(l.fields)
<1>1. Shape(l)
  BY LayoutSuits DEF Suits
<1>2. h \in Nat /\ Len(p) \in Nat
  BY LayoutFacts
<1>3. CASE l.size = "list"
  <2>1. h <= Len(p)
    BY <1>3 DEF SizeFits
  <2>2. Count(c, p) = p[Len(l.fields)]
    BY <1>3 DEF Count
  <2>3. Len(l.fields) \in 1..Len(p)
    <3>1. l.fields \in Seq(Width) /\ Len(l.fields) \in Nat /\ Len(l.fields) > 0
      BY LayoutFacts
    <3>2. \A k \in 1..Len(l.fields) : l.fields[k] = 1
      BY <1>1, <1>3 DEF Shape
    <3>3. l.fields \in Seq(Nat) /\ Len(l.fields) \in 0..Len(l.fields) /\ 1 \in EntryWidth
      BY <3>1, WidthsAreNumbers DEF EntryWidth
    <3>4. h = Len(l.fields) * 1
      BY <3>2, <3>3, Multiples DEF Sum
    <3> HIDE DEF h, l
    <3>5. h = Len(l.fields)
      BY <3>1, <3>4
    <3> QED BY <1>2, <2>1, <3>1, <3>5
  <2>4. p[Len(l.fields)] \in Byte
    BY <2>3
  <2>5. \A x \in Byte : x \in Int
    BY DEF Byte
  <2> QED BY <2>1, <2>2, <2>4, <2>5, Zenon
<1>4. CASE l.size = "data"
  <2>1. h = 2
    BY <1>1, <1>4, EntrySums DEF Shape
  <2>2. Len(p) >= 2
    BY <1>4 DEF SizeFits
  <2>3. Count(c, p) = Len(p) - h
    BY <1>4 DEF Count
  <2> QED BY <1>2, <2>1, <2>2, <2>3
<1>5. l.size = "list" \/ l.size = "data"
  BY <1>1 DEF Shape
<1> QED BY <1>3, <1>4, <1>5, Zenon

(* As many entries of width w as there is room for, in x bytes.            *)
LEMMA Room ==
    ASSUME NEW w \in EntryWidth, NEW x \in Nat, NEW count \in Int,
           NEW e \in 1..(IF count < x \div w THEN count ELSE x \div w)
    PROVE  /\ e \in Nat /\ (e - 1) * w \in Nat
           /\ e * w = (e - 1) * w + w /\ (e - 1) * w + w <= x
<1>1. w = 1 \/ w = 7 \/ w = 9
  BY DEF EntryWidth
<1> DEFINE q == x \div w
           n == IF count < q THEN count ELSE q
<1>2. q \in Nat
  BY <1>1
<1>3. e \in 1..n
  OBVIOUS
<1> HIDE DEF q
<1>4. e \in Nat /\ e > 0 /\ e <= q
  BY <1>2, <1>3
<1>5. CASE w = 1
  <2>1. q = x \div 1
    BY <1>5 DEF q
  <2> QED BY <1>4, <1>5, <2>1
<1>6. CASE w = 7
  <2>1. q = x \div 7
    BY <1>6 DEF q
  <2> QED BY <1>4, <1>6, <2>1
<1>7. CASE w = 9
  <2>1. q = x \div 9
    BY <1>7 DEF q
  <2> QED BY <1>4, <1>7, <2>1
<1> QED BY <1>1, <1>5, <1>6, <1>7

(* The entries read from a payload of a size that fits.                    *)
LEMMA EntriesTyped ==
    ASSUME NEW c \in Classes, NEW p \in Seq(Byte), SizeFits(c, p), NEW e \in DOMAIN Entries(c, p)
    PROVE  /\ DOMAIN Entries(c, p)[e] = DOMAIN Layout[c].entry
           /\ \A k \in DOMAIN Layout[c].entry : Fits(Entries(c, p)[e][k], Layout[c].entry[k])
<1> DEFINE l == Layout[c]
           h == Sum(l.fields)
           w == Sum(l.entry)
           q == (Len(p) - h) \div w
           n == IF l.entry = <<>> THEN 0 ELSE IF Count(c, p) < q THEN Count(c, p) ELSE q
           b == SubSeq(p, h + (e - 1) * w + 1, h + e * w)
<1>1. Entries(c, p) = [f \in 1..n |-> Decode(l.entry, SubSeq(p, h + (f - 1) * w + 1, h + f * w))]
  BY Zenon DEF Entries
<1>2. h \in Nat /\ l.entry \in Seq(Width) /\ (l.entry # <<>> => w \in EntryWidth) /\ Len(p) \in Nat
  BY LayoutFacts
<1>3. e \in 1..n
  <2> HIDE DEF n
  <2> QED BY <1>1
<1>4. Entries(c, p)[e] = Decode(l.entry, b)
  <2> HIDE DEF n
  <2> QED BY <1>1, <1>3
<1>5. l.entry # <<>>
  BY <1>3
<1>6. w \in EntryWidth /\ h <= Len(p) /\ Count(c, p) \in Int
  BY <1>2, <1>5, SizeChecked, Zenon
<1>7. b \in Seq(Byte) /\ Len(b) = w
  <2> DEFINE x == Len(p) - h
             a == (e - 1) * w
             d == h + a
  <2>1. x \in Nat /\ e \in 1..(IF Count(c, p) < x \div w THEN Count(c, p) ELSE x \div w)
    <3>1. x \in Nat
      BY <1>2, <1>6
    <3> QED BY <1>3, <1>5, <3>1
  <2> HIDE DEF x, w
  <2>2. a \in Nat /\ e * w = a + w /\ a + w <= x
    BY <1>6, <2>1, Room, Zenon
  <2>3. w \in Nat
    BY <1>6 DEF EntryWidth
  <2> HIDE DEF a, h
  <2>4. d \in Nat /\ d + w <= Len(p) /\ h + e * w = d + w
    BY <1>2, <2>2, <2>3 DEF x
  <2> HIDE DEF d
  <2>5. SubSeq(p, d + 1, d + w) \in Seq(Byte) /\ Len(SubSeq(p, d + 1, d + w)) = w
    BY <2>3, <2>4, Slice, Zenon
  <2>6. b = SubSeq(p, d + 1, d + w)
    BY <2>4, Zenon DEF d, a
  <2> QED BY <2>5, <2>6, Zenon
<1>8. Sum(l.entry) <= Len(b)
  <2>1. w \in Nat
    BY <1>6 DEF EntryWidth
  <2> QED BY <1>7, <2>1
<1> HIDE DEF b, l
<1>9. /\ DOMAIN Decode(l.entry, b) = DOMAIN l.entry
      /\ \A k \in DOMAIN l.entry : Fits(Decode(l.entry, b)[k], l.entry[k])
  BY <1>2, <1>7, <1>8, Decoding, Zenon
<1> QED BY <1>4, <1>9, Zenon DEF l

(* Zero fits every field, and an empty list every entry.                   *)
LEMMA ZeroTyped ==
    ASSUME NEW c \in Classes
    PROVE  Typed(c, Zero[c])
<1> DEFINE ws == Layout[c].fields
           v == Zero[c]
<1>1. v = [fields |-> [k \in DOMAIN ws |-> 0], entries |-> <<>>]
  BY DEF Zero
<1>2. ws \in Seq(Width) /\ DOMAIN ws = 1..Len(ws)
  BY LayoutFacts
<1> HIDE DEF v, ws
<1>3. /\ DOMAIN v = {"fields", "entries"} /\ DOMAIN v.fields = DOMAIN ws
      /\ \A k \in DOMAIN ws : v.fields[k] = 0
      /\ DOMAIN v.entries = {}
  BY <1>1
<1>4. ASSUME NEW k \in DOMAIN ws PROVE Fits(v.fields[k], ws[k])
  <2>1. ws[k] \in Width
    BY <1>2, WidthsAreNumbers
  <2>2. \A x \in Nat : x > 0 => 0 < 256 * x
    OBVIOUS
  <2>3. ws[k] \in 1..ws[k]
    <3>1. \A w \in Width : w \in 1..w
      BY DEF Width
    <3> QED BY <2>1, <3>1
  <2>4. Weight[ws[k]] \in Nat /\ Weight[ws[k]] > 0
    BY <2>1, <2>3, Positions, Zenon
  <2>5. 0 \in Nat /\ 0 < 256 * Weight[ws[k]]
    BY <2>2, <2>4
  <2>6. Fits(0, ws[k])
    BY <2>1, <2>5, FitsValue, Zenon
  <2> QED BY <1>3, <2>6, Zenon
<1> QED BY <1>3, <1>4, Zenon DEF Typed, v, ws

(* What is not written keeps its types.                                    *)
LEMMA KeptTyped ==
    ASSUME NEW c \in Classes, Typed(c, statics[c])
    PROVE  Typed(c, Kept(c))
<1>1. Kept(c) = Zero[c] \/ Kept(c) = statics[c]
  BY Zenon DEF Kept
<1> QED BY <1>1, ZeroTyped, Zenon

(* Whatever payload is processed, the values have their types.             *)
LEMMA DeserializedTyped ==
    ASSUME NEW c \in Classes, NEW p \in Seq(Byte), NEW junk \in Byte, Typed(c, statics[c])
    PROVE  Typed(c, Deserialized(c, p, junk))
<1> DEFINE l == Layout[c]
           h == Sum(l.fields)
           d == Padded(p, h, junk)
<1>1. l.fields \in Seq(Width) /\ h \in Nat
  BY LayoutFacts
<1>2. CASE SizeFits(c, p)
  <2>1. Deserialized(c, p, junk) = [fields |-> Decode(l.fields, d), entries |-> Entries(c, p)]
    BY <1>2, Zenon DEF Deserialized, Padded
  <2>2. d \in Seq(Byte) /\ Len(d) = h
    <3> HIDE DEF h
    <3> QED BY <1>1, Padding, Zenon
  <2>3. Sum(l.fields) <= Len(d)
    BY <1>1, <2>2
  <2> HIDE DEF d
  <2>4. /\ DOMAIN Decode(l.fields, d) = DOMAIN l.fields
        /\ \A k \in DOMAIN l.fields : Fits(Decode(l.fields, d)[k], l.fields[k])
    <3> HIDE DEF l
    <3> QED BY <1>1, <2>2, <2>3, Decoding, Zenon
  <2>5. \A e \in DOMAIN Entries(c, p) :
           /\ DOMAIN Entries(c, p)[e] = DOMAIN l.entry
           /\ \A k \in DOMAIN l.entry : Fits(Entries(c, p)[e][k], l.entry[k])
    BY <1>2, EntriesTyped, Zenon
  <2>6. /\ DOMAIN Deserialized(c, p, junk) = {"fields", "entries"}
        /\ Deserialized(c, p, junk).fields = Decode(l.fields, d)
        /\ Deserialized(c, p, junk).entries = Entries(c, p)
    BY <2>1
  <2> QED BY <2>4, <2>5, <2>6, Zenon DEF Typed
<1>3. CASE ~SizeFits(c, p) /\ l.size = "data" /\ Len(p) >= 2
  <2> DEFINE g == Decode(l.fields, p)
             r == Kept(c)
  <2>1. Deserialized(c, p, junk) = [r EXCEPT !.fields = g]
    BY <1>3 DEF Deserialized
  <2>2. DOMAIN r = {"fields", "entries"}
    BY KeptTyped, Zenon DEF Typed
  <2>3. DOMAIN g = DOMAIN l.fields /\ \A k \in DOMAIN l.fields : Fits(g[k], l.fields[k])
    <3>1. h = 2
      BY <1>3, LayoutSuits, EntrySums DEF Suits, Shape
    <3>2. Sum(l.fields) <= Len(p)
      BY <1>3, <3>1
    <3> HIDE DEF l
    <3> QED BY <1>1, <3>2, Decoding, Zenon
  <2> HIDE DEF g, r
  <2>4. /\ DOMAIN Deserialized(c, p, junk) = {"fields", "entries"}
        /\ Deserialized(c, p, junk).fields = g
        /\ Deserialized(c, p, junk).entries = r.entries
    BY <2>1, <2>2
  <2>5. \A e \in DOMAIN r.entries :
           /\ DOMAIN r.entries[e] = DOMAIN l.entry
           /\ \A k \in DOMAIN l.entry : Fits(r.entries[e][k], l.entry[k])
    BY KeptTyped, Zenon DEF Typed, r
  <2> QED BY <2>3, <2>4, <2>5, Zenon DEF Typed
<1>4. CASE ~SizeFits(c, p) /\ ~(l.size = "data" /\ Len(p) >= 2)
  <2>1. Deserialized(c, p, junk) = Kept(c)
    BY <1>4, Zenon DEF Deserialized
  <2> QED BY <2>1, KeptTyped, Zenon
<1> QED BY <1>2, <1>3, <1>4, Zenon

(***************************************************************************)
(* Frames.                                                                 *)
(***************************************************************************)

(* The identifiers of a class are bytes, and its head has a size.          *)
LEMMA ClassFacts ==
    ASSUME NEW c \in Classes
    PROVE  /\ c = <<c[1], c[2]>> /\ c[1] \in Byte /\ c[2] \in Byte
           /\ c[1] \in {M2S, S2M, B2M, M2B, S2B}
<1>1. \A f \in 0..4 : f \in Byte
  BY DEF Byte
<1>2. /\ \A i \in {0, 16, 17, 18, 32, 33, 34, 48} : i \in Byte
      /\ \A i \in {16, 17, 18, 48} : i \in Byte
      /\ \A i \in {0, 1, 2, 3} : i \in Byte
      /\ \A i \in {0, 1, 2} : i \in Byte
  BY DEF Byte
<1>3. M2S \in Byte /\ S2M \in Byte /\ B2M \in Byte /\ M2B \in Byte /\ S2B \in Byte
  BY <1>1 DEF M2S, S2M, B2M, M2B, S2B
<1>4. CASE c \in {M2S} \X {0, 16, 17, 18, 32, 33, 34, 48}
  BY <1>2, <1>3, <1>4
<1>5. CASE c \in {S2M} \X {16, 17, 18, 48}
  BY <1>2, <1>3, <1>5
<1>6. CASE c \in {B2M} \X {0, 1, 2, 3}
  BY <1>2, <1>3, <1>6
<1>7. CASE c \in {M2B} \X {0, 1, 2, 3}
  BY <1>2, <1>3, <1>7
<1>8. CASE c \in {S2B} \X {0, 1, 2}
  BY <1>2, <1>3, <1>8
<1> QED BY <1>4, <1>5, <1>6, <1>7, <1>8 DEF Classes

(* What follows the head of a packet.                                      *)
Body(m) == IF m.older THEN OlderPayload(m.class, m.values) ELSE Payload(m.class, m.values)

LEMMA MessageFacts ==
    ASSUME NEW m \in Messages
    PROVE  /\ m.class \in Classes /\ Proper(m.class, m.values)
           /\ m.id \in [1..4 -> Byte] /\ m.junk \in Byte
           /\ m.older => HasOlder(m.class)
           /\ Fits(Len(Packet(m)), 2)
           /\ DOMAIN m.values.fields = DOMAIN Layout[m.class].fields
<1>1. WellFormed(m) /\ Junk \subseteq Byte
  BY ProtocolAssumption
<1> QED BY <1>1, Zenon DEF WellFormed, Proper

(* A message has a field.                                                  *)
LEMMA SomeField ==
    ASSUME NEW c \in Classes
    PROVE  Sum(Layout[c].fields) \in Nat /\ Sum(Layout[c].fields) > 0
<1> DEFINE ws == Layout[c].fields
<1>1. ws \in Seq(Width) /\ Len(ws) \in Nat /\ Len(ws) > 0 /\ Sum(ws) \in Nat
  BY LayoutFacts
<1> HIDE DEF ws
<1>2. 1 \in 1..Len(ws) /\ 1 \in 1..ws[1]
  BY <1>1, WidthsAreNumbers
<1>3. Sums(ws)[1 - 1] + 1 \in 1..Sum(ws)
  BY <1>1, <1>2, Places
<1> QED BY <1>1, <1>3 DEF ws

(* The classes whose older payload lacks a byte.                           *)
LEMMA OlderLayout ==
    ASSUME NEW c \in Classes, HasOlder(c), c # <<M2S, 48>>
    PROVE  /\ Layout[c].size = "exact" /\ Layout[c].entry = <<>>
           /\ c \notin {M2S} \X {32, 33, 34}
           /\ Added(c) \in 1..Sum(Layout[c].fields)
<1> DEFINE l == Layout[c]
           h == Sum(l.fields)
<1>1. h \in Nat /\ 1 \in 1..h
  BY SomeField
<1>2. c = <<M2S, 16>> \/ c = <<M2S, 17>> \/ c = <<M2S, 18>> \/ c[1] = S2M
  BY DEF HasOlder
<1>3. CASE c = <<M2S, 16>> \/ c = <<M2S, 17>>
  <2>1. l = Message(<<1, 1, 2, 2, 2>>)
    BY <1>3, LayoutByClass, Zenon DEF M2S_CondCfgMsg, M2S_ResCfgMsg
  <2>2. l.size = "exact" /\ l.entry = <<>> /\ h = 8
    BY <2>1, EntrySums DEF Message
  <2>3. Added(c) = 2
    BY <1>3 DEF Added
  <2>4. Added(c) \in 1..h
    BY <2>2, <2>3
  <2>5. c \notin {M2S} \X {32, 33, 34}
    BY <1>3
  <2> QED BY <2>2, <2>4, <2>5
<1>4. CASE c = <<M2S, 18>>
  <2>1. l = Message(<<1, 1, 2>>)
    BY <1>4, LayoutByClass, Zenon DEF M2S_ClipCfgMsg
  <2>2. l.size = "exact" /\ l.entry = <<>>
    BY <2>1 DEF Message
  <2>3. Added(c) = 1 /\ c \notin {M2S} \X {32, 33, 34}
    BY <1>4 DEF Added
  <2> QED BY <1>1, <2>2, <2>3
<1>5. CASE c[1] = S2M
  <2>1. l.size = "exact" /\ l.entry = <<>>
    <3>1. Suits(c, l)
      BY LayoutSuits
    <3> HIDE DEF l
    <3> QED BY <1>5, <3>1 DEF Suits, Shape
  <2>2. Added(c) = 1 /\ c \notin {M2S} \X {32, 33, 34}
    BY <1>5 DEF Added, M2S, S2M
  <2> QED BY <1>1, <2>1, <2>2
<1> QED BY <1>2, <1>3, <1>4, <1>5

(* Such a payload is one byte short.                                       *)
LEMMA OlderLength ==
    ASSUME NEW c \in Classes, HasOlder(c), c # <<M2S, 48>>, NEW v, Proper(c, v)
    PROVE  /\ OlderPayload(c, v) \in Seq(Byte)
           /\ Len(OlderPayload(c, v)) = Sum(Layout[c].fields) - 1
<1> DEFINE P == Payload(c, v)
           i == Added(c)
           h == Sum(Layout[c].fields)
           a == SubSeq(P, 1, i - 1)
           b == SubSeq(P, i + 1, Len(P))
<1>1. P \in Seq(Byte) /\ Len(P) = h /\ h \in Nat /\ i \in 1..h
  BY OlderLayout, PayloadLength, Zenon
<1>2. OlderPayload(c, v) = a \o b
  BY Zenon DEF OlderPayload, RemoveAt
<1> HIDE DEF P, i, h
<1>3. a \in Seq(Byte) /\ Len(a) = i - 1
  <2>1. 0 \in Nat /\ i - 1 \in Nat /\ 0 + (i - 1) <= Len(P) /\ 0 + (i - 1) = i - 1 /\ 0 + 1 = 1
    BY <1>1
  <2>2. SubSeq(P, 0 + 1, 0 + (i - 1)) \in Seq(Byte) /\ Len(SubSeq(P, 0 + 1, 0 + (i - 1))) = i - 1
    BY <1>1, <2>1, Slice
  <2> QED BY <2>1, <2>2, Zenon
<1>4. b \in Seq(Byte) /\ Len(b) = h - i
  <2>1. i \in Nat /\ h - i \in Nat /\ i + (h - i) <= Len(P) /\ i + (h - i) = Len(P)
    BY <1>1
  <2>2. SubSeq(P, i + 1, i + (h - i)) \in Seq(Byte) /\ Len(SubSeq(P, i + 1, i + (h - i))) = h - i
    BY <1>1, <2>1, Slice
  <2> QED BY <2>1, <2>2, Zenon
<1> HIDE DEF a, b
<1>5. a \o b \in Seq(Byte) /\ Len(a \o b) = Len(a) + Len(b)
  BY <1>3, <1>4, Joined, Zenon
<1>6. Len(a) + Len(b) = h - 1
  BY <1>1, <1>3, <1>4
<1> QED BY <1>2, <1>5, <1>6, Zenon DEF h

LEMMA BodyBytes ==
    ASSUME NEW m \in Messages
    PROVE  Body(m) \in Seq(Byte)
<1> DEFINE P == Payload(m.class, m.values)
           h == Sum(Layout[m.class].fields)
<1>1. P \in Seq(Byte) /\ h <= Len(P) /\ h \in Nat
  BY MessageFacts, PayloadLength, Zenon
<1>2. h > 0
  BY MessageFacts, SomeField, Zenon
<1> HIDE DEF P, h
<1>3. SubSeq(P, 1, 1) \in Seq(Byte)
  <2>1. 0 + 1 <= Len(P) /\ SubSeq(P, 1, 1) = SubSeq(P, 0 + 1, 0 + 1)
    BY <1>1, <1>2
  <2> QED BY <1>1, <2>1, Slice
<1>4. m.older => OlderPayload(m.class, m.values) \in Seq(Byte)
  <2>1. CASE m.class = <<M2S, 48>>
    BY <1>3, <2>1, Zenon DEF OlderPayload, P
  <2>2. CASE m.class # <<M2S, 48>>
    BY <2>2, MessageFacts, OlderLength, Zenon
  <2> QED BY <2>1, <2>2, Zenon
<1> QED BY <1>1, <1>4, Zenon DEF Body, P

(* The families, and the heads of their packets.                           *)
LEMMA Families ==
    /\ HeadSize(M2S) = 5 /\ HeadSize(S2M) = 5 /\ HeadSize(S2B) = 7
    /\ HeadSize(B2M) = 1 /\ HeadSize(M2B) = 1
    /\ B2M \notin {M2S, S2M, S2B} /\ M2B \notin {M2S, S2M, S2B}
    /\ M2S # S2B /\ S2M # S2B /\ B2M # S2B /\ M2B # S2B
<1>1. HeadSize(M2S) = 5 /\ HeadSize(S2M) = 5
  BY DEF HeadSize, M2S, S2M, B2M, M2B, S2B
<1>2. HeadSize(B2M) = 1 /\ HeadSize(M2B) = 1
  BY DEF HeadSize, M2S, S2M, B2M, M2B, S2B
<1>3. HeadSize(S2B) = 7
  BY DEF HeadSize, M2S, S2M, B2M, M2B, S2B
<1> QED BY <1>1, <1>2, <1>3 DEF M2S, S2M, B2M, M2B, S2B

(* The head of a packet: the identifier of the message, then whom it is    *)
(* for or from.                                                            *)
LEMMA HeadBytes ==
    ASSUME NEW m \in Messages
    PROVE  LET H == PacketHead(m)
           IN  /\ H \in Seq(Byte) /\ Len(H) = HeadSize(m.class[1]) /\ Len(H) \in Nat /\ Len(H) >= 1
               /\ H[1] = m.class[2]
               /\ m.class[1] \in {M2S, S2M, S2B} =>
                     Len(H) >= 5 /\ \A i \in 1..4 : H[1 + i] = m.id[i]
<1> DEFINE f == m.class[1]
           a == <<m.class[2]>>
           b == m.id
           d == <<m.junk, m.junk>>
           H == PacketHead(m)
<1>1. f \in {M2S, S2M, B2M, M2B, S2B} /\ a \in Seq(Byte) /\ Len(a) = 1 /\ a[1] = m.class[2]
  BY MessageFacts, ClassFacts
<1>2. b \in Seq(Byte) /\ Len(b) = 4
  <2>1. b \in [1..4 -> Byte]
    BY MessageFacts, Zenon
  <2>2. \A n \in Nat : b \in [1..n -> Byte] => b \in Seq(Byte) /\ Len(b) = n
    OBVIOUS
  <2>3. 4 \in Nat
    OBVIOUS
  <2> QED BY <2>1, <2>2, <2>3, Zenon
<1>3. d \in Seq(Byte) /\ Len(d) = 2
  BY MessageFacts
<1>4. H = a \o (IF f \in {M2S, S2M, S2B} THEN b ELSE <<>>)
             \o (IF f = S2B THEN d ELSE <<>>)
  BY Zenon DEF PacketHead
<1> HIDE DEF f, a, b, d, H
<1>5. /\ a \o b \in Seq(Byte) /\ Len(a \o b) = 5 /\ (a \o b)[1] = a[1]
      /\ \A i \in 1..4 : (a \o b)[1 + i] = b[i]
  <2>1. a \in Seq(Byte) /\ Len(a) = 1 /\ 1 \in 1..1 /\ 1 + 4 = 5
    BY <1>1
  <2>2. /\ a \o b \in Seq(Byte) /\ Len(a \o b) = Len(a) + Len(b)
        /\ \A i \in 1..Len(a) : (a \o b)[i] = a[i]
        /\ \A i \in 1..Len(b) : (a \o b)[Len(a) + i] = b[i]
    <3>1. a \in Seq(Byte) /\ b \in Seq(Byte)
      BY <1>2, <2>1, Zenon
    <3> QED BY <3>1, Joined
  <2> QED BY <1>2, <2>1, <2>2, Zenon
<1>6. CASE f \in {M2S, S2M}
  <2>1. f \in {M2S, S2M, S2B} /\ f # S2B /\ HeadSize(f) = 5
    BY <1>6, Families, Zenon
  <2>2. H = a \o b \o <<>>
    BY <1>4, <2>1, Zenon
  <2>3. H = a \o b
    BY <1>5, <2>2
  <2>4. 5 \in Nat /\ 5 >= 1 /\ 5 >= 5
    OBVIOUS
  <2>5. /\ H \in Seq(Byte) /\ Len(H) = HeadSize(f) /\ Len(H) \in Nat /\ Len(H) >= 1
        /\ H[1] = a[1] /\ Len(H) >= 5 /\ \A i \in 1..4 : H[1 + i] = b[i]
    BY <1>5, <2>1, <2>3, <2>4, Zenon
  <2> QED BY <1>1, <2>5, Zenon DEF f, b, H
<1>7. CASE f \in {B2M, M2B}
  <2>1. f \notin {M2S, S2M, S2B} /\ f # S2B /\ HeadSize(f) = 1
    BY <1>7, Families, Zenon
  <2>2. H = a \o <<>> \o <<>>
    BY <1>4, <2>1, Zenon
  <2>3. a \in Seq(Byte)
    BY <1>1, Zenon
  <2>4. H = a
    BY <2>2, <2>3
  <2>5. 1 \in Nat /\ 1 >= 1
    OBVIOUS
  <2>6. H \in Seq(Byte) /\ Len(H) = HeadSize(f) /\ Len(H) \in Nat /\ Len(H) >= 1 /\ H[1] = a[1]
    BY <1>1, <2>1, <2>4, <2>5, Zenon
  <2> QED BY <1>1, <2>1, <2>6, Zenon DEF f, H
<1>8. CASE f = S2B
  <2>1. f \in {M2S, S2M, S2B} /\ HeadSize(f) = 7
    BY <1>8, Families, Zenon
  <2>2. H = a \o b \o d
    BY <1>4, <1>8, <2>1, Zenon
  <2>3. /\ H \in Seq(Byte) /\ Len(H) = Len(a \o b) + Len(d)
        /\ \A i \in 1..Len(a \o b) : H[i] = (a \o b)[i]
    <3> DEFINE t == a \o b
    <3>1. t \in Seq(Byte) /\ d \in Seq(Byte) /\ H = t \o d
      BY <1>3, <1>5, <2>2, Zenon
    <3> HIDE DEF t
    <3>2. /\ H \in Seq(Byte) /\ Len(H) = Len(t) + Len(d)
          /\ \A i \in 1..Len(t) : H[i] = t[i]
      BY <3>1, Joined
    <3> QED BY <3>2, Zenon DEF t
  <2>4. 5 + 2 = 7 /\ 7 \in Nat /\ 7 >= 1 /\ 7 >= 5 /\ 1 \in 1..5 /\ \A i \in 1..4 : 1 + i \in 1..5
    OBVIOUS
  <2>5. /\ Len(H) = HeadSize(f) /\ Len(H) \in Nat /\ Len(H) >= 1 /\ Len(H) >= 5
        /\ H[1] = a[1] /\ \A i \in 1..4 : H[1 + i] = b[i]
    <3>1. Len(H) = 7 /\ \A i \in 1..5 : H[i] = (a \o b)[i]
      BY <1>3, <1>5, <2>3, <2>4, Zenon
    <3>2. H[1] = a[1] /\ \A i \in 1..4 : H[1 + i] = b[i]
      BY <1>5, <2>4, <3>1, Zenon
    <3> QED BY <2>1, <2>4, <3>1, <3>2, Zenon
  <2> QED BY <1>1, <2>3, <2>5, Zenon DEF f, b, H
<1> QED BY <1>1, <1>6, <1>7, <1>8, Zenon

(* A packet: the head, then the body.                                      *)
LEMMA PacketBytes ==
    ASSUME NEW m \in Messages
    PROVE  LET K == Packet(m)
               s == HeadSize(m.class[1])
           IN  /\ K \in Seq(Byte) /\ Len(K) \in Nat /\ s \in Nat /\ s >= 1
               /\ Len(K) = s + Len(Body(m)) /\ Len(Body(m)) \in Nat
               /\ \A i \in 1..s : K[i] = PacketHead(m)[i]
               /\ \A i \in 1..Len(Body(m)) : K[s + i] = Body(m)[i]
<1> DEFINE H == PacketHead(m)
           B == Body(m)
           s == HeadSize(m.class[1])
<1>1. H \in Seq(Byte) /\ Len(H) = s /\ s \in Nat /\ s >= 1
  BY HeadBytes
<1>2. B \in Seq(Byte)
  BY BodyBytes
<1>3. Packet(m) = H \o B
  BY Zenon DEF Packet, Body
<1> HIDE DEF H, B, s
<1>4. /\ H \o B \in Seq(Byte)
      /\ Len(H \o B) \in Nat /\ Len(H \o B) = Len(H) + Len(B)
      /\ \A i \in 1..Len(H) : (H \o B)[i] = H[i]
      /\ \A i \in 1..Len(B) : (H \o B)[Len(H) + i] = B[i]
  <2>1. H \in Seq(Byte) /\ B \in Seq(Byte)
    BY <1>1, <1>2
  <2> QED BY <2>1, Joined
<1>5. Len(B) \in Nat
  BY <1>2
<1> QED BY <1>1, <1>3, <1>4, <1>5, Zenon DEF H, B, s

(* What precedes the packet in a frame.                                    *)
Start(m) == <<171, 205, m.class[1], 0, 0>> \o Bytes(Len(Packet(m)), 2)

LEMMA StartBytes ==
    ASSUME NEW m \in Messages
    PROVE  /\ Start(m) \in Seq(Byte) /\ Len(Start(m)) = HEADER_SIZE
           /\ Start(m)[1] = 171 /\ Start(m)[2] = 205 /\ Start(m)[3] = m.class[1]
           /\ Start(m)[6] = Bytes(Len(Packet(m)), 2)[1]
           /\ Start(m)[7] = Bytes(Len(Packet(m)), 2)[2]
<1> DEFINE f == m.class[1]
           a == <<171, 205, f, 0, 0>>
           b == Bytes(Len(Packet(m)), 2)
<1>1. f \in Byte
  BY MessageFacts, ClassFacts
<1>2. 171 \in Byte /\ 205 \in Byte /\ 0 \in Byte
  BY DEF Byte
<1> HIDE DEF f
<1>3. a \in Seq(Byte) /\ Len(a) = 5 /\ a[1] = 171 /\ a[2] = 205 /\ a[3] = f
  BY <1>1, <1>2
<1>4. b \in Seq(Byte) /\ Len(b) = 2
  <2> DEFINE n == Len(Packet(m))
  <2>1. n \in Nat /\ 2 \in Width
    BY PacketBytes DEF Width
  <2> HIDE DEF n
  <2>2. \A x \in Nat : \A w \in Width : Bytes(x, w) \in Seq(Byte) /\ Len(Bytes(x, w)) = w
    BY BytesOfNumber
  <2>3. Bytes(n, 2) \in Seq(Byte) /\ Len(Bytes(n, 2)) = 2
    BY <2>1, <2>2, Zenon
  <2> QED BY <2>3, Zenon DEF n
<1>5. Start(m) = a \o b
  BY Zenon DEF Start, f
<1> HIDE DEF a, b
<1>6. /\ a \o b \in Seq(Byte) /\ Len(a \o b) = Len(a) + Len(b)
      /\ \A i \in 1..Len(a) : (a \o b)[i] = a[i]
      /\ \A i \in 1..Len(b) : (a \o b)[Len(a) + i] = b[i]
  <2>1. a \in Seq(Byte) /\ b \in Seq(Byte)
    BY <1>3, <1>4
  <2> QED BY <2>1, Joined
<1>7. /\ 1 \in 1..5 /\ 2 \in 1..5 /\ 3 \in 1..5 /\ 1 \in 1..2 /\ 2 \in 1..2
      /\ 5 + 1 = 6 /\ 5 + 2 = 7 /\ 5 + 2 = HEADER_SIZE
  BY DEF HEADER_SIZE
<1>8. (a \o b)[1] = a[1] /\ (a \o b)[2] = a[2] /\ (a \o b)[3] = a[3]
  BY <1>3, <1>6, <1>7
<1>9. (a \o b)[6] = b[1] /\ (a \o b)[7] = b[2] /\ Len(a \o b) = HEADER_SIZE
  BY <1>3, <1>4, <1>6, <1>7
<1> DEFINE g == Start(m)
<1> HIDE DEF g
<1>10. g = a \o b
  BY <1>5, Zenon DEF g
<1>11. g \in Seq(Byte) /\ Len(g) = HEADER_SIZE /\ g[6] = b[1] /\ g[7] = b[2]
  BY <1>6, <1>9, <1>10, Zenon
<1>12. g[1] = 171 /\ g[2] = 205 /\ g[3] = f
  <2>1. g[1] = a[1] /\ g[2] = a[2] /\ g[3] = a[3]
    BY <1>8, <1>10, Zenon
  <2> QED BY <1>3, <2>1
<1> QED BY <1>11, <1>12, Zenon DEF b, f, g

(* A frame: the start of its packet, and the packet.                       *)
LEMMA FrameBytes ==
    ASSUME NEW m \in Messages
    PROVE  LET F == Frame(m)
               K == Packet(m)
           IN  /\ F \in Seq(Byte) /\ Len(F) \in Nat /\ Len(F) = HEADER_SIZE + Len(K)
               /\ Len(K) \in Nat /\ Len(K) >= 1
               /\ F[1] = 171 /\ F[2] = 205 /\ F[3] = m.class[1]
               /\ F[6] = Bytes(Len(K), 2)[1] /\ F[7] = Bytes(Len(K), 2)[2]
               /\ \A i \in 1..Len(K) : F[HEADER_SIZE + i] = K[i]
<1> DEFINE a == Start(m)
           K == Packet(m)
<1>1. a \in Seq(Byte) /\ Len(a) = HEADER_SIZE
  BY StartBytes
<1>2. K \in Seq(Byte) /\ Len(K) \in Nat /\ Len(K) >= 1
  <2>1. K \in Seq(Byte) /\ Len(K) \in Nat /\ Len(K) = HeadSize(m.class[1]) + Len(Body(m))
    BY PacketBytes, Zenon
  <2>2. HeadSize(m.class[1]) \in Nat /\ HeadSize(m.class[1]) >= 1 /\ Len(Body(m)) \in Nat
    BY PacketBytes, Zenon
  <2> QED BY <2>1, <2>2
<1>3. Frame(m) = a \o K
  BY Zenon DEF Frame, Start
<1> HIDE DEF a, K
<1>4. /\ a \o K \in Seq(Byte) /\ Len(a \o K) \in Nat /\ Len(a \o K) = Len(a) + Len(K)
      /\ \A i \in 1..Len(a) : (a \o K)[i] = a[i]
      /\ \A i \in 1..Len(K) : (a \o K)[Len(a) + i] = K[i]
  <2>1. a \in Seq(Byte) /\ K \in Seq(Byte)
    BY <1>1, <1>2
  <2> QED BY <2>1, Joined
<1>5. /\ (a \o K)[1] = a[1] /\ (a \o K)[2] = a[2] /\ (a \o K)[3] = a[3]
      /\ (a \o K)[6] = a[6] /\ (a \o K)[7] = a[7]
  <2>1. 1 \in 1..Len(a) /\ 2 \in 1..Len(a) /\ 3 \in 1..Len(a) /\ 6 \in 1..Len(a) /\ 7 \in 1..Len(a)
    BY <1>1 DEF HEADER_SIZE
  <2> QED BY <1>4, <2>1
<1>6. /\ a[1] = 171 /\ a[2] = 205 /\ a[3] = m.class[1]
      /\ a[6] = Bytes(Len(K), 2)[1] /\ a[7] = Bytes(Len(K), 2)[2]
  BY StartBytes DEF a, K
<1>7. /\ (a \o K)[1] = 171 /\ (a \o K)[2] = 205 /\ (a \o K)[3] = m.class[1]
      /\ (a \o K)[6] = Bytes(Len(K), 2)[1] /\ (a \o K)[7] = Bytes(Len(K), 2)[2]
  BY <1>5, <1>6
<1>8. /\ Len(a \o K) = HEADER_SIZE + Len(K)
      /\ \A i \in 1..Len(K) : (a \o K)[HEADER_SIZE + i] = K[i]
  BY <1>1, <1>4, Zenon
<1> DEFINE F == Frame(m)
<1> HIDE DEF F
<1>9. F = a \o K
  BY <1>3, Zenon DEF F
<1>10. /\ F[1] = 171 /\ F[2] = 205 /\ F[3] = m.class[1]
       /\ F[6] = Bytes(Len(K), 2)[1] /\ F[7] = Bytes(Len(K), 2)[2]
  BY <1>7, <1>9
<1>11. /\ F \in Seq(Byte) /\ Len(F) \in Nat /\ Len(F) = HEADER_SIZE + Len(K)
       /\ \A i \in 1..Len(K) : F[HEADER_SIZE + i] = K[i]
  BY <1>4, <1>8, <1>9, Zenon
<1> QED BY <1>2, <1>10, <1>11, Zenon DEF F, K

(* The length that any bytes have that begin as the frame does.            *)
LEMMA FrameLength ==
    ASSUME NEW m \in Messages, NEW raw \in Seq(Byte), Len(raw) >= HEADER_SIZE,
           raw[6] = Frame(m)[6], raw[7] = Frame(m)[7]
    PROVE  Number(SubSeq(raw, 6, 7)) = Len(Packet(m))
<1> DEFINE n == Len(Packet(m))
           b == Bytes(n, 2)
           s == SubSeq(raw, 6, 7)
<1>1. n \in Nat /\ 2 \in Width /\ Fits(n, 2)
  BY FrameBytes, MessageFacts DEF Width
<1>2. raw[6] = b[1] /\ raw[7] = b[2]
  BY FrameBytes
<1> HIDE DEF n
<1>3. b \in Seq(Byte) /\ Len(b) = 2 /\ Number(b) = n
  <2>1. b \in Seq(Byte) /\ Len(b) = 2
    BY <1>1, BytesOfNumber, Zenon
  <2>2. Number(b) = n
    BY <1>1, NumberIsItsBytes, Zenon
  <2> QED BY <2>1, <2>2, Zenon
<1>4. s \in Seq(Byte) /\ Len(s) = 2 /\ s[1] = raw[6] /\ s[2] = raw[7]
  <2>1. 5 \in Nat /\ 2 \in Nat /\ 5 + 2 <= Len(raw) /\ 5 + 1 = 6 /\ 5 + 2 = 7 /\ 1 \in 1..2 /\ 2 \in 1..2
    BY DEF HEADER_SIZE
  <2>2. /\ SubSeq(raw, 5 + 1, 5 + 2) \in Seq(Byte) /\ Len(SubSeq(raw, 5 + 1, 5 + 2)) = 2
        /\ \A i \in 1..2 : SubSeq(raw, 5 + 1, 5 + 2)[i] = raw[5 + i]
    BY <2>1, Slice
  <2> QED BY <2>1, <2>2, Zenon
<1> HIDE DEF b, s
<1>5. s = b
  <2>1. s = [i \in 1..Len(s) |-> s[i]] /\ b = [i \in 1..Len(b) |-> b[i]]
    BY <1>3, <1>4
  <2>2. \A i \in 1..2 : s[i] = b[i]
    BY <1>2, <1>4
  <2> QED BY <1>3, <1>4, <2>1, <2>2, Zenon
<1> QED BY <1>3, <1>5, Zenon DEF s, n

(* Bytes that are equal one by one are equal.                              *)
LEMMA SameBytes ==
    ASSUME NEW s \in Seq(Byte), NEW t \in Seq(Byte), Len(s) = Len(t), \A i \in 1..Len(s) : s[i] = t[i]
    PROVE  s = t
<1>1. s = [i \in 1..Len(s) |-> s[i]] /\ t = [i \in 1..Len(t) |-> t[i]]
  OBVIOUS
<1> QED BY <1>1

(* What the parser finds in a frame.                                       *)
LEMMA FrameRead ==
    ASSUME NEW m \in Messages
    PROVE  /\ Class(Frame(m)) = m.class
           /\ Content(Frame(m)) = Body(m)
           /\ m.class[1] = M2S => SubSeq(Frame(m), HEADER_SIZE + 2, HEADER_SIZE + 5) = m.id
<1> DEFINE F == Frame(m)
           K == Packet(m)
           H == PacketHead(m)
           B == Body(m)
           s == HeadSize(m.class[1])
<1>1. /\ F \in Seq(Byte) /\ Len(F) = HEADER_SIZE + Len(K) /\ F[3] = m.class[1]
      /\ \A i \in 1..Len(K) : F[HEADER_SIZE + i] = K[i]
  BY FrameBytes
<1>2. /\ s \in Nat /\ s >= 1 /\ Len(K) = s + Len(B) /\ Len(B) \in Nat
      /\ \A i \in 1..s : K[i] = H[i]
      /\ \A i \in 1..Len(B) : K[s + i] = B[i]
  BY PacketBytes, Zenon
<1>3. B \in Seq(Byte) /\ HEADER_SIZE \in Nat
  BY BodyBytes DEF HEADER_SIZE
<1>4. /\ Len(H) = s /\ H[1] = m.class[2]
      /\ m.class[1] = M2S => Len(H) >= 5 /\ \A i \in 1..4 : H[1 + i] = m.id[i]
  BY HeadBytes
<1> HIDE DEF F, K, H, B, s
<1>5. Class(F) = m.class
  <2>1. 1 \in 1..Len(K) /\ 1 \in 1..s
    BY <1>2
  <2>2. F[HEADER_SIZE + 1] = m.class[2]
    BY <1>1, <1>2, <1>4, <2>1, Zenon
  <2>3. m.class = <<m.class[1], m.class[2]>>
    BY MessageFacts, ClassFacts, Zenon
  <2> QED BY <1>1, <2>2, <2>3, Zenon DEF Class
<1>6. Content(F) = B
  <2> DEFINE a == HEADER_SIZE + s
             w == Len(B)
             d == SubSeq(F, a + 1, a + w)
  <2>1. a \in Nat /\ a + w <= Len(F) /\ a + w = Len(F) /\ w \in Nat
    BY <1>1, <1>2, <1>3
  <2>2. HeadSize(F[3]) = s
    BY <1>1, Zenon DEF s
  <2>3. Content(F) = SubSeq(F, a + 1, Len(F))
    BY <2>2, Zenon DEF Content
  <2>4. \A i \in 1..w : s + i \in 1..Len(K) /\ a + i = HEADER_SIZE + (s + i)
    BY <1>2, <1>3
  <2> HIDE DEF a, w
  <2>5. d \in Seq(Byte) /\ Len(d) = w /\ \A i \in 1..w : d[i] = F[a + i]
    <3>1. F \in Seq(Byte) /\ a \in Nat /\ w \in Nat /\ a + w <= Len(F)
      BY <1>1, <2>1
    <3> QED BY <3>1, Slice
  <2> HIDE DEF d
  <2>6. ASSUME NEW i \in 1..w PROVE d[i] = B[i]
    <3>1. d[i] = F[HEADER_SIZE + (s + i)] /\ s + i \in 1..Len(K)
      BY <2>4, <2>5, Zenon
    <3>2. F[HEADER_SIZE + (s + i)] = K[s + i]
      BY <1>1, <3>1, Zenon
    <3>3. K[s + i] = B[i]
      BY <1>2, Zenon DEF w
    <3> QED BY <3>1, <3>2, <3>3, Zenon
  <2>7. d = B
    <3>1. Len(d) = Len(B) /\ \A i \in 1..Len(d) : d[i] = B[i]
      BY <2>5, <2>6, Zenon DEF w
    <3> QED BY <1>3, <2>5, <3>1, SameBytes, Zenon
  <2>8. Content(F) = d
    BY <2>1, <2>3, Zenon DEF d
  <2> QED BY <2>7, <2>8, Zenon
<1>7. ASSUME m.class[1] = M2S
      PROVE  SubSeq(F, HEADER_SIZE + 2, HEADER_SIZE + 5) = m.id
  <2> DEFINE a == HEADER_SIZE + 1
             d == SubSeq(F, a + 1, a + 4)
  <2>1. Len(H) >= 5 /\ \A i \in 1..4 : H[1 + i] = m.id[i]
    BY <1>4, <1>7, Zenon
  <2>2. a \in Nat /\ a + 4 <= Len(F) /\ a + 1 = HEADER_SIZE + 2 /\ a + 4 = HEADER_SIZE + 5 /\ 4 \in Nat
    BY <1>1, <1>2, <1>3, <1>4, <2>1
  <2>3. \A i \in 1..4 : 1 + i \in 1..Len(K) /\ 1 + i \in 1..s /\ a + i = HEADER_SIZE + (1 + i)
    BY <1>2, <1>3, <1>4, <2>1
  <2> HIDE DEF a
  <2>4. d \in Seq(Byte) /\ Len(d) = 4 /\ \A i \in 1..4 : d[i] = F[a + i]
    BY <1>1, <2>2, Slice
  <2>5. d = SubSeq(F, HEADER_SIZE + 2, HEADER_SIZE + 5)
    BY <2>2, Zenon
  <2> HIDE DEF d
  <2>6. ASSUME NEW i \in 1..4 PROVE d[i] = m.id[i]
    <3>1. d[i] = F[HEADER_SIZE + (1 + i)] /\ 1 + i \in 1..Len(K) /\ 1 + i \in 1..s
      BY <2>3, <2>4, Zenon
    <3>2. F[HEADER_SIZE + (1 + i)] = K[1 + i]
      BY <1>1, <3>1, Zenon
    <3>3. K[1 + i] = H[1 + i]
      BY <1>2, <3>1, Zenon
    <3> QED BY <2>1, <3>1, <3>2, <3>3, Zenon
  <2>7. m.id \in Seq(Byte) /\ Len(m.id) = 4
    <3>1. m.id \in [1..4 -> Byte] /\ 4 \in Nat
      BY MessageFacts
    <3>2. \A n \in Nat : m.id \in [1..n -> Byte] => m.id \in Seq(Byte) /\ Len(m.id) = n
      OBVIOUS
    <3> QED BY <3>1, <3>2, Zenon
  <2>8. d = m.id
    BY <2>4, <2>6, <2>7, SameBytes
  <2> QED BY <2>5, <2>8, Zenon
<1> QED BY <1>5, <1>6, <1>7, Zenon DEF F, B

(* The line: the frames follow each other.                                 *)
LEMMA LineBytes ==
    ASSUME wire \in Seq(Messages), NEW n \in DOMAIN wire
    PROVE  LET F == Frame(wire[1])
           IN  /\ wire[1] \in Messages /\ wire[n] \in Messages
               /\ Line(n) \in Seq(Byte) /\ Len(F) <= Len(Line(n)) /\ Len(Line(n)) \in Nat
               /\ \A i \in 1..Len(F) : Line(n)[i] = F[i]
               /\ n = 1 => Len(Line(n)) = Len(F)
               /\ n # 1 => Line(n)[Len(F) + 1] = 171
<1> DEFINE ss == [k \in 1..n |-> Frame(wire[k])]
           g == Sums(Sizes(ss))
           F == Frame(wire[1])
<1>1. n \in Nat /\ n >= 1 /\ 1 \in 1..n /\ n \in 1..Len(wire) /\ \A k \in 1..n : wire[k] \in Messages
  OBVIOUS
<1>2. \A k \in 1..n : ss[k] \in Seq(Byte) /\ ss[k] = Frame(wire[k])
  <2>1. \A k \in 1..n : Frame(wire[k]) \in Seq(Byte)
    BY <1>1, FrameBytes, Zenon
  <2> QED BY <2>1
<1>3. Line(n) = FlattenSeq(ss)
  BY Zenon DEF Line
<1>4. ss \in Seq(Seq(Byte)) /\ Len(ss) = n
  <2>1. ss = [k \in 1..n |-> ss[k]] /\ DOMAIN ss = 1..n
    OBVIOUS
  <2> HIDE DEF ss
  <2>2. ss \in [1..n -> Seq(Byte)]
    BY <1>2, <2>1
  <2> QED BY <1>1, <2>2
<1> HIDE DEF ss
<1>5. /\ FlattenSeq(ss) \in Seq(Byte)
      /\ Sizes(ss) \in Seq(Nat) /\ Len(Sizes(ss)) = n
      /\ Len(FlattenSeq(ss)) = Sum(Sizes(ss))
      /\ \A k \in 1..n : \A i \in 1..Len(ss[k]) : FlattenSeq(ss)[g[k - 1] + i] = ss[k][i]
  BY <1>4, Concatenation
<1>6. g[0] = 0 /\ g[1] = Len(F)
  <2>1. g[0] = 0 /\ g[1] = g[1 - 1] + Sizes(ss)[1]
    BY <1>1, <1>5, SumsStep
  <2>2. Sizes(ss)[1] = Len(F) /\ Len(F) \in Nat
    BY <1>1, <1>2, <1>4 DEF Sizes
  <2> HIDE DEF g, F
  <2> QED BY <2>1, <2>2
<1>7. g[1] <= g[n] /\ g[n] = Len(FlattenSeq(ss))
  <2>1. 1 \in 0..Len(Sizes(ss)) /\ n \in 1..Len(Sizes(ss))
    BY <1>1, <1>5
  <2>2. g[1] <= g[n]
    BY <1>5, <2>1, SumsAscend
  <2> QED BY <1>5, <2>2 DEF Sum
<1>8. F \in Seq(Byte) /\ Len(F) \in Nat
  BY <1>1, FrameBytes, Zenon
<1> HIDE DEF g, F
<1>9. \A i \in 1..Len(F) : FlattenSeq(ss)[i] = F[i]
  <2>1. ss[1] = F
    BY <1>1, <1>2, Zenon DEF F
  <2>2. \A i \in 1..Len(F) : g[1 - 1] + i = i
    BY <1>6, <1>8
  <2>3. \A i \in 1..Len(ss[1]) : FlattenSeq(ss)[g[1 - 1] + i] = ss[1][i]
    BY <1>1, <1>5
  <2> QED BY <2>1, <2>2, <2>3, Zenon
<1>10. ASSUME n # 1 PROVE FlattenSeq(ss)[Len(F) + 1] = 171
  <2>1. 2 \in 1..n /\ g[2 - 1] = g[1]
    BY <1>1, <1>10
  <2>2. ss[2] = Frame(wire[2]) /\ wire[2] \in Messages
    BY <1>1, <1>2, <2>1, Zenon
  <2>3. Len(Frame(wire[2])) \in Nat /\ Len(Frame(wire[2])) >= 1 /\ Frame(wire[2])[1] = 171
    BY <2>2, FrameBytes DEF HEADER_SIZE
  <2>4. 1 \in 1..Len(ss[2])
    BY <2>2, <2>3
  <2>5. FlattenSeq(ss)[Len(F) + 1] = ss[2][1]
    <3>1. \A i \in 1..Len(ss[2]) : FlattenSeq(ss)[g[2 - 1] + i] = ss[2][i]
      BY <1>5, <2>1
    <3>2. FlattenSeq(ss)[g[2 - 1] + 1] = ss[2][1]
      BY <2>4, <3>1, Zenon
    <3> QED BY <1>6, <2>1, <3>2, Zenon
  <2> QED BY <2>2, <2>3, <2>5
<1>11. Len(FlattenSeq(ss)) \in Nat /\ (n = 1 => Len(FlattenSeq(ss)) = Len(F)) /\ Len(F) <= Len(FlattenSeq(ss))
  BY <1>5, <1>6, <1>7
<1>12. wire[1] \in Messages /\ wire[n] \in Messages
  <2>1. n \in 1..n
    BY <1>1
  <2> QED BY <1>1, <2>1, Zenon
<1> DEFINE line == Line(n)
<1> HIDE DEF line
<1>13. line = FlattenSeq(ss)
  BY <1>3, Zenon DEF line
<1>14. /\ line \in Seq(Byte) /\ Len(F) <= Len(line) /\ Len(line) \in Nat
       /\ \A i \in 1..Len(F) : line[i] = F[i]
       /\ n = 1 => Len(line) = Len(F)
  BY <1>5, <1>9, <1>11, <1>13, Zenon
<1>15. n # 1 => line[Len(F) + 1] = 171
  BY <1>10, <1>13
<1> QED BY <1>12, <1>14, <1>15, Zenon DEF F, line

(* The bytes of a piece of the line.                                       *)
LEMMA PieceBytes ==
    ASSUME NEW line \in Seq(Byte), NEW from \in Nat, NEW to \in Int, to <= Len(line),
           SubSeq(line, from + 1, to) # <<>>
    PROVE  LET raw == SubSeq(line, from + 1, to)
           IN  /\ raw \in Seq(Byte) /\ Len(raw) \in Nat /\ Len(raw) = to - from
               /\ \A i \in 1..Len(raw) : raw[i] = line[from + i]
<1>1. from + 1 <= to
  <2>1. to < from + 1 => SubSeq(line, from + 1, to) = <<>>
    OBVIOUS
  <2> QED BY <2>1
<1> DEFINE w == to - from
           raw == SubSeq(line, from + 1, from + w)
<1>2. w \in Nat /\ from + w = to /\ from + w <= Len(line)
  BY <1>1
<1> HIDE DEF w
<1>3. raw \in Seq(Byte) /\ Len(raw) = w /\ \A i \in 1..w : raw[i] = line[from + i]
  BY <1>2, Slice, Zenon
<1>4. raw = SubSeq(line, from + 1, to)
  BY <1>2, Zenon
<1> HIDE DEF raw
<1> QED BY <1>2, <1>3, <1>4, Zenon DEF w

(* A piece that is a frame is the first frame of the line, whole, unless   *)
(* it begins inside that frame at the mark of another.                     *)
LEMMA WholeFrame ==
    ASSUME wire \in Seq(Messages), NEW n \in DOMAIN wire,
           off \in Nat, off < Len(Frame(wire[1])), NEW short \in Nat,
           IsFrame(SubSeq(Line(n), off + 1, Len(Line(n)) - short)), Unmistakable(wire[1])
    PROVE  SubSeq(Line(n), off + 1, Len(Line(n)) - short) = Frame(wire[1])
<1> DEFINE line == Line(n)
           F == Frame(wire[1])
           to == Len(line) - short
           raw == SubSeq(line, off + 1, to)
<1>1. /\ line \in Seq(Byte) /\ Len(F) <= Len(line) /\ Len(line) \in Nat
      /\ n = 1 => Len(line) = Len(F)
      /\ n # 1 => line[Len(F) + 1] = 171
  BY LineBytes
<1>2. \A i \in 1..Len(F) : line[i] = F[i]
  BY LineBytes
<1>3. wire[1] \in Messages
  BY LineBytes
<1>4. F \in Seq(Byte) /\ Len(F) \in Nat /\ Len(F) = HEADER_SIZE + Len(Packet(wire[1])) /\ Len(Packet(wire[1])) \in Nat
  BY <1>3, FrameBytes, Zenon
<1>5. \A i \in 2..(Len(F) - 1) : ~(F[i] = 171 /\ F[i + 1] = 205)
  BY Zenon DEF Unmistakable
<1>6. off < Len(F)
  OBVIOUS
<1>7. IsFrame(raw)
  OBVIOUS
<1> HIDE DEF line, F
<1>8. to \in Int /\ to <= Len(line)
  BY <1>1
<1>9. raw # <<>>
  <2>1. Len(raw) >= HEADER_SIZE
    BY <1>7, Zenon DEF IsFrame
  <2> HIDE DEF raw
  <2> QED BY <2>1 DEF HEADER_SIZE
<1> HIDE DEF to
<1>10. raw \in Seq(Byte) /\ Len(raw) \in Nat /\ Len(raw) = to - off /\ \A i \in 1..Len(raw) : raw[i] = line[off + i]
  <2>1. line \in Seq(Byte) /\ off \in Nat /\ to \in Int /\ to <= Len(line) /\ SubSeq(line, off + 1, to) # <<>>
    BY <1>1, <1>8, <1>9
  <2> QED BY <2>1, PieceBytes, Zenon
<1> HIDE DEF raw
<1>11. /\ Len(raw) >= HEADER_SIZE /\ raw[1] = 171 /\ raw[2] = 205
       /\ Len(raw) = HEADER_SIZE + Number(SubSeq(raw, 6, 7))
  BY <1>7 DEF IsFrame
<1>12. line[off + 1] = 171 /\ line[off + 2] = 205
  <2>1. 1 \in 1..Len(raw) /\ 2 \in 1..Len(raw)
    BY <1>10, <1>11 DEF HEADER_SIZE
  <2>2. raw[1] = line[off + 1] /\ raw[2] = line[off + 2]
    BY <1>10, <2>1, Zenon
  <2> QED BY <1>11, <2>2
<1>13. off = 0
  <2>1. SUFFICES ASSUME off > 0 PROVE FALSE
    OBVIOUS
  <2>2. CASE off + 2 <= Len(F)
    <3>1. off + 1 \in 2..(Len(F) - 1) /\ (off + 1) + 1 = off + 2
      BY <1>4, <2>1, <2>2
    <3>2. line[off + 1] = F[off + 1] /\ line[off + 2] = F[off + 2]
      BY <1>2, <1>4, <2>1, <2>2
    <3>3. F[off + 1] = 171 /\ F[(off + 1) + 1] = 205
      BY <1>12, <3>1, <3>2
    <3> QED BY <1>5, <3>1, <3>3
  <2>3. CASE off + 1 = Len(F)
    <3>1. CASE n = 1
      <4>1. to - off <= 1
        BY <1>1, <1>4, <1>8, <2>3, <3>1
      <4>2. Len(raw) = to - off /\ Len(raw) >= HEADER_SIZE /\ Len(raw) \in Nat
        BY <1>10, <1>11, Zenon
      <4> QED BY <1>8, <4>1, <4>2 DEF HEADER_SIZE
    <3>2. CASE n # 1
      <4>1. off + 2 = Len(F) + 1
        BY <2>3
      <4>2. line[off + 2] = 171
        BY <1>1, <3>2, <4>1
      <4> QED BY <1>12, <4>2
    <3> QED BY <3>1, <3>2
  <2> QED BY <1>4, <1>6, <2>2, <2>3
<1>14. \A i \in 1..Len(raw) : raw[i] = line[i]
  <2>1. \A i \in 1..Len(raw) : off + i = i
    BY <1>10, <1>13
  <2> QED BY <1>10, <2>1, Zenon
<1>15. raw[6] = F[6] /\ raw[7] = F[7]
  <2>1. 6 \in 1..Len(raw) /\ 7 \in 1..Len(raw) /\ 6 \in 1..Len(F) /\ 7 \in 1..Len(F)
    BY <1>4, <1>10, <1>11 DEF HEADER_SIZE
  <2>2. raw[6] = line[6] /\ raw[7] = line[7]
    BY <1>14, <2>1, Zenon
  <2>3. line[6] = F[6] /\ line[7] = F[7]
    BY <1>2, <2>1, Zenon
  <2> QED BY <2>2, <2>3, Zenon
<1>16. Len(raw) = Len(F)
  <2>1. Number(SubSeq(raw, 6, 7)) = Len(Packet(wire[1]))
    <3> DEFINE m == wire[1]
    <3>1. m \in Messages /\ raw \in Seq(Byte) /\ Len(raw) >= HEADER_SIZE
      BY <1>3, <1>10, <1>11
    <3>2. raw[6] = Frame(m)[6] /\ raw[7] = Frame(m)[7]
      BY <1>15, Zenon DEF F
    <3> HIDE DEF m
    <3>3. Number(SubSeq(raw, 6, 7)) = Len(Packet(m))
      BY <3>1, <3>2, FrameLength
    <3> QED BY <3>3, Zenon DEF m
  <2>2. Len(raw) = HEADER_SIZE + Number(SubSeq(raw, 6, 7))
    BY <1>11
  <2>3. Len(F) = HEADER_SIZE + Len(Packet(wire[1]))
    BY <1>4
  <2> QED BY <2>1, <2>2, <2>3, Zenon
<1>17. \A i \in 1..Len(raw) : raw[i] = F[i]
  BY <1>2, <1>14, <1>16, Zenon
<1>18. raw = F
  <2>1. raw \in Seq(Byte) /\ F \in Seq(Byte)
    BY <1>4, <1>10
  <2> QED BY <1>16, <1>17, <2>1, SameBytes, Zenon
<1> QED BY <1>18, Zenon DEF raw, F, to, line

(***************************************************************************)
(* What a step processes.                                                  *)
(***************************************************************************)

(* A message that is processed is the first of the line, and the values    *)
(* are those of its payload.                                               *)
Carried(p, m) ==
    /\ m \in Messages /\ p.first = m
    /\ p.raw = Frame(m) /\ p.class = m.class
    /\ m.class[1] \in Reads(role)
    /\ role = "SLAVE" => m.id \in {ME, ALL}
    /\ p.was = statics[m.class]
    /\ \E junk \in Junk : p.values = Deserialized(m.class, Body(m), junk)

LEMMA Processing ==
    ASSUME TypeOK, NEW n \in DOMAIN wire, NEW short \in Cuts(n), Receive(n, short),
           processed' # NONE, Unmistakable(processed'.first)
    PROVE  Carried(processed', wire[1])
<1> DEFINE m == wire[1]
           raw == SubSeq(Line(n), off + 1, Len(Line(n)) - short)
           c == Class(raw)
           p == Content(raw)
<1>1. wire \in Seq(Messages) /\ off \in Nat
  BY DEF TypeOK
<1>2. wire # <<>> /\ m \in Messages
  BY <1>1
<1>3. off < Len(Frame(m))
  BY <1>2, Zenon DEF TypeOK
<1>4. short \in Nat
  <2>1. wire[n] \in Messages
    BY <1>1
  <2>2. Len(Frame(wire[n])) \in Nat
    BY <2>1, FrameBytes, Zenon
  <2>3. short \in 0..(Len(Frame(wire[n])) - 1)
    BY Zenon DEF Cuts
  <2> QED BY <2>2, <2>3
<1>5. Parses(raw)
  BY Zenon DEF Receive
<1>6. PICK junk \in Junk :
          processed' = [class |-> c, values |-> Deserialized(c, p, junk), was |-> statics[c],
                        raw |-> raw, first |-> m]
  BY <1>5, Zenon DEF Receive
<1> HIDE DEF c, p, raw
<1>7. /\ processed'.class = c /\ processed'.values = Deserialized(c, p, junk)
      /\ processed'.was = statics[c] /\ processed'.raw = raw /\ processed'.first = m
  BY <1>6
<1>8. IsFrame(raw) /\ Unmistakable(m)
  BY <1>5, <1>7, Zenon DEF Parses
<1>9. raw = Frame(m)
  <2>1. IsFrame(SubSeq(Line(n), off + 1, Len(Line(n)) - short)) /\ Unmistakable(wire[1])
    BY <1>8, Zenon DEF raw
  <2>2. SubSeq(Line(n), off + 1, Len(Line(n)) - short) = Frame(wire[1])
    BY <1>1, <1>3, <1>4, <2>1, WholeFrame
  <2> QED BY <2>2, Zenon DEF raw
<1>10. c = m.class /\ p = Body(m)
  BY <1>2, <1>9, FrameRead, Zenon DEF c, p
<1>11. m.class[1] \in Reads(role)
  <2>1. raw[3] \in Reads(role)
    BY <1>5, Zenon DEF Parses
  <2>2. Frame(m)[3] = m.class[1]
    BY <1>2, FrameBytes
  <2> QED BY <1>9, <2>1, <2>2, Zenon
<1>12. role = "SLAVE" => m.id \in {ME, ALL}
  <2> SUFFICES ASSUME role = "SLAVE" PROVE m.id \in {ME, ALL}
    OBVIOUS
  <2>1. m.class[1] = M2S
    <3>1. Reads(role) = {M2S}
      BY DEF Reads
    <3> QED BY <1>11, <3>1
  <2>2. raw[3] = M2S
    BY <1>2, <1>9, <2>1, FrameBytes
  <2>3. SubSeq(raw, HEADER_SIZE + 2, HEADER_SIZE + 5) \in {ME, ALL}
    BY <1>5, <2>2, Zenon DEF Parses
  <2>4. SubSeq(Frame(m), HEADER_SIZE + 2, HEADER_SIZE + 5) = m.id
    BY <1>2, <2>1, FrameRead, Zenon
  <2> QED BY <1>9, <2>3, <2>4, Zenon
<1>13. \E j \in Junk : processed'.values = Deserialized(m.class, Body(m), j)
  BY <1>7, <1>10, Zenon
<1> QED BY <1>2, <1>7, <1>9, <1>10, <1>11, <1>12, <1>13, Zenon DEF Carried

(* The values of a message of the same version.                            *)
LEMMA ValuesCarried ==
    ASSUME NEW p, NEW m, Carried(p, m), ~m.older
    PROVE  /\ p.values.entries = m.values.entries
           /\ \A k \in 1..Len(Layout[m.class].fields) : p.values.fields[k] = Received(m.class, m.values, k)
<1>1. m \in Messages /\ m.class \in Classes /\ Proper(m.class, m.values)
  BY MessageFacts, Zenon DEF Carried
<1>2. PICK junk \in Junk : p.values = Deserialized(m.class, Body(m), junk)
  BY Zenon DEF Carried
<1>3. junk \in Byte
  BY ProtocolAssumption
<1>4. Body(m) = Payload(m.class, m.values)
  BY Zenon DEF Body
<1> DEFINE c == m.class
           v == m.values
           d == Deserialized(c, Payload(c, v), junk)
<1>5. d.entries = v.entries /\ \A k \in 1..Len(Layout[c].fields) : d.fields[k] = Received(c, v, k)
  <2>1. c \in Classes /\ Proper(c, v)
    BY <1>1
  <2> HIDE DEF c, v
  <2> QED BY <1>3, <2>1, Delivered, Zenon
<1>6. p.values = d
  BY <1>2, <1>4, Zenon
<1> QED BY <1>5, <1>6, Zenon

(* The values in the place of an older answer or configuration.            *)
LEMMA OlderRefused ==
    ASSUME NEW p, NEW m, Carried(p, m), m.older, m.class # <<M2S, 48>>
    PROVE  p.values = p.was
<1> DEFINE c == m.class
           b == OlderPayload(c, m.values)
           l == Layout[c]
           h == Sum(l.fields)
<1>1. m \in Messages /\ c \in Classes /\ Proper(c, m.values) /\ HasOlder(c)
  BY MessageFacts, Zenon DEF Carried
<1>2. PICK junk \in Junk : p.values = Deserialized(c, Body(m), junk)
  BY Zenon DEF Carried
<1>3. Body(m) = b
  BY Zenon DEF Body
<1>4. l.size = "exact" /\ c \notin {M2S} \X {32, 33, 34}
  BY <1>1, OlderLayout, Zenon
<1>5. Len(b) # h
  <2>1. Len(b) = h - 1 /\ h \in Nat
    BY <1>1, OlderLength, SomeField, Zenon
  <2> HIDE DEF b, h
  <2> QED BY <2>1
<1>6. ~SizeFits(c, b)
  BY <1>4, <1>5 DEF SizeFits
<1>7. Deserialized(c, b, junk) = statics[c]
  <2>1. Kept(c) = statics[c]
    BY <1>4, Zenon DEF Kept
  <2>2. Deserialized(c, b, junk) = Kept(c)
    <3> HIDE DEF b
    <3> QED BY <1>4, <1>6 DEF Deserialized
  <2> QED BY <2>1, <2>2, Zenon
<1>8. p.was = statics[c]
  BY Zenon DEF Carried
<1> QED BY <1>2, <1>3, <1>7, <1>8, Zenon

(* The lock of an older RstMsg.                                            *)
LEMMA OlderReset ==
    ASSUME NEW p, NEW m, Carried(p, m), m.older, m.class = <<M2S, 48>>
    PROVE  p.values.fields[1] = m.values.fields[1]
<1> DEFINE c == m.class
           v == m.values
           P == Payload(c, v)
           l == Layout[c]
           h == Sum(l.fields)
           b == SubSeq(P, 1, 1)
<1>1. m \in Messages /\ c \in Classes /\ Proper(c, v)
  BY MessageFacts, Zenon DEF Carried
<1>2. PICK junk \in Junk : p.values = Deserialized(c, Body(m), junk)
  BY Zenon DEF Carried
<1>3. junk \in Byte
  BY ProtocolAssumption
<1>4. Body(m) = b
  BY Zenon DEF Body, OlderPayload
<1>5. c = <<M2S, 48>>
  OBVIOUS
<1>6. l.size = "logged" /\ l.fields[1] = 1
  <2>1. Suits(c, l)
    BY <1>1, LayoutSuits
  <2> HIDE DEF l, c
  <2> QED BY <1>5, <2>1 DEF Suits
<1>7. P \in Seq(Byte) /\ h <= Len(P) /\ h \in Nat /\ h > 0
  BY <1>1, PayloadLength, SomeField, Zenon
<1> HIDE DEF P
<1>8. b \in Seq(Byte) /\ Len(b) = 1 /\ b[1] = P[1]
  <2>1. 0 \in Nat /\ 1 \in Nat /\ 0 + 1 <= Len(P) /\ 0 + 1 = 1 /\ 1 \in 1..1
    BY <1>7
  <2>2. /\ SubSeq(P, 0 + 1, 0 + 1) \in Seq(Byte) /\ Len(SubSeq(P, 0 + 1, 0 + 1)) = 1
        /\ \A i \in 1..1 : SubSeq(P, 0 + 1, 0 + 1)[i] = P[0 + i]
    BY <1>7, <2>1, Slice
  <2>3. SubSeq(P, 0 + 1, 0 + 1) = b /\ P[0 + 1] = P[1]
    BY <2>1, Zenon
  <2>4. SubSeq(P, 0 + 1, 0 + 1)[1] = P[0 + 1]
    BY <2>1, <2>2, Zenon
  <2> HIDE DEF b
  <2> QED BY <2>2, <2>3, <2>4, Zenon
<1> DEFINE d == Padded(b, h, junk)
<1>9. p.values = [fields |-> Decode(l.fields, d), entries |-> Entries(c, b)]
  <2>1. SizeFits(c, b)
    BY <1>6 DEF SizeFits
  <2> QED BY <1>2, <1>4, <2>1, Zenon DEF Deserialized, Padded
<1> HIDE DEF b
<1>10. d \in Seq(Byte) /\ Len(d) = h /\ d[1] = P[1]
  <2>1. 1 \in 1..h /\ 1 <= Len(b)
    BY <1>7, <1>8
  <2>2. d \in Seq(Byte) /\ Len(d) = h /\ \A i \in 1..h : i <= Len(b) => d[i] = b[i]
    <3> HIDE DEF h
    <3> QED BY <1>3, <1>7, <1>8, Padding, Zenon
  <2> HIDE DEF d
  <2> QED BY <1>8, <2>1, <2>2
<1> HIDE DEF d
<1>11. Decode(l.fields, d)[1] = v.fields[1]
  <2>1. Sum(Layout[c].fields) <= Len(d)
    BY <1>7, <1>10
  <2>2. d[1] = Payload(c, v)[1] /\ Layout[c].fields[1] = 1
    BY <1>6, <1>10, Zenon DEF P
  <2> HIDE DEF c, v
  <2>3. Decode(Layout[c].fields, d)[1] = v.fields[1]
    BY <1>1, <1>10, <2>1, <2>2, FirstField, Zenon
  <2> QED BY <2>3, Zenon
<1>12. p.values.fields = Decode(l.fields, d)
  BY <1>9
<1> QED BY <1>11, <1>12, Zenon

(***************************************************************************)
(* Types.                                                                  *)
(***************************************************************************)

Values == \A c \in Classes : Typed(c, statics[c])

Queue ==
    /\ wire \in Seq(Messages)
    /\ off \in Nat /\ (wire = <<>> => off = 0)
    /\ wire # <<>> => off < Len(Frame(wire[1]))

LEMMA TypeParts ==
    TypeOK <=> /\ role \in {"MASTER", "SLAVE", "BACKEND"} /\ sent \in 0..MaxSent
               /\ Queue /\ DOMAIN statics = Classes /\ Values
  BY Zenon DEF TypeOK, Queue, Values, Typed

(* A frame has bytes.                                                      *)
LEMMA FrameSize ==
    ASSUME NEW m \in Messages
    PROVE  Len(Frame(m)) \in Nat /\ Len(Frame(m)) > 0
<1>1. Len(Frame(m)) = HEADER_SIZE + Len(Packet(m)) /\ Len(Packet(m)) \in Nat
  BY FrameBytes, Zenon
<1> QED BY <1>1 DEF HEADER_SIZE

(* The line after a step.                                                  *)
LEMMA QueueSend ==
    ASSUME Queue, Send
    PROVE  Queue'
<1>1. PICK m \in Messages : wire' = Append(wire, m)
  BY DEF Send
<1>2. off' = off /\ wire \in Seq(Messages) /\ off \in Nat
  BY DEF Send, Queue
<1>3. wire' \in Seq(Messages) /\ wire' # <<>>
  BY <1>1, <1>2
<1>4. CASE wire = <<>>
  <2>1. wire'[1] = m /\ off = 0
    BY <1>1, <1>4 DEF Queue
  <2>2. Len(Frame(m)) \in Nat /\ Len(Frame(m)) > 0
    BY FrameSize
  <2>3. off' < Len(Frame(wire'[1]))
    BY <1>2, <2>1, <2>2
  <2> QED BY <1>2, <1>3, <2>3, Zenon DEF Queue
<1>5. CASE wire # <<>>
  <2>1. wire'[1] = wire[1]
    BY <1>1, <1>2, <1>5
  <2>2. off' < Len(Frame(wire'[1]))
    BY <1>2, <1>5, <2>1, Zenon DEF Queue
  <2> QED BY <1>2, <1>3, <2>2, Zenon DEF Queue
<1> QED BY <1>4, <1>5

LEMMA QueueReceive ==
    ASSUME Queue, NEW n \in DOMAIN wire, NEW short \in Cuts(n), Receive(n, short)
    PROVE  Queue'
<1> DEFINE size == Len(Frame(wire[n]))
<1>1. wire \in Seq(Messages) /\ n \in 1..Len(wire) /\ Len(wire) \in Nat /\ n \in Nat /\ wire[n] \in Messages
  BY DEF Queue
<1>2. size \in Nat /\ size > 0
  BY <1>1, FrameSize
<1>3. short \in 0..(size - 1)
  BY Zenon DEF Cuts
<1>4. /\ wire' = SubSeq(wire, IF short = 0 THEN n + 1 ELSE n, Len(wire))
      /\ off' = IF short = 0 THEN 0 ELSE size - short
  BY Zenon DEF Receive
<1> HIDE DEF size
<1>5. CASE short = 0
  <2>1. wire' = SubSeq(wire, n + 1, Len(wire)) /\ off' = 0
    BY <1>4, <1>5
  <2>2. wire' \in Seq(Messages)
    BY <1>1, <2>1
  <2>3. wire' # <<>> => wire'[1] \in Messages
    BY <2>2
  <2>4. \A m \in Messages : 0 < Len(Frame(m))
    BY FrameSize
  <2>5. wire' # <<>> => off' < Len(Frame(wire'[1]))
    BY <2>1, <2>3, <2>4, Zenon
  <2>6. off' \in Nat
    BY <2>1
  <2> QED BY <2>1, <2>2, <2>5, <2>6, Zenon DEF Queue
<1>6. CASE short # 0
  <2>1. wire' = SubSeq(wire, n, Len(wire)) /\ off' = size - short
    BY <1>4, <1>6
  <2>2. wire' \in Seq(Messages) /\ wire' # <<>> /\ wire'[1] = wire[n]
    BY <1>1, <2>1
  <2>3. off' \in Nat /\ off' < size
    BY <1>2, <1>3, <1>6, <2>1
  <2> QED BY <2>2, <2>3, Zenon DEF Queue, size
<1> QED BY <1>5, <1>6

(* The content of a piece that parses is made of bytes.                    *)
LEMMA ContentBytes ==
    ASSUME NEW raw \in Seq(Byte), Parses(raw)
    PROVE  Class(raw) \in Classes /\ Content(raw) \in Seq(Byte)
<1>1. Class(raw) \in Classes /\ Len(raw) >= HEADER_SIZE + HeadSize(raw[3])
  BY Zenon DEF Parses
<1>2. raw[3] \in {M2S, S2M, B2M, M2B, S2B}
  <2>1. Class(raw)[1] = raw[3]
    BY DEF Class
  <2> QED BY <1>1, <2>1, ClassFacts, Zenon
<1>3. HeadSize(raw[3]) \in Nat
  <2>1. \A f \in {M2S, S2M, B2M, M2B, S2B} : HeadSize(f) = 1 \/ HeadSize(f) = 5 \/ HeadSize(f) = 7
    BY Families, Zenon
  <2>2. HeadSize(raw[3]) = 1 \/ HeadSize(raw[3]) = 5 \/ HeadSize(raw[3]) = 7
    BY <1>2, <2>1, Zenon
  <2> QED BY <2>2
<1> DEFINE a == HEADER_SIZE + HeadSize(raw[3])
           w == Len(raw) - a
<1>4. a \in Nat /\ w \in Nat /\ a + w <= Len(raw) /\ a + w = Len(raw)
  <2>1. HEADER_SIZE \in Nat /\ Len(raw) \in Nat
    BY DEF HEADER_SIZE
  <2> QED BY <1>1, <1>3, <2>1
<1>5. Content(raw) = SubSeq(raw, a + 1, Len(raw))
  BY Zenon DEF Content
<1> HIDE DEF a, w
<1>6. SubSeq(raw, a + 1, a + w) \in Seq(Byte)
  BY <1>4, Slice
<1> QED BY <1>1, <1>4, <1>5, <1>6, Zenon

LEMMA ValuesReceive ==
    ASSUME TypeOK, NEW n \in DOMAIN wire, NEW short \in Cuts(n), Receive(n, short)
    PROVE  DOMAIN statics' = Classes /\ Values'
<1> DEFINE raw == SubSeq(Line(n), off + 1, Len(Line(n)) - short)
           c == Class(raw)
           p == Content(raw)
<1>1. wire \in Seq(Messages) /\ off \in Nat /\ DOMAIN statics = Classes /\ Values /\ n \in 1..Len(wire)
  BY TypeParts DEF Queue
<1>2. short \in Nat
  <2>1. Len(Frame(wire[n])) \in Nat
    BY <1>1, FrameSize
  <2>2. short \in 0..(Len(Frame(wire[n])) - 1)
    BY Zenon DEF Cuts
  <2> QED BY <2>1, <2>2
<1>3. raw # <<>>
  BY Zenon DEF Receive
<1>4. raw \in Seq(Byte)
  <2> DEFINE line == Line(n)
             to == Len(line) - short
  <2>1. line \in Seq(Byte) /\ Len(line) \in Nat
    BY <1>1, LineBytes, Zenon
  <2> HIDE DEF line
  <2>2. to \in Int /\ to <= Len(line)
    BY <1>2, <2>1
  <2> HIDE DEF to
  <2>3. SubSeq(line, off + 1, to) # <<>>
    BY <1>3, Zenon DEF line, to
  <2>4. SubSeq(line, off + 1, to) \in Seq(Byte)
    BY <1>1, <2>1, <2>2, <2>3, PieceBytes, Zenon
  <2> QED BY <2>4, Zenon DEF line, to
<1>5. CASE ~Parses(raw)
  <2>1. statics' = statics
    BY <1>5, Zenon DEF Receive
  <2> QED BY <1>1, <2>1 DEF Values, Typed
<1>6. CASE Parses(raw)
  <2>1. PICK junk \in Junk : statics' = [statics EXCEPT ![c] = Deserialized(c, p, junk)]
    BY <1>6, Zenon DEF Receive
  <2>2. junk \in Byte
    BY ProtocolAssumption
  <2>3. c \in Classes /\ p \in Seq(Byte)
    BY <1>4, <1>6, ContentBytes, Zenon
  <2> DEFINE v == Deserialized(c, p, junk)
  <2> HIDE DEF c, p
  <2>4. Typed(c, v)
    <3>1. Typed(c, statics[c])
      BY <1>1, <2>3, Zenon DEF Values
    <3> QED BY <2>2, <2>3, <3>1, DeserializedTyped, Zenon
  <2> HIDE DEF v
  <2>5. DOMAIN statics' = Classes /\ statics'[c] = v /\ \A d \in Classes : d # c => statics'[d] = statics[d]
    BY <1>1, <2>1, <2>3 DEF v
  <2>6. \A d \in Classes : Typed(d, statics'[d])
    BY <1>1, <2>4, <2>5, Zenon DEF Values
  <2> QED BY <2>5, <2>6, Zenon DEF Values, Typed
<1> QED BY <1>5, <1>6

(* At first every field is zero and every list empty.                      *)
LEMMA ValuesInit ==
    ASSUME statics = Zero
    PROVE  DOMAIN statics = Classes /\ Values
<1>1. DOMAIN statics = Classes
  BY DEF Zero
<1> QED BY <1>1, ZeroTyped, Zenon DEF Values

(* TypeOK: every value that is read fits its field.                        *)
THEOREM ProtocolTyping == Spec => []TypeOK
<1>1. Init => TypeOK
  <2> SUFFICES ASSUME Init PROVE TypeOK
    OBVIOUS
  <2>1. DOMAIN statics = Classes /\ Values
    BY ValuesInit DEF Init
  <2>2. Queue
    BY DEF Init, Queue
  <2>3. role \in {"MASTER", "SLAVE", "BACKEND"} /\ sent \in 0..MaxSent
    BY ProtocolAssumption DEF Init
  <2> QED BY <2>1, <2>2, <2>3, TypeParts, Zenon
<1>2. TypeOK /\ [Next]_vars => TypeOK'
  <2> SUFFICES ASSUME TypeOK, [Next]_vars PROVE TypeOK'
    OBVIOUS
  <2> DEFINE Parts == /\ role \in {"MASTER", "SLAVE", "BACKEND"} /\ sent \in 0..MaxSent
                      /\ Queue /\ DOMAIN statics = Classes /\ Values
  <2>1. Parts
    BY TypeParts, Zenon
  <2>2. CASE Send
    <3>1. Queue'
      BY <2>1, <2>2, QueueSend, Zenon
    <3>2. role' = role /\ statics' = statics /\ sent < MaxSent /\ sent' = sent + 1
      BY <2>2, Zenon DEF Send
    <3>3. sent' \in 0..MaxSent
      BY <2>1, <3>2, ProtocolAssumption
    <3>4. DOMAIN statics' = Classes /\ Values'
      BY <2>1, <3>2 DEF Values, Typed
    <3>5. Parts'
      BY <2>1, <3>1, <3>2, <3>3, <3>4, Zenon
    <3> QED BY <3>5, TypeParts, PTL
  <2>3. ASSUME NEW n \in DOMAIN wire, NEW short \in Cuts(n), Receive(n, short)
        PROVE  TypeOK'
    <3>1. Queue'
      BY <2>1, <2>3, QueueReceive, Zenon
    <3>2. DOMAIN statics' = Classes /\ Values'
      BY <2>3, ValuesReceive, Zenon
    <3>3. role' = role /\ sent' = sent
      BY <2>3, Zenon DEF Receive
    <3>4. Parts'
      BY <2>1, <3>1, <3>2, <3>3, Zenon
    <3> QED BY <3>4, TypeParts, PTL
  <2>4. CASE UNCHANGED vars
    <3>1. /\ role' = role /\ statics' = statics /\ wire' = wire /\ off' = off /\ sent' = sent
      BY <2>4, Zenon DEF vars
    <3>2. Queue'
      BY <2>1, <3>1 DEF Queue
    <3>3. DOMAIN statics' = Classes /\ Values'
      BY <2>1, <3>1 DEF Values, Typed
    <3>4. Parts'
      BY <2>1, <3>1, <3>2, <3>3, Zenon
    <3> QED BY <3>4, TypeParts, PTL
  <2> QED BY <2>2, <2>3, <2>4, Zenon DEF Next
<1> QED BY <1>1, <1>2, PTL DEF Spec

(***************************************************************************)
(* The properties: each step that processes a message makes them true.     *)
(***************************************************************************)

LEMMA StepProcesses ==
    ASSUME TypeOK, [Next]_vars
    PROVE  \/ processed' = processed /\ role' = role
           \/ /\ role' = role
              /\ processed' # NONE /\ Unmistakable(processed'.first) => Carried(processed', wire[1])
<1>1. CASE Send
  BY <1>1, Zenon DEF Send
<1>2. ASSUME NEW n \in DOMAIN wire, NEW short \in Cuts(n), Receive(n, short)
      PROVE  /\ role' = role
             /\ processed' # NONE /\ Unmistakable(processed'.first) => Carried(processed', wire[1])
  <2>1. role' = role
    BY <1>2, Zenon DEF Receive
  <2>2. processed' # NONE /\ Unmistakable(processed'.first) => Carried(processed', wire[1])
    BY <1>2, Processing, Zenon
  <2> QED BY <2>1, <2>2, Zenon
<1>3. CASE UNCHANGED vars
  BY <1>3, Zenon DEF vars
<1> QED BY <1>1, <1>2, <1>3, Zenon DEF Next

(* Whatever pieces the line is cut into, what the parser hands on is one   *)
(* frame, whole and alone, that a peer sent to this program, or a piece    *)
(* that begins inside a frame at the mark of another.                      *)
THEOREM MessagesAreFramesSent == Spec => []ProcessedAsSent
<1>1. Init => ProcessedAsSent
  BY Zenon DEF Init, ProcessedAsSent
<1>2. TypeOK /\ ProcessedAsSent /\ [Next]_vars => ProcessedAsSent'
  <2> SUFFICES ASSUME TypeOK, ProcessedAsSent, [Next]_vars PROVE ProcessedAsSent'
    OBVIOUS
  <2>1. CASE processed' = processed /\ role' = role
    BY <2>1 DEF ProcessedAsSent
  <2>2. CASE /\ role' = role
             /\ processed' # NONE /\ Unmistakable(processed'.first) => Carried(processed', wire[1])
    BY <2>2, Zenon DEF ProcessedAsSent, Carried
  <2> QED BY <2>1, <2>2, StepProcesses, Zenon
<1> QED BY <1>1, <1>2, ProtocolTyping, PTL DEF Spec

(* A message of the same version is processed with the values its sender   *)
(* had, whatever they are, but for the swapped bytes of the answer to      *)
(* ResCfgMsg.                                                              *)
THEOREM ValuesAreThoseSent == Spec => []ValuesArrive
<1>1. Init => ValuesArrive
  BY Zenon DEF Init, ValuesArrive
<1>2. TypeOK /\ ValuesArrive /\ [Next]_vars => ValuesArrive'
  <2> SUFFICES ASSUME TypeOK, ValuesArrive, [Next]_vars PROVE ValuesArrive'
    OBVIOUS
  <2>1. CASE processed' = processed /\ role' = role
    BY <2>1 DEF ValuesArrive
  <2>2. ASSUME processed' # NONE /\ Unmistakable(processed'.first) => Carried(processed', wire[1])
        PROVE  ValuesArrive'
    <3> DEFINE p == processed'
               m == processed'.first
               c == m.class
               v == m.values
    <3> SUFFICES ASSUME p # NONE, Unmistakable(m), ~m.older
                 PROVE  /\ p.values.entries = v.entries
                        /\ \A k \in DOMAIN v.fields :
                              p.values.fields[k] = IF p.class = <<S2M, 17>>
                                                   THEN Number(Reverse(Bytes(v.fields[k], Layout[<<S2M, 17>>].fields[k])))
                                                   ELSE v.fields[k]
      BY Zenon DEF ValuesArrive
    <3>1. Carried(p, m)
      BY <2>2, Zenon DEF Carried
    <3>2. m \in Messages /\ c \in Classes /\ Proper(c, v) /\ p.class = c
      BY <3>1, MessageFacts, Zenon DEF Carried
    <3> HIDE DEF p, m
    <3>3. /\ p.values.entries = v.entries
          /\ \A k \in 1..Len(Layout[c].fields) : p.values.fields[k] = Received(c, v, k)
      BY <3>1, ValuesCarried, Zenon
    <3>4. DOMAIN v.fields = 1..Len(Layout[c].fields)
      <4>1. DOMAIN v.fields = DOMAIN Layout[c].fields
        BY <3>2, Zenon DEF Proper
      <4> QED BY <3>2, <4>1, LayoutFacts
    <3> HIDE DEF c, v
    <3>5. ASSUME NEW k \in 1..Len(Layout[c].fields)
          PROVE  p.values.fields[k] = IF p.class = <<S2M, 17>>
                                      THEN Number(Reverse(Bytes(v.fields[k], Layout[<<S2M, 17>>].fields[k])))
                                      ELSE v.fields[k]
      <4>1. p.values.fields[k] = Received(c, v, k)
        BY <3>3, Zenon
      <4>2. CASE c = <<S2M, 17>>
        <5>1. Received(c, v, k) = Number(Reverse(Bytes(v.fields[k], Layout[c].fields[k])))
          BY <3>2, <4>2, ReceivedAsSent, Zenon
        <5> QED BY <3>2, <4>1, <4>2, <5>1, Zenon
      <4>3. CASE c # <<S2M, 17>>
        <5>1. Received(c, v, k) = v.fields[k]
          BY <3>2, <4>3, ReceivedAsSent, Zenon
        <5> QED BY <3>2, <4>1, <4>3, <5>1, Zenon
      <4> QED BY <4>2, <4>3, Zenon
    <3> QED BY <3>3, <3>4, <3>5, Zenon
  <2> QED BY <2>1, <2>2, StepProcesses, Zenon
<1> QED BY <1>1, <1>2, ProtocolTyping, PTL DEF Spec

(* Values that stay from an earlier message are processed in the place of  *)
(* an older answer or configuration, there always and nowhere else.        *)
THEOREM StaleValuesAreFromOlder == Spec => []StaleOnlyFromOlder
<1>1. Init => StaleOnlyFromOlder
  BY Zenon DEF Init, StaleOnlyFromOlder
<1>2. TypeOK /\ StaleOnlyFromOlder /\ [Next]_vars => StaleOnlyFromOlder'
  <2> SUFFICES ASSUME TypeOK, StaleOnlyFromOlder, [Next]_vars PROVE StaleOnlyFromOlder'
    OBVIOUS
  <2>1. CASE processed' = processed /\ role' = role
    BY <2>1 DEF StaleOnlyFromOlder
  <2>2. ASSUME processed' # NONE /\ Unmistakable(processed'.first) => Carried(processed', wire[1])
        PROVE  StaleOnlyFromOlder'
    <3> DEFINE p == processed'
               m == processed'.first
               c == m.class
               v == m.values
    <3> SUFFICES ASSUME p # NONE, Unmistakable(m)
                 PROVE  IF m.older /\ p.class # <<M2S, 48>>
                        THEN p.values = p.was
                        ELSE p.values.fields[1] = v.fields[1]
      BY Zenon DEF StaleOnlyFromOlder
    <3>1. Carried(p, m)
      BY <2>2, Zenon DEF Carried
    <3>2. m \in Messages /\ c \in Classes /\ Proper(c, v) /\ p.class = c
      BY <3>1, MessageFacts, Zenon DEF Carried
    <3> HIDE DEF p, m
    <3>3. CASE m.older /\ c # <<M2S, 48>>
      BY <3>1, <3>2, <3>3, OlderRefused, Zenon
    <3>4. CASE m.older /\ c = <<M2S, 48>>
      BY <3>1, <3>2, <3>4, OlderReset, Zenon
    <3>5. CASE ~m.older
      <4>1. 1 \in 1..Len(Layout[c].fields)
        <5>1. Len(Layout[c].fields) \in Nat /\ Len(Layout[c].fields) > 0
          BY <3>2, LayoutFacts
        <5> QED BY <5>1
      <4>2. p.values.fields[1] = Received(c, v, 1)
        BY <3>1, <3>5, <4>1, ValuesCarried, Zenon
      <4>3. Layout[c].order # "big" \/ Layout[c].fields[1] = 1
        BY <3>2, LayoutSuits DEF Suits, Shape
      <4>4. Received(c, v, 1) = v.fields[1]
        BY <3>2, <4>1, <4>3, ReceivedAsSent, Zenon
      <4> QED BY <3>5, <4>2, <4>4, Zenon
    <3> QED BY <3>3, <3>4, <3>5, Zenon
  <2> QED BY <2>1, <2>2, StepProcesses, Zenon
<1> QED BY <1>1, <1>2, ProtocolTyping, PTL DEF Spec
=============================================================================
