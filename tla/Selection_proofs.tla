---------------------------- MODULE Selection_proofs ----------------------------
(***************************************************************************)
(* What Selected makes of sequences of any length.  The provers cannot use  *)
(* an induction theorem about a predicate; induction is stated here about   *)
(* sets of natural numbers.                                                 *)
(***************************************************************************)
EXTENDS Selection, Integers, SequenceTheorems, WellFoundedInduction, TLAPS

\* A set of natural numbers has a least member.
LEMMA LeastMember ==
  ASSUME NEW T, T \subseteq Nat, T # {}
  PROVE  \E x \in T : \A y \in T : x <= y
<1> DEFINE Less == {p \in Nat \X Nat : p[1] < p[2]}
<1>1. IsWellFoundedOn(Less, Nat)
  BY NatLessThanWellFounded DEF OpToRel
<1>2. ASSUME NEW x \in Nat, NEW y \in Nat, ~ (<<y, x>> \in Less)
      PROVE  x <= y
  <2>1. <<y, x>> \in Nat \X Nat /\ <<y, x>>[1] = y /\ <<y, x>>[2] = x
    OBVIOUS
  <2>2. ~ (y < x)
    BY <1>2, <2>1
  <2> QED
    BY <2>2
<1> HIDE DEF Less
<1>3. \E x \in T : \A y \in T : ~ (<<y, x>> \in Less)
  BY <1>1, WFMin
<1> QED
  BY <1>2, <1>3

\* Induction: a set that has 0 and, with each number, the next one.
LEMMA Induction ==
  ASSUME NEW T, 0 \in T, \A n \in Nat : n \in T => n + 1 \in T
  PROVE  Nat \subseteq T
<1>1. SUFFICES ASSUME Nat \ T # {} PROVE FALSE
  OBVIOUS
<1>2. PICK x \in Nat \ T : \A y \in Nat \ T : x <= y
  BY <1>1, LeastMember
<1>3. x # 0 /\ x - 1 \in Nat
  BY <1>2
<1>4. x - 1 \in T
  BY <1>2, <1>3
<1> QED
  BY <1>2, <1>3, <1>4

-----------------------------------------------------------------------------

\* The sequences selected from the beginnings of s.
IsUpto(F, s, S) ==
  /\ F[0] = << >>
  /\ \A i \in 1 .. Len(s) :
       F[i] = IF s[i] \in S THEN Append(F[i - 1], s[i]) ELSE F[i - 1]

\* There is such a function: the recursive definition has a value.
LEMMA UptoExists ==
  ASSUME NEW A, NEW s \in Seq(A), NEW S
  PROVE  \E F \in [0 .. Len(s) -> Seq(A)] : IsUpto(F, s, S)
<1> DEFINE Step(x, i) == IF s[i] \in S THEN Append(x, s[i]) ELSE x
           Good(F, n) == F[0] = << >> /\ \A i \in 1 .. n : F[i] = Step(F[i - 1], i)
           T == {n \in Nat : n <= Len(s) => \E F \in [0 .. n -> Seq(A)] : Good(F, n)}
<1>1. 0 \in T
  <2> DEFINE F == [i \in 0 .. 0 |-> << >>]
  <2>1. F \in [0 .. 0 -> Seq(A)]
    OBVIOUS
  <2>2. Good(F, 0)
    OBVIOUS
  <2> QED
    BY <2>1, <2>2
<1>2. ASSUME NEW n \in Nat, n \in T, n + 1 <= Len(s) PROVE n + 1 \in T
  <2>1. PICK F \in [0 .. n -> Seq(A)] : Good(F, n)
    <3>1. n <= Len(s)
      BY <1>2
    <3> HIDE DEF Good
    <3> QED
      BY <1>2, <3>1
  <2> DEFINE G == [i \in 0 .. n + 1 |-> IF i = n + 1 THEN Step(F[n], n + 1) ELSE F[i]]
  <2>2. s[n + 1] \in A /\ F[n] \in Seq(A)
    BY <1>2
  <2>3. Step(F[n], n + 1) \in Seq(A)
    BY <2>2
  <2>4. G \in [0 .. n + 1 -> Seq(A)]
    <3> HIDE DEF Step
    <3> QED
      BY <2>3
  <2>5. Good(G, n + 1)
    <3>1. G[0] = << >>
      BY <2>1
    <3>2. ASSUME NEW i \in 1 .. n + 1 PROVE G[i] = Step(G[i - 1], i)
      <4>1. CASE i = n + 1
        <5>1. G[i] = Step(F[n], n + 1) /\ G[i - 1] = F[n]
          <6> HIDE DEF Step
          <6> QED
            BY <4>1
        <5> QED
          BY <4>1, <5>1
      <4>2. CASE i # n + 1
        <5>1. i \in 1 .. n /\ i - 1 \in 0 .. n
          BY <4>2
        <5>2. G[i] = F[i] /\ G[i - 1] = F[i - 1]
          <6> HIDE DEF Step
          <6> QED
            BY <4>2, <5>1
        <5> QED
          BY <2>1, <5>1, <5>2
      <4> QED
        BY <4>1, <4>2
    <3> QED
      BY <3>1, <3>2
  <2> HIDE DEF G, Good
  <2> QED
    BY <2>4, <2>5
<1>3. Nat \subseteq T
  <2>1. \A n \in Nat : n \in T => n + 1 \in T
    <3> SUFFICES ASSUME NEW n \in Nat, n \in T PROVE n + 1 \in T
      OBVIOUS
    <3>1. CASE n + 1 <= Len(s)
      <4> HIDE DEF T
      <4> QED
        BY <3>1, <1>2
    <3>2. CASE ~ (n + 1 <= Len(s))
      BY <3>2
    <3> QED
      BY <3>1, <3>2
  <2> HIDE DEF T
  <2> QED
    BY <1>1, <2>1, Induction
<1>4. Len(s) \in T
  <2> HIDE DEF T
  <2> QED
    BY <1>3
<1>5. \E F \in [0 .. Len(s) -> Seq(A)] : Good(F, Len(s))
  <2> HIDE DEF Good
  <2> QED
    BY <1>4
<1> QED
  BY <1>5 DEF IsUpto

\* Where two sequences agree, so does what is selected up to there.
LEMMA UptoAgrees ==
  ASSUME NEW A, NEW s \in Seq(A), NEW t \in Seq(A), NEW S, NEW F, NEW G,
         IsUpto(F, s, S), IsUpto(G, t, S),
         Len(s) <= Len(t), \A i \in 1 .. Len(s) : s[i] = t[i]
  PROVE  F[Len(s)] = G[Len(s)]
<1> DEFINE T == {n \in Nat : n <= Len(s) => F[n] = G[n]}
<1>1. 0 \in T
  BY DEF IsUpto
<1>2. ASSUME NEW n \in Nat, n \in T PROVE n + 1 \in T
  <2>1. CASE n + 1 <= Len(s)
    <3>1. n + 1 \in 1 .. Len(s) /\ n + 1 \in 1 .. Len(t) /\ (n + 1) - 1 = n
      BY <2>1
    <3>2. F[n] = G[n] /\ s[n + 1] = t[n + 1]
      BY <1>2, <2>1, <3>1
    <3>3. F[n + 1] = IF s[n + 1] \in S THEN Append(F[n], s[n + 1]) ELSE F[n]
      BY <3>1 DEF IsUpto
    <3>4. G[n + 1] = IF t[n + 1] \in S THEN Append(G[n], t[n + 1]) ELSE G[n]
      BY <3>1 DEF IsUpto
    <3> QED
      BY <3>2, <3>3, <3>4
  <2>2. CASE ~ (n + 1 <= Len(s))
    BY <2>2
  <2> QED
    BY <2>1, <2>2
<1>3. Nat \subseteq T
  <2> HIDE DEF T
  <2> QED
    BY <1>1, <1>2, Induction
<1>4. Len(s) \in T
  <2> HIDE DEF T
  <2> QED
    BY <1>3
<1> QED
  BY <1>4

\* What is selected is the last of them.
LEMMA SelectedIsUpto ==
  ASSUME NEW A, NEW s \in Seq(A), NEW S
  PROVE  \E F \in [0 .. Len(s) -> Seq(A)] :
           IsUpto(F, s, S) /\ Selected(s, S) = F[Len(s)]
<1> DEFINE Of(F) == [i \in 0 .. Len(s) |->
                       IF i = 0 THEN << >>
                       ELSE IF s[i] \in S THEN Append(F[i - 1], s[i]) ELSE F[i - 1]]
           U == CHOOSE F : F = Of(F)
<1>1. PICK F \in [0 .. Len(s) -> Seq(A)] : IsUpto(F, s, S)
  BY UptoExists
<1>2. F = Of(F)
  <2>1. F = [i \in 0 .. Len(s) |-> F[i]]
    OBVIOUS
  <2>2. ASSUME NEW i \in 0 .. Len(s)
        PROVE  F[i] = IF i = 0 THEN << >>
                      ELSE IF s[i] \in S THEN Append(F[i - 1], s[i]) ELSE F[i - 1]
    <3>1. CASE i = 0
      BY <1>1, <3>1 DEF IsUpto
    <3>2. CASE i # 0
      <4>1. i \in 1 .. Len(s)
        BY <3>2
      <4> QED
        BY <1>1, <3>2, <4>1 DEF IsUpto
    <3> QED
      BY <3>1, <3>2
  <2>3. [i \in 0 .. Len(s) |-> F[i]] = Of(F)
    BY <2>2
  <2> QED
    BY <2>1, <2>3
<1>3. U = Of(U)
  <2> HIDE DEF Of
  <2> QED
    BY <1>2
<1>4. Selected(s, S) = U[Len(s)]
  BY DEF Selected
<1> HIDE DEF U
<1>5. U[0] = << >>
  BY <1>3
<1>6. ASSUME NEW i \in 1 .. Len(s)
      PROVE  U[i] = IF s[i] \in S THEN Append(U[i - 1], s[i]) ELSE U[i - 1]
  <2>1. Len(s) \in Nat
    OBVIOUS
  <2>2. i \in 0 .. Len(s) /\ i # 0
    BY <2>1
  <2>3. Of(U)[i] = IF i = 0 THEN << >>
                   ELSE IF s[i] \in S THEN Append(U[i - 1], s[i]) ELSE U[i - 1]
    BY <2>2
  <2> QED
    BY <1>3, <2>2, <2>3
<1>7. IsUpto(U, s, S)
  BY <1>5, <1>6 DEF IsUpto
<1>8. F[Len(s)] = U[Len(s)]
  BY <1>1, <1>7, UptoAgrees
<1> QED
  BY <1>1, <1>4, <1>8

-----------------------------------------------------------------------------

\* Nothing is selected from nothing.
LEMMA SelectedEmpty ==
  ASSUME NEW S
  PROVE  Selected(<< >>, S) = << >>
<1>1. << >> \in Seq({}) /\ Len(<< >>) = 0
  OBVIOUS
<1>2. PICK F : IsUpto(F, << >>, S) /\ Selected(<< >>, S) = F[0]
  BY <1>1, SelectedIsUpto
<1> QED
  BY <1>2 DEF IsUpto

\* Another element at the end is selected, or not, without regard to the rest.
LEMMA SelectedAppend ==
  ASSUME NEW A, NEW s \in Seq(A), NEW e \in A, NEW S
  PROVE  Selected(Append(s, e), S) =
           IF e \in S THEN Append(Selected(s, S), e) ELSE Selected(s, S)
<1> DEFINE t == Append(s, e)
<1>1. t \in Seq(A) /\ Len(t) = Len(s) + 1 /\ t[Len(t)] = e /\ Len(s) \in Nat
      /\ \A i \in 1 .. Len(s) : s[i] = t[i]
  BY AppendProperties
<1> HIDE DEF t
<1>2. PICK F : IsUpto(F, s, S) /\ Selected(s, S) = F[Len(s)]
  BY SelectedIsUpto
<1>3. PICK G : IsUpto(G, t, S) /\ Selected(t, S) = G[Len(t)]
  BY <1>1, SelectedIsUpto
<1>4. F[Len(s)] = G[Len(s)]
  BY <1>1, <1>2, <1>3, UptoAgrees
<1>5. Len(t) \in 1 .. Len(t) /\ Len(t) - 1 = Len(s)
  BY <1>1
<1>6. G[Len(t)] = IF e \in S THEN Append(G[Len(s)], e) ELSE G[Len(s)]
  BY <1>1, <1>3, <1>5 DEF IsUpto
<1> QED
  BY <1>2, <1>3, <1>4, <1>6 DEF t

\* What is selected is of the set, and no longer than the whole.
LEMMA SelectedType ==
  ASSUME NEW A, NEW s \in Seq(A), NEW S
  PROVE  Selected(s, S) \in Seq(A \cap S) /\ Len(Selected(s, S)) <= Len(s)
<1>1. PICK F \in [0 .. Len(s) -> Seq(A)] :
        IsUpto(F, s, S) /\ Selected(s, S) = F[Len(s)]
  BY SelectedIsUpto
<1> DEFINE T == {n \in Nat : n <= Len(s) => F[n] \in Seq(A \cap S) /\ Len(F[n]) <= n}
<1>2. 0 \in T
  BY <1>1 DEF IsUpto
<1>3. ASSUME NEW n \in Nat, n \in T PROVE n + 1 \in T
  <2>1. CASE n + 1 <= Len(s)
    <3>1. n + 1 \in 1 .. Len(s) /\ (n + 1) - 1 = n /\ s[n + 1] \in A
      BY <2>1
    <3>2. F[n] \in Seq(A \cap S) /\ Len(F[n]) <= n
      BY <1>3, <2>1
    <3>3. F[n + 1] = IF s[n + 1] \in S THEN Append(F[n], s[n + 1]) ELSE F[n]
      BY <1>1, <3>1 DEF IsUpto
    <3>4. F[n + 1] \in Seq(A \cap S) /\ Len(F[n + 1]) <= n + 1
      <4>1. CASE s[n + 1] \in S
        <5>1. s[n + 1] \in A \cap S
          BY <3>1, <4>1
        <5>2. Append(F[n], s[n + 1]) \in Seq(A \cap S)
              /\ Len(Append(F[n], s[n + 1])) = Len(F[n]) + 1
          BY <3>2, <5>1, AppendProperties
        <5>3. Len(F[n]) \in Nat
          BY <3>2
        <5> QED
          BY <3>2, <3>3, <4>1, <5>2, <5>3
      <4>2. CASE s[n + 1] \notin S
        <5>1. Len(F[n]) \in Nat
          BY <3>2
        <5> QED
          BY <3>2, <3>3, <4>2, <5>1
      <4> QED
        BY <4>1, <4>2
    <3> QED
      BY <3>4
  <2>2. CASE ~ (n + 1 <= Len(s))
    BY <2>2
  <2> QED
    BY <2>1, <2>2
<1>4. Nat \subseteq T
  <2> HIDE DEF T
  <2> QED
    BY <1>2, <1>3, Induction
<1>5. Len(s) \in T
  <2> HIDE DEF T
  <2> QED
    BY <1>4
<1> QED
  BY <1>1, <1>5

\* All of a sequence is selected when every element is of the set.
LEMMA SelectedAll ==
  ASSUME NEW S, NEW s \in Seq(S)
  PROVE  Selected(s, S) = s
<1>1. PICK F \in [0 .. Len(s) -> Seq(S)] :
        IsUpto(F, s, S) /\ Selected(s, S) = F[Len(s)]
  BY SelectedIsUpto
<1> DEFINE T == {n \in Nat : n <= Len(s) =>
                   Len(F[n]) = n /\ \A i \in 1 .. n : F[n][i] = s[i]}
<1>2. 0 \in T
  BY <1>1 DEF IsUpto
<1>3. ASSUME NEW n \in Nat, n \in T PROVE n + 1 \in T
  <2>1. CASE n + 1 <= Len(s)
    <3>1. n + 1 \in 1 .. Len(s) /\ n \in 0 .. Len(s) /\ (n + 1) - 1 = n /\ s[n + 1] \in S
      BY <2>1
    <3>2. F[n] \in Seq(S) /\ Len(F[n]) = n /\ \A i \in 1 .. n : F[n][i] = s[i]
      BY <1>1, <1>3, <2>1, <3>1
    <3>3. F[n + 1] = Append(F[n], s[n + 1])
      BY <1>1, <3>1 DEF IsUpto
    <3>4. Len(F[n + 1]) = n + 1 /\ \A i \in 1 .. n + 1 : F[n + 1][i] = s[i]
      <4>1. Len(F[n + 1]) = n + 1 /\ F[n + 1][n + 1] = s[n + 1]
            /\ \A i \in 1 .. n : F[n + 1][i] = F[n][i]
        BY <3>1, <3>2, <3>3, AppendProperties
      <4>2. \A i \in 1 .. n + 1 : i \in 1 .. n \/ i = n + 1
        OBVIOUS
      <4> QED
        BY <3>2, <4>1, <4>2
    <3> QED
      BY <3>4
  <2>2. CASE ~ (n + 1 <= Len(s))
    BY <2>2
  <2> QED
    BY <2>1, <2>2
<1>4. Nat \subseteq T
  <2> HIDE DEF T
  <2> QED
    BY <1>2, <1>3, Induction
<1>5. Len(s) \in T
  <2> HIDE DEF T
  <2> QED
    BY <1>4
<1>6. F[Len(s)] \in Seq(S) /\ Len(F[Len(s)]) = Len(s) /\ \A i \in 1 .. Len(s) : F[Len(s)][i] = s[i]
  BY <1>1, <1>5
<1> QED
  BY <1>1, <1>6, SeqEqual
=============================================================================
