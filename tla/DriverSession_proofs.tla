------------------------ MODULE DriverSession_proofs ------------------------
(***************************************************************************)
(* Theorems about DriverSession: its types, that an xRV never runs a part   *)
(* of a file, and that a success is one.                                    *)
(***************************************************************************)
EXTENDS DriverSession, Selection_proofs, TLAPS

-----------------------------------------------------------------------------
(* Least and greatest numbers of a set.                                    *)

\* The least is one of them, and no other is less.
LEMMA MinIs ==
  ASSUME NEW S, S \subseteq Nat, S # {}
  PROVE  Min(S) \in S /\ \A y \in S : Min(S) <= y
<1>1. \E x \in S : \A y \in S : x <= y
  BY LeastMember
<1> QED
  BY <1>1 DEF Min

\* The greatest is one of them, and no other is greater.
LEMMA MaxIs ==
  ASSUME NEW S, S \subseteq Nat, S # {}, NEW b \in Nat, \A y \in S : y <= b
  PROVE  Max(S) \in S /\ \A y \in S : Max(S) >= y
<1> DEFINE T == {u \in Nat : \A y \in S : u >= y}
<1>1. b \in T
  OBVIOUS
<1>2. PICK u \in T : \A v \in T : u <= v
  <2>1. T \subseteq Nat /\ T # {}
    BY <1>1
  <2> HIDE DEF T
  <2> QED
    BY <2>1, LeastMember
<1>3. u \in S
  <2>1. SUFFICES ASSUME u \notin S PROVE FALSE
    OBVIOUS
  <2>2. PICK y \in S : TRUE
    OBVIOUS
  <2>3. u # 0
    BY <1>2, <2>1, <2>2
  <2>4. u - 1 \in T
    BY <1>2, <2>1, <2>3
  <2> QED
    BY <1>2, <2>4
<1>4. \E x \in S : \A y \in S : x >= y
  BY <1>2, <1>3
<1> QED
  BY <1>4 DEF Max

-----------------------------------------------------------------------------
(* The lines that are sent.                                                *)

\* s is the members of S in order.
Sorted(s, S) ==
  /\ s \in Seq(S)
  /\ \A j, k \in 1 .. Len(s) : j < k => s[j] < s[k]
  /\ \A i \in S : \E j \in 1 .. Len(s) : s[j] = i

\* Another number, greater than those that are there.
LEMMA SortedAppend ==
  ASSUME NEW S, S \subseteq Nat, NEW s, Sorted(s, S), NEW e \in Nat, \A i \in S : i < e
  PROVE  Sorted(Append(s, e), S \cup {e})
<1>1. s \in Seq(S) /\ s \in Seq(S \cup {e}) /\ Len(s) \in Nat
  BY DEF Sorted
<1> DEFINE t == Append(s, e)
<1>2. t \in Seq(S \cup {e}) /\ Len(t) = Len(s) + 1 /\ t[Len(s) + 1] = e
      /\ \A i \in 1 .. Len(s) : t[i] = s[i]
  BY <1>1, AppendProperties
<1> HIDE DEF t
<1>3. ASSUME NEW i \in 1 .. Len(s) PROVE s[i] \in S /\ s[i] < e
  <2>1. s[i] \in S
    BY <1>1
  <2> QED
    BY <2>1
<1>4. ASSUME NEW j \in 1 .. Len(t), NEW k \in 1 .. Len(t), j < k PROVE t[j] < t[k]
  <2>1. j \in 1 .. Len(s)
    BY <1>1, <1>2, <1>4
  <2>2. CASE k = Len(s) + 1
    BY <1>2, <1>3, <2>1, <2>2
  <2>3. CASE k # Len(s) + 1
    <3>1. k \in 1 .. Len(s)
      BY <1>1, <1>2, <2>3
    <3> QED
      BY <1>2, <1>4, <2>1, <3>1 DEF Sorted
  <2> QED
    BY <2>2, <2>3
<1>5. ASSUME NEW i \in S \cup {e} PROVE \E j \in 1 .. Len(t) : t[j] = i
  <2>1. CASE i = e
    <3>1. Len(s) + 1 \in 1 .. Len(t)
      BY <1>1, <1>2
    <3> QED
      BY <1>2, <2>1, <3>1
  <2>2. CASE i # e
    <3>1. PICK j \in 1 .. Len(s) : s[j] = i
      BY <1>5, <2>2 DEF Sorted
    <3>2. j \in 1 .. Len(t) /\ t[j] = i
      BY <1>1, <1>2, <3>1
    <3> QED
      BY <3>2
  <2> QED
    BY <2>1, <2>2
<1> QED
  BY <1>2, <1>4, <1>5 DEF Sorted, t

\* SentLines puts the lines of Sent in order.
LEMMA SentLinesSorted ==
  ASSUME NEW d, NEW f, f \in Seq(LineKind)
  PROVE  Sorted(SentLines(d, f), Sent(d, f))
<1> DEFINE K == Sent(d, f)
           s == [i \in DOMAIN f |-> i]
<1>1. s \in Seq(Nat) /\ Len(s) = Len(f) /\ Len(f) \in Nat
      /\ \A i \in 1 .. Len(f) : s[i] = i
  OBVIOUS
<1>2. K \subseteq 1 .. Len(f)
  BY DEF Sent
<1>3. SentLines(d, f) = Selected(s, K)
  BY DEF SentLines
<1> HIDE DEF K, s
<1>4. PICK F \in [0 .. Len(s) -> Seq(Nat)] : IsUpto(F, s, K) /\ Selected(s, K) = F[Len(s)]
  BY <1>1, SelectedIsUpto
<1> DEFINE Upto(n) == {i \in K : i <= n}
           T == {n \in Nat : n <= Len(f) => Sorted(F[n], Upto(n))}
<1>5. 0 \in T
  <2>1. Upto(0) = {}
    BY <1>2
  <2>2. F[0] = << >>
    BY <1>4 DEF IsUpto
  <2>3. Sorted(<< >>, {})
    BY DEF Sorted
  <2> QED
    BY <2>1, <2>2, <2>3
<1>6. ASSUME NEW n \in Nat, n \in T PROVE n + 1 \in T
  <2>1. CASE n + 1 <= Len(f)
    <3>1. n + 1 \in 1 .. Len(s) /\ (n + 1) - 1 = n /\ s[n + 1] = n + 1
      BY <1>1, <2>1
    <3>2. Sorted(F[n], Upto(n))
      BY <1>1, <1>6, <2>1
    <3>3. F[n + 1] = IF n + 1 \in K THEN Append(F[n], n + 1) ELSE F[n]
      BY <1>4, <3>1 DEF IsUpto
    <3>4. CASE n + 1 \in K
      <4>1. Upto(n + 1) = Upto(n) \cup {n + 1}
        BY <1>2, <3>4
      <4>2. Upto(n) \subseteq Nat /\ \A i \in Upto(n) : i < n + 1
        BY <1>2
      <4> HIDE DEF Upto
      <4>3. Sorted(Append(F[n], n + 1), Upto(n) \cup {n + 1})
        BY <3>2, <4>2, SortedAppend
      <4>4. Sorted(F[n + 1], Upto(n + 1))
        BY <3>3, <3>4, <4>1, <4>3
      <4> QED
        BY <4>4
    <3>5. CASE n + 1 \notin K
      <4>1. Upto(n + 1) = Upto(n)
        <5>1. ASSUME NEW i \in K PROVE i <= n + 1 <=> i <= n
          <6>1. i \in 1 .. Len(f) /\ i # n + 1
            BY <1>2, <3>5
          <6> QED
            BY <6>1
        <5> QED
          BY <5>1
      <4> HIDE DEF Upto
      <4> QED
        BY <3>2, <3>3, <3>5, <4>1
    <3> QED
      BY <3>4, <3>5
  <2>2. CASE ~ (n + 1 <= Len(f))
    BY <2>2
  <2> QED
    BY <2>1, <2>2
<1>7. Len(f) \in T
  <2>1. Len(f) \in Nat
    BY <1>1
  <2> HIDE DEF T
  <2> QED
    BY <1>5, <1>6, <2>1, Induction
<1>8. Sorted(F[Len(f)], Upto(Len(f)))
  BY <1>1, <1>7
<1>9. Upto(Len(f)) = K
  <2>1. ASSUME NEW i \in K PROVE i <= Len(f)
    BY <1>1, <1>2
  <2> QED
    BY <2>1
<1> HIDE DEF Upto, T
<1> QED
  BY <1>1, <1>3, <1>4, <1>8, <1>9 DEF K

-----------------------------------------------------------------------------
(* Sections.                                                               *)

Opens(f, j) == f[j] \in {"header", "filtered"} \cup Single

\* The section a router is in, and what it has taken, after line i.
Inside(f, kept, i) ==
  LET o == Opened(f, kept, i)
  IN  IF o = 0 THEN 0 ELSE IF f[o] \in Single THEN 0 ELSE o
Part(f, kept, i) == {e \in Meaning(f, kept) : e[1] <= i}

\* Opened is the last line up to i that opens a section, or stands for itself.
LEMMA OpenedIs ==
  ASSUME NEW f, NEW kept, kept \subseteq Nat \ {0}, NEW i \in Nat
  PROVE  /\ Opened(f, kept, i) \in Nat
         /\ Opened(f, kept, i) # 0 =>
              /\ Opened(f, kept, i) \in kept /\ Opened(f, kept, i) <= i
              /\ Opens(f, Opened(f, kept, i))
         /\ \A j \in kept : j <= i /\ Opens(f, j) => j <= Opened(f, kept, i)
<1> DEFINE S == {0} \cup {j \in kept : j <= i /\ Opens(f, j)}
<1>1. S \subseteq Nat /\ S # {} /\ \A y \in S : y <= i
  <2>1. ASSUME NEW y \in S PROVE y \in Nat /\ y <= i
    <3>1. CASE y = 0
      BY <3>1
    <3>2. CASE y # 0
      BY <3>2
    <3> QED
      BY <3>1, <3>2
  <2>2. 0 \in S
    OBVIOUS
  <2> HIDE DEF S
  <2> QED
    BY <2>1, <2>2
<1>2. Opened(f, kept, i) = Max(S)
  BY DEF Opened, Opens
<1>3. Max(S) \in S /\ \A y \in S : Max(S) >= y
  <2> HIDE DEF S
  <2> QED
    BY <1>1, MaxIs
<1>4. Max(S) \in Nat
  <2> HIDE DEF S
  <2> QED
    BY <1>1, <1>3
<1>5. ASSUME NEW j \in kept, j <= i, Opens(f, j) PROVE j <= Max(S)
  <2>1. j \in S
    BY <1>5
  <2>2. j \in Nat
    OBVIOUS
  <2> HIDE DEF S
  <2> QED
    BY <1>3, <1>4, <2>1, <2>2
<1>6. Max(S) # 0 => Max(S) \in kept /\ Max(S) <= i /\ Opens(f, Max(S))
  BY <1>3
<1> HIDE DEF S
<1> QED
  BY <1>2, <1>4, <1>5, <1>6

\* A line that opens a section is in it itself; any other is in the section of
\* the line before it.
LEMMA OpenedNext ==
  ASSUME NEW f, NEW kept, kept \subseteq Nat \ {0}, NEW i \in kept, NEW p \in Nat,
         p < i, \A j \in kept : j < i => j <= p
  PROVE  Opened(f, kept, i) = IF Opens(f, i) THEN i ELSE Opened(f, kept, p)
<1> DEFINE o == Opened(f, kept, i)
           q == Opened(f, kept, p)
<1>1. i \in Nat /\ i # 0
  OBVIOUS
<1>2. /\ o \in Nat
      /\ o # 0 => o \in kept /\ o <= i /\ Opens(f, o)
      /\ \A j \in kept : j <= i /\ Opens(f, j) => j <= o
  BY <1>1, OpenedIs
<1>3. /\ q \in Nat
      /\ q # 0 => q \in kept /\ q <= p /\ Opens(f, q)
      /\ \A j \in kept : j <= p /\ Opens(f, j) => j <= q
  BY <1>1, OpenedIs
<1> HIDE DEF o, q
<1>4. CASE Opens(f, i)
  <2>1. i <= o
    BY <1>1, <1>2, <1>4
  <2> QED
    BY <1>1, <1>2, <1>4, <2>1 DEF o
<1>5. CASE ~ Opens(f, i)
  <2>1. o # 0 => o <= q
    <3>1. o # 0 => o \in kept /\ o < i /\ Opens(f, o)
      BY <1>1, <1>2, <1>5
    <3>2. o # 0 => o <= p
      BY <3>1
    <3> QED
      BY <1>3, <3>1, <3>2
  <2>2. q # 0 => q <= o
    BY <1>1, <1>2, <1>3
  <2>3. o = q
    BY <1>2, <1>3, <2>1, <2>2
  <2> QED
    BY <1>5, <2>3 DEF o, q
<1> QED
  BY <1>4, <1>5

\* A router takes the next line, i after p, as the file means it.
TakenOn(f, kept, p, i) ==
  LET now == Inside(f, kept, p)
      takes == f[i] \notin {"bad", "escape"} /\ (f[i] = "sub" => now # 0)
  IN  /\ Part(f, kept, i) =
           Part(f, kept, p) \cup
             (IF ~takes THEN {} ELSE {<<i, IF f[i] = "sub" THEN now ELSE i>>})
      /\ Inside(f, kept, i) =
           CASE f[i] \in Single                 -> 0
             [] f[i] \in {"header", "filtered"} -> i
             [] OTHER                           -> now

\* This is what it does with the next line that is kept.
LEMMA TakesNext ==
  ASSUME NEW f, NEW kept, kept \subseteq Nat \ {0}, NEW i \in kept, NEW p \in Nat,
         p < i, \A j \in kept : j < i => j <= p,
         f[i] \in LineKind, f[i] # "comment"
  PROVE  TakenOn(f, kept, p, i)
<1> DEFINE now == Inside(f, kept, p)
           takes == f[i] \notin {"bad", "escape"} /\ (f[i] = "sub" => now # 0)
           entry == IF ~takes THEN {} ELSE {<<i, IF f[i] = "sub" THEN now ELSE i>>}
           o == Opened(f, kept, i)
           Means(j) == /\ f[j] \notin {"bad", "escape"}
                       /\ f[j] = "sub" => Opened(f, kept, j) # 0 /\ f[Opened(f, kept, j)] \notin Single
<1>1. o = IF Opens(f, i) THEN i ELSE Opened(f, kept, p)
  BY OpenedNext
<1>2. i \in Nat /\ i # 0
  OBVIOUS
<1>3. Inside(f, kept, i) = CASE f[i] \in Single                 -> 0
                             [] f[i] \in {"header", "filtered"} -> i
                             [] OTHER                           -> now
  BY <1>1, <1>2 DEF Inside, Opens, Single
<1>4. Means(i) <=> takes
  BY <1>1, <1>2 DEF Inside, Opens, Single, LineKind
<1>5. takes => o = IF f[i] = "sub" THEN now ELSE i
  BY <1>1, <1>2 DEF Inside, Opens, Single, LineKind
<1>6. ASSUME NEW j \in kept PROVE j <= i <=> j <= p \/ j = i
  BY <1>2
<1>7. Meaning(f, kept) = {<<j, Opened(f, kept, j)>> : j \in {j \in kept : Means(j)}}
  BY DEF Meaning
<1> HIDE DEF Means, takes
<1>8. ASSUME NEW q \in Nat
      PROVE  Part(f, kept, q) = {<<j, Opened(f, kept, j)>> : j \in {j \in kept : Means(j) /\ j <= q}}
  BY <1>7 DEF Part
<1>9. Part(f, kept, i) = Part(f, kept, p) \cup entry
  <2>1. CASE takes
    <3>1. {j \in kept : Means(j) /\ j <= i} = {j \in kept : Means(j) /\ j <= p} \cup {i}
      BY <1>2, <1>4, <1>6, <2>1
    <3>2. entry = {<<i, o>>}
      BY <1>5, <2>1
    <3> QED
      BY <1>2, <1>8, <3>1, <3>2
  <2>2. CASE ~takes
    <3>1. {j \in kept : Means(j) /\ j <= i} = {j \in kept : Means(j) /\ j <= p}
      BY <1>2, <1>4, <1>6, <2>2
    <3>2. entry = {}
      BY <2>2
    <3> QED
      BY <1>2, <1>8, <3>1, <3>2
  <2> QED
    BY <2>1, <2>2
<1> QED
  BY <1>3, <1>9 DEF takes, TakenOn

\* Nothing at the start, all of it after the last line.
LEMMA PartEnds ==
  ASSUME NEW f, NEW kept, kept \subseteq Nat \ {0}
  PROVE  /\ Part(f, kept, 0) = {}
         /\ Inside(f, kept, 0) = 0
         /\ \A q \in Nat : (\A j \in kept : j <= q) => Part(f, kept, q) = Meaning(f, kept)
<1>1. ASSUME NEW e \in Meaning(f, kept) PROVE e[1] \in kept
  BY DEF Meaning
<1>2. Part(f, kept, 0) = {}
  <2>1. ASSUME NEW j \in kept PROVE ~ (j <= 0)
    <3>1. j \in Nat \ {0}
      OBVIOUS
    <3> QED
      BY <3>1
  <2> QED
    BY <1>1, <2>1 DEF Part
<1>3. Inside(f, kept, 0) = 0
  <2>1. 0 \in Nat
    OBVIOUS
  <2>2. /\ Opened(f, kept, 0) \in Nat
        /\ Opened(f, kept, 0) # 0 => Opened(f, kept, 0) \in kept /\ Opened(f, kept, 0) <= 0
    BY <2>1, OpenedIs
  <2>3. Opened(f, kept, 0) = 0
    BY <2>2
  <2> QED
    BY <2>3 DEF Inside
<1>4. ASSUME NEW q \in Nat, \A j \in kept : j <= q PROVE Part(f, kept, q) = Meaning(f, kept)
  BY <1>1, <1>4 DEF Part
<1> QED
  BY <1>2, <1>3, <1>4

\* What a file means is pairs of its lines.
LEMMA MeaningType ==
  ASSUME NEW f, NEW kept, kept \subseteq Nat \ {0},
         \A i \in kept : f[i] \in LineKind /\ f[i] # "comment"
  PROVE  Meaning(f, kept) \subseteq kept \X kept
<1>1. ASSUME NEW i \in kept, f[i] \notin {"bad", "escape"},
             f[i] = "sub" => Opened(f, kept, i) # 0 /\ f[Opened(f, kept, i)] \notin Single
      PROVE  Opened(f, kept, i) \in kept
  <2>1. i \in Nat
    OBVIOUS
  <2>2. /\ Opened(f, kept, i) \in Nat
        /\ Opened(f, kept, i) # 0 => Opened(f, kept, i) \in kept
        /\ \A j \in kept : j <= i /\ Opens(f, j) => j <= Opened(f, kept, i)
    BY <2>1, OpenedIs
  <2>3. CASE f[i] = "sub"
    BY <1>1, <2>2, <2>3
  <2>4. CASE f[i] # "sub"
    <3>1. Opens(f, i)
      BY <1>1, <2>4 DEF Opens, LineKind, Single
    <3>2. i <= Opened(f, kept, i) /\ i # 0
      BY <2>1, <2>2, <3>1
    <3> QED
      BY <2>1, <2>2, <3>2
  <2> QED
    BY <2>3, <2>4
<1> QED
  BY <1>1 DEF Meaning

-----------------------------------------------------------------------------
(* Scripts.                                                                *)

\* What a script may send, say and do.
Texts(f) ==
  {t \in Text : t.word = "line" => t.line \in DOMAIN f}
Reply == {"", "yes", "exit", "password", "terminal", "enable"}
Branch == [pattern : SUBSET Token, reply : Reply, go : {-1, 0, 1, 5}]
Sends(f) == [do : {"send"}, text : Texts(f)]
Expects == [do : {"expect"}, on : Seq(Branch), late : {-1, 1, 5}]
Waits == [do : {"wait"}, on : Seq(Branch)]
Eofs == [do : {"eof"}]
Steps(f) == Sends(f) \cup Expects \cup Waits \cup Eofs

LEMMA Joined2 ==
  ASSUME NEW A, NEW a \in Seq(A), NEW b \in Seq(A)
  PROVE  /\ a \o b \in Seq(A) /\ Len(a \o b) = Len(a) + Len(b)
         /\ \A i \in 1 .. Len(a) : (a \o b)[i] = a[i]
         /\ \A i \in 1 .. Len(b) : (a \o b)[Len(a) + i] = b[i]
<1> DEFINE t == a \o b
<1>1. t \in Seq(A) /\ Len(t) = Len(a) + Len(b) /\ Len(a) \in Nat /\ Len(b) \in Nat
      /\ \A i \in 1 .. Len(t) : t[i] = IF i <= Len(a) THEN a[i] ELSE b[i - Len(a)]
  BY ConcatProperties
<1> HIDE DEF t
<1>2. \A i \in 1 .. Len(a) : t[i] = a[i]
  BY <1>1
<1>3. ASSUME NEW i \in 1 .. Len(b) PROVE t[Len(a) + i] = b[i]
  <2>1. Len(a) + i \in 1 .. Len(t) /\ ~ (Len(a) + i <= Len(a)) /\ (Len(a) + i) - Len(a) = i
    BY <1>1
  <2> QED
    BY <1>1, <2>1
<1> QED
  BY <1>1, <1>2, <1>3 DEF t

\* s has a, then b, then c, and nothing else.
IsJoin(s, a, b, c) ==
  /\ Len(s) = Len(a) + Len(b) + Len(c)
  /\ \A i \in 1 .. Len(a) : s[i] = a[i]
  /\ \A i \in 1 .. Len(b) : s[Len(a) + i] = b[i]
  /\ \A i \in 1 .. Len(c) : s[Len(a) + Len(b) + i] = c[i]

LEMMA Joined ==
  ASSUME NEW A, NEW a \in Seq(A), NEW b \in Seq(A), NEW c \in Seq(A)
  PROVE  a \o b \o c \in Seq(A) /\ IsJoin(a \o b \o c, a, b, c)
<1>1. PICK t : t = a \o b
  OBVIOUS
<1>2. /\ t \in Seq(A) /\ Len(t) = Len(a) + Len(b)
      /\ \A i \in 1 .. Len(a) : t[i] = a[i]
      /\ \A i \in 1 .. Len(b) : t[Len(a) + i] = b[i]
  BY <1>1, Joined2
<1>3. PICK s : s = t \o c
  OBVIOUS
<1>4. /\ s \in Seq(A) /\ Len(s) = Len(t) + Len(c)
      /\ \A i \in 1 .. Len(t) : s[i] = t[i]
      /\ \A i \in 1 .. Len(c) : s[Len(t) + i] = c[i]
  <2>1. t \in Seq(A)
    BY <1>2
  <2> QED
    BY <1>3, <2>1, Joined2
<1>5. Len(a) \in Nat /\ Len(b) \in Nat
  OBVIOUS
<1>6. ASSUME NEW i \in 1 .. Len(a) PROVE s[i] = a[i]
  <2>1. i \in 1 .. Len(t)
    BY <1>2, <1>5
  <2> QED
    BY <1>2, <1>4, <2>1
<1>7. ASSUME NEW i \in 1 .. Len(b) PROVE s[Len(a) + i] = b[i]
  <2>1. Len(a) + i \in 1 .. Len(t)
    BY <1>2, <1>5
  <2> QED
    BY <1>2, <1>4, <2>1
<1>8. s \in Seq(A) /\ IsJoin(s, a, b, c)
  <2>1. \A i \in 1 .. Len(c) : s[Len(a) + Len(b) + i] = c[i]
    BY <1>2, <1>4
  <2>2. Len(s) = Len(a) + Len(b) + Len(c)
    BY <1>2, <1>4
  <2> QED
    BY <1>4, <1>6, <1>7, <2>1, <2>2 DEF IsJoin
<1> QED
  BY <1>1, <1>3, <1>8

\* Every script consists of such steps.
LEMMA StepTypes ==
  ASSUME NEW f
  PROVE  /\ \A w \in Word \ {"line"} : Say(w) \in Steps(f)
         /\ \A i \in DOMAIN f : i \in Line => Enter(i) \in Steps(f)
         /\ \A pattern \in SUBSET Token : Await(pattern) \in Steps(f)
         /\ \A on \in Seq(Branch), late \in {-1, 1, 5} : Expect(on, late) \in Steps(f)
         /\ \A on \in Seq(Branch) : [do |-> "wait", on |-> on] \in Steps(f)
         /\ Eof \in Steps(f)
<1>1. ASSUME NEW w \in Word \ {"line"} PROVE Say(w) \in Steps(f)
  BY DEF Say, Steps, Sends, Texts, Text
<1>2. ASSUME NEW i \in DOMAIN f, i \in Line PROVE Enter(i) \in Steps(f)
  BY <1>2 DEF Enter, Steps, Sends, Texts, Text, Word
<1>3. ASSUME NEW on \in Seq(Branch), NEW late \in {-1, 1, 5} PROVE Expect(on, late) \in Steps(f)
  BY DEF Expect, Steps, Expects
<1>4. ASSUME NEW pattern \in SUBSET Token PROVE Await(pattern) \in Steps(f)
  <2>1. <<On(pattern, "", 1)>> \in Seq(Branch)
    BY DEF On, Branch, Reply
  <2> QED
    BY <1>3, <2>1 DEF Await
<1>5. ASSUME NEW on \in Seq(Branch) PROVE [do |-> "wait", on |-> on] \in Steps(f)
  BY DEF Steps, Waits
<1>6. Eof \in Steps(f)
  BY DEF Eof, Steps, Eofs
<1> QED
  BY <1>1, <1>2, <1>3, <1>4, <1>5, <1>6

LEMMA XrvTypes ==
  ASSUME NEW f, NEW lines \in Seq(DOMAIN f \cap Line)
  PROVE  /\ XrvLogin \in Seq(Steps(f)) /\ Len(XrvLogin) = 6
         /\ XrvLines(lines) \in Seq(Steps(f)) /\ Len(XrvLines(lines)) = 2 * Len(lines)
         /\ XrvEnd \in Seq(Steps(f)) /\ Len(XrvEnd) = 6
<1>1. Hash \in SUBSET Token /\ {"password"} \in SUBSET Token /\ {"config"} \in SUBSET Token
  BY DEF Hash, Token
<1>2. <<On({"refused"}, "", Exit1), On({"username"}, "", 1)>> \in Seq(Branch)
  BY DEF On, Exit1, Branch, Reply, Token
<1>3. PICK greeted \in Steps(f) :
        greeted = Expect(<<On({"refused"}, "", Exit1), On({"username"}, "", 1)>>, Exit1)
  BY <1>2, StepTypes DEF Exit1
<1>4. <<On({"confirm"}, "yes", Again), On(Hash, "exit", 1)>> \in Seq(Branch)
  BY <1>1 DEF On, Again, Branch, Reply, Token
<1>5. XrvCommit \in Steps(f)
  BY <1>4, StepTypes DEF Exit1, XrvCommit
<1>6. /\ Say("username") \in Steps(f) /\ Say("password") \in Steps(f)
      /\ Say("configure") \in Steps(f) /\ Say("commit") \in Steps(f) /\ Say("exit") \in Steps(f)
  BY StepTypes DEF Word
<1>7. /\ Await(Hash) \in Steps(f) /\ Await({"password"}) \in Steps(f)
      /\ Await({"config"}) \in Steps(f) /\ Eof \in Steps(f)
  BY <1>1, StepTypes
<1>8. XrvLogin \in Seq(Steps(f)) /\ Len(XrvLogin) = 6
  <2>1. XrvLogin = <<greeted, Say("username"), Await({"password"}), Say("password"),
                     Await(Hash), Say("configure")>>
    BY <1>3 DEF XrvLogin
  <2> QED
    BY <1>6, <1>7, <2>1
<1>9. XrvEnd \in Seq(Steps(f)) /\ Len(XrvEnd) = 6
  BY <1>5, <1>6, <1>7 DEF XrvEnd
<1>10. Len(lines) \in Nat
  OBVIOUS
<1>11. ASSUME NEW k \in 1 .. 2 * Len(lines)
       PROVE  (IF k % 2 = 1 THEN Await(Hash) ELSE Enter(lines[k \div 2])) \in Steps(f)
  <2>1. k % 2 # 1 => k \div 2 \in 1 .. Len(lines)
    BY <1>10
  <2>2. k % 2 # 1 => lines[k \div 2] \in DOMAIN f \cap Line
    BY <2>1
  <2> QED
    BY <1>7, <2>2, StepTypes
<1>12. 2 * Len(lines) \in Nat
  BY <1>10
<1>13. XrvLines(lines) \in [1 .. 2 * Len(lines) -> Steps(f)]
  BY <1>11 DEF XrvLines
<1>14. XrvLines(lines) \in Seq(Steps(f)) /\ Len(XrvLines(lines)) = 2 * Len(lines)
  BY <1>12, <1>13
<1> QED
  BY <1>8, <1>9, <1>14

LEMMA XrvAt ==
  ASSUME NEW f, NEW lines \in Seq(DOMAIN f \cap Line)
  PROVE  LET s == XrvScript(lines)
             n == Len(lines)
         IN  /\ s \in Seq(Steps(f)) /\ Len(s) = 2 * n + 12
             /\ \A i \in 1 .. 6 : s[i] = XrvLogin[i]
             /\ \A k \in 1 .. n : s[2 * k + 5] = Await(Hash) /\ s[2 * k + 6] = Enter(lines[k])
             /\ \A i \in 1 .. 6 : s[2 * n + 6 + i] = XrvEnd[i]
<1>1. PICK a : a = XrvLogin
  OBVIOUS
<1>2. PICK b : b = XrvLines(lines)
  OBVIOUS
<1>3. PICK c : c = XrvEnd
  OBVIOUS
<1>4. /\ a \in Seq(Steps(f)) /\ Len(a) = 6 /\ b \in Seq(Steps(f)) /\ Len(b) = 2 * Len(lines)
      /\ c \in Seq(Steps(f)) /\ Len(c) = 6
  BY <1>1, <1>2, <1>3, XrvTypes
<1>5. PICK s : s = a \o b \o c
  OBVIOUS
<1>6. /\ s \in Seq(Steps(f)) /\ Len(s) = Len(a) + Len(b) + Len(c)
      /\ \A i \in 1 .. Len(a) : s[i] = a[i]
      /\ \A i \in 1 .. Len(b) : s[Len(a) + i] = b[i]
      /\ \A i \in 1 .. Len(c) : s[Len(a) + Len(b) + i] = c[i]
  <2>1. a \in Seq(Steps(f)) /\ b \in Seq(Steps(f)) /\ c \in Seq(Steps(f))
    BY <1>4
  <2>2. s \in Seq(Steps(f)) /\ IsJoin(s, a, b, c)
    BY <1>5, <2>1, Joined
  <2> QED
    BY <2>2 DEF IsJoin
<1>7. s = XrvScript(lines)
  BY <1>1, <1>2, <1>3, <1>5 DEF XrvScript
<1>8. ASSUME NEW k \in 1 .. Len(lines)
      PROVE  s[2 * k + 5] = Await(Hash) /\ s[2 * k + 6] = Enter(lines[k])
  <2>1. Len(lines) \in Nat
    OBVIOUS
  <2>2. /\ 2 * k - 1 \in 1 .. 2 * Len(lines) /\ (2 * k - 1) % 2 = 1
        /\ 2 * k \in 1 .. 2 * Len(lines) /\ (2 * k) % 2 = 0 /\ (2 * k) \div 2 = k
        /\ 6 + (2 * k - 1) = 2 * k + 5 /\ 6 + 2 * k = 2 * k + 6
    BY <2>1
  <2>3. s[6 + (2 * k - 1)] = b[2 * k - 1] /\ s[6 + 2 * k] = b[2 * k]
    BY <1>4, <1>6, <2>2
  <2>4. b[2 * k - 1] = Await(Hash) /\ b[2 * k] = Enter(lines[k])
    BY <1>2, <2>2 DEF XrvLines
  <2> QED
    BY <2>2, <2>3, <2>4
<1>9. Len(lines) \in Nat
  OBVIOUS
<1>10. Len(s) = 2 * Len(lines) + 12 /\ Len(a) + Len(b) = 2 * Len(lines) + 6
  BY <1>4, <1>6, <1>9
<1>11. \A i \in 1 .. 6 : s[2 * Len(lines) + 6 + i] = c[i]
  BY <1>4, <1>6, <1>10
<1> QED
  BY <1>1, <1>3, <1>4, <1>6, <1>7, <1>8, <1>10, <1>11

LEMMA CsrTypes ==
  ASSUME NEW f, NEW lines \in Seq(DOMAIN f \cap Line)
  PROVE  /\ CsrLogin \in Seq(Steps(f)) /\ Len(CsrLogin) = 9
         /\ CsrLines(lines) \in Seq(Steps(f)) /\ Len(CsrLines(lines)) = 2 * Len(lines)
         /\ CsrEnd \in Seq(Steps(f)) /\ Len(CsrEnd) = 6
<1>1. Hash \in SUBSET Token /\ {"password"} \in SUBSET Token /\ {"config"} \in SUBSET Token
  BY DEF Hash, Token
<1>2. <<On({"password"}, "password", 1)>> \in Seq(Branch)
  BY DEF On, Branch, Reply, Token
<1>3. PICK greeted \in Steps(f) :
        greeted = Expect(<<On({"password"}, "password", 1)>>, Exit1)
  BY <1>2, StepTypes DEF Exit1
<1>4. <<On(Hash, "terminal", 5), On({"user"}, "enable", 1)>> \in Seq(Branch)
  BY <1>1 DEF On, Branch, Reply, Token
<1>5. PICK enabled \in Steps(f) :
        enabled = Expect(<<On(Hash, "terminal", 5), On({"user"}, "enable", 1)>>, 5)
  BY <1>4, StepTypes
<1>6. /\ Say("password") \in Steps(f) /\ Say("terminal") \in Steps(f)
      /\ Say("configure") \in Steps(f) /\ Say("end") \in Steps(f)
      /\ Say("write") \in Steps(f) /\ Say("exit") \in Steps(f)
  BY StepTypes DEF Word
<1>7. /\ Await(Hash) \in Steps(f) /\ Await({"password"}) \in Steps(f)
      /\ Await({"config"}) \in Steps(f) /\ Eof \in Steps(f)
  BY <1>1, StepTypes
<1>8. CsrLogin \in Seq(Steps(f)) /\ Len(CsrLogin) = 9
  <2>1. CsrLogin = <<greeted, enabled, Await({"password"}), Say("password"), Await(Hash),
                     Say("terminal"), Await(Hash), Say("configure"), Await({"config"})>>
    BY <1>3, <1>5 DEF CsrLogin
  <2> QED
    BY <1>6, <1>7, <2>1
<1>9. CsrEnd \in Seq(Steps(f)) /\ Len(CsrEnd) = 6
  BY <1>6, <1>7 DEF CsrEnd
<1>10. Len(lines) \in Nat
  OBVIOUS
<1>11. ASSUME NEW k \in 1 .. 2 * Len(lines)
       PROVE  (IF k % 2 = 1 THEN Enter(lines[k \div 2 + 1]) ELSE Await(Hash)) \in Steps(f)
  <2>1. k % 2 = 1 => k \div 2 + 1 \in 1 .. Len(lines)
    BY <1>10
  <2>2. k % 2 = 1 => lines[k \div 2 + 1] \in DOMAIN f \cap Line
    BY <2>1
  <2> QED
    BY <1>7, <2>2, StepTypes
<1>12. 2 * Len(lines) \in Nat
  BY <1>10
<1>13. CsrLines(lines) \in [1 .. 2 * Len(lines) -> Steps(f)]
  BY <1>11 DEF CsrLines
<1>14. CsrLines(lines) \in Seq(Steps(f)) /\ Len(CsrLines(lines)) = 2 * Len(lines)
  BY <1>12, <1>13
<1> QED
  BY <1>8, <1>9, <1>14

LEMMA CsrAt ==
  ASSUME NEW f, NEW lines \in Seq(DOMAIN f \cap Line)
  PROVE  LET s == CsrScript(lines)
             n == Len(lines)
         IN  /\ s \in Seq(Steps(f)) /\ Len(s) = 2 * n + 15
             /\ \A i \in 1 .. 9 : s[i] = CsrLogin[i]
             /\ \A k \in 1 .. n : s[2 * k + 8] = Enter(lines[k]) /\ s[2 * k + 9] = Await(Hash)
             /\ \A i \in 1 .. 6 : s[2 * n + 9 + i] = CsrEnd[i]
<1>1. PICK a : a = CsrLogin
  OBVIOUS
<1>2. PICK b : b = CsrLines(lines)
  OBVIOUS
<1>3. PICK c : c = CsrEnd
  OBVIOUS
<1>4. /\ a \in Seq(Steps(f)) /\ Len(a) = 9 /\ b \in Seq(Steps(f)) /\ Len(b) = 2 * Len(lines)
      /\ c \in Seq(Steps(f)) /\ Len(c) = 6
  BY <1>1, <1>2, <1>3, CsrTypes
<1>5. PICK s : s = a \o b \o c
  OBVIOUS
<1>6. /\ s \in Seq(Steps(f)) /\ Len(s) = Len(a) + Len(b) + Len(c)
      /\ \A i \in 1 .. Len(a) : s[i] = a[i]
      /\ \A i \in 1 .. Len(b) : s[Len(a) + i] = b[i]
      /\ \A i \in 1 .. Len(c) : s[Len(a) + Len(b) + i] = c[i]
  <2>1. a \in Seq(Steps(f)) /\ b \in Seq(Steps(f)) /\ c \in Seq(Steps(f))
    BY <1>4
  <2>2. s \in Seq(Steps(f)) /\ IsJoin(s, a, b, c)
    BY <1>5, <2>1, Joined
  <2> QED
    BY <2>2 DEF IsJoin
<1>7. s = CsrScript(lines)
  BY <1>1, <1>2, <1>3, <1>5 DEF CsrScript
<1>8. ASSUME NEW k \in 1 .. Len(lines)
      PROVE  s[2 * k + 8] = Enter(lines[k]) /\ s[2 * k + 9] = Await(Hash)
  <2>1. Len(lines) \in Nat
    OBVIOUS
  <2>2. /\ 2 * k - 1 \in 1 .. 2 * Len(lines) /\ (2 * k - 1) % 2 = 1 /\ (2 * k - 1) \div 2 + 1 = k
        /\ 2 * k \in 1 .. 2 * Len(lines) /\ (2 * k) % 2 = 0
        /\ 9 + (2 * k - 1) = 2 * k + 8 /\ 9 + 2 * k = 2 * k + 9
    BY <2>1
  <2>3. s[9 + (2 * k - 1)] = b[2 * k - 1] /\ s[9 + 2 * k] = b[2 * k]
    BY <1>4, <1>6, <2>2
  <2>4. b[2 * k - 1] = Enter(lines[k]) /\ b[2 * k] = Await(Hash)
    BY <1>2, <2>2 DEF CsrLines
  <2> QED
    BY <2>2, <2>3, <2>4
<1>9. Len(lines) \in Nat
  OBVIOUS
<1>10. Len(s) = 2 * Len(lines) + 15 /\ Len(a) + Len(b) = 2 * Len(lines) + 9
  BY <1>4, <1>6, <1>9
<1>11. \A i \in 1 .. 6 : s[2 * Len(lines) + 9 + i] = c[i]
  BY <1>4, <1>6, <1>10
<1> QED
  BY <1>1, <1>3, <1>4, <1>6, <1>7, <1>8, <1>10, <1>11

\* What is sent of a file is some of its lines, in order.
LEMMA SentFacts ==
  ASSUME NEW f \in File, NEW d
  PROVE  /\ f \in Seq(LineKind)
         /\ DOMAIN f \subseteq Line /\ Line \subseteq Nat \ {0}
         /\ Sent(d, f) \subseteq DOMAIN f
         /\ Sent(d, f) \subseteq Nat \ {0}
         /\ \A i \in Sent(d, f) : f[i] \in LineKind /\ f[i] # "comment"
         /\ SentLines(d, f) \in Seq(DOMAIN f \cap Line)
         /\ Sorted(SentLines(d, f), Sent(d, f))
         /\ Meaning(f, Sent(d, f)) \subseteq Entry
<1>1. f \in Seq(LineKind)
  BY FileAssumption
<1>2. DOMAIN f \subseteq Line
  BY DEF Line
<1>3. Line \subseteq Nat \ {0}
  <2>1. \A g \in File : DOMAIN g \subseteq Nat \ {0}
    BY FileAssumption
  <2> QED
    BY <2>1 DEF Line
<1>4. Sent(d, f) \subseteq DOMAIN f
  BY DEF Sent
<1>5. \A i \in Sent(d, f) : f[i] \in LineKind /\ f[i] # "comment"
  BY <1>1 DEF Sent
<1>6. Sorted(SentLines(d, f), Sent(d, f))
  BY <1>1, SentLinesSorted
<1>7. Sent(d, f) \subseteq DOMAIN f \cap Line /\ Sent(d, f) \subseteq Nat \ {0}
  BY <1>2, <1>3, <1>4
<1>8. SentLines(d, f) \in Seq(DOMAIN f \cap Line)
  <2>1. SentLines(d, f) \in Seq(Sent(d, f))
    BY <1>6 DEF Sorted
  <2> QED
    BY <1>7, <2>1, SeqMonotonic
<1>9. Meaning(f, Sent(d, f)) \subseteq Sent(d, f) \X Sent(d, f)
  BY <1>5, <1>7, MeaningType
<1> QED
  BY <1>1, <1>2, <1>3, <1>4, <1>5, <1>6, <1>7, <1>8, <1>9 DEF Entry

LEMMA EltexTypes ==
  ASSUME NEW f
  PROVE  EltexScript \in Seq(Steps(f)) /\ Len(EltexScript) = 12
<1>1. Hash \in SUBSET Token /\ {"password"} \in SUBSET Token /\ {"confirm"} \in SUBSET Token
  BY DEF Hash, Token
<1>2. /\ Say("password") \in Steps(f) /\ Say("fetch") \in Steps(f)
      /\ Say("commit") \in Steps(f) /\ Say("yes") \in Steps(f) /\ Say("exit") \in Steps(f)
  BY StepTypes DEF Word
<1>3. /\ Await(Hash) \in Steps(f) /\ Await({"password"}) \in Steps(f)
      /\ Await({"confirm"}) \in Steps(f) /\ Eof \in Steps(f)
  BY <1>1, StepTypes
<1> QED
  BY <1>2, <1>3 DEF EltexScript

\* fork, wait, and the same again.
Waited == [do |-> "wait", on |-> <<On({"ok"}, "", 1), On({"failed"}, "", Exit1)>>]

LEMMA ShellTypes ==
  ASSUME NEW f
  PROVE  LET s == Shell("copy") \o Shell("load")
         IN  s = <<Say("copy"), Waited, Say("load"), Waited>> /\ s \in Seq(Steps(f))
<1>1. <<On({"ok"}, "", 1), On({"failed"}, "", Exit1)>> \in Seq(Branch)
  BY DEF On, Exit1, Branch, Reply, Token
<1>2. Waited \in Steps(f) /\ Say("copy") \in Steps(f) /\ Say("load") \in Steps(f)
  BY <1>1, StepTypes DEF Waited, Word
<1>3. PICK w : w = Waited
  OBVIOUS
<1>4. PICK c : c = Say("copy")
  OBVIOUS
<1>5. PICK l : l = Say("load")
  OBVIOUS
<1>6. Shell("copy") = <<c, w>> /\ Shell("load") = <<l, w>>
  BY <1>3, <1>4, <1>5 DEF Shell, Waited
<1>7. <<c, w>> \o <<l, w>> = <<c, w, l, w>>
  <2> DEFINE A == {c, w, l}
             t == <<c, w, l, w>>
  <2>1. <<c, w>> \in Seq(A) /\ <<l, w>> \in Seq(A) /\ t \in Seq(A)
        /\ Len(<<c, w>>) = 2 /\ Len(<<l, w>>) = 2 /\ Len(t) = 4
        /\ t[1] = c /\ t[2] = w /\ t[3] = l /\ t[4] = w
    OBVIOUS
  <2> HIDE DEF A, t
  <2>2. PICK s : s = <<c, w>> \o <<l, w>>
    OBVIOUS
  <2>3. /\ s \in Seq(A) /\ Len(s) = 4
        /\ \A i \in 1 .. 2 : s[i] = <<c, w>>[i]
        /\ \A i \in 1 .. 2 : s[2 + i] = <<l, w>>[i]
    BY <2>1, <2>2, Joined2
  <2>4. s[1] = c /\ s[2] = w
    BY <2>3
  <2>5. s[2 + 1] = l /\ s[2 + 2] = w
    BY <2>3
  <2>6. ASSUME NEW i \in 1 .. 4 PROVE s[i] = t[i]
    <3>1. i = 1 \/ i = 2 \/ i = 3 \/ i = 4
      OBVIOUS
    <3> QED
      BY <2>1, <2>4, <2>5, <3>1
  <2>7. s = t
    BY <2>1, <2>3, <2>6, SeqEqual
  <2> QED
    BY <2>2, <2>7 DEF t
<1>8. <<c, w, l, w>> \in Seq(Steps(f))
  BY <1>2, <1>3, <1>4, <1>5
<1> QED
  BY <1>3, <1>4, <1>5, <1>6, <1>7, <1>8

\* So is every script, whatever the driver.
LEMMA ScriptTypes ==
  ASSUME NEW d, NEW f \in File
  PROVE  Script(d, f) \in Seq(Steps(f))
<1>1. SentLines(d, f) \in Seq(DOMAIN f \cap Line)
  BY SentFacts
<1>2. /\ XrvScript(SentLines(d, f)) \in Seq(Steps(f))
      /\ CsrScript(SentLines(d, f)) \in Seq(Steps(f))
  BY <1>1, XrvAt, CsrAt
<1> QED
  BY <1>2, EltexTypes, ShellTypes DEF Script

-----------------------------------------------------------------------------
(* Types.                                                                  *)

Modes ==
  {"connect", "username", "password", "user", "enable", "exec", "config", "confirm",
   "fetch", "shell", "closed"}
Prompting == Modes \ {"connect", "shell"}

\* TypeOK, and what keeps it: a script is of its driver and file, a line on its
\* way is one of the file, and the third wrong password closes the connection.
TypedInv ==
  /\ TypeOK
  /\ script = Script(driver, file)
  /\ typed \in Seq(Texts(file))
  /\ tries = 3 => mode = "closed"

LEMMA TypedFacts ==
  ASSUME TypedInv
  PROVE  /\ file \in File /\ script \in Seq(Steps(file))
         /\ Texts(file) \subseteq Text
         /\ mode \in Modes /\ tries \in Nat /\ (mode # "closed" => tries \in 0 .. 2)
<1>1. file \in File /\ script = Script(driver, file) /\ tries \in 0 .. 3 /\ mode \in Modes
  BY DEF TypedInv, TypeOK, Modes
<1>2. script \in Seq(Steps(file))
  BY <1>1, ScriptTypes
<1>3. mode # "closed" => tries \in 0 .. 2
  BY <1>1 DEF TypedInv
<1> QED
  BY <1>1, <1>2, <1>3 DEF Texts

\* What a step is, where the script is.
LEMMA CurrentType ==
  ASSUME TypedInv, NEW dos, Running(dos)
  PROVE  /\ Current \in Steps(file) /\ Current.do \in dos
         /\ Current.do = "send" => Current.text \in Texts(file)
         /\ Current.do = "expect" => Current.late \in {-1, 1, 5}
         /\ Current.do \in {"expect", "wait"} => Current.on \in Seq(Branch)
<1>1. script \in Seq(Steps(file))
  BY TypedFacts
<1>2. step \in 1 .. Len(script)
  <2>1. step \in Nat \ {0} /\ step <= Len(script)
    BY DEF TypedInv, TypeOK, Running
  <2>2. Len(script) \in Nat
    BY <1>1
  <2> QED
    BY <2>1, <2>2
<1>3. Current \in Steps(file)
  BY <1>1, <1>2 DEF Current
<1> QED
  BY <1>3 DEF Running, Steps, Sends, Expects, Waits, Eofs

LEMMA PromptType ==
  ASSUME NEW m \in Prompting, NEW inside
  PROVE  Prompt(m, inside) \in Seq(Token)
BY DEF Prompt, Prompting, Modes, Token

\* What the router says and takes keeps the two queues.
LEMMA TellType ==
  ASSUME TypedInv, typed # << >>, NEW tokens \in Seq(Token), Tell(tokens)
  PROVE  /\ typed' \in Seq(Texts(file)) /\ heard' \in Seq(Token)
         /\ Head(typed) \in Texts(file)
<1>1. typed \in Seq(Texts(file)) /\ heard \in Seq(Token)
  BY DEF TypedInv, TypeOK
<1>2. Tail(typed) \in Seq(Texts(file)) /\ Head(typed) \in Texts(file)
  BY <1>1, HeadTailProperties
<1>3. heard \o tokens \in Seq(Token)
  BY <1>1, ConcatProperties
<1> QED
  BY <1>2, <1>3 DEF Tell

\* Where a script goes on is a place.
LEMMA GoType ==
  ASSUME TypedInv, NEW n \in {-1, 0, 1, 5}, Go(n)
  PROVE  step' \in Nat \ {0} /\ result' \in {"none", "ok", "error"}
BY DEF TypedInv, TypeOK, Go, Exit1

\* Every session starts with those types.
LEMMA TypedInit == Init => TypedInv
<1> SUFFICES ASSUME Init PROVE TypedInv
  OBVIOUS
<1>1. TypeOK
  BY DEF Init, TypeOK
<1>2. typed \in Seq(Texts(file)) /\ tries # 3 /\ script = Script(driver, file)
  BY DEF Init
<1> QED
  BY <1>1, <1>2 DEF TypedInv

\* Of the patterns that occur there is a first.
LEMMA FirstMatches ==
  ASSUME Current.on \in Seq(Branch), Matching # {}
  PROVE  Min(Matching) \in Matching
<1>1. DOMAIN Current.on \subseteq Nat
  OBVIOUS
<1>2. Matching \subseteq Nat
  BY <1>1 DEF Matching
<1> QED
  BY <1>2, MinIs

\* The interpreter keeps the types.
LEMMA TypedInterpreter == TypedInv /\ Interpreter => TypedInv'
<1> SUFFICES ASSUME TypedInv, Interpreter PROVE TypedInv'
  OBVIOUS
<1> USE DEF job, place, router, vars
<1>1. /\ typed \in Seq(Texts(file)) /\ heard \in Seq(Token) /\ Texts(file) \subseteq Text
      /\ step \in Nat \ {0} /\ result \in {"none", "ok", "error"}
      /\ connected \in BOOLEAN /\ obliging \in BOOLEAN
  BY TypedFacts DEF TypedInv, TypeOK
<1>2. SUFFICES /\ UNCHANGED <<job, router>>
               /\ typed' \in Seq(Texts(file)) /\ heard' \in Seq(Token)
               /\ step' \in Nat \ {0} /\ result' \in {"none", "ok", "error"}
               /\ connected' \in BOOLEAN /\ obliging' \in BOOLEAN
  <2>1. typed' \in Seq(Text)
    BY <1>1, <1>2
  <2> QED
    BY <1>2, <2>1 DEF TypedInv, TypeOK, Texts
<1>3. CASE Send
  <2>1. Current.text \in Texts(file)
    BY <1>3, CurrentType DEF Send
  <2>2. Typed(Current.text) \in Seq(Texts(file))
    BY <1>1, <2>1 DEF Typed
  <2>3. step' \in Nat \ {0} /\ result' \in {"none", "ok", "error"}
    BY <1>3, GoType DEF Send, Exit1
  <2> QED
    BY <1>1, <1>3, <2>2, <2>3 DEF Send
<1>4. CASE Match
  <2>1. Current.on \in Seq(Branch)
    <3>1. Running({"expect", "wait"})
      BY <1>4 DEF Match
    <3> QED
      BY <3>1, CurrentType
  <2>2. Min(Matching) \in Matching
    BY <1>4, <2>1, FirstMatches DEF Match
  <2>3. Min(Matching) \in 1 .. Len(Current.on)
    BY <2>1, <2>2 DEF Matching
  <2>4. PICK branch \in Branch : branch = Current.on[Min(Matching)]
    BY <2>1, <2>3
  <2>5. Occurs(branch)
    BY <2>2, <2>4 DEF Matching
  <2> DEFINE K == {n \in DOMAIN heard : heard[n] \in branch.pattern}
  <2>6. Min(K) \in DOMAIN heard
    <3>1. DOMAIN heard = 1 .. Len(heard) /\ Len(heard) \in Nat
      BY <1>1
    <3>2. K \subseteq Nat /\ K # {}
      BY <2>5, <3>1 DEF Occurs
    <3>3. Min(K) \in K
      <4> HIDE DEF K
      <4> QED
        BY <3>2, MinIs
    <3> QED
      BY <3>3
  <2>7. PICK k : k = Min(K)
    OBVIOUS
  <2>8. SubSeq(heard, k + 1, Len(heard)) \in Seq(Token)
    <3>1. k \in 1 .. Len(heard) /\ Len(heard) \in Nat
      BY <1>1, <2>6, <2>7
    <3> QED
      BY <1>1, <3>1
  <2>9. /\ heard' = SubSeq(heard, k + 1, Len(heard))
        /\ typed' = IF branch.reply = "" THEN typed
                    ELSE Typed([word |-> branch.reply, line |-> 0])
        /\ Go(branch.go)
        /\ UNCHANGED <<job, connected, router, obliging>>
    BY <1>4, <2>4, <2>7 DEF Match
  <2>10. typed' \in Seq(Texts(file))
    <3>1. branch.reply # "" => [word |-> branch.reply, line |-> 0] \in Texts(file)
      BY DEF Branch, Reply, Texts, Text, Word
    <3>2. CASE branch.reply = ""
      BY <1>1, <2>9, <3>2
    <3>3. CASE branch.reply # ""
      <4>1. PICK t \in Texts(file) : t = [word |-> branch.reply, line |-> 0]
        BY <3>1, <3>3
      <4>2. typed' = Typed(t)
        BY <2>9, <3>3, <4>1
      <4> QED
        BY <1>1, <4>2 DEF Typed
    <3> QED
      BY <3>2, <3>3
  <2>11. step' \in Nat \ {0} /\ result' \in {"none", "ok", "error"}
    BY <2>9, GoType DEF Branch
  <2> QED
    BY <1>1, <2>8, <2>9, <2>10, <2>11
<1>5. CASE Timeout
  <2>1. Current.late \in {-1, 1, 5}
    BY <1>5, CurrentType DEF Timeout
  <2>2. step' \in Nat \ {0} /\ result' \in {"none", "ok", "error"}
    BY <1>5, <2>1, GoType DEF Timeout
  <2> QED
    BY <1>1, <1>5, <2>2 DEF Timeout, Busy
<1>6. CASE EndOfFile
  <2>1. step' \in Nat \ {0} /\ result' \in {"none", "ok", "error"}
    BY <1>6, GoType DEF EndOfFile, Exit1
  <2>2. connected' = FALSE /\ heard' = << >> /\ UNCHANGED <<job, typed, router, obliging>>
    BY <1>6 DEF EndOfFile
  <2>3. << >> \in Seq(Token)
    OBVIOUS
  <2> QED
    BY <1>1, <2>1, <2>2, <2>3
<1>7. CASE ExpectEof
  <2>1. step' \in Nat \ {0} /\ result' \in {"none", "ok", "error"}
    BY <1>7, GoType DEF ExpectEof, Exit1
  <2> QED
    BY <1>1, <1>7, <2>1 DEF ExpectEof, Busy
<1>8. CASE Done
  BY <1>1, <1>8 DEF Done
<1> QED
  BY <1>3, <1>4, <1>5, <1>6, <1>7, <1>8 DEF Interpreter

\* The router and the network keep the types.
LEMMA TypedRouter == TypedInv /\ (Router \/ Drop) => TypedInv'
<1> SUFFICES ASSUME TypedInv, Router \/ Drop PROVE TypedInv'
  OBVIOUS
<1> USE DEF job, place, router, vars
<1>1. /\ typed \in Seq(Texts(file)) /\ heard \in Seq(Token) /\ Texts(file) \subseteq Text
      /\ file \in File /\ mode \in Modes /\ tries \in 0 .. 3
      /\ mode # "closed" => tries \in 0 .. 2
      /\ section \in Line \cup {0} /\ obliging \in BOOLEAN
      /\ candidate \subseteq Entry /\ running \subseteq Entry /\ saved \subseteq Entry
  BY TypedFacts DEF TypedInv, TypeOK
<1>2. Meaning(file, Sent(driver, file)) \subseteq Entry
  BY <1>1, SentFacts
<1>3. SUFFICES /\ UNCHANGED <<job, place>> /\ obliging' \in BOOLEAN
               /\ typed' \in Seq(Texts(file)) /\ heard' \in Seq(Token)
               /\ mode' \in Modes /\ tries' \in 0 .. 3 /\ (tries' = 3 => mode' = "closed")
               /\ section' \in Line \cup {0}
               /\ candidate' \subseteq Entry /\ running' \subseteq Entry /\ saved' \subseteq Entry
  <2>1. typed' \in Seq(Text)
    BY <1>1, <1>3
  <2> QED
    BY <1>3, <2>1 DEF TypedInv, TypeOK, Texts, Modes
<1>4. CASE Greet
  <2>1. mode' \in {"username", "password", "closed"} /\ tries' # 3
    BY <1>1, <1>4 DEF Greet
  <2>2. heard' \in Seq(Token)
    <3>1. CASE heard' = heard \o Prompt(mode', 0)
      <4>1. Prompt(mode', 0) \in Seq(Token)
        BY <2>1, PromptType DEF Prompting, Modes
      <4> QED
        BY <1>1, <3>1, <4>1, ConcatProperties
    <3>2. CASE heard' = Append(heard, "refused")
      <4>1. "refused" \in Token
        BY DEF Token
      <4> QED
        BY <1>1, <3>2, <4>1, AppendProperties
    <3> QED
      BY <1>4, <3>1, <3>2 DEF Greet
  <2> QED
    BY <1>1, <1>4, <2>1, <2>2 DEF Greet, Modes
<1>5. CASE Login
  <2>1. mode' \in Prompting /\ tries' \in 0 .. 3 /\ (tries' = 3 => mode' = "closed")
    <3>1. mode # "closed" /\ tries \in 0 .. 2
      BY <1>1, <1>5 DEF Login
    <3>2. CASE mode = "username" /\ mode' = "password" /\ UNCHANGED tries
      BY <3>1, <3>2 DEF Prompting, Modes
    <3>3. CASE /\ mode' \in {"exec"} \cup (IF mode = "password" /\ driver = "csr" THEN {"user"} ELSE {})
               /\ UNCHANGED tries
      BY <3>1, <3>3 DEF Prompting, Modes
    <3>4. CASE /\ tries' = tries + 1
               /\ mode' = IF tries' = 3 THEN "closed"
                          ELSE IF driver = "xrv" THEN "username" ELSE mode
      BY <1>5, <3>1, <3>4 DEF Prompting, Modes, Login
    <3> QED
      BY <1>5, <3>2, <3>3, <3>4 DEF Login
  <2>2. Prompt(mode', 0) \in Seq(Token)
    BY <2>1, PromptType
  <2>3. typed # << >> /\ Tell(Prompt(mode', 0))
    BY <1>5 DEF Login, Asked
  <2>4. typed' \in Seq(Texts(file)) /\ heard' \in Seq(Token)
    BY <2>2, <2>3, TellType
  <2> QED
    BY <1>1, <1>5, <2>1, <2>4 DEF Login, Prompting
<1>6. CASE TakeLine
  <2>1. PICK i : i = Head(typed).line
    OBVIOUS
  <2>2. PICK entry : entry = IF ~Takes(i) THEN {}
                            ELSE {<<i, IF file[i] = "sub" THEN section ELSE i>>}
    OBVIOUS
  <2>3. /\ mode = "config" /\ Asked({"line"})
        /\ section' = CASE file[i] \in Single                 -> 0
                        [] file[i] \in {"header", "filtered"} -> i
                        [] OTHER                             -> section
        /\ candidate' = IF driver = "xrv" THEN candidate \cup entry ELSE candidate
        /\ running' = IF driver = "csr" THEN running \cup entry ELSE running
        /\ Tell((IF file[i] = "hash" THEN <<"echo">> ELSE << >>) \o Prompt(mode, section'))
        /\ UNCHANGED <<job, place, mode, tries, saved, obliging>>
    BY <1>6, <2>1, <2>2 DEF TakeLine
  <2>4. (IF file[i] = "hash" THEN <<"echo">> ELSE << >>) \o Prompt(mode, section') \in Seq(Token)
    <3>1. (IF file[i] = "hash" THEN <<"echo">> ELSE << >>) \in Seq(Token)
      <4>1. <<"echo">> \in Seq(Token) /\ << >> \in Seq(Token)
        BY DEF Token
      <4> QED
        BY <4>1
    <3>2. Prompt(mode, section') \in Seq(Token)
      BY <2>3, PromptType DEF Prompting, Modes
    <3> QED
      BY <3>1, <3>2, ConcatProperties
  <2>5. /\ typed' \in Seq(Texts(file)) /\ heard' \in Seq(Token)
        /\ Head(typed) \in Texts(file)
    <3>1. typed # << >>
      BY <2>3 DEF Asked
    <3> QED
      BY <2>3, <2>4, <3>1, TellType
  <2>6. i \in Line
    <3>1. i \in DOMAIN file
      BY <2>1, <2>3, <2>5 DEF Asked, Texts
    <3> QED
      BY <1>1, <3>1, SentFacts
  <2>7. section' \in Line \cup {0}
    BY <1>1, <2>3, <2>6
  <2>8. entry \subseteq Entry
    BY <1>1, <2>2, <2>6 DEF Takes, Entry
  <2> QED
    BY <1>1, <2>3, <2>5, <2>7, <2>8
<1>7. CASE Command
  <2>1. mode' \in Prompting
    <3>1. mode \in Prompting
      BY <1>7 DEF Command, Prompting, Modes
    <3> QED
      BY <1>7, <3>1 DEF Command, After, Prompting, Modes
  <2>2. Prompt(mode', section') \in Seq(Token)
    BY <2>1, PromptType
  <2>3. typed' \in Seq(Texts(file)) /\ heard' \in Seq(Token)
    BY <1>7, <2>2, TellType DEF Command
  <2>4. tries \in 0 .. 2
    BY <1>1, <1>7 DEF Command
  <2>5. candidate' \subseteq Entry
    <3>1. \A c \in Fetched : c \subseteq Entry
      BY <1>1, <1>2 DEF Fetched
    <3> QED
      BY <1>1, <1>7, <3>1 DEF Command
  <2>6. /\ running' \in {running, candidate} /\ saved' \in {saved, running}
        /\ obliging' \in {FALSE, obliging}
    BY <1>7 DEF Command
  <2>7. obliging' \in BOOLEAN
    BY <1>1, <2>6
  <2>8. running' \subseteq Entry /\ saved' \subseteq Entry
    BY <1>1, <2>6
  <2>9. /\ section' \in Line \cup {0} /\ mode' \in Modes
        /\ tries' \in 0 .. 2 /\ UNCHANGED <<job, place>>
    BY <1>1, <1>7, <2>1, <2>4 DEF Command, Prompting
  <2>10. tries' \in 0 .. 3 /\ tries' # 3
    BY <2>9
  <2> QED
    BY <2>3, <2>5, <2>7, <2>8, <2>9, <2>10
<1>8. CASE Serve
  <2>1. <<"ok">> \in Seq(Token) /\ <<"failed">> \in Seq(Token)
    BY DEF Token
  <2>2. typed' \in Seq(Texts(file)) /\ heard' \in Seq(Token)
    BY <1>8, <2>1, TellType DEF Serve
  <2>3. /\ running' \subseteq running \cup Meaning(file, Sent(driver, file))
        /\ candidate' \in {candidate, Meaning(file, Sent(driver, file))}
        /\ UNCHANGED <<job, place, mode, tries, section, saved, obliging>>
        /\ mode = "shell"
    BY <1>8 DEF Serve
  <2> QED
    BY <1>1, <1>2, <2>2, <2>3
<1>9. CASE Drop
  BY <1>1, <1>9 DEF Drop, Modes
<1> QED
  BY <1>4, <1>5, <1>6, <1>7, <1>8, <1>9 DEF Router

\* And keeps them.
LEMMA TypedInvariant == Spec => []TypedInv
<1>1. TypedInv /\ [Next]_vars => TypedInv'
  <2> SUFFICES ASSUME TypedInv, [Next]_vars PROVE TypedInv'
    OBVIOUS
  <2>1. CASE Next
    BY <2>1, TypedInterpreter, TypedRouter DEF Next
  <2>2. CASE UNCHANGED vars
    BY <2>2 DEF TypedInv, TypeOK, vars, job, place, router, Texts
  <2> QED
    BY <2>1, <2>2
<1> QED
  BY <1>1, TypedInit, PTL DEF Spec

\* Every state of a session is one of the program's and the router's: a script
\* never types what it has no word for or goes on where it has no step, and
\* nothing runs on a router that is not of the file.
THEOREM TypeCorrect == Spec => []TypeOK
<1>1. TypedInv => TypeOK
  BY DEF TypedInv
<1> QED
  BY <1>1, TypedInvariant, PTL

-----------------------------------------------------------------------------
(* An xRV.                                                                 *)

\* What the script sends, up to the commit; yes and exit come after it.
XrvText(lines, r) ==
  IF r = 1 THEN Say("username").text
  ELSE IF r = 2 THEN Say("password").text
  ELSE IF r = 3 THEN Say("configure").text
  ELSE IF r = Len(lines) + 4 THEN Say("commit").text
  ELSE Enter(lines[r - 3]).text

\* The router has taken the first c texts; the rest of what was sent is on its
\* way, in order.
XrvQueue(lines, c) ==
  /\ \A k \in DOMAIN typed :
       IF c + k <= Len(lines) + 4 THEN typed[k] = XrvText(lines, c + k)
       ELSE typed[k].word \in {"yes", "exit"}
  /\ step <= 2 * Len(lines) + 8 => c + Len(typed) = (step - 1) \div 2
  /\ step > 2 * Len(lines) + 8 => c + Len(typed) >= Len(lines) + 4

\* Where c texts have brought it.  A login that failed is not made up for: the
\* password is not sent again.
LineAt(lines, m) == IF m = 0 THEN 0 ELSE lines[m]
XrvConfig(f, kept, lines, m) ==
  /\ mode = "config"
  /\ candidate = Part(f, kept, LineAt(lines, m))
  /\ section = Inside(f, kept, LineAt(lines, m))
XrvStage(f, kept, lines, c) ==
  \/ c = 0 /\ mode \in {"connect", "username"} /\ candidate = {}
  \/ c = 1 /\ mode = "password" /\ candidate = {}
  \/ c = 2 /\ mode \in {"exec", "username"} /\ candidate = {}
  \/ c >= 3 /\ mode \in {"username", "password"}
  \/ c >= 3 /\ c <= Len(lines) + 3 /\ XrvConfig(f, kept, lines, c - 3)
  \/ c = Len(lines) + 4 /\ mode \in {"config", "confirm", "exec"} /\ candidate = Meaning(f, kept)

XrvAlong(f, kept, lines) ==
  mode # "closed" =>
    \E c \in 0 .. Len(lines) + 4 : XrvQueue(lines, c) /\ XrvStage(f, kept, lines, c)

XrvInv ==
  driver = "xrv" =>
    /\ running \in {{}, Meaning(file, Sent(driver, file))}
    /\ XrvAlong(file, Sent(driver, file), SentLines(driver, file))

\* What an expect command consists of.
LEMMA OnIs ==
  ASSUME NEW pattern, NEW reply, NEW go
  PROVE  /\ On(pattern, reply, go).pattern = pattern
         /\ On(pattern, reply, go).reply = reply /\ On(pattern, reply, go).go = go
BY DEF On

LEMMA AwaitIs ==
  ASSUME NEW pattern
  PROVE  /\ Await(pattern).do = "expect" /\ Await(pattern).late = 1
         /\ DOMAIN Await(pattern).on = {1}
         /\ Await(pattern).on[1].pattern = pattern
         /\ Await(pattern).on[1].reply = "" /\ Await(pattern).on[1].go = 1
<1>1. PICK x : x = On(pattern, "", 1)
  OBVIOUS
<1>2. DOMAIN <<x>> = {1} /\ <<x>>[1] = x
  OBVIOUS
<1>3. Await(pattern).on = <<x>>
  BY <1>1 DEF Await, Expect
<1>4. x.pattern = pattern /\ x.reply = "" /\ x.go = 1
  BY <1>1 DEF On
<1> QED
  BY <1>2, <1>3, <1>4 DEF Await, Expect

LEMMA ExpectIs ==
  ASSUME NEW x, NEW y, NEW late
  PROVE  /\ Expect(<<x, y>>, late).do = "expect" /\ Expect(<<x, y>>, late).late = late
         /\ DOMAIN Expect(<<x, y>>, late).on = {1, 2}
         /\ Expect(<<x, y>>, late).on[1] = x /\ Expect(<<x, y>>, late).on[2] = y
<1>1. DOMAIN <<x, y>> = {1, 2} /\ <<x, y>>[1] = x /\ <<x, y>>[2] = y
  OBVIOUS
<1>2. Expect(<<x, y>>, late).on = <<x, y>>
  BY DEF Expect
<1> QED
  BY <1>1, <1>2 DEF Expect

\* What stands at a place of the script.
LEMMA XrvSteps ==
  ASSUME NEW f, NEW lines \in Seq(DOMAIN f \cap Line)
  PROVE  LET s == XrvScript(lines)
             n == Len(lines)
         IN  /\ n \in Nat /\ Len(s) = 2 * n + 12
             /\ s[1] = Expect(<<On({"refused"}, "", Exit1), On({"username"}, "", 1)>>, Exit1)
             /\ s[3] = Await({"password"})
             /\ \A k \in 1 .. n + 1 : s[2 * k + 3] = Await(Hash)
             /\ \A r \in 1 .. n + 4 : s[2 * r] = [do |-> "send", text |-> XrvText(lines, r)]
             /\ s[2 * n + 7] = Await({"config"}) /\ s[2 * n + 9] = XrvCommit
             /\ s[2 * n + 10] = Await(Hash) /\ s[2 * n + 11] = Say("exit")
             /\ s[2 * n + 12] = Eof
<1> DEFINE s == XrvScript(lines)
           n == Len(lines)
<1>3. /\ Len(s) = 2 * n + 12 /\ n \in Nat
      /\ \A i \in 1 .. 6 : s[i] = XrvLogin[i]
      /\ \A k \in 1 .. n : s[2 * k + 5] = Await(Hash) /\ s[2 * k + 6] = Enter(lines[k])
      /\ \A i \in 1 .. 6 : s[2 * n + 6 + i] = XrvEnd[i]
  BY XrvAt
<1> HIDE DEF s, n
<1>4. /\ s[1] = XrvLogin[1] /\ s[2] = XrvLogin[2] /\ s[3] = XrvLogin[3]
      /\ s[4] = XrvLogin[4] /\ s[5] = XrvLogin[5] /\ s[6] = XrvLogin[6]
  BY <1>3
<1>5. /\ s[1] = Expect(<<On({"refused"}, "", Exit1), On({"username"}, "", 1)>>, Exit1)
      /\ s[2] = Say("username") /\ s[3] = Await({"password"}) /\ s[4] = Say("password")
      /\ s[5] = Await(Hash) /\ s[6] = Say("configure")
  BY <1>4 DEF XrvLogin
<1>6. /\ s[2 * n + 7] = XrvEnd[1] /\ s[2 * n + 8] = XrvEnd[2] /\ s[2 * n + 9] = XrvEnd[3]
      /\ s[2 * n + 10] = XrvEnd[4] /\ s[2 * n + 11] = XrvEnd[5] /\ s[2 * n + 12] = XrvEnd[6]
  <2>1. /\ s[2 * n + 6 + 1] = XrvEnd[1] /\ s[2 * n + 6 + 2] = XrvEnd[2] /\ s[2 * n + 6 + 3] = XrvEnd[3]
        /\ s[2 * n + 6 + 4] = XrvEnd[4] /\ s[2 * n + 6 + 5] = XrvEnd[5] /\ s[2 * n + 6 + 6] = XrvEnd[6]
    BY <1>3
  <2>2. /\ 2 * n + 6 + 1 = 2 * n + 7 /\ 2 * n + 6 + 2 = 2 * n + 8 /\ 2 * n + 6 + 3 = 2 * n + 9
        /\ 2 * n + 6 + 4 = 2 * n + 10 /\ 2 * n + 6 + 5 = 2 * n + 11 /\ 2 * n + 6 + 6 = 2 * n + 12
    BY <1>3
  <2> QED
    BY <2>1, <2>2
<1>7. /\ s[2 * n + 7] = Await({"config"}) /\ s[2 * n + 8] = Say("commit") /\ s[2 * n + 9] = XrvCommit
      /\ s[2 * n + 10] = Await(Hash) /\ s[2 * n + 11] = Say("exit") /\ s[2 * n + 12] = Eof
  BY <1>6 DEF XrvEnd
<1>8. ASSUME NEW k \in 1 .. n + 1 PROVE s[2 * k + 3] = Await(Hash)
  <2>1. CASE k = 1
    <3>1. 2 * k + 3 = 5
      BY <2>1
    <3> QED
      BY <1>5, <3>1
  <2>2. CASE k # 1
    <3>1. k - 1 \in 1 .. n /\ 2 * (k - 1) + 5 = 2 * k + 3
      BY <1>3, <2>2
    <3> QED
      BY <1>3, <3>1
  <2> QED
    BY <2>1, <2>2
<1>9. ASSUME NEW r \in 1 .. n + 4 PROVE s[2 * r] = [do |-> "send", text |-> XrvText(lines, r)]
  <2>1. n \in Nat
    BY <1>3
  <2>2. CASE r = 1
    <3>1. 2 * r = 2
      BY <2>2
    <3>2. s[2 * r] = Say("username")
      BY <1>5, <3>1
    <3> QED
      BY <2>2, <3>2 DEF XrvText, Say
  <2>3. CASE r = 2
    <3>1. 2 * r = 4
      BY <2>3
    <3>2. s[2 * r] = Say("password")
      BY <1>5, <3>1
    <3> QED
      BY <2>3, <3>2 DEF XrvText, Say
  <2>4. CASE r = 3
    <3>1. 2 * r = 6
      BY <2>4
    <3>2. s[2 * r] = Say("configure")
      BY <1>5, <3>1
    <3> QED
      BY <2>4, <3>2 DEF XrvText, Say
  <2>5. CASE r = n + 4
    <3>1. 2 * r = 2 * n + 8 /\ r \notin {1, 2, 3}
      BY <2>1, <2>5
    <3>2. s[2 * r] = Say("commit")
      BY <1>7, <3>1
    <3> QED
      BY <2>5, <3>1, <3>2 DEF XrvText, Say, n
  <2>6. CASE r \notin {1, 2, 3, n + 4}
    <3>1. r - 3 \in 1 .. n /\ 2 * (r - 3) + 6 = 2 * r
      BY <2>1, <2>6
    <3>2. s[2 * r] = Enter(lines[r - 3])
      BY <1>3, <3>1
    <3> QED
      BY <2>6, <3>2 DEF XrvText, Enter, n
  <2> QED
    BY <2>2, <2>3, <2>4, <2>5, <2>6
<1> QED
  BY <1>3, <1>5, <1>7, <1>8, <1>9 DEF s, n

\* Up to the commit, a script sends in every second step and in no other; what
\* comes then sends yes and exit.
XrvPlace(at, lines, p) ==
  /\ p <= 2 * Len(lines) + 8 /\ p % 2 = 0 =>
        at.do = "send" /\ at.text = XrvText(lines, p \div 2)
  /\ p <= 2 * Len(lines) + 8 /\ p % 2 = 1 =>
        /\ at.do = "expect" /\ at.late \in {-1, 1}
        /\ \A b \in DOMAIN at.on : at.on[b].reply = "" /\ at.on[b].go \in {-1, 1}
  /\ p > 2 * Len(lines) + 8 /\ p <= 2 * Len(lines) + 12 =>
        /\ at.do = "send" => at = Say("exit")
        /\ at.do \in {"expect", "wait"} =>
             \A b \in DOMAIN at.on :
               at.on[b].reply \in {"", "yes", "exit"} /\ at.on[b].go \in {-1, 0, 1}
        /\ at.do = "expect" => at.late \in {-1, 1}

\* Every place of a script of an xRV is such a one.
LEMMA XrvPlaces ==
  ASSUME NEW f, NEW lines \in Seq(DOMAIN f \cap Line), NEW p \in Nat \ {0}
  PROVE  XrvPlace(XrvScript(lines)[p], lines, p)
<1> DEFINE s == XrvScript(lines)
           n == Len(lines)
<1>3. /\ n \in Nat /\ Len(s) = 2 * n + 12
      /\ s[1] = Expect(<<On({"refused"}, "", Exit1), On({"username"}, "", 1)>>, Exit1)
      /\ s[3] = Await({"password"})
      /\ \A k \in 1 .. n + 1 : s[2 * k + 3] = Await(Hash)
      /\ \A r \in 1 .. n + 4 : s[2 * r] = [do |-> "send", text |-> XrvText(lines, r)]
      /\ s[2 * n + 7] = Await({"config"}) /\ s[2 * n + 9] = XrvCommit
      /\ s[2 * n + 10] = Await(Hash) /\ s[2 * n + 11] = Say("exit")
      /\ s[2 * n + 12] = Eof
  BY XrvSteps
<1> HIDE DEF s, n
<1>4. n \in Nat
  BY <1>3
<1>5. ASSUME p <= 2 * n + 8, p % 2 = 0
      PROVE  s[p].do = "send" /\ s[p].text = XrvText(lines, p \div 2)
  <2>1. p \div 2 \in 1 .. n + 4 /\ 2 * (p \div 2) = p
    BY <1>4, <1>5
  <2>2. s[p] = [do |-> "send", text |-> XrvText(lines, p \div 2)]
    BY <1>3, <2>1
  <2> QED
    BY <2>2
<1> DEFINE Waiting(at) ==
             /\ at.do = "expect" /\ at.late \in {-1, 1}
             /\ \A b \in DOMAIN at.on : at.on[b].reply = "" /\ at.on[b].go \in {-1, 1}
<1>6. ASSUME NEW pattern PROVE Waiting(Await(pattern))
  <2>1. PICK a : a = Await(pattern)
    OBVIOUS
  <2>2. a.do = "expect" /\ a.late = 1 /\ DOMAIN a.on = {1}
        /\ a.on[1].reply = "" /\ a.on[1].go = 1
    BY <2>1, AwaitIs
  <2>3. Waiting(a)
    BY <2>2
  <2> QED
    BY <2>1, <2>3
<1>7. Waiting(Expect(<<On({"refused"}, "", Exit1), On({"username"}, "", 1)>>, Exit1))
  <2>1. PICK x : x = On({"refused"}, "", Exit1)
    OBVIOUS
  <2>2. PICK y : y = On({"username"}, "", 1)
    OBVIOUS
  <2>3. PICK a : a = Expect(<<x, y>>, -1)
    OBVIOUS
  <2>4. a.do = "expect" /\ a.late = -1 /\ DOMAIN a.on = {1, 2} /\ a.on[1] = x /\ a.on[2] = y
    BY <2>3, ExpectIs
  <2>5. x.reply = "" /\ x.go = -1 /\ y.reply = "" /\ y.go = 1
    BY <2>1, <2>2 DEF On, Exit1, Again
  <2>6. Waiting(a)
    BY <2>4, <2>5
  <2> QED
    BY <2>1, <2>2, <2>3, <2>6 DEF Exit1
<1>8. ASSUME p <= 2 * n + 8, p % 2 = 1 PROVE Waiting(s[p])
  <2> HIDE DEF Waiting
  <2>1. CASE p = 1
    <3>1. s[p] = Expect(<<On({"refused"}, "", Exit1), On({"username"}, "", 1)>>, Exit1)
      BY <1>3, <2>1
    <3> QED
      BY <1>7, <3>1
  <2>2. CASE p = 3
    <3>1. s[p] = Await({"password"})
      BY <1>3, <2>2
    <3> QED
      BY <1>6, <3>1
  <2>3. CASE p = 2 * n + 7
    <3>1. s[p] = Await({"config"})
      BY <1>3, <2>3
    <3> QED
      BY <1>6, <3>1
  <2>4. CASE p \notin {1, 3, 2 * n + 7}
    <3>1. PICK k \in 1 .. n + 1 : p = 2 * k + 3
      <4>1. (p - 3) \div 2 \in 1 .. n + 1 /\ p = 2 * ((p - 3) \div 2) + 3
        BY <1>4, <1>8, <2>4
      <4> QED
        BY <4>1
    <3>2. s[p] = Await(Hash)
      BY <1>3, <3>1
    <3> QED
      BY <1>6, <3>2
  <2> QED
    BY <2>1, <2>2, <2>3, <2>4
<1> DEFINE Ending(at) ==
             /\ at.do = "send" => at = Say("exit")
             /\ at.do \in {"expect", "wait"} =>
                   \A b \in DOMAIN at.on :
                     at.on[b].reply \in {"", "yes", "exit"} /\ at.on[b].go \in {-1, 0, 1}
             /\ at.do = "expect" => at.late \in {-1, 1}
<1>9. Ending(XrvCommit)
  <2>1. PICK x : x = On({"confirm"}, "yes", Again)
    OBVIOUS
  <2>2. PICK y : y = On(Hash, "exit", 1)
    OBVIOUS
  <2>3. PICK a : a = Expect(<<x, y>>, -1)
    OBVIOUS
  <2>4. a.do = "expect" /\ a.late = -1 /\ DOMAIN a.on = {1, 2} /\ a.on[1] = x /\ a.on[2] = y
    BY <2>3, ExpectIs
  <2>5. x.reply = "yes" /\ x.go = 0 /\ y.reply = "exit" /\ y.go = 1
    BY <2>1, <2>2 DEF On, Exit1, Again
  <2>6. Ending(a)
    BY <2>4, <2>5
  <2> QED
    BY <2>1, <2>2, <2>3, <2>6 DEF XrvCommit, Exit1
<1>10. Ending(Await(Hash))
  <2>1. PICK a : a = Await(Hash)
    OBVIOUS
  <2>2. a.do = "expect" /\ a.late = 1 /\ DOMAIN a.on = {1}
        /\ a.on[1].reply = "" /\ a.on[1].go = 1
    BY <2>1, AwaitIs
  <2>3. Ending(a)
    BY <2>2
  <2> QED
    BY <2>1, <2>3
<1>11. Ending(Say("exit")) /\ Ending(Eof)
  BY DEF Say, Eof
<1>12. ASSUME p > 2 * n + 8, p <= 2 * n + 12 PROVE Ending(s[p])
  <2>1. p = 2 * n + 9 \/ p = 2 * n + 10 \/ p = 2 * n + 11 \/ p = 2 * n + 12
    BY <1>4, <1>12
  <2>2. s[p] = XrvCommit \/ s[p] = Await(Hash) \/ s[p] = Say("exit") \/ s[p] = Eof
    BY <1>3, <2>1
  <2> HIDE DEF Ending
  <2> QED
    BY <1>9, <1>10, <1>11, <2>2
<1> QED
  BY <1>5, <1>8, <1>12 DEF s, n, XrvPlace

\* A step of the script that sends nothing.
LEMMA XrvQueueWaits ==
  ASSUME NEW lines, Len(lines) \in Nat, NEW c \in 0 .. Len(lines) + 4, XrvQueue(lines, c),
         step \in Nat \ {0}, typed' = typed,
         \/ step' = step
         \/ step <= 2 * Len(lines) + 8 /\ step % 2 = 1 /\ step' = step + 1
         \/ step > 2 * Len(lines) + 8 /\ step' \in Nat /\ step' >= step
  PROVE  XrvQueue(lines, c)'
<1> DEFINE n == Len(lines)
<1>1. /\ n \in Nat
      /\ step <= 2 * n + 8 => c + Len(typed) = (step - 1) \div 2
      /\ step > 2 * n + 8 => c + Len(typed) >= n + 4
  BY DEF XrvQueue
<1>2. \A k \in DOMAIN typed : IF c + k <= n + 4 THEN typed[k] = XrvText(lines, c + k)
                               ELSE typed[k].word \in {"yes", "exit"}
  BY DEF XrvQueue
<1> HIDE DEF n
<1>3. /\ step' <= 2 * n + 8 => c + Len(typed') = (step' - 1) \div 2
      /\ step' > 2 * n + 8 => c + Len(typed') >= n + 4
  <2>1. CASE step' = step
    BY <1>1, <2>1
  <2>2. CASE step <= 2 * n + 8 /\ step % 2 = 1 /\ step' = step + 1
    <3>1. (step' - 1) \div 2 = (step - 1) \div 2 /\ step' <= 2 * n + 8
      BY <1>1, <2>2
    <3> QED
      BY <1>1, <2>2, <3>1
  <2>3. CASE step > 2 * n + 8 /\ step' \in Nat /\ step' >= step
    BY <1>1, <2>3
  <2> QED
    BY <2>1, <2>2, <2>3 DEF n
<1> QED
  BY <1>2, <1>3 DEF XrvQueue, n

\* A step that sends the next text.
LEMMA XrvQueueSends ==
  ASSUME NEW lines, Len(lines) \in Nat, NEW c \in 0 .. Len(lines) + 4, XrvQueue(lines, c),
         step \in Nat \ {0}, NEW T, typed \in Seq(T), NEW t \in T, typed' = Append(typed, t),
         \/ /\ step <= 2 * Len(lines) + 8 /\ step % 2 = 0 /\ step' = step + 1
            /\ t = XrvText(lines, step \div 2)
         \/ /\ step > 2 * Len(lines) + 8 /\ step' \in Nat /\ step' >= step
            /\ t.word \in {"yes", "exit"}
  PROVE  XrvQueue(lines, c)'
<1> DEFINE n == Len(lines)
<1>1. /\ n \in Nat
      /\ step <= 2 * n + 8 => c + Len(typed) = (step - 1) \div 2
      /\ step > 2 * n + 8 => c + Len(typed) >= n + 4
  BY DEF XrvQueue
<1>2. \A k \in DOMAIN typed : IF c + k <= n + 4 THEN typed[k] = XrvText(lines, c + k)
                               ELSE typed[k].word \in {"yes", "exit"}
  BY DEF XrvQueue
<1> DEFINE u == Append(typed, t)
<1>3. /\ Len(typed) \in Nat /\ DOMAIN typed = 1 .. Len(typed) /\ DOMAIN u = 1 .. Len(typed) + 1
      /\ Len(u) = Len(typed) + 1
      /\ u[Len(typed) + 1] = t /\ \A k \in 1 .. Len(typed) : u[k] = typed[k]
  BY AppendProperties
<1> HIDE DEF n, u
<1>4. /\ step' <= 2 * n + 8 => c + Len(u) = (step' - 1) \div 2
      /\ step' > 2 * n + 8 => c + Len(u) >= n + 4
      /\ IF c + Len(typed) + 1 <= n + 4 THEN t = XrvText(lines, c + Len(typed) + 1)
         ELSE t.word \in {"yes", "exit"}
  <2>1. CASE /\ step <= 2 * n + 8 /\ step % 2 = 0 /\ step' = step + 1
             /\ t = XrvText(lines, step \div 2)
    <3>1. (step' - 1) \div 2 = step \div 2 /\ (step - 1) \div 2 + 1 = step \div 2
          /\ step \div 2 <= n + 4
      BY <1>1, <2>1
    <3>2. c + Len(typed) + 1 = step \div 2
      BY <1>1, <1>3, <2>1, <3>1
    <3>3. (step' > 2 * n + 8 => step \div 2 >= n + 4) /\ c + Len(u) = step \div 2
      BY <1>1, <1>3, <2>1, <3>2
    <3> QED
      BY <2>1, <3>1, <3>2, <3>3
  <2>2. CASE /\ step > 2 * n + 8 /\ step' \in Nat /\ step' >= step
             /\ t.word \in {"yes", "exit"}
    <3>1. c + Len(typed) >= n + 4 /\ ~ (step' <= 2 * n + 8)
      BY <1>1, <2>2
    <3>2. c + Len(u) >= n + 4 /\ ~ (c + Len(typed) + 1 <= n + 4)
      BY <1>1, <1>3, <3>1
    <3> QED
      BY <2>2, <3>1, <3>2
  <2> QED
    BY <2>1, <2>2 DEF n
<1>5. ASSUME NEW k \in DOMAIN u
      PROVE  IF c + k <= n + 4 THEN u[k] = XrvText(lines, c + k)
             ELSE u[k].word \in {"yes", "exit"}
  <2>1. CASE k \in 1 .. Len(typed)
    BY <1>2, <1>3, <2>1
  <2>2. CASE k = Len(typed) + 1
    <3>1. c + k = c + Len(typed) + 1
      BY <1>3, <2>2
    <3>2. u[k] = t
      BY <1>3, <2>2
    <3> QED
      BY <1>4, <3>1, <3>2
  <2> QED
    BY <1>3, <2>1, <2>2
<1> QED
  BY <1>4, <1>5 DEF XrvQueue, n, u

\* The router takes a text.
LEMMA XrvQueueTaken ==
  ASSUME NEW lines, Len(lines) \in Nat, NEW c \in 0 .. Len(lines) + 4, XrvQueue(lines, c),
         step \in Nat \ {0}, NEW T, typed \in Seq(T), typed # << >>, typed' = Tail(typed),
         step' = step
  PROVE  /\ XrvQueue(lines, IF c = Len(lines) + 4 THEN c ELSE c + 1)'
         /\ IF c = Len(lines) + 4 THEN Head(typed).word \in {"yes", "exit"}
            ELSE Head(typed) = XrvText(lines, c + 1)
<1> DEFINE n == Len(lines)
           d == IF c = n + 4 THEN c ELSE c + 1
<1>1. /\ n \in Nat
      /\ step <= 2 * n + 8 => c + Len(typed) = (step - 1) \div 2
      /\ step > 2 * n + 8 => c + Len(typed) >= n + 4
  BY DEF XrvQueue
<1>2. \A k \in DOMAIN typed : IF c + k <= n + 4 THEN typed[k] = XrvText(lines, c + k)
                               ELSE typed[k].word \in {"yes", "exit"}
  BY DEF XrvQueue
<1> DEFINE u == Tail(typed)
<1>3. /\ Len(typed) \in Nat /\ Len(typed) > 0 /\ DOMAIN typed = 1 .. Len(typed)
      /\ DOMAIN u = 1 .. Len(typed) - 1 /\ Len(u) = Len(typed) - 1
      /\ \A k \in DOMAIN u : u[k] = typed[k + 1]
      /\ Head(typed) = typed[1]
  BY HeadTailProperties
<1> HIDE DEF n, u
<1>4. IF c = n + 4 THEN Head(typed).word \in {"yes", "exit"} ELSE Head(typed) = XrvText(lines, c + 1)
  <2>1. 1 \in DOMAIN typed
    BY <1>3
  <2>2. c + 1 <= n + 4 <=> c # n + 4
    BY <1>1 DEF n
  <2> QED
    BY <1>2, <1>3, <2>1, <2>2
<1>5. /\ step <= 2 * n + 8 => d + Len(u) = (step - 1) \div 2
      /\ step > 2 * n + 8 => d + Len(u) >= n + 4
  <2>1. CASE c = n + 4
    <3>1. step <= 2 * n + 8 => (step - 1) \div 2 <= n + 3
      BY <1>1
    <3>2. ~ (step <= 2 * n + 8)
      BY <1>1, <1>3, <2>1, <3>1
    <3> QED
      BY <1>1, <1>3, <2>1, <3>2
  <2>2. CASE c # n + 4
    <3>1. d + Len(u) = c + Len(typed)
      BY <1>3, <2>2
    <3> QED
      BY <1>1, <3>1
  <2> QED
    BY <2>1, <2>2
<1>6. ASSUME NEW k \in DOMAIN u
      PROVE  IF d + k <= n + 4 THEN u[k] = XrvText(lines, d + k)
             ELSE u[k].word \in {"yes", "exit"}
  <2>1. k + 1 \in DOMAIN typed /\ u[k] = typed[k + 1] /\ k \in Nat \ {0}
    BY <1>3
  <2>2. CASE c = n + 4
    <3>1. ~ (d + k <= n + 4) /\ ~ (c + (k + 1) <= n + 4)
      BY <1>1, <2>1, <2>2
    <3> QED
      BY <1>2, <2>1, <3>1
  <2>3. CASE c # n + 4
    <3>1. c + (k + 1) = d + k
      BY <2>1, <2>3
    <3> QED
      BY <1>2, <2>1, <3>1
  <2> QED
    BY <2>2, <2>3
<1> QED
  BY <1>4, <1>5, <1>6 DEF XrvQueue, n, u

\* The lines of an xRV's script, and where it is.
LEMMA XrvCurrent ==
  ASSUME TypedInv, driver = "xrv", NEW lines, lines = SentLines(driver, file)
  PROVE  /\ lines \in Seq(DOMAIN file \cap Line) /\ Len(lines) \in Nat
         /\ script = XrvScript(lines) /\ Len(script) = 2 * Len(lines) + 12
         /\ step \in Nat \ {0} /\ (step % 2 = 0 \/ step % 2 = 1)
         /\ XrvPlace(Current, lines, step)
<1>1. file \in File /\ script = Script(driver, file) /\ step \in Nat \ {0}
  BY DEF TypedInv, TypeOK
<1>2. lines \in Seq(DOMAIN file \cap Line)
  BY <1>1, SentFacts
<1>3. script = XrvScript(lines)
  BY <1>1 DEF Script
<1>4. Len(lines) \in Nat /\ Len(script) = 2 * Len(lines) + 12
  BY <1>2, <1>3, XrvSteps
<1>5. step % 2 = 0 \/ step % 2 = 1
  BY <1>1
<1>6. XrvPlace(XrvScript(lines)[step], lines, step)
  BY <1>1, <1>2, XrvPlaces
<1>7. Current = XrvScript(lines)[step]
  BY <1>3 DEF Current
<1> QED
  BY <1>1, <1>2, <1>3, <1>4, <1>5, <1>6, <1>7

\* No step of the interpreter upsets the queue.
LEMMA XrvInterpreter ==
  ASSUME TypedInv, driver = "xrv", mode # "closed", Interpreter,
         NEW lines, lines = SentLines(driver, file),
         NEW c \in 0 .. Len(lines) + 4, XrvQueue(lines, c)
  PROVE  XrvQueue(lines, c)'
<1> DEFINE n == Len(lines)
<1>1. /\ n \in Nat /\ Len(script) = 2 * n + 12
      /\ step \in Nat \ {0} /\ (step % 2 = 0 \/ step % 2 = 1)
  BY XrvCurrent
<1>2. /\ step <= 2 * n + 8 /\ step % 2 = 0 =>
            Current.do = "send" /\ Current.text = XrvText(lines, step \div 2)
      /\ step <= 2 * n + 8 /\ step % 2 = 1 =>
            /\ Current.do = "expect" /\ Current.late \in {-1, 1}
            /\ \A b \in DOMAIN Current.on : Current.on[b].reply = "" /\ Current.on[b].go \in {-1, 1}
      /\ step > 2 * n + 8 /\ step <= Len(script) =>
            /\ Current.do = "send" => Current = Say("exit")
            /\ Current.do \in {"expect", "wait"} =>
                 \A b \in DOMAIN Current.on :
                   Current.on[b].reply \in {"", "yes", "exit"} /\ Current.on[b].go \in {-1, 0, 1}
            /\ Current.do = "expect" => Current.late \in {-1, 1}
  <2>1. XrvPlace(Current, lines, step)
    BY XrvCurrent
  <2>2. step <= Len(script) => step <= 2 * n + 12
    BY <1>1
  <2> HIDE DEF n
  <2> QED
    BY <2>1, <2>2 DEF XrvPlace, n
<1>3. typed \in Seq(Texts(file)) /\ typed \in Seq(Text)
  BY TypedFacts DEF TypedInv, TypeOK
<1>4. step <= 2 * n + 8 \/ step > 2 * n + 8
  BY <1>1
<1>5. ASSUME typed' = typed,
             \/ step' = step
             \/ step <= 2 * n + 8 /\ step % 2 = 1 /\ step' = step + 1
             \/ step > 2 * n + 8 /\ step' \in Nat /\ step' >= step
      PROVE  XrvQueue(lines, c)'
  BY <1>1, <1>5, XrvQueueWaits
<1>6. ASSUME NEW t \in Text, typed' = Append(typed, t),
             \/ /\ step <= 2 * n + 8 /\ step % 2 = 0 /\ step' = step + 1
                /\ t = XrvText(lines, step \div 2)
             \/ /\ step > 2 * n + 8 /\ step' \in Nat /\ step' >= step
                /\ t.word \in {"yes", "exit"}
      PROVE  XrvQueue(lines, c)'
  BY <1>1, <1>3, <1>6, XrvQueueSends
<1> HIDE DEF n
<1>7. CASE Send
  <2>1. /\ Current.do = "send" /\ step <= Len(script) /\ Current.text \in Text
    BY <1>7, CurrentType, TypedFacts DEF Send, Running
  <2>2. CASE /\ connected /\ typed' = Typed(Current.text) /\ Go(1)
    <3>1. typed' = Append(typed, Current.text) /\ step' = step + 1
      BY <2>2 DEF Typed, Go, Exit1
    <3>2. CASE step <= 2 * n + 8
      <4>1. step % 2 = 0
        BY <1>1, <1>2, <2>1, <3>2
      <4>2. Current.text = XrvText(lines, step \div 2)
        BY <1>2, <3>2, <4>1
      <4> QED
        BY <1>6, <2>1, <3>1, <3>2, <4>1, <4>2
    <3>3. CASE step > 2 * n + 8
      <4>1. Current = Say("exit")
        BY <1>2, <2>1, <3>3
      <4>2. Current.text.word = "exit"
        BY <4>1 DEF Say
      <4>3. step' \in Nat /\ step' >= step
        BY <1>1, <3>1
      <4> QED
        BY <1>6, <2>1, <3>1, <3>3, <4>2, <4>3
    <3> QED
      BY <1>4, <3>2, <3>3
  <2>3. CASE Go(Exit1) /\ UNCHANGED typed
    BY <1>5, <2>3 DEF Go
  <2> QED
    BY <1>7, <2>2, <2>3 DEF Send
<1>8. CASE Match
  <2>1. /\ Current.do \in {"expect", "wait"} /\ step <= Len(script)
        /\ Current.on \in Seq(Branch)
    <3>1. Running({"expect", "wait"})
      BY <1>8 DEF Match
    <3> QED
      BY <3>1, CurrentType DEF Running
  <2>2. Min(Matching) \in Matching
    BY <1>8, <2>1, FirstMatches DEF Match
  <2>3. Min(Matching) \in DOMAIN Current.on
    BY <2>2 DEF Matching
  <2>4. PICK branch : branch = Current.on[Min(Matching)]
    OBVIOUS
  <2>5. branch \in Branch
    BY <2>1, <2>3, <2>4
  <2>6. /\ typed' = IF branch.reply = "" THEN typed
                    ELSE Append(typed, [word |-> branch.reply, line |-> 0])
        /\ Go(branch.go)
    BY <1>8, <2>4 DEF Match, Typed
  <2>7. CASE step <= 2 * n + 8
    <3>1. step % 2 = 1
      <4>1. step % 2 = 0 => Current.do = "send"
        BY <1>2, <2>7
      <4> QED
        BY <1>1, <2>1, <4>1
    <3>2. branch.reply = "" /\ branch.go \in {-1, 1}
      BY <1>2, <2>3, <2>4, <2>7, <3>1
    <3>3. typed' = typed /\ (step' = step \/ step' = step + 1)
      BY <2>6, <3>2 DEF Go, Exit1
    <3> QED
      BY <1>5, <2>7, <3>1, <3>3
  <2>8. CASE step > 2 * n + 8
    <3>1. branch.reply \in {"", "yes", "exit"} /\ branch.go \in {-1, 0, 1}
      BY <1>2, <2>1, <2>3, <2>4, <2>8
    <3>2. step' \in Nat /\ step' >= step
      <4>1. step' = step \/ step' = step + branch.go
        BY <2>6 DEF Go
      <4>2. branch.go # -1 => branch.go \in {0, 1}
        BY <3>1
      <4>3. branch.go = -1 => step' = step
        BY <2>6 DEF Go, Exit1
      <4> QED
        BY <1>1, <4>1, <4>2, <4>3
    <3>3. CASE branch.reply = ""
      BY <1>5, <2>6, <2>8, <3>2, <3>3
    <3>4. CASE branch.reply \in {"yes", "exit"}
      <4>1. PICK t : t = [word |-> branch.reply, line |-> 0]
        OBVIOUS
      <4>2. t \in Text /\ t.word \in {"yes", "exit"}
        BY <3>4, <4>1 DEF Text, Word
      <4>3. typed' = Append(typed, t)
        BY <2>6, <3>4, <4>1
      <4> QED
        BY <1>6, <2>8, <3>2, <4>2, <4>3
    <3> QED
      BY <3>1, <3>3, <3>4
  <2> QED
    BY <1>4, <2>7, <2>8
<1>9. CASE Timeout
  <2>1. Current.do = "expect" /\ step <= Len(script) /\ typed' = typed /\ Go(Current.late)
    BY <1>9 DEF Timeout, Running
  <2>2. CASE step <= 2 * n + 8
    <3>1. step % 2 = 1
      <4>1. step % 2 = 0 => Current.do = "send"
        BY <1>2, <2>2
      <4> QED
        BY <1>1, <2>1, <4>1
    <3>2. step' = step \/ step' = step + 1
      BY <1>2, <2>1, <2>2, <3>1 DEF Go, Exit1
    <3> QED
      BY <1>5, <2>1, <2>2, <3>1, <3>2
  <2>3. CASE step > 2 * n + 8
    <3>1. Current.late \in {-1, 1}
      BY <1>2, <2>1, <2>3
    <3>2. step' \in Nat /\ step' >= step
      BY <1>1, <2>1, <3>1 DEF Go, Exit1
    <3> QED
      BY <1>5, <2>1, <2>3, <3>2
  <2> QED
    BY <1>4, <2>2, <2>3
<1>10. CASE EndOfFile
  BY <1>10 DEF EndOfFile
<1>11. CASE ExpectEof
  <2>1. Current.do = "eof" /\ typed' = typed /\ (step' = step \/ step' = step + 1)
    BY <1>11 DEF ExpectEof, Running, Go, Exit1
  <2>2. step > 2 * n + 8
    <3>1. ASSUME step <= 2 * n + 8 PROVE FALSE
      <4>1. step % 2 = 0 => Current.do = "send"
        BY <1>2, <3>1
      <4>2. step % 2 = 1 => Current.do = "expect"
        BY <1>2, <3>1
      <4> QED
        BY <1>1, <2>1, <4>1, <4>2
    <3> QED
      BY <1>4, <3>1
  <2>3. step' \in Nat /\ step' >= step
    BY <1>1, <2>1
  <2> QED
    BY <1>5, <2>1, <2>2, <2>3
<1>12. CASE Done
  BY <1>5, <1>12 DEF Done
<1> QED
  BY <1>7, <1>8, <1>9, <1>10, <1>11, <1>12 DEF Interpreter

\* The lines that are sent, one after the other.
LineOrder(lines, kept) ==
  /\ \A m \in 0 .. Len(lines) - 1 :
       /\ LineAt(lines, m) \in Nat /\ lines[m + 1] \in kept
       /\ LineAt(lines, m) < lines[m + 1] /\ LineAt(lines, m + 1) = lines[m + 1]
       /\ \A j \in kept : j < lines[m + 1] => j <= LineAt(lines, m)
  /\ LineAt(lines, Len(lines)) \in Nat
  /\ \A j \in kept : j <= LineAt(lines, Len(lines))

\* So are the members of a set that are put in order.
LEMMA LineAfter ==
  ASSUME NEW kept, kept \subseteq Nat \ {0}, NEW lines, Sorted(lines, kept)
  PROVE  LineOrder(lines, kept)
<1> DEFINE n == Len(lines)
<1>1. /\ lines \in Seq(kept) /\ n \in Nat
      /\ \A j, k \in 1 .. n : j < k => lines[j] < lines[k]
      /\ \A i \in kept : \E j \in 1 .. n : lines[j] = i
  BY DEF Sorted
<1>2. ASSUME NEW k \in 1 .. n PROVE lines[k] \in kept /\ lines[k] \in Nat /\ lines[k] > 0
  <2>1. lines[k] \in kept
    BY <1>1
  <2>2. lines[k] \in Nat \ {0}
    BY <2>1
  <2> QED
    BY <2>1, <2>2
<1> HIDE DEF n
<1>3. ASSUME NEW m \in 0 .. n - 1
      PROVE  /\ LineAt(lines, m) \in Nat /\ lines[m + 1] \in kept
             /\ LineAt(lines, m) < lines[m + 1] /\ LineAt(lines, m + 1) = lines[m + 1]
             /\ \A j \in kept : j < lines[m + 1] => j <= LineAt(lines, m)
  <2>1. m + 1 \in 1 .. n /\ m \in Nat /\ m + 1 # 0
    BY <1>1
  <2>2. lines[m + 1] \in kept /\ lines[m + 1] \in Nat /\ lines[m + 1] > 0
    BY <1>2, <2>1
  <2>3. LineAt(lines, m) \in Nat /\ LineAt(lines, m) < lines[m + 1]
    <3>1. CASE m = 0
      BY <2>2, <3>1 DEF LineAt
    <3>2. CASE m # 0
      <4>1. m \in 1 .. n /\ m < m + 1
        BY <1>1, <2>1, <3>2
      <4>2. lines[m] \in Nat /\ lines[m] < lines[m + 1]
        BY <1>1, <1>2, <2>1, <4>1
      <4> QED
        BY <3>2, <4>2 DEF LineAt
    <3> QED
      BY <3>1, <3>2
  <2>4. ASSUME NEW j \in kept, j < lines[m + 1] PROVE j <= LineAt(lines, m)
    <3>1. PICK q \in 1 .. n : lines[q] = j
      BY <1>1
    <3>2. lines[q] \in Nat
      BY <1>2
    <3>3. ~ (m + 1 <= q)
      <4>1. CASE m + 1 < q
        <5>1. lines[m + 1] < lines[q]
          BY <1>1, <2>1, <4>1
        <5> QED
          BY <2>2, <2>4, <3>1, <3>2, <5>1
      <4>2. CASE m + 1 = q
        BY <2>2, <2>4, <3>1, <4>2
      <4> QED
        BY <2>1, <4>1, <4>2
    <3>4. q <= m /\ m \in 1 .. n /\ m # 0
      BY <1>1, <2>1, <3>3
    <3>5. lines[m] \in Nat
      BY <1>2, <3>4
    <3>6. CASE q = m
      BY <3>1, <3>2, <3>4, <3>6 DEF LineAt
    <3>7. CASE q # m
      <4>1. q < m
        BY <3>4, <3>7
      <4>2. lines[q] < lines[m]
        BY <1>1, <3>4, <4>1
      <4> QED
        BY <3>1, <3>2, <3>4, <3>5, <4>2 DEF LineAt
    <3> QED
      BY <3>6, <3>7
  <2> QED
    BY <2>1, <2>2, <2>3, <2>4 DEF LineAt
<1>4. LineAt(lines, n) \in Nat
  <2>1. n # 0 => n \in 1 .. n
    BY <1>1
  <2> QED
    BY <1>2, <2>1 DEF LineAt
<1>5. ASSUME NEW j \in kept PROVE j <= LineAt(lines, n)
  <2>1. PICK q \in 1 .. n : lines[q] = j
    BY <1>1
  <2>2. n \in 1 .. n /\ n # 0
    BY <1>1
  <2>3. lines[q] \in Nat /\ lines[n] \in Nat
    BY <1>2, <2>2
  <2>4. CASE q = n
    BY <2>1, <2>2, <2>3, <2>4 DEF LineAt
  <2>5. CASE q # n
    <3>1. q < n
      BY <1>1, <2>5
    <3>2. lines[q] < lines[n]
      BY <1>1, <2>2, <3>1
    <3> QED
      BY <2>1, <2>2, <2>3, <3>2 DEF LineAt
  <2> QED
    BY <2>4, <2>5
<1> QED
  BY <1>3, <1>4, <1>5 DEF LineOrder, n

\* What the texts of a script say.
LEMMA XrvWords ==
  ASSUME NEW lines, Len(lines) \in Nat
  PROVE  /\ XrvText(lines, 1).word = "username" /\ XrvText(lines, 2).word = "password"
         /\ XrvText(lines, 3).word = "configure"
         /\ XrvText(lines, Len(lines) + 4).word = "commit"
         /\ \A m \in 0 .. Len(lines) - 1 :
              /\ XrvText(lines, m + 4).word = "line"
              /\ XrvText(lines, m + 4).line = lines[m + 1]
<1>1. ASSUME NEW m \in 0 .. Len(lines) - 1
      PROVE  XrvText(lines, m + 4) = Enter(lines[m + 1]).text
  <2>1. m + 4 \notin {1, 2, 3, Len(lines) + 4} /\ (m + 4) - 3 = m + 1
    OBVIOUS
  <2> QED
    BY <2>1 DEF XrvText
<1>2. /\ XrvText(lines, 1).word = "username" /\ XrvText(lines, 2).word = "password"
      /\ XrvText(lines, 3).word = "configure"
  BY DEF XrvText, Say
<1>3. XrvText(lines, Len(lines) + 4).word = "commit"
  <2>1. Len(lines) + 4 \notin {1, 2, 3}
    OBVIOUS
  <2> QED
    BY <2>1 DEF XrvText, Say
<1>4. ASSUME NEW i PROVE Enter(i).text.word = "line" /\ Enter(i).text.line = i
  BY DEF Enter
<1>5. ASSUME NEW m \in 0 .. Len(lines) - 1
      PROVE  XrvText(lines, m + 4).word = "line" /\ XrvText(lines, m + 4).line = lines[m + 1]
  BY <1>1, <1>4
<1> QED
  BY <1>2, <1>3, <1>5

\* The router keeps to where the texts have brought it, and commits the whole.
LEMMA XrvRouter ==
  ASSUME TypedInv, driver = "xrv", mode # "closed", Router,
         NEW f, f = file, NEW kept, kept = Sent(driver, file),
         NEW lines, lines = SentLines(driver, file),
         NEW c \in 0 .. Len(lines) + 4, XrvQueue(lines, c), XrvStage(f, kept, lines, c)
  PROVE  /\ running' \in {running, Meaning(f, kept)}
         /\ mode' # "closed" =>
              \E d \in 0 .. Len(lines) + 4 : XrvQueue(lines, d)' /\ XrvStage(f, kept, lines, d)'
<1> DEFINE n == Len(lines)
           whole == Meaning(f, kept)
           next == IF c = n + 4 THEN c ELSE c + 1
<1> USE DEF job, place, router
<1>1. /\ f \in File /\ step \in Nat \ {0} /\ typed \in Seq(Texts(file)) /\ n \in Nat
  BY XrvCurrent DEF TypedInv, TypeOK
<1>2. /\ kept \subseteq Nat \ {0} /\ Sorted(lines, kept)
      /\ \A i \in kept : f[i] \in LineKind /\ f[i] # "comment"
  BY <1>1, SentFacts
<1>3. /\ \A m \in 0 .. n - 1 :
           /\ LineAt(lines, m) \in Nat /\ lines[m + 1] \in kept
           /\ LineAt(lines, m) < lines[m + 1] /\ LineAt(lines, m + 1) = lines[m + 1]
           /\ \A j \in kept : j < lines[m + 1] => j <= LineAt(lines, m)
      /\ LineAt(lines, n) \in Nat
      /\ \A j \in kept : j <= LineAt(lines, n)
  <2>1. LineOrder(lines, kept)
    BY <1>2, LineAfter
  <2> QED
    BY <2>1 DEF LineOrder
<1>4. Part(f, kept, LineAt(lines, n)) = whole
  BY <1>2, <1>3, PartEnds
<1>5. Part(f, kept, LineAt(lines, 0)) = {} /\ Inside(f, kept, LineAt(lines, 0)) = 0
  BY <1>2, PartEnds DEF LineAt
<1>6. /\ XrvText(lines, 1).word = "username" /\ XrvText(lines, 2).word = "password"
      /\ XrvText(lines, 3).word = "configure"
      /\ XrvText(lines, n + 4).word = "commit"
      /\ \A m \in 0 .. n - 1 :
           /\ XrvText(lines, m + 4).word = "line"
           /\ XrvText(lines, m + 4).line = lines[m + 1]
  BY <1>1, XrvWords
<1>7. ASSUME typed # << >>, typed' = Tail(typed), step' = step
      PROVE  /\ next \in 0 .. n + 4 /\ XrvQueue(lines, next)'
             /\ c = n + 4 => Head(typed).word \in {"yes", "exit"}
             /\ c # n + 4 => Head(typed) = XrvText(lines, c + 1) /\ c \in 0 .. n + 3 /\ next = c + 1
  <2>1. /\ XrvQueue(lines, next)'
        /\ IF c = n + 4 THEN Head(typed).word \in {"yes", "exit"}
           ELSE Head(typed) = XrvText(lines, c + 1)
    BY <1>1, <1>7, XrvQueueTaken
  <2>2. c = n + 4 \/ c \in 0 .. n + 3
    BY <1>1
  <2>3. next \in 0 .. n + 4
    BY <1>1, <2>2
  <2> QED
    BY <2>1, <2>2, <2>3
<1>8. \/ c = 0 /\ mode \in {"connect", "username"} /\ candidate = {}
      \/ c = 1 /\ mode = "password" /\ candidate = {}
      \/ c = 2 /\ mode \in {"exec", "username"} /\ candidate = {}
      \/ c >= 3 /\ mode \in {"username", "password"}
      \/ c >= 3 /\ c <= n + 3 /\ XrvConfig(f, kept, lines, c - 3)
      \/ c = n + 4 /\ mode \in {"config", "confirm", "exec"} /\ candidate = whole
  BY DEF XrvStage
<1>9. ASSUME c \in 3 .. n + 3
      PROVE  c = n + 3 \/ \E m \in 0 .. n - 1 : c = m + 3
  <2>1. c = n + 3 \/ (c - 3 \in 0 .. n - 1 /\ c = (c - 3) + 3)
    BY <1>1, <1>9
  <2> QED
    BY <2>1
<1> HIDE DEF n, whole, next
<1>10. CASE Greet
  <2>1. /\ mode = "connect" /\ (mode' = "username" \/ mode' = "closed")
        /\ typed' = typed /\ step' = step /\ candidate' = candidate /\ running' = running
    BY <1>10 DEF Greet
  <2>2. c = 0 /\ candidate = {}
    BY <1>8, <2>1 DEF XrvConfig
  <2>3. XrvQueue(lines, c)'
    BY <1>1, <2>1, XrvQueueWaits DEF n
  <2>4. mode' # "closed" => XrvStage(f, kept, lines, c)'
    BY <2>1, <2>2 DEF XrvStage
  <2> QED
    BY <2>1, <2>3, <2>4
<1>11. CASE Login
  <2>1. /\ mode \in {"username", "password", "enable"} /\ typed # << >>
        /\ typed' = Tail(typed) /\ step' = step /\ candidate' = candidate /\ running' = running
    BY <1>11 DEF Login, Asked, Tell
  <2>2. /\ next \in 0 .. n + 4 /\ XrvQueue(lines, next)'
        /\ c = n + 4 => Head(typed).word \in {"yes", "exit"}
        /\ c # n + 4 => Head(typed) = XrvText(lines, c + 1) /\ c \in 0 .. n + 3 /\ next = c + 1
    BY <1>7, <2>1
  <2>3. /\ c \in Nat
        /\ \/ c = 0 /\ mode = "username" /\ candidate = {}
           \/ c = 1 /\ mode = "password" /\ candidate = {}
           \/ c = 2 /\ mode = "username" /\ candidate = {}
           \/ c >= 3 /\ mode \in {"username", "password"}
    BY <1>8, <2>1 DEF XrvConfig
  <2>4. c >= 3 => ~ Asked({"password"})
    <3>1. CASE c = n + 4
      BY <2>2, <3>1 DEF Asked
    <3>2. CASE c # n + 4 /\ c >= 3
      <4>1. Head(typed).word \in {"commit", "line"}
        <5>1. CASE c = n + 3
          <6>1. c + 1 = n + 4
            BY <1>1, <5>1
          <6> QED
            BY <1>6, <2>2, <3>2, <6>1
        <5>2. CASE \E m \in 0 .. n - 1 : c = m + 3
          <6>1. PICK m \in 0 .. n - 1 : c = m + 3
            BY <5>2
          <6>2. c + 1 = m + 4
            BY <6>1
          <6> QED
            BY <1>6, <2>2, <3>2, <6>1, <6>2
        <5> QED
          BY <1>1, <1>9, <2>2, <3>2, <5>1, <5>2
      <4> QED
        BY <4>1 DEF Asked
    <3> QED
      BY <3>1, <3>2
  <2>5. next = IF c = n + 4 THEN c ELSE c + 1
    BY DEF next
  <2>6. c < 3 => next = c + 1
    BY <1>1, <2>3, <2>5
  <2>7. c >= 3 => next >= 3
    BY <2>3, <2>5
  <2>8. CASE mode = "username" /\ mode' = "password"
    <3>1. c = 0 \/ c >= 2
      BY <2>3, <2>8
    <3>2. c = 0 => next = 1
      BY <2>6
    <3>3. c >= 2 => next >= 3
      BY <2>3, <2>6, <2>7
    <3>4. c = 0 => candidate = {}
      BY <2>3, <2>8
    <3>5. XrvStage(f, kept, lines, next)'
      BY <2>1, <2>8, <3>1, <3>2, <3>3, <3>4 DEF XrvStage
    <3> QED
      BY <2>1, <2>2, <3>5 DEF n
  <2>9. CASE mode # "username" /\ Asked({"password"}) /\ mode' = "exec"
    <3>1. c = 1 /\ candidate = {}
      BY <2>3, <2>4, <2>9
    <3>2. next = 2
      BY <2>6, <3>1
    <3>3. XrvStage(f, kept, lines, next)'
      BY <2>1, <2>9, <3>1, <3>2 DEF XrvStage
    <3> QED
      BY <2>1, <2>2, <3>3 DEF n
  <2>10. CASE mode # "username" /\ mode' \in {"closed", "username"}
    <3>1. (c = 1 /\ candidate = {}) \/ c >= 3
      BY <2>3, <2>10
    <3>2. (next = 2 /\ candidate = {}) \/ next >= 3
      BY <2>6, <2>7, <3>1
    <3>3. mode' # "closed" => XrvStage(f, kept, lines, next)'
      BY <2>1, <2>10, <3>2 DEF XrvStage
    <3> QED
      BY <2>1, <2>2, <3>3 DEF n
  <2> QED
    BY <1>11, <2>8, <2>9, <2>10 DEF Login
<1>12. CASE TakeLine
  <2>1. PICK i : i = Head(typed).line
    OBVIOUS
  <2>2. /\ mode = "config" /\ typed # << >> /\ Head(typed).word = "line"
        /\ typed' = Tail(typed) /\ step' = step /\ mode' = "config" /\ running' = running
        /\ section' = CASE f[i] \in Single                 -> 0
                        [] f[i] \in {"header", "filtered"} -> i
                        [] OTHER                         -> section
        /\ candidate' = candidate \cup (IF ~Takes(i) THEN {}
                                       ELSE {<<i, IF f[i] = "sub" THEN section ELSE i>>})
    BY <1>12, <2>1 DEF TakeLine, Asked, Tell
  <2>3. /\ next \in 0 .. n + 4 /\ XrvQueue(lines, next)'
        /\ c = n + 4 => Head(typed).word \in {"yes", "exit"}
        /\ c # n + 4 => Head(typed) = XrvText(lines, c + 1) /\ c \in 0 .. n + 3 /\ next = c + 1
    BY <1>7, <2>2
  <2>4. c \in 3 .. n + 3 /\ c # n + 4 /\ XrvConfig(f, kept, lines, c - 3)
    <3>1. c # n + 4
      BY <2>2, <2>3
    <3>2. c >= 3 /\ XrvConfig(f, kept, lines, c - 3)
      BY <1>8, <2>2, <3>1
    <3> QED
      BY <2>3, <3>1, <3>2
  <2>5. c # n + 3
    <3>1. ASSUME c = n + 3 PROVE FALSE
      <4>1. c + 1 = n + 4
        BY <1>1, <3>1
      <4> QED
        BY <1>6, <2>2, <2>3, <2>4, <4>1
    <3> QED
      BY <3>1
  <2>6. PICK m \in 0 .. n - 1 : c = m + 3
    BY <1>9, <2>4, <2>5
  <2>7. c + 1 = m + 4 /\ c - 3 = m /\ next - 3 = m + 1 /\ next >= 3 /\ next <= n + 3
    BY <1>1, <2>3, <2>4, <2>6
  <2>8. i = lines[m + 1]
    BY <1>6, <2>1, <2>3, <2>4, <2>7
  <2>9. /\ i \in kept /\ LineAt(lines, m) \in Nat /\ LineAt(lines, m) < i
        /\ LineAt(lines, m + 1) = i
        /\ \A j \in kept : j < i => j <= LineAt(lines, m)
        /\ f[i] \in LineKind /\ f[i] # "comment"
    BY <1>2, <1>3, <2>8
  <2>10. /\ candidate = Part(f, kept, LineAt(lines, m))
         /\ section = Inside(f, kept, LineAt(lines, m))
    BY <2>4, <2>7 DEF XrvConfig
  <2>11. Takes(i) <=> f[i] \notin {"bad", "escape"} /\ (f[i] = "sub" => section # 0)
    BY DEF Takes
  <2>12. candidate' = Part(f, kept, i) /\ section' = Inside(f, kept, i)
    <3>1. PICK p : p = LineAt(lines, m)
      OBVIOUS
    <3>2. TakenOn(f, kept, p, i)
      <4>1. /\ kept \subseteq Nat \ {0} /\ i \in kept /\ p \in Nat /\ p < i
            /\ \A j \in kept : j < i => j <= p
            /\ f[i] \in LineKind /\ f[i] # "comment"
        BY <1>2, <2>9, <3>1
      <4> QED
        BY <4>1, TakesNext
    <3>3. section = Inside(f, kept, p) /\ candidate = Part(f, kept, p)
      BY <2>10, <3>1
    <3> QED
      BY <2>2, <2>11, <3>2, <3>3 DEF TakenOn
  <2>13. XrvConfig(f, kept, lines, next - 3)'
    BY <2>2, <2>7, <2>9, <2>12 DEF XrvConfig
  <2>14. XrvStage(f, kept, lines, next)'
    BY <2>7, <2>13 DEF XrvStage, n
  <2> QED
    BY <2>2, <2>3, <2>14 DEF n
<1>13. CASE Command
  <2>1. /\ mode \in {"user", "exec", "config", "confirm", "fetch"} /\ typed # << >>
        /\ ~(mode = "config" /\ Head(typed).word = "line")
        /\ mode' = After(Head(typed).word)
        /\ section' = IF Head(typed).word \in {"configure", "exit", "end"} THEN 0 ELSE section
        /\ mode # "fetch" => candidate' = candidate
        /\ \/ running' = running
           \/ mode = "confirm" /\ Head(typed).word = "yes" /\ running' = candidate
        /\ typed' = Tail(typed) /\ step' = step
    BY <1>13 DEF Command, Commits, Asked, Tell
  <2>2. /\ next \in 0 .. n + 4 /\ XrvQueue(lines, next)'
        /\ c = n + 4 => Head(typed).word \in {"yes", "exit"}
        /\ c # n + 4 => Head(typed) = XrvText(lines, c + 1) /\ c \in 0 .. n + 3 /\ next = c + 1
    BY <1>7, <2>1
  <2>3. next = IF c = n + 4 THEN c ELSE c + 1
    BY DEF next
  <2>4. CASE c = 2 /\ mode = "exec" /\ candidate = {}
    <3>1. c # n + 4 /\ next = 3 /\ c + 1 = 3
      BY <1>1, <2>3, <2>4
    <3>2. Head(typed).word = "configure"
      BY <1>6, <2>2, <3>1
    <3>3. mode' = "config" /\ section' = 0 /\ candidate' = {} /\ running' = running
      BY <2>1, <2>4, <3>2 DEF After
    <3>4. XrvConfig(f, kept, lines, 0)'
      BY <1>5, <3>3 DEF XrvConfig
    <3>5. 3 <= n + 3 /\ next - 3 = 0
      BY <1>1, <3>1
    <3>6. XrvStage(f, kept, lines, next)'
      BY <3>1, <3>4, <3>5 DEF XrvStage, n
    <3> QED
      BY <2>2, <3>3, <3>6 DEF n
  <2>5. CASE c >= 3 /\ c <= n + 3 /\ XrvConfig(f, kept, lines, c - 3)
    <3>1. c # n + 4 /\ c \in 3 .. n + 3 /\ mode = "config"
      BY <1>1, <2>5 DEF XrvConfig
    <3>2. c = n + 3
      <4>1. ASSUME NEW m \in 0 .. n - 1, c = m + 3 PROVE FALSE
        <5>1. c + 1 = m + 4
          BY <4>1
        <5> QED
          BY <1>6, <2>1, <2>2, <3>1, <5>1
      <4> QED
        BY <1>9, <3>1, <4>1
    <3>3. c + 1 = n + 4 /\ c - 3 = n /\ next = n + 4
      BY <1>1, <2>2, <3>1, <3>2
    <3>4. Head(typed).word = "commit"
      BY <1>6, <2>2, <3>1, <3>3
    <3>5. mode' = "confirm" /\ candidate' = candidate /\ running' = running
      BY <2>1, <3>1, <3>4 DEF After
    <3>6. candidate = whole
      BY <1>4, <2>5, <3>3 DEF XrvConfig
    <3>7. XrvStage(f, kept, lines, next)'
      BY <3>3, <3>5, <3>6 DEF XrvStage, n, whole
    <3> QED
      BY <2>2, <3>5, <3>7 DEF n
  <2>6. CASE c = n + 4 /\ mode \in {"config", "confirm", "exec"} /\ candidate = whole
    <3>1. Head(typed).word \in {"yes", "exit"} /\ next = n + 4
      BY <2>2, <2>3, <2>6
    <3>2. mode' \in {"config", "exec", "closed"} /\ candidate' = whole
      BY <2>1, <2>6, <3>1 DEF After
    <3>3. running' \in {running, whole}
      BY <2>1, <2>6
    <3>4. mode' # "closed" => XrvStage(f, kept, lines, next)'
      BY <3>1, <3>2 DEF XrvStage, n, whole
    <3> QED
      BY <2>2, <3>3, <3>4 DEF n, whole
  <2> QED
    BY <1>8, <2>1, <2>4, <2>5, <2>6
<1>14. CASE Serve
  BY <1>8, <1>14 DEF Serve, XrvConfig
<1> QED
  BY <1>10, <1>11, <1>12, <1>13, <1>14 DEF Router

\* Between two steps nothing else moves an xRV.
LEMMA XrvInvariant == TypedInv /\ XrvInv /\ [Next]_vars => XrvInv'
<1> SUFFICES ASSUME TypedInv, XrvInv, [Next]_vars PROVE XrvInv'
  OBVIOUS
<1> USE DEF job, place, router
<1>1. driver' = driver /\ file' = file
  BY DEF vars, Next, Interpreter, Router, Send, Match, Timeout, EndOfFile, ExpectEof, Done,
         Greet, Login, TakeLine, Command, Serve, Drop
<1>2. PICK f : f = file
  OBVIOUS
<1>3. PICK kept : kept = Sent(driver, file)
  OBVIOUS
<1>4. PICK lines : lines = SentLines(driver, file)
  OBVIOUS
<1>5. /\ file' = f /\ kept = Sent(driver', file') /\ lines = SentLines(driver', file')
  BY <1>1, <1>2, <1>3, <1>4
<1>6. SUFFICES ASSUME driver = "xrv"
               PROVE  running' \in {{}, Meaning(f, kept)} /\ XrvAlong(f, kept, lines)'
  BY <1>1, <1>5 DEF XrvInv
<1>7. running \in {{}, Meaning(f, kept)} /\ XrvAlong(f, kept, lines)
  BY <1>2, <1>3, <1>4, <1>6 DEF XrvInv
<1>8. CASE Interpreter
  <2>1. /\ running' = running /\ mode' = mode /\ candidate' = candidate /\ section' = section
    BY <1>8 DEF Interpreter, Send, Match, Timeout, EndOfFile, ExpectEof, Done
  <2>2. ASSUME NEW c \in 0 .. Len(lines) + 4, mode # "closed", XrvQueue(lines, c),
               XrvStage(f, kept, lines, c)
        PROVE  XrvQueue(lines, c)' /\ XrvStage(f, kept, lines, c)'
    <3>1. XrvQueue(lines, c)'
      BY <1>4, <1>6, <1>8, <2>2, XrvInterpreter
    <3>2. XrvStage(f, kept, lines, c)'
      BY <2>1, <2>2 DEF XrvStage, XrvConfig
    <3> QED
      BY <3>1, <3>2
  <2> QED
    BY <1>7, <2>1, <2>2 DEF XrvAlong
<1>9. CASE Router
  <2>1. mode # "closed"
    <3>1. CASE Login
      BY <3>1 DEF Login
    <3>2. CASE Command
      BY <3>2 DEF Command
    <3> QED
      BY <1>9, <3>1, <3>2 DEF Router, Greet, TakeLine, Serve
  <2>2. PICK c \in 0 .. Len(lines) + 4 : XrvQueue(lines, c) /\ XrvStage(f, kept, lines, c)
    BY <1>7, <2>1 DEF XrvAlong
  <2>3. /\ running' \in {running, Meaning(f, kept)}
        /\ mode' # "closed" =>
             \E d \in 0 .. Len(lines) + 4 : XrvQueue(lines, d)' /\ XrvStage(f, kept, lines, d)'
    BY <1>2, <1>3, <1>4, <1>6, <1>9, <2>1, <2>2, XrvRouter
  <2> QED
    BY <1>7, <2>3 DEF XrvAlong
<1>10. CASE Drop
  BY <1>7, <1>10 DEF Drop, XrvAlong
<1>11. CASE UNCHANGED vars
  <2>1. /\ running' = running /\ mode' = mode /\ candidate' = candidate /\ section' = section
        /\ typed' = typed /\ step' = step
    BY <1>11 DEF vars
  <2> QED
    BY <1>7, <2>1 DEF XrvAlong, XrvQueue, XrvStage, XrvConfig
<1> QED
  BY <1>8, <1>9, <1>10, <1>11 DEF Next

\* An xRV starts with nothing.
LEMMA XrvInit == Init => XrvInv
<1> SUFFICES ASSUME Init, driver = "xrv" PROVE XrvInv
  BY DEF XrvInv
<1>1. PICK lines : lines = SentLines(driver, file)
  OBVIOUS
<1>2. Len(lines) \in Nat
  BY <1>1, TypedInit, XrvCurrent
<1>3. /\ step = 1 /\ typed = << >> /\ candidate = {} /\ running = {} /\ mode = "connect"
  BY DEF Init, Shelled
<1>4. XrvQueue(lines, 0)
  <2>1. (step - 1) \div 2 = 0 /\ Len(typed) = 0 /\ DOMAIN typed = {}
    BY <1>3
  <2>2. ~ (1 > 2 * Len(lines) + 8)
    BY <1>2
  <2> QED
    BY <1>3, <2>1, <2>2 DEF XrvQueue
<1>5. XrvStage(file, Sent(driver, file), lines, 0) /\ 0 \in 0 .. Len(lines) + 4
  BY <1>2, <1>3 DEF XrvStage
<1> QED
  BY <1>1, <1>3, <1>4, <1>5 DEF XrvInv, XrvAlong

\* No timeout, late answer, refused login, line or commit, lost connection or
\* broken script makes an xRV commit a part of the file, whatever the file: the
\* first commit it takes comes after all of the lines, in their order.
THEOREM RunningIsOldOrWholeHolds == Spec => []RunningIsOldOrWhole
<1>1. Init => TypedInv /\ XrvInv
  BY TypedInit, XrvInit
<1>2. XrvInv => RunningIsOldOrWhole
  BY DEF XrvInv, RunningIsOldOrWhole
<1> QED
  BY <1>1, <1>2, TypedInvariant, XrvInvariant, PTL DEF Spec

-----------------------------------------------------------------------------
(* A dialogue.                                                             *)

\* A dialogue in step: nothing on its way; a text on its way, and nothing heard;
\* its answer on its way.  A connection that is lost with nothing on its way ends
\* the script or the premise.
Quiet(m) == mode \in {m, "closed"} /\ typed = << >> /\ heard = << >>
Typing(m, t) == mode = m /\ typed = <<t>> /\ heard = << >>
Answered(m, tokens) == mode \in {m, "closed"} /\ typed = << >> /\ \E x \in tokens : heard = <<x>>
Gone == mode = "closed" /\ typed = << >> /\ heard = << >>

\* What of an interpreter is at work, and what it leaves alone.
LEMMA WhichStep ==
  ASSUME TypedInv, Interpreter
  PROVE  /\ UNCHANGED <<job, router>>
         /\ result = "none" /\ (connected' => connected) /\ (obliging' => obliging)
         /\ \/ Send /\ Current.do = "send" /\ step <= Len(script)
            \/ (Match \/ Timeout \/ EndOfFile) /\ Current.do = "expect" /\ step <= Len(script)
            \/ (Match \/ EndOfFile) /\ Current.do = "wait" /\ step <= Len(script)
            \/ ExpectEof /\ Current.do = "eof" /\ step <= Len(script)
            \/ Done /\ step > Len(script)
<1>1. obliging \in BOOLEAN
  BY DEF TypedInv, TypeOK
<1>2. /\ UNCHANGED <<job, router>>
      /\ (connected' => connected) /\ (obliging' => obliging)
  <2>1. CASE Send
    BY <2>1 DEF Send
  <2>2. CASE Match
    BY <2>2 DEF Match
  <2>3. CASE Timeout
    BY <1>1, <2>3 DEF Timeout
  <2>4. CASE EndOfFile
    BY <2>4 DEF EndOfFile
  <2>5. CASE ExpectEof
    BY <1>1, <2>5 DEF ExpectEof
  <2>6. CASE Done
    BY <2>6 DEF Done
  <2> QED
    BY <2>1, <2>2, <2>3, <2>4, <2>5, <2>6 DEF Interpreter
<1>3. ASSUME NEW dos, Running(dos)
      PROVE  result = "none" /\ step <= Len(script) /\ Current.do \in dos
  BY <1>3 DEF Running
<1>4. /\ Send => Running({"send"})
      /\ Match => Running({"expect", "wait"})
      /\ Timeout => Running({"expect"})
      /\ EndOfFile => Running({"expect", "wait"})
      /\ ExpectEof => Running({"eof"})
      /\ Done => result = "none" /\ step > Len(script)
  BY DEF Send, Match, Timeout, EndOfFile, ExpectEof, Done
<1> QED
  BY <1>2, <1>3, <1>4 DEF Interpreter

\* A text is sent and is on its way, or lost.
LEMMA Sends1 ==
  ASSUME TypedInv, Interpreter, connected, NEW t, Current.do = "send", Current.text = t,
         step <= Len(script), NEW m, m # "closed", Quiet(m), result' # "error"
  PROVE  /\ step' = step + 1 /\ (Typing(m, t)' \/ Gone')
         /\ UNCHANGED <<job, router, connected, obliging, result>>
<1>1. Send
  <2>1. step \in Nat /\ Len(script) \in Nat
    BY TypedFacts DEF TypedInv, TypeOK
  <2>2. ~ (step > Len(script))
    BY <2>1
  <2> QED
    BY <2>2, WhichStep
<1>2. typed' = Typed(t) /\ Go(1) /\ UNCHANGED <<job, connected, heard, router, obliging>>
  BY <1>1 DEF Send, Go, Exit1
<1>3. step' = step + 1 /\ result' = result
  BY <1>2 DEF Go, Exit1
<1>4. mode' = mode
  BY <1>2 DEF router
<1>5. Append(<< >>, t) = <<t>>
  OBVIOUS
<1> QED
  BY <1>2, <1>3, <1>4, <1>5 DEF Typed, Quiet, Typing, Gone

\* Nothing that was heard is waited for: time passes, or the end of file shows.
LEMMA HearsNothing ==
  ASSUME TypedInv, Interpreter, Current.do = "expect", step <= Len(script),
         connected', obliging',
         \A k \in DOMAIN heard : \A b \in DOMAIN Current.on : heard[k] \notin Current.on[b].pattern
  PROVE  /\ mode \notin {"closed", "connect"} /\ typed = << >>
         /\ typed' = typed /\ heard' = heard /\ Go(Current.late)
<1>1. Matching = {}
  BY DEF Matching, Occurs
<1>2. Match \/ Timeout \/ EndOfFile
  <2>1. step \in Nat /\ Len(script) \in Nat
    BY TypedFacts DEF TypedInv, TypeOK
  <2>2. ~ (step > Len(script))
    BY <2>1
  <2> QED
    BY <2>2, WhichStep
<1>3. Timeout
  BY <1>1, <1>2 DEF Match, EndOfFile
<1>4. obliging \in BOOLEAN
  BY DEF TypedInv, TypeOK
<1>5. ~Busy
  BY <1>3, <1>4 DEF Timeout
<1> QED
  BY <1>3, <1>5 DEF Timeout, Busy

\* The one token that was heard is what a branch waits for, and none before it.
LEMMA HearsOne ==
  ASSUME TypedInv, Interpreter, Current.do \in {"expect", "wait"}, step <= Len(script),
         NEW x, heard = <<x>>, NEW b \in DOMAIN Current.on, x \in Current.on[b].pattern,
         \A c \in DOMAIN Current.on : c < b => x \notin Current.on[c].pattern
  PROVE  /\ heard' = << >> /\ Go(Current.on[b].go)
         /\ typed' = IF Current.on[b].reply = "" THEN typed
                     ELSE Typed([word |-> Current.on[b].reply, line |-> 0])
         /\ UNCHANGED <<job, router, connected, obliging>>
<1>1. DOMAIN heard = {1} /\ heard[1] = x
  OBVIOUS
<1>2. b \in Matching
  BY <1>1 DEF Matching, Occurs
<1>3. Match
  <2>1. step \in Nat /\ Len(script) \in Nat
    BY TypedFacts DEF TypedInv, TypeOK
  <2>2. ~ (step > Len(script))
    BY <2>1
  <2>3. Match \/ Timeout \/ EndOfFile
    BY <2>2, WhichStep
  <2> QED
    BY <1>2, <2>3 DEF Timeout, EndOfFile
<1>4. Current.on \in Seq(Branch)
  <2>1. Running({"expect", "wait"})
    BY <1>3 DEF Match
  <2> QED
    BY <2>1, CurrentType
<1>5. DOMAIN Current.on \subseteq Nat
  BY <1>4
<1>6. Min(Matching) = b
  <2>1. Matching \subseteq Nat
    BY <1>5 DEF Matching
  <2>2. Min(Matching) \in Matching /\ \A c \in Matching : Min(Matching) <= c
    BY <1>2, <2>1, MinIs
  <2>3. \A c \in Matching : ~ (c < b)
    BY <1>1 DEF Matching, Occurs
  <2>4. b \in Nat /\ Min(Matching) \in Nat
    BY <1>2, <2>1, <2>2
  <2>5. Min(Matching) <= b /\ ~ (Min(Matching) < b)
    BY <1>2, <2>2, <2>3
  <2> QED
    BY <2>4, <2>5
<1>7. PICK branch : branch = Current.on[b]
  OBVIOUS
<1>8. {n \in DOMAIN heard : heard[n] \in branch.pattern} = {1}
  BY <1>1, <1>7
<1>9. Min({1}) = 1
  <2>1. PICK S : S = {1}
    OBVIOUS
  <2>2. S \subseteq Nat /\ S # {}
    BY <2>1
  <2>3. Min(S) \in S
    BY <2>2, MinIs
  <2> QED
    BY <2>1, <2>3
<1>10. /\ heard' = SubSeq(heard, 1 + 1, Len(heard))
       /\ typed' = IF branch.reply = "" THEN typed
                   ELSE Typed([word |-> branch.reply, line |-> 0])
       /\ Go(branch.go) /\ UNCHANGED <<job, connected, router, obliging>>
  BY <1>3, <1>6, <1>7, <1>8, <1>9 DEF Match
<1>11. SubSeq(heard, 1 + 1, Len(heard)) = << >>
  OBVIOUS
<1> QED
  BY <1>7, <1>10, <1>11

\* A router that waits for a text does nothing; the connection can be lost.
LEMMA RouterIdle ==
  ASSUME Router \/ Drop, typed = << >>, mode # "connect"
  PROVE  /\ mode' = "closed" /\ typed' = << >> /\ heard' = heard
         /\ UNCHANGED <<job, place, obliging, tries, section, candidate, running, saved>>
<1>1. Drop
  BY DEF Router, Greet, Login, TakeLine, Command, Serve, Asked
<1> QED
  BY <1>1 DEF Drop

\* What the router does leaves the script where it is.
LEMMA RouterFrame ==
  ASSUME Router \/ Drop
  PROVE  UNCHANGED <<job, place>> /\ (obliging' => obliging)
<1>1. CASE Greet
  BY <1>1 DEF Greet
<1>2. CASE Login
  BY <1>2 DEF Login
<1>3. CASE TakeLine
  BY <1>3 DEF TakeLine
<1>4. CASE Command
  BY <1>4 DEF Command
<1>5. CASE Serve
  BY <1>5 DEF Serve
<1>6. CASE Drop
  BY <1>6 DEF Drop
<1> QED
  BY <1>1, <1>2, <1>3, <1>4, <1>5, <1>6 DEF Router

\* An answer to the one text on its way is all that is on its way.
LEMMA Told ==
  ASSUME NEW t, typed = <<t>>, heard = << >>, NEW tokens, tokens \in Seq(Token), Tell(tokens)
  PROVE  typed' = << >> /\ heard' = tokens
<1>1. Tail(typed) = << >>
  OBVIOUS
<1>2. heard \o tokens = tokens
  OBVIOUS
<1> QED
  BY <1>1, <1>2 DEF Tell

\* The one text on its way is what is asked.
LEMMA OnlyText ==
  ASSUME NEW t, typed = <<t>>
  PROVE  /\ typed # << >> /\ Head(typed) = t
         /\ \A words : Asked(words) <=> t.word \in words
<1>1. typed # << >> /\ Head(typed) = t
  OBVIOUS
<1> QED
  BY <1>1 DEF Asked

\* What a router says in a mode.
LEMMA PromptIs ==
  ASSUME NEW inside
  PROVE  /\ \A m \in {"password", "enable", "fetch"} : Prompt(m, inside) = <<"password">>
         /\ Prompt("exec", inside) = <<"prompt">>
         /\ Prompt("config", inside) = IF inside = 0 THEN <<"config">> ELSE <<"section">>
         /\ Prompt("closed", inside) = << >>
         /\ Prompt("username", inside) = <<"username">>
         /\ Prompt("user", inside) = <<"user">>
         /\ Prompt("confirm", inside) = <<"confirm">>
BY DEF Prompt

\* One text in each of the modes.
LEMMA LoginTurn ==
  ASSUME TypedInv, Router \/ Drop, mode \in {"username", "password", "enable"},
         NEW t, typed = <<t>>, heard = << >>
  PROVE  /\ UNCHANGED <<section, candidate, running, saved>>
         /\ \/ Gone'
            \/ /\ typed' = << >> /\ heard' = Prompt(mode', 0)
               /\ \/ mode = "username" /\ mode' = "password"
                  \/ /\ mode # "username" /\ t.word = "password"
                     /\ mode' = "exec" \/ (mode = "password" /\ driver = "csr" /\ mode' = "user")
                  \/ /\ mode # "username" /\ tries' = tries + 1
                     /\ mode' \in {"closed", IF driver = "xrv" THEN "username" ELSE mode}
<1>1. CASE Drop
  BY <1>1 DEF Drop, Gone
<1>2. CASE Login
  <2>1. /\ UNCHANGED <<section, candidate, running, saved>> /\ Tell(Prompt(mode', 0))
        /\ \/ mode = "username" /\ mode' = "password"
           \/ /\ mode # "username" /\ Asked({"password"})
              /\ mode' \in {"exec"} \cup (IF mode = "password" /\ driver = "csr" THEN {"user"} ELSE {})
           \/ /\ mode # "username" /\ tries' = tries + 1
              /\ mode' \in {"closed", IF driver = "xrv" THEN "username" ELSE mode}
    BY <1>2 DEF Login
  <2>2. Prompt(mode', 0) \in Seq(Token)
    <3>1. mode' \in Prompting
      BY <2>1 DEF Prompting, Modes
    <3> QED
      BY <3>1, PromptType
  <2>3. typed' = << >> /\ heard' = Prompt(mode', 0)
    BY <2>1, <2>2, Told
  <2>4. Asked({"password"}) => t.word = "password"
    BY OnlyText
  <2> QED
    BY <2>1, <2>3, <2>4
<1> QED
  BY <1>1, <1>2 DEF Router, Greet, TakeLine, Command, Serve

\* One command: it is taken and answered, and a commit or write not refused, or
\* it is lost with the connection.
LEMMA CommandTurn ==
  ASSUME TypedInv, Router \/ Drop, mode \in {"user", "exec", "config", "confirm", "fetch"},
         NEW t, typed = <<t>>, heard = << >>, ~ (mode = "config" /\ t.word = "line"),
         obliging'
  PROVE  \/ Gone' /\ UNCHANGED <<section, candidate, running, saved>>
         \/ /\ typed' = << >> /\ heard' = Prompt(mode', section')
            /\ mode' = After(t.word)
            /\ section' = IF t.word \in {"configure", "exit", "end"} THEN 0 ELSE section
            /\ running' = IF mode = "confirm" /\ t.word = "yes" THEN candidate ELSE running
            /\ saved' = IF mode = "exec" /\ t.word = "write" THEN running ELSE saved
<1>1. CASE Drop
  BY <1>1 DEF Drop, Gone
<1>2. CASE Command
  <2>1. typed # << >> /\ Head(typed) = t /\ \A words : Asked(words) <=> t.word \in words
    BY OnlyText
  <2>2. /\ mode' = After(t.word)
        /\ section' = IF Asked({"configure", "exit", "end"}) THEN 0 ELSE section
        /\ running' = IF mode = "confirm" /\ Asked({"yes"}) THEN candidate ELSE running
        /\ saved' = IF mode = "exec" /\ Asked({"write"}) THEN running ELSE saved
        /\ Tell(Prompt(mode', section'))
    BY <1>2, <2>1 DEF Command, Commits, Writes
  <2>3. mode' \in Prompting
    <3>1. mode \in Prompting
      BY DEF Prompting, Modes
    <3> QED
      BY <2>2, <3>1 DEF After, Prompting, Modes
  <2>4. Prompt(mode', section') \in Seq(Token)
    BY <2>3, PromptType
  <2>5. typed' = << >> /\ heard' = Prompt(mode', section')
    BY <2>2, <2>4, Told
  <2> QED
    BY <2>1, <2>2, <2>5
<1>3. ~TakeLine
  <2>1. Asked({"line"}) <=> t.word \in {"line"}
    BY OnlyText
  <2> QED
    BY <2>1 DEF TakeLine
<1> QED
  BY <1>1, <1>2, <1>3 DEF Router, Greet, Login, Serve

\* A line without a '#' of its own.
LEMMA LineTurn ==
  ASSUME TypedInv, Router \/ Drop, mode = "config", NEW t, typed = <<t>>, heard = << >>,
         t.word = "line", file[t.line] # "hash"
  PROVE  \/ Gone' /\ UNCHANGED <<section, candidate, running, saved>>
         \/ /\ typed' = << >> /\ mode' = "config" /\ \E x \in {"config", "section"} : heard' = <<x>>
            /\ section' = 0 => heard' = <<"config">>
            /\ section' = CASE file[t.line] \in Single                 -> 0
                            [] file[t.line] \in {"header", "filtered"} -> t.line
                            [] OTHER                                   -> section
            /\ driver = "csr" =>
                 running' = running \cup
                   IF ~Takes(t.line) THEN {}
                   ELSE {<<t.line, IF file[t.line] = "sub" THEN section ELSE t.line>>}
            /\ saved' = saved
<1>1. CASE Drop
  BY <1>1 DEF Drop, Gone
<1>2. CASE TakeLine
  <2>1. Head(typed) = t
    BY OnlyText
  <2>2. PICK i : i = t.line
    OBVIOUS
  <2>3. PICK entry : entry = IF ~Takes(i) THEN {}
                            ELSE {<<i, IF file[i] = "sub" THEN section ELSE i>>}
    OBVIOUS
  <2>4. /\ section' = CASE file[i] \in Single                 -> 0
                        [] file[i] \in {"header", "filtered"} -> i
                        [] OTHER                              -> section
        /\ running' = IF driver = "csr" THEN running \cup entry ELSE running
        /\ Tell(<< >> \o Prompt("config", section'))
        /\ mode' = "config" /\ saved' = saved
    BY <1>2, <2>1, <2>2, <2>3 DEF TakeLine
  <2>5. PICK said : said = Prompt("config", section')
    OBVIOUS
  <2>6. said = IF section' = 0 THEN <<"config">> ELSE <<"section">>
    BY <2>5, PromptIs
  <2>7. said \in Seq(Token)
    <3>1. "config" \in Token /\ "section" \in Token
      BY DEF Token
    <3>2. <<"config">> \in Seq(Token) /\ <<"section">> \in Seq(Token)
      BY <3>1
    <3> QED
      BY <2>6, <3>2
  <2>8. << >> \o said = said
    BY <2>7
  <2>9. typed' = << >> /\ heard' = said
    BY <2>4, <2>5, <2>7, <2>8, Told
  <2> QED
    BY <2>2, <2>3, <2>4, <2>6, <2>9
<1>3. ~Command
  <2>1. Asked({"line"}) <=> t.word \in {"line"}
    BY OnlyText
  <2> QED
    BY <2>1 DEF Command
<1> QED
  BY <1>1, <1>2, <1>3 DEF Router, Greet, Login, Serve

-----------------------------------------------------------------------------
(* A MikroTik.                                                             *)

MikroTikLock(whole) ==
  \/ step \in {1, 3} /\ Quiet("shell")
  \/ step = 2 /\ (Typing("shell", Say("copy").text) \/ Answered("shell", {"ok", "failed"}) \/ Gone)
  \/ step = 4 /\ (Typing("shell", Say("load").text) \/ Answered("shell", {"failed"}) \/ Gone)
  \/ step = 4 /\ Answered("shell", {"ok"}) /\ running = whole
  \/ step = 5 /\ mode \in {"shell", "closed"} /\ typed = << >> /\ running = whole
MikroTikStep ==
  driver = "mikrotik" /\ result # "error" => MikroTikLock(Meaning(file, Sent(driver, file)))

\* Where a driver may get: a success is reported at the end of the script, which
\* only a connection that was not seen to end reaches.
Ending ==
  /\ result = "ok" => step > Len(script)
  /\ ~connected => mode = "closed" /\ heard = << >> /\ step <= Len(script)

\* The driver waits for a program, and stops when that has failed.
LEMMA WaitedIs ==
  /\ Waited.do = "wait" /\ DOMAIN Waited.on = {1, 2}
  /\ Waited.on[1].pattern = {"ok"} /\ Waited.on[1].reply = "" /\ Waited.on[1].go = 1
  /\ Waited.on[2].pattern = {"failed"} /\ Waited.on[2].go = Exit1
<1>1. PICK a, b : a = On({"ok"}, "", 1) /\ b = On({"failed"}, "", Exit1)
  OBVIOUS
<1>2. DOMAIN <<a, b>> = {1, 2} /\ <<a, b>>[1] = a /\ <<a, b>>[2] = b
  OBVIOUS
<1>3. Waited.on = <<a, b>> /\ Waited.do = "wait"
  BY <1>1 DEF Waited
<1>4. /\ a.pattern = {"ok"} /\ a.reply = "" /\ a.go = 1
      /\ b.pattern = {"failed"} /\ b.go = Exit1
  BY <1>1 DEF On
<1> QED
  BY <1>2, <1>3, <1>4

\* The last thing a script waits for is the end of the connection, or of a program.
LEMMA LastIsNoExpect ==
  ASSUME TypedInv
  PROVE  Len(script) \in Nat /\ script[Len(script)].do # "expect"
<1>1. /\ file \in File /\ script = Script(driver, file) /\ driver \in Driver
  BY DEF TypedInv, TypeOK
<1>2. PICK lines : lines = SentLines(driver, file)
  OBVIOUS
<1>3. lines \in Seq(DOMAIN file \cap Line) /\ Len(lines) \in Nat
  BY <1>1, <1>2, SentFacts
<1>4. Eof.do # "expect"
  BY DEF Eof
<1>5. CASE driver = "xrv"
  <2>1. script = XrvScript(lines)
    BY <1>1, <1>2, <1>5 DEF Script
  <2>2. Len(script) = 2 * Len(lines) + 12 /\ script[2 * Len(lines) + 12] = Eof
    BY <1>3, <2>1, XrvSteps
  <2> QED
    BY <1>3, <1>4, <2>2
<1>6. CASE driver = "csr"
  <2>1. script = CsrScript(lines)
    BY <1>1, <1>2, <1>6 DEF Script
  <2>2. /\ Len(script) = 2 * Len(lines) + 15
        /\ \A i \in 1 .. 6 : script[2 * Len(lines) + 9 + i] = CsrEnd[i]
    BY <1>3, <2>1, CsrAt
  <2>3. script[2 * Len(lines) + 9 + 6] = CsrEnd[6] /\ 2 * Len(lines) + 9 + 6 = Len(script)
    BY <1>3, <2>2
  <2>4. CsrEnd[6] = Eof
    BY DEF CsrEnd
  <2> QED
    BY <1>3, <1>4, <2>2, <2>3, <2>4
<1>7. CASE driver = "eltex"
  <2>1. script = EltexScript
    BY <1>1, <1>7 DEF Script
  <2>2. Len(EltexScript) = 12 /\ EltexScript[12] = Eof
    BY DEF EltexScript
  <2> QED
    BY <1>4, <2>1, <2>2
<1>8. CASE driver \notin Scripted
  <2>1. script = <<Say("copy"), Waited, Say("load"), Waited>>
    BY <1>1, <1>8, ShellTypes DEF Script, Scripted
  <2>2. Len(script) = 4 /\ script[4] = Waited
    BY <2>1
  <2>3. Waited.do # "expect"
    BY WaitedIs
  <2>4. Len(script) \in Nat /\ script[Len(script)] = Waited
    BY <2>2
  <2> QED
    BY <2>3, <2>4
<1> QED
  BY <1>5, <1>6, <1>7, <1>8 DEF Scripted

\* Every step keeps to that.
LEMMA EndingKept == TypedInv /\ Ending /\ [Next]_vars => Ending'
<1> SUFFICES ASSUME TypedInv, Ending, [Next]_vars PROVE Ending'
  OBVIOUS
<1> USE DEF job, place, router
<1>1. /\ step \in Nat \ {0} /\ Len(script) \in Nat /\ script[Len(script)].do # "expect"
      /\ connected \in BOOLEAN
  BY LastIsNoExpect DEF TypedInv, TypeOK
<1>2. script' = script
  BY WhichStep, RouterFrame DEF Next, vars
<1>3. CASE Interpreter
  <2>1. /\ result = "none" /\ mode' = mode
        /\ \/ Send /\ Current.do = "send" /\ step <= Len(script)
           \/ (Match \/ Timeout \/ EndOfFile) /\ Current.do = "expect" /\ step <= Len(script)
           \/ (Match \/ EndOfFile) /\ Current.do = "wait" /\ step <= Len(script)
           \/ ExpectEof /\ Current.do = "eof" /\ step <= Len(script)
           \/ Done /\ step > Len(script)
    BY <1>3, WhichStep
  <2>2. CASE Done /\ step > Len(script)
    BY <1>1, <1>2, <2>1, <2>2 DEF Done, Ending
  <2>3. ASSUME step <= Len(script), ~Done
        PROVE  result' # "ok"
    <3>1. ASSUME NEW n, Go(n) PROVE result' # "ok"
      BY <2>1, <3>1 DEF Go
    <3> QED
      BY <1>3, <2>3, <3>1 DEF Interpreter, Send, Match, Timeout, EndOfFile, ExpectEof
  <2>4. ASSUME step <= Len(script), ~connected'
        PROVE  mode' = "closed" /\ heard' = << >> /\ step' <= Len(script)
    <3>1. CASE ~connected
      <4>1. mode = "closed" /\ heard = << >>
        BY <3>1 DEF Ending
      <4>2. Matching = {}
        BY <4>1 DEF Matching, Occurs
      <4>3. heard' = << >>
        BY <2>1, <4>1, <4>2 DEF Send, Match, Timeout, EndOfFile, ExpectEof, Done
      <4>4. step' = step
        <5>1. Go(Exit1) => step' = step
          BY DEF Go
        <5> QED
          BY <2>1, <3>1, <4>2, <5>1 DEF Send, Match, Timeout, EndOfFile, ExpectEof, Done
      <4> QED
        BY <2>1, <2>4, <4>1, <4>3, <4>4
    <3>2. CASE connected
      <4>1. EndOfFile
        BY <2>1, <2>4, <3>2 DEF Send, Match, Timeout, ExpectEof, Done
      <4>2. mode = "closed" /\ heard' = << >>
        BY <4>1 DEF EndOfFile
      <4>3. CASE Current.do = "expect"
        <5>1. step # Len(script)
          BY <1>1, <4>3 DEF Current
        <5>2. step' = step + 1 \/ step' = step
          BY <4>1 DEF EndOfFile, Go, Exit1
        <5> QED
          BY <1>1, <2>1, <2>4, <4>2, <5>1, <5>2
      <4>4. CASE Current.do # "expect"
        <5>1. step' = step
          BY <4>1, <4>4 DEF EndOfFile, Go
        <5> QED
          BY <2>1, <2>4, <4>2, <5>1
      <4> QED
        BY <4>3, <4>4
    <3> QED
      BY <1>1, <3>1, <3>2
  <2>5. CASE step <= Len(script) /\ ~Done
    BY <1>2, <2>3, <2>4, <2>5 DEF Ending
  <2>6. CASE step > Len(script)
    <3>1. ~ (step <= Len(script))
      BY <1>1, <2>6
    <3> QED
      BY <2>1, <2>2, <3>1
  <2> QED
    BY <1>1, <2>2, <2>5, <2>6 DEF Done
<1>4. CASE Router \/ Drop
  <2>1. step' = step /\ connected' = connected /\ result' = result
    BY <1>4, RouterFrame
  <2>2. mode = "closed" => mode' = "closed" /\ heard' = heard
    BY <1>4 DEF Router, Greet, Login, TakeLine, Command, Serve, Drop
  <2> QED
    BY <1>2, <2>1, <2>2 DEF Ending
<1>5. CASE UNCHANGED vars
  BY <1>5 DEF Ending, vars
<1> QED
  BY <1>3, <1>4, <1>5 DEF Next

\* A program that ends well is waited for; of another the driver says so.
LEMMA WaitedTurn ==
  ASSUME TypedInv, Interpreter, Current = Waited, step <= Len(script), result' # "error"
  PROVE  /\ heard = <<"ok">> => step' = step + 1 /\ typed' = typed /\ heard' = << >>
         /\ heard # << >> /\ heard # <<"failed">>
<1>1. PICK on : on = Current.on
  OBVIOUS
<1>2. /\ Current.do = "wait" /\ DOMAIN on = {1, 2}
      /\ on[1].pattern = {"ok"} /\ on[1].reply = "" /\ on[1].go = 1
      /\ on[2].pattern = {"failed"} /\ on[2].go = Exit1
  BY <1>1, WaitedIs
<1>3. \A c \in {1, 2} : ~ (c < 1) /\ (c < 2 => c = 1)
  OBVIOUS
<1>4. ~ Go(Exit1)
  BY DEF Go
<1>5. heard # << >>
  <2>1. ASSUME heard = << >> PROVE FALSE
    <3>1. Matching = {}
      BY <2>1 DEF Matching, Occurs
    <3>2. Match \/ EndOfFile
      <4>1. step \in Nat /\ Len(script) \in Nat
        BY TypedFacts DEF TypedInv, TypeOK
      <4>2. ~ (step > Len(script))
        BY <4>1
      <4> QED
        BY <1>2, <4>2, WhichStep
    <3>3. EndOfFile
      BY <3>1, <3>2 DEF Match
    <3>4. Go(Exit1)
      BY <1>2, <3>3 DEF EndOfFile
    <3> QED
      BY <1>4, <3>4
  <2> QED
    BY <2>1
<1>6. ASSUME heard = <<"failed">> PROVE FALSE
  <2>1. /\ Current.do \in {"expect", "wait"} /\ 2 \in DOMAIN Current.on
        /\ "failed" \in Current.on[2].pattern /\ Current.on[2].go = Exit1
        /\ \A c \in DOMAIN Current.on : c < 2 => "failed" \notin Current.on[c].pattern
    BY <1>1, <1>2, <1>3
  <2>2. Go(Current.on[2].go)
    BY <1>6, <2>1, HearsOne
  <2> QED
    BY <1>4, <2>1, <2>2
<1>7. ASSUME heard = <<"ok">>
      PROVE  step' = step + 1 /\ typed' = typed /\ heard' = << >>
  <2>1. /\ Current.do \in {"expect", "wait"} /\ 1 \in DOMAIN Current.on
        /\ "ok" \in Current.on[1].pattern
        /\ Current.on[1].reply = "" /\ Current.on[1].go = 1
        /\ \A c \in DOMAIN Current.on : c < 1 => "ok" \notin Current.on[c].pattern
    BY <1>1, <1>2, <1>3
  <2>2. /\ heard' = << >> /\ Go(Current.on[1].go)
        /\ typed' = IF Current.on[1].reply = "" THEN typed
                    ELSE Typed([word |-> Current.on[1].reply, line |-> 0])
    BY <1>7, <2>1, HearsOne
  <2>3. Go(1)
    BY <2>1, <2>2
  <2> QED
    BY <2>1, <2>2, <2>3 DEF Go, Exit1
<1> QED
  BY <1>5, <1>6, <1>7

\* A MikroTik: each of the two programs ends before the next step.
LEMMA MikroTikKept == TypedInv /\ MikroTikStep /\ [Next]_vars => MikroTikStep'
<1> SUFFICES ASSUME TypedInv, MikroTikStep, [Next]_vars PROVE MikroTikStep'
  OBVIOUS
<1> USE DEF job, place, router
<1>1. PICK whole : whole = Meaning(file, Sent(driver, file))
  OBVIOUS
<1>2. driver' = driver /\ file' = file
  BY WhichStep, RouterFrame DEF Next, vars
<1>3. SUFFICES ASSUME driver = "mikrotik", result' # "error" PROVE MikroTikLock(whole)'
  BY <1>1, <1>2 DEF MikroTikStep
<1>4. result # "error"
  BY <1>3, WhichStep, RouterFrame DEF Next, vars
<1>5. MikroTikLock(whole)
  BY <1>1, <1>3, <1>4 DEF MikroTikStep
<1>6. script = <<Say("copy"), Waited, Say("load"), Waited>> /\ step \in Nat \ {0}
  BY <1>3, ShellTypes DEF TypedInv, TypeOK, Script
<1>7. Len(script) = 4 /\ script[1] = Say("copy") /\ script[2] = Waited
      /\ script[3] = Say("load") /\ script[4] = Waited
  BY <1>6
<1>9. CASE Interpreter
  <2>1. UNCHANGED <<mode, running>>
    BY <1>9, WhichStep
  <2>2. /\ result = "none"
        /\ \/ Send /\ Current.do = "send" /\ step <= Len(script)
           \/ (Match \/ Timeout \/ EndOfFile) /\ Current.do = "expect" /\ step <= Len(script)
           \/ (Match \/ EndOfFile) /\ Current.do = "wait" /\ step <= Len(script)
           \/ ExpectEof /\ Current.do = "eof" /\ step <= Len(script)
           \/ Done /\ step > Len(script)
    BY <1>9, WhichStep
  <2>3. ASSUME NEW w, Current = Say(w), step <= 4, Quiet("shell")
        PROVE  step' = step + 1 /\ (Typing("shell", Say(w).text)' \/ Gone')
    <3>1. Send
      <4>1. Current.do = "send"
        BY <2>3 DEF Say
      <4>2. ~ (step > Len(script))
        BY <1>6, <1>7, <2>3
      <4> QED
        BY <2>2, <4>1, <4>2
    <3>2. step' = step + 1
      BY <1>3, <3>1 DEF Send, Go, Exit1
    <3>3. typed' = Typed(Say(w).text) /\ heard' = heard
      BY <1>3, <2>3, <3>1 DEF Send, Go, Exit1
    <3>4. Append(<< >>, Say(w).text) = <<Say(w).text>>
      OBVIOUS
    <3> QED
      BY <2>1, <2>3, <3>2, <3>3, <3>4 DEF Typed, Quiet, Typing, Gone
  <2>4. ASSUME Current = Waited, step <= 4
        PROVE  /\ heard = <<"ok">> => step' = step + 1 /\ typed' = typed /\ heard' = << >>
               /\ heard # << >> /\ heard # <<"failed">>
    <3>1. step <= Len(script)
      BY <1>7, <2>4
    <3> QED
      BY <1>3, <1>9, <2>4, <3>1, WaitedTurn
  <2>5. CASE step = 1 /\ Quiet("shell")
    <3>1. Current = Say("copy")
      BY <1>7, <2>5 DEF Current
    <3> QED
      BY <2>3, <2>5, <3>1 DEF MikroTikLock
  <2>6. CASE step = 2 /\ (Typing("shell", Say("copy").text) \/ Answered("shell", {"ok", "failed"}) \/ Gone)
    <3>1. Current = Waited
      BY <1>7, <2>6 DEF Current
    <3>2. heard = <<"ok">> /\ typed = << >> /\ mode \in {"shell", "closed"}
      BY <2>4, <2>6, <3>1 DEF Typing, Answered, Gone
    <3>3. step' = 3 /\ Quiet("shell")'
      BY <2>1, <2>4, <2>6, <3>1, <3>2 DEF Quiet
    <3> QED
      BY <3>3 DEF MikroTikLock
  <2>7. CASE step = 3 /\ Quiet("shell")
    <3>1. Current = Say("load")
      BY <1>7, <2>7 DEF Current
    <3> QED
      BY <2>3, <2>7, <3>1 DEF MikroTikLock
  <2>8. CASE step = 4 /\ (Typing("shell", Say("load").text) \/ Answered("shell", {"failed"}) \/ Gone)
    <3>1. Current = Waited
      BY <1>7, <2>8 DEF Current
    <3> QED
      BY <2>4, <2>8, <3>1 DEF Typing, Answered, Gone
  <2>9. CASE step = 4 /\ Answered("shell", {"ok"}) /\ running = whole
    <3>1. Current = Waited
      BY <1>7, <2>9 DEF Current
    <3>2. heard = <<"ok">> /\ typed = << >> /\ mode \in {"shell", "closed"}
      BY <2>9 DEF Answered
    <3>3. step' = 5 /\ typed' = << >>
      BY <2>4, <2>9, <3>1, <3>2
    <3> QED
      BY <2>1, <2>9, <3>2, <3>3 DEF MikroTikLock
  <2>10. CASE step = 5 /\ mode \in {"shell", "closed"} /\ typed = << >> /\ running = whole
    <3>1. Done
      BY <1>7, <2>2, <2>10
    <3> QED
      BY <2>1, <2>10, <3>1 DEF Done, MikroTikLock
  <2> QED
    BY <1>5, <2>5, <2>6, <2>7, <2>8, <2>9, <2>10 DEF MikroTikLock
<1>10. CASE Router \/ Drop
  <2>1. step' = step
    BY <1>10, RouterFrame
  <2>2. ASSUME typed = << >>, mode # "connect"
        PROVE  mode' = "closed" /\ typed' = << >> /\ heard' = heard /\ running' = running
    BY <1>10, <2>2, RouterIdle
  <2>3. CASE typed = << >>
    BY <1>5, <2>1, <2>2, <2>3 DEF MikroTikLock, Quiet, Answered, Gone, Typing
  <2>4. ASSUME NEW t, Typing("shell", t)
        PROVE  \/ Gone'
               \/ /\ Answered("shell", {"failed"})'
               \/ /\ Answered("shell", {"ok"})' /\ (t.word = "load" => running' = whole)
    <3>1. CASE Drop
      BY <3>1, <2>4 DEF Drop, Gone, Typing
    <3>2. CASE Serve
      <4>1. /\ typed = <<t>> /\ heard = << >> /\ mode = "shell" /\ mode' = mode
            /\ Asked({"load"}) <=> t.word \in {"load"}
        BY <2>4, <3>2, OnlyText DEF Typing, Serve
      <4>2. <<"ok">> \in Seq(Token) /\ <<"failed">> \in Seq(Token)
        BY DEF Token
      <4>3. CASE Tell(<<"failed">>)
        <5>1. typed' = << >> /\ heard' = <<"failed">>
          BY <4>1, <4>2, <4>3, Told
        <5> QED
          BY <4>1, <5>1 DEF Answered
      <4>4. CASE /\ Tell(<<"ok">>)
                 /\ Asked({"load"}) => {i \in DOMAIN file : file[i] = "bad"} = {}
        <5>1. typed' = << >> /\ heard' = <<"ok">>
          BY <4>1, <4>2, <4>4, Told
        <5>2. ASSUME t.word = "load" PROVE running' = whole
          <6>1. /\ {i \in DOMAIN file : file[i] = "bad"} = {}
                /\ running' = {e \in whole :
                     \A i \in {i \in DOMAIN file : file[i] = "bad"} : e[1] < i}
            BY <1>1, <1>3, <3>2, <4>1, <4>4, <5>2 DEF Serve
          <6> QED
            BY <6>1
        <5> QED
          BY <4>1, <5>1, <5>2 DEF Answered
      <4> QED
        BY <3>2, <4>3, <4>4 DEF Serve
    <3> QED
      BY <1>10, <2>4, <3>1, <3>2 DEF Router, Greet, Login, TakeLine, Command, Typing
  <2>5. CASE step = 2 /\ Typing("shell", Say("copy").text)
    <3>1. Gone' \/ Answered("shell", {"failed"})' \/ Answered("shell", {"ok"})'
      BY <2>4, <2>5
    <3> QED
      BY <2>1, <2>5, <3>1 DEF MikroTikLock, Answered
  <2>6. CASE step = 4 /\ Typing("shell", Say("load").text)
    <3>1. Say("load").text.word = "load"
      BY DEF Say
    <3> QED
      BY <2>1, <2>4, <2>6, <3>1 DEF MikroTikLock
  <2> QED
    BY <1>5, <2>3, <2>5, <2>6 DEF MikroTikLock, Quiet, Answered, Gone
<1>11. CASE UNCHANGED vars
  BY <1>5, <1>11 DEF vars, MikroTikLock, Quiet, Typing, Answered, Gone
<1> QED
  BY <1>9, <1>10, <1>11 DEF Next

-----------------------------------------------------------------------------
(* An xRV, in step.                                                        *)

\* Who takes the r-th text, and what an answer to it may be.
XrvMode(r) ==
  CASE r = 1 -> "username" [] r = 2 -> "password" [] r = 3 -> "exec" [] OTHER -> "config"
XrvAnswers(lines, r) ==
  CASE r = 1              -> {"password"}
    [] r = 2              -> {"prompt"}
    [] r = Len(lines) + 3 -> {"config"}
    [] OTHER              -> {"config", "section"}

XrvOpening ==
  /\ step = 1 /\ typed = << >>
  /\ \/ mode = "connect" /\ heard = << >>
     \/ mode \in {"username", "closed"} /\ heard = <<"username">>
     \/ mode = "closed" /\ heard \in {<< >>, <<"refused">>}
XrvSending(lines) ==
  \E r \in 1 .. Len(lines) + 4 : step = 2 * r /\ Quiet(XrvMode(r))
XrvAsking(lines) ==
  \E r \in 1 .. Len(lines) + 3 :
    /\ step = 2 * r + 1
    /\ \/ Typing(XrvMode(r), XrvText(lines, r))
       \/ Answered(XrvMode(r + 1), XrvAnswers(lines, r))
       \/ Gone
XrvCommitting(lines) ==
  /\ step = 2 * Len(lines) + 9
  /\ \/ Typing("config", Say("commit").text)
     \/ Answered("confirm", {"confirm"})
     \/ Typing("confirm", Say("yes").text)
     \/ Gone
XrvApplied(lines, whole) == step >= 2 * Len(lines) + 9 /\ running = whole
\* A refused login is not made up for, and no '#' is heard again.
XrvLost(lines) ==
  /\ step \in 5 .. 2 * Len(lines) + 9
  /\ mode \in {"username", "password", "closed"}
  /\ \A k \in DOMAIN heard : heard[k] \in {"username", "password"}
  /\ \A k \in DOMAIN typed : typed[k].word # "password"

XrvPremise ==
  /\ driver = "xrv" /\ obliging /\ connected /\ result # "error"
  /\ "hash" \notin Range(file) /\ ~EndsInSection(file)
XrvLock(lines, whole) ==
  \/ XrvOpening \/ XrvSending(lines) \/ XrvAsking(lines) \/ XrvCommitting(lines)
  \/ XrvApplied(lines, whole) \/ XrvLost(lines)
XrvStep ==
  XrvPremise => XrvLock(SentLines(driver, file), Meaning(file, Sent(driver, file)))

\* A script only goes on.
LEMMA StepGrows ==
  ASSUME TypedInv, Interpreter
  PROVE  step' \in Nat /\ step' >= step
<1>1. step \in Nat
  BY DEF TypedInv, TypeOK
<1>2. ASSUME NEW n, n \in {-1, 0, 1, 5}, Go(n) PROVE step' \in Nat /\ step' >= step
  <2>1. CASE n = -1
    BY <1>1, <1>2, <2>1 DEF Go, Exit1
  <2>2. CASE n # -1
    <3>1. step' = step + n /\ n \in {0, 1, 5}
      BY <1>2, <2>2 DEF Go, Exit1
    <3> QED
      BY <1>1, <3>1
  <2> QED
    BY <2>1, <2>2
<1>3. CASE Send
  BY <1>2, <1>3 DEF Send, Exit1
<1>4. CASE Match
  <2>1. Current.on \in Seq(Branch)
    <3>1. Running({"expect", "wait"})
      BY <1>4 DEF Match
    <3> QED
      BY <3>1, CurrentType
  <2>2. Min(Matching) \in Matching
    BY <1>4, <2>1, FirstMatches DEF Match
  <2>3. Min(Matching) \in 1 .. Len(Current.on)
    BY <2>1, <2>2 DEF Matching
  <2>4. PICK branch \in Branch : branch = Current.on[Min(Matching)]
    BY <2>1, <2>3
  <2>5. Go(branch.go) /\ branch.go \in {-1, 0, 1, 5}
    BY <1>4, <2>4 DEF Match, Branch
  <2> QED
    BY <1>2, <2>5
<1>5. CASE Timeout
  <2>1. Current.late \in {-1, 1, 5}
    BY <1>5, CurrentType DEF Timeout
  <2> QED
    BY <1>2, <1>5, <2>1 DEF Timeout
<1>6. CASE EndOfFile
  BY <1>2, <1>6 DEF EndOfFile, Exit1
<1>7. CASE ExpectEof
  BY <1>2, <1>7 DEF ExpectEof, Exit1
<1>8. CASE Done
  BY <1>1, <1>8 DEF Done
<1> QED
  BY <1>3, <1>4, <1>5, <1>6, <1>7, <1>8 DEF Interpreter

\* Where a step of an xRV waits, it waits for every answer there may be.
LEMMA XrvAwaits ==
  ASSUME NEW f, NEW lines \in Seq(DOMAIN f \cap Line), NEW r \in 1 .. Len(lines) + 3
  PROVE  \E pattern : /\ XrvScript(lines)[2 * r + 1] = Await(pattern)
                      /\ XrvAnswers(lines, r) \subseteq pattern
                      /\ r # 1 => {"username", "password"} \cap pattern = {}
<1> DEFINE s == XrvScript(lines)
           n == Len(lines)
<1>1. /\ n \in Nat
      /\ s[3] = Await({"password"})
      /\ \A k \in 1 .. n + 1 : s[2 * k + 3] = Await(Hash)
      /\ s[2 * n + 7] = Await({"config"})
  BY XrvSteps
<1> HIDE DEF s, n
<1>2. CASE r = 1
  <2>1. s[2 * r + 1] = Await({"password"}) /\ XrvAnswers(lines, r) = {"password"}
    BY <1>1, <1>2 DEF XrvAnswers
  <2> QED
    BY <1>2, <2>1 DEF s
<1>3. CASE r = n + 3
  <2>1. 2 * r + 1 = 2 * n + 7 /\ r # 1 /\ r # 2
    BY <1>1, <1>3
  <2>2. s[2 * r + 1] = Await({"config"}) /\ XrvAnswers(lines, r) = {"config"}
    BY <1>1, <1>3, <2>1 DEF XrvAnswers, n
  <2> QED
    BY <2>2 DEF s
<1>4. CASE r # 1 /\ r # n + 3
  <2>1. r - 1 \in 1 .. n + 1 /\ 2 * (r - 1) + 3 = 2 * r + 1
    BY <1>1, <1>4 DEF n
  <2>2. s[2 * r + 1] = Await(Hash)
    BY <1>1, <2>1
  <2>3. XrvAnswers(lines, r) \subseteq Hash
    BY <1>4 DEF XrvAnswers, Hash, n
  <2>4. {"username", "password"} \cap Hash = {}
    BY DEF Hash
  <2> QED
    BY <2>2, <2>3, <2>4 DEF s
<1> QED
  BY <1>2, <1>3, <1>4

\* One token a script awaits is taken, and the next step begins.
LEMMA Awaited ==
  ASSUME TypedInv, Interpreter, NEW pattern, Current = Await(pattern), step <= Len(script),
         NEW x \in pattern, heard = <<x>>
  PROVE  /\ step' = step + 1 /\ typed' = typed /\ heard' = << >>
         /\ UNCHANGED <<job, router, connected, obliging>>
<1>1. /\ Current.do \in {"expect", "wait"} /\ 1 \in DOMAIN Current.on
      /\ x \in Current.on[1].pattern
      /\ Current.on[1].reply = "" /\ Current.on[1].go = 1
      /\ \A c \in DOMAIN Current.on : c < 1 => x \notin Current.on[c].pattern
  <2>1. \A c \in {1} : ~ (c < 1)
    OBVIOUS
  <2>2. PICK at : at = Current
    OBVIOUS
  <2>3. /\ at.do = "expect" /\ DOMAIN at.on = {1} /\ at.on[1].pattern = pattern
        /\ at.on[1].reply = "" /\ at.on[1].go = 1
    BY <2>2, AwaitIs
  <2> QED
    BY <2>1, <2>2, <2>3
<1>2. /\ heard' = << >> /\ Go(Current.on[1].go)
      /\ typed' = IF Current.on[1].reply = "" THEN typed
                  ELSE Typed([word |-> Current.on[1].reply, line |-> 0])
      /\ UNCHANGED <<job, router, connected, obliging>>
  BY <1>1, HearsOne
<1>3. Go(1)
  BY <1>1, <1>2
<1>4. step' = step + 1
  BY <1>3 DEF Go, Exit1
<1>5. typed' = typed
  BY <1>1, <1>2
<1> QED
  BY <1>2, <1>4, <1>5

\* Where nothing it awaits was heard, the script cannot go on in time while a
\* text is on its way or the connection has ended.
LEMMA AwaitedInVain ==
  ASSUME TypedInv, Interpreter, NEW pattern, Current = Await(pattern), step <= Len(script),
         connected', obliging', \A k \in DOMAIN heard : heard[k] \notin pattern
  PROVE  /\ mode \notin {"closed", "connect"} /\ typed = << >>
         /\ typed' = typed /\ heard' = heard /\ step' = step + 1
<1>1. PICK at : at = Current
  OBVIOUS
<1>2. /\ at.do = "expect" /\ DOMAIN at.on = {1} /\ at.on[1].pattern = pattern
      /\ at.late = 1
  BY <1>1, AwaitIs
<1>3. /\ Current.do = "expect" /\ Current.late = 1
      /\ \A k \in DOMAIN heard : \A b \in DOMAIN Current.on : heard[k] \notin Current.on[b].pattern
  BY <1>1, <1>2
<1>4. /\ mode \notin {"closed", "connect"} /\ typed = << >>
      /\ typed' = typed /\ heard' = heard /\ Go(Current.late)
  BY <1>3, HearsNothing
<1> QED
  BY <1>3, <1>4 DEF Go, Exit1

\* An interpreter at work on an xRV, on a session the premise is about.
LEMMA XrvWorks ==
  ASSUME TypedInv, driver = "xrv", NEW lines, lines = SentLines(driver, file)
  PROVE  LET s == XrvScript(lines)
             n == Len(lines)
         IN  /\ lines \in Seq(DOMAIN file \cap Line) /\ n \in Nat
             /\ script = s /\ Len(script) = 2 * n + 12 /\ step \in Nat \ {0}
             /\ s[1] = Expect(<<On({"refused"}, "", Exit1), On({"username"}, "", 1)>>, Exit1)
             /\ \A r \in 1 .. n + 4 : s[2 * r] = [do |-> "send", text |-> XrvText(lines, r)]
             /\ s[2 * n + 9] = XrvCommit
<1>1. /\ lines \in Seq(DOMAIN file \cap Line) /\ Len(lines) \in Nat
      /\ script = XrvScript(lines) /\ Len(script) = 2 * Len(lines) + 12
      /\ step \in Nat \ {0}
  BY XrvCurrent
<1> QED
  BY <1>1, XrvSteps

\* A connection that is refused, or not made in time, ends the script.
LEMMA XrvOpens ==
  ASSUME TypedInv, Interpreter, driver = "xrv", NEW lines, lines = SentLines(driver, file),
         obliging', connected', result' # "error", XrvOpening
  PROVE  XrvSending(lines)'
<1>1. PICK s : s = XrvScript(lines)
  OBVIOUS
<1>2. PICK n : n = Len(lines)
  OBVIOUS
<1>3. /\ n \in Nat /\ script = s /\ Len(script) = 2 * n + 12
      /\ s[1] = Expect(<<On({"refused"}, "", Exit1), On({"username"}, "", 1)>>, Exit1)
  BY <1>1, <1>2, XrvWorks
<1>4. step = 1 /\ typed = << >> /\ step <= Len(script)
  <2>1. step = 1 /\ typed = << >>
    BY DEF XrvOpening
  <2>2. n \in Nat
    BY <1>3
  <2>3. 1 <= 2 * n + 12
    BY <2>2
  <2> QED
    BY <1>3, <2>1, <2>3
<1>5. PICK on : on = Current.on
  OBVIOUS
<1>6. /\ Current.do = "expect" /\ Current.late = Exit1 /\ DOMAIN on = {1, 2}
      /\ on[1].pattern = {"refused"} /\ on[1].go = Exit1
      /\ on[2].pattern = {"username"} /\ on[2].reply = "" /\ on[2].go = 1
  <2>1. PICK x, y : x = On({"refused"}, "", Exit1) /\ y = On({"username"}, "", 1)
    OBVIOUS
  <2>2. /\ x.pattern = {"refused"} /\ x.go = Exit1
        /\ y.pattern = {"username"} /\ y.reply = "" /\ y.go = 1
    BY <2>1 DEF On
  <2>3. PICK at : at = Current
    OBVIOUS
  <2>4. at = Expect(<<x, y>>, Exit1)
    BY <1>3, <1>4, <2>1, <2>3 DEF Current
  <2>5. /\ at.do = "expect" /\ at.late = Exit1 /\ DOMAIN at.on = {1, 2}
        /\ at.on[1] = x /\ at.on[2] = y
    BY <2>4, ExpectIs
  <2> QED
    BY <1>5, <2>2, <2>3, <2>5
<1>7. ~ Go(Exit1)
  BY DEF Go
<1>8. heard # << >>
  <2> SUFFICES ASSUME heard = << >> PROVE FALSE
    OBVIOUS
  <2>1. \A k \in DOMAIN heard : \A b \in DOMAIN Current.on : heard[k] \notin Current.on[b].pattern
    OBVIOUS
  <2> QED
    BY <1>4, <1>6, <1>7, <2>1, HearsNothing
<1>9. \A c \in {1, 2} : ~ (c < 1) /\ (c < 2 => c = 1)
  OBVIOUS
<1>10. heard # <<"refused">>
  <2> SUFFICES ASSUME heard = <<"refused">> PROVE FALSE
    OBVIOUS
  <2>1. /\ 1 \in DOMAIN Current.on /\ "refused" \in Current.on[1].pattern
        /\ \A c \in DOMAIN Current.on : c < 1 => "refused" \notin Current.on[c].pattern
    BY <1>5, <1>6, <1>9
  <2>2. Go(Current.on[1].go)
    BY <1>4, <1>6, <2>1, HearsOne
  <2> QED
    BY <1>5, <1>6, <1>7, <2>2
<1>11. heard = <<"username">> /\ mode \in {"username", "closed"}
  BY <1>4, <1>8, <1>10 DEF XrvOpening
<1>12. /\ 2 \in DOMAIN Current.on /\ "username" \in Current.on[2].pattern
       /\ \A c \in DOMAIN Current.on : c < 2 => "username" \notin Current.on[c].pattern
  BY <1>5, <1>6, <1>9
<1>13. /\ heard' = << >> /\ Go(Current.on[2].go)
       /\ typed' = IF Current.on[2].reply = "" THEN typed
                   ELSE Typed([word |-> Current.on[2].reply, line |-> 0])
       /\ UNCHANGED <<job, router, connected, obliging>>
  BY <1>4, <1>6, <1>11, <1>12, HearsOne
<1>14. Go(1) /\ typed' = << >> /\ heard' = << >> /\ mode' = mode
  BY <1>4, <1>5, <1>6, <1>13 DEF router
<1>15. step' = 2 * 1
  BY <1>4, <1>14 DEF Go, Exit1
<1>16. 1 \in 1 .. n + 4 /\ XrvMode(1) = "username"
  <2>1. n \in Nat
    BY <1>3
  <2>2. 1 \in 1 .. n + 4
    BY <2>1
  <2> QED
    BY <2>2 DEF XrvMode
<1>17. Quiet("username")'
  BY <1>11, <1>14 DEF Quiet
<1> QED
  BY <1>2, <1>15, <1>16, <1>17 DEF XrvSending

\* A text is sent, and is on its way.
LEMMA XrvSends ==
  ASSUME TypedInv, Interpreter, driver = "xrv", NEW lines, lines = SentLines(driver, file),
         connected', result' # "error", XrvSending(lines)
  PROVE  XrvAsking(lines)' \/ XrvCommitting(lines)'
<1>1. PICK s : s = XrvScript(lines)
  OBVIOUS
<1>2. PICK n : n = Len(lines)
  OBVIOUS
<1>3. /\ n \in Nat /\ script = s /\ Len(script) = 2 * n + 12
      /\ \A r \in 1 .. n + 4 : s[2 * r] = [do |-> "send", text |-> XrvText(lines, r)]
  BY <1>1, <1>2, XrvWorks
<1>4. PICK r \in 1 .. n + 4 : step = 2 * r /\ Quiet(XrvMode(r))
  BY <1>2 DEF XrvSending
<1>5. PICK t : t = XrvText(lines, r)
  OBVIOUS
<1>6. PICK m : m = XrvMode(r)
  OBVIOUS
<1>7. m # "closed"
  BY <1>6 DEF XrvMode
<1>8. Current.do = "send" /\ Current.text = t
  <2>1. PICK at : at = Current
    OBVIOUS
  <2>2. at = [do |-> "send", text |-> t]
    BY <1>3, <1>4, <1>5, <2>1 DEF Current
  <2> QED
    BY <2>1, <2>2
<1>9. step <= Len(script) /\ 2 * r \in Nat
  BY <1>3, <1>4
<1>10. connected
  BY WhichStep
<1>11. step' = step + 1 /\ (Typing(m, t)' \/ Gone')
  BY <1>4, <1>6, <1>7, <1>8, <1>9, <1>10, Sends1
<1>12. step' = 2 * r + 1
  BY <1>4, <1>9, <1>11
<1>13. CASE r <= n + 3
  <2>1. r \in 1 .. n + 3
    BY <1>3, <1>13
  <2> QED
    BY <1>2, <1>5, <1>6, <1>11, <1>12, <2>1 DEF XrvAsking
<1>14. CASE ~ (r <= n + 3)
  <2>1. r = n + 4 /\ 2 * r + 1 = 2 * n + 9 /\ r # 1 /\ r # 2 /\ r # 3
    BY <1>3, <1>14
  <2>2. t = Say("commit").text
    BY <1>2, <1>5, <2>1 DEF XrvText
  <2>3. m = "config"
    BY <1>6, <2>1 DEF XrvMode
  <2>4. step' = 2 * n + 9
    BY <1>12, <2>1
  <2> QED
    BY <1>2, <1>11, <2>2, <2>3, <2>4 DEF XrvCommitting
<1> QED
  BY <1>13, <1>14

\* The answer is heard, and the next text can be sent.
LEMMA XrvHears ==
  ASSUME TypedInv, Interpreter, driver = "xrv", NEW lines, lines = SentLines(driver, file),
         obliging', connected', XrvAsking(lines)
  PROVE  XrvSending(lines)'
<1>1. PICK n : n = Len(lines)
  OBVIOUS
<1>2. /\ n \in Nat /\ script = XrvScript(lines) /\ Len(script) = 2 * n + 12
      /\ lines \in Seq(DOMAIN file \cap Line)
  BY <1>1, XrvWorks
<1>3. PICK r \in 1 .. n + 3 :
        /\ step = 2 * r + 1
        /\ \/ Typing(XrvMode(r), XrvText(lines, r))
           \/ Answered(XrvMode(r + 1), XrvAnswers(lines, r))
           \/ Gone
  BY <1>1 DEF XrvAsking
<1>4. PICK pattern : script[2 * r + 1] = Await(pattern) /\ XrvAnswers(lines, r) \subseteq pattern
  BY <1>1, <1>2, XrvAwaits
<1>5. Current = Await(pattern)
  BY <1>3, <1>4 DEF Current
<1>6. step <= Len(script) /\ 2 * r + 1 \in Nat
  BY <1>2, <1>3
<1>7. Answered(XrvMode(r + 1), XrvAnswers(lines, r))
  <2>1. ASSUME heard = << >> PROVE mode # "closed" /\ typed = << >>
    <3>1. \A k \in DOMAIN heard : heard[k] \notin pattern
      BY <2>1
    <3> QED
      BY <1>5, <1>6, <3>1, AwaitedInVain
  <2>2. ASSUME NEW m, NEW t, Typing(m, t) PROVE FALSE
    <3>1. heard = << >> /\ typed = <<t>>
      BY <2>2 DEF Typing
    <3> QED
      BY <2>1, <3>1
  <2>3. ~Gone
    BY <2>1 DEF Gone
  <2> QED
    BY <1>3, <2>2, <2>3
<1>8. PICK x \in XrvAnswers(lines, r) : heard = <<x>>
  BY <1>7 DEF Answered
<1>9. typed = << >> /\ mode \in {XrvMode(r + 1), "closed"}
  BY <1>7 DEF Answered
<1>10. x \in pattern
  BY <1>4
<1>11. /\ step' = step + 1 /\ typed' = typed /\ heard' = << >>
       /\ UNCHANGED <<job, router, connected, obliging>>
  BY <1>5, <1>6, <1>8, <1>10, Awaited
<1>12. step' = 2 * (r + 1) /\ r + 1 \in 1 .. n + 4
  BY <1>2, <1>3, <1>6, <1>11
<1>13. mode' = mode
  BY <1>11 DEF router
<1>14. Quiet(XrvMode(r + 1))'
  BY <1>9, <1>11, <1>13 DEF Quiet
<1>15. PICK q \in 1 .. n + 4 : step' = 2 * q /\ Quiet(XrvMode(q))'
  BY <1>12, <1>14
<1> QED
  BY <1>1, <1>15 DEF XrvSending

\* What the commit of an xRV waits for.
LEMMA XrvCommitIs ==
  /\ XrvCommit.do = "expect" /\ XrvCommit.late = Exit1 /\ DOMAIN XrvCommit.on = {1, 2}
  /\ XrvCommit.on[1].pattern = {"confirm"} /\ XrvCommit.on[1].reply = "yes"
  /\ XrvCommit.on[1].go = Again /\ XrvCommit.on[2].pattern = Hash
<1>1. PICK x, y : x = On({"confirm"}, "yes", Again) /\ y = On(Hash, "exit", 1)
  OBVIOUS
<1>2. PICK at : at = XrvCommit
  OBVIOUS
<1>3. at = Expect(<<x, y>>, Exit1)
  BY <1>1, <1>2 DEF XrvCommit
<1>4. /\ x.pattern = {"confirm"} /\ x.reply = "yes" /\ x.go = Again /\ y.pattern = Hash
  BY <1>1 DEF On
<1>5. /\ at.do = "expect" /\ at.late = Exit1 /\ DOMAIN at.on = {1, 2}
      /\ at.on[1] = x /\ at.on[2] = y
  BY <1>3, ExpectIs
<1> QED
  BY <1>2, <1>4, <1>5

\* The question of the commit is answered.
LEMMA XrvConfirms ==
  ASSUME TypedInv, Interpreter, driver = "xrv", NEW lines, lines = SentLines(driver, file),
         obliging', connected', result' # "error", XrvCommitting(lines)
  PROVE  XrvCommitting(lines)'
<1>1. PICK n : n = Len(lines)
  OBVIOUS
<1>2. n \in Nat /\ script[2 * n + 9] = XrvCommit /\ Len(script) = 2 * n + 12
  BY <1>1, XrvWorks
<1>3. step = 2 * n + 9
  BY <1>1 DEF XrvCommitting
<1>4. Current = XrvCommit /\ step <= Len(script) /\ step \in Nat
  BY <1>2, <1>3 DEF Current
<1>5. PICK on : on = Current.on
  OBVIOUS
<1>6. /\ Current.do = "expect" /\ Current.late = Exit1 /\ DOMAIN on = {1, 2}
      /\ on[1].pattern = {"confirm"} /\ on[1].reply = "yes" /\ on[1].go = Again
  BY <1>4, <1>5, XrvCommitIs
<1>7. ~ Go(Exit1)
  BY DEF Go
<1>8. heard # << >>
  <2> SUFFICES ASSUME heard = << >> PROVE FALSE
    OBVIOUS
  <2>1. \A k \in DOMAIN heard : \A b \in DOMAIN Current.on : heard[k] \notin Current.on[b].pattern
    OBVIOUS
  <2> QED
    BY <1>4, <1>6, <1>7, <2>1, HearsNothing
<1>9. Answered("confirm", {"confirm"})
  BY <1>8 DEF XrvCommitting, Typing, Gone
<1>10. heard = <<"confirm">> /\ typed = << >> /\ mode \in {"confirm", "closed"}
  BY <1>9 DEF Answered
<1>11. \A c \in {1, 2} : ~ (c < 1)
  OBVIOUS
<1>12. /\ 1 \in DOMAIN Current.on /\ "confirm" \in Current.on[1].pattern
       /\ \A c \in DOMAIN Current.on : c < 1 => "confirm" \notin Current.on[c].pattern
  BY <1>5, <1>6, <1>11
<1>13. /\ heard' = << >> /\ Go(Current.on[1].go)
       /\ typed' = IF Current.on[1].reply = "" THEN typed
                   ELSE Typed([word |-> Current.on[1].reply, line |-> 0])
       /\ UNCHANGED <<job, router, connected, obliging>>
  BY <1>4, <1>6, <1>10, <1>12, HearsOne
<1>14. PICK t : t = Say("yes").text
  OBVIOUS
<1>15. t = [word |-> "yes", line |-> 0]
  BY <1>14 DEF Say
<1>16. Go(0) /\ typed' = Typed(t) /\ mode' = mode
  BY <1>5, <1>6, <1>13, <1>15 DEF router, Again
<1>17. step' = 2 * n + 9
  BY <1>3, <1>4, <1>16 DEF Go, Exit1
<1>18. Typing("confirm", t)' \/ Gone'
  <2>1. Append(<< >>, t) = <<t>>
    OBVIOUS
  <2> QED
    BY <1>10, <1>13, <1>16, <2>1 DEF Typed, Typing, Gone
<1> QED
  BY <1>1, <1>14, <1>17, <1>18 DEF XrvCommitting

\* A session without a login gets no further than the commit.
LEMMA XrvStaysLost ==
  ASSUME TypedInv, Interpreter, driver = "xrv", NEW lines, lines = SentLines(driver, file),
         obliging', connected', result' # "error", XrvLost(lines)
  PROVE  XrvLost(lines)'
<1>1. PICK n : n = Len(lines)
  OBVIOUS
<1>2. /\ n \in Nat /\ script = XrvScript(lines) /\ Len(script) = 2 * n + 12
      /\ lines \in Seq(DOMAIN file \cap Line)
      /\ \A r \in 1 .. n + 4 : script[2 * r] = [do |-> "send", text |-> XrvText(lines, r)]
      /\ script[2 * n + 9] = XrvCommit
  BY <1>1, XrvWorks
<1>3. /\ step \in 5 .. 2 * n + 9 /\ mode \in {"username", "password", "closed"}
      /\ \A k \in DOMAIN heard : heard[k] \in {"username", "password"}
      /\ \A k \in DOMAIN typed : typed[k].word # "password"
  BY <1>1 DEF XrvLost
<1>4. n \in Nat
  BY <1>2
<1>5. PICK p : p = step
  OBVIOUS
<1>6. p \in 5 .. 2 * n + 9
  BY <1>3, <1>5
<1>7. p \in Nat /\ p <= 2 * n + 12
  BY <1>4, <1>6
<1>8. step <= Len(script) /\ connected /\ UNCHANGED router
  BY <1>2, <1>5, <1>7, WhichStep
<1>9. CASE \E r \in 3 .. n + 4 : p = 2 * r
  <2>1. PICK r \in 3 .. n + 4 : p = 2 * r
    BY <1>9
  <2>2. PICK t : t = XrvText(lines, r)
    OBVIOUS
  <2>3. r \in 1 .. n + 4 /\ p + 1 \in 5 .. 2 * n + 9
    BY <1>4, <2>1
  <2>4. PICK at : at = Current
    OBVIOUS
  <2>5. at = [do |-> "send", text |-> t]
    BY <1>2, <1>5, <2>1, <2>2, <2>3, <2>4 DEF Current
  <2>6. Current.do = "send" /\ Current.text = t
    BY <2>4, <2>5
  <2>7. t.word # "password"
    <3>1. CASE r = 3
      BY <2>2, <3>1, <1>1, <1>4, XrvWords
    <3>2. CASE r = n + 4
      BY <2>2, <3>2, <1>1, <1>4, XrvWords
    <3>3. CASE r # 3 /\ r # n + 4
      <4>1. PICK q : q = r - 4
        OBVIOUS
      <4>2. q \in 0 .. n - 1 /\ r = q + 4
        BY <1>4, <2>1, <3>3, <4>1
      <4>3. XrvText(lines, q + 4).word = "line"
        BY <1>1, <1>4, <4>2, XrvWords
      <4> QED
        BY <2>2, <4>2, <4>3
    <3> QED
      BY <3>1, <3>2, <3>3
  <2>8. ~ (step > Len(script))
    BY <1>2, <1>4, <1>5, <1>7
  <2>9. Send
    BY <2>6, <2>8, WhichStep
  <2>10. typed' = Typed(t) /\ Go(1) /\ heard' = heard
    BY <1>8, <2>6, <2>9 DEF Send, Go, Exit1
  <2>11. step' \in 5 .. 2 * n + 9
    <3>1. step' = p + 1
      BY <1>5, <2>10 DEF Go, Exit1
    <3> QED
      BY <2>3, <3>1
  <2>12. \A k \in DOMAIN typed' : typed'[k].word # "password"
    <3>1. typed \in Seq(Texts(file))
      BY DEF TypedInv
    <3>2. ASSUME typed' = Append(typed, t) PROVE \A k \in DOMAIN typed' : typed'[k].word # "password"
      <4>1. PICK m : m = Len(typed)
        OBVIOUS
      <4>2. m \in Nat /\ DOMAIN typed = 1 .. m
        BY <3>1, <4>1
      <4>3. /\ DOMAIN typed' = 1 .. m + 1
            /\ \A k \in 1 .. m : typed'[k] = typed[k]
            /\ typed'[m + 1] = t
        BY <3>1, <3>2, <4>1
      <4>4. \A k \in 1 .. m + 1 : k \in 1 .. m \/ k = m + 1
        BY <4>2
      <4> QED
        BY <1>3, <2>7, <4>2, <4>3, <4>4
    <3> QED
      BY <1>3, <2>10, <3>2 DEF Typed
  <2>13. mode' = mode
    BY <1>8 DEF router
  <2> QED
    BY <1>1, <1>3, <2>10, <2>11, <2>12, <2>13 DEF XrvLost
<1>10. CASE \E r \in 2 .. n + 3 : p = 2 * r + 1
  <2>1. PICK r \in 2 .. n + 3 : p = 2 * r + 1
    BY <1>10
  <2>2. r \in 1 .. n + 3 /\ r # 1 /\ p + 1 \in 5 .. 2 * n + 9
    BY <1>4, <2>1
  <2>3. PICK pattern : script[2 * r + 1] = Await(pattern) /\ {"username", "password"} \cap pattern = {}
    BY <1>1, <1>2, <2>2, XrvAwaits
  <2>4. Current = Await(pattern)
    BY <1>5, <2>1, <2>3 DEF Current
  <2>5. \A k \in DOMAIN heard : heard[k] \notin pattern
    BY <1>3, <2>3
  <2>6. typed' = typed /\ heard' = heard /\ step' = step + 1
    BY <1>8, <2>4, <2>5, AwaitedInVain
  <2>7. mode' = mode
    BY <1>8 DEF router
  <2>8. step' \in 5 .. 2 * n + 9
    BY <1>5, <2>2, <2>6
  <2> QED
    BY <1>1, <1>3, <2>6, <2>7, <2>8 DEF XrvLost
<1>11. p # 2 * n + 9
  <2> SUFFICES ASSUME p = 2 * n + 9 PROVE FALSE
    OBVIOUS
  <2>1. Current = XrvCommit
    BY <1>2, <1>5 DEF Current
  <2>2. PICK on : on = Current.on
    OBVIOUS
  <2>3. /\ Current.do = "expect" /\ Current.late = Exit1 /\ DOMAIN on = {1, 2}
        /\ on[1].pattern = {"confirm"} /\ on[2].pattern = Hash
    BY <2>1, <2>2, XrvCommitIs
  <2>4. \A x \in {"username", "password"} : x \notin {"confirm"} \cup Hash
    BY DEF Hash
  <2>5. \A k \in DOMAIN heard : \A b \in DOMAIN on : heard[k] \notin on[b].pattern
    BY <1>3, <2>3, <2>4
  <2>6. \A k \in DOMAIN heard : \A b \in DOMAIN Current.on : heard[k] \notin Current.on[b].pattern
    BY <2>2, <2>5
  <2>7. Go(Current.late)
    BY <1>8, <2>3, <2>6, HearsNothing
  <2> QED
    BY <2>3, <2>7 DEF Go
<1>12. p = 2 * n + 9 \/ (\E r \in 3 .. n + 4 : p = 2 * r) \/ (\E r \in 2 .. n + 3 : p = 2 * r + 1)
  <2>1. PICK h : h = p \div 2
    OBVIOUS
  <2>2. h \in Nat /\ (p = 2 * h \/ p = 2 * h + 1)
    BY <1>7, <2>1
  <2>3. CASE p = 2 * h
    <3>1. h \in 3 .. n + 4
      BY <1>4, <1>6, <2>2, <2>3
    <3> QED
      BY <2>3, <3>1
  <2>4. CASE p = 2 * h + 1 /\ p # 2 * n + 9
    <3>1. h \in 2 .. n + 3
      BY <1>4, <1>6, <2>2, <2>4
    <3> QED
      BY <2>4, <3>1
  <2> QED
    BY <2>2, <2>3, <2>4
<1> QED
  BY <1>9, <1>10, <1>11, <1>12

\* What the interpreter does on an xRV.
LEMMA XrvInterpreterLock ==
  ASSUME TypedInv, Interpreter, driver = "xrv", NEW lines, lines = SentLines(driver, file),
         NEW whole, obliging', connected', result' # "error", XrvLock(lines, whole)
  PROVE  XrvLock(lines, whole)'
<1>1. CASE XrvOpening
  BY <1>1, XrvOpens DEF XrvLock
<1>2. CASE XrvSending(lines)
  BY <1>2, XrvSends DEF XrvLock
<1>3. CASE XrvAsking(lines)
  BY <1>3, XrvHears DEF XrvLock
<1>4. CASE XrvCommitting(lines)
  BY <1>4, XrvConfirms DEF XrvLock
<1>5. CASE XrvApplied(lines, whole)
  <2>1. running' = running
    BY WhichStep DEF router
  <2>2. step' \in Nat /\ step' >= step /\ step \in Nat /\ Len(lines) \in Nat
    BY StepGrows, XrvWorks
  <2>3. step >= 2 * Len(lines) + 9 /\ running = whole
    BY <1>5 DEF XrvApplied
  <2>4. step' >= 2 * Len(lines) + 9
    BY <2>2, <2>3
  <2> QED
    BY <2>1, <2>3, <2>4 DEF XrvApplied, XrvLock
<1>6. CASE XrvLost(lines)
  BY <1>6, XrvStaysLost DEF XrvLock
<1> QED
  BY <1>1, <1>2, <1>3, <1>4, <1>5, <1>6 DEF XrvLock

\* Where a file does not end in a section, what an xRV is sent does not, either.
LEMMA LastPlain ==
  ASSUME NEW f \in File, NEW lines, lines = SentLines("xrv", f), ~EndsInSection(f)
  PROVE  Inside(f, Sent("xrv", f), LineAt(lines, Len(lines))) = 0
<1>1. PICK kept : kept = Sent("xrv", f)
  OBVIOUS
<1>2. /\ f \in Seq(LineKind) /\ DOMAIN f \subseteq Nat \ {0}
      /\ kept \subseteq DOMAIN f /\ kept \subseteq Nat \ {0} /\ Sorted(lines, kept)
  BY <1>1, SentFacts
<1>3. PICK q : q = LineAt(lines, Len(lines))
  OBVIOUS
<1>4. q \in Nat /\ \A j \in kept : j <= q
  BY <1>2, <1>3, LineAfter DEF LineOrder
<1>5. PICK o : o = Opened(f, kept, q)
  OBVIOUS
<1>6. o # 0 => o \in kept /\ o \in Nat /\ Opens(f, o)
  BY <1>2, <1>4, <1>5, OpenedIs
<1>7. \A j \in kept : Opens(f, j) => j <= o
  BY <1>2, <1>4, <1>5, OpenedIs
<1>8. PICK last : last = Opened(f, DOMAIN f, Len(f))
  OBVIOUS
<1>9. Len(f) \in Nat /\ \A j \in DOMAIN f : j <= Len(f)
  BY <1>2
<1>10. /\ last \in Nat /\ (last # 0 => last \in DOMAIN f /\ Opens(f, last))
       /\ \A j \in DOMAIN f : Opens(f, j) => j <= last
  BY <1>2, <1>8, <1>9, OpenedIs
<1>11. ~ (last # 0 /\ f[last] \notin Single)
  BY <1>8 DEF EndsInSection
<1>12. ASSUME o # 0 PROVE f[o] \in Single
  <2>1. o <= last /\ o \in Nat \ {0}
    BY <1>2, <1>6, <1>10, <1>12
  <2>2. last # 0
    BY <1>10, <2>1
  <2>3. last \in kept
    <3>1. f[last] # "comment"
      BY <1>10, <2>2 DEF Opens, Single
    <3> QED
      BY <1>1, <1>10, <2>2, <3>1 DEF Sent
  <2>4. last <= o
    BY <1>7, <1>10, <2>2, <2>3
  <2>5. last = o
    BY <1>10, <2>1, <2>4
  <2> QED
    BY <1>11, <2>2, <2>5
<1> QED
  BY <1>1, <1>3, <1>5, <1>12 DEF Inside

\* After the last line, no section is open.
LEMMA XrvEndsPlain ==
  ASSUME NEW f \in File, NEW kept, kept = Sent("xrv", f), NEW lines, lines = SentLines("xrv", f),
         ~EndsInSection(f), XrvAlong(f, kept, lines)', mode' = "config", typed' = << >>,
         step' = 2 * Len(lines) + 7
  PROVE  section' = 0
<1>1. PICK n : n = Len(lines)
  OBVIOUS
<1>2. n \in Nat
  BY <1>1, SentFacts
<1>3. PICK c \in 0 .. n + 4 : XrvQueue(lines, c)' /\ XrvStage(f, kept, lines, c)'
  BY <1>1 DEF XrvAlong
<1>4. c + Len(typed') = (step' - 1) \div 2
  <2>1. step' <= 2 * n + 8
    BY <1>1, <1>2
  <2> QED
    BY <1>1, <1>3, <2>1 DEF XrvQueue
<1>5. Len(typed') = 0
  OBVIOUS
<1>6. (step' - 1) \div 2 = n + 3
  <2>1. step' - 1 = 2 * (n + 3)
    BY <1>1, <1>2
  <2>2. (2 * (n + 3)) \div 2 = n + 3
    BY <1>2
  <2> QED
    BY <2>1, <2>2
<1>7. c = n + 3
  BY <1>3, <1>4, <1>5, <1>6
<1>8. c # 0 /\ c # 1 /\ c # 2 /\ c # n + 4 /\ c - 3 = n
  BY <1>2, <1>7
<1>9. XrvConfig(f, kept, lines, n)'
  BY <1>1, <1>3, <1>8 DEF XrvStage
<1>10. section' = Inside(f, kept, LineAt(lines, n))
  BY <1>9 DEF XrvConfig
<1> QED
  BY <1>1, <1>10, LastPlain

\* What a commit waits to be confirmed for is the whole file.
LEMMA XrvConfirmsWhole ==
  ASSUME TypedInv, XrvInv, driver = "xrv", mode = "confirm"
  PROVE  candidate = Meaning(file, Sent(driver, file))
<1>1. PICK f, kept, lines : f = file /\ kept = Sent(driver, file) /\ lines = SentLines(driver, file)
  OBVIOUS
<1>2. XrvAlong(f, kept, lines)
  BY <1>1 DEF XrvInv
<1>3. PICK c : XrvStage(f, kept, lines, c)
  BY <1>2 DEF XrvAlong
<1>4. candidate = Meaning(f, kept)
  BY <1>3 DEF XrvStage, XrvConfig
<1> QED
  BY <1>1, <1>4

\* A connection is made, or refused.
LEMMA XrvGreets ==
  ASSUME Router \/ Drop, driver = "xrv", XrvOpening
  PROVE  XrvOpening'
<1>1. step = 1 /\ typed = << >> /\ step' = step
  BY RouterFrame DEF XrvOpening, place
<1>2. CASE mode # "connect"
  <2>1. mode' = "closed" /\ typed' = << >> /\ heard' = heard
    BY <1>1, <1>2, RouterIdle
  <2> QED
    BY <1>1, <1>2, <2>1 DEF XrvOpening
<1>3. CASE mode = "connect"
  <2>1. heard = << >>
    BY <1>3 DEF XrvOpening
  <2>2. CASE Drop
    BY <1>1, <2>1, <2>2 DEF Drop, XrvOpening
  <2>3. CASE Greet
    <3>1. /\ typed' = << >>
          /\ \/ mode' = "username" /\ heard' = heard \o Prompt("username", 0)
             \/ mode' = "closed" /\ heard' = Append(heard, "refused")
      BY <1>1, <2>3 DEF Greet
    <3>2. Prompt("username", 0) = <<"username">>
      BY PromptIs
    <3>3. << >> \o <<"username">> = <<"username">> /\ Append(<< >>, "refused") = <<"refused">>
      OBVIOUS
    <3> QED
      BY <1>1, <2>1, <3>1, <3>2, <3>3 DEF XrvOpening
  <2> QED
    BY <1>1, <1>3, <2>2, <2>3 DEF Router, Login, TakeLine, Command, Serve, Asked
<1> QED
  BY <1>2, <1>3

\* What a router has said, or lost, stays said or lost.
LEMMA StaysQuiet ==
  ASSUME Router \/ Drop, NEW m, m # "connect", NEW tokens
  PROVE  /\ Quiet(m) => Quiet(m)'
         /\ Answered(m, tokens) => Answered(m, tokens)'
         /\ Gone => Gone'
<1>1. ASSUME typed = << >>, mode # "connect"
      PROVE  mode' = "closed" /\ typed' = << >> /\ heard' = heard
  BY <1>1, RouterIdle
<1> QED
  BY <1>1 DEF Quiet, Answered, Gone

\* The router takes the r-th text and answers it, or the login is refused.
LEMMA XrvAnswersLogin ==
  ASSUME TypedInv, Router \/ Drop, driver = "xrv", NEW lines, Len(lines) \in Nat,
         NEW r \in {1, 2}, step = 2 * r + 1, Typing(XrvMode(r), XrvText(lines, r))
  PROVE  XrvAsking(lines)' \/ XrvLost(lines)'
<1>1. PICK n : n = Len(lines)
  OBVIOUS
<1>2. n \in Nat /\ step' = step
  BY <1>1, RouterFrame DEF place
<1>3. PICK t : t = XrvText(lines, r)
  OBVIOUS
<1>4. typed = <<t>> /\ heard = << >> /\ mode = XrvMode(r)
  BY <1>3 DEF Typing
<1>5. mode \in {"username", "password"}
  BY <1>4 DEF XrvMode
<1>6. \/ Gone'
      \/ /\ typed' = << >> /\ heard' = Prompt(mode', 0)
         /\ \/ mode = "username" /\ mode' = "password"
            \/ mode # "username" /\ mode' = "exec"
            \/ mode # "username" /\ mode' \in {"closed", "username"}
  BY <1>4, <1>5, LoginTurn
<1>7. /\ Prompt("password", 0) = <<"password">> /\ Prompt("exec", 0) = <<"prompt">>
      /\ Prompt("closed", 0) = << >> /\ Prompt("username", 0) = <<"username">>
  BY PromptIs
<1>8. r \in 1 .. n + 3
  BY <1>2
<1>9. CASE Gone'
  BY <1>1, <1>2, <1>8, <1>9 DEF XrvAsking
<1>10. CASE typed' = << >> /\ heard' = <<"password">> /\ mode = "username" /\ mode' = "password"
  <2>1. r = 1
    BY <1>4, <1>10 DEF XrvMode
  <2>2. XrvMode(r + 1) = "password" /\ XrvAnswers(lines, r) = {"password"}
    BY <2>1 DEF XrvMode, XrvAnswers
  <2>3. Answered(XrvMode(r + 1), XrvAnswers(lines, r))'
    BY <1>10, <2>2 DEF Answered
  <2> QED
    BY <1>1, <1>2, <1>8, <2>3 DEF XrvAsking
<1>11. CASE mode # "username"
  <2>1. r = 2
    BY <1>4, <1>11 DEF XrvMode
  <2>2. XrvMode(r + 1) = "exec" /\ XrvAnswers(lines, r) = {"prompt"}
    BY <2>1 DEF XrvMode, XrvAnswers
  <2>3. CASE typed' = << >> /\ heard' = <<"prompt">> /\ mode' = "exec"
    <3>1. Answered(XrvMode(r + 1), XrvAnswers(lines, r))'
      BY <2>2, <2>3 DEF Answered
    <3> QED
      BY <1>1, <1>2, <1>8, <3>1 DEF XrvAsking
  <2>4. CASE typed' = << >> /\ heard' = Prompt(mode', 0) /\ mode' \in {"closed", "username"}
    <3>1. \A k \in DOMAIN heard' : heard'[k] \in {"username", "password"}
      BY <1>7, <2>4
    <3>2. step' \in 5 .. 2 * n + 9
      BY <1>2, <2>1
    <3> QED
      BY <1>1, <2>4, <3>1, <3>2 DEF XrvLost
  <2> QED
    BY <1>6, <1>7, <1>9, <1>11, <2>3, <2>4
<1> QED
  BY <1>6, <1>7, <1>9, <1>10, <1>11

\* The router goes to configuration mode.
LEMMA XrvAnswersConfigure ==
  ASSUME TypedInv, Router \/ Drop, obliging', driver = "xrv", NEW lines, Len(lines) \in Nat,
         step = 7, Typing(XrvMode(3), XrvText(lines, 3))
  PROVE  XrvAsking(lines)'
<1>1. PICK n : n = Len(lines)
  OBVIOUS
<1>2. n \in Nat /\ step' = 2 * 3 + 1 /\ 3 \in 1 .. n + 3
  BY <1>1, RouterFrame DEF place
<1>3. PICK t : t = Say("configure").text
  OBVIOUS
<1>4. typed = <<t>> /\ heard = << >> /\ mode = "exec" /\ t.word = "configure"
  BY <1>3 DEF Typing, XrvText, XrvMode, Say
<1>5. XrvMode(3 + 1) = "config" /\ "config" \in XrvAnswers(lines, 3)
  BY DEF XrvMode, XrvAnswers
<1>6. After("configure") = "config"
  BY <1>4 DEF After
<1>7. \/ Gone'
      \/ /\ typed' = << >> /\ heard' = Prompt(mode', section')
         /\ mode' = "config" /\ section' = 0
  BY <1>4, <1>6, CommandTurn
<1>8. Prompt("config", 0) = <<"config">>
  BY PromptIs
<1>9. Gone' \/ Answered(XrvMode(3 + 1), XrvAnswers(lines, 3))'
  BY <1>5, <1>7, <1>8 DEF Answered
<1>10. PICK r \in 1 .. n + 3 :
         step' = 2 * r + 1 /\ (Gone' \/ Answered(XrvMode(r + 1), XrvAnswers(lines, r))')
  BY <1>2, <1>9
<1> QED
  BY <1>1, <1>10 DEF XrvAsking

\* The router takes a line.  After the last one it is in no section.
LEMMA XrvAnswersLine ==
  ASSUME TypedInv, Router \/ Drop, driver = "xrv", NEW lines, lines = SentLines(driver, file),
         NEW r \in 4 .. Len(lines) + 3, step = 2 * r + 1,
         Typing(XrvMode(r), XrvText(lines, r)),
         "hash" \notin Range(file), ~EndsInSection(file), XrvInv'
  PROVE  XrvAsking(lines)'
<1>1. PICK n : n = Len(lines)
  OBVIOUS
<1>2. /\ n \in Nat /\ step' = step /\ driver' = driver /\ file' = file
      /\ file \in File /\ lines \in Seq(DOMAIN file \cap Line)
  BY <1>1, RouterFrame, XrvWorks, TypedFacts DEF place, job
<1>3. r \in 1 .. n + 3 /\ r - 3 \in 1 .. n /\ ~ (r < 4)
  BY <1>1, <1>2
<1>4. r \notin {1, 2, 3} /\ r + 1 \notin {1, 2, 3} /\ r # n + 4
  BY <1>2, <1>3
<1>5. XrvMode(r) = "config" /\ XrvMode(r + 1) = "config"
  BY <1>4 DEF XrvMode
<1>6. PICK t : t = XrvText(lines, r)
  OBVIOUS
<1>7. t.word = "line" /\ t.line = lines[r - 3]
  BY <1>1, <1>4, <1>6 DEF XrvText, Enter
<1>8. typed = <<t>> /\ heard = << >> /\ mode = "config"
  BY <1>5, <1>6 DEF Typing
<1>9. file[t.line] # "hash"
  <2>1. t.line \in DOMAIN file
    BY <1>1, <1>2, <1>3, <1>7
  <2> QED
    BY <2>1 DEF Range
<1>10. \/ Gone'
       \/ /\ typed' = << >> /\ mode' = "config" /\ \E x \in {"config", "section"} : heard' = <<x>>
          /\ section' = 0 => heard' = <<"config">>
  BY <1>7, <1>8, <1>9, LineTurn
<1>11. ASSUME typed' = << >>, mode' = "config", \E x \in {"config", "section"} : heard' = <<x>>,
              section' = 0 => heard' = <<"config">>
       PROVE  Answered("config", XrvAnswers(lines, r))'
  <2>1. CASE r = n + 3
    <3>1. XrvAnswers(lines, r) = {"config"}
      BY <1>1, <1>4, <2>1 DEF XrvAnswers
    <3>2. PICK f, kept : f = file /\ kept = Sent("xrv", f)
      OBVIOUS
    <3>3. XrvAlong(f, kept, lines)'
      <4>1. f = file' /\ kept = Sent(driver', file') /\ lines = SentLines(driver', file') /\ driver' = "xrv"
        BY <1>2, <3>2
      <4> QED
        BY <4>1 DEF XrvInv
    <3>4. step' = 2 * n + 7
      BY <1>2, <2>1
    <3>5. f \in File /\ lines = SentLines("xrv", f) /\ ~EndsInSection(f)
      BY <1>2, <3>2
    <3>6. section' = 0
      BY <1>1, <1>11, <3>2, <3>3, <3>4, <3>5, XrvEndsPlain
    <3> QED
      BY <1>11, <3>1, <3>6 DEF Answered
  <2>2. CASE r # n + 3
    <3>1. XrvAnswers(lines, r) = {"config", "section"}
      BY <1>1, <1>4, <2>2 DEF XrvAnswers
    <3> QED
      BY <1>11, <3>1 DEF Answered
  <2> QED
    BY <2>1, <2>2
<1>12. Gone' \/ Answered(XrvMode(r + 1), XrvAnswers(lines, r))'
  BY <1>5, <1>10, <1>11
<1> QED
  BY <1>1, <1>2, <1>3, <1>12 DEF XrvAsking

\* The commit, and the answer to its question.
LEMMA XrvTakesCommit ==
  ASSUME TypedInv, XrvInv, Router \/ Drop, obliging', driver = "xrv", NEW lines, Len(lines) \in Nat,
         NEW whole, whole = Meaning(file, Sent(driver, file)), XrvCommitting(lines)
  PROVE  XrvCommitting(lines)' \/ XrvApplied(lines, whole)'
<1>1. PICK n : n = Len(lines)
  OBVIOUS
<1>2. n \in Nat /\ step = 2 * n + 9 /\ step' = 2 * n + 9
  BY <1>1, RouterFrame DEF place, XrvCommitting
<1>3. CASE Answered("confirm", {"confirm"}) \/ Gone
  <2>1. PICK m, tokens : m = "confirm" /\ tokens = {"confirm"}
    OBVIOUS
  <2>2. Answered(m, tokens)' \/ Gone'
    <3>1. m # "connect"
      BY <2>1
    <3>2. Answered(m, tokens) \/ Gone
      BY <1>3, <2>1
    <3> QED
      BY <3>1, <3>2, StaysQuiet
  <2>3. Answered("confirm", {"confirm"})' \/ Gone'
    BY <2>1, <2>2
  <2> QED
    BY <1>1, <1>2, <2>3 DEF XrvCommitting
<1>4. PICK t : t = Say("commit").text
  OBVIOUS
<1>5. CASE Typing("config", t)
  <2>1. typed = <<t>> /\ heard = << >> /\ mode = "config" /\ t.word = "commit"
    BY <1>4, <1>5 DEF Typing, Say
  <2>2. After("commit") = "confirm"
    BY <2>1 DEF After
  <2>3. \/ Gone'
        \/ typed' = << >> /\ heard' = Prompt(mode', section') /\ mode' = "confirm"
    BY <2>1, <2>2, CommandTurn
  <2>4. PICK inside : inside = section'
    OBVIOUS
  <2>5. Prompt("confirm", inside) = <<"confirm">>
    BY PromptIs
  <2>6. Gone' \/ Answered("confirm", {"confirm"})'
    BY <2>3, <2>4, <2>5 DEF Answered
  <2> QED
    BY <1>1, <1>2, <2>6 DEF XrvCommitting
<1>6. PICK y : y = Say("yes").text
  OBVIOUS
<1>7. CASE Typing("confirm", y)
  <2>1. typed = <<y>> /\ heard = << >> /\ mode = "confirm" /\ y.word = "yes"
    BY <1>6, <1>7 DEF Typing, Say
  <2>2. Gone' \/ running' = candidate
    BY <2>1, CommandTurn
  <2>3. candidate = whole
    BY <2>1, XrvConfirmsWhole
  <2>4. CASE Gone'
    BY <1>1, <1>2, <2>4 DEF XrvCommitting
  <2>5. CASE running' = whole
    <3>1. step' >= 2 * n + 9
      BY <1>2
    <3> QED
      BY <1>1, <2>5, <3>1 DEF XrvApplied
  <2> QED
    BY <2>2, <2>3, <2>4, <2>5
<1> QED
  BY <1>1, <1>3, <1>4, <1>5, <1>6, <1>7 DEF XrvCommitting

\* Nothing logs in again.
LEMMA XrvRouterStaysLost ==
  ASSUME TypedInv, Router \/ Drop, driver = "xrv", NEW lines, XrvLost(lines)
  PROVE  XrvLost(lines)'
<1>1. PICK n : n = Len(lines)
  OBVIOUS
<1>2. /\ step' \in 5 .. 2 * n + 9 /\ mode \in {"username", "password", "closed"}
      /\ \A k \in DOMAIN heard : heard[k] \in {"username", "password"}
      /\ \A k \in DOMAIN typed : typed[k].word # "password"
  BY <1>1, RouterFrame DEF place, XrvLost
<1>3. CASE Drop
  BY <1>1, <1>2, <1>3 DEF Drop, XrvLost
<1>4. CASE Login
  <2>1. typed \in Seq(Texts(file)) /\ typed # << >> /\ heard \in Seq(Token)
    BY <1>4 DEF TypedInv, TypeOK, Login, Asked
  <2>2. 1 \in DOMAIN typed /\ Head(typed) = typed[1]
    BY <2>1
  <2>3. ~Asked({"password"})
    BY <1>2, <2>2 DEF Asked
  <2>4. mode' \in {"username", "password", "closed"} /\ Tell(Prompt(mode', 0))
    BY <1>4, <2>3 DEF Login
  <2>5. /\ Prompt("password", 0) = <<"password">> /\ Prompt("closed", 0) = << >>
        /\ Prompt("username", 0) = <<"username">>
    BY PromptIs
  <2>6. PICK said : said = Prompt(mode', 0)
    OBVIOUS
  <2>7. said \in {<< >>, <<"password">>, <<"username">>}
    BY <2>4, <2>5, <2>6
  <2>8. typed' = Tail(typed) /\ heard' = heard \o said
    BY <2>4, <2>6 DEF Tell
  <2>9. \A k \in DOMAIN typed' : typed'[k].word # "password"
    <3>1. \A k \in DOMAIN Tail(typed) : k + 1 \in DOMAIN typed /\ Tail(typed)[k] = typed[k + 1]
      BY <2>1
    <3> QED
      BY <1>2, <2>8, <3>1
  <2>10. \A k \in DOMAIN heard' : heard'[k] \in {"username", "password"}
    <3>1. CASE said = << >>
      <4>1. heard \o << >> = heard
        BY <2>1
      <4> QED
        BY <1>2, <2>8, <3>1, <4>1
    <3>2. ASSUME NEW x \in {"username", "password"}, said = <<x>>
          PROVE  \A k \in DOMAIN heard' : heard'[k] \in {"username", "password"}
      <4>1. PICK m : m = Len(heard)
        OBVIOUS
      <4>2. m \in Nat /\ DOMAIN heard = 1 .. m
        BY <2>1, <4>1
      <4>3. heard' = Append(heard, x)
        BY <2>1, <2>8, <3>2
      <4>4. /\ DOMAIN heard' = 1 .. m + 1 /\ heard'[m + 1] = x
            /\ \A k \in 1 .. m : heard'[k] = heard[k]
        BY <2>1, <4>1, <4>3
      <4>5. \A k \in 1 .. m + 1 : k \in 1 .. m \/ k = m + 1
        BY <4>2
      <4> QED
        BY <1>2, <4>2, <4>4, <4>5
    <3> QED
      BY <2>7, <3>1, <3>2
  <2> QED
    BY <1>1, <1>2, <2>4, <2>9, <2>10 DEF XrvLost
<1> QED
  BY <1>2, <1>3, <1>4 DEF Router, Greet, TakeLine, Command, Serve

\* What the router and the network do on an xRV.
LEMMA XrvRouterLock ==
  ASSUME TypedInv, XrvInv, XrvInv', Router \/ Drop, obliging', driver = "xrv",
         NEW lines, lines = SentLines(driver, file),
         NEW whole, whole = Meaning(file, Sent(driver, file)),
         "hash" \notin Range(file), ~EndsInSection(file), XrvLock(lines, whole)
  PROVE  XrvLock(lines, whole)'
<1>1. PICK n : n = Len(lines)
  OBVIOUS
<1>2. n \in Nat /\ step' = step /\ step \in Nat
  BY <1>1, XrvWorks, RouterFrame DEF place
<1>3. CASE XrvOpening
  BY <1>3, XrvGreets DEF XrvLock
<1>4. CASE XrvSending(lines)
  <2>1. PICK r \in 1 .. n + 4 : step = 2 * r /\ Quiet(XrvMode(r))
    BY <1>1, <1>4 DEF XrvSending
  <2>2. XrvMode(r) # "connect"
    BY DEF XrvMode
  <2>3. Quiet(XrvMode(r))'
    BY <2>1, <2>2, StaysQuiet
  <2>4. XrvSending(lines)'
    BY <1>1, <1>2, <2>1, <2>3 DEF XrvSending
  <2> QED
    BY <2>4 DEF XrvLock
<1>5. CASE XrvAsking(lines)
  <2>1. PICK r \in 1 .. n + 3 :
          /\ step = 2 * r + 1
          /\ \/ Typing(XrvMode(r), XrvText(lines, r))
             \/ Answered(XrvMode(r + 1), XrvAnswers(lines, r))
             \/ Gone
    BY <1>1, <1>5 DEF XrvAsking
  <2>2. CASE Answered(XrvMode(r + 1), XrvAnswers(lines, r)) \/ Gone
    <3>1. XrvMode(r + 1) # "connect"
      BY DEF XrvMode
    <3>2. Answered(XrvMode(r + 1), XrvAnswers(lines, r))' \/ Gone'
      BY <2>2, <3>1, StaysQuiet
    <3>3. XrvAsking(lines)'
      BY <1>1, <1>2, <2>1, <3>2 DEF XrvAsking
    <3> QED
      BY <3>3 DEF XrvLock
  <2>3. CASE Typing(XrvMode(r), XrvText(lines, r))
    <3>1. r \in {1, 2} \/ r = 3 \/ r \in 4 .. n + 3
      BY <1>2
    <3>2. CASE r \in {1, 2}
      <4>1. XrvAsking(lines)' \/ XrvLost(lines)'
        BY <1>1, <1>2, <2>1, <2>3, <3>2, XrvAnswersLogin
      <4> QED
        BY <4>1 DEF XrvLock
    <3>3. CASE r = 3
      <4>1. XrvAsking(lines)'
        <5>1. step = 7
          BY <2>1, <3>3
        <5> QED
          BY <1>1, <1>2, <2>3, <3>3, <5>1, XrvAnswersConfigure
      <4> QED
        BY <4>1 DEF XrvLock
    <3>4. CASE r \in 4 .. n + 3
      <4>1. XrvAsking(lines)'
        BY <1>1, <2>1, <2>3, <3>4, XrvAnswersLine
      <4> QED
        BY <4>1 DEF XrvLock
    <3> QED
      BY <3>1, <3>2, <3>3, <3>4
  <2> QED
    BY <2>1, <2>2, <2>3
<1>6. CASE XrvCommitting(lines)
  <2>1. XrvCommitting(lines)' \/ XrvApplied(lines, whole)'
    BY <1>1, <1>2, <1>6, XrvTakesCommit
  <2> QED
    BY <2>1 DEF XrvLock
<1>7. CASE XrvApplied(lines, whole)
  <2>1. running' = whole
    <3>1. running = whole
      BY <1>7 DEF XrvApplied
    <3>2. CASE Drop
      BY <3>1, <3>2 DEF Drop
    <3>3. CASE Router
      <4>1. mode # "closed"
        BY <3>3 DEF Router, Greet, Login, TakeLine, Command, Serve
      <4>2. PICK f, kept : f = file /\ kept = Sent(driver, file)
        OBVIOUS
      <4>3. PICK c \in 0 .. n + 4 : XrvQueue(lines, c) /\ XrvStage(f, kept, lines, c)
        BY <1>1, <4>1, <4>2 DEF XrvInv, XrvAlong
      <4>4. running' \in {running, Meaning(f, kept)}
        BY <1>1, <3>3, <4>1, <4>2, <4>3, XrvRouter
      <4> QED
        BY <3>1, <4>2, <4>4
    <3> QED
      BY <3>2, <3>3
  <2> QED
    BY <1>2, <1>7, <2>1 DEF XrvApplied, XrvLock
<1>8. CASE XrvLost(lines)
  BY <1>8, XrvRouterStaysLost DEF XrvLock
<1> QED
  BY <1>3, <1>4, <1>5, <1>6, <1>7, <1>8 DEF XrvLock

\* Every step keeps an xRV in step.
LEMMA XrvKept == TypedInv /\ XrvInv /\ XrvInv' /\ XrvStep /\ [Next]_vars => XrvStep'
<1> SUFFICES ASSUME TypedInv, XrvInv, XrvInv', XrvStep, [Next]_vars PROVE XrvStep'
  OBVIOUS
<1>1. PICK lines, whole : lines = SentLines(driver, file) /\ whole = Meaning(file, Sent(driver, file))
  OBVIOUS
<1>2. /\ UNCHANGED job /\ (obliging' => obliging) /\ (connected' => connected)
      /\ (result' # "error" => result # "error")
  BY WhichStep, RouterFrame DEF Next, vars, place
<1>3. driver' = driver /\ file' = file
  BY <1>2 DEF job
<1>4. SUFFICES ASSUME XrvPremise' PROVE XrvLock(lines, whole)'
  BY <1>1, <1>3 DEF XrvStep
<1>5. /\ driver = "xrv" /\ obliging' /\ connected' /\ result' # "error"
      /\ "hash" \notin Range(file) /\ ~EndsInSection(file)
  BY <1>3, <1>4 DEF XrvPremise
<1>6. XrvLock(lines, whole)
  BY <1>1, <1>2, <1>5 DEF XrvStep, XrvPremise
<1>7. CASE Interpreter
  BY <1>1, <1>5, <1>6, <1>7, XrvInterpreterLock
<1>8. CASE Router \/ Drop
  BY <1>1, <1>5, <1>6, <1>8, XrvRouterLock
<1>9. CASE UNCHANGED vars
  BY <1>6, <1>9 DEF vars, place, router, XrvLock, XrvOpening, XrvSending, XrvAsking, XrvCommitting,
       XrvApplied, XrvLost, Quiet, Typing, Answered, Gone
<1> QED
  BY <1>7, <1>8, <1>9 DEF Next

\* It begins in step.
LEMMA XrvStepInit == Init => XrvStep
<1> SUFFICES ASSUME Init, driver = "xrv" PROVE XrvOpening
  BY DEF XrvStep, XrvPremise, XrvLock
<1> QED
  BY DEF Init, XrvOpening, Shelled

-----------------------------------------------------------------------------
(* A CSR, in step.                                                         *)

\* What is sent in step 2r, from the second password on.
CsrText(lines, r) ==
  IF r = 2 THEN Say("password").text
  ELSE IF r = 3 THEN Say("terminal").text
  ELSE IF r = 4 THEN Say("configure").text
  ELSE IF r = Len(lines) + 5 THEN Say("end").text
  ELSE IF r = Len(lines) + 6 THEN Say("write").text
  ELSE IF r = Len(lines) + 7 THEN Say("exit").text
  ELSE Enter(lines[r - 4]).text
CsrMode(lines, r) ==
  CASE r = 2              -> "enable"
    [] r \in {3, 4}       -> "exec"
    [] r > Len(lines) + 5 -> "exec"
    [] OTHER              -> "config"
CsrAnswers(lines, r) ==
  CASE r = 4                        -> {"config"}
    [] r > 4 /\ r <= Len(lines) + 4 -> {"config", "section"}
    [] OTHER                        -> {"prompt"}
\* What the router has when it waits for the r-th text.
CsrHolds(f, kept, lines, r) ==
  /\ r <= 4 => running = {}
  /\ r > 4 /\ r <= Len(lines) + 5 =>
       /\ running = Part(f, kept, LineAt(lines, r - 5))
       /\ section = Inside(f, kept, LineAt(lines, r - 5))
  /\ r > Len(lines) + 5 => running = Meaning(f, kept)
  /\ r > Len(lines) + 6 => saved = Meaning(f, kept)

CsrOpening ==
  /\ running = {}
  /\ \/ step = 1 /\ mode = "connect" /\ typed = << >> /\ heard = << >>
     \/ step = 1 /\ Answered("password", {"password"})
     \/ step = 1 /\ mode = "closed" /\ typed = << >> /\ heard = <<"refused">>
     \/ step = 2 /\ Typing("password", Say("password").text)
     \/ step = 2 /\ (Answered("exec", {"prompt"}) \/ Answered("user", {"user"}))
     \/ step = 3 /\ (Typing("user", Say("enable").text) \/ Answered("enable", {"password"}))
     \/ step \in 1 .. 3 /\ Gone
CsrSending(f, kept, lines) ==
  \E r \in 2 .. Len(lines) + 7 :
    step = 2 * r /\ Quiet(CsrMode(lines, r)) /\ CsrHolds(f, kept, lines, r)
CsrAsking(f, kept, lines) ==
  \E r \in 2 .. Len(lines) + 6 :
    /\ step = 2 * r + 1
    /\ \/ Typing(CsrMode(lines, r), CsrText(lines, r)) /\ CsrHolds(f, kept, lines, r)
       \/ /\ Answered(CsrMode(lines, r + 1), CsrAnswers(lines, r))
          /\ CsrHolds(f, kept, lines, r + 1)
       \/ Gone
CsrSaved(f, kept, lines) ==
  /\ step > 2 * Len(lines) + 14 /\ running = Meaning(f, kept) /\ saved = running
  /\ mode \in {"exec", "closed"} /\ typed \in {<< >>, <<Say("exit").text>>}
\* A refused password is asked for again and never sent: with the third other
\* text the router closes the connection, before any line could be answered.
CsrWrong(p) == IF p <= 8 THEN 1 ELSE IF p <= 10 THEN 2 ELSE 3
CsrLost ==
  /\ step \in {2} \cup 5 .. 11
  /\ \A k \in DOMAIN heard : heard[k] = "password"
  /\ \A k \in DOMAIN typed : typed[k].word # "password"
  /\ \/ mode = "closed"
     \/ mode \in {"password", "enable"} /\ tries + Len(typed) >= CsrWrong(step)

CsrPremise ==
  driver = "csr" /\ obliging /\ connected /\ result # "error" /\ "hash" \notin Range(file)
CsrLock(f, kept, lines) ==
  \/ CsrOpening \/ CsrSending(f, kept, lines) \/ CsrAsking(f, kept, lines)
  \/ CsrSaved(f, kept, lines) \/ CsrLost
CsrStep == CsrPremise => CsrLock(file, Sent(driver, file), SentLines(driver, file))

\* What stands at a place of the script.
LEMMA CsrSteps ==
  ASSUME NEW f, NEW lines \in Seq(DOMAIN f \cap Line)
  PROVE  LET s == CsrScript(lines)
             n == Len(lines)
         IN  /\ n \in Nat /\ Len(s) = 2 * n + 15
             /\ s[1] = Expect(<<On({"password"}, "password", 1)>>, Exit1)
             /\ s[2] = Expect(<<On(Hash, "terminal", 5), On({"user"}, "enable", 1)>>, 5)
             /\ s[3] = Await({"password"}) /\ s[5] = Await(Hash) /\ s[7] = Await(Hash)
             /\ s[9] = Await({"config"})
             /\ \A r \in 5 .. n + 6 : s[2 * r + 1] = Await(Hash)
             /\ \A r \in 2 .. n + 7 : s[2 * r] = [do |-> "send", text |-> CsrText(lines, r)]
             /\ s[2 * n + 15] = Eof
<1> DEFINE s == CsrScript(lines)
           n == Len(lines)
<1>1. /\ Len(s) = 2 * n + 15
      /\ \A i \in 1 .. 9 : s[i] = CsrLogin[i]
      /\ \A k \in 1 .. n : s[2 * k + 8] = Enter(lines[k]) /\ s[2 * k + 9] = Await(Hash)
      /\ \A i \in 1 .. 6 : s[2 * n + 9 + i] = CsrEnd[i]
  BY CsrAt
<1>2. n \in Nat
  OBVIOUS
<1>3. /\ CsrLogin[1] = Expect(<<On({"password"}, "password", 1)>>, Exit1)
      /\ CsrLogin[2] = Expect(<<On(Hash, "terminal", 5), On({"user"}, "enable", 1)>>, 5)
      /\ CsrLogin[3] = Await({"password"}) /\ CsrLogin[4] = Say("password")
      /\ CsrLogin[5] = Await(Hash) /\ CsrLogin[6] = Say("terminal")
      /\ CsrLogin[7] = Await(Hash) /\ CsrLogin[8] = Say("configure")
      /\ CsrLogin[9] = Await({"config"})
  BY DEF CsrLogin
<1>4. /\ CsrEnd[1] = Say("end") /\ CsrEnd[2] = Await(Hash) /\ CsrEnd[3] = Say("write")
      /\ CsrEnd[4] = Await(Hash) /\ CsrEnd[5] = Say("exit") /\ CsrEnd[6] = Eof
  BY DEF CsrEnd
<1> HIDE DEF s, n
<1>5. \A i \in 1 .. 6 : s[2 * n + 9 + i] = CsrEnd[i]
  BY <1>1
<1>6. /\ s[2 * n + 9 + 1] = Say("end") /\ s[2 * n + 9 + 2] = Await(Hash)
      /\ s[2 * n + 9 + 3] = Say("write") /\ s[2 * n + 9 + 4] = Await(Hash)
      /\ s[2 * n + 9 + 5] = Say("exit") /\ s[2 * n + 9 + 6] = Eof
  BY <1>4, <1>5
<1>7. \A r \in 5 .. n + 6 : s[2 * r + 1] = Await(Hash)
  <2> SUFFICES ASSUME NEW r \in 5 .. n + 6 PROVE s[2 * r + 1] = Await(Hash)
    OBVIOUS
  <2>1. CASE r = n + 5
    <3>1. 2 * r + 1 = 2 * n + 9 + 2
      BY <1>2, <2>1
    <3> QED
      BY <1>6, <3>1
  <2>2. CASE r = n + 6
    <3>1. 2 * r + 1 = 2 * n + 9 + 4
      BY <1>2, <2>2
    <3> QED
      BY <1>6, <3>1
  <2>3. CASE r # n + 5 /\ r # n + 6
    <3>1. r - 4 \in 1 .. n /\ 2 * (r - 4) + 9 = 2 * r + 1
      BY <1>2, <2>3
    <3> QED
      BY <1>1, <3>1
  <2> QED
    BY <2>1, <2>2, <2>3
<1>8. \A w : Say(w) = [do |-> "send", text |-> Say(w).text]
  BY DEF Say
<1>9. \A i : Enter(i) = [do |-> "send", text |-> Enter(i).text]
  BY DEF Enter
<1>10. \A r \in 2 .. n + 7 : s[2 * r] = [do |-> "send", text |-> CsrText(lines, r)]
  <2> SUFFICES ASSUME NEW r \in 2 .. n + 7
               PROVE  s[2 * r] = [do |-> "send", text |-> CsrText(lines, r)]
    OBVIOUS
  <2>1. CASE r = 2
    BY <1>1, <1>3, <1>8, <2>1 DEF CsrText
  <2>2. CASE r = 3
    BY <1>1, <1>3, <1>8, <2>2 DEF CsrText
  <2>3. CASE r = 4
    BY <1>1, <1>3, <1>8, <2>3 DEF CsrText
  <2>4. CASE r = n + 5
    <3>1. 2 * r = 2 * n + 9 + 1 /\ r \notin {2, 3, 4}
      BY <1>2, <2>4
    <3>2. CsrText(lines, r) = Say("end").text
      BY <2>4, <3>1 DEF CsrText, n
    <3> QED
      BY <1>6, <1>8, <3>1, <3>2
  <2>5. CASE r = n + 6
    <3>1. 2 * r = 2 * n + 9 + 3 /\ r \notin {2, 3, 4, n + 5}
      BY <1>2, <2>5
    <3>2. CsrText(lines, r) = Say("write").text
      BY <2>5, <3>1 DEF CsrText, n
    <3> QED
      BY <1>6, <1>8, <3>1, <3>2
  <2>6. CASE r = n + 7
    <3>1. 2 * r = 2 * n + 9 + 5 /\ r \notin {2, 3, 4, n + 5, n + 6}
      BY <1>2, <2>6
    <3>2. CsrText(lines, r) = Say("exit").text
      BY <2>6, <3>1 DEF CsrText, n
    <3> QED
      BY <1>6, <1>8, <3>1, <3>2
  <2>7. CASE r \notin {2, 3, 4, n + 5, n + 6, n + 7}
    <3>1. r - 4 \in 1 .. n /\ 2 * (r - 4) + 8 = 2 * r
      BY <1>2, <2>7
    <3>2. s[2 * r] = Enter(lines[r - 4])
      BY <1>1, <3>1
    <3>3. CsrText(lines, r) = Enter(lines[r - 4]).text
      BY <2>7 DEF CsrText, n
    <3> QED
      BY <1>9, <3>2, <3>3
  <2> QED
    BY <2>1, <2>2, <2>3, <2>4, <2>5, <2>6, <2>7
<1>11. 2 * n + 9 + 6 = 2 * n + 15
  BY <1>2
<1>12. /\ s[1] = CsrLogin[1] /\ s[2] = CsrLogin[2] /\ s[3] = CsrLogin[3] /\ s[5] = CsrLogin[5]
       /\ s[7] = CsrLogin[7] /\ s[9] = CsrLogin[9]
  BY <1>1
<1>13. s[2 * n + 15] = Eof
  BY <1>6, <1>11
<1> QED
  BY <1>1, <1>2, <1>3, <1>7, <1>10, <1>12, <1>13 DEF s, n

\* Where a step of a CSR waits, it waits for every answer there may be.
LEMMA CsrAwaits ==
  ASSUME NEW f, NEW lines \in Seq(DOMAIN f \cap Line), NEW r \in 2 .. Len(lines) + 6
  PROVE  \E pattern : /\ CsrScript(lines)[2 * r + 1] = Await(pattern)
                      /\ CsrAnswers(lines, r) \subseteq pattern
                      /\ "password" \notin pattern
<1>1. PICK n : n = Len(lines)
  OBVIOUS
<1>2. PICK s : s = CsrScript(lines)
  OBVIOUS
<1>3. /\ n \in Nat /\ s[5] = Await(Hash) /\ s[7] = Await(Hash) /\ s[9] = Await({"config"})
      /\ \A q \in 5 .. n + 6 : s[2 * q + 1] = Await(Hash)
  BY <1>1, <1>2, CsrSteps
<1>4. n \in Nat
  BY <1>3
<1>5. "password" \notin Hash /\ {"prompt"} \subseteq Hash /\ {"config", "section"} \subseteq Hash
  BY DEF Hash
<1>6. CASE r = 4
  <2>1. s[2 * r + 1] = Await({"config"}) /\ CsrAnswers(lines, r) = {"config"}
    BY <1>3, <1>6 DEF CsrAnswers
  <2> QED
    BY <1>2, <2>1
<1>7. CASE r # 4
  <2>1. r = 2 \/ r = 3 \/ r \in 5 .. n + 6
    BY <1>1, <1>4, <1>7
  <2>2. s[2 * r + 1] = Await(Hash)
    BY <1>3, <2>1
  <2>3. CsrAnswers(lines, r) \subseteq Hash
    BY <1>5, <1>7 DEF CsrAnswers
  <2> QED
    BY <1>2, <1>5, <2>2, <2>3
<1> QED
  BY <1>6, <1>7

\* An interpreter at work on a CSR, on a session the premise is about.
LEMMA CsrWorks ==
  ASSUME TypedInv, driver = "csr", NEW lines, lines = SentLines(driver, file)
  PROVE  LET s == CsrScript(lines)
             n == Len(lines)
         IN  /\ lines \in Seq(DOMAIN file \cap Line) /\ n \in Nat
             /\ script = s /\ Len(script) = 2 * n + 15 /\ step \in Nat \ {0}
             /\ s[1] = Expect(<<On({"password"}, "password", 1)>>, Exit1)
             /\ s[2] = Expect(<<On(Hash, "terminal", 5), On({"user"}, "enable", 1)>>, 5)
             /\ s[3] = Await({"password"})
             /\ \A r \in 2 .. n + 7 : s[2 * r] = [do |-> "send", text |-> CsrText(lines, r)]
             /\ s[2 * n + 15] = Eof
<1>1. /\ file \in File /\ script = Script(driver, file) /\ step \in Nat \ {0}
  BY DEF TypedInv, TypeOK
<1>2. lines \in Seq(DOMAIN file \cap Line)
  BY <1>1, SentFacts
<1>3. script = CsrScript(lines)
  BY <1>1 DEF Script
<1> QED
  BY <1>1, <1>2, <1>3, CsrSteps

\* What is asked for is typed: the password, or nothing in time.
LEMMA CsrFirst ==
  ASSUME TypedInv, Interpreter, driver = "csr", NEW lines, lines = SentLines(driver, file),
         obliging', connected', result' # "error", step = 1,
         heard # <<"password">> => heard \in {<< >>, <<"refused">>}
  PROVE  /\ heard = <<"password">> /\ heard' = << >> /\ step' = 2
         /\ typed' = Typed(Say("password").text) /\ UNCHANGED router
<1>1. script[1] = Expect(<<On({"password"}, "password", 1)>>, Exit1) /\ Len(script) = 2 * Len(lines) + 15
  BY CsrWorks
<1>2. step <= Len(script)
  <2>1. Len(lines) \in Nat
    BY CsrWorks
  <2>2. 1 <= 2 * Len(lines) + 15
    BY <2>1
  <2> QED
    BY <1>1, <2>2
<1>3. PICK on : on = Current.on
  OBVIOUS
<1>4. /\ Current.do = "expect" /\ Current.late = Exit1 /\ DOMAIN on = {1}
      /\ on[1].pattern = {"password"} /\ on[1].reply = "password" /\ on[1].go = 1
  <2>1. PICK x : x = On({"password"}, "password", 1)
    OBVIOUS
  <2>2. x.pattern = {"password"} /\ x.reply = "password" /\ x.go = 1
    BY <2>1 DEF On
  <2>3. PICK at : at = Current
    OBVIOUS
  <2>4. at = Expect(<<x>>, Exit1)
    BY <1>1, <2>1, <2>3 DEF Current
  <2>5. at.do = "expect" /\ at.late = Exit1 /\ at.on = <<x>>
    BY <2>4 DEF Expect
  <2>6. DOMAIN <<x>> = {1} /\ <<x>>[1] = x
    OBVIOUS
  <2> QED
    BY <1>3, <2>2, <2>3, <2>5, <2>6
<1>5. ~ Go(Exit1)
  BY DEF Go
<1>6. heard = <<"password">>
  <2> SUFFICES ASSUME heard \in {<< >>, <<"refused">>} PROVE FALSE
    OBVIOUS
  <2>1. \A k \in DOMAIN heard : heard[k] # "password"
    OBVIOUS
  <2>2. \A k \in DOMAIN heard : \A b \in DOMAIN Current.on : heard[k] \notin Current.on[b].pattern
    BY <1>3, <1>4, <2>1
  <2> QED
    BY <1>2, <1>4, <1>5, <2>2, HearsNothing
<1>7. \A c \in {1} : ~ (c < 1)
  OBVIOUS
<1>8. /\ 1 \in DOMAIN Current.on /\ "password" \in Current.on[1].pattern
      /\ \A c \in DOMAIN Current.on : c < 1 => "password" \notin Current.on[c].pattern
  BY <1>3, <1>4, <1>7
<1>9. /\ heard' = << >> /\ Go(Current.on[1].go)
      /\ typed' = IF Current.on[1].reply = "" THEN typed
                  ELSE Typed([word |-> Current.on[1].reply, line |-> 0])
      /\ UNCHANGED <<job, router, connected, obliging>>
  BY <1>2, <1>4, <1>6, <1>8, HearsOne
<1>10. Say("password").text = [word |-> "password", line |-> 0]
  BY DEF Say
<1>11. Go(1) /\ typed' = Typed(Say("password").text)
  BY <1>3, <1>4, <1>9, <1>10
<1>12. step' = 2
  BY <1>11 DEF Go, Exit1
<1> QED
  BY <1>6, <1>9, <1>11, <1>12

\* A router that lets in is sent on, with or without privileges.
LEMMA CsrSecond ==
  ASSUME TypedInv, Interpreter, driver = "csr", NEW lines, lines = SentLines(driver, file),
         obliging', connected', result' # "error", step = 2
  PROVE  /\ heard = <<"prompt">> =>
              /\ heard' = << >> /\ step' = 7 /\ typed' = Typed(Say("terminal").text)
              /\ UNCHANGED router
         /\ heard = <<"user">> =>
              /\ heard' = << >> /\ step' = 3 /\ typed' = Typed(Say("enable").text)
              /\ UNCHANGED router
         /\ (\A k \in DOMAIN heard : heard[k] = "password") =>
              /\ mode \notin {"closed", "connect"} /\ typed = << >>
              /\ typed' = typed /\ heard' = heard /\ step' = 7
<1>1. /\ script[2] = Expect(<<On(Hash, "terminal", 5), On({"user"}, "enable", 1)>>, 5)
      /\ Len(script) = 2 * Len(lines) + 15
  BY CsrWorks
<1>2. step <= Len(script)
  <2>1. Len(lines) \in Nat
    BY CsrWorks
  <2>2. 2 <= 2 * Len(lines) + 15
    BY <2>1
  <2> QED
    BY <1>1, <2>2
<1>3. PICK on : on = Current.on
  OBVIOUS
<1>4. /\ Current.do = "expect" /\ Current.late = 5 /\ DOMAIN on = {1, 2}
      /\ on[1].pattern = Hash /\ on[1].reply = "terminal" /\ on[1].go = 5
      /\ on[2].pattern = {"user"} /\ on[2].reply = "enable" /\ on[2].go = 1
  <2>1. PICK x, y : x = On(Hash, "terminal", 5) /\ y = On({"user"}, "enable", 1)
    OBVIOUS
  <2>2. /\ x.pattern = Hash /\ x.reply = "terminal" /\ x.go = 5
        /\ y.pattern = {"user"} /\ y.reply = "enable" /\ y.go = 1
    BY <2>1 DEF On
  <2>3. PICK at : at = Current
    OBVIOUS
  <2>4. at = Expect(<<x, y>>, 5)
    BY <1>1, <2>1, <2>3 DEF Current
  <2>5. /\ at.do = "expect" /\ at.late = 5 /\ DOMAIN at.on = {1, 2}
        /\ at.on[1] = x /\ at.on[2] = y
    BY <2>4, ExpectIs
  <2> QED
    BY <1>3, <2>2, <2>3, <2>5
<1>5. \A c \in {1, 2} : ~ (c < 1) /\ (c < 2 => c = 1)
  OBVIOUS
<1>6. /\ Say("terminal").text = [word |-> "terminal", line |-> 0]
      /\ Say("enable").text = [word |-> "enable", line |-> 0]
  BY DEF Say
<1>7. ASSUME heard = <<"prompt">>
      PROVE  heard' = << >> /\ step' = 7 /\ typed' = Typed(Say("terminal").text) /\ UNCHANGED router
  <2>1. "prompt" \in Hash
    BY DEF Hash
  <2>2. /\ 1 \in DOMAIN Current.on /\ "prompt" \in Current.on[1].pattern
        /\ \A c \in DOMAIN Current.on : c < 1 => "prompt" \notin Current.on[c].pattern
    BY <1>3, <1>4, <1>5, <2>1
  <2>3. /\ heard' = << >> /\ Go(Current.on[1].go)
        /\ typed' = IF Current.on[1].reply = "" THEN typed
                    ELSE Typed([word |-> Current.on[1].reply, line |-> 0])
        /\ UNCHANGED <<job, router, connected, obliging>>
    BY <1>2, <1>4, <1>7, <2>2, HearsOne
  <2>4. Go(5) /\ typed' = Typed(Say("terminal").text)
    BY <1>3, <1>4, <1>6, <2>3
  <2>5. step' = 7
    BY <2>4 DEF Go, Exit1
  <2> QED
    BY <2>3, <2>4, <2>5
<1>8. ASSUME heard = <<"user">>
      PROVE  heard' = << >> /\ step' = 3 /\ typed' = Typed(Say("enable").text) /\ UNCHANGED router
  <2>1. "user" \notin Hash
    BY DEF Hash
  <2>2. /\ 2 \in DOMAIN Current.on /\ "user" \in Current.on[2].pattern
        /\ \A c \in DOMAIN Current.on : c < 2 => "user" \notin Current.on[c].pattern
    BY <1>3, <1>4, <1>5, <2>1
  <2>3. /\ heard' = << >> /\ Go(Current.on[2].go)
        /\ typed' = IF Current.on[2].reply = "" THEN typed
                    ELSE Typed([word |-> Current.on[2].reply, line |-> 0])
        /\ UNCHANGED <<job, router, connected, obliging>>
    BY <1>2, <1>4, <1>8, <2>2, HearsOne
  <2>4. Go(1) /\ typed' = Typed(Say("enable").text)
    BY <1>3, <1>4, <1>6, <2>3
  <2>5. step' = 3
    BY <2>4 DEF Go, Exit1
  <2> QED
    BY <2>3, <2>4, <2>5
<1>9. ASSUME \A k \in DOMAIN heard : heard[k] = "password"
      PROVE  /\ mode \notin {"closed", "connect"} /\ typed = << >>
             /\ typed' = typed /\ heard' = heard /\ step' = 7
  <2>1. "password" \notin Hash \cup {"user"}
    BY DEF Hash
  <2>2. \A k \in DOMAIN heard : \A b \in DOMAIN on : heard[k] \notin on[b].pattern
    BY <1>4, <1>9, <2>1
  <2>3. \A k \in DOMAIN heard : \A b \in DOMAIN Current.on : heard[k] \notin Current.on[b].pattern
    BY <1>3, <2>2
  <2>4. /\ mode \notin {"closed", "connect"} /\ typed = << >>
        /\ typed' = typed /\ heard' = heard /\ Go(Current.late)
    BY <1>2, <1>4, <2>3, HearsNothing
  <2>5. Go(5)
    BY <1>4, <2>4
  <2>6. step' = 7
    BY <2>5 DEF Go, Exit1
  <2> QED
    BY <2>4, <2>6
<1> QED
  BY <1>7, <1>8, <1>9

\* What a text becomes that is typed where nothing else is on its way.
LEMMA TypedAlone ==
  ASSUME NEW m, NEW t, mode \in {m, "closed"}, mode' = mode, m # "closed",
         typed = << >>, typed' = Typed(t), heard' = << >>
  PROVE  Typing(m, t)' \/ Gone'
<1>1. Append(<< >>, t) = <<t>>
  OBVIOUS
<1> QED
  BY <1>1 DEF Typed, Typing, Gone

\* The login of a CSR, up to the password for its privileges.
LEMMA CsrOpens ==
  ASSUME TypedInv, Interpreter, driver = "csr", NEW lines, lines = SentLines(driver, file),
         NEW f, NEW kept, obliging', connected', result' # "error", CsrOpening
  PROVE  CsrOpening' \/ CsrSending(f, kept, lines)' \/ CsrAsking(f, kept, lines)'
<1>1. PICK n : n = Len(lines)
  OBVIOUS
<1>2. /\ n \in Nat /\ Len(script) = 2 * n + 15 /\ script[3] = Await({"password"})
  BY <1>1, CsrWorks
<1>3. n \in Nat
  BY <1>2
<1>4. UNCHANGED router /\ running = {}
  BY WhichStep DEF CsrOpening
<1>5. mode' = mode /\ running' = {}
  BY <1>4 DEF router
<1>6. CASE step = 1
  <2>1. /\ \/ mode = "connect" /\ heard = << >>
           \/ mode \in {"password", "closed"} /\ heard = <<"password">>
           \/ mode = "closed" /\ heard \in {<< >>, <<"refused">>}
        /\ typed = << >>
    BY <1>6 DEF CsrOpening, Answered, Gone
  <2>2. heard = <<"password">> /\ heard' = << >> /\ step' = 2 /\ typed' = Typed(Say("password").text)
    <3>1. heard # <<"password">> => heard \in {<< >>, <<"refused">>}
      BY <2>1
    <3> QED
      BY <1>6, <3>1, CsrFirst
  <2>3. mode \in {"password", "closed"}
    BY <2>1, <2>2
  <2>4. PICK m, t : m = "password" /\ t = Say("password").text
    OBVIOUS
  <2>5. Typing(m, t)' \/ Gone'
    <3>1. m # "closed" /\ mode \in {m, "closed"}
      BY <2>3, <2>4
    <3> QED
      BY <1>5, <2>1, <2>2, <2>4, <3>1, TypedAlone
  <2>6. Typing("password", Say("password").text)' \/ Gone'
    BY <2>4, <2>5
  <2> QED
    BY <1>5, <2>2, <2>6 DEF CsrOpening
<1>7. CASE step = 2
  <2>1. \/ heard = << >> /\ (typed # << >> \/ mode = "closed")
        \/ mode \in {"exec", "closed"} /\ typed = << >> /\ heard = <<"prompt">>
        \/ mode \in {"user", "closed"} /\ typed = << >> /\ heard = <<"user">>
    <3>1. ASSUME NEW m, NEW t, Typing(m, t) PROVE heard = << >> /\ typed # << >>
      BY <3>1 DEF Typing
    <3>2. /\ Answered("exec", {"prompt"}) =>
               mode \in {"exec", "closed"} /\ typed = << >> /\ heard = <<"prompt">>
          /\ Answered("user", {"user"}) =>
               mode \in {"user", "closed"} /\ typed = << >> /\ heard = <<"user">>
          /\ Gone => heard = << >> /\ mode = "closed"
      BY DEF Answered, Gone
    <3>3. \/ Typing("password", Say("password").text)
          \/ Answered("exec", {"prompt"}) \/ Answered("user", {"user"}) \/ Gone
      BY <1>7 DEF CsrOpening
    <3> QED
      BY <3>1, <3>2, <3>3
  <2>2. heard # << >>
    <3> SUFFICES ASSUME heard = << >> PROVE FALSE
      OBVIOUS
    <3>1. \A k \in DOMAIN heard : heard[k] = "password"
      OBVIOUS
    <3>2. mode # "closed" /\ typed = << >>
      BY <1>7, <3>1, CsrSecond
    <3>3. <<"prompt">> # << >> /\ <<"user">> # << >>
      OBVIOUS
    <3> QED
      BY <2>1, <3>2, <3>3
  <2>3. CASE mode \in {"exec", "closed"} /\ typed = << >> /\ heard = <<"prompt">>
    <3>1. heard' = << >> /\ step' = 7 /\ typed' = Typed(Say("terminal").text)
      BY <1>7, <2>3, CsrSecond
    <3>2. PICK m, t : m = CsrMode(lines, 3) /\ t = CsrText(lines, 3)
      OBVIOUS
    <3>3. m = "exec" /\ t = Say("terminal").text
      BY <3>2 DEF CsrMode, CsrText
    <3>4. Typing(m, t)' \/ Gone'
      BY <1>5, <2>3, <3>1, <3>3, TypedAlone
    <3>5. CsrHolds(f, kept, lines, 3)'
      <4>1. ~ (3 > n + 5) /\ ~ (3 > n + 6)
        BY <1>3
      <4> QED
        BY <1>1, <1>5, <4>1 DEF CsrHolds
    <3>6. 3 \in 2 .. n + 6 /\ step' = 2 * 3 + 1
      BY <1>3, <3>1
    <3>7. CsrAsking(f, kept, lines)'
      BY <1>1, <3>2, <3>4, <3>5, <3>6 DEF CsrAsking
    <3> QED
      BY <3>7
  <2>4. CASE mode \in {"user", "closed"} /\ typed = << >> /\ heard = <<"user">>
    <3>1. heard' = << >> /\ step' = 3 /\ typed' = Typed(Say("enable").text)
      BY <1>7, <2>4, CsrSecond
    <3>2. PICK m, t : m = "user" /\ t = Say("enable").text
      OBVIOUS
    <3>3. Typing(m, t)' \/ Gone'
      BY <1>5, <2>4, <3>1, <3>2, TypedAlone
    <3>4. Typing("user", Say("enable").text)' \/ Gone'
      BY <3>2, <3>3
    <3> QED
      BY <1>5, <3>1, <3>4 DEF CsrOpening
  <2> QED
    BY <2>1, <2>2, <2>3, <2>4
<1>8. CASE step = 3
  <2>1. PICK pattern : pattern = {"password"}
    OBVIOUS
  <2>2. Current = Await(pattern)
    BY <1>2, <1>8, <2>1 DEF Current
  <2>3. step <= Len(script)
    <3>1. 3 <= 2 * n + 15
      BY <1>3
    <3> QED
      BY <1>2, <1>8, <3>1
  <2>4. ASSUME heard = << >> PROVE mode # "closed" /\ typed = << >>
    <3>1. \A k \in DOMAIN heard : heard[k] \notin pattern
      BY <2>4
    <3> QED
      BY <2>2, <2>3, <3>1, AwaitedInVain
  <2>5. ASSUME NEW m, NEW t, Typing(m, t) PROVE FALSE
    <3>1. heard = << >> /\ typed = <<t>>
      BY <2>5 DEF Typing
    <3> QED
      BY <2>4, <3>1
  <2>6. ~Gone
    BY <2>4 DEF Gone
  <2>7. Answered("enable", {"password"})
    BY <1>8, <2>5, <2>6 DEF CsrOpening
  <2>8. PICK x \in pattern : heard = <<x>>
    BY <2>1, <2>7 DEF Answered
  <2>9. step' = step + 1 /\ typed' = typed /\ heard' = << >>
    BY <2>2, <2>3, <2>8, Awaited
  <2>10. mode \in {"enable", "closed"} /\ typed = << >>
    BY <2>7 DEF Answered
  <2>11. PICK m : m = CsrMode(lines, 2)
    OBVIOUS
  <2>12. m = "enable"
    BY <2>11 DEF CsrMode
  <2>13. Quiet(m)'
    BY <1>5, <2>9, <2>10, <2>12 DEF Quiet
  <2>14. CsrHolds(f, kept, lines, 2)'
    <3>1. ~ (2 > n + 5) /\ ~ (2 > n + 6)
      BY <1>3
    <3> QED
      BY <1>1, <1>5, <3>1 DEF CsrHolds
  <2>15. 2 \in 2 .. n + 7 /\ step' = 2 * 2
    BY <1>3, <1>8, <2>9
  <2>16. CsrSending(f, kept, lines)'
    BY <1>1, <2>11, <2>13, <2>14, <2>15 DEF CsrSending
  <2> QED
    BY <2>16
<1> QED
  BY <1>6, <1>7, <1>8 DEF CsrOpening

\* What the router has does not change with the step.
LEMMA CsrHoldsOn ==
  ASSUME NEW f, NEW kept, NEW lines, NEW r, CsrHolds(f, kept, lines, r),
         running' = running, saved' = saved, section' = section
  PROVE  CsrHolds(f, kept, lines, r)'
BY DEF CsrHolds

\* A text is sent, and is on its way.
LEMMA CsrSends ==
  ASSUME TypedInv, Interpreter, driver = "csr", NEW lines, lines = SentLines(driver, file),
         NEW f, NEW kept, connected', result' # "error", CsrSending(f, kept, lines)
  PROVE  CsrAsking(f, kept, lines)' \/ CsrSaved(f, kept, lines)'
<1>1. PICK n : n = Len(lines)
  OBVIOUS
<1>2. /\ n \in Nat /\ Len(script) = 2 * n + 15
      /\ \A r \in 2 .. n + 7 : script[2 * r] = [do |-> "send", text |-> CsrText(lines, r)]
  BY <1>1, CsrWorks
<1>3. n \in Nat
  BY <1>2
<1>4. PICK r \in 2 .. n + 7 :
        step = 2 * r /\ Quiet(CsrMode(lines, r)) /\ CsrHolds(f, kept, lines, r)
  BY <1>1 DEF CsrSending
<1>5. PICK t : t = CsrText(lines, r)
  OBVIOUS
<1>6. PICK m : m = CsrMode(lines, r)
  OBVIOUS
<1>7. m # "closed"
  BY <1>6 DEF CsrMode
<1>8. Current.do = "send" /\ Current.text = t
  <2>1. PICK at : at = Current
    OBVIOUS
  <2>2. at = [do |-> "send", text |-> t]
    BY <1>2, <1>4, <1>5, <2>1 DEF Current
  <2> QED
    BY <2>1, <2>2
<1>9. 2 * r \in Nat /\ 2 * r <= 2 * n + 15
  BY <1>3
<1>10. step <= Len(script) /\ connected /\ UNCHANGED router
  BY <1>2, <1>4, <1>9, WhichStep
<1>11. step' = step + 1 /\ (Typing(m, t)' \/ Gone')
  BY <1>4, <1>6, <1>7, <1>8, <1>10, Sends1
<1>12. step' = 2 * r + 1
  BY <1>4, <1>9, <1>11
<1>13. CsrHolds(f, kept, lines, r)'
  BY <1>4, <1>10, CsrHoldsOn DEF router
<1>14. CASE r <= n + 6
  <2>1. r \in 2 .. n + 6
    BY <1>3, <1>14
  <2> QED
    BY <1>1, <1>5, <1>6, <1>11, <1>12, <1>13, <2>1 DEF CsrAsking
<1>15. CASE ~ (r <= n + 6)
  <2>1. r = n + 7 /\ 2 * r + 1 > 2 * n + 14 /\ r > n + 5 /\ r > n + 6
    BY <1>3, <1>15
  <2>2. r \notin {2, 3, 4} /\ r # n + 5 /\ r # n + 6
    BY <1>3, <2>1
  <2>3. t = Say("exit").text
    BY <1>1, <1>5, <2>1, <2>2 DEF CsrText
  <2>4. m = "exec"
    BY <1>1, <1>6, <2>1, <2>2 DEF CsrMode
  <2>5. running' = Meaning(f, kept) /\ saved' = running'
    BY <1>1, <1>13, <2>1 DEF CsrHolds
  <2>6. mode' \in {"exec", "closed"} /\ typed' \in {<< >>, <<Say("exit").text>>}
    BY <1>11, <2>3, <2>4 DEF Typing, Gone
  <2> QED
    BY <1>1, <1>12, <2>1, <2>5, <2>6 DEF CsrSaved
<1> QED
  BY <1>14, <1>15

\* The answer is heard, and the next text can be sent.
LEMMA CsrHears ==
  ASSUME TypedInv, Interpreter, driver = "csr", NEW lines, lines = SentLines(driver, file),
         NEW f, NEW kept, obliging', connected', CsrAsking(f, kept, lines)
  PROVE  CsrSending(f, kept, lines)'
<1>1. PICK n : n = Len(lines)
  OBVIOUS
<1>2. /\ n \in Nat /\ script = CsrScript(lines) /\ Len(script) = 2 * n + 15
      /\ lines \in Seq(DOMAIN file \cap Line)
  BY <1>1, CsrWorks
<1>3. n \in Nat
  BY <1>2
<1>4. PICK r \in 2 .. n + 6 :
        /\ step = 2 * r + 1
        /\ \/ Typing(CsrMode(lines, r), CsrText(lines, r))
           \/ Answered(CsrMode(lines, r + 1), CsrAnswers(lines, r)) /\ CsrHolds(f, kept, lines, r + 1)
           \/ Gone
  BY <1>1 DEF CsrAsking
<1>5. PICK pattern : script[2 * r + 1] = Await(pattern) /\ CsrAnswers(lines, r) \subseteq pattern
  BY <1>1, <1>2, CsrAwaits
<1>6. Current = Await(pattern)
  BY <1>4, <1>5 DEF Current
<1>7. 2 * r + 1 \in Nat /\ 2 * r + 1 <= 2 * n + 15
  BY <1>3
<1>8. step <= Len(script)
  BY <1>2, <1>4, <1>7
<1>9. Answered(CsrMode(lines, r + 1), CsrAnswers(lines, r)) /\ CsrHolds(f, kept, lines, r + 1)
  <2>1. ASSUME heard = << >> PROVE mode # "closed" /\ typed = << >>
    <3>1. \A k \in DOMAIN heard : heard[k] \notin pattern
      BY <2>1
    <3> QED
      BY <1>6, <1>8, <3>1, AwaitedInVain
  <2>2. ASSUME NEW m, NEW t, Typing(m, t) PROVE FALSE
    <3>1. heard = << >> /\ typed = <<t>>
      BY <2>2 DEF Typing
    <3> QED
      BY <2>1, <3>1
  <2>3. ~Gone
    BY <2>1 DEF Gone
  <2> QED
    BY <1>4, <2>2, <2>3
<1>10. PICK x \in CsrAnswers(lines, r) : heard = <<x>>
  BY <1>9 DEF Answered
<1>11. typed = << >> /\ mode \in {CsrMode(lines, r + 1), "closed"}
  BY <1>9 DEF Answered
<1>12. x \in pattern
  BY <1>5
<1>13. /\ step' = step + 1 /\ typed' = typed /\ heard' = << >>
       /\ UNCHANGED <<job, router, connected, obliging>>
  BY <1>6, <1>8, <1>10, <1>12, Awaited
<1>14. step' = 2 * (r + 1) /\ r + 1 \in 2 .. n + 7
  BY <1>3, <1>4, <1>7, <1>13
<1>15. mode' = mode
  BY <1>13 DEF router
<1>16. Quiet(CsrMode(lines, r + 1))'
  BY <1>11, <1>13, <1>15 DEF Quiet
<1>17. CsrHolds(f, kept, lines, r + 1)'
  BY <1>9, <1>13, CsrHoldsOn DEF router
<1>18. PICK q \in 2 .. n + 7 :
         step' = 2 * q /\ Quiet(CsrMode(lines, q))' /\ CsrHolds(f, kept, lines, q)'
  BY <1>14, <1>16, <1>17
<1> QED
  BY <1>1, <1>18 DEF CsrSending

\* After the last text the script only waits for the end of the connection.
LEMMA CsrFinishes ==
  ASSUME TypedInv, Interpreter, driver = "csr", NEW lines, lines = SentLines(driver, file),
         NEW f, NEW kept, CsrSaved(f, kept, lines)
  PROVE  CsrSaved(f, kept, lines)'
<1>1. PICK n : n = Len(lines)
  OBVIOUS
<1>2. n \in Nat /\ Len(script) = 2 * n + 15 /\ script[2 * n + 15] = Eof /\ step \in Nat
  BY <1>1, CsrWorks
<1>3. n \in Nat /\ step \in Nat
  BY <1>2
<1>4. step > 2 * n + 14
  BY <1>1 DEF CsrSaved
<1>5. UNCHANGED router /\ step' \in Nat /\ step' >= step
  BY WhichStep, StepGrows
<1>6. typed' = typed
  <2>1. CASE step > Len(script)
    <3>1. ~ (step <= Len(script))
      BY <1>2, <1>3, <2>1
    <3>2. Done
      BY <3>1, WhichStep
    <3> QED
      BY <3>2 DEF Done
  <2>2. CASE ~ (step > Len(script))
    <3>1. step = 2 * n + 15
      BY <1>2, <1>3, <1>4, <2>2
    <3>2. Current.do = "eof"
      BY <1>2, <3>1 DEF Current, Eof
    <3>3. ExpectEof
      BY <2>2, <3>2, WhichStep
    <3> QED
      BY <3>3 DEF ExpectEof
  <2> QED
    BY <2>1, <2>2
<1>7. step' > 2 * n + 14
  BY <1>3, <1>4, <1>5
<1> QED
  BY <1>1, <1>5, <1>6, <1>7 DEF router, CsrSaved

\* What is sent without a login: the third other text has been when the end of
\* the lines, or the first of them, is waited for.
LEMMA CsrWrongGrows ==
  /\ CsrWrong(2) = 1 /\ CsrWrong(5) = 1 /\ CsrWrong(6) = 1 /\ CsrWrong(7) = 1 /\ CsrWrong(8) = 1
  /\ CsrWrong(9) = 2 /\ CsrWrong(10) = 2 /\ CsrWrong(11) = 3
BY DEF CsrWrong

\* A login that failed is not made up for.
LEMMA CsrStaysLost ==
  ASSUME TypedInv, Interpreter, driver = "csr", NEW lines, lines = SentLines(driver, file),
         obliging', connected', result' # "error", CsrLost
  PROVE  CsrLost'
<1>1. PICK n : n = Len(lines)
  OBVIOUS
<1>2. /\ n \in Nat /\ script = CsrScript(lines) /\ Len(script) = 2 * n + 15
      /\ lines \in Seq(DOMAIN file \cap Line)
      /\ \A r \in 2 .. n + 7 : script[2 * r] = [do |-> "send", text |-> CsrText(lines, r)]
  BY <1>1, CsrWorks
<1>3. n \in Nat
  BY <1>2
<1>4. /\ step \in {2} \cup 5 .. 11
      /\ \A k \in DOMAIN heard : heard[k] = "password"
      /\ \A k \in DOMAIN typed : typed[k].word # "password"
      /\ \/ mode = "closed"
         \/ mode \in {"password", "enable"} /\ tries + Len(typed) >= CsrWrong(step)
  BY DEF CsrLost
<1>5. UNCHANGED router /\ connected /\ mode' = mode /\ tries' = tries
  BY WhichStep DEF router
<1>6. /\ tries \in Nat /\ (mode # "closed" => tries \in 0 .. 2)
      /\ typed \in Seq(Texts(file))
  BY TypedFacts DEF TypedInv
<1>7. CASE step = 2
  <2>1. /\ mode # "closed" /\ typed = << >>
        /\ typed' = typed /\ heard' = heard /\ step' = 7
    BY <1>4, <1>7, CsrSecond
  <2>2. tries + Len(typed) >= 1
    BY <1>4, <1>7, <2>1, CsrWrongGrows
  <2>3. tries' + Len(typed') >= CsrWrong(7)
    BY <1>5, <2>1, <2>2, CsrWrongGrows
  <2>4. step' \in {2} \cup 5 .. 11
    BY <2>1
  <2> QED
    BY <1>4, <1>5, <2>1, <2>3, <2>4 DEF CsrLost
<1>8. CASE \E r \in 2 .. 5 : step = 2 * r + 1
  <2>1. PICK r \in 2 .. 5 : step = 2 * r + 1
    BY <1>8
  <2>2. r \in 2 .. n + 6 /\ 2 * r + 1 <= 2 * n + 15
    BY <1>3
  <2>3. PICK pattern : script[2 * r + 1] = Await(pattern) /\ "password" \notin pattern
    BY <1>1, <1>2, <2>2, CsrAwaits
  <2>4. Current = Await(pattern) /\ step <= Len(script)
    BY <1>2, <2>1, <2>2, <2>3 DEF Current
  <2>5. \A k \in DOMAIN heard : heard[k] \notin pattern
    BY <1>4, <2>3
  <2>6. mode # "closed" /\ typed = << >> /\ typed' = typed /\ heard' = heard /\ step' = step + 1
    BY <2>4, <2>5, AwaitedInVain
  <2>7. PICK w : w = tries
    OBVIOUS
  <2>8. Len(typed) = 0 /\ w \in 0 .. 2
    BY <1>6, <2>6, <2>7
  <2>9. w + 0 >= CsrWrong(step)
    BY <1>4, <2>6, <2>7, <2>8
  <2>10. w >= CsrWrong(step)
    BY <2>8, <2>9
  <2>11. step # 11
    BY <2>8, <2>10, CsrWrongGrows
  <2>12. (step = 5 /\ step' = 6) \/ (step = 7 /\ step' = 8) \/ (step = 9 /\ step' = 10)
    BY <2>1, <2>6, <2>11
  <2>13. CsrWrong(step') = CsrWrong(step) /\ step' \in 5 .. 11
    BY <2>12, CsrWrongGrows
  <2>14. tries' + Len(typed') >= CsrWrong(step')
    BY <1>5, <2>6, <2>7, <2>8, <2>9, <2>13
  <2> QED
    BY <1>4, <1>5, <2>6, <2>13, <2>14 DEF CsrLost
<1>9. CASE \E r \in 3 .. 5 : step = 2 * r
  <2>1. PICK r \in 3 .. 5 : step = 2 * r
    BY <1>9
  <2>2. r \in 2 .. n + 7 /\ 2 * r <= 2 * n + 15 /\ ~ (2 * r > 2 * n + 15)
    BY <1>3
  <2>3. PICK t : t = CsrText(lines, r)
    OBVIOUS
  <2>4. PICK at : at = Current
    OBVIOUS
  <2>5. at = [do |-> "send", text |-> t]
    BY <1>2, <2>1, <2>2, <2>3, <2>4 DEF Current
  <2>6. Current.do = "send" /\ Current.text = t
    BY <2>4, <2>5
  <2>7. t.word # "password"
    <3>1. r # 2
      OBVIOUS
    <3> QED
      BY <2>3, <3>1 DEF CsrText, Say, Enter
  <2>8. Send
    BY <1>2, <2>1, <2>2, <2>6, WhichStep
  <2>9. typed' = Typed(t) /\ Go(1) /\ heard' = heard
    BY <1>5, <2>6, <2>8 DEF Send, Go, Exit1
  <2>10. step' = step + 1
    BY <2>9 DEF Go, Exit1
  <2>11. (step = 6 /\ step' = 7) \/ (step = 8 /\ step' = 9) \/ (step = 10 /\ step' = 11)
    BY <2>1, <2>10
  <2>12. step' \in 5 .. 11 /\ CsrWrong(step') <= CsrWrong(step) + 1
    BY <2>11, CsrWrongGrows
  <2>13. CASE mode = "closed"
    BY <1>4, <1>5, <2>9, <2>12, <2>13 DEF CsrLost, Typed
  <2>14. CASE mode # "closed"
    <3>1. typed' = Append(typed, t)
      BY <2>9, <2>14 DEF Typed
    <3>2. PICK m : m = Len(typed)
      OBVIOUS
    <3>3. m \in Nat /\ DOMAIN typed = 1 .. m
      BY <1>6, <3>2
    <3>4. /\ DOMAIN typed' = 1 .. m + 1 /\ Len(typed') = m + 1
          /\ \A k \in 1 .. m : typed'[k] = typed[k]
          /\ typed'[m + 1] = t
      BY <1>6, <3>1, <3>2
    <3>5. \A k \in 1 .. m + 1 : k \in 1 .. m \/ k = m + 1
      BY <3>3
    <3>6. \A k \in DOMAIN typed' : typed'[k].word # "password"
      BY <1>4, <2>7, <3>3, <3>4, <3>5
    <3>7. PICK w, was, now : w = tries /\ was = CsrWrong(step) /\ now = CsrWrong(step')
      OBVIOUS
    <3>8. w + m >= was
      BY <1>4, <2>14, <3>2, <3>7
    <3>9. w \in Nat /\ was \in Nat /\ now \in Nat /\ now <= was + 1
      BY <1>6, <2>11, <2>12, <3>7, CsrWrongGrows
    <3>10. w + (m + 1) >= now
      BY <3>3, <3>8, <3>9
    <3>11. tries' + Len(typed') >= CsrWrong(step')
      BY <1>5, <3>4, <3>7, <3>10
    <3> QED
      BY <1>4, <1>5, <2>9, <2>12, <2>14, <3>6, <3>11 DEF CsrLost
  <2> QED
    BY <2>13, <2>14
<1>10. step = 2 \/ (\E r \in 2 .. 5 : step = 2 * r + 1) \/ (\E r \in 3 .. 5 : step = 2 * r)
  <2>1. PICK p : p = step
    OBVIOUS
  <2>2. p = 2 \/ p \in 5 .. 11
    BY <1>4, <2>1
  <2>3. /\ p = 2 \/ p = 5 \/ p = 6 \/ p = 7 \/ p = 8 \/ p = 9 \/ p = 10 \/ p = 11
    BY <2>2
  <2>4. /\ 5 = 2 * 2 + 1 /\ 7 = 2 * 3 + 1 /\ 9 = 2 * 4 + 1 /\ 11 = 2 * 5 + 1
        /\ 6 = 2 * 3 /\ 8 = 2 * 4 /\ 10 = 2 * 5
        /\ 2 \in 2 .. 5 /\ 3 \in 2 .. 5 /\ 4 \in 2 .. 5 /\ 5 \in 2 .. 5
        /\ 3 \in 3 .. 5 /\ 4 \in 3 .. 5 /\ 5 \in 3 .. 5
    OBVIOUS
  <2> QED
    BY <2>1, <2>3, <2>4
<1> QED
  BY <1>7, <1>8, <1>9, <1>10

\* What the interpreter does on a CSR.
LEMMA CsrInterpreterLock ==
  ASSUME TypedInv, Interpreter, driver = "csr", NEW lines, lines = SentLines(driver, file),
         NEW f, NEW kept, obliging', connected', result' # "error", CsrLock(f, kept, lines)
  PROVE  CsrLock(f, kept, lines)'
<1>1. CASE CsrOpening
  BY <1>1, CsrOpens DEF CsrLock
<1>2. CASE CsrSending(f, kept, lines)
  BY <1>2, CsrSends DEF CsrLock
<1>3. CASE CsrAsking(f, kept, lines)
  BY <1>3, CsrHears DEF CsrLock
<1>4. CASE CsrSaved(f, kept, lines)
  BY <1>4, CsrFinishes DEF CsrLock
<1>5. CASE CsrLost
  BY <1>5, CsrStaysLost DEF CsrLock
<1> QED
  BY <1>1, <1>2, <1>3, <1>4, <1>5 DEF CsrLock

\* A connection is made, or refused; the login is taken, or refused.
LEMMA CsrGreets ==
  ASSUME TypedInv, Router \/ Drop, obliging', driver = "csr", CsrOpening
  PROVE  CsrOpening' \/ CsrLost'
<1>1. step' = step /\ running = {} /\ tries \in Nat
  BY RouterFrame, TypedFacts DEF CsrOpening, place
<1>2. ASSUME typed = << >>, mode # "connect"
      PROVE  mode' = "closed" /\ typed' = << >> /\ heard' = heard /\ running' = running
  BY <1>2, RouterIdle
<1>3. ASSUME NEW m, NEW tokens, m # "connect", Answered(m, tokens)
      PROVE  Answered(m, tokens)' /\ running' = running
  BY <1>2, <1>3 DEF Answered
<1>4. CASE Gone
  <2>1. Gone' /\ running' = running
    BY <1>2, <1>4 DEF Gone
  <2> QED
    BY <1>1, <1>4, <2>1 DEF CsrOpening, Typing, Answered, Gone
<1>5. CASE step = 1 /\ mode = "connect" /\ typed = << >> /\ heard = << >>
  <2>1. CASE Drop
    BY <1>1, <1>5, <2>1 DEF Drop, CsrOpening, Gone
  <2>2. CASE Greet
    <3>1. /\ typed' = << >> /\ running' = running
          /\ \/ mode' = "password" /\ heard' = heard \o Prompt("password", 0)
             \/ mode' = "closed" /\ heard' = Append(heard, "refused")
      BY <1>5, <2>2 DEF Greet
    <3>2. Prompt("password", 0) = <<"password">>
      BY PromptIs
    <3>3. << >> \o <<"password">> = <<"password">> /\ Append(<< >>, "refused") = <<"refused">>
      OBVIOUS
    <3>4. CASE mode' = "password" /\ heard' = <<"password">>
      <4>1. Answered("password", {"password"})'
        BY <3>1, <3>4 DEF Answered
      <4> QED
        BY <1>1, <1>5, <3>1, <4>1 DEF CsrOpening
    <3>5. CASE mode' = "closed" /\ heard' = <<"refused">>
      BY <1>1, <1>5, <3>1, <3>5 DEF CsrOpening
    <3> QED
      BY <1>5, <3>1, <3>2, <3>3, <3>4, <3>5
  <2> QED
    BY <1>5, <2>1, <2>2 DEF Router, Login, TakeLine, Command, Serve, Asked
<1>6. CASE step = 1 /\ Answered("password", {"password"})
  <2>1. PICK m, tokens : m = "password" /\ tokens = {"password"}
    OBVIOUS
  <2>2. Answered(m, tokens)' /\ running' = running
    <3>1. m # "connect" /\ Answered(m, tokens)
      BY <1>6, <2>1
    <3> QED
      BY <1>3, <3>1
  <2>3. Answered("password", {"password"})'
    BY <2>1, <2>2
  <2> QED
    BY <1>1, <1>6, <2>2, <2>3 DEF CsrOpening
<1>7. CASE step = 1 /\ mode = "closed" /\ typed = << >> /\ heard = <<"refused">>
  <2>1. mode' = "closed" /\ typed' = << >> /\ heard' = heard /\ running' = running
    BY <1>2, <1>7
  <2> QED
    BY <1>1, <1>7, <2>1 DEF CsrOpening
<1>8. CASE step = 2 /\ Typing("password", Say("password").text)
  <2>1. PICK t : t = Say("password").text
    OBVIOUS
  <2>2. typed = <<t>> /\ heard = << >> /\ mode = "password"
    BY <1>8, <2>1 DEF Typing
  <2>3. /\ running' = running
        /\ \/ Gone'
           \/ /\ typed' = << >> /\ heard' = Prompt(mode', 0)
              /\ \/ mode' \in {"exec", "user"}
                 \/ tries' = tries + 1 /\ mode' \in {"closed", "password"}
    BY <2>2, LoginTurn
  <2>4. /\ Prompt("password", 0) = <<"password">> /\ Prompt("exec", 0) = <<"prompt">>
        /\ Prompt("closed", 0) = << >> /\ Prompt("user", 0) = <<"user">>
    BY PromptIs
  <2>5. CASE Gone'
    BY <1>1, <1>8, <2>3, <2>5 DEF CsrOpening
  <2>6. CASE typed' = << >> /\ heard' = <<"prompt">> /\ mode' = "exec"
    <3>1. Answered("exec", {"prompt"})'
      BY <2>6 DEF Answered
    <3> QED
      BY <1>1, <1>8, <2>3, <3>1 DEF CsrOpening
  <2>7. CASE typed' = << >> /\ heard' = <<"user">> /\ mode' = "user"
    <3>1. Answered("user", {"user"})'
      BY <2>7 DEF Answered
    <3> QED
      BY <1>1, <1>8, <2>3, <3>1 DEF CsrOpening
  <2>8. CASE /\ typed' = << >> /\ heard' = Prompt(mode', 0)
             /\ tries' = tries + 1 /\ mode' \in {"closed", "password"}
    <3>1. \A k \in DOMAIN heard' : heard'[k] = "password"
      BY <2>4, <2>8
    <3>2. Len(typed') = 0
      BY <2>8
    <3>3. tries' + Len(typed') >= CsrWrong(step')
      <4>1. CsrWrong(step') = 1
        BY <1>1, <1>8, CsrWrongGrows
      <4>2. PICK w : w = tries
        OBVIOUS
      <4>3. (w + 1) + 0 >= 1
        BY <1>1, <4>2
      <4> QED
        BY <2>8, <3>2, <4>1, <4>2, <4>3
    <3> QED
      BY <1>1, <1>8, <2>8, <3>1, <3>3 DEF CsrLost
  <2> QED
    BY <2>3, <2>4, <2>5, <2>6, <2>7, <2>8
<1>9. CASE step = 2 /\ (Answered("exec", {"prompt"}) \/ Answered("user", {"user"}))
  <2>1. running' = running /\ (Answered("exec", {"prompt"})' \/ Answered("user", {"user"})')
    <3>1. mode # "connect" /\ typed = << >>
      BY <1>9 DEF Answered
    <3>2. mode' = "closed" /\ typed' = << >> /\ heard' = heard /\ running' = running
      BY <1>2, <3>1
    <3> QED
      BY <1>9, <3>2 DEF Answered
  <2> QED
    BY <1>1, <1>9, <2>1 DEF CsrOpening
<1>10. CASE step = 3 /\ Typing("user", Say("enable").text)
  <2>1. PICK t : t = Say("enable").text
    OBVIOUS
  <2>2. typed = <<t>> /\ heard = << >> /\ mode = "user" /\ t.word = "enable"
    BY <1>10, <2>1 DEF Typing, Say
  <2>3. After("enable") = "enable"
    BY <2>2 DEF After
  <2>4. /\ running' = running
        /\ Gone' \/ (typed' = << >> /\ heard' = Prompt("enable", section') /\ mode' = "enable")
    BY <2>2, <2>3, CommandTurn
  <2>5. PICK inside : inside = section'
    OBVIOUS
  <2>6. Prompt("enable", inside) = <<"password">>
    BY PromptIs
  <2>7. Gone' \/ Answered("enable", {"password"})'
    BY <2>4, <2>5, <2>6 DEF Answered
  <2> QED
    BY <1>1, <1>10, <2>4, <2>7 DEF CsrOpening
<1>11. CASE step = 3 /\ Answered("enable", {"password"})
  <2>1. mode # "connect" /\ typed = << >>
    BY <1>11 DEF Answered
  <2>2. mode' = "closed" /\ typed' = << >> /\ heard' = heard /\ running' = running
    BY <1>2, <2>1
  <2>3. Answered("enable", {"password"})'
    BY <1>11, <2>2 DEF Answered
  <2> QED
    BY <1>1, <1>11, <2>2, <2>3 DEF CsrOpening
<1> QED
  BY <1>4, <1>5, <1>6, <1>7, <1>8, <1>9, <1>10, <1>11 DEF CsrOpening

\* The password for the privileges is taken, or refused.
LEMMA CsrAnswersEnable ==
  ASSUME TypedInv, Router \/ Drop, driver = "csr", NEW lines, Len(lines) \in Nat,
         NEW f, NEW kept, step = 5, Typing("enable", Say("password").text), running = {}
  PROVE  CsrAsking(f, kept, lines)' \/ CsrLost'
<1>1. PICK n : n = Len(lines)
  OBVIOUS
<1>2. n \in Nat /\ step' = 2 * 2 + 1 /\ 2 \in 2 .. n + 6 /\ ~ (3 > n + 5) /\ ~ (3 > n + 6)
  BY <1>1, RouterFrame DEF place
<1>3. PICK t : t = Say("password").text
  OBVIOUS
<1>4. typed = <<t>> /\ heard = << >> /\ mode = "enable"
  BY <1>3 DEF Typing
<1>5. /\ running' = running
      /\ \/ Gone'
         \/ /\ typed' = << >> /\ heard' = Prompt(mode', 0)
            /\ \/ mode' = "exec"
               \/ tries' = tries + 1 /\ mode' \in {"closed", "enable"}
  BY <1>4, LoginTurn
<1>6. /\ Prompt("enable", 0) = <<"password">> /\ Prompt("exec", 0) = <<"prompt">>
      /\ Prompt("closed", 0) = << >>
  BY PromptIs
<1>7. CsrMode(lines, 2 + 1) = "exec" /\ CsrAnswers(lines, 2) = {"prompt"}
  BY DEF CsrMode, CsrAnswers
<1>8. CsrHolds(f, kept, lines, 2 + 1)'
  <2>1. running' = {}
    BY <1>5
  <2>2. 2 + 1 = 3 /\ ~ (3 > 4)
    OBVIOUS
  <2> QED
    BY <1>1, <1>2, <2>1, <2>2 DEF CsrHolds
<1>9. ASSUME Gone' \/ Answered("exec", {"prompt"})' PROVE CsrAsking(f, kept, lines)'
  <2>1. PICK r \in 2 .. n + 6 :
          /\ step' = 2 * r + 1
          /\ \/ Answered(CsrMode(lines, r + 1), CsrAnswers(lines, r))' /\ CsrHolds(f, kept, lines, r + 1)'
             \/ Gone'
    BY <1>2, <1>7, <1>8, <1>9
  <2> QED
    BY <1>1, <2>1 DEF CsrAsking
<1>10. CASE Gone'
  BY <1>9, <1>10
<1>11. CASE typed' = << >> /\ heard' = <<"prompt">> /\ mode' = "exec"
  <2>1. Answered("exec", {"prompt"})'
    BY <1>11 DEF Answered
  <2> QED
    BY <1>9, <2>1
<1>12. CASE /\ typed' = << >> /\ heard' = Prompt(mode', 0)
            /\ tries' = tries + 1 /\ mode' \in {"closed", "enable"}
  <2>1. \A k \in DOMAIN heard' : heard'[k] = "password"
    BY <1>6, <1>12
  <2>2. tries' + Len(typed') >= CsrWrong(step')
    <3>1. CsrWrong(step') = 1 /\ Len(typed') = 0
      BY <1>2, <1>12, CsrWrongGrows
    <3>2. PICK w : w = tries
      OBVIOUS
    <3>3. (w + 1) + 0 >= 1
      BY <3>2, TypedFacts
    <3> QED
      BY <1>12, <3>1, <3>2, <3>3
  <2>3. step' \in {2} \cup 5 .. 11
    BY <1>2
  <2> QED
    BY <1>12, <2>1, <2>2, <2>3 DEF CsrLost
<1> QED
  BY <1>5, <1>6, <1>10, <1>11, <1>12

\* The answer to the r-th text.
LEMMA CsrAsks ==
  ASSUME NEW f, NEW kept, NEW lines, NEW r \in 2 .. Len(lines) + 6, step' = 2 * r + 1,
         \/ Gone'
         \/ /\ Answered(CsrMode(lines, r + 1), CsrAnswers(lines, r))'
            /\ CsrHolds(f, kept, lines, r + 1)'
  PROVE  CsrAsking(f, kept, lines)'
BY DEF CsrAsking

\* The router takes a command before the lines.
LEMMA CsrAnswersEarly ==
  ASSUME TypedInv, Router \/ Drop, obliging', driver = "csr", NEW lines, Len(lines) \in Nat,
         NEW f, NEW kept, kept \subseteq Nat \ {0},
         NEW r \in {3, 4}, step = 2 * r + 1, Typing(CsrMode(lines, r), CsrText(lines, r)),
         running = {}
  PROVE  CsrAsking(f, kept, lines)'
<1>1. PICK n : n = Len(lines)
  OBVIOUS
<1>2. n \in Nat /\ step' = 2 * r + 1
  BY <1>1, RouterFrame DEF place
<1>3. n \in Nat
  BY <1>2
<1>4. r \in 2 .. n + 6
  BY <1>3
<1>5. PICK t : t = CsrText(lines, r)
  OBVIOUS
<1>6. typed = <<t>> /\ heard = << >> /\ mode = "exec"
  BY <1>5 DEF Typing, CsrMode
<1>7. CASE r = 3
  <2>1. t.word = "terminal"
    BY <1>5, <1>7 DEF CsrText, Say
  <2>2. After("terminal") = "exec"
    BY <1>6 DEF After
  <2>3. \/ Gone'
        \/ typed' = << >> /\ heard' = Prompt("exec", section') /\ mode' = "exec" /\ running' = running
    BY <1>6, <2>1, <2>2, CommandTurn
  <2>4. PICK inside : inside = section'
    OBVIOUS
  <2>5. Prompt("exec", inside) = <<"prompt">>
    BY PromptIs
  <2>6. CsrMode(lines, r + 1) = "exec" /\ CsrAnswers(lines, r) = {"prompt"}
    BY <1>7 DEF CsrMode, CsrAnswers
  <2>7. CASE Gone'
    BY <1>1, <1>2, <1>4, <2>7, CsrAsks
  <2>8. CASE typed' = << >> /\ heard' = <<"prompt">> /\ mode' = "exec" /\ running' = running
    <3>1. Answered(CsrMode(lines, r + 1), CsrAnswers(lines, r))'
      BY <2>6, <2>8 DEF Answered
    <3>2. CsrHolds(f, kept, lines, r + 1)'
      <4>1. ~ (r + 1 > 4) /\ ~ (r + 1 > n + 5) /\ ~ (r + 1 > n + 6)
        BY <1>3, <1>7
      <4> QED
        BY <1>1, <2>8, <4>1 DEF CsrHolds
    <3> QED
      BY <1>1, <1>2, <1>4, <3>1, <3>2, CsrAsks
  <2> QED
    BY <2>3, <2>4, <2>5, <2>7, <2>8
<1>8. CASE r = 4
  <2>1. t.word = "configure"
    BY <1>5, <1>8 DEF CsrText, Say
  <2>2. After("configure") = "config"
    BY <1>6 DEF After
  <2>3. \/ Gone'
        \/ /\ typed' = << >> /\ heard' = Prompt("config", section') /\ mode' = "config"
           /\ running' = running /\ section' = 0
    BY <1>6, <2>1, <2>2, CommandTurn
  <2>4. Prompt("config", 0) = <<"config">>
    BY PromptIs
  <2>5. CsrMode(lines, r + 1) = "config" /\ CsrAnswers(lines, r) = {"config"}
    <3>1. r + 1 = 5 /\ ~ (5 > n + 5)
      BY <1>3, <1>8
    <3> QED
      BY <1>1, <1>8, <3>1 DEF CsrMode, CsrAnswers
  <2>6. CASE Gone'
    BY <1>1, <1>2, <1>4, <2>6, CsrAsks
  <2>7. CASE typed' = << >> /\ heard' = <<"config">> /\ mode' = "config" /\ running' = running /\ section' = 0
    <3>1. Answered(CsrMode(lines, r + 1), CsrAnswers(lines, r))'
      BY <2>5, <2>7 DEF Answered
    <3>2. CsrHolds(f, kept, lines, r + 1)'
      <4>1. ~ (r + 1 <= 4) /\ ~ (r + 1 > n + 5) /\ ~ (r + 1 > n + 6) /\ (r + 1) - 5 = 0
        BY <1>3, <1>8
      <4>2. LineAt(lines, 0) = 0
        BY DEF LineAt
      <4>3. Part(f, kept, 0) = {} /\ Inside(f, kept, 0) = 0
        BY PartEnds
      <4>4. running' = Part(f, kept, LineAt(lines, (r + 1) - 5))
        BY <2>7, <4>1, <4>2, <4>3
      <4>5. section' = Inside(f, kept, LineAt(lines, (r + 1) - 5))
        BY <2>7, <4>1, <4>2, <4>3
      <4> QED
        BY <1>1, <4>1, <4>4, <4>5 DEF CsrHolds
    <3> QED
      BY <1>1, <1>2, <1>4, <3>1, <3>2, CsrAsks
  <2> QED
    BY <2>3, <2>4, <2>6, <2>7
<1> QED
  BY <1>7, <1>8

\* The router takes a line.
LEMMA CsrAnswersLine ==
  ASSUME TypedInv, Router \/ Drop, driver = "csr", NEW lines, lines = SentLines(driver, file),
         NEW f, f = file, NEW kept, kept = Sent(driver, file),
         NEW r \in 5 .. Len(lines) + 4, step = 2 * r + 1,
         Typing(CsrMode(lines, r), CsrText(lines, r)), CsrHolds(f, kept, lines, r),
         "hash" \notin Range(file)
  PROVE  CsrAsking(f, kept, lines)'
<1>1. PICK n : n = Len(lines)
  OBVIOUS
<1>2. /\ n \in Nat /\ step' = 2 * r + 1
      /\ file \in File /\ lines \in Seq(DOMAIN file \cap Line)
  BY <1>1, RouterFrame, CsrWorks, TypedFacts DEF place
<1>3. n \in Nat
  BY <1>2
<1>4. /\ r \in 2 .. n + 6 /\ r - 4 \in 1 .. n /\ r - 5 \in 0 .. n - 1 /\ (r - 5) + 1 = r - 4
      /\ (r + 1) - 5 = r - 4 /\ ~ (r <= 4) /\ r > 4 /\ r + 1 > 4 /\ ~ (r + 1 <= 4)
      /\ r <= n + 5 /\ r + 1 <= n + 5 /\ r <= n + 4
  BY <1>1, <1>3
<1>5. /\ r \notin {2, 3, 4} /\ r # n + 5 /\ r # n + 6 /\ r # n + 7 /\ ~ (r > n + 5)
      /\ r + 1 \notin {2, 3, 4} /\ ~ (r + 1 > n + 5) /\ ~ (r + 1 > n + 6)
  BY <1>1, <1>3
<1>6. CsrMode(lines, r) = "config" /\ CsrMode(lines, r + 1) = "config"
  BY <1>1, <1>5 DEF CsrMode
<1>7. CsrAnswers(lines, r) = {"config", "section"}
  BY <1>1, <1>4, <1>5 DEF CsrAnswers
<1>8. PICK t : t = CsrText(lines, r)
  OBVIOUS
<1>9. PICK i : i = lines[r - 4]
  OBVIOUS
<1>10. t.word = "line" /\ t.line = i
  BY <1>1, <1>5, <1>8, <1>9 DEF CsrText, Enter
<1>11. typed = <<t>> /\ heard = << >> /\ mode = "config"
  BY <1>6, <1>8 DEF Typing
<1>12. i \in DOMAIN f
  BY <1>1, <1>2, <1>4, <1>9
<1>13. f[i] # "hash"
  BY <1>12 DEF Range
<1>14. PICK p : p = LineAt(lines, r - 5)
  OBVIOUS
<1>15. running = Part(f, kept, p) /\ section = Inside(f, kept, p)
  BY <1>1, <1>4, <1>14 DEF CsrHolds
<1>16. /\ kept \subseteq Nat \ {0} /\ Sorted(lines, kept)
       /\ \A j \in kept : f[j] \in LineKind /\ f[j] # "comment"
  BY <1>2, SentFacts
<1>17. /\ p \in Nat /\ i \in kept /\ p < i /\ LineAt(lines, r - 4) = i
       /\ \A j \in kept : j < i => j <= p
  <2>1. PICK m : m = r - 5
    OBVIOUS
  <2>2. m \in 0 .. Len(lines) - 1 /\ m + 1 = r - 4
    BY <1>1, <1>4, <2>1
  <2>3. /\ LineAt(lines, m) \in Nat /\ lines[m + 1] \in kept
        /\ LineAt(lines, m) < lines[m + 1] /\ LineAt(lines, m + 1) = lines[m + 1]
        /\ \A j \in kept : j < lines[m + 1] => j <= LineAt(lines, m)
    <3>1. LineOrder(lines, kept)
      BY <1>16, LineAfter
    <3>2. m \in 0 .. Len(lines) - 1
      BY <2>2
    <3> QED
      BY <3>1, <3>2 DEF LineOrder
  <2> QED
    BY <1>9, <1>14, <2>1, <2>2, <2>3
<1>18. TakenOn(f, kept, p, i)
  BY <1>16, <1>17, TakesNext
<1>19. PICK now : now = Inside(f, kept, p)
  OBVIOUS
<1>20. PICK part : part = Part(f, kept, p)
  OBVIOUS
<1>21. /\ Part(f, kept, i) =
            part \cup (IF ~ (f[i] \notin {"bad", "escape"} /\ (f[i] = "sub" => now # 0)) THEN {}
                       ELSE {<<i, IF f[i] = "sub" THEN now ELSE i>>})
       /\ Inside(f, kept, i) =
            CASE f[i] \in Single                 -> 0
              [] f[i] \in {"header", "filtered"} -> i
              [] OTHER                           -> now
  BY <1>18, <1>19, <1>20 DEF TakenOn
<1>22. \/ Gone'
       \/ /\ typed' = << >> /\ mode' = "config" /\ \E x \in {"config", "section"} : heard' = <<x>>
          /\ section' = CASE f[i] \in Single                 -> 0
                          [] f[i] \in {"header", "filtered"} -> i
                          [] OTHER                           -> section
          /\ running' = running \cup
               IF ~Takes(i) THEN {} ELSE {<<i, IF f[i] = "sub" THEN section ELSE i>>}
  BY <1>10, <1>11, <1>13, LineTurn
<1>23. CASE Gone'
  BY <1>1, <1>2, <1>4, <1>23, CsrAsks
<1>24. CASE ~Gone'
  <2>1. Answered(CsrMode(lines, r + 1), CsrAnswers(lines, r))'
    BY <1>6, <1>7, <1>22, <1>24 DEF Answered
  <2>2. Takes(i) <=> (f[i] \notin {"bad", "escape"} /\ (f[i] = "sub" => now # 0))
    BY <1>15, <1>19 DEF Takes
  <2>3. running' = Part(f, kept, i)
    BY <1>15, <1>19, <1>20, <1>21, <1>22, <1>24, <2>2
  <2>4. section' = Inside(f, kept, i)
    BY <1>15, <1>19, <1>21, <1>22, <1>24
  <2>5. i = LineAt(lines, (r + 1) - 5)
    BY <1>4, <1>17
  <2>6. CsrHolds(f, kept, lines, r + 1)'
    BY <1>1, <1>4, <1>5, <2>3, <2>4, <2>5 DEF CsrHolds
  <2> QED
    BY <1>1, <1>2, <1>4, <2>1, <2>6, CsrAsks
<1> QED
  BY <1>23, <1>24

\* The router leaves configuration mode with all of the file, and saves it.
LEMMA CsrAnswersLate ==
  ASSUME TypedInv, Router \/ Drop, obliging', driver = "csr", NEW lines, lines = SentLines(driver, file),
         NEW f, f = file, NEW kept, kept = Sent(driver, file),
         NEW r \in {Len(lines) + 5, Len(lines) + 6}, step = 2 * r + 1,
         Typing(CsrMode(lines, r), CsrText(lines, r)), CsrHolds(f, kept, lines, r)
  PROVE  CsrAsking(f, kept, lines)'
<1>1. PICK n : n = Len(lines)
  OBVIOUS
<1>2. /\ n \in Nat /\ step' = 2 * r + 1 /\ file \in File
  BY <1>1, RouterFrame, CsrWorks, TypedFacts DEF place
<1>3. n \in Nat
  BY <1>2
<1>4. /\ r \in 2 .. n + 6 /\ r \notin {2, 3, 4} /\ r + 1 \notin {2, 3, 4} /\ r + 1 > n + 5
      /\ ~ (r <= n + 4) /\ ~ (r + 1 <= 4) /\ ~ (r + 1 <= n + 5)
      /\ n + 5 # n + 6 /\ ~ (n + 5 > n + 5) /\ n + 5 > 4 /\ n + 5 <= n + 5 /\ (n + 5) - 5 = n
      /\ n + 6 > n + 5 /\ ~ (n + 6 > n + 6) /\ (n + 5) + 1 = n + 6
  BY <1>1, <1>3
<1>5. CsrMode(lines, r + 1) = "exec"
  BY <1>1, <1>4 DEF CsrMode
<1>6. CsrAnswers(lines, r) = {"prompt"}
  BY <1>1, <1>4 DEF CsrAnswers
<1>7. PICK t : t = CsrText(lines, r)
  OBVIOUS
<1>8. typed = <<t>> /\ heard = << >> /\ mode = CsrMode(lines, r)
  BY <1>7 DEF Typing
<1>9. PICK inside : inside = section'
  OBVIOUS
<1>10. Prompt("exec", inside) = <<"prompt">>
  BY PromptIs
<1>11. CASE Gone'
  BY <1>1, <1>2, <1>4, <1>11, CsrAsks
<1>12. ASSUME typed' = << >>, heard' = <<"prompt">>, mode' = "exec", CsrHolds(f, kept, lines, r + 1)'
       PROVE  CsrAsking(f, kept, lines)'
  <2>1. Answered(CsrMode(lines, r + 1), CsrAnswers(lines, r))'
    BY <1>5, <1>6, <1>12 DEF Answered
  <2> QED
    BY <1>1, <1>2, <1>4, <1>12, <2>1, CsrAsks
<1>13. CASE r = n + 5
  <2>1. mode = "config"
    BY <1>1, <1>4, <1>8, <1>13 DEF CsrMode
  <2>2. t.word = "end"
    BY <1>1, <1>4, <1>7, <1>13 DEF CsrText, Say
  <2>3. After("end") = "exec"
    BY <2>1 DEF After
  <2>4. \/ Gone'
        \/ typed' = << >> /\ heard' = Prompt("exec", section') /\ mode' = "exec" /\ running' = running
    BY <1>8, <2>1, <2>2, <2>3, CommandTurn
  <2>5. running = Meaning(f, kept)
    <3>1. PICK q : q = LineAt(lines, n)
      OBVIOUS
    <3>2. running = Part(f, kept, q)
      BY <1>1, <1>4, <1>13, <3>1 DEF CsrHolds
    <3>3. kept \subseteq Nat \ {0} /\ Sorted(lines, kept)
      BY <1>2, SentFacts
    <3>4. q \in Nat /\ \A j \in kept : j <= q
      BY <1>1, <3>1, <3>3, LineAfter DEF LineOrder
    <3> QED
      BY <3>2, <3>3, <3>4, PartEnds
  <2>6. ASSUME running' = running PROVE CsrHolds(f, kept, lines, r + 1)'
    <3>1. ~ (r + 1 > n + 6)
      BY <1>4, <1>13
    <3> QED
      BY <1>1, <1>4, <2>5, <2>6, <3>1 DEF CsrHolds
  <2> QED
    BY <1>9, <1>10, <1>11, <1>12, <2>4, <2>6
<1>14. CASE r = n + 6
  <2>1. mode = "exec"
    BY <1>1, <1>4, <1>8, <1>14 DEF CsrMode
  <2>2. t.word = "write"
    BY <1>1, <1>4, <1>7, <1>14 DEF CsrText, Say
  <2>3. After("write") = "exec"
    BY <2>1 DEF After
  <2>4. \/ Gone'
        \/ /\ typed' = << >> /\ heard' = Prompt("exec", section') /\ mode' = "exec"
           /\ running' = running /\ saved' = running
    BY <1>8, <2>1, <2>2, <2>3, CommandTurn
  <2>5. running = Meaning(f, kept)
    BY <1>1, <1>4, <1>14 DEF CsrHolds
  <2>6. ASSUME running' = running, saved' = running PROVE CsrHolds(f, kept, lines, r + 1)'
    BY <1>1, <1>4, <2>5, <2>6 DEF CsrHolds
  <2> QED
    BY <1>9, <1>10, <1>11, <1>12, <2>4, <2>6
<1> QED
  BY <1>1, <1>13, <1>14

\* The exit is taken; what runs and is saved stays.
LEMMA CsrRouterSaved ==
  ASSUME Router \/ Drop, driver = "csr", NEW lines, NEW f, NEW kept, CsrSaved(f, kept, lines)
  PROVE  CsrSaved(f, kept, lines)'
<1>1. PICK n : n = Len(lines)
  OBVIOUS
<1>2. /\ step' > 2 * n + 14 /\ running = Meaning(f, kept) /\ saved = running
      /\ mode \in {"exec", "closed"} /\ typed \in {<< >>, <<Say("exit").text>>}
  BY <1>1, RouterFrame DEF place, CsrSaved
<1>3. CASE Drop
  BY <1>1, <1>2, <1>3 DEF Drop, CsrSaved
<1>4. CASE Command
  <2>1. PICK t : t = Say("exit").text
    OBVIOUS
  <2>2. typed = <<t>> /\ mode = "exec" /\ t.word = "exit"
    BY <1>2, <1>4, <2>1 DEF Command, Say
  <2>3. Head(typed) = t /\ Tail(typed) = << >> /\ ~Asked({"write"})
    <3>1. Head(<<t>>) = t /\ Tail(<<t>>) = << >>
      OBVIOUS
    <3> QED
      BY <2>2, <3>1 DEF Asked
  <2>4. After("exit") = "closed"
    BY <2>2 DEF After
  <2>5. mode' = "closed" /\ typed' = << >> /\ running' = running /\ saved' = saved
    BY <1>4, <2>2, <2>3, <2>4 DEF Command, Commits, Writes, Tell
  <2> QED
    BY <1>1, <1>2, <2>5 DEF CsrSaved
<1> QED
  BY <1>2, <1>3, <1>4 DEF Router, Greet, Login, TakeLine, Serve

\* The third wrong password ends the connection.
LEMMA CsrRouterStaysLost ==
  ASSUME TypedInv, Router \/ Drop, driver = "csr", CsrLost
  PROVE  CsrLost'
<1>1. /\ step' = step /\ step \in {2} \cup 5 .. 11
      /\ \A k \in DOMAIN heard : heard[k] = "password"
      /\ \A k \in DOMAIN typed : typed[k].word # "password"
      /\ \/ mode = "closed"
         \/ mode \in {"password", "enable"} /\ tries + Len(typed) >= CsrWrong(step)
  BY RouterFrame DEF place, CsrLost
<1>2. CASE Drop
  BY <1>1, <1>2 DEF Drop, CsrLost
<1>3. CASE Login
  <2>1. typed \in Seq(Texts(file)) /\ typed # << >> /\ heard \in Seq(Token) /\ tries \in Nat
    BY <1>3, TypedFacts DEF TypedInv, TypeOK, Login, Asked
  <2>2. 1 \in DOMAIN typed /\ Head(typed) = typed[1]
    BY <2>1
  <2>3. ~Asked({"password"}) /\ mode \in {"password", "enable"}
    BY <1>1, <1>3, <2>2 DEF Asked, Login
  <2>4. tries' = tries + 1 /\ mode' \in {"closed", mode} /\ Tell(Prompt(mode', 0))
    BY <1>3, <2>3 DEF Login
  <2>5. /\ Prompt("password", 0) = <<"password">> /\ Prompt("closed", 0) = << >>
        /\ Prompt("enable", 0) = <<"password">>
    BY PromptIs
  <2>6. PICK said : said = Prompt(mode', 0)
    OBVIOUS
  <2>7. said \in {<< >>, <<"password">>}
    BY <2>3, <2>4, <2>5, <2>6
  <2>8. typed' = Tail(typed) /\ heard' = heard \o said
    BY <2>4, <2>6 DEF Tell
  <2>9. \A k \in DOMAIN typed' : typed'[k].word # "password"
    <3>1. \A k \in DOMAIN Tail(typed) : k + 1 \in DOMAIN typed /\ Tail(typed)[k] = typed[k + 1]
      BY <2>1
    <3> QED
      BY <1>1, <2>8, <3>1
  <2>10. \A k \in DOMAIN heard' : heard'[k] = "password"
    <3>1. CASE said = << >>
      <4>1. heard \o << >> = heard
        BY <2>1
      <4> QED
        BY <1>1, <2>8, <3>1, <4>1
    <3>2. CASE said = <<"password">>
      <4>1. PICK m : m = Len(heard)
        OBVIOUS
      <4>2. m \in Nat /\ DOMAIN heard = 1 .. m
        BY <2>1, <4>1
      <4>3. heard' = Append(heard, "password")
        BY <2>1, <2>8, <3>2
      <4>4. /\ DOMAIN heard' = 1 .. m + 1 /\ heard'[m + 1] = "password"
            /\ \A k \in 1 .. m : heard'[k] = heard[k]
        BY <2>1, <4>1, <4>3
      <4>5. \A k \in 1 .. m + 1 : k \in 1 .. m \/ k = m + 1
        BY <4>2
      <4> QED
        BY <1>1, <4>2, <4>4, <4>5
    <3> QED
      BY <2>7, <3>1, <3>2
  <2>11. tries' + Len(typed') = tries + Len(typed)
    <3>1. PICK w, m, k : w = tries /\ m = Len(typed) /\ k = Len(Tail(typed))
      OBVIOUS
    <3>2. m \in Nat /\ w \in Nat /\ k = m - 1
      BY <2>1, <3>1
    <3>3. (w + 1) + k = w + m
      BY <3>2
    <3> QED
      BY <2>4, <2>8, <3>1, <3>3
  <2>12. mode' = "closed" \/ (mode' \in {"password", "enable"} /\ tries' + Len(typed') >= CsrWrong(step'))
    BY <1>1, <2>3, <2>4, <2>11
  <2> QED
    BY <1>1, <2>9, <2>10, <2>12 DEF CsrLost
<1> QED
  BY <1>1, <1>2, <1>3 DEF Router, Greet, TakeLine, Command, Serve

\* What the router and the network do on a CSR.
LEMMA CsrRouterLock ==
  ASSUME TypedInv, Router \/ Drop, obliging', driver = "csr",
         NEW f, f = file, NEW kept, kept = Sent(driver, file),
         NEW lines, lines = SentLines(driver, file),
         "hash" \notin Range(file), CsrLock(f, kept, lines)
  PROVE  CsrLock(f, kept, lines)'
<1>1. PICK n : n = Len(lines)
  OBVIOUS
<1>2. n \in Nat /\ step' = step /\ file \in File
  BY <1>1, CsrWorks, RouterFrame, TypedFacts DEF place
<1>3. ASSUME typed = << >>, mode # "connect"
      PROVE  running' = running /\ saved' = saved /\ section' = section
  BY <1>3, RouterIdle
<1>4. CASE CsrOpening
  BY <1>4, CsrGreets DEF CsrLock
<1>5. CASE CsrSending(f, kept, lines)
  <2>1. PICK r \in 2 .. n + 7 :
          step = 2 * r /\ Quiet(CsrMode(lines, r)) /\ CsrHolds(f, kept, lines, r)
    BY <1>1, <1>5 DEF CsrSending
  <2>2. CsrMode(lines, r) # "connect"
    BY DEF CsrMode
  <2>3. Quiet(CsrMode(lines, r))'
    BY <2>1, <2>2, StaysQuiet
  <2>4. CsrHolds(f, kept, lines, r)'
    <3>1. typed = << >> /\ mode # "connect"
      BY <2>1, <2>2 DEF Quiet
    <3> QED
      BY <1>3, <2>1, <3>1, CsrHoldsOn
  <2>5. CsrSending(f, kept, lines)'
    BY <1>1, <1>2, <2>1, <2>3, <2>4 DEF CsrSending
  <2> QED
    BY <2>5 DEF CsrLock
<1>6. CASE CsrAsking(f, kept, lines)
  <2>1. PICK r \in 2 .. n + 6 :
          /\ step = 2 * r + 1
          /\ \/ Typing(CsrMode(lines, r), CsrText(lines, r)) /\ CsrHolds(f, kept, lines, r)
             \/ /\ Answered(CsrMode(lines, r + 1), CsrAnswers(lines, r))
                /\ CsrHolds(f, kept, lines, r + 1)
             \/ Gone
    BY <1>1, <1>6 DEF CsrAsking
  <2>2. CASE Answered(CsrMode(lines, r + 1), CsrAnswers(lines, r)) /\ CsrHolds(f, kept, lines, r + 1)
    <3>1. CsrMode(lines, r + 1) # "connect"
      BY DEF CsrMode
    <3>2. Answered(CsrMode(lines, r + 1), CsrAnswers(lines, r))'
      BY <2>2, <3>1, StaysQuiet
    <3>3. typed = << >> /\ mode # "connect"
      BY <2>2, <3>1 DEF Answered
    <3>4. CsrHolds(f, kept, lines, r + 1)'
      BY <1>3, <2>2, <3>3, CsrHoldsOn
    <3>5. CsrAsking(f, kept, lines)'
      BY <1>1, <1>2, <2>1, <3>2, <3>4, CsrAsks
    <3> QED
      BY <3>5 DEF CsrLock
  <2>3. CASE Gone
    <3>1. Gone'
      <4>1. PICK m : m = CsrMode(lines, r)
        OBVIOUS
      <4>2. m # "connect"
        BY <4>1 DEF CsrMode
      <4> QED
        BY <2>3, <4>2, StaysQuiet
    <3>2. CsrAsking(f, kept, lines)'
      BY <1>1, <1>2, <2>1, <3>1, CsrAsks
    <3> QED
      BY <3>2 DEF CsrLock
  <2>4. CASE Typing(CsrMode(lines, r), CsrText(lines, r)) /\ CsrHolds(f, kept, lines, r)
    <3>1. r = 2 \/ r \in {3, 4} \/ r \in 5 .. n + 4 \/ r \in {n + 5, n + 6}
      <4>1. n \in Nat
        BY <1>2
      <4> QED
        BY <4>1
    <3>2. r <= 4 => running = {}
      BY <2>4 DEF CsrHolds
    <3>3. CASE r = 2
      <4>1. CsrMode(lines, r) = "enable" /\ CsrText(lines, r) = Say("password").text
        BY <3>3 DEF CsrMode, CsrText
      <4>2. step = 5 /\ running = {}
        BY <2>1, <3>2, <3>3
      <4>3. CsrAsking(f, kept, lines)' \/ CsrLost'
        BY <1>1, <1>2, <2>4, <4>1, <4>2, CsrAnswersEnable
      <4> QED
        BY <4>3 DEF CsrLock
    <3>4. CASE r \in {3, 4}
      <4>1. running = {} /\ kept \subseteq Nat \ {0}
        <5>1. r <= 4
          BY <3>4
        <5>2. kept \subseteq Nat \ {0}
          BY <1>2, SentFacts
        <5> QED
          BY <3>2, <5>1, <5>2
      <4>2. CsrAsking(f, kept, lines)'
        BY <1>1, <1>2, <2>1, <2>4, <3>4, <4>1, CsrAnswersEarly
      <4> QED
        BY <4>2 DEF CsrLock
    <3>5. CASE r \in 5 .. n + 4
      <4>1. CsrAsking(f, kept, lines)'
        BY <1>1, <2>1, <2>4, <3>5, CsrAnswersLine
      <4> QED
        BY <4>1 DEF CsrLock
    <3>6. CASE r \in {n + 5, n + 6}
      <4>1. CsrAsking(f, kept, lines)'
        BY <1>1, <2>1, <2>4, <3>6, CsrAnswersLate
      <4> QED
        BY <4>1 DEF CsrLock
    <3> QED
      BY <3>1, <3>3, <3>4, <3>5, <3>6
  <2> QED
    BY <2>1, <2>2, <2>3, <2>4
<1>7. CASE CsrSaved(f, kept, lines)
  BY <1>7, CsrRouterSaved DEF CsrLock
<1>8. CASE CsrLost
  BY <1>8, CsrRouterStaysLost DEF CsrLock
<1> QED
  BY <1>4, <1>5, <1>6, <1>7, <1>8 DEF CsrLock

\* Every step keeps a CSR in step.
LEMMA CsrKept == TypedInv /\ CsrStep /\ [Next]_vars => CsrStep'
<1> SUFFICES ASSUME TypedInv, CsrStep, [Next]_vars PROVE CsrStep'
  OBVIOUS
<1>1. PICK f, kept, lines : f = file /\ kept = Sent(driver, file) /\ lines = SentLines(driver, file)
  OBVIOUS
<1>2. /\ UNCHANGED job /\ (obliging' => obliging) /\ (connected' => connected)
      /\ (result' # "error" => result # "error")
  BY WhichStep, RouterFrame DEF Next, vars, place
<1>3. driver' = driver /\ file' = file
  BY <1>2 DEF job
<1>4. SUFFICES ASSUME CsrPremise' PROVE CsrLock(f, kept, lines)'
  BY <1>1, <1>3 DEF CsrStep
<1>5. driver = "csr" /\ obliging' /\ connected' /\ result' # "error" /\ "hash" \notin Range(file)
  BY <1>3, <1>4 DEF CsrPremise
<1>6. CsrLock(f, kept, lines)
  BY <1>1, <1>2, <1>5 DEF CsrStep, CsrPremise
<1>7. CASE Interpreter
  BY <1>1, <1>5, <1>6, <1>7, CsrInterpreterLock
<1>8. CASE Router \/ Drop
  BY <1>1, <1>5, <1>6, <1>8, CsrRouterLock
<1>9. CASE UNCHANGED vars
  BY <1>6, <1>9 DEF vars, place, router, CsrLock, CsrOpening, CsrSending, CsrAsking, CsrHolds,
       CsrSaved, CsrLost, Quiet, Typing, Answered, Gone
<1> QED
  BY <1>7, <1>8, <1>9 DEF Next

\* Every session begins in step.
LEMMA SuccessInit == Init => XrvStep /\ CsrStep /\ MikroTikStep /\ Ending
<1> SUFFICES ASSUME Init PROVE XrvStep /\ CsrStep /\ MikroTikStep /\ Ending
  OBVIOUS
<1>1. CsrStep
  <2> SUFFICES ASSUME driver = "csr" PROVE CsrOpening
    BY DEF CsrStep, CsrPremise, CsrLock
  <2> QED
    BY DEF Init, CsrOpening, Shelled
<1>2. MikroTikStep
  BY DEF Init, MikroTikStep, MikroTikLock, Quiet, Shelled
<1>3. Ending
  BY DEF Init, Ending
<1> QED
  BY <1>1, <1>2, <1>3, XrvStepInit

\* Where a session of an xRV, a CSR or a MikroTik has come to its end, what was
\* sent runs.
LEMMA SuccessFollows ==
  TypedInv /\ XrvInv /\ XrvStep /\ CsrStep /\ MikroTikStep /\ Ending => SuccessIsReal
<1> SUFFICES ASSUME TypedInv, XrvInv, XrvStep, CsrStep, MikroTikStep, Ending,
                    result = "ok", obliging, driver \in {"xrv", "csr", "mikrotik"},
                    "hash" \notin Range(file), driver = "xrv" => ~EndsInSection(file)
             PROVE  /\ running = Meaning(file, Sent(driver, file))
                    /\ driver = "csr" => saved = running
  BY DEF SuccessIsReal
<1>1. step > Len(script) /\ step \in Nat /\ Len(script) \in Nat
  BY LastIsNoExpect DEF Ending, TypedInv, TypeOK
<1>2. connected
  BY <1>1 DEF Ending
<1>3. PICK f, kept, lines : f = file /\ kept = Sent(driver, file) /\ lines = SentLines(driver, file)
  OBVIOUS
<1>4. PICK whole : whole = Meaning(f, kept)
  OBVIOUS
<1>5. PICK n : n = Len(lines)
  OBVIOUS
<1>6. CASE driver = "xrv"
  <2>1. n \in Nat /\ Len(script) = 2 * n + 12
    BY <1>3, <1>5, <1>6, XrvWorks
  <2>2. n \in Nat /\ step > 2 * n + 12
    BY <1>1, <2>1
  <2>3. XrvLock(lines, whole)
    BY <1>2, <1>3, <1>4, <1>6 DEF XrvStep, XrvPremise
  <2>4. ~XrvOpening /\ ~XrvCommitting(lines) /\ ~XrvLost(lines)
    BY <1>1, <1>5, <2>2 DEF XrvOpening, XrvCommitting, XrvLost
  <2>5. ~XrvSending(lines) /\ ~XrvAsking(lines)
    BY <1>1, <1>5, <2>2 DEF XrvSending, XrvAsking
  <2>6. XrvApplied(lines, whole)
    BY <2>3, <2>4, <2>5 DEF XrvLock
  <2> QED
    BY <1>3, <1>4, <1>6, <2>6 DEF XrvApplied
<1>7. CASE driver = "csr"
  <2>1. n \in Nat /\ Len(script) = 2 * n + 15
    BY <1>3, <1>5, <1>7, CsrWorks
  <2>2. n \in Nat /\ step > 2 * n + 15
    BY <1>1, <2>1
  <2>3. CsrLock(f, kept, lines)
    BY <1>2, <1>3, <1>7 DEF CsrStep, CsrPremise
  <2>4. step > 15
    BY <1>1, <2>2
  <2>5. ~CsrOpening /\ ~CsrLost
    BY <1>1, <2>4 DEF CsrOpening, CsrLost
  <2>6. ~CsrSending(f, kept, lines) /\ ~CsrAsking(f, kept, lines)
    BY <1>1, <1>5, <2>2 DEF CsrSending, CsrAsking
  <2>7. CsrSaved(f, kept, lines)
    BY <2>3, <2>5, <2>6 DEF CsrLock
  <2> QED
    BY <1>3, <2>7 DEF CsrSaved
<1>8. CASE driver = "mikrotik"
  <2>1. Len(script) = 4
    <3>1. script = <<Say("copy"), Waited, Say("load"), Waited>>
      BY <1>8, ShellTypes DEF TypedInv, Script
    <3> QED
      BY <3>1
  <2>2. MikroTikLock(whole)
    BY <1>3, <1>4, <1>8 DEF MikroTikStep
  <2>3. step > 4
    BY <1>1, <2>1
  <2>4. step \notin {1, 2, 3, 4}
    BY <1>1, <2>3
  <2> QED
    BY <1>3, <1>4, <1>8, <2>2, <2>4 DEF MikroTikLock
<1> QED
  BY <1>6, <1>7, <1>8

\* A success an xRV, CSR or MikroTik driver reports is one, for any file and
\* any faults of the network: what was sent runs, and is saved on a CSR, if the
\* router answers within the timeouts and refuses neither the commit nor the
\* write, no line looks like a prompt and the file of an xRV does not end in a
\* section and has no backslash.
THEOREM SuccessIsRealHolds == Spec => []SuccessIsReal
<1>1. Init => TypedInv /\ XrvInv /\ XrvStep /\ CsrStep /\ MikroTikStep /\ Ending
  BY TypedInit, XrvInit, SuccessInit
<1>2. XrvStep /\ CsrStep /\ MikroTikStep /\ Ending /\ TypedInv /\ XrvInv /\ XrvInv' /\ [Next]_vars
        => XrvStep' /\ CsrStep' /\ MikroTikStep' /\ Ending'
  BY XrvKept, CsrKept, MikroTikKept, EndingKept
<1>3. TypedInv /\ XrvInv /\ [Next]_vars => XrvInv'
  BY XrvInvariant
<1> QED
  BY <1>1, <1>2, <1>3, TypedInvariant, SuccessFollows, PTL DEF Spec
=============================================================================
