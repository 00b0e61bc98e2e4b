---------------------------- MODULE FilterProofs ----------------------------
(***************************************************************************)
(* What filtering a sequence keeps: the type, the order, the elements and  *)
(* their being different. Only is a recursive function; that it is defined *)
(* on every prefix and what it computes is shown by induction, with the    *)
(* property to be shown as a set instead of an operator.                   *)
(***************************************************************************)
EXTENDS Filter, SequenceTheorems, WellFoundedInduction, TLAPS

(* Induction over the naturals, with the property as a set.                *)
LEMMA SetInduction ==
  ASSUME NEW S, 0 \in S, \A n \in Nat : n \in S => n + 1 \in S
  PROVE  Nat \subseteq S
<1> DEFINE Less == {p \in Nat \X Nat : p[1] < p[2]}
<1>1. IsWellFoundedOn(Less, Nat)
  BY NatLessThanWellFounded DEF OpToRel
<1> DEFINE T == {n \in Nat : n \notin S}
<1>2. ASSUME T # {} PROVE FALSE
  <2>1. PICK x \in T : \A y \in T : ~(<<y, x>> \in Less)
    <3>1. T \subseteq Nat
      OBVIOUS
    <3> HIDE DEF T, Less
    <3> QED
      BY <1>1, <1>2, <3>1, WFMin
  <2>2. x # 0 /\ x \in Nat /\ x \notin S
    BY <2>1
  <2>3. x - 1 \in Nat /\ (x - 1) + 1 = x /\ x - 1 < x
    BY <2>2
  <2>4. x - 1 \notin T
    BY <2>1, <2>2, <2>3
  <2>5. x - 1 \in S
    BY <2>3, <2>4
  <2> QED
    BY <2>5, <2>3, <2>2
<1> QED
  BY <1>2
-----------------------------------------------------------------------------
(* What the recursion of Kept says of one prefix, given the shorter ones.  *)
Grown(s, S, shorter, n) ==
    IF n = 0 THEN <<>>
    ELSE IF s[n] \in S THEN Append(shorter[n - 1], s[n]) ELSE shorter[n - 1]

Growing(s, S, n, g) == g = [i \in 0 .. n |-> Grown(s, S, g, i)]

(* The recursion has a solution, one prefix after the other.               *)
LEMMA KeptExists ==
  ASSUME NEW s, NEW S
  PROVE  \A n \in Nat : \E g : Growing(s, S, n, g)
<1> DEFINE Good == {n \in Nat : \E g : Growing(s, S, n, g)}
<1>1. 0 \in Good
  <2> DEFINE g == [i \in 0 .. 0 |-> <<>>]
  <2>1. g = [i \in 0 .. 0 |-> Grown(s, S, g, i)]
    BY DEF Grown
  <2> QED
    BY <2>1 DEF Growing
<1>2. ASSUME NEW n \in Nat, n \in Good PROVE n + 1 \in Good
  <2>1. PICK g : g = [i \in 0 .. n |-> Grown(s, S, g, i)]
    BY <1>2 DEF Growing
  <2> DEFINE h == [i \in 0 .. n + 1 |-> IF i <= n THEN g[i] ELSE Grown(s, S, g, i)]
  <2>2. ASSUME NEW i \in 0 .. n + 1 PROVE h[i] = Grown(s, S, h, i)
    <3>1. i = 0 \/ (i - 1 \in 0 .. n /\ i - 1 \in 0 .. n + 1 /\ i - 1 <= n)
      OBVIOUS
    <3>2. i # 0 => h[i - 1] = g[i - 1]
      BY <3>1
    <3>3. Grown(s, S, h, i) = Grown(s, S, g, i)
      BY <3>2 DEF Grown
    <3>4. i <= n => g[i] = Grown(s, S, g, i)
      <4>1. i <= n => i \in 0 .. n
        OBVIOUS
      <4> QED
        BY <2>1, <4>1
    <3> QED
      BY <3>3, <3>4
  <2>3. h = [i \in 0 .. n + 1 |-> Grown(s, S, h, i)]
    <3>1. h = [i \in 0 .. n + 1 |-> h[i]]
      OBVIOUS
    <3> HIDE DEF h
    <3> QED
      BY <2>2, <3>1
  <2>4. Growing(s, S, n + 1, h)
    BY <2>3 DEF Growing
  <2> HIDE DEF h
  <2> QED
    BY <2>4
<1> HIDE DEF Good
<1>3. Nat \subseteq Good
  BY <1>1, <1>2, SetInduction
<1> QED
  BY <1>3 DEF Good

LEMMA KeptGrows ==
  ASSUME NEW s, NEW S, Len(s) \in Nat
  PROVE  \A n \in 0 .. Len(s) : Kept(s, S)[n] = Grown(s, S, Kept(s, S), n)
<1> DEFINE K == CHOOSE g : g = [i \in 0 .. Len(s) |->
                    IF i = 0 THEN <<>>
                    ELSE IF s[i] \in S THEN Append(g[i - 1], s[i]) ELSE g[i - 1]]
<1>1. Kept(s, S) = K
  BY DEF Kept
<1>2. \E g : g = [i \in 0 .. Len(s) |->
                    IF i = 0 THEN <<>>
                    ELSE IF s[i] \in S THEN Append(g[i - 1], s[i]) ELSE g[i - 1]]
  <2>1. PICK g : Growing(s, S, Len(s), g)
    BY KeptExists
  <2>2. g = [i \in 0 .. Len(s) |->
                    IF i = 0 THEN <<>>
                    ELSE IF s[i] \in S THEN Append(g[i - 1], s[i]) ELSE g[i - 1]]
    BY <2>1 DEF Growing, Grown
  <2> QED
    BY <2>2
<1>3. K = [i \in 0 .. Len(s) |->
                    IF i = 0 THEN <<>>
                    ELSE IF s[i] \in S THEN Append(K[i - 1], s[i]) ELSE K[i - 1]]
  BY <1>2
<1> HIDE DEF K
<1> QED
  BY <1>1, <1>3 DEF Grown

(* Only on the empty sequence, and on a sequence that grows at its end.    *)
LEMMA OnlyEmpty ==
  ASSUME NEW S
  PROVE  Only(<<>>, S) = <<>>
<1>1. Len(<<>>) = 0
  OBVIOUS
<1> QED
  BY <1>1, KeptGrows DEF Only, Grown

LEMMA OnlyAppend ==
  ASSUME NEW U, NEW S, NEW s \in Seq(U), NEW e \in U
  PROVE  Only(Append(s, e), S) = IF e \in S THEN Append(Only(s, S), e) ELSE Only(s, S)
<1> DEFINE t == Append(s, e)
           Same == {n \in Nat : n <= Len(s) => Kept(t, S)[n] = Kept(s, S)[n]}
<1>1. /\ Len(s) \in Nat /\ Len(t) = Len(s) + 1 /\ t[Len(s) + 1] = e
      /\ \A i \in 1 .. Len(s) : t[i] = s[i]
  OBVIOUS
<1> HIDE DEF t
<1>2. /\ \A n \in 0 .. Len(s) : Kept(s, S)[n] = Grown(s, S, Kept(s, S), n)
      /\ \A n \in 0 .. Len(t) : Kept(t, S)[n] = Grown(t, S, Kept(t, S), n)
  BY <1>1, KeptGrows
<1>3. 0 \in Same
  <2>1. 0 \in 0 .. Len(s) /\ 0 \in 0 .. Len(t)
    BY <1>1
  <2> QED
    BY <1>2, <2>1 DEF Grown
<1>4. ASSUME NEW n \in Nat, n \in Same PROVE n + 1 \in Same
  <2>1. CASE n + 1 <= Len(s)
    <3>1. /\ n + 1 \in 0 .. Len(s) /\ n + 1 \in 0 .. Len(t) /\ n + 1 \in 1 .. Len(s)
          /\ n + 1 # 0 /\ (n + 1) - 1 = n /\ n <= Len(s)
      BY <1>1, <2>1
    <3>2. Kept(t, S)[n] = Kept(s, S)[n] /\ t[n + 1] = s[n + 1]
      BY <1>1, <1>4, <3>1
    <3>3. Kept(t, S)[n + 1] = Kept(s, S)[n + 1]
      BY <1>2, <3>1, <3>2 DEF Grown
    <3> QED
      BY <3>3
  <2> QED
    BY <1>1, <2>1
<1> HIDE DEF Same
<1>5. Len(s) \in Same
  BY <1>1, <1>3, <1>4, SetInduction
<1>6. Kept(t, S)[Len(s)] = Kept(s, S)[Len(s)]
  BY <1>1, <1>5 DEF Same
<1>7. Kept(t, S)[Len(t)] = Grown(t, S, Kept(t, S), Len(t))
  <2>1. Len(t) \in 0 .. Len(t)
    BY <1>1
  <2> QED
    BY <1>2, <2>1
<1>8. Len(t) # 0 /\ Len(t) - 1 = Len(s)
  BY <1>1
<1>9. Only(t, S) = IF e \in S THEN Append(Only(s, S), e) ELSE Only(s, S)
  BY <1>1, <1>6, <1>7, <1>8 DEF Only, Grown
<1> QED
  BY <1>9 DEF t

(* Induction over sequences that grow at their end.                        *)
LEMMA SeqInduction ==
  ASSUME NEW U, NEW P, <<>> \in P,
         \A s \in Seq(U), e \in U : s \in P => Append(s, e) \in P
  PROVE  Seq(U) \subseteq P
<1> DEFINE Short == {n \in Nat : \A s \in Seq(U) : Len(s) = n => s \in P}
<1>1. 0 \in Short
  <2>1. ASSUME NEW s \in Seq(U), Len(s) = 0 PROVE s \in P
    <3>1. s = <<>>
      BY <2>1, EmptySeq
    <3> QED
      BY <3>1
  <2> QED
    BY <2>1
<1>2. ASSUME NEW n \in Nat, n \in Short PROVE n + 1 \in Short
  <2>1. ASSUME NEW s \in Seq(U), Len(s) = n + 1 PROVE s \in P
    <3>1. s # <<>>
      BY <2>1
    <3>2. PICK front \in Seq(U), last \in U : s = Append(front, last)
      BY <3>1, SequenceEmptyOrAppend
    <3>3. Len(s) = Len(front) + 1 /\ Len(front) \in Nat
      BY <3>2
    <3>4. Len(front) = n
      BY <2>1, <3>3
    <3>5. front \in P
      BY <1>2, <3>4
    <3> QED
      BY <3>2, <3>5
  <2> QED
    BY <2>1
<1> HIDE DEF Short
<1>3. Nat \subseteq Short
  BY <1>1, <1>2, SetInduction
<1>4. ASSUME NEW s \in Seq(U) PROVE s \in P
  <2>1. Len(s) \in Short
    BY <1>3
  <2> QED
    BY <2>1 DEF Short
<1> QED
  BY <1>4
-----------------------------------------------------------------------------
(* What is kept, and from where: strictly increasing places of s that are  *)
(* all the places with an element of S.                                    *)
Places(s, S, at) ==
    /\ at \in [1 .. Len(Only(s, S)) -> 1 .. Len(s)]
    /\ \A j, k \in DOMAIN at : j < k => at[j] < at[k]
    /\ \A k \in DOMAIN at : Only(s, S)[k] = s[at[k]]
    /\ \A i \in 1 .. Len(s) : s[i] \in S => \E k \in DOMAIN at : at[k] = i

LEMMA OnlyType ==
  ASSUME NEW U, NEW S
  PROVE  \A s \in Seq(U) : Only(s, S) \in Seq(U \cap S)
<1> DEFINE P == {s \in Seq(U) : Only(s, S) \in Seq(U \cap S)}
<1>1. <<>> \in P
  <2>1. <<>> \in Seq(U) /\ <<>> \in Seq(U \cap S)
    BY EmptySeq
  <2> QED
    BY <2>1, OnlyEmpty
<1>2. ASSUME NEW s \in Seq(U), NEW e \in U, s \in P PROVE Append(s, e) \in P
  <2>1. Append(s, e) \in Seq(U) /\ Only(s, S) \in Seq(U \cap S)
    BY <1>2
  <2>2. Only(Append(s, e), S) = IF e \in S THEN Append(Only(s, S), e) ELSE Only(s, S)
    BY OnlyAppend
  <2>3. e \in S => Append(Only(s, S), e) \in Seq(U \cap S)
    <3>1. e \in S => e \in U \cap S
      OBVIOUS
    <3> QED
      BY <2>1, <3>1, AppendProperties
  <2>4. Only(Append(s, e), S) \in Seq(U \cap S)
    BY <2>1, <2>2, <2>3
  <2> QED
    BY <2>1, <2>4
<1> HIDE DEF P
<1>3. Seq(U) \subseteq P
  BY <1>1, <1>2, SeqInduction
<1> QED
  BY <1>3 DEF P

LEMMA OnlyPlaces ==
  ASSUME NEW U, NEW S
  PROVE  \A s \in Seq(U) : \E at : Places(s, S, at)
<1> DEFINE P == {s \in Seq(U) : \E at : Places(s, S, at)}
<1>1. <<>> \in P
  <2>1. Places(<<>>, S, <<>>)
    BY OnlyEmpty DEF Places
  <2> QED
    BY <2>1
<1>2. ASSUME NEW s \in Seq(U), NEW e \in U, s \in P PROVE Append(s, e) \in P
  <2> DEFINE t == Append(s, e)
  <2>1. PICK at : Places(s, S, at)
    BY <1>2
  <2>2. /\ t \in Seq(U) /\ Len(s) \in Nat /\ Len(t) = Len(s) + 1 /\ t[Len(s) + 1] = e
        /\ \A i \in 1 .. Len(s) : t[i] = s[i]
    OBVIOUS
  <2>3. Only(t, S) = IF e \in S THEN Append(Only(s, S), e) ELSE Only(s, S)
    BY OnlyAppend
  <2> HIDE DEF t
  <2>4. CASE e \notin S
    <3>1. Places(t, S, at)
      BY <2>1, <2>2, <2>3, <2>4 DEF Places
    <3> QED
      BY <2>2, <3>1 DEF t
  <2>5. CASE e \in S
    <3> DEFINE n == Len(Only(s, S))
               more == [k \in 1 .. n + 1 |-> IF k <= n THEN at[k] ELSE Len(s) + 1]
    <3>1. /\ n \in Nat /\ Len(Only(t, S)) = n + 1 /\ Only(t, S)[n + 1] = e
          /\ \A k \in 1 .. n : Only(t, S)[k] = Only(s, S)[k]
      BY <2>3, <2>5, OnlyType
    <3>2. /\ at \in [1 .. n -> 1 .. Len(s)]
          /\ \A j, k \in 1 .. n : j < k => at[j] < at[k]
          /\ \A k \in 1 .. n : Only(s, S)[k] = s[at[k]]
          /\ \A i \in 1 .. Len(s) : s[i] \in S => \E k \in 1 .. n : at[k] = i
      BY <2>1 DEF Places
    <3> HIDE DEF n
    <3>3. /\ \A k \in 1 .. n : k \in 1 .. n + 1 /\ more[k] = at[k] /\ at[k] \in 1 .. Len(s)
          /\ n + 1 \in 1 .. n + 1 /\ more[n + 1] = Len(s) + 1
          /\ \A k \in 1 .. n + 1 : k \in 1 .. n \/ k = n + 1
      BY <3>1, <3>2
    <3>4. DOMAIN more = 1 .. n + 1
      OBVIOUS
    <3>5. more \in [1 .. n + 1 -> 1 .. Len(t)]
      <4>1. \A k \in 1 .. n + 1 : (IF k <= n THEN at[k] ELSE Len(s) + 1) \in 1 .. Len(t)
        BY <2>2, <3>1, <3>2
      <4> QED
        BY <4>1
    <3> HIDE DEF more
    <3>6. \A j, k \in 1 .. n + 1 : j < k => more[j] < more[k]
      <4> SUFFICES ASSUME NEW j \in 1 .. n + 1, NEW k \in 1 .. n + 1, j < k
                   PROVE  more[j] < more[k]
        OBVIOUS
      <4>1. j \in 1 .. n
        BY <3>1
      <4>2. CASE k \in 1 .. n
        BY <3>2, <3>3, <4>1, <4>2
      <4>3. CASE k = n + 1
        BY <2>2, <3>3, <4>1, <4>3
      <4> QED
        BY <3>3, <4>2, <4>3
    <3>7. \A k \in 1 .. n + 1 : Only(t, S)[k] = t[more[k]]
      <4> SUFFICES ASSUME NEW k \in 1 .. n + 1 PROVE Only(t, S)[k] = t[more[k]]
        OBVIOUS
      <4>1. CASE k \in 1 .. n
        <5>1. Only(t, S)[k] = Only(s, S)[k] /\ Only(s, S)[k] = s[at[k]]
          BY <3>1, <3>2, <4>1
        <5>2. more[k] = at[k] /\ at[k] \in 1 .. Len(s)
          BY <3>3, <4>1
        <5> QED
          BY <2>2, <5>1, <5>2
      <4>2. CASE k = n + 1
        BY <2>2, <3>1, <3>3, <4>2
      <4> QED
        BY <3>3, <4>1, <4>2
    <3>8. \A i \in 1 .. Len(t) : t[i] \in S => \E k \in 1 .. n + 1 : more[k] = i
      <4> SUFFICES ASSUME NEW i \in 1 .. Len(t), t[i] \in S
                   PROVE  \E k \in 1 .. n + 1 : more[k] = i
        OBVIOUS
      <4>1. CASE i = Len(s) + 1
        BY <3>3, <4>1
      <4>2. CASE i \in 1 .. Len(s)
        BY <2>2, <3>2, <3>3, <4>2
      <4> QED
        BY <2>2, <4>1, <4>2
    <3>9. Places(t, S, more)
      BY <3>1, <3>4, <3>5, <3>6, <3>7, <3>8 DEF Places
    <3> QED
      BY <2>2, <3>9 DEF t
  <2> QED
    BY <2>4, <2>5
<1> HIDE DEF P
<1>3. Seq(U) \subseteq P
  BY <1>1, <1>2, SeqInduction
<1> QED
  BY <1>3 DEF P
-----------------------------------------------------------------------------
(* Filtering keeps the elements, and what is not repeated or decreasing.   *)
LEMMA OnlyElements ==
  ASSUME NEW U, NEW S, NEW s \in Seq(U)
  PROVE  /\ Only(s, S) \in Seq(U) /\ Only(s, S) \in Seq(U \cap S)
         /\ Len(Only(s, S)) \in Nat /\ Len(Only(s, S)) <= Len(s)
         /\ {Only(s, S)[k] : k \in 1 .. Len(Only(s, S))} = {s[i] : i \in 1 .. Len(s)} \cap S
         /\ (\A i, j \in 1 .. Len(s) : s[i] = s[j] => i = j) =>
              \A i, j \in 1 .. Len(Only(s, S)) : Only(s, S)[i] = Only(s, S)[j] => i = j
<1> DEFINE o == Only(s, S)
<1>1. o \in Seq(U \cap S) /\ o \in Seq(U)
  <2>1. U \cap S \subseteq U
    OBVIOUS
  <2> QED
    BY <2>1, OnlyType, SeqMonotonic
<1>2. PICK at : Places(s, S, at)
  BY OnlyPlaces
<1>3. /\ at \in [1 .. Len(o) -> 1 .. Len(s)]
      /\ \A j, k \in 1 .. Len(o) : j < k => at[j] < at[k]
      /\ \A k \in 1 .. Len(o) : o[k] = s[at[k]]
      /\ \A i \in 1 .. Len(s) : s[i] \in S => \E k \in 1 .. Len(o) : at[k] = i
  BY <1>2 DEF Places
<1>4. Len(o) \in Nat /\ Len(s) \in Nat /\ \A k \in 1 .. Len(o) : o[k] \in U \cap S
  BY <1>1
<1> HIDE DEF o
<1>5. Len(o) <= Len(s)
  <2> DEFINE P == {k \in Nat : k \in 1 .. Len(o) => at[k] >= k}
  <2>1. 0 \in P
    OBVIOUS
  <2>2. ASSUME NEW k \in Nat, k \in P PROVE k + 1 \in P
    <3>1. CASE k \in 1 .. Len(o) /\ k + 1 \in 1 .. Len(o)
      <4>1. at[k] >= k /\ at[k] < at[k + 1] /\ at[k] \in Nat /\ at[k + 1] \in Nat
        BY <1>3, <2>2, <3>1
      <4> QED
        BY <4>1
    <3>2. CASE k + 1 \in 1 .. Len(o) /\ k \notin 1 .. Len(o)
      <4>1. k = 0 /\ at[k + 1] \in 1 .. Len(s)
        BY <1>3, <1>4, <3>2
      <4> QED
        BY <4>1
    <3> QED
      BY <3>1, <3>2
  <2> HIDE DEF P
  <2>3. Nat \subseteq P
    BY <2>1, <2>2, SetInduction
  <2>4. CASE Len(o) > 0
    <3>1. Len(o) \in 1 .. Len(o) /\ Len(o) \in P
      BY <1>4, <2>3, <2>4
    <3>2. at[Len(o)] >= Len(o) /\ at[Len(o)] \in 1 .. Len(s)
      BY <1>3, <3>1 DEF P
    <3> QED
      BY <1>4, <3>2
  <2> QED
    BY <1>4, <2>4
<1>6. {o[k] : k \in 1 .. Len(o)} = {s[i] : i \in 1 .. Len(s)} \cap S
  <2>1. ASSUME NEW k \in 1 .. Len(o) PROVE o[k] \in {s[i] : i \in 1 .. Len(s)} \cap S
    BY <1>3, <1>4
  <2>2. ASSUME NEW i \in 1 .. Len(s), s[i] \in S
        PROVE  s[i] \in {o[k] : k \in 1 .. Len(o)}
    BY <1>3, <2>2
  <2> QED
    BY <2>1, <2>2
<1>7. ASSUME \A i, j \in 1 .. Len(s) : s[i] = s[j] => i = j,
             NEW i \in 1 .. Len(o), NEW j \in 1 .. Len(o), o[i] = o[j]
      PROVE  i = j
  <2>1. at[i] = at[j]
    BY <1>3, <1>7
  <2>2. i < j \/ j < i \/ i = j
    BY <1>4
  <2>3. at[i] \in Nat /\ at[j] \in Nat
    BY <1>3
  <2> QED
    BY <1>3, <2>1, <2>2, <2>3
<1>8. (\A i, j \in 1 .. Len(s) : s[i] = s[j] => i = j) =>
        \A i, j \in 1 .. Len(o) : o[i] = o[j] => i = j
  BY <1>7
<1> QED
  BY <1>1, <1>4, <1>5, <1>6, <1>8 DEF o

(* Filtering piece by piece.                                               *)
LEMMA OnlyConcat ==
  ASSUME NEW U, NEW S, NEW s \in Seq(U)
  PROVE  \A t \in Seq(U) : Only(s \o t, S) = Only(s, S) \o Only(t, S)
<1> DEFINE P == {t \in Seq(U) : Only(s \o t, S) = Only(s, S) \o Only(t, S)}
<1>1. <<>> \in P
  <2>1. <<>> \in Seq(U) /\ s \o <<>> = s /\ Only(s, S) \o <<>> = Only(s, S)
    BY ConcatEmptySeq, EmptySeq, OnlyElements
  <2> QED
    BY <2>1, OnlyEmpty
<1>2. ASSUME NEW t \in Seq(U), NEW e \in U, t \in P PROVE Append(t, e) \in P
  <2>1. s \o Append(t, e) = Append(s \o t, e) /\ s \o t \in Seq(U) /\ Append(t, e) \in Seq(U)
    <3>1. <<e>> \in Seq(U) /\ Append(t, e) = t \o <<e>> /\ s \o t \in Seq(U)
      BY AppendIsConcat
    <3>2. Append(s \o t, e) = (s \o t) \o <<e>>
      BY <3>1, AppendIsConcat
    <3> QED
      BY <3>1, <3>2, ConcatAssociative, AppendProperties
  <2>2. /\ Only(Append(s \o t, e), S) =
             IF e \in S THEN Append(Only(s \o t, S), e) ELSE Only(s \o t, S)
        /\ Only(Append(t, e), S) = IF e \in S THEN Append(Only(t, S), e) ELSE Only(t, S)
    <3> DEFINE st == s \o t
    <3>1. st \in Seq(U)
      BY <2>1
    <3> HIDE DEF st
    <3>2. Only(Append(st, e), S) = IF e \in S THEN Append(Only(st, S), e) ELSE Only(st, S)
      BY <3>1, OnlyAppend
    <3>3. Only(Append(t, e), S) = IF e \in S THEN Append(Only(t, S), e) ELSE Only(t, S)
      BY OnlyAppend
    <3> QED
      BY <3>2, <3>3 DEF st
  <2>3. Only(s \o t, S) = Only(s, S) \o Only(t, S)
    BY <1>2
  <2>4. Only(s, S) \in Seq(U) /\ Only(t, S) \in Seq(U)
    BY OnlyElements
  <2>5. \A a, b \in Seq(U) : Append(a \o b, e) = a \o Append(b, e)
    <3> SUFFICES ASSUME NEW a \in Seq(U), NEW b \in Seq(U)
                 PROVE  Append(a \o b, e) = a \o Append(b, e)
      OBVIOUS
    <3>1. <<e>> \in Seq(U) /\ Append(b, e) = b \o <<e>> /\ a \o b \in Seq(U)
      BY AppendIsConcat
    <3>2. Append(a \o b, e) = (a \o b) \o <<e>>
      BY <3>1, AppendIsConcat
    <3> QED
      BY <3>1, <3>2, ConcatAssociative
  <2>6. Append(Only(s, S) \o Only(t, S), e) = Only(s, S) \o Append(Only(t, S), e)
    BY <2>4, <2>5
  <2>7. Only(s \o Append(t, e), S) = Only(s, S) \o Only(Append(t, e), S)
    BY <2>1, <2>2, <2>3, <2>6
  <2> QED
    BY <2>1, <2>7
<1> HIDE DEF P
<1>3. Seq(U) \subseteq P
  BY <1>1, <1>2, SeqInduction
<1> QED
  BY <1>3 DEF P

LEMMA OnlySingle ==
  ASSUME NEW U, NEW S, NEW e \in U
  PROVE  Only(<<e>>, S) = IF e \in S THEN <<e>> ELSE <<>>
<1> DEFINE none == <<>>
<1>1. none \in Seq(U)
  BY EmptySeq
<1>2. Append(none, e) = <<e>> /\ Only(none, S) = none
  BY OnlyEmpty
<1> HIDE DEF none
<1>3. Only(Append(none, e), S) = IF e \in S THEN Append(Only(none, S), e) ELSE Only(none, S)
  BY <1>1, OnlyAppend
<1>4. Only(<<e>>, S) = IF e \in S THEN Append(none, e) ELSE none
  BY <1>2, <1>3
<1> QED
  BY <1>2, <1>4 DEF none

LEMMA OnlyHead ==
  ASSUME NEW U, NEW S, NEW s \in Seq(U), s # <<>>
  PROVE  Only(s, S) = IF Head(s) \in S THEN <<Head(s)>> \o Only(Tail(s), S)
                      ELSE Only(Tail(s), S)
<1>1. Head(s) \in U /\ Tail(s) \in Seq(U) /\ s = <<Head(s)>> \o Tail(s) /\ <<Head(s)>> \in Seq(U)
  OBVIOUS
<1>2. Only(s, S) = Only(<<Head(s)>>, S) \o Only(Tail(s), S)
  BY <1>1, OnlyConcat
<1>3. Only(<<Head(s)>>, S) = IF Head(s) \in S THEN <<Head(s)>> ELSE <<>>
  BY <1>1, OnlySingle
<1>4. <<>> \o Only(Tail(s), S) = Only(Tail(s), S)
  BY <1>1, OnlyElements, ConcatEmptySeq
<1> QED
  BY <1>2, <1>3, <1>4

LEMMA OnlyAll ==
  ASSUME NEW U, NEW S
  PROVE  \A s \in Seq(U) : (\A i \in 1 .. Len(s) : s[i] \in S) => Only(s, S) = s
<1> DEFINE P == {s \in Seq(U) : (\A i \in 1 .. Len(s) : s[i] \in S) => Only(s, S) = s}
<1>1. <<>> \in P
  BY OnlyEmpty, EmptySeq
<1>2. ASSUME NEW s \in Seq(U), NEW e \in U, s \in P PROVE Append(s, e) \in P
  <2> DEFINE t == Append(s, e)
  <2>1. /\ t \in Seq(U) /\ Len(s) \in Nat /\ Len(t) = Len(s) + 1 /\ t[Len(s) + 1] = e
        /\ \A i \in 1 .. Len(s) : t[i] = s[i]
    OBVIOUS
  <2>2. Only(t, S) = IF e \in S THEN Append(Only(s, S), e) ELSE Only(s, S)
    BY OnlyAppend
  <2> HIDE DEF t
  <2>3. ASSUME \A i \in 1 .. Len(t) : t[i] \in S PROVE Only(t, S) = t
    <3>1. \A i \in 1 .. Len(s) : s[i] = t[i] /\ i \in 1 .. Len(t)
      BY <2>1
    <3>2. Only(s, S) = s
      BY <1>2, <2>3, <3>1
    <3>3. Len(s) + 1 \in 1 .. Len(t)
      BY <2>1
    <3>4. e \in S
      BY <2>1, <2>3, <3>3
    <3> QED
      BY <2>2, <3>2, <3>4 DEF t
  <2> QED
    BY <2>1, <2>3 DEF t
<1> HIDE DEF P
<1>3. Seq(U) \subseteq P
  BY <1>1, <1>2, SeqInduction
<1> QED
  BY <1>3 DEF P
=============================================================================
