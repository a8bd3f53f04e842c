--------------------------- MODULE SequenceLemmas ---------------------------
(***************************************************************************)
(* Induction, and what FlattenSeq of SequencesExt computes: the facts the  *)
(* proofs of the other modules need and the library does not state.  Its   *)
(* induction theorems take an operator; here the property to be shown of   *)
(* every number, or of every sequence, is a set that holds it.             *)
(***************************************************************************)
EXTENDS Integers, Sequences, SequencesExt, SequenceTheorems, WellFoundedInduction, TLAPS

\* A nonempty set of natural numbers has a least element.
LEMMA LeastNat ==
    ASSUME NEW T \in SUBSET Nat, T # {}
    PROVE  \E n \in T : \A m \in T : n <= m
<1> DEFINE R == OpToRel(<, Nat)
<1>1. IsWellFoundedOn(R, Nat)
  BY NatLessThanWellFounded
<1>2. \A x, y \in Nat : x < y => <<x, y>> \in R
  BY DEF OpToRel
<1> HIDE DEF R
<1>3. PICK n \in T : \A y \in T : ~(<<y, n>> \in R)
  BY <1>1, WFMin
<1>4. ASSUME NEW m \in T PROVE n <= m
  <2>1. n \in Nat /\ m \in Nat /\ ~(m < n)
    BY <1>2, <1>3
  <2> QED BY <2>1
<1> QED
  BY <1>4

\* A set with 0, and with n + 1 whenever it has n, has every natural number.
LEMMA NatSetInduction ==
    ASSUME NEW T, 0 \in T, \A n \in Nat : n \in T => n + 1 \in T
    PROVE  Nat \subseteq T
<1> DEFINE U == Nat \ T
<1> SUFFICES ASSUME U # {} PROVE FALSE
  OBVIOUS
<1>1. U \in SUBSET Nat
  OBVIOUS
<1>2. PICK n \in U : \A m \in U : n <= m
  <2> HIDE DEF U
  <2> QED BY <1>1, LeastNat
<1>3. n # 0 /\ n - 1 \in Nat /\ n - 1 \notin U
  BY <1>2
<1> QED
  BY <1>2, <1>3

\* A set with the empty sequence, and with Append(s, x) whenever it has s, has
\* every sequence.
LEMMA SeqSetInduction ==
    ASSUME NEW S, NEW T, << >> \in T,
           \A s \in Seq(S), x \in S : s \in T => Append(s, x) \in T
    PROVE  Seq(S) \subseteq T
<1> DEFINE N == {n \in Nat : \A s \in Seq(S) : Len(s) = n => s \in T}
<1>1. 0 \in N
  BY EmptySeq
<1>2. ASSUME NEW n \in Nat, n \in N PROVE n + 1 \in N
  <2> SUFFICES ASSUME NEW s \in Seq(S), Len(s) = n + 1 PROVE s \in T
    OBVIOUS
  <2> DEFINE front == SubSeq(s, 1, n)
  <2>1. front \in Seq(S) /\ Len(front) = n /\ s[n + 1] \in S
    OBVIOUS
  <2>2. s = Append(front, s[n + 1])
    OBVIOUS
  <2>3. front \in T
    BY <1>2, <2>1
  <2> HIDE DEF front
  <2> QED BY <2>1, <2>2, <2>3
<1> HIDE DEF N
<1>3. Nat \subseteq N
  BY <1>1, <1>2, NatSetInduction
<1> QED
  BY <1>3 DEF N

-----------------------------------------------------------------------------

\* The partial concatenations of s, which FlattenSeq is defined by.
IsFlattening(g, s) ==
    g = [i \in 1 .. Len(s) |-> IF i = 1 THEN s[i] ELSE g[i - 1] \o s[i]]

LEMMA FlatteningExists ==
    ASSUME NEW s, Len(s) \in Nat
    PROVE  \E g : IsFlattening(g, s)
<1> DEFINE Upto(g, n) == g = [i \in 1 .. n |-> IF i = 1 THEN s[i] ELSE g[i - 1] \o s[i]]
           T == {n \in Nat : \E g : Upto(g, n)}
<1>1. 0 \in T
  <2>1. Upto(<< >>, 0)
    OBVIOUS
  <2> QED BY <2>1
<1>2. ASSUME NEW n \in Nat, n \in T PROVE n + 1 \in T
  <2>1. PICK g : Upto(g, n)
    BY <1>2
  <2> DEFINE h == [i \in 1 .. n + 1 |->
                      IF i \in 1 .. n THEN g[i] ELSE IF i = 1 THEN s[i] ELSE g[i - 1] \o s[i]]
             e(i) == IF i = 1 THEN s[i] ELSE h[i - 1] \o s[i]
  <2>2. \A i \in 1 .. n + 1 : h[i] = e(i)
    <3> SUFFICES ASSUME NEW i \in 1 .. n + 1 PROVE h[i] = e(i)
      OBVIOUS
    <3>1. i # 1 => i - 1 \in 1 .. n /\ h[i - 1] = g[i - 1]
      OBVIOUS
    <3>2. i \in 1 .. n => g[i] = IF i = 1 THEN s[i] ELSE g[i - 1] \o s[i]
      BY <2>1
    <3> QED BY <3>1, <3>2
  <2>3. h = [i \in 1 .. n + 1 |-> h[i]]
    OBVIOUS
  <2> HIDE DEF h
  <2>4. h = [i \in 1 .. n + 1 |-> e(i)]
    BY <2>2, <2>3
  <2>5. Upto(h, n + 1)
    BY <2>4
  <2> HIDE DEF Upto
  <2> QED BY <2>5
<1> HIDE DEF T
<1>3. Len(s) \in T
  BY <1>1, <1>2, NatSetInduction
<1> QED
  BY <1>3 DEF T, IsFlattening

\* Read one by one: the first item, and each further one added.
LEMMA FlatteningSteps ==
    ASSUME NEW g, NEW s, Len(s) \in Nat, IsFlattening(g, s)
    PROVE  /\ 1 \in 1 .. Len(s) => g[1] = s[1]
           /\ \A i \in 1 .. Len(s) : i # 1 => g[i] = g[i - 1] \o s[i]
<1> DEFINE e(i) == IF i = 1 THEN s[i] ELSE g[i - 1] \o s[i]
<1>1. g = [i \in 1 .. Len(s) |-> e(i)]
  BY DEF IsFlattening
<1> HIDE DEF e
<1>2. \A i \in 1 .. Len(s) : g[i] = e(i)
  BY <1>1
<1> QED
  BY <1>2 DEF e

LEMMA FlattenByFlattening ==
    ASSUME NEW s, Len(s) \in Nat, Len(s) # 0
    PROVE  \E g : IsFlattening(g, s) /\ FlattenSeq(s) = g[Len(s)]
<1> DEFINE f == CHOOSE g : g = [i \in 1 .. Len(s) |-> IF i = 1 THEN s[i] ELSE g[i - 1] \o s[i]]
<1>1. IsFlattening(f, s)
  BY FlatteningExists, Zenon DEF IsFlattening
<1>2. FlattenSeq(s) = f[Len(s)]
  BY Zenon DEF FlattenSeq
<1> QED
  BY <1>1, <1>2, Zenon

\* The concatenation of the empty sequence, and of one item more.
LEMMA FlattenEmpty == FlattenSeq(<< >>) = << >>
<1>1. Len(<< >>) = 0
  OBVIOUS
<1> QED
  BY <1>1, Zenon DEF FlattenSeq

LEMMA FlattenAppend ==
    ASSUME NEW S, NEW s \in Seq(Seq(S)), NEW x \in Seq(S)
    PROVE  FlattenSeq(Append(s, x)) = FlattenSeq(s) \o x
<1> DEFINE t == Append(s, x)
           n == Len(s)
<1>1. t \in Seq(Seq(S)) /\ n \in Nat /\ Len(t) = n + 1 /\ t[n + 1] = x
      /\ \A i \in 1 .. n : t[i] = s[i]
  OBVIOUS
<1> HIDE DEF t
<1>2. PICK g : IsFlattening(g, t) /\ FlattenSeq(t) = g[Len(t)]
  BY <1>1, FlattenByFlattening
<1>3. Len(t) \in Nat
  BY <1>1
<1>4. /\ 1 \in 1 .. Len(t) => g[1] = t[1]
      /\ \A i \in 1 .. Len(t) : i # 1 => g[i] = g[i - 1] \o t[i]
  BY <1>2, <1>3, FlatteningSteps, Zenon
<1>5. CASE n = 0
  <2>1. s = << >> /\ x = << >> \o x
    BY <1>5
  <2>2. g[1] = x /\ FlattenSeq(t) = g[1]
    BY <1>1, <1>2, <1>5, <1>4
  <2> QED BY <2>1, <2>2, FlattenEmpty DEF t
<1>6. CASE n # 0
  <2>1. PICK f : IsFlattening(f, s) /\ FlattenSeq(s) = f[n]
    BY <1>1, <1>6, FlattenByFlattening
  <2>2. /\ 1 \in 1 .. Len(s) => f[1] = s[1]
        /\ \A i \in 1 .. Len(s) : i # 1 => f[i] = f[i - 1] \o s[i]
    BY <1>1, <2>1, FlatteningSteps, Zenon
  <2> DEFINE T == {k \in Nat : k + 1 \in 1 .. n => f[k + 1] = g[k + 1]}
  <2>3. 0 \in T
    BY <1>1, <1>4, <2>2
  <2>4. ASSUME NEW k \in Nat, k \in T PROVE k + 1 \in T
    <3> SUFFICES ASSUME k + 2 \in 1 .. n PROVE f[k + 2] = g[k + 2]
      OBVIOUS
    <3>1. f[k + 1] = g[k + 1]
      BY <2>4, <1>1
    <3>2. f[k + 2] = f[k + 1] \o s[k + 2]
      <4>1. k + 2 \in 1 .. Len(s) /\ k + 2 # 1 /\ (k + 2) - 1 = k + 1
        BY <1>1
      <4> QED BY <2>2, <4>1
    <3>3. g[k + 2] = g[k + 1] \o t[k + 2]
      <4>1. k + 2 \in 1 .. Len(t) /\ k + 2 # 1 /\ (k + 2) - 1 = k + 1
        BY <1>1
      <4> QED BY <1>4, <4>1
    <3> QED BY <3>1, <3>2, <3>3, <1>1
  <2> HIDE DEF T
  <2>5. Nat \subseteq T
    BY <2>3, <2>4, NatSetInduction
  <2>6. f[n] = g[n]
    <3>1. n - 1 \in Nat /\ n - 1 \in T
      BY <2>5, <1>1, <1>6
    <3> QED BY <3>1, <1>1, <1>6 DEF T
  <2>7. g[n + 1] = g[n] \o t[n + 1]
    <3>1. n + 1 \in 1 .. Len(t) /\ n + 1 # 1 /\ (n + 1) - 1 = n
      BY <1>1, <1>6
    <3> QED BY <1>4, <3>1
  <2> QED BY <2>1, <2>6, <2>7, <1>1, <1>2 DEF t
<1> QED
  BY <1>5, <1>6

\* FlattenSeq returns a sequence of the items' elements.
LEMMA FlattenInSeq ==
    ASSUME NEW S, NEW s \in Seq(Seq(S))
    PROVE  FlattenSeq(s) \in Seq(S)
<1> DEFINE T == {t \in Seq(Seq(S)) : FlattenSeq(t) \in Seq(S)}
<1>1. << >> \in T
  BY FlattenEmpty, EmptySeq, Zenon
<1>2. ASSUME NEW t \in Seq(Seq(S)), NEW x \in Seq(S), t \in T PROVE Append(t, x) \in T
  <2>1. Append(t, x) \in Seq(Seq(S))
    BY AppendProperties
  <2>2. FlattenSeq(t) \o x \in Seq(S)
    BY <1>2
  <2> QED BY <2>1, <2>2, FlattenAppend, Zenon
<1> HIDE DEF T
<1>3. Seq(Seq(S)) \subseteq T
  BY <1>1, <1>2, SeqSetInduction
<1> QED
  BY <1>3 DEF T

\* Its elements are those of the items.
LEMMA FlattenToSet ==
    ASSUME NEW S, NEW s \in Seq(Seq(S))
    PROVE  ToSet(FlattenSeq(s)) = UNION {ToSet(s[i]) : i \in DOMAIN s}
<1> DEFINE All(t) == UNION {ToSet(t[i]) : i \in DOMAIN t}
           T == {t \in Seq(Seq(S)) : ToSet(FlattenSeq(t)) = All(t)}
<1>1. << >> \in T
  BY FlattenEmpty DEF ToSet
<1>2. ASSUME NEW t \in Seq(Seq(S)), NEW x \in Seq(S), t \in T PROVE Append(t, x) \in T
  <2>1. FlattenSeq(t) \in Seq(S) /\ FlattenSeq(Append(t, x)) = FlattenSeq(t) \o x
    BY FlattenInSeq, FlattenAppend
  <2>2. ASSUME NEW a, NEW b, a \in Seq(S), b \in Seq(S) PROVE ToSet(a \o b) = ToSet(a) \cup ToSet(b)
    <3>1. DOMAIN (a \o b) = 1 .. Len(a) + Len(b) /\ DOMAIN a = 1 .. Len(a) /\ DOMAIN b = 1 .. Len(b)
          /\ Len(a) \in Nat /\ Len(b) \in Nat
      BY <2>2
    <3>2. \A i \in 1 .. Len(a) : (a \o b)[i] = a[i]
      BY <2>2
    <3>3. \A i \in 1 .. Len(b) : (a \o b)[Len(a) + i] = b[i] /\ Len(a) + i \in 1 .. Len(a) + Len(b)
      BY <2>2
    <3>4. \A i \in 1 .. Len(a) + Len(b) : i \in 1 .. Len(a) \/ (i - Len(a) \in 1 .. Len(b) /\ i = Len(a) + (i - Len(a)))
      BY <3>1
    <3>5. ASSUME NEW e \in ToSet(a \o b) PROVE e \in ToSet(a) \cup ToSet(b)
      <4>1. PICK i \in 1 .. Len(a) + Len(b) : e = (a \o b)[i]
        BY <3>1 DEF ToSet
      <4> QED BY <4>1, <3>1, <3>2, <3>3, <3>4 DEF ToSet
    <3>6. ASSUME NEW e \in ToSet(a) PROVE e \in ToSet(a \o b)
      BY <3>1, <3>2 DEF ToSet
    <3>7. ASSUME NEW e \in ToSet(b) PROVE e \in ToSet(a \o b)
      BY <3>1, <3>3 DEF ToSet
    <3> QED BY <3>5, <3>6, <3>7
  <2>3. ToSet(FlattenSeq(Append(t, x))) = All(t) \cup ToSet(x)
    BY <1>2, <2>1, <2>2
  <2>4. All(Append(t, x)) = All(t) \cup ToSet(x)
    <3> DEFINE u == Append(t, x)
    <3>1. DOMAIN u = DOMAIN t \cup {Len(t) + 1} /\ u[Len(t) + 1] = x /\ \A i \in DOMAIN t : u[i] = t[i]
      OBVIOUS
    <3> HIDE DEF u
    <3>2. All(u) = All(t) \cup ToSet(x)
      BY <3>1
    <3> QED BY <3>2 DEF u
  <2>5. Append(t, x) \in Seq(Seq(S))
    BY AppendProperties
  <2> QED BY <2>3, <2>4, <2>5, Zenon
<1> HIDE DEF T
<1>3. Seq(Seq(S)) \subseteq T
  BY <1>1, <1>2, SeqSetInduction
<1> QED
  BY <1>3 DEF T

\* The concatenation of two lists of items, one after the other.
LEMMA FlattenConcat ==
    ASSUME NEW S, NEW s \in Seq(Seq(S)), NEW r \in Seq(Seq(S))
    PROVE  FlattenSeq(s \o r) = FlattenSeq(s) \o FlattenSeq(r)
<1> DEFINE T == {t \in Seq(Seq(S)) : FlattenSeq(s \o t) = FlattenSeq(s) \o FlattenSeq(t)}
<1>1. << >> \in T
  BY FlattenEmpty, FlattenInSeq, ConcatEmptySeq, EmptySeq
<1>2. ASSUME NEW t \in Seq(Seq(S)), NEW x \in Seq(S), t \in T PROVE Append(t, x) \in T
  <2>1. s \o Append(t, x) = Append(s \o t, x) /\ s \o t \in Seq(Seq(S))
    OBVIOUS
  <2>2. FlattenSeq(Append(s \o t, x)) = (FlattenSeq(s) \o FlattenSeq(t)) \o x
    BY <1>2, <2>1, FlattenAppend
  <2>3. FlattenSeq(Append(t, x)) = FlattenSeq(t) \o x
    BY FlattenAppend
  <2>4. FlattenSeq(s) \in Seq(S) /\ FlattenSeq(t) \in Seq(S)
    BY FlattenInSeq
  <2>5. (FlattenSeq(s) \o FlattenSeq(t)) \o x = FlattenSeq(s) \o (FlattenSeq(t) \o x)
    BY <2>4, ConcatAssociative
  <2>6. Append(t, x) \in Seq(Seq(S))
    BY AppendProperties
  <2> QED BY <2>1, <2>2, <2>3, <2>5, <2>6, Zenon
<1> HIDE DEF T
<1>3. Seq(Seq(S)) \subseteq T
  BY <1>1, <1>2, SeqSetInduction
<1> QED
  BY <1>3 DEF T

\* Items of at most one element make a sequence that is not longer.
LEMMA FlattenShort ==
    ASSUME NEW S, NEW s \in Seq(Seq(S)), \A i \in DOMAIN s : Len(s[i]) <= 1
    PROVE  Len(FlattenSeq(s)) <= Len(s)
<1> DEFINE T == {t \in Seq(Seq(S)) : (\A i \in DOMAIN t : Len(t[i]) <= 1) => Len(FlattenSeq(t)) <= Len(t)}
<1>1. << >> \in T
  BY FlattenEmpty
<1>2. ASSUME NEW t \in Seq(Seq(S)), NEW x \in Seq(S), t \in T PROVE Append(t, x) \in T
  <2> DEFINE u == Append(t, x)
  <2>1. DOMAIN u = DOMAIN t \cup {Len(t) + 1} /\ u[Len(t) + 1] = x /\ (\A i \in DOMAIN t : u[i] = t[i])
        /\ Len(u) = Len(t) + 1 /\ u \in Seq(Seq(S))
    OBVIOUS
  <2>2. FlattenSeq(u) = FlattenSeq(t) \o x /\ FlattenSeq(t) \in Seq(S)
    BY FlattenAppend, FlattenInSeq
  <2>3. Len(FlattenSeq(u)) = Len(FlattenSeq(t)) + Len(x)
    BY <2>2
  <2> HIDE DEF u
  <2>4. u \in T
    <3> SUFFICES ASSUME \A i \in DOMAIN u : Len(u[i]) <= 1 PROVE Len(FlattenSeq(u)) <= Len(u)
      BY <2>1
    <3>1. Len(x) <= 1 /\ \A i \in DOMAIN t : Len(t[i]) <= 1
      BY <2>1
    <3>2. Len(FlattenSeq(t)) <= Len(t)
      BY <1>2, <3>1
    <3>3. Len(FlattenSeq(t)) \in Nat /\ Len(x) \in Nat /\ Len(t) \in Nat
      BY <2>2
    <3> QED BY <2>1, <2>3, <3>1, <3>2, <3>3
  <2> QED BY <2>4 DEF u
<1> HIDE DEF T
<1>3. Seq(Seq(S)) \subseteq T
  BY <1>1, <1>2, SeqSetInduction
<1> QED
  BY <1>3 DEF T

=============================================================================
