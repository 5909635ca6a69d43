---------------------------- MODULE SequenceFacts ----------------------------
(***************************************************************************)
(* Induction over numbers and sequences, stated with sets in place of      *)
(* predicates, and what FlattenSeq returns.  The proofs about the other    *)
(* modules rest on these lemmas.                                           *)
(***************************************************************************)
EXTENDS Integers, Sequences, SequencesExt, SequenceTheorems, WellFoundedInduction, TLAPS

\* A nonempty set of naturals has a least member.
LEMMA LeastNatural ==
    ASSUME NEW T \in SUBSET Nat, T # {}
    PROVE  \E x \in T : \A y \in T : x <= y
<1>1. IsWellFoundedOn(OpToRel(<, Nat), Nat)
    BY NatLessThanWellFounded
<1>2. PICK x \in T : \A y \in T : ~(<<y, x>> \in OpToRel(<, Nat))
    BY <1>1, WFMin, Zenon
<1>3. ASSUME NEW y \in T PROVE x <= y
    <2>1. <<y, x>> \notin OpToRel(<, Nat)
        BY <1>2
    <2>2. ~(y < x)
        BY <2>1 DEF OpToRel
    <2> QED
        BY <2>2
<1> QED
    BY <1>3

\* A set that holds 0 and the successor of each of its members holds every
\* natural number.
LEMMA NaturalsFromZero ==
    ASSUME NEW T, 0 \in T, \A n \in Nat : n \in T => n + 1 \in T
    PROVE  Nat \subseteq T
<1> SUFFICES ASSUME Nat \ T # {} PROVE FALSE
    OBVIOUS
<1>1. PICK n \in Nat \ T : \A k \in Nat \ T : n <= k
    BY LeastNatural
<1>2. n # 0 /\ n - 1 \in Nat /\ n - 1 \notin Nat \ T
    BY <1>1
<1>3. (n - 1) + 1 \in T
    BY <1>2
<1> QED
    BY <1>1, <1>3

\* The same for sequences, which grow at their end.
LEMMA SequencesFromEmpty ==
    ASSUME NEW S, NEW T, <<>> \in T,
           \A s \in Seq(S) : \A e \in S : s \in T => Append(s, e) \in T
    PROVE  Seq(S) \subseteq T
<1> DEFINE Lengths == {n \in Nat : \A s \in Seq(S) : Len(s) = n => s \in T}
<1>1. 0 \in Lengths
    OBVIOUS
<1>2. ASSUME NEW n \in Nat, n \in Lengths PROVE n + 1 \in Lengths
    <2>1. ASSUME NEW s \in Seq(S), Len(s) = n + 1 PROVE s \in T
        <3>1. s # <<>>
            BY <2>1
        <3>2. PICK r \in Seq(S), e \in S : s = Append(r, e)
            BY <3>1, SequenceEmptyOrAppend
        <3>3. Len(r) = n
            BY <2>1, <3>2
        <3> QED
            BY <1>2, <3>2, <3>3
    <2> QED
        BY <2>1
<1> HIDE DEF Lengths
<1>3. Nat \subseteq Lengths
    BY <1>1, <1>2, NaturalsFromZero
<1> QED
    BY <1>3 DEF Lengths

\* The least and the greatest of a set.
LEMMA MinOf ==
    ASSUME NEW T \in SUBSET Nat, T # {}
    PROVE  Min(T) \in T /\ \A x \in T : Min(T) <= x
BY LeastNatural DEF Min

LEMMA MaxOf ==
    ASSUME NEW n \in Nat, NEW T \in SUBSET (0..n), T # {}
    PROVE  Max(T) \in T /\ \A x \in T : x <= Max(T)
<1> DEFINE U == {n - x : x \in T}
<1>1. U \in SUBSET Nat /\ U # {}
    <2>1. \A x \in T : x \in Int /\ n - x \in Nat
        OBVIOUS
    <2> QED
        BY <2>1
<1>2. PICK u \in U : \A v \in U : u <= v
    BY <1>1, LeastNatural
<1>3. PICK x \in T : u = n - x
    BY <1>2
<1>4. \A y \in T : x >= y
    <2> SUFFICES ASSUME NEW y \in T PROVE x >= y
        OBVIOUS
    <2>1. n - y \in U
        OBVIOUS
    <2> QED
        BY <1>2, <1>3, <2>1
<1>5. Max(T) \in T /\ \A y \in T : Max(T) >= y
    BY <1>4 DEF Max
<1> QED
    BY <1>5

-----------------------------------------------------------------------------
(* The elements of a sequence made of another and one more, or of two.     *)

\* Two sequences in a row.
LEMMA ConcatAt ==
    ASSUME NEW S, NEW a \in Seq(S), NEW b \in Seq(S), NEW n \in Nat, n = Len(a),
           NEW m \in Nat, m = Len(b), NEW c, c = a \o b
    PROVE  /\ c \in Seq(S) /\ Len(c) = n + m /\ DOMAIN c = 1..(n + m)
           /\ \A i \in 1..n : c[i] = a[i]
           /\ \A j \in 1..m : c[n + j] = b[j]
<1>1. /\ c \in Seq(S) /\ Len(c) = n + m
      /\ \A i \in 1..(n + m) : c[i] = IF i <= n THEN a[i] ELSE b[i - n]
    BY ConcatProperties
<1>2. DOMAIN c = 1..(n + m)
    BY <1>1
<1>3. ASSUME NEW j \in 1..m PROVE c[n + j] = b[j]
    <2>1. n + j \in 1..(n + m) /\ ~(n + j <= n) /\ (n + j) - n = j
        OBVIOUS
    <2> QED
        BY <1>1, <2>1
<1> QED
    BY <1>1, <1>2, <1>3

\* Short tuples, put together of shorter ones.
LEMMA TwoAre ==
    ASSUME NEW S, NEW a \in S, NEW b \in S
    PROVE  <<a>> \o <<b>> = <<a, b>>
<1>1. PICK u \in Seq(S) : u = <<a>> /\ Len(u) = 1 /\ u[1] = a
    <2>1. <<a>> \in Seq(S) /\ Len(<<a>>) = 1 /\ <<a>>[1] = a
        OBVIOUS
    <2> QED
        BY <2>1
<1>2. PICK v \in Seq(S) : v = <<b>> /\ Len(v) = 1 /\ v[1] = b
    <2>1. <<b>> \in Seq(S) /\ Len(<<b>>) = 1 /\ <<b>>[1] = b
        OBVIOUS
    <2> QED
        BY <2>1
<1>3. PICK w \in Seq(S) : w = <<a, b>> /\ Len(w) = 2 /\ w[1] = a /\ w[2] = b
    <2>1. <<a, b>> \in Seq(S) /\ Len(<<a, b>>) = 2 /\ <<a, b>>[1] = a /\ <<a, b>>[2] = b
        OBVIOUS
    <2> QED
        BY <2>1
<1>4. PICK c : c = u \o v
    OBVIOUS
<1>5. /\ c \in Seq(S) /\ Len(c) = 1 + 1
      /\ \A i \in 1..1 : c[i] = u[i]
      /\ \A j \in 1..1 : c[1 + j] = v[j]
    <2>1. 1 \in Nat
        OBVIOUS
    <2> QED
        BY <1>1, <1>2, <1>4, <2>1, ConcatAt
<1>6. Len(c) = 2 /\ c[1] = a /\ c[2] = b
    BY <1>1, <1>2, <1>5
<1>7. \A i \in 1..2 : c[i] = w[i]
    BY <1>3, <1>6
<1>8. c = w
    BY <1>3, <1>5, <1>6, <1>7, SeqEqual
<1> QED
    BY <1>1, <1>2, <1>3, <1>4, <1>8

LEMMA ThreeAre ==
    ASSUME NEW S, NEW a \in S, NEW b \in S, NEW d \in S
    PROVE  <<a>> \o <<b, d>> = <<a, b, d>>
<1>1. PICK u \in Seq(S) : u = <<a>> /\ Len(u) = 1 /\ u[1] = a
    <2>1. <<a>> \in Seq(S) /\ Len(<<a>>) = 1 /\ <<a>>[1] = a
        OBVIOUS
    <2> QED
        BY <2>1
<1>2. PICK v \in Seq(S) : v = <<b, d>> /\ Len(v) = 2 /\ v[1] = b /\ v[2] = d
    <2>1. <<b, d>> \in Seq(S) /\ Len(<<b, d>>) = 2 /\ <<b, d>>[1] = b /\ <<b, d>>[2] = d
        OBVIOUS
    <2> QED
        BY <2>1
<1>3. PICK w \in Seq(S) : w = <<a, b, d>> /\ Len(w) = 3 /\ w[1] = a /\ w[2] = b /\ w[3] = d
    <2>1. /\ <<a, b, d>> \in Seq(S) /\ Len(<<a, b, d>>) = 3 /\ <<a, b, d>>[1] = a
          /\ <<a, b, d>>[2] = b /\ <<a, b, d>>[3] = d
        OBVIOUS
    <2> QED
        BY <2>1
<1>4. PICK c : c = u \o v
    OBVIOUS
<1>5. /\ c \in Seq(S) /\ Len(c) = 1 + 2
      /\ \A i \in 1..1 : c[i] = u[i]
      /\ \A j \in 1..2 : c[1 + j] = v[j]
    <2>1. 1 \in Nat /\ 2 \in Nat
        OBVIOUS
    <2> QED
        BY <1>1, <1>2, <1>4, <2>1, ConcatAt
<1>6. Len(c) = 3 /\ c[1] = a /\ c[2] = b /\ c[3] = d
    BY <1>1, <1>2, <1>5
<1>7. \A i \in 1..3 : c[i] = w[i]
    BY <1>3, <1>6
<1>8. c = w
    BY <1>3, <1>5, <1>6, <1>7, SeqEqual
<1> QED
    BY <1>1, <1>2, <1>3, <1>4, <1>8

\* A sequence and one more element.
LEMMA AppendAt ==
    ASSUME NEW S, NEW a \in Seq(S), NEW e \in S, NEW n \in Nat, n = Len(a),
           NEW m \in Nat, m = n + 1, NEW c, c = Append(a, e)
    PROVE  /\ c \in Seq(S) /\ Len(c) = m /\ DOMAIN c = 1..m
           /\ c[m] = e /\ \A i \in 1..n : c[i] = a[i]
<1>1. c \in Seq(S) /\ Len(c) = m
    BY AppendProperties
<1>2. c[m] = e /\ \A i \in 1..n : c[i] = a[i]
    BY AppendProperties
<1> QED
    BY <1>1, <1>2

-----------------------------------------------------------------------------
(* The concatenation of a sequence of sequences.                           *)

\* The equation of its recursive function.
Flattens(f, s, n) == f = [i \in 1..n |-> IF i = 1 THEN s[i] ELSE f[i - 1] \o s[i]]

LEMMA FlattensAt ==
    ASSUME NEW s, NEW n \in Nat, NEW f, Flattens(f, s, n), NEW i \in 1..n
    PROVE  f[i] = IF i = 1 THEN s[i] ELSE f[i - 1] \o s[i]
<1> DEFINE h == [j \in 1..n |-> IF j = 1 THEN s[j] ELSE f[j - 1] \o s[j]]
<1>1. h[i] = IF i = 1 THEN s[i] ELSE f[i - 1] \o s[i]
    OBVIOUS
<1>2. f = h
    BY DEF Flattens
<1> HIDE DEF h
<1>3. f[i] = h[i]
    BY <1>2
<1> QED
    BY <1>1, <1>3

LEMMA FlattensExists ==
    ASSUME NEW s, NEW n \in Nat
    PROVE  \E f : Flattens(f, s, n)
<1> DEFINE T == {k \in Nat : \E f : Flattens(f, s, k)}
<1>1. 0 \in T
    <2>1. Flattens([i \in 1..0 |-> <<>>], s, 0)
        BY DEF Flattens
    <2> QED
        BY <2>1
<1>2. ASSUME NEW k \in Nat, k \in T PROVE k + 1 \in T
    <2>1. PICK f : Flattens(f, s, k)
        BY <1>2
    <2> DEFINE g == [i \in 1..(k + 1) |->
                        IF i = k + 1 THEN IF i = 1 THEN s[i] ELSE f[k] \o s[i] ELSE f[i]]
    <2>2. ASSUME NEW i \in 1..(k + 1)
          PROVE  g[i] = IF i = 1 THEN s[i] ELSE g[i - 1] \o s[i]
        <3>1. CASE i = k + 1
            BY <3>1
        <3>2. CASE i \in 1..k
            BY <2>1, <3>2, FlattensAt
        <3> QED
            BY <3>1, <3>2
    <2>3. Flattens(g, s, k + 1)
        BY <2>2 DEF Flattens
    <2> QED
        BY <2>3
<1> HIDE DEF T
<1>3. n \in T
    BY <1>1, <1>2, NaturalsFromZero
<1> QED
    BY <1>3 DEF T

\* It has one solution, and that of a longer sequence continues it.
LEMMA FlattensAgree ==
    ASSUME NEW s, NEW n \in Nat, NEW f, Flattens(f, s, n),
           NEW t, NEW m \in Nat, NEW g, Flattens(g, t, m),
           n <= m, \A i \in 1..n : s[i] = t[i]
    PROVE  \A i \in 1..n : f[i] = g[i]
<1> DEFINE T == {k \in Nat : k \in 1..n => f[k] = g[k]}
<1>1. 0 \in T
    OBVIOUS
<1>2. ASSUME NEW k \in Nat, k \in T PROVE k + 1 \in T
    <2> SUFFICES ASSUME k + 1 \in 1..n PROVE f[k + 1] = g[k + 1]
        OBVIOUS
    <2>1. f[k + 1] = IF k + 1 = 1 THEN s[k + 1] ELSE f[(k + 1) - 1] \o s[k + 1]
        BY FlattensAt
    <2>2. g[k + 1] = IF k + 1 = 1 THEN t[k + 1] ELSE g[(k + 1) - 1] \o t[k + 1]
        BY FlattensAt
    <2>3. k # 0 => f[k] = g[k]
        BY <1>2
    <2> QED
        BY <2>1, <2>2, <2>3
<1> HIDE DEF T
<1>3. Nat \subseteq T
    BY <1>1, <1>2, NaturalsFromZero
<1> QED
    BY <1>3 DEF T

\* FlattenSeq is the last value of the solution.
LEMMA FlattenIs ==
    ASSUME NEW s, NEW n \in Nat \ {0}, n = Len(s), NEW f, Flattens(f, s, n)
    PROVE  FlattenSeq(s) = f[n]
<1> DEFINE flatten == CHOOSE g : Flattens(g, s, n)
<1>1. Flattens(flatten, s, n)
    BY FlattensExists
<1>2. flatten[n] = f[n]
    BY <1>1, FlattensAgree
<1>3. FlattenSeq(s) = flatten[n]
    BY DEF FlattenSeq, Flattens
<1> QED
    BY <1>2, <1>3

LEMMA FlattenEmpty == FlattenSeq(<<>>) = <<>>
BY DEF FlattenSeq

LEMMA FlattenOne ==
    ASSUME NEW s, NEW n \in Nat \ {0}, n = 1, n = Len(s)
    PROVE  FlattenSeq(s) = s[n]
<1>1. PICK f : Flattens(f, s, n)
    BY FlattensExists
<1>2. f[n] = s[n]
    BY <1>1, FlattensAt
<1>3. FlattenSeq(s) = f[n]
    BY <1>1, FlattenIs
<1> QED
    BY <1>2, <1>3

\* One more sequence is added at the end.
LEMMA FlattenOneMore ==
    ASSUME NEW s, NEW n \in Nat \ {0}, n = Len(s), NEW t, NEW m \in Nat, m = Len(t),
           m = n + 1, \A i \in 1..n : s[i] = t[i]
    PROVE  FlattenSeq(t) = FlattenSeq(s) \o t[m]
<1>1. PICK g : Flattens(g, t, m)
    BY FlattensExists
<1>2. m \in Nat \ {0} /\ m \in 1..m /\ n <= m /\ m # 1 /\ m - 1 = n
    OBVIOUS
<1>3. FlattenSeq(t) = g[m]
    BY <1>1, <1>2, FlattenIs
<1>4. g[m] = g[n] \o t[m]
    <2>1. g[m] = IF m = 1 THEN t[m] ELSE g[m - 1] \o t[m]
        BY <1>1, <1>2, FlattensAt
    <2> QED
        BY <1>2, <2>1
<1>5. PICK f : Flattens(f, s, n)
    BY FlattensExists
<1>6. FlattenSeq(s) = f[n]
    BY <1>5, FlattenIs
<1>7. \A i \in 1..n : f[i] = g[i]
    BY <1>1, <1>2, <1>5, FlattensAgree
<1>8. f[n] = g[n]
    BY <1>7
<1> QED
    BY <1>3, <1>4, <1>6, <1>8

LEMMA FlattenAppend ==
    ASSUME NEW S, NEW s \in Seq(Seq(S)), NEW e \in Seq(S)
    PROVE  FlattenSeq(Append(s, e)) = FlattenSeq(s) \o e
<1>1. PICK n \in Nat : n = Len(s)
    OBVIOUS
<1>2. PICK m \in Nat : m = n + 1
    OBVIOUS
<1>3. /\ m = Len(Append(s, e)) /\ Append(s, e)[m] = e
      /\ \A i \in 1..n : s[i] = Append(s, e)[i]
    BY <1>1, <1>2, AppendProperties
<1>4. PICK t : t = Append(s, e)
    OBVIOUS
<1>5. m = Len(t) /\ t[m] = e /\ \A i \in 1..n : s[i] = t[i]
    BY <1>3, <1>4
<1>6. n = 0 => FlattenSeq(t) = t[m]
    <2>1. n = 0 => m \in Nat \ {0} /\ m = 1
        BY <1>2
    <2> QED
        BY <1>5, <2>1, FlattenOne
<1>7. n # 0 => FlattenSeq(t) = FlattenSeq(s) \o t[m]
    <2>1. n # 0 => n \in Nat \ {0}
        OBVIOUS
    <2> QED
        BY <1>1, <1>2, <1>5, <2>1, FlattenOneMore, Zenon
<1>8. n = 0 => s = <<>>
    BY <1>1, EmptySeq
<1> QED
    BY <1>4, <1>5, <1>6, <1>7, <1>8, FlattenEmpty, ConcatEmptySeq

LEMMA FlattenType ==
    ASSUME NEW S, NEW s \in Seq(Seq(S))
    PROVE  FlattenSeq(s) \in Seq(S)
<1> DEFINE T == {r \in Seq(Seq(S)) : FlattenSeq(r) \in Seq(S)}
<1>1. <<>> \in T
    BY FlattenEmpty, EmptySeq
<1>2. ASSUME NEW r \in Seq(Seq(S)), NEW e \in Seq(S), r \in T PROVE Append(r, e) \in T
    <2>1. FlattenSeq(Append(r, e)) = FlattenSeq(r) \o e
        BY FlattenAppend
    <2>2. FlattenSeq(r) \o e \in Seq(S)
        BY <1>2, ConcatProperties
    <2>3. Append(r, e) \in Seq(Seq(S))
        BY AppendProperties
    <2> QED
        BY <2>1, <2>2, <2>3
<1> HIDE DEF T
<1>3. s \in T
    BY <1>1, <1>2, SequencesFromEmpty
<1> QED
    BY <1>3 DEF T

\* A sequence of sequences is flattened part by part.
LEMMA FlattenConcat ==
    ASSUME NEW S, NEW s \in Seq(Seq(S)), NEW t \in Seq(Seq(S))
    PROVE  FlattenSeq(s \o t) = FlattenSeq(s) \o FlattenSeq(t)
<1> DEFINE T == {r \in Seq(Seq(S)) : FlattenSeq(s \o r) = FlattenSeq(s) \o FlattenSeq(r)}
<1>1. <<>> \in T
    BY FlattenEmpty, FlattenType, ConcatEmptySeq
<1>2. ASSUME NEW r \in Seq(Seq(S)), NEW e \in Seq(S), r \in T PROVE Append(r, e) \in T
    <2>1. s \o Append(r, e) = Append(s \o r, e)
        BY AppendIsConcat, ConcatAssociative, ConcatProperties
    <2>2. FlattenSeq(Append(s \o r, e)) = FlattenSeq(s \o r) \o e
        BY FlattenAppend, ConcatProperties
    <2>3. FlattenSeq(Append(r, e)) = FlattenSeq(r) \o e
        BY FlattenAppend
    <2>4. (FlattenSeq(s) \o FlattenSeq(r)) \o e = FlattenSeq(s) \o (FlattenSeq(r) \o e)
        BY FlattenType, ConcatAssociative
    <2>5. Append(r, e) \in Seq(Seq(S))
        BY AppendProperties
    <2> QED
        BY <1>2, <2>1, <2>2, <2>3, <2>4, <2>5
<1> HIDE DEF T
<1>3. t \in T
    BY <1>1, <1>2, SequencesFromEmpty
<1> QED
    BY <1>3 DEF T

=============================================================================
