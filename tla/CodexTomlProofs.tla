--------------------------- MODULE CodexTomlProofs ---------------------------
(***************************************************************************)
(* Theorems about CodexToml, for files of any length and any number of     *)
(* installs: without arrays of tables, an install keeps all settings that  *)
(* are not the entry's, and leaves one table of ours, its own.             *)
(***************************************************************************)
EXTENDS CodexToml, SequenceFacts, FiniteSetTheorems

\* The lines of a file without arrays of tables, before and after an install.
Line == {"ours", "child", "table", "key", "comment", "mark", "new"}

\* Those that stand outside of our entry (a subtable of ours may, before it or
\* behind another table), and those in it.
Outside == {"table", "child", "key", "comment", "mark"}
Inside == {"child", "key", "comment", "new"}

Opens(q) == q = <<>> \/ (q # <<>> /\ q[1] \in Header)

\* Only another table ends the entry.
EndsEntry(q) == q = <<>> \/ (q # <<>> /\ q[1] = "table")

-----------------------------------------------------------------------------
(* The header a line stands under.                                         *)

\* Section is s[h] for the last header h up to i.
StandsUnder(s, i, h) ==
    /\ h \in 1..i /\ s[h] \in Header /\ Section(s, i) = s[h]
    /\ \A k \in (h + 1)..i : s[k] \notin Header

LEMMA SectionIs ==
    ASSUME NEW s, NEW i \in Nat
    PROVE  \/ (\A k \in 1..i : s[k] \notin Header) /\ Section(s, i) = "top"
           \/ \E h \in 1..i : StandsUnder(s, i, h)
<1> DEFINE T == {k \in 1..i : s[k] \in Header} \cup {0}
<1>1. T \in SUBSET (0..i) /\ T # {}
  OBVIOUS
<1>2. Max(T) \in T /\ \A x \in T : x <= Max(T)
  BY <1>1, MaxOf
<1>3. Under(s, i) = Max(T)
  BY DEF Under
<1>4. PICK h \in T : h = Under(s, i) /\ \A x \in T : x <= h
  BY <1>2, <1>3
<1>5. CASE h = 0
  <2>1. ASSUME NEW k \in 1..i PROVE s[k] \notin Header
    BY <1>4, <1>5
  <2> QED BY <1>4, <1>5, <2>1 DEF Section
<1>6. CASE h # 0
  <2>1. h \in 1..i /\ s[h] \in Header
    BY <1>4, <1>6
  <2>2. ASSUME NEW k \in (h + 1)..i PROVE s[k] \notin Header
    BY <1>4, <2>1
  <2>3. Section(s, i) = s[h]
    BY <1>4, <1>6 DEF Section
  <2> QED BY <2>1, <2>2, <2>3 DEF StandsUnder
<1> QED BY <1>5, <1>6

\* There is only one such header.
LEMMA UnderOne ==
    ASSUME NEW s, NEW i \in Nat, NEW h \in 1..i, s[h] \in Header,
           \A k \in (h + 1)..i : s[k] \notin Header
    PROVE  Section(s, i) = s[h]
<1>1. PICK g \in 1..i : StandsUnder(s, i, g)
  BY SectionIs
<1>2. g = h
  <2>1. ~(g < h)
    BY <1>1 DEF StandsUnder
  <2>2. ~(h < g)
    BY <1>1 DEF StandsUnder
  <2> QED BY <2>1, <2>2
<1> QED BY <1>1, <1>2 DEF StandsUnder

LEMMA UnderNone ==
    ASSUME NEW s, NEW i \in Nat, \A k \in 1..i : s[k] \notin Header
    PROVE  Section(s, i) = "top"
BY SectionIs DEF StandsUnder

\* What follows a line changes nothing for it.
LEMMA SectionOfFirst ==
    ASSUME NEW a, NEW c, NEW i \in Nat, \A k \in 1..i : c[k] = a[k]
    PROVE  Section(c, i) = Section(a, i)
<1>1. CASE \A k \in 1..i : a[k] \notin Header
  BY <1>1, UnderNone
<1>2. CASE \E h \in 1..i : StandsUnder(a, i, h)
  <2>1. PICK h \in 1..i : StandsUnder(a, i, h)
    BY <1>2
  <2>2. c[h] \in Header /\ \A k \in (h + 1)..i : c[k] \notin Header
    BY <2>1 DEF StandsUnder
  <2>3. Section(c, i) = c[h]
    BY <2>2, UnderOne
  <2> QED BY <2>1, <2>3 DEF StandsUnder
<1> QED BY <1>1, <1>2, SectionIs

\* Nor does what stands before a header, for it and all lines below.
LEMMA SectionOfRest ==
    ASSUME NEW b, NEW c, NEW n \in Nat, NEW j \in Nat \ {0}, b[1] \in Header,
           \A k \in 1..j : c[n + k] = b[k]
    PROVE  Section(c, n + j) = Section(b, j)
<1>1. PICK h \in 1..j : StandsUnder(b, j, h)
  <2>1. 1 \in 1..j
    OBVIOUS
  <2> QED BY <2>1, SectionIs
<1>2. PICK i \in Nat : i = n + j
  OBVIOUS
<1>3. PICK g \in 1..i : g = n + h
  BY <1>2
<1>4. c[g] = b[h] /\ c[g] \in Header
  BY <1>1, <1>3 DEF StandsUnder
<1>5. ASSUME NEW k \in (g + 1)..i PROVE c[k] \notin Header
  <2>1. k - n \in (h + 1)..j /\ k - n \in 1..j /\ n + (k - n) = k
    BY <1>2, <1>3
  <2> QED BY <1>1, <2>1 DEF StandsUnder
<1>6. Section(c, i) = c[g]
  BY <1>4, <1>5, UnderOne
<1> QED BY <1>1, <1>2, <1>4, <1>6 DEF StandsUnder

-----------------------------------------------------------------------------
(* The settings that are not ours.                                         *)

Pair == Line \X (Line \cup {"top"})

Kept(s) == [i \in DOMAIN s |-> Setting(s, i)]

LEMMA SettingType ==
    ASSUME NEW s \in Seq(Line), NEW i \in DOMAIN s
    PROVE  Setting(s, i) \in Seq(Pair)
<1>1. i \in Nat /\ s[i] \in Line /\ \A h \in 1..i : s[h] \in Line
  OBVIOUS
<1>2. Section(s, i) \in Line \cup {"top"}
  BY <1>1, SectionIs DEF StandsUnder
<1>3. PICK x \in Pair : x = <<s[i], Section(s, i)>>
  BY <1>1, <1>2 DEF Pair
<1>4. <<x>> \in Seq(Pair) /\ <<>> \in Seq(Pair)
  OBVIOUS
<1> QED BY <1>3, <1>4 DEF Setting

LEMMA KeptType ==
    ASSUME NEW s \in Seq(Line), NEW n \in Nat, n = Len(s)
    PROVE  /\ Kept(s) \in Seq(Seq(Pair)) /\ Len(Kept(s)) = n
           /\ \A i \in 1..n : Kept(s)[i] = Setting(s, i)
<1>1. DOMAIN s = 1..n
  OBVIOUS
<1>2. PICK S : S = Seq(Pair)
  OBVIOUS
<1>3. \A i \in 1..n : Setting(s, i) \in S
  BY <1>1, <1>2, SettingType
<1>4. PICK t : t = [i \in 1..n |-> Setting(s, i)]
  OBVIOUS
<1>5. t \in Seq(S) /\ Len(t) = n /\ \A i \in 1..n : t[i] = Setting(s, i)
  BY <1>3, <1>4
<1> QED BY <1>1, <1>2, <1>4, <1>5 DEF Kept

\* The settings of a file and of what follows it, where that opens a table.
LEMMA OthersConcat ==
    ASSUME NEW a \in Seq(Line), NEW b \in Seq(Line), Opens(b), NEW c, c = a \o b
    PROVE  Others(c) = Others(a) \o Others(b)
<1>1. PICK n \in Nat : n = Len(a)
  OBVIOUS
<1>2. PICK m \in Nat : m = Len(b)
  OBVIOUS
<1>3. /\ c \in Seq(Line) /\ Len(c) = n + m
      /\ \A i \in 1..n : c[i] = a[i]
      /\ \A j \in 1..m : c[n + j] = b[j]
  BY <1>1, <1>2, ConcatAt
<1>4. PICK l \in Nat : l = n + m
  OBVIOUS
<1>5. ASSUME NEW i \in 1..n PROVE Setting(c, i) = Setting(a, i)
  <2>1. Section(c, i) = Section(a, i)
    <3>1. i \in Nat /\ \A k \in 1..i : c[k] = a[k]
      BY <1>3
    <3> QED BY <3>1, SectionOfFirst
  <2> QED BY <1>3, <2>1 DEF Setting, IsOurs
<1>6. ASSUME NEW j \in 1..m PROVE Setting(c, n + j) = Setting(b, j)
  <2>1. b[1] \in Header
    BY <1>2 DEF Opens
  <2>2. Section(c, n + j) = Section(b, j)
    <3>1. j \in Nat \ {0} /\ \A k \in 1..j : c[n + k] = b[k]
      BY <1>3
    <3> QED BY <2>1, <3>1, SectionOfRest
  <2> QED BY <1>3, <2>2 DEF Setting, IsOurs
<1>7. PICK t \in Seq(Seq(Pair)) : t = Kept(a) /\ Len(t) = n /\ \A i \in 1..n : t[i] = Setting(a, i)
  BY <1>1, KeptType
<1>8. PICK u \in Seq(Seq(Pair)) : u = Kept(b) /\ Len(u) = m /\ \A j \in 1..m : u[j] = Setting(b, j)
  BY <1>2, KeptType
<1>9. PICK v \in Seq(Seq(Pair)) : v = Kept(c) /\ Len(v) = l /\ \A i \in 1..l : v[i] = Setting(c, i)
  BY <1>3, <1>4, KeptType
<1>10. PICK w : w = t \o u
  OBVIOUS
<1>11. /\ w \in Seq(Seq(Pair)) /\ Len(w) = l
       /\ \A i \in 1..n : w[i] = t[i]
       /\ \A j \in 1..m : w[n + j] = u[j]
  <2>1. PICK S : S = Seq(Pair)
    OBVIOUS
  <2>2. t \in Seq(S) /\ u \in Seq(S) /\ n = Len(t) /\ m = Len(u)
    BY <1>7, <1>8, <2>1
  <2>3. /\ w \in Seq(S) /\ Len(w) = n + m
        /\ \A i \in 1..n : w[i] = t[i]
        /\ \A j \in 1..m : w[n + j] = u[j]
    BY <2>2, <1>10, ConcatAt
  <2> QED BY <1>4, <2>1, <2>3
<1>12. ASSUME NEW i \in 1..l PROVE v[i] = w[i]
  <2>1. CASE i <= n
    BY <1>5, <1>7, <1>9, <1>11, <2>1
  <2>2. CASE ~(i <= n)
    <3>1. PICK j \in 1..m : i = n + j
      <4>1. i - n \in 1..m /\ i = n + (i - n)
        BY <1>4, <2>2
      <4> QED BY <4>1
    <3> QED BY <1>6, <1>8, <1>9, <1>11, <3>1
  <2> QED BY <2>1, <2>2
<1>13. v = w
  BY <1>9, <1>11, <1>12, SeqEqual
<1>14. FlattenSeq(w) = FlattenSeq(t) \o FlattenSeq(u)
  BY <1>10, FlattenConcat
<1> QED BY <1>7, <1>8, <1>9, <1>13, <1>14 DEF Others, Kept

LEMMA OthersType ==
    ASSUME NEW s \in Seq(Line)
    PROVE  Others(s) \in Seq(Pair)
<1>1. Kept(s) \in Seq(Seq(Pair))
  BY KeptType
<1> QED BY <1>1, FlattenType DEF Others, Kept

\* Where no line sets anything, nothing is set.
LEMMA NoOthers ==
    ASSUME NEW s \in Seq(Line), \A i \in DOMAIN s : Setting(s, i) = <<>>
    PROVE  Others(s) = <<>>
<1>1. PICK n \in Nat : n = Len(s)
  OBVIOUS
<1>2. PICK S : S = Seq(Pair)
  OBVIOUS
<1>3. PICK t \in Seq(S) : t = Kept(s) /\ Len(t) = n /\ \A i \in 1..n : t[i] = Setting(s, i)
  BY <1>1, <1>2, KeptType
<1>4. PICK E : E = Seq({}) /\ <<>> \in E
  BY EmptySeq
<1>5. \A i \in 1..n : t[i] \in E
  <2>1. DOMAIN s = 1..n
    BY <1>1
  <2>2. \A i \in 1..n : t[i] = <<>>
    BY <1>3, <2>1, Zenon
  <2> QED BY <1>4, <2>2, Zenon
<1>6. t \in Seq(E)
  BY <1>3, <1>5
<1>7. FlattenSeq(t) \in Seq({})
  BY <1>4, <1>6, FlattenType
<1>8. \A r \in Seq({}) : r = <<>>
  OBVIOUS
<1> QED BY <1>3, <1>7, <1>8 DEF Others, Kept

-----------------------------------------------------------------------------
(* A file with an entry of ours: what stands before it, what stands in it  *)
(* and what stands after it.                                               *)

Entry(d) == <<"ours">> \o d

Around(s, p, d, q) ==
    /\ p \in Seq(Outside) /\ d \in Seq(Inside) /\ q \in Seq(Outside) /\ EndsEntry(q)
    /\ s = (p \o Entry(d)) \o q

LEMMA OutsideIsLine ==
    ASSUME NEW s \in Seq(Outside)
    PROVE  s \in Seq(Line)
<1>1. Outside \subseteq Line
  BY DEF Outside, Line
<1> QED BY <1>1

\* All lines of the entry are ours.
LEMMA EntryIs ==
    ASSUME NEW d \in Seq(Inside), NEW n \in Nat, n = Len(d)
    PROVE  /\ Entry(d) \in Seq(Line) /\ Len(Entry(d)) = n + 1 /\ Entry(d)[1] = "ours"
           /\ \A j \in 1..n : Entry(d)[1 + j] = d[j] /\ d[j] \in Inside
           /\ \A i \in 1..(n + 1) : IsOurs(Entry(d), i)
           /\ Others(Entry(d)) = <<>>
<1>1. d \in Seq(Line) /\ \A j \in 1..n : d[j] \in Inside
  <2>1. Inside \subseteq Line
    BY DEF Inside, Line
  <2> QED BY <2>1
<1>2. PICK o \in Seq(Line) : o = <<"ours">> /\ Len(o) = 1 /\ o[1] = "ours"
  <2>1. PICK l \in Line : l = "ours"
    BY DEF Line
  <2>2. <<l>> \in Seq(Line) /\ Len(<<l>>) = 1 /\ <<l>>[1] = l
    OBVIOUS
  <2> QED BY <2>1, <2>2
<1>3. PICK e : e = o \o d
  OBVIOUS
<1>4. /\ e \in Seq(Line) /\ Len(e) = 1 + n /\ DOMAIN e = 1..(1 + n)
      /\ \A i \in 1..1 : e[i] = o[i]
      /\ \A j \in 1..n : e[1 + j] = d[j]
  <2>1. 1 \in Nat
    OBVIOUS
  <2> QED BY <1>1, <1>2, <1>3, <2>1, ConcatAt
<1>5. e[1] = "ours" /\ e[1] \in Header
  BY <1>2, <1>4 DEF Header
<1>6. ASSUME NEW i \in 1..(n + 1), NEW h \in 1..i, e[h] \in Header
      PROVE  e[h] \in {"ours", "child"}
  <2>1. CASE h = 1
    BY <1>5, <2>1
  <2>2. CASE h # 1
    <3>1. h - 1 \in 1..n /\ 1 + (h - 1) = h
      BY <2>2
    <3>2. e[h] \in Inside
      BY <1>1, <1>4, <3>1
    <3> QED BY <1>6, <3>2 DEF Inside, Header
  <2> QED BY <2>1, <2>2
<1>7. ASSUME NEW i \in 1..(n + 1) PROVE IsOurs(e, i)
  <2>1. i \in Nat /\ 1 \in 1..i
    OBVIOUS
  <2>2. PICK h \in 1..i : StandsUnder(e, i, h)
    BY <1>5, <2>1, SectionIs
  <2> QED BY <1>6, <2>2 DEF StandsUnder, IsOurs
<1>8. Others(e) = <<>>
  <2>1. \A i \in DOMAIN e : Setting(e, i) = <<>>
    BY <1>4, <1>7 DEF Setting
  <2> QED BY <1>4, <2>1, NoOthers
<1> QED BY <1>1, <1>2, <1>3, <1>4, <1>5, <1>7, <1>8 DEF Entry

\* The settings of the file are those before and after the entry.
LEMMA OthersAround ==
    ASSUME NEW s, NEW p, NEW d, NEW q, Around(s, p, d, q)
    PROVE  Others(s) = Others(p) \o Others(q)
<1>1. PICK e \in Seq(Line) : e = Entry(d) /\ Opens(e) /\ Others(e) = <<>>
  <2>1. PICK n \in Nat : n = Len(d)
    BY DEF Around
  <2>2. PICK e \in Seq(Line) : e = Entry(d) /\ Len(e) = n + 1 /\ e[1] = "ours" /\ Others(e) = <<>>
    BY <2>1, EntryIs DEF Around
  <2>3. e # <<>> /\ e[1] \in Header
    BY <2>1, <2>2 DEF Header
  <2> QED BY <2>2, <2>3 DEF Opens
<1>2. p \in Seq(Line) /\ q \in Seq(Line)
  BY OutsideIsLine DEF Around
<1>3. PICK f : f = p \o e
  OBVIOUS
<1>4. Others(f) = Others(p) \o Others(e)
  BY <1>1, <1>2, <1>3, OthersConcat
<1>5. f \in Seq(Line) /\ s = f \o q
  BY <1>1, <1>2, <1>3, ConcatProperties DEF Around
<1>6. Others(s) = Others(f) \o Others(q)
  <2>1. Opens(q)
    BY DEF Around, EndsEntry, Opens, Header
  <2> QED BY <1>2, <1>5, <2>1, OthersConcat
<1>7. Others(p) \o <<>> = Others(p)
  BY <1>2, OthersType, ConcatEmptySeq
<1> QED BY <1>1, <1>4, <1>6, <1>7

\* The installer's comment sets nothing.
LEMMA OthersMarked ==
    ASSUME NEW p \in Seq(Line)
    PROVE  Others(Append(p, "mark")) = Others(p)
<1>1. PICK n \in Nat : n = Len(p)
  OBVIOUS
<1>2. PICK m \in Nat : m = n + 1
  OBVIOUS
<1>3. PICK r \in Seq(Line) : r = Append(p, "mark") /\ Len(r) = m /\ r[m] = "mark"
                              /\ \A i \in 1..n : r[i] = p[i]
  <2>1. PICK r : r = Append(p, "mark")
    OBVIOUS
  <2>2. PICK e \in Line : e = "mark"
    BY DEF Line
  <2>3. r = Append(p, e)
    BY <2>1, <2>2
  <2>4. r \in Seq(Line) /\ Len(r) = m /\ r[m] = e /\ \A i \in 1..n : r[i] = p[i]
    BY <1>1, <1>2, <2>3, AppendAt
  <2> QED BY <2>1, <2>2, <2>4
<1>4. ASSUME NEW i \in 1..n PROVE Setting(r, i) = Setting(p, i)
  <2>1. i \in Nat /\ 1..i \subseteq 1..n
    OBVIOUS
  <2>2. Section(r, i) = Section(p, i)
    BY <1>3, <2>1, SectionOfFirst
  <2> QED BY <1>3, <2>2 DEF Setting, IsOurs
<1>5. Setting(r, m) = <<>>
  BY <1>3 DEF Setting, Header
<1>6. PICK S : S = Seq(Pair) /\ <<>> \in S
  BY EmptySeq
<1>7. PICK t \in Seq(S) : t = Kept(p) /\ Len(t) = n /\ \A i \in 1..n : t[i] = Setting(p, i)
  BY <1>1, <1>6, KeptType
<1>8. PICK u \in Seq(S) : u = Kept(r) /\ Len(u) = m /\ \A i \in 1..m : u[i] = Setting(r, i)
  BY <1>3, <1>6, KeptType
<1>9. PICK none \in S : none = <<>>
  BY <1>6
<1>10. PICK v : v = Append(t, none)
  OBVIOUS
<1>11. v \in Seq(S) /\ Len(v) = m /\ v[m] = none /\ \A i \in 1..n : v[i] = t[i]
  BY <1>2, <1>7, <1>10, AppendAt
<1>12. ASSUME NEW i \in 1..m PROVE u[i] = v[i]
  <2>1. CASE i = m
    BY <1>5, <1>8, <1>9, <1>11, <2>1
  <2>2. CASE i # m
    <3>1. i \in 1..n
      BY <1>2, <2>2
    <3> QED BY <1>4, <1>7, <1>8, <1>11, <3>1
  <2> QED BY <2>1, <2>2
<1>13. u = v
  BY <1>8, <1>11, <1>12, SeqEqual
<1>14. FlattenSeq(v) = FlattenSeq(t) \o none
  <2>1. t \in Seq(Seq(Pair)) /\ none \in Seq(Pair)
    BY <1>6, <1>7, <1>9
  <2> QED BY <1>10, <2>1, FlattenAppend
<1>15. FlattenSeq(t) \in Seq(Pair)
  BY <1>6, <1>7, FlattenType
<1>16. FlattenSeq(t) \o none = FlattenSeq(t)
  BY <1>9, <1>15, ConcatEmptySeq
<1> QED BY <1>3, <1>7, <1>8, <1>13, <1>14, <1>16 DEF Others, Kept

-----------------------------------------------------------------------------
(* What replaceCodexEntry makes of a file.                                 *)

\* Line by line, a file with an entry at n + 1 that ends at c; the file at z.
Laid(s, p, q, n, c, l, z) ==
    /\ s \in Seq(Line) /\ Len(s) = z
    /\ \A i \in 1..n : s[i] = p[i] /\ s[i] \in Outside
    /\ s[n + 1] = "ours"
    /\ \A i \in (n + 2)..c : s[i] \in Inside
    /\ \A j \in 1..l : s[c + j] = q[j] /\ s[c + j] \in Outside

LEMMA AroundAt ==
    ASSUME NEW s, NEW p, NEW d, NEW q, Around(s, p, d, q),
           NEW n \in Nat, n = Len(p), NEW m \in Nat, m = Len(d), NEW l \in Nat, l = Len(q),
           NEW c \in Nat, c = (n + 1) + m, NEW z \in Nat, z = c + l
    PROVE  Laid(s, p, q, n, c, l, z)
<1>1. PICK e \in Seq(Line) : /\ e = Entry(d) /\ Len(e) = m + 1 /\ e[1] = "ours"
                            /\ \A j \in 1..m : e[1 + j] \in Inside
  <2>1. d \in Seq(Inside)
    BY DEF Around
  <2>2. /\ Entry(d) \in Seq(Line) /\ Len(Entry(d)) = m + 1 /\ Entry(d)[1] = "ours"
        /\ \A j \in 1..m : Entry(d)[1 + j] = d[j] /\ d[j] \in Inside
    BY <2>1, EntryIs
  <2>3. PICK e : e = Entry(d)
    OBVIOUS
  <2> QED BY <2>2, <2>3
<1>2. p \in Seq(Line) /\ q \in Seq(Line)
  BY OutsideIsLine DEF Around
<1>3. PICK f : f = p \o e
  OBVIOUS
<1>4. PICK k \in Nat : k = m + 1 /\ c = n + k
  <2>1. PICK k \in Nat : k = m + 1
    OBVIOUS
  <2>2. c = n + k
    BY <2>1
  <2> QED BY <2>1, <2>2
<1>5. /\ f \in Seq(Line) /\ Len(f) = c
      /\ \A i \in 1..n : f[i] = p[i]
      /\ \A j \in 1..k : f[n + j] = e[j]
  <2>1. k = Len(e)
    BY <1>1, <1>4
  <2>2. /\ f \in Seq(Line) /\ Len(f) = n + k
        /\ \A i \in 1..n : f[i] = p[i]
        /\ \A j \in 1..k : f[n + j] = e[j]
    BY <2>1, <1>2, <1>3, ConcatAt
  <2> QED BY <1>4, <2>2
<1>6. s = f \o q
  BY <1>1, <1>3 DEF Around
<1>7. /\ s \in Seq(Line) /\ Len(s) = z
      /\ \A i \in 1..c : s[i] = f[i]
      /\ \A j \in 1..l : s[c + j] = q[j]
  <2>1. /\ s \in Seq(Line) /\ Len(s) = c + l
        /\ \A i \in 1..c : s[i] = f[i]
        /\ \A j \in 1..l : s[c + j] = q[j]
    <3>1. s \in Seq(Line) /\ Len(s) = c + l
      BY <1>2, <1>5, <1>6, ConcatProperties
    <3>2. c = Len(f)
      BY <1>5
    <3>3. \A i \in 1..c : s[i] = f[i]
      BY <3>2, <1>2, <1>5, <1>6, ConcatAt
    <3>4. \A j \in 1..l : s[c + j] = q[j]
      BY <3>2, <1>2, <1>5, <1>6, ConcatAt
    <3> QED BY <3>1, <3>3, <3>4
  <2> QED BY <2>1
<1>8. ASSUME NEW i \in (n + 2)..c PROVE s[i] \in Inside
  <2>1. PICK j \in 1..m : i = n + (1 + j)
    <3>1. (i - n) - 1 \in 1..m /\ i = n + (1 + ((i - n) - 1))
      BY <1>4
    <3> QED BY <3>1
  <2>2. PICK g \in 1..k : g = 1 + j
    BY <1>4
  <2>3. s[i] = f[i] /\ f[n + g] = e[g]
    <3>1. i \in 1..c
      OBVIOUS
    <3> QED BY <1>5, <1>7, <3>1
  <2> QED BY <1>1, <2>1, <2>2, <2>3
<1>9. ASSUME NEW i \in 1..n PROVE s[i] = p[i] /\ s[i] \in Outside
  <2>1. i \in 1..c /\ p[i] \in Outside
    BY DEF Around
  <2> QED BY <1>5, <1>7, <2>1
<1>10. s[n + 1] = "ours"
  <2>1. n + 1 \in 1..c /\ 1 \in 1..k
    BY <1>4
  <2> QED BY <1>1, <1>5, <1>7, <2>1
<1>11. ASSUME NEW j \in 1..l PROVE s[c + j] = q[j] /\ s[c + j] \in Outside
  <2>1. q[j] \in Outside
    BY DEF Around
  <2> QED BY <1>7, <2>1
<1> QED BY <1>7, <1>8, <1>9, <1>10, <1>11 DEF Laid

\* The entry is found, and it ends where the lines after it begin.
LEMMA EntryFound ==
    ASSUME NEW s, NEW p, NEW d, NEW q, Around(s, p, d, q),
           NEW n \in Nat, n = Len(p), NEW m \in Nat, m = Len(d), NEW l \in Nat, l = Len(q),
           NEW c \in Nat, c = (n + 1) + m, NEW z \in Nat, z = c + l
    PROVE  /\ {i \in Tables(s) : s[i] = "ours"} = {n + 1}
           /\ EntryEnd(s, n + 1) = c + 1
<1>1. /\ s \in Seq(Line) /\ Len(s) = z /\ DOMAIN s = 1..z
      /\ \A i \in 1..n : s[i] \in Outside
      /\ s[n + 1] = "ours"
      /\ \A i \in (n + 2)..c : s[i] \in Inside
      /\ \A j \in 1..l : s[c + j] = q[j] /\ s[c + j] \in Outside
  <2>1. Laid(s, p, q, n, c, l, z)
    BY AroundAt
  <2>2. DOMAIN s = 1..z
    BY <2>1 DEF Laid
  <2> QED BY <2>1, <2>2 DEF Laid
<1>2. \A i \in (c + 1)..z : s[i] \in Outside
  <2> SUFFICES ASSUME NEW i \in (c + 1)..z PROVE s[i] \in Outside
    OBVIOUS
  <2>1. i - c \in 1..l /\ c + (i - c) = i
    OBVIOUS
  <2> QED BY <1>1, <2>1
<1>3. ASSUME NEW i \in 1..z PROVE s[i] = "ours" <=> i = n + 1
  <2>1. i \in 1..n \/ i = n + 1 \/ i \in (n + 2)..c \/ i \in (c + 1)..z
    OBVIOUS
  <2> QED BY <1>1, <1>2, <2>1 DEF Outside, Inside
<1>4. n + 1 \in Tables(s)
  <2>1. n + 1 \in 1..z
    OBVIOUS
  <2> QED BY <1>1, <2>1 DEF Tables
<1>5. {i \in Tables(s) : s[i] = "ours"} = {n + 1}
  BY <1>1, <1>3, <1>4 DEF Tables
<1> DEFINE T == {k \in Tables(s) : k > n + 1 /\ s[k] # "child"} \cup {Len(s) + 1}
<1>6. T \in SUBSET Nat /\ T # {}
  BY <1>1 DEF Tables
<1>7. ASSUME NEW k \in T PROVE c + 1 <= k
  <2>1. CASE k = Len(s) + 1
    BY <1>1, <2>1
  <2>2. CASE k \in Tables(s) /\ k > n + 1 /\ s[k] # "child"
    <3>1. k \in 1..z /\ s[k] \in {"ours", "child", "table"}
      BY <1>1, <2>2 DEF Tables
    <3>2. k \notin (n + 2)..c
      BY <1>1, <2>2, <3>1 DEF Inside, Tables
    <3> QED BY <2>2, <3>1, <3>2
  <2> QED BY <2>1, <2>2
<1>8. c + 1 \in T
  <2>1. CASE l = 0
    BY <1>1, <2>1
  <2>2. CASE l # 0
    <3>1. 1 \in 1..l /\ c + 1 \in 1..z /\ c + 1 > n + 1
      BY <2>2
    <3>2. q[1] = "table"
      BY <2>2 DEF Around, EndsEntry
    <3>3. s[c + 1] = "table"
      BY <1>1, <3>1, <3>2
    <3> QED BY <1>1, <3>1, <3>3 DEF Tables
  <2> QED BY <2>1, <2>2
<1>9. EntryEnd(s, n + 1) = Min(T)
  BY DEF EntryEnd
<1> HIDE DEF T
<1>10. PICK e \in T : e = Min(T) /\ \A x \in T : e <= x
  BY <1>6, MinOf
<1>11. e = c + 1
  <2>1. e <= c + 1 /\ c + 1 <= e /\ e \in Nat
    BY <1>6, <1>7, <1>8, <1>10
  <2> QED BY <2>1
<1> QED BY <1>5, <1>9, <1>10, <1>11

\* The lines from m to n.
LEMMA SubSeqAt ==
    ASSUME NEW S, NEW s \in Seq(S), NEW z \in Nat, z = Len(s), NEW m \in Nat \ {0},
           NEW n \in Nat, n <= z, m <= n + 1, NEW l \in Nat, l = (n + 1) - m,
           NEW v, v = SubSeq(s, m, n)
    PROVE  v \in Seq(S) /\ Len(v) = l /\ \A j \in 1..l : v[j] = s[(m + j) - 1]
<1>1. \A i \in m..n : s[i] \in S
  BY DOMAIN s = 1..z
<1>2. /\ v \in Seq(S)
      /\ Len(v) = IF m <= n THEN n - m + 1 ELSE 0
      /\ \A i \in 1..(n - m + 1) : v[i] = s[m + i - 1]
  <2>1. m \in Int /\ n \in Int
    OBVIOUS
  <2> QED BY <1>1, <2>1, SubSeqProperties
<1>3. Len(v) = l
  BY <1>2
<1> QED BY <1>2, <1>3

\* What stands around our entry stays; the entry is the installer's.
LEMMA ReplaceAround ==
    ASSUME NEW s, NEW p, NEW d, NEW q, Around(s, p, d, q)
    PROVE  ReplaceEntry(s) = (p \o Block) \o q
<1>1. /\ p \in Seq(Line) /\ q \in Seq(Line) /\ d \in Seq(Inside)
      /\ p \in Seq(Outside) /\ q \in Seq(Outside)
  BY OutsideIsLine DEF Around
<1>2. PICK n \in Nat : n = Len(p)
  BY <1>1
<1>3. PICK m \in Nat : m = Len(d)
  BY <1>1
<1>4. PICK l \in Nat : l = Len(q)
  BY <1>1
<1>5. PICK c \in Nat : c = (n + 1) + m
  OBVIOUS
<1>6. PICK z \in Nat : z = c + l
  OBVIOUS
<1>7. Laid(s, p, q, n, c, l, z)
  BY <1>2, <1>3, <1>4, <1>5, <1>6, AroundAt
<1>8. {i \in Tables(s) : s[i] = "ours"} = {n + 1} /\ EntryEnd(s, n + 1) = c + 1
  BY <1>2, <1>3, <1>4, <1>5, <1>6, EntryFound
<1>9. PICK i \in Nat : i = n + 1
  OBVIOUS
<1>10. Min({i}) = i
  <2>1. {i} \in SUBSET Nat /\ {i} # {}
    OBVIOUS
  <2> QED BY <2>1, MinOf
<1>11. PICK v : v = SubSeq(s, 1, n)
  OBVIOUS
<1>12. v = p
  <2>1. /\ 1 \in Nat \ {0} /\ z = Len(s) /\ n <= z /\ 1 <= n + 1 /\ n = (n + 1) - 1
        /\ s \in Seq(Line)
    BY <1>5, <1>6, <1>7 DEF Laid
  <2>2. v \in Seq(Line) /\ Len(v) = n /\ \A j \in 1..n : v[j] = s[(1 + j) - 1]
    BY <1>11, <2>1, SubSeqAt
  <2>3. \A j \in 1..n : v[j] = p[j]
    <3> SUFFICES ASSUME NEW j \in 1..n PROVE v[j] = p[j]
      OBVIOUS
    <3>1. (1 + j) - 1 = j
      OBVIOUS
    <3> QED BY <1>7, <2>2, <3>1 DEF Laid
  <2> QED BY <1>1, <1>2, <2>2, <2>3, SeqEqual
<1>13. PICK a \in Nat \ {0} : a = c + 1
  OBVIOUS
<1>14. PICK w : w = SubSeq(s, a, z)
  OBVIOUS
<1>15. w = q
  <2>1. z = Len(s) /\ z <= z /\ a <= z + 1 /\ l = (z + 1) - a /\ s \in Seq(Line)
    BY <1>6, <1>7, <1>13 DEF Laid
  <2>2. w \in Seq(Line) /\ Len(w) = l /\ \A j \in 1..l : w[j] = s[(a + j) - 1]
    BY <1>14, <2>1, SubSeqAt
  <2>3. \A j \in 1..l : w[j] = q[j]
    <3> SUFFICES ASSUME NEW j \in 1..l PROVE w[j] = q[j]
      OBVIOUS
    <3>1. (a + j) - 1 = c + j
      BY <1>13
    <3> QED BY <1>7, <2>2, <3>1 DEF Laid
  <2> QED BY <1>1, <1>4, <2>2, <2>3, SeqEqual
<1>16. ReplaceEntry(s) = (SubSeq(s, 1, n) \o Block) \o SubSeq(s, a, z)
  <2>1. {k \in Tables(s) : s[k] = "ours"} # {} /\ i - 1 = n
    BY <1>8, <1>9
  <2>2. Len(s) = z
    BY <1>7 DEF Laid
  <2> HIDE DEF Block
  <2> QED BY <1>8, <1>9, <1>10, <1>13, <2>1, <2>2 DEF ReplaceEntry
<1> QED BY <1>11, <1>12, <1>14, <1>15, <1>16

\* In either case the file has the installer's entry afterwards.
LEMMA NowAround ==
    ASSUME NEW p \in Seq(Outside), NEW q \in Seq(Outside), EndsEntry(q)
    PROVE  Around((p \o Block) \o q, Append(p, "mark"), <<"new">>, q)
<1>1. p \in Seq(Line)
  BY OutsideIsLine
<1>2. Append(p, "mark") \in Seq(Outside)
  BY AppendProperties DEF Outside
<1>3. <<"new">> \in Seq(Inside)
  BY DEF Inside
<1>4. p \o Block = Append(p, "mark") \o Entry(<<"new">>)
  <2>1. PICK mark \in Line, ours \in Line, new \in Line :
            mark = "mark" /\ ours = "ours" /\ new = "new"
    BY DEF Line
  <2>2. PICK u \in Seq(Line) : u = <<mark>>
    <3>1. <<mark>> \in Seq(Line)
      OBVIOUS
    <3> QED BY <3>1
  <2>3. PICK v \in Seq(Line) : v = <<ours, new>>
    <3>1. <<ours, new>> \in Seq(Line)
      OBVIOUS
    <3> QED BY <3>1
  <2>4. u \o v = Block
    <3>1. <<mark>> \o <<ours, new>> = <<mark, ours, new>>
      BY ThreeAre
    <3> QED BY <2>1, <2>2, <2>3, <3>1 DEF Block
  <2>5. Entry(<<"new">>) = v
    <3>1. <<ours>> \o <<new>> = <<ours, new>>
      BY TwoAre
    <3> QED BY <2>1, <2>3, <3>1 DEF Entry
  <2>6. Append(p, "mark") = p \o u
    BY <1>1, <2>1, <2>2, AppendIsConcat
  <2>7. (p \o u) \o v = p \o (u \o v)
    BY <1>1, ConcatAssociative
  <2> QED BY <2>4, <2>5, <2>6, <2>7
<1> QED BY <1>2, <1>3, <1>4 DEF Around

\* The same where there is no entry yet.
LEMMA ReplaceNone ==
    ASSUME NEW s \in Seq(Outside)
    PROVE  ReplaceEntry(s) = (s \o Block) \o <<>>
<1>1. {i \in Tables(s) : s[i] = "ours"} = {}
  <2>1. ASSUME NEW i \in DOMAIN s PROVE s[i] # "ours"
    BY DEF Outside
  <2> QED BY <2>1 DEF Tables
<1>2. ReplaceEntry(s) = s \o Block
  BY <1>1 DEF ReplaceEntry
<1>3. s \o Block \in Seq(Line)
  <2>1. Block \in Seq(Line)
    <3>1. \A a, b, c \in Line : <<a, b, c>> \in Seq(Line)
      OBVIOUS
    <3> QED BY <3>1 DEF Block, Line
  <2> HIDE DEF Block
  <2> QED BY <2>1, OutsideIsLine, ConcatProperties
<1> QED BY <1>2, <1>3, ConcatEmptySeq

\* A valid file without arrays has no entry, or one with lines around it.
LEMMA ValidShape ==
    ASSUME "array" \notin Kinds, NEW s \in Files, Valid(s)
    PROVE  s \in Seq(Outside) \/ \E p, d, q : Around(s, p, d, q)
<1> DEFINE K == {"ours", "child", "table", "key", "comment"}
<1>1. s \in Seq(K)
  <2>1. Kinds \subseteq K
    BY TomlAssumption
  <2>2. PICK n \in Nat : s \in [1..n -> Kinds]
    BY TomlAssumption DEF Files
  <2>3. s \in [1..n -> K]
    BY <2>1, <2>2
  <2> QED BY <2>3
<1>2. PICK z \in Nat : z = Len(s) /\ DOMAIN s = 1..z
  BY <1>1
<1>3. \A k \in 1..z : s[k] \in K
  BY <1>1, <1>2
<1>4. CASE \A k \in 1..z : s[k] # "ours"
  <2>1. ASSUME NEW k \in 1..z PROVE s[k] \in Outside
    BY <1>3, <1>4 DEF Outside
  <2>2. s \in Seq(Outside)
    BY <1>1, <1>2, <2>1
  <2> QED BY <2>2
<1>5. CASE \E i \in 1..z : s[i] = "ours"
  <2>1. PICK i \in 1..z : s[i] = "ours"
    BY <1>5
  <2>2. ASSUME NEW k \in 1..z, s[k] = "ours" PROVE k = i
    <3> DEFINE T == {x \in DOMAIN s : s[x] = "ours"}
    <3>1. Cardinality(T) <= 1
      BY DEF Valid
    <3>2. IsFiniteSet(T) /\ Cardinality(T) \in Nat
      <4>1. IsFiniteSet(1..z)
        BY FS_Interval
      <4>2. T \in SUBSET (1..z)
        BY <1>2
      <4> QED BY <4>1, <4>2, FS_Subset, FS_CardinalityType
    <3>3. i \in T /\ k \in T
      BY <1>2, <2>1, <2>2
    <3> HIDE DEF T
    <3>4. Cardinality(T) # 0
      BY <3>2, <3>3, FS_EmptySet
    <3>5. Cardinality(T) = 1
      BY <3>1, <3>2, <3>4
    <3>6. \E x : T = {x}
      BY <3>2, <3>5, FS_Singleton
    <3> QED BY <3>3, <3>6
  <2> DEFINE E == {k \in Tables(s) : k > i /\ s[k] # "child"} \cup {z + 1}
  <2>3. E \in SUBSET Nat /\ E # {}
    BY <1>2 DEF Tables
  <2>4. PICK a \in E : \A x \in E : a <= x
    BY <2>3, LeastNatural
  <2>5. a \in Nat \ {0} /\ a > i /\ a <= z + 1
    BY <1>2, <2>4 DEF Tables
  <2>6. ASSUME NEW k \in (i + 1)..(a - 1) PROVE s[k] \in Inside
    <3>1. k \in 1..z /\ k < a
      BY <2>5
    <3>2. k \notin E
      BY <2>3, <2>4, <3>1
    <3>3. s[k] # "table"
      BY <1>2, <3>1, <3>2 DEF Tables
    <3>4. s[k] # "ours"
      BY <2>2, <3>1
    <3> QED BY <1>3, <3>1, <3>3, <3>4 DEF Inside
  <2>7. a \in 1..z => s[a] = "table"
    <3>1. a \in 1..z => a \in Tables(s) /\ a > i /\ s[a] # "child"
      BY <2>4
    <3>2. a \in 1..z => s[a] # "ours"
      BY <2>2, <2>5
    <3> QED BY <3>1, <3>2 DEF Tables
  <2>8. ASSUME NEW k \in 1..z, k < i \/ a <= k PROVE s[k] \in Outside
    <3>1. s[k] # "ours"
      BY <2>2, <2>5, <2>8
    <3> QED BY <1>3, <3>1 DEF Outside
  <2> HIDE DEF E, K
  <2>9. PICK b \in Nat : b = i - 1
    OBVIOUS
  <2>10. PICK c \in Nat : c = a - 1
    BY <2>5
  <2>11. PICK p : p = SubSeq(s, 1, b)
    OBVIOUS
  <2>12. PICK d : d = SubSeq(s, i + 1, c)
    OBVIOUS
  <2>13. PICK q : q = SubSeq(s, a, z)
    OBVIOUS
  <2>14. p \in Seq(Outside)
    <3>1. \A k \in 1..b : s[k] \in Outside
      BY <2>8, <2>9
    <3> QED BY <2>11, <3>1, SubSeqProperties
  <2>15. d \in Seq(Inside)
    <3>1. \A k \in (i + 1)..c : s[k] \in Inside
      BY <2>6, <2>10
    <3>2. i + 1 \in Int /\ c \in Int
      OBVIOUS
    <3> QED BY <2>12, <3>1, <3>2, SubSeqProperties
  <2>16. q \in Seq(Outside)
    <3>1. \A k \in a..z : s[k] \in Outside
      BY <2>5, <2>8
    <3>2. a \in Int /\ z \in Int
      BY <2>5
    <3> QED BY <2>13, <3>1, <3>2, SubSeqProperties
  <2>17. EndsEntry(q)
    <3>1. CASE a \in 1..z
      <4>1. PICK l \in Nat : l = (z + 1) - a
        BY <2>5
      <4>2. /\ z = Len(s) /\ z <= z /\ a <= z + 1
        BY <1>2, <2>5
      <4>3. Len(q) = l /\ \A j \in 1..l : q[j] = s[(a + j) - 1]
        BY <1>1, <2>5, <2>13, <4>1, <4>2, SubSeqAt
      <4>4. 1 \in 1..l /\ (a + 1) - 1 = a
        BY <3>1, <4>1
      <4>5. q[1] = "table"
        BY <2>7, <3>1, <4>3, <4>4
      <4>6. q # <<>>
        BY <4>3, <4>4
      <4> QED BY <4>5, <4>6 DEF EndsEntry
    <3>2. CASE a \notin 1..z
      <4>1. z < a
        BY <2>5, <3>2
      <4>2. q = <<>>
        BY <2>5, <2>13, <4>1, SubSeqEmpty
      <4> QED BY <4>2 DEF EndsEntry
    <3> QED BY <3>1, <3>2
  <2>18. s = (p \o Entry(d)) \o q
    <3>1. SubSeq(s, i, c) = Entry(d)
      <4>1. i \in 1..Len(s) /\ c \in i..Len(s)
        BY <1>2, <2>5, <2>10
      <4>2. SubSeq(s, i, c) = <<s[i]>> \o SubSeq(s, i + 1, c)
        BY <1>1, <4>1, SubSeqRecursiveFirst
      <4> QED BY <2>1, <2>12, <4>2 DEF Entry
    <3>2. SubSeq(s, 1, b) \o SubSeq(s, b + 1, c) = SubSeq(s, 1, c)
      <4>1. 1 \in 1..(Len(s) + 1) /\ b \in (1 - 1)..Len(s) /\ c \in b..Len(s)
        BY <1>2, <2>5, <2>9, <2>10
      <4> QED BY <1>1, <4>1, ConcatAdjacentSubSeq
    <3>3. SubSeq(s, 1, c) \o SubSeq(s, c + 1, z) = SubSeq(s, 1, z)
      <4>1. 1 \in 1..(Len(s) + 1) /\ c \in (1 - 1)..Len(s) /\ z \in c..Len(s)
        BY <1>2, <2>5, <2>10
      <4> QED BY <1>1, <4>1, ConcatAdjacentSubSeq
    <3>4. b + 1 = i /\ c + 1 = a
      BY <2>5, <2>9, <2>10
    <3>5. SubSeq(s, 1, z) = s
      BY <1>1, <1>2, SubSeqFull
    <3> QED BY <2>11, <2>13, <3>1, <3>2, <3>3, <3>4, <3>5
  <2> QED BY <2>14, <2>15, <2>16, <2>17, <2>18 DEF Around
<1> QED BY <1>4, <1>5

-----------------------------------------------------------------------------
(* The inductive invariant.                                                *)

\* Our entry is in the file, and the other settings are where they were.
Installed ==
    \E p, d, q :
        /\ Around(file, p, d, q)
        /\ Others(original) = Others(p) \o Others(q)
        /\ installs > 0 => d = <<"new">>

Inv ==
    /\ installs \in Nat
    /\ \/ installs = 0 /\ file = original /\ file \in Seq(Outside)
       \/ Installed

LEMMA InitInv ==
    ASSUME "array" \notin Kinds, Init
    PROVE  Inv
<1>1. original \in Files /\ Valid(original) /\ file = original /\ installs = 0
  BY DEF Init
<1>2. CASE file \in Seq(Outside)
  BY <1>1, <1>2 DEF Inv
<1>3. ASSUME NEW p, NEW d, NEW q, Around(file, p, d, q) PROVE Inv
  <2>1. Others(file) = Others(p) \o Others(q)
    BY <1>3, OthersAround
  <2>2. Installed
    BY <1>1, <1>3, <2>1 DEF Installed
  <2> QED BY <1>1, <2>2 DEF Inv
<1> QED BY <1>1, <1>2, <1>3, ValidShape

\* An install leaves the file before and after the entry as it is.
LEMMA InstallStep ==
    ASSUME Inv, Install
    PROVE  \E p, q : /\ p \in Seq(Outside) /\ q \in Seq(Outside) /\ EndsEntry(q)
                     /\ file' = (p \o Block) \o q
                     /\ Others(original) = Others(p) \o Others(q)
                     /\ installs > 0 => file = (p \o Entry(<<"new">>)) \o q
<1>1. file' = ReplaceEntry(file)
  BY DEF Install
<1>2. CASE installs = 0 /\ file = original /\ file \in Seq(Outside)
  <2>1. ReplaceEntry(file) = (file \o Block) \o <<>>
    BY <1>2, ReplaceNone
  <2>2. <<>> \in Seq(Outside) /\ EndsEntry(<<>>)
    BY EmptySeq DEF EndsEntry
  <2>3. Others(file) \o Others(<<>>) = Others(file)
    <3>1. Others(<<>>) = <<>>
      <4>1. <<>> \in Seq(Line) /\ DOMAIN <<>> = {}
        OBVIOUS
      <4> QED BY <4>1, NoOthers
    <3>2. Others(file) \in Seq(Pair)
      BY <1>2, OutsideIsLine, OthersType
    <3> QED BY <3>1, <3>2, ConcatEmptySeq
  <2>4. ~(installs > 0)
    BY <1>2
  <2>5. PICK q : q = <<>>
    OBVIOUS
  <2> QED BY <1>1, <1>2, <2>1, <2>2, <2>3, <2>4, <2>5
<1>3. CASE Installed
  <2>1. PICK p, d, q : /\ Around(file, p, d, q)
                       /\ Others(original) = Others(p) \o Others(q)
                       /\ installs > 0 => d = <<"new">>
    BY <1>3 DEF Installed
  <2>2. ReplaceEntry(file) = (p \o Block) \o q
    BY <2>1, ReplaceAround
  <2>3. p \in Seq(Outside) /\ q \in Seq(Outside) /\ EndsEntry(q) /\ file = (p \o Entry(d)) \o q
    BY <2>1 DEF Around
  <2> QED BY <1>1, <2>1, <2>2, <2>3
<1> QED BY <1>2, <1>3 DEF Inv

LEMMA InstallInv ==
    ASSUME Inv, Install
    PROVE  Inv'
<1>1. PICK p, q : /\ p \in Seq(Outside) /\ q \in Seq(Outside) /\ EndsEntry(q)
                  /\ file' = (p \o Block) \o q
                  /\ Others(original) = Others(p) \o Others(q)
  BY InstallStep
<1>2. PICK r : r = Append(p, "mark")
  OBVIOUS
<1>3. Around(file', r, <<"new">>, q)
  BY <1>1, <1>2, NowAround
<1>4. Others(r) = Others(p)
  BY <1>1, <1>2, OutsideIsLine, OthersMarked
<1>5. original' = original /\ installs' \in Nat
  BY DEF Install, Inv
<1>6. Installed'
  BY <1>1, <1>3, <1>4, <1>5 DEF Installed
<1> QED BY <1>5, <1>6 DEF Inv

LEMMA InvHolds ==
    ASSUME "array" \notin Kinds
    PROVE  Spec => []Inv
<1>1. Inv /\ UNCHANGED vars => Inv'
  BY DEF Inv, Installed, vars
<1>2. Inv /\ [Next]_vars => Inv'
  BY <1>1, InstallInv DEF Next
<1> QED BY InitInv, <1>2, PTL DEF Spec

\* An install removes no setting but the entry's and moves none into another
\* table, in a file without arrays of tables (replaceCodexEntry).
THEOREM KeepsOthers ==
    ASSUME "array" \notin Kinds
    PROVE  Spec => []OthersKept
<1>1. ASSUME Inv PROVE OthersKept
  <2>1. ASSUME NEW p, NEW d, NEW q, Around(file, p, d, q),
               Others(original) = Others(p) \o Others(q)
        PROVE  OthersKept
    BY <2>1, OthersAround DEF OthersKept
  <2> QED BY <1>1, <2>1 DEF Inv, Installed, OthersKept
<1> QED BY <1>1, InvHolds, PTL

\* A file whose entry is <<"new">>, line by line.
LEMMA NewEntryAt ==
    ASSUME NEW s, NEW p, NEW d, NEW q, Around(s, p, d, q), d = <<"new">>,
           NEW n \in Nat, n = Len(p)
    PROVE  /\ {i \in DOMAIN s : s[i] = "ours"} = {n + 1}
           /\ n + 1 \in DOMAIN s /\ s[n + 1] = "ours" /\ s[n + 2] = "new"
           /\ \A i \in DOMAIN s : InEntry(s, i) => s[i] \in {"ours", "new"}
<1>1. PICK l \in Nat : l = Len(q)
  BY DEF Around
<1>2. PICK c \in Nat : c = (n + 1) + 1
  OBVIOUS
<1>3. PICK z \in Nat : z = c + l
  OBVIOUS
<1>4. Len(d) = 1 /\ d[1] = "new"
  <2>1. PICK x : x = "new"
    OBVIOUS
  <2>2. Len(<<x>>) = 1 /\ <<x>>[1] = x
    OBVIOUS
  <2> QED BY <2>1, <2>2
<1>5. Laid(s, p, q, n, c, l, z)
  <2>1. 1 \in Nat
    OBVIOUS
  <2> QED BY <1>1, <1>2, <1>3, <1>4, <2>1, AroundAt
<1>6. /\ s \in Seq(Line) /\ DOMAIN s = 1..z
      /\ \A i \in 1..n : s[i] \in Outside
      /\ s[n + 1] = "ours"
      /\ \A j \in 1..l : s[c + j] = q[j] /\ s[c + j] \in Outside
  BY <1>5 DEF Laid
<1>7. s[c] = "new"
  <2>1. PICK e \in Seq(Line) : e = Entry(d) /\ Len(e) = c - n /\ e[2] = "new"
    <3>1. d \in Seq(Inside) /\ 1 \in Nat
      BY DEF Around
    <3>2. /\ Entry(d) \in Seq(Line) /\ Len(Entry(d)) = 1 + 1
          /\ \A j \in 1..1 : Entry(d)[1 + j] = d[j]
      BY <1>4, <3>1, EntryIs
    <3>3. 1 \in 1..1 /\ 1 + 1 = 2 /\ c - n = 2
      BY <1>2
    <3> QED BY <1>4, <3>2, <3>3
  <2>2. p \in Seq(Line) /\ q \in Seq(Line)
    BY OutsideIsLine DEF Around
  <2>3. PICK f : f = p \o e
    OBVIOUS
  <2>4. PICK k \in Nat : k = 2 /\ k = Len(e) /\ n + k = c
    <3>1. PICK k \in Nat : k = 2
      OBVIOUS
    <3>2. n + k = c /\ c - n = k
      BY <1>2, <3>1
    <3> QED BY <2>1, <3>1, <3>2
  <2>5. f \in Seq(Line) /\ Len(f) = n + k
    BY <2>1, <2>2, <2>3, <2>4, ConcatProperties
  <2>6. \A j \in 1..k : f[n + j] = e[j]
    BY <2>1, <2>2, <2>3, <2>4, ConcatAt
  <2>7. f[c] = "new"
    <3>1. k \in 1..k
      BY <2>4
    <3> QED BY <2>1, <2>4, <2>6, <3>1
  <2>8. s = f \o q /\ c = Len(f)
    BY <2>1, <2>3, <2>4, <2>5 DEF Around
  <2>9. \A i \in 1..c : s[i] = f[i]
    BY <1>1, <2>2, <2>5, <2>8, ConcatAt
  <2> QED BY <1>2, <2>7, <2>9
<1>8. \A i \in (c + 1)..z : s[i] \in Outside
  <2> SUFFICES ASSUME NEW i \in (c + 1)..z PROVE s[i] \in Outside
    OBVIOUS
  <2>1. i - c \in 1..l /\ c + (i - c) = i
    BY <1>3
  <2> QED BY <1>6, <2>1
<1>9. ASSUME NEW i \in 1..z
      PROVE  \/ i = n + 1 /\ s[i] = "ours"
             \/ i = c /\ s[i] = "new"
             \/ i # n + 1 /\ i # c /\ s[i] \in Outside
  <2>1. i \in 1..n \/ i = n + 1 \/ i = c \/ i \in (c + 1)..z
    BY <1>2, <1>3
  <2> QED BY <1>2, <1>6, <1>7, <1>8, <2>1
<1>10. n + 1 \in 1..z /\ n + 2 = c
  BY <1>2, <1>3
<1>11. ASSUME NEW i \in 1..z, InEntry(s, i) PROVE s[i] \in {"ours", "new"}
  <2>1. PICK h \in 1..i : s[h] = "ours" /\ \A k \in h..i : s[k] \notin {"table", "array"}
    BY <1>11 DEF InEntry
  <2>2. h \in 1..z
    OBVIOUS
  <2>3. h = n + 1
    BY <1>9, <2>1, <2>2 DEF Outside
  <2>4. i <= c
    <3> SUFFICES ASSUME i > c PROVE FALSE
      OBVIOUS
    <3>1. 1 \in 1..l /\ c + 1 \in h..i
      BY <1>2, <1>3, <2>3
    <3>2. q[1] = "table"
      BY <1>1, <3>1 DEF Around, EndsEntry
    <3> QED BY <1>6, <2>1, <3>1, <3>2
  <2>5. i = n + 1 \/ i = c
    BY <1>2, <2>1, <2>3, <2>4
  <2> QED BY <1>6, <1>7, <2>5
<1>12. {i \in DOMAIN s : s[i] = "ours"} = {n + 1}
  BY <1>6, <1>9, <1>10 DEF Outside
<1> QED BY <1>6, <1>7, <1>10, <1>11, <1>12

\* After an install the file has one table of ours, with the new command, and
\* behind it no key or subtable of an earlier entry up to the next table, in a
\* file without arrays of tables (replaceCodexEntry).  Subtables of ours that
\* stand elsewhere may be in the file, before and after the install.
THEOREM LeavesOneEntry ==
    ASSUME "array" \notin Kinds
    PROVE  Spec => []EntryIsNew
<1>1. ASSUME Inv PROVE EntryIsNew
  <2> SUFFICES ASSUME installs > 0
               PROVE  /\ Cardinality({i \in DOMAIN file : file[i] = "ours"}) = 1
                      /\ \E i \in DOMAIN file : file[i] = "ours" /\ file[i + 1] = "new"
                      /\ \A i \in DOMAIN file :
                            InEntry(file, i) => file[i] \in {"ours", "new", "comment"}
    BY DEF EntryIsNew
  <2>1. PICK p, d, q : Around(file, p, d, q) /\ d = <<"new">>
    BY <1>1 DEF Inv, Installed
  <2>2. PICK n \in Nat : n = Len(p)
    BY <2>1 DEF Around
  <2>3. /\ {i \in DOMAIN file : file[i] = "ours"} = {n + 1}
        /\ n + 1 \in DOMAIN file /\ file[n + 1] = "ours" /\ file[n + 2] = "new"
        /\ \A i \in DOMAIN file : InEntry(file, i) => file[i] \in {"ours", "new"}
    BY <2>1, <2>2, NewEntryAt
  <2>4. Cardinality({i \in DOMAIN file : file[i] = "ours"}) = 1
    BY <2>3, FS_Singleton
  <2>5. (n + 1) + 1 = n + 2
    OBVIOUS
  <2> QED BY <2>3, <2>4, <2>5
<1> QED BY <1>1, InvHolds, PTL

-----------------------------------------------------------------------------
(* A second install.                                                       *)

\* What of a line is no comment of the installer.
Said(s, i) == IF s[i] = "mark" THEN <<>> ELSE <<s[i]>>
SaidAll(s) == [i \in DOMAIN s |-> IF s[i] = "mark" THEN <<>> ELSE <<s[i]>>]
AreSaid(t, s, n) == t \in Seq(Seq(Line)) /\ Len(t) = n /\ \A i \in 1..n : t[i] = Said(s, i)

LEMMA SaidType ==
    ASSUME NEW s \in Seq(Line), NEW n \in Nat, n = Len(s), NEW t, t = SaidAll(s)
    PROVE  AreSaid(t, s, n)
<1>1. DOMAIN s = 1..n
  OBVIOUS
<1>2. PICK S : S = Seq(Line)
  OBVIOUS
<1>3. ASSUME NEW i \in 1..n PROVE Said(s, i) \in S
  <2>1. s[i] \in Line
    OBVIOUS
  <2>2. <<s[i]>> \in Seq(Line) /\ <<>> \in Seq(Line)
    BY <2>1
  <2> QED BY <1>2, <2>2 DEF Said
<1>4. PICK u : u = [i \in 1..n |-> Said(s, i)]
  OBVIOUS
<1>5. u \in Seq(S) /\ Len(u) = n /\ \A i \in 1..n : u[i] = Said(s, i)
  BY <1>3, <1>4
<1>6. t = u
  BY <1>1, <1>4 DEF Said, SaidAll
<1> QED BY <1>2, <1>5, <1>6 DEF AreSaid

LEMMA UnmarkedConcat ==
    ASSUME NEW a \in Seq(Line), NEW b \in Seq(Line), NEW c, c = a \o b
    PROVE  Unmarked(c) = Unmarked(a) \o Unmarked(b)
<1>1. PICK n \in Nat : n = Len(a)
  OBVIOUS
<1>2. PICK m \in Nat : m = Len(b)
  OBVIOUS
<1>3. /\ c \in Seq(Line) /\ Len(c) = n + m
      /\ \A i \in 1..n : c[i] = a[i]
      /\ \A j \in 1..m : c[n + j] = b[j]
  BY <1>1, <1>2, ConcatAt
<1>4. PICK l \in Nat : l = n + m
  OBVIOUS
<1>5. PICK S : S = Seq(Line)
  OBVIOUS
<1>6. PICK t : t = SaidAll(a)
  OBVIOUS
<1>7. PICK u : u = SaidAll(b)
  OBVIOUS
<1>8. PICK v : v = SaidAll(c)
  OBVIOUS
<1>9. t \in Seq(S) /\ Len(t) = n /\ \A i \in 1..n : t[i] = Said(a, i)
  <2>1. AreSaid(t, a, n)
    BY <1>1, <1>6, SaidType
  <2> QED BY <1>5, <2>1 DEF AreSaid
<1>10. u \in Seq(S) /\ Len(u) = m /\ \A i \in 1..m : u[i] = Said(b, i)
  <2>1. AreSaid(u, b, m)
    BY <1>2, <1>7, SaidType
  <2> QED BY <1>5, <2>1 DEF AreSaid
<1>11. v \in Seq(S) /\ Len(v) = l /\ \A i \in 1..l : v[i] = Said(c, i)
  <2>1. l = Len(c) /\ c \in Seq(Line)
    BY <1>3, <1>4
  <2>2. AreSaid(v, c, l)
    BY <1>8, <2>1, SaidType
  <2> QED BY <1>5, <2>2 DEF AreSaid
<1>12. PICK w : w = t \o u
  OBVIOUS
<1>13. /\ w \in Seq(S) /\ Len(w) = l
       /\ \A i \in 1..n : w[i] = t[i]
       /\ \A j \in 1..m : w[n + j] = u[j]
  <2>1. w \in Seq(S) /\ Len(w) = n + m
    BY <1>9, <1>10, <1>12, ConcatProperties
  <2>2. n = Len(t) /\ m = Len(u)
    BY <1>9, <1>10
  <2>3. \A i \in 1..n : w[i] = t[i]
    BY <1>9, <1>10, <1>12, <2>2, ConcatAt
  <2>4. \A j \in 1..m : w[n + j] = u[j]
    BY <1>9, <1>10, <1>12, <2>2, ConcatAt
  <2> QED BY <1>4, <2>1, <2>3, <2>4
<1>14. ASSUME NEW i \in 1..l PROVE v[i] = w[i]
  <2>1. CASE i <= n
    <3>1. i \in 1..n
      BY <2>1
    <3>2. c[i] = a[i]
      BY <1>3, <3>1
    <3>3. Said(c, i) = Said(a, i)
      BY <3>2 DEF Said
    <3> QED BY <1>9, <1>11, <1>13, <3>1, <3>3
  <2>2. CASE ~(i <= n)
    <3>1. PICK j \in 1..m : i = n + j
      <4>1. i - n \in 1..m /\ i = n + (i - n)
        BY <1>4, <2>2
      <4> QED BY <4>1
    <3> QED BY <1>3, <1>10, <1>11, <1>13, <3>1 DEF Said
  <2> QED BY <2>1, <2>2
<1>15. v = w
  BY <1>11, <1>13, <1>14, SeqEqual
<1>16. FlattenSeq(w) = FlattenSeq(t) \o FlattenSeq(u)
  BY <1>5, <1>9, <1>10, <1>12, FlattenConcat
<1> QED BY <1>6, <1>7, <1>8, <1>15, <1>16 DEF Unmarked, SaidAll

\* The installer's comment is all that a second install adds.
LEMMA UnmarkedBlock == Unmarked(Block) = Unmarked(Entry(<<"new">>))
<1>1. PICK mark \in Line, ours \in Line, new \in Line :
          mark = "mark" /\ ours = "ours" /\ new = "new"
  BY DEF Line
<1>2. PICK u : u = <<mark>> /\ u \in Seq(Line) /\ Len(u) = 1 /\ u[1] = mark
  <2>1. <<mark>> \in Seq(Line) /\ Len(<<mark>>) = 1 /\ <<mark>>[1] = mark
    OBVIOUS
  <2> QED BY <2>1
<1>3. PICK v \in Seq(Line) : v = <<ours, new>>
  <2>1. <<ours, new>> \in Seq(Line)
    OBVIOUS
  <2> QED BY <2>1
<1>4. Block = u \o v
  BY <1>1, <1>2, <1>3, ThreeAre DEF Block
<1>5. Entry(<<"new">>) = v
  BY <1>1, <1>3, TwoAre DEF Entry
<1>6. Unmarked(u) = <<>>
  <2>1. PICK t : t = SaidAll(u)
    OBVIOUS
  <2>2. PICK n \in Nat \ {0} : n = 1
    OBVIOUS
  <2>3. Len(t) = n /\ t[n] = Said(u, n)
    <3>1. PICK r \in Seq(Line) : r = u /\ Len(r) = 1
      BY <1>2
    <3>2. PICK m \in Nat : m = n /\ m = Len(r)
      BY <2>2, <3>1
    <3>3. t = SaidAll(r)
      BY <2>1, <3>1
    <3>4. Len(t) = m /\ \A i \in 1..m : t[i] = Said(r, i)
      BY <3>1, <3>2, <3>3, SaidType DEF AreSaid
    <3>5. n \in 1..m
      BY <2>2, <3>2
    <3> QED BY <3>1, <3>2, <3>4, <3>5
  <2>4. FlattenSeq(t) = t[n]
    BY <2>2, <2>3, FlattenOne
  <2>5. Said(u, n) = <<>>
    BY <1>1, <1>2, <2>2 DEF Said
  <2> QED BY <2>1, <2>3, <2>4, <2>5 DEF Unmarked, SaidAll
<1>7. Unmarked(v) \in Seq(Line)
  <2>1. PICK t : t = SaidAll(v)
    OBVIOUS
  <2>2. PICK n \in Nat : n = Len(v)
    OBVIOUS
  <2>3. t \in Seq(Seq(Line))
    BY <2>1, <2>2, SaidType DEF AreSaid
  <2>4. FlattenSeq(t) \in Seq(Line)
    BY <2>3, FlattenType
  <2> QED BY <2>1, <2>4 DEF Unmarked, SaidAll
<1>8. Unmarked(u \o v) = Unmarked(u) \o Unmarked(v)
  BY <1>2, UnmarkedConcat
<1> QED BY <1>4, <1>5, <1>6, <1>7, <1>8, ConcatEmptySeq

\* A second install keeps every line but the installer's comments
\* (replaceCodexEntry).
THEOREM InstallSettles ==
    ASSUME "array" \notin Kinds
    PROVE  Spec => Settles
<1>1. ASSUME Inv, Install, installs > 0 PROVE Unmarked(file') = Unmarked(file)
  <2>1. PICK p, q : /\ p \in Seq(Outside) /\ q \in Seq(Outside)
                    /\ file' = (p \o Block) \o q
                    /\ file = (p \o Entry(<<"new">>)) \o q
    BY <1>1, InstallStep
  <2>2. p \in Seq(Line) /\ q \in Seq(Line)
    BY <2>1, OutsideIsLine
  <2>3. PICK b \in Seq(Line) : b = Block
    <3>1. \A x, y, w \in Line : <<x, y, w>> \in Seq(Line)
      OBVIOUS
    <3> QED BY <3>1 DEF Block, Line
  <2>4. PICK e \in Seq(Line) : e = Entry(<<"new">>)
    <3>1. PICK d \in Seq(Inside) : d = <<"new">>
      <4>1. \A x \in Inside : <<x>> \in Seq(Inside)
        OBVIOUS
      <4> QED BY <4>1 DEF Inside
    <3>2. PICK n \in Nat : n = Len(d)
      OBVIOUS
    <3> QED BY <3>1, <3>2, EntryIs
  <2>5. PICK f : f = p \o b
    OBVIOUS
  <2>6. PICK g : g = p \o e
    OBVIOUS
  <2>7. f \in Seq(Line) /\ g \in Seq(Line)
    BY <2>2, <2>5, <2>6, ConcatProperties
  <2>8. Unmarked(f) = Unmarked(p) \o Unmarked(b) /\ Unmarked(g) = Unmarked(p) \o Unmarked(e)
    BY <2>2, <2>5, <2>6, UnmarkedConcat
  <2>9. Unmarked(f \o q) = Unmarked(f) \o Unmarked(q) /\ Unmarked(g \o q) = Unmarked(g) \o Unmarked(q)
    BY <2>2, <2>7, UnmarkedConcat
  <2>10. Unmarked(b) = Unmarked(e)
    BY <2>3, <2>4, UnmarkedBlock
  <2> QED BY <2>1, <2>3, <2>4, <2>5, <2>6, <2>8, <2>9, <2>10
<1>2. Inv /\ [Next]_vars => (installs > 0 => Unmarked(file') = Unmarked(file)) \/ UNCHANGED vars
  BY <1>1 DEF Next
<1>3. Inv /\ [Next]_vars => [installs > 0 => Unmarked(file') = Unmarked(file)]_vars
  BY <1>2
<1> QED BY InvHolds, <1>3, PTL DEF Spec, Settles

=============================================================================
