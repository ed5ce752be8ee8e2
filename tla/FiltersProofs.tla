---------------------------- MODULE FiltersProofs ----------------------------
(***************************************************************************)
(* Filters, for every endpoint, filter and sort: ListsAreFaithful.  Three  *)
(* results carry it.  ReadingCut gives the equations of the reference      *)
(* reading; ParserFaithful says that parse_rsql takes exactly the          *)
(* sentences and that its node means what the sentence means; BuildBuilds  *)
(* and AtomMeans that the SQL written for a node, with the values bound,   *)
(* is true for the rows the node means.  Recursive functions are chosen by *)
(* their equations, so each is first shown to have a solution.             *)
(***************************************************************************)
EXTENDS Filters, TLAPS, WellFoundedInduction, SequenceTheorems, FiniteSetTheorems

-----------------------------------------------------------------------------
\* A set of numbers has a least member.
LEMMA Least ==
    ASSUME NEW S \in SUBSET Nat, S # {}
    PROVE  \E n \in S : \A m \in S : n <= m
<1>1. PICK n \in S : \A m \in S : ~(<<m, n>> \in OpToRel(<, Nat))
    BY NatLessThanWellFounded, WFMin
<1>2. \A m \in S : ~(m < n)
    BY <1>1 DEF OpToRel
<1>3. QED BY <1>2

\* A set of numbers that holds 0 and the successor of each of its members up to N.
LEMMA Induct ==
    ASSUME NEW N \in Nat, NEW S, 0 \in S, \A i \in 1..N : i - 1 \in S => i \in S
    PROVE  0..N \subseteq S
<1> DEFINE C == {i \in 0..N : i \notin S}
<1>1. SUFFICES ASSUME C # {} PROVE FALSE OBVIOUS
<1>2. PICK n \in C : \A m \in C : n <= m
    <2>1. C \subseteq Nat OBVIOUS
    <2> HIDE DEF C
    <2> QED BY <1>1, <2>1, Least
<1>3. n \in 1..N /\ n - 1 \in 0..N /\ n - 1 \notin C
    BY <1>2
<1>4. QED BY <1>2, <1>3

-----------------------------------------------------------------------------
(***************************************************************************)
(* Parentheses.  A sequence is closed when none of its parentheses is left *)
(* open or closes nothing.                                                 *)
(***************************************************************************)
Closed(s) ==
    /\ Count(s, "(", Len(s)) = Count(s, ")", Len(s))
    /\ \A i \in 0..Len(s) : Count(s, ")", i) <= Count(s, "(", i)

\* How the number of tokens of a kind grows from one token to the next.
LEMMA CountStep ==
    ASSUME NEW s, NEW t, NEW i \in Nat
    PROVE  /\ Count(s, t, i) \in Nat
           /\ Count(s, t, 0) = 0
           /\ Count(s, t, i + 1) = IF s[i + 1].t = t THEN Count(s, t, i) + 1 ELSE Count(s, t, i)
<1> DEFINE C(k) == {j \in 1..k : s[j].t = t}
<1>1. \A k \in Nat : IsFiniteSet(C(k)) /\ Cardinality(C(k)) \in Nat
    <2>1. ASSUME NEW k \in Nat PROVE IsFiniteSet(C(k))
        <3>1. IsFiniteSet(1..k) BY FS_Interval
        <3>2. C(k) \subseteq 1..k OBVIOUS
        <3>3. QED BY <3>1, <3>2, FS_Subset
    <2>2. QED BY <2>1, FS_CardinalityType
<1>2. C(0) = {} OBVIOUS
<1>3. CASE s[i + 1].t = t
    <2>1. C(i + 1) = C(i) \cup {i + 1} BY <1>3
    <2>2. i + 1 \notin C(i) OBVIOUS
    <2> HIDE DEF C
    <2>3. Cardinality(C(i + 1)) = Cardinality(C(i)) + 1 BY <1>1, <2>1, <2>2, FS_AddElement
    <2>4. QED BY <1>1, <1>2, <1>3, <2>3, FS_EmptySet DEF Count, C
<1>4. CASE s[i + 1].t # t
    <2>1. C(i + 1) = C(i) BY <1>4
    <2> HIDE DEF C
    <2>2. QED BY <1>1, <1>2, <1>4, <2>1, FS_EmptySet DEF Count, C
<1>5. QED BY <1>3, <1>4

\* Sequences of the same kinds have the same counts.
LEMMA CountSame ==
    ASSUME NEW s, NEW r, NEW t, NEW i \in Nat, \A j \in 1..i : s[j].t = r[j].t
    PROVE  Count(s, t, i) = Count(r, t, i)
<1>1. {j \in 1..i : s[j].t = t} = {j \in 1..i : r[j].t = t} OBVIOUS
<1>2. QED BY <1>1 DEF Count

\* A sequence inside another adds its own counts to those before it.
LEMMA CountShift ==
    ASSUME NEW s, NEW y, NEW t, NEW m \in Nat, NEW N \in Nat, \A j \in 1..N : s[m + j].t = y[j].t
    PROVE  \A i \in 0..N : Count(s, t, m + i) = Count(s, t, m) + Count(y, t, i)
<1> DEFINE S == {i \in 0..N : Count(s, t, m + i) = Count(s, t, m) + Count(y, t, i)}
<1>1. 0 \in S
    <2>1. Count(s, t, m) \in Nat /\ Count(y, t, 0) = 0 BY CountStep
    <2>2. QED BY <2>1
<1>2. ASSUME NEW i \in 1..N, i - 1 \in S PROVE i \in S
    <2>1. i - 1 \in Nat /\ m + (i - 1) \in Nat /\ (i - 1) + 1 = i /\ (m + (i - 1)) + 1 = m + i OBVIOUS
    <2>2. Count(s, t, m) \in Nat /\ Count(y, t, i - 1) \in Nat BY <2>1, CountStep
    <2>3. Count(s, t, m + i) = IF s[m + i].t = t THEN Count(s, t, m + (i - 1)) + 1 ELSE Count(s, t, m + (i - 1))
        BY <2>1, CountStep
    <2>4. Count(y, t, i) = IF y[i].t = t THEN Count(y, t, i - 1) + 1 ELSE Count(y, t, i - 1)
        BY <2>1, CountStep
    <2>5. QED BY <1>2, <2>2, <2>3, <2>4
<1> HIDE DEF S
<1>3. 0..N \subseteq S BY <1>1, <1>2, Induct
<1>4. QED BY <1>3 DEF S

(***************************************************************************)
(* Two sequences with a separator between them, and one in parentheses.    *)
(***************************************************************************)
IsSeq(s) == Len(s) \in Nat /\ DOMAIN s = 1..Len(s)
Filled(s) == Len(s) > 0
Separator == {"or", "and"}
Glued(s, x, c, y) ==
    /\ Len(s) = Len(x) + 1 + Len(y)
    /\ \A i \in 1..Len(x) : s[i] = x[i]
    /\ s[Len(x) + 1] = c
    /\ \A i \in 1..Len(y) : s[Len(x) + 1 + i] = y[i]

Bracketed(s, x) ==
    /\ Len(s) = Len(x) + 2
    /\ s[1].t = "(" /\ s[Len(s)].t = ")"
    /\ \A i \in 1..Len(x) : s[1 + i] = x[i]

\* The parentheses of two sequences with a separator between them.
LEMMA GluedCount ==
    ASSUME NEW s, NEW x, NEW y, NEW c, IsSeq(s), IsSeq(x), IsSeq(y), Glued(s, x, c, y), c.t \in Separator,
           NEW t \in {"(", ")"}
    PROVE  /\ \A i \in 0..Len(x) : Count(s, t, i) = Count(x, t, i)
           /\ Count(s, t, Len(x) + 1) = Count(x, t, Len(x))
           /\ \A i \in 0..Len(y) : Count(s, t, Len(x) + 1 + i) = Count(x, t, Len(x)) + Count(y, t, i)
<1>1. Len(x) \in Nat /\ Len(y) \in Nat BY DEF IsSeq
<1>2. ASSUME NEW i \in 0..Len(x) PROVE Count(s, t, i) = Count(x, t, i)
    <2>1. \A j \in 1..i : s[j].t = x[j].t BY <1>1 DEF Glued
    <2>2. i \in Nat OBVIOUS
    <2>3. QED BY <2>1, <2>2, CountSame
<1>3. Count(s, t, Len(x) + 1) = Count(x, t, Len(x))
    <2>1. s[Len(x) + 1].t # t BY DEF Glued, Separator
    <2>2. \A k \in Nat : Count(s, t, k + 1) = IF s[k + 1].t = t THEN Count(s, t, k) + 1 ELSE Count(s, t, k)
        BY CountStep
    <2>3. Count(s, t, Len(x) + 1) = Count(s, t, Len(x)) BY <1>1, <2>1, <2>2
    <2>4. QED BY <1>1, <1>2, <2>3
<1>4. \A i \in 0..Len(y) : Count(s, t, (Len(x) + 1) + i) = Count(s, t, Len(x) + 1) + Count(y, t, i)
    <2> DEFINE m == Len(x) + 1
               n == Len(y)
    <2>1. \A j \in 1..n : s[m + j].t = y[j].t BY DEF Glued
    <2>2. m \in Nat /\ n \in Nat BY <1>1
    <2> HIDE DEF m, n
    <2>3. \A i \in 0..n : Count(s, t, m + i) = Count(s, t, m) + Count(y, t, i) BY <2>1, <2>2, CountShift
    <2>4. QED BY <2>3 DEF m, n
<1>5. QED BY <1>2, <1>3, <1>4

\* Two closed sequences with a separator between them are closed.
LEMMA GluedClosed ==
    ASSUME NEW s, NEW x, NEW y, NEW c, IsSeq(s), IsSeq(x), IsSeq(y), Glued(s, x, c, y), c.t \in Separator,
           Closed(x), Closed(y)
    PROVE  Closed(s)
<1>1. Len(x) \in Nat /\ Len(y) \in Nat /\ Len(s) = Len(x) + 1 + Len(y) BY DEF Glued, IsSeq
<1>2. \A t \in {"(", ")"} :
           /\ \A i \in 0..Len(x) : Count(s, t, i) = Count(x, t, i)
           /\ \A i \in 0..Len(y) : Count(s, t, Len(x) + 1 + i) = Count(x, t, Len(x)) + Count(y, t, i)
    BY GluedCount
<1>3. \A z, t : \A i \in Nat : Count(z, t, i) \in Nat BY CountStep
<1>4. Count(s, "(", Len(s)) = Count(s, ")", Len(s))
    <2>1. Len(y) \in 0..Len(y) BY <1>1
    <2>2. Count(s, "(", Len(x) + 1 + Len(y)) = Count(x, "(", Len(x)) + Count(y, "(", Len(y)) BY <1>2, <2>1
    <2>3. Count(s, ")", Len(x) + 1 + Len(y)) = Count(x, ")", Len(x)) + Count(y, ")", Len(y)) BY <1>2, <2>1
    <2>4. QED BY <1>1, <2>2, <2>3 DEF Closed
<1>5. ASSUME NEW i \in 0..Len(s) PROVE Count(s, ")", i) <= Count(s, "(", i)
    <2>1. CASE i <= Len(x)
        <3>1. i \in 0..Len(x) BY <1>1, <2>1
        <3>2. QED BY <1>2, <3>1 DEF Closed
    <2>2. CASE i > Len(x)
        <3> DEFINE j == i - (Len(x) + 1)
        <3>1. j \in 0..Len(y) /\ i = Len(x) + 1 + j BY <1>1, <2>2
        <3> HIDE DEF j
        <3>2. Count(y, ")", j) <= Count(y, "(", j) /\ Count(x, ")", Len(x)) = Count(x, "(", Len(x)) BY <3>1 DEF Closed
        <3>3. Count(s, ")", i) = Count(x, ")", Len(x)) + Count(y, ")", j)
            BY <1>2, <3>1
        <3>4. Count(s, "(", i) = Count(x, "(", Len(x)) + Count(y, "(", j)
            BY <1>2, <3>1
        <3>5. Count(y, ")", j) \in Nat /\ Count(y, "(", j) \in Nat /\ Count(x, "(", Len(x)) \in Nat BY <1>1, <1>3, <3>1
        <3>6. QED BY <3>2, <3>3, <3>4, <3>5
    <2>3. QED BY <1>1, <2>1, <2>2
<1>6. QED BY <1>4, <1>5 DEF Closed

\* Behind a closed sequence, what was outermost is so still, and so is the separator.
LEMMA GluedOutermost ==
    ASSUME NEW s, NEW x, NEW y, NEW c, IsSeq(s), IsSeq(x), IsSeq(y), Glued(s, x, c, y), c.t \in Separator,
           Closed(x), NEW t \in Separator
    PROVE  /\ \A i \in 1..Len(x) : i \in Outermost(s, t) <=> i \in Outermost(x, t)
           /\ Len(x) + 1 \in Outermost(s, t) <=> c.t = t
           /\ \A i \in 1..Len(y) : Len(x) + 1 + i \in Outermost(s, t) <=> i \in Outermost(y, t)
<1>1. Len(x) \in Nat /\ Len(y) \in Nat /\ Len(s) = Len(x) + 1 + Len(y)
      /\ DOMAIN s = 1..Len(s) /\ DOMAIN x = 1..Len(x) /\ DOMAIN y = 1..Len(y) BY DEF Glued, IsSeq
<1>2. \A z \in {"(", ")"} :
           /\ \A i \in 0..Len(x) : Count(s, z, i) = Count(x, z, i)
           /\ Count(s, z, Len(x) + 1) = Count(x, z, Len(x))
           /\ \A i \in 0..Len(y) : Count(s, z, Len(x) + 1 + i) = Count(x, z, Len(x)) + Count(y, z, i)
    BY GluedCount
<1>3. \A z, u : \A i \in Nat : Count(z, u, i) \in Nat BY CountStep
<1>4. Count(x, ")", Len(x)) = Count(x, "(", Len(x)) BY DEF Closed
<1>5. ASSUME NEW i \in 1..Len(x) PROVE i \in Outermost(s, t) <=> i \in Outermost(x, t)
    <2>1. i \in 0..Len(x) /\ i \in 1..Len(s) BY <1>1
    <2>2. s[i] = x[i] BY DEF Glued
    <2>3. QED BY <1>1, <1>2, <2>1, <2>2 DEF Outermost
<1>6. Len(x) + 1 \in Outermost(s, t) <=> c.t = t
    <2>1. Len(x) + 1 \in 1..Len(s) BY <1>1
    <2>2. s[Len(x) + 1] = c BY DEF Glued
    <2>3. QED BY <1>1, <1>2, <1>4, <2>1, <2>2 DEF Outermost
<1>7. ASSUME NEW i \in 1..Len(y) PROVE Len(x) + 1 + i \in Outermost(s, t) <=> i \in Outermost(y, t)
    <2>1. i \in 0..Len(y) /\ Len(x) + 1 + i \in 1..Len(s) /\ i \in Nat BY <1>1
    <2>2. s[Len(x) + 1 + i] = y[i] BY DEF Glued
    <2>3. Count(s, "(", Len(x) + 1 + i) = Count(x, "(", Len(x)) + Count(y, "(", i) BY <1>2, <2>1
    <2>4. Count(s, ")", Len(x) + 1 + i) = Count(x, ")", Len(x)) + Count(y, ")", i) BY <1>2, <2>1
    <2>5. Count(x, "(", Len(x)) \in Nat /\ Count(y, "(", i) \in Nat /\ Count(y, ")", i) \in Nat BY <1>1, <1>3, <2>1
    <2>6. Count(s, "(", Len(x) + 1 + i) = Count(s, ")", Len(x) + 1 + i) <=> Count(y, "(", i) = Count(y, ")", i)
        BY <1>4, <2>3, <2>4, <2>5
    <2>7. QED BY <1>1, <2>1, <2>2, <2>6 DEF Outermost
<1>8. QED BY <1>5, <1>6, <1>7

\* Parentheses round a closed sequence enclose it, and leave no separator outermost.
LEMMA BracketedShape ==
    ASSUME NEW s, NEW x, IsSeq(s), IsSeq(x), Bracketed(s, x), Closed(x), Filled(x)
    PROVE  /\ Enclosed(s) /\ Closed(s)
           /\ \A t \in Separator : Outermost(s, t) = {}
<1>1. Len(x) \in Nat /\ Len(s) = Len(x) + 2 /\ DOMAIN s = 1..Len(s) BY DEF Bracketed, IsSeq
<1>2. \A z, u : \A i \in Nat : Count(z, u, i) \in Nat BY CountStep
<1>3. Count(s, "(", 1) = 1 /\ Count(s, ")", 1) = 0
    <2>1. s[0 + 1].t = "(" BY DEF Bracketed
    <2>2. \A t : Count(s, t, 0) = 0 /\ Count(s, t, 0 + 1) = IF s[0 + 1].t = t THEN Count(s, t, 0) + 1 ELSE Count(s, t, 0)
        BY CountStep
    <2>3. QED BY <2>1, <2>2
<1>4. \A t \in {"(", ")"} : \A i \in 0..Len(x) : Count(s, t, 1 + i) = Count(s, t, 1) + Count(x, t, i)
    <2> DEFINE n == Len(x)
               m == 1
    <2>1. \A j \in 1..n : s[m + j].t = x[j].t BY DEF Bracketed
    <2>2. m \in Nat /\ n \in Nat BY <1>1
    <2> HIDE DEF m, n
    <2>3. ASSUME NEW t PROVE \A i \in 0..n : Count(s, t, m + i) = Count(s, t, m) + Count(x, t, i)
        BY <2>1, <2>2, CountShift
    <2>4. QED BY <2>3 DEF m, n
<1>5. \A i \in 0..Len(x) : Count(s, "(", 1 + i) = 1 + Count(x, "(", i) /\ Count(s, ")", 1 + i) = Count(x, ")", i)
    BY <1>1, <1>2, <1>3, <1>4
<1>6. ASSUME NEW i \in 1..(Len(s) - 1) PROVE Count(s, "(", i) > Count(s, ")", i)
    <2> DEFINE j == i - 1
    <2>1. j \in 0..Len(x) /\ 1 + j = i /\ j \in Nat BY <1>1
    <2>2. Count(x, ")", j) <= Count(x, "(", j) BY <2>1 DEF Closed
    <2> HIDE DEF j
    <2>3. QED BY <1>2, <1>5, <2>1, <2>2
<1>7. Count(s, "(", Len(s)) = Count(s, ")", Len(s))
    <2>1. Len(s) = (1 + Len(x)) + 1 /\ 1 + Len(x) \in Nat BY <1>1
    <2>2. s[(1 + Len(x)) + 1].t = ")" BY <2>1 DEF Bracketed
    <2> DEFINE m == 1 + Len(x)
    <2> HIDE DEF m
    <2>0. m \in Nat /\ s[m + 1].t = ")" BY <2>1, <2>2 DEF m
    <2>b. \A t : Count(s, t, m + 1) = IF s[m + 1].t = t THEN Count(s, t, m) + 1 ELSE Count(s, t, m)
        BY <2>0, CountStep
    <2>3. Count(s, "(", Len(s)) = Count(s, "(", 1 + Len(x))
        <3>1. Count(s, "(", m + 1) = Count(s, "(", m) BY <2>0, <2>b
        <3>2. QED BY <2>1, <3>1 DEF m
    <2>4. Count(s, ")", Len(s)) = Count(s, ")", 1 + Len(x)) + 1
        <3>1. Count(s, ")", m + 1) = Count(s, ")", m) + 1 BY <2>0, <2>b
        <3>2. QED BY <2>1, <3>1 DEF m
    <2>5. Count(x, "(", Len(x)) = Count(x, ")", Len(x)) BY DEF Closed
    <2>6. Len(x) \in 0..Len(x) BY <1>1
    <2>7. QED BY <1>1, <1>2, <1>5, <2>3, <2>4, <2>5, <2>6
<1>8. Enclosed(s) BY <1>1, <1>6 DEF Enclosed, Bracketed, Filled
<1>9. Closed(s)
    <2>1. ASSUME NEW i \in 0..Len(s) PROVE Count(s, ")", i) <= Count(s, "(", i)
        <3>1. CASE i = 0 BY <3>1, CountStep
        <3>2. CASE i \in 1..(Len(s) - 1)
            <4>1. Count(s, "(", i) \in Nat /\ Count(s, ")", i) \in Nat BY <1>2
            <4>2. QED BY <1>6, <3>2, <4>1
        <3>3. CASE i = Len(s)
            <4>1. Count(s, "(", i) \in Nat /\ Count(s, ")", i) \in Nat BY <1>2
            <4>2. QED BY <1>7, <3>3, <4>1
        <3>4. QED BY <1>1, <3>1, <3>2, <3>3
    <2>2. QED BY <1>7, <2>1 DEF Closed
<1>10. ASSUME NEW t \in Separator, NEW i \in Outermost(s, t) PROVE FALSE
    <2>1. i \in 1..Len(s) /\ s[i].t = t /\ Count(s, "(", i) = Count(s, ")", i) BY <1>1 DEF Outermost
    <2>2. i # Len(s) BY <2>1 DEF Separator, Bracketed
    <2>3. i \in 1..(Len(s) - 1) BY <1>1, <2>1, <2>2
    <2>4. Count(s, "(", i) \in Nat /\ Count(s, ")", i) \in Nat BY <1>2, <2>1
    <2>5. QED BY <1>6, <2>1, <2>3, <2>4
<1>11. QED BY <1>8, <1>9, <1>10
-----------------------------------------------------------------------------
(***************************************************************************)
(* The reading of a sequence is defined by recursion on its length.        *)
(***************************************************************************)
\* A sequence by its domain and its elements.
LEMMA SeqIsSeq ==
    ASSUME NEW S, NEW s \in Seq(S)
    PROVE  IsSeq(s) /\ \A i \in 1..Len(s) : s[i] \in S
BY DEF IsSeq

\* What SubSeq cuts out.
LEMMA Span ==
    ASSUME NEW S, NEW s, NEW i \in Nat, i >= 1, NEW n \in Nat, \A k \in i..(i + n - 1) : s[k] \in S
    PROVE  /\ SubSeq(s, i, i + n - 1) \in Seq(S) /\ Len(SubSeq(s, i, i + n - 1)) = n
           /\ \A k \in 1..n : SubSeq(s, i, i + n - 1)[k] = s[i + k - 1]
<1> DEFINE j == i + n - 1
<1>1. j \in Int /\ i \in Int /\ (IF i <= j THEN j - i + 1 ELSE 0) = n /\ j - i + 1 = n OBVIOUS
<1>2. \A k \in i..j : s[k] \in S OBVIOUS
<1> HIDE DEF j
<1>3. /\ SubSeq(s, i, j) \in Seq(S)
      /\ Len(SubSeq(s, i, j)) = IF i <= j THEN j - i + 1 ELSE 0
      /\ \A k \in 1..(j - i + 1) : SubSeq(s, i, j)[k] = s[i + k - 1]
    BY <1>1, <1>2, SubSeqProperties
<1>4. QED BY <1>1, <1>3 DEF j

\* What is before and behind a token.
LEMMA Cuts ==
    ASSUME NEW S, NEW s \in Seq(S), NEW c \in 1..Len(s)
    PROVE  /\ Before(s, c) \in Seq(S) /\ Len(Before(s, c)) = c - 1
           /\ \A k \in 1..(c - 1) : Before(s, c)[k] = s[k]
           /\ After(s, c) \in Seq(S) /\ Len(After(s, c)) = Len(s) - c
           /\ \A k \in 1..(Len(s) - c) : After(s, c)[k] = s[c + k]
<1>1. Len(s) \in Nat /\ \A k \in 1..Len(s) : s[k] \in S OBVIOUS
<1>2. /\ SubSeq(s, 1, c - 1) \in Seq(S) /\ Len(SubSeq(s, 1, c - 1)) = c - 1
      /\ \A k \in 1..(c - 1) : SubSeq(s, 1, c - 1)[k] = s[k]
    <2> DEFINE n == c - 1
    <2>1. n \in Nat /\ 1 + n - 1 = c - 1 /\ \A k \in 1..(1 + n - 1) : s[k] \in S BY <1>1
    <2>2. \A k \in 1..n : 1 + k - 1 = k OBVIOUS
    <2> HIDE DEF n
    <2>3. /\ SubSeq(s, 1, 1 + n - 1) \in Seq(S) /\ Len(SubSeq(s, 1, 1 + n - 1)) = n
          /\ \A k \in 1..n : SubSeq(s, 1, 1 + n - 1)[k] = s[1 + k - 1]
        BY <2>1, Span
    <2>4. QED BY <2>1, <2>2, <2>3 DEF n
<1>3. /\ SubSeq(s, c + 1, Len(s)) \in Seq(S) /\ Len(SubSeq(s, c + 1, Len(s))) = Len(s) - c
      /\ \A k \in 1..(Len(s) - c) : SubSeq(s, c + 1, Len(s))[k] = s[c + k]
    <2> DEFINE n == Len(s) - c
               i == c + 1
    <2>1. n \in Nat /\ i \in Nat /\ i >= 1 /\ i + n - 1 = Len(s) /\ \A k \in i..(i + n - 1) : s[k] \in S BY <1>1
    <2>2. \A k \in 1..n : i + k - 1 = c + k OBVIOUS
    <2> HIDE DEF n, i
    <2>3. /\ SubSeq(s, i, i + n - 1) \in Seq(S) /\ Len(SubSeq(s, i, i + n - 1)) = n
          /\ \A k \in 1..n : SubSeq(s, i, i + n - 1)[k] = s[i + k - 1]
        BY <2>1, Span
    <2>4. QED BY <2>1, <2>2, <2>3 DEF n, i
<1>4. QED BY <1>2, <1>3 DEF Before, After

\* What stands between the first token and the last.
LEMMA InsideIs ==
    ASSUME NEW S, NEW s \in Seq(S), Len(s) > 2
    PROVE  /\ Inside(s) \in Seq(S) /\ Len(Inside(s)) = Len(s) - 2
           /\ \A k \in 1..(Len(s) - 2) : Inside(s)[k] = s[1 + k]
<1>1. Len(s) \in Nat /\ \A k \in 1..Len(s) : s[k] \in S OBVIOUS
<1> DEFINE n == Len(s) - 2
<1>2. n \in Nat /\ 2 + n - 1 = Len(s) - 1 /\ \A k \in 2..(2 + n - 1) : s[k] \in S BY <1>1
<1>3. \A k \in 1..n : 2 + k - 1 = 1 + k BY <1>1
<1> HIDE DEF n
<1>4. /\ SubSeq(s, 2, 2 + n - 1) \in Seq(S) /\ Len(SubSeq(s, 2, 2 + n - 1)) = n
      /\ \A k \in 1..n : SubSeq(s, 2, 2 + n - 1)[k] = s[2 + k - 1]
    BY <1>2, Span
<1>5. QED BY <1>2, <1>3, <1>4 DEF n, Inside

\* First is the least of a set of places.
LEMMA FirstOf ==
    ASSUME NEW S \in SUBSET Nat, S # {}
    PROVE  First(S) \in S /\ \A j \in S : First(S) <= j
<1>1. \E i \in S : \A j \in S : i <= j BY Least
<1>2. QED BY <1>1 DEF First

\* The first outermost separator is a token of the sequence.
LEMMA OutermostIn ==
    ASSUME NEW S, NEW s \in Seq(S), NEW t, Outermost(s, t) # {}
    PROVE  First(Outermost(s, t)) \in 1..Len(s) /\ First(Outermost(s, t)) \in Outermost(s, t)
           /\ \A j \in Outermost(s, t) : First(Outermost(s, t)) <= j
<1>1. Outermost(s, t) \subseteq 1..Len(s) BY DEF Outermost
<1>2. Outermost(s, t) \in SUBSET Nat BY <1>1
<1>3. QED BY <1>1, <1>2, FirstOf

\* Functions on 1..n are the sequences of length n.
LEMMA FunIsSeq ==
    ASSUME NEW n \in Nat, NEW S
    PROVE  \A x : x \in [1..n -> S] <=> x \in Seq(S) /\ Len(x) = n
<1>1. ASSUME NEW x \in [1..n -> S] PROVE x \in Seq(S) /\ Len(x) = n
    OBVIOUS
<1>2. ASSUME NEW x \in Seq(S), Len(x) = n PROVE x \in [1..n -> S]
    BY <1>2
<1>3. QED BY <1>1, <1>2

\* A step of the reading looks only at the readings of shorter sequences.
LEMMA ReadLocal ==
    ASSUME NEW s \in Seq(Item), NEW f, NEW g,
           \A x \in Seq(Item) : Len(x) < Len(s) => f[Len(x)][x] = g[Len(x)][x]
    PROVE  Read(s, f) = Read(s, g)
<1> DEFINE ors == Outermost(s, "or")
           ands == Outermost(s, "and")
           same(x) == f[Len(x)][x] = g[Len(x)][x]
<1>0. Len(s) \in Nat OBVIOUS
<1>1. ASSUME NEW t, Outermost(s, t) # {}
      PROVE  same(Before(s, First(Outermost(s, t)))) /\ same(After(s, First(Outermost(s, t))))
    <2> DEFINE c == First(Outermost(s, t))
    <2>1. c \in 1..Len(s) BY <1>1, OutermostIn
    <2> HIDE DEF c
    <2>2. Before(s, c) \in Seq(Item) /\ Len(Before(s, c)) = c - 1 /\ After(s, c) \in Seq(Item) /\ Len(After(s, c)) = Len(s) - c
        BY <2>1, Cuts
    <2>3. Len(Before(s, c)) < Len(s) /\ Len(After(s, c)) < Len(s) BY <1>0, <2>1, <2>2
    <2>4. same(Before(s, c)) /\ same(After(s, c)) BY <2>2, <2>3
    <2>5. QED BY <2>4 DEF c
<1>2. Enclosed(s) => same(Inside(s))
    <2>1. SUFFICES ASSUME Enclosed(s) PROVE same(Inside(s)) OBVIOUS
    <2>2. Len(s) > 2 BY <2>1 DEF Enclosed
    <2>3. Inside(s) \in Seq(Item) /\ Len(Inside(s)) = Len(s) - 2 BY <2>2, InsideIs
    <2>4. Len(Inside(s)) < Len(s) BY <1>0, <2>3
    <2>5. QED BY <2>3, <2>4
<1>3. CASE ors # {}
    <2>1. same(Before(s, First(ors))) /\ same(After(s, First(ors))) BY <1>1, <1>3
    <2>2. QED BY <1>3, <2>1 DEF Read
<1>4. CASE ors = {} /\ ands # {}
    <2>1. same(Before(s, First(ands))) /\ same(After(s, First(ands))) BY <1>1, <1>4
    <2>2. QED BY <1>4, <2>1 DEF Read
<1>5. CASE ors = {} /\ ands = {}
    <2>1. QED BY <1>2, <1>5 DEF Read
<1>6. QED BY <1>3, <1>4, <1>5

Reader(f, N) == f = [n \in 0..N |-> [x \in [1..n -> Item] |-> Read(x, f)]]

\* A reader reads every sequence up to its length.
LEMMA ReaderAt ==
    ASSUME NEW N \in Nat, NEW f, Reader(f, N), NEW x \in Seq(Item), Len(x) <= N
    PROVE  f[Len(x)][x] = Read(x, f)
<1>1. Len(x) \in 0..N OBVIOUS
<1>2. x \in [1..Len(x) -> Item] BY FunIsSeq
<1>3. f[Len(x)] = [y \in [1..Len(x) -> Item] |-> Read(y, f)] BY <1>1 DEF Reader
<1>4. QED BY <1>2, <1>3

\* There is a reader of every length.
LEMMA ReaderDefined ==
    ASSUME NEW N \in Nat
    PROVE  \E f : Reader(f, N)
<1> DEFINE S == {n \in Nat : \E f : Reader(f, n)}
           next(f, n) == [m \in 0..n |-> [x \in [1..m -> Item] |-> Read(x, f)]]
<1>1. ASSUME NEW n \in Nat, NEW f, \A x \in Seq(Item) : Len(x) < n => f[Len(x)][x] = Read(x, f)
      PROVE  Reader(next(f, n), n)
    <2> DEFINE g == next(f, n)
    <2>1. \A m \in 0..n : g[m] = [x \in [1..m -> Item] |-> Read(x, f)] OBVIOUS
    <2> HIDE DEF g, next
    <2>2. ASSUME NEW x \in Seq(Item), Len(x) < n PROVE f[Len(x)][x] = g[Len(x)][x]
        <3>1. Len(x) \in 0..n /\ x \in [1..Len(x) -> Item] BY <2>2, FunIsSeq
        <3>2. g[Len(x)] = [y \in [1..Len(x) -> Item] |-> Read(y, f)] BY <2>1, <3>1
        <3>3. g[Len(x)][x] = Read(x, f) BY <3>1, <3>2
        <3>4. QED BY <1>1, <2>2, <3>3
    <2>3. ASSUME NEW m \in 0..n, NEW x \in [1..m -> Item] PROVE Read(x, f) = Read(x, g)
        <3>1. x \in Seq(Item) /\ Len(x) = m BY FunIsSeq
        <3>2. \A y \in Seq(Item) : Len(y) < Len(x) => f[Len(y)][y] = g[Len(y)][y]
            BY <2>2, <3>1
        <3>3. QED BY <3>1, <3>2, ReadLocal
    <2>4. g = [m \in 0..n |-> [x \in [1..m -> Item] |-> Read(x, f)]] BY DEF g, next
    <2>5. g = [m \in 0..n |-> [x \in [1..m -> Item] |-> Read(x, g)]] BY <2>3, <2>4
    <2>6. QED BY <2>5 DEF Reader, g
<1>2. 0 \in S
    <2>1. \A x \in Seq(Item) : ~(Len(x) < 0) OBVIOUS
    <2>2. Reader(next(<<>>, 0), 0) BY <1>1, <2>1
    <2> HIDE DEF next
    <2>3. QED BY <2>2
<1>3. ASSUME NEW n \in 1..N, n - 1 \in S PROVE n \in S
    <2>1. PICK f : Reader(f, n - 1) BY <1>3
    <2>2. \A x \in Seq(Item) : Len(x) < n => f[Len(x)][x] = Read(x, f)
        <3>1. SUFFICES ASSUME NEW x \in Seq(Item), Len(x) < n PROVE f[Len(x)][x] = Read(x, f) OBVIOUS
        <3>2. n - 1 \in Nat /\ Len(x) <= n - 1 BY <3>1
        <3>3. QED BY <2>1, <3>2, ReaderAt
    <2>3. Reader(next(f, n), n) BY <1>1, <2>2
    <2> HIDE DEF next
    <2>4. QED BY <2>3
<1> HIDE DEF S, next
<1>4. N \in S
    <2>1. 0..N \subseteq S BY <1>2, <1>3, Induct
    <2>2. QED BY <2>1
<1>5. QED BY <1>4 DEF S

\* Two readers agree where both read.
LEMMA ReaderUnique ==
    ASSUME NEW N \in Nat, NEW M \in Nat, NEW f, NEW g, Reader(f, N), Reader(g, M), NEW s \in Seq(Item), Len(s) <= N, Len(s) <= M
    PROVE  f[Len(s)][s] = g[Len(s)][s]
<1> DEFINE S == {n \in 0..Len(s) : \A x \in Seq(Item) : Len(x) <= n => f[Len(x)][x] = g[Len(x)][x]}
<1>0. Len(s) \in Nat OBVIOUS
<1>1. ASSUME NEW x \in Seq(Item), Len(x) <= Len(s),
             \A y \in Seq(Item) : Len(y) < Len(x) => f[Len(y)][y] = g[Len(y)][y]
      PROVE  f[Len(x)][x] = g[Len(x)][x]
    <2>1. Len(x) <= N /\ Len(x) <= M BY <1>1
    <2>2. f[Len(x)][x] = Read(x, f) /\ g[Len(x)][x] = Read(x, g) BY <2>1, ReaderAt
    <2>3. Read(x, f) = Read(x, g) BY <1>1, ReadLocal
    <2>4. QED BY <2>2, <2>3
<1>2. 0 \in S
    <2>1. ASSUME NEW x \in Seq(Item), Len(x) <= 0 PROVE f[Len(x)][x] = g[Len(x)][x]
        <3>1. Len(x) <= Len(s) /\ \A y \in Seq(Item) : ~(Len(y) < Len(x)) BY <2>1
        <3>2. QED BY <1>1, <3>1
    <2>2. QED BY <1>0, <2>1
<1>3. ASSUME NEW n \in 1..Len(s), n - 1 \in S PROVE n \in S
    <2>1. ASSUME NEW x \in Seq(Item), Len(x) <= n PROVE f[Len(x)][x] = g[Len(x)][x]
        <3>1. Len(x) <= Len(s) BY <2>1
        <3>2. \A y \in Seq(Item) : Len(y) < Len(x) => f[Len(y)][y] = g[Len(y)][y] BY <1>3, <2>1
        <3>3. QED BY <1>1, <3>1, <3>2
    <2>2. QED BY <2>1
<1> HIDE DEF S
<1>4. Len(s) \in S
    <2>1. 0..Len(s) \subseteq S BY <1>0, <1>2, <1>3, Induct
    <2>2. QED BY <1>0, <2>1
<1>5. QED BY <1>4 DEF S

\* Reading reads the parts of a sequence by Reading.
LEMMA ReadingReads ==
    ASSUME NEW s \in Seq(Item)
    PROVE  \E f : Reading(s) = Read(s, f) /\ \A x \in Seq(Item) : Len(x) <= Len(s) => f[Len(x)][x] = Reading(x)
<1> DEFINE R(x) == CHOOSE f : f = [n \in 0..Len(x) |-> [y \in [1..n -> Item] |-> Read(y, f)]]
<1>1. ASSUME NEW x \in Seq(Item) PROVE Reader(R(x), Len(x)) /\ Reading(x) = R(x)[Len(x)][x]
    <2>1. Len(x) \in Nat OBVIOUS
    <2>2. \E f : Reader(f, Len(x)) BY <2>1, ReaderDefined
    <2>3. Reader(R(x), Len(x)) BY <2>2, Zenon DEF Reader
    <2>4. Reading(x) = R(x)[Len(x)][x] BY DEF Reading
    <2>5. QED BY <2>3, <2>4
<1> HIDE DEF R
<1>2. Len(s) \in Nat /\ Len(s) <= Len(s) OBVIOUS
<1>3. Reading(s) = Read(s, R(s))
    <2>1. R(s)[Len(s)][s] = Read(s, R(s)) BY <1>1, <1>2, ReaderAt
    <2>2. QED BY <1>1, <2>1
<1>4. ASSUME NEW x \in Seq(Item), Len(x) <= Len(s) PROVE R(s)[Len(x)][x] = Reading(x)
    <2>1. Len(x) \in Nat /\ Len(x) <= Len(x) OBVIOUS
    <2>2. R(s)[Len(x)][x] = R(x)[Len(x)][x] BY <1>1, <1>2, <1>4, <2>1, ReaderUnique
    <2>3. QED BY <1>1, <2>2
<1>5. QED BY <1>3, <1>4

\* The equations of Reading.
LEMMA ReadingCut ==
    ASSUME NEW s \in Seq(Item)
    PROVE  /\ Outermost(s, "or") # {} =>
                 LET c == First(Outermost(s, "or")) IN
                 Reading(s) = {x \cup y : x \in Reading(Before(s, c)), y \in Reading(After(s, c))}
           /\ Outermost(s, "or") = {} /\ Outermost(s, "and") # {} =>
                 LET c == First(Outermost(s, "and")) IN
                 Reading(s) = {x \cap y : x \in Reading(Before(s, c)), y \in Reading(After(s, c))}
           /\ Outermost(s, "or") = {} /\ Outermost(s, "and") = {} =>
                 /\ Len(s) = 1 /\ s[1].t = "leaf" => Reading(s) = {s[1].rows}
                 /\ Len(s) = 1 /\ s[1].t # "leaf" => Reading(s) = {}
                 /\ Len(s) # 1 /\ Enclosed(s) => Reading(s) = Reading(Inside(s))
                 /\ Len(s) # 1 /\ ~Enclosed(s) => Reading(s) = {}
<1>1. PICK f : Reading(s) = Read(s, f) /\ \A x \in Seq(Item) : Len(x) <= Len(s) => f[Len(x)][x] = Reading(x)
    BY ReadingReads
<1> DEFINE same(x) == f[Len(x)][x] = Reading(x)
<1>0. Len(s) \in Nat OBVIOUS
<1>2. ASSUME NEW t, Outermost(s, t) # {}
      PROVE  same(Before(s, First(Outermost(s, t)))) /\ same(After(s, First(Outermost(s, t))))
    <2> DEFINE c == First(Outermost(s, t))
    <2>1. c \in 1..Len(s) BY <1>2, OutermostIn
    <2> HIDE DEF c
    <2>2. Before(s, c) \in Seq(Item) /\ Len(Before(s, c)) = c - 1 /\ After(s, c) \in Seq(Item) /\ Len(After(s, c)) = Len(s) - c
        BY <2>1, Cuts
    <2>3. Len(Before(s, c)) <= Len(s) /\ Len(After(s, c)) <= Len(s) BY <1>0, <2>1, <2>2
    <2>4. same(Before(s, c)) /\ same(After(s, c)) BY <1>1, <2>2, <2>3
    <2>5. QED BY <2>4 DEF c
<1>3. Enclosed(s) => same(Inside(s))
    <2>1. SUFFICES ASSUME Enclosed(s) PROVE same(Inside(s)) OBVIOUS
    <2>2. Len(s) > 2 BY <2>1 DEF Enclosed
    <2>3. Inside(s) \in Seq(Item) /\ Len(Inside(s)) = Len(s) - 2 BY <2>2, InsideIs
    <2>4. Len(Inside(s)) <= Len(s) BY <1>0, <2>3
    <2>5. QED BY <1>1, <2>3, <2>4
<1>4. CASE Outermost(s, "or") # {}
    <2>1. same(Before(s, First(Outermost(s, "or")))) /\ same(After(s, First(Outermost(s, "or")))) BY <1>2, <1>4
    <2>2. QED BY <1>1, <1>4, <2>1 DEF Read
<1>5. CASE Outermost(s, "or") = {} /\ Outermost(s, "and") # {}
    <2>1. same(Before(s, First(Outermost(s, "and")))) /\ same(After(s, First(Outermost(s, "and")))) BY <1>2, <1>5
    <2>2. QED BY <1>1, <1>5, <2>1 DEF Read
<1>6. CASE Outermost(s, "or") = {} /\ Outermost(s, "and") = {}
    <2>1. QED BY <1>1, <1>3, <1>6 DEF Read
<1>7. QED BY <1>4, <1>5, <1>6

\* An outermost separator behind a closed sequence without any is where it is cut.
Plain(s, t) == Outermost(s, t) = {}

\* A sequence is cut where its parts were put together.
LEMMA CutAtGlue ==
    ASSUME NEW s \in Seq(Item), NEW x \in Seq(Item), NEW y \in Seq(Item), NEW c, Glued(s, x, c, y),
           c.t \in Separator, Closed(x), Plain(x, c.t)
    PROVE  LET k == First(Outermost(s, c.t)) IN
           Outermost(s, c.t) # {} /\ Before(s, k) = x /\ After(s, k) = y
<1> DEFINE n == Len(x) + 1
           t == c.t
<1>1. IsSeq(s) /\ IsSeq(x) /\ IsSeq(y) BY SeqIsSeq
<1>2. /\ \A i \in 1..Len(x) : i \in Outermost(s, t) <=> i \in Outermost(x, t)
      /\ n \in Outermost(s, t) <=> c.t = t
    BY <1>1, GluedOutermost
<1>3. Len(x) \in Nat /\ Len(y) \in Nat /\ Len(s) = Len(x) + 1 + Len(y) BY DEF Glued
<1>4. Outermost(s, t) # {} BY <1>2
<1>5. First(Outermost(s, t)) \in 1..Len(s) /\ First(Outermost(s, t)) \in Outermost(s, t)
      /\ \A j \in Outermost(s, t) : First(Outermost(s, t)) <= j
    BY <1>4, OutermostIn
<1>6. First(Outermost(s, t)) = n
    <2> DEFINE k == First(Outermost(s, t))
    <2>1. k \in 1..Len(s) /\ k \in Outermost(s, t) /\ k <= n BY <1>2, <1>5
    <2>2. k \notin 1..Len(x) BY <1>2, <2>1 DEF Plain
    <2> HIDE DEF k
    <2>3. k = n BY <1>3, <2>1, <2>2
    <2>4. QED BY <2>3 DEF k
<1>7. n \in 1..Len(s) BY <1>3
<1>8. /\ Before(s, n) \in Seq(Item) /\ Len(Before(s, n)) = n - 1
      /\ \A k \in 1..(n - 1) : Before(s, n)[k] = s[k]
      /\ After(s, n) \in Seq(Item) /\ Len(After(s, n)) = Len(s) - n
      /\ \A k \in 1..(Len(s) - n) : After(s, n)[k] = s[n + k]
    BY <1>7, Cuts
<1>9. Before(s, n) = x
    <2>1. Len(Before(s, n)) = Len(x) BY <1>3, <1>8
    <2>2. \A k \in 1..Len(x) : Before(s, n)[k] = x[k] BY <1>3, <1>8 DEF Glued
    <2>3. QED BY <1>8, <2>1, <2>2, SeqEqual
<1>10. After(s, n) = y
    <2>1. Len(After(s, n)) = Len(y) BY <1>3, <1>8
    <2>2. \A k \in 1..Len(y) : After(s, n)[k] = y[k] BY <1>3, <1>8 DEF Glued
    <2>3. QED BY <1>8, <2>1, <2>2, SeqEqual
<1>11. QED BY <1>4, <1>6, <1>9, <1>10

\* Reading two parts with an 'or' between them.
LEMMA ReadOr ==
    ASSUME NEW s \in Seq(Item), NEW x \in Seq(Item), NEW y \in Seq(Item), NEW c, Glued(s, x, c, y),
           c.t = "or", Closed(x), Plain(x, "or")
    PROVE  Reading(s) = {u \cup v : u \in Reading(x), v \in Reading(y)}
<1>1. c.t \in Separator BY DEF Separator
<1>2. LET k == First(Outermost(s, "or")) IN Outermost(s, "or") # {} /\ Before(s, k) = x /\ After(s, k) = y
    BY <1>1, CutAtGlue
<1>3. QED BY <1>2, ReadingCut

\* Reading two parts with an 'and' between them.
LEMMA ReadAnd ==
    ASSUME NEW s \in Seq(Item), NEW x \in Seq(Item), NEW y \in Seq(Item), NEW c, Glued(s, x, c, y),
           c.t = "and", Closed(x), Plain(x, "or"), Plain(x, "and"), Plain(y, "or")
    PROVE  Reading(s) = {u \cap v : u \in Reading(x), v \in Reading(y)} /\ Plain(s, "or")
<1>1. c.t \in Separator BY DEF Separator
<1>2. LET k == First(Outermost(s, "and")) IN Outermost(s, "and") # {} /\ Before(s, k) = x /\ After(s, k) = y
    BY <1>1, CutAtGlue
<1>3. Plain(s, "or")
    <2>1. IsSeq(s) /\ IsSeq(x) /\ IsSeq(y) BY SeqIsSeq
    <2>2. /\ \A i \in 1..Len(x) : i \in Outermost(s, "or") <=> i \in Outermost(x, "or")
          /\ Len(x) + 1 \in Outermost(s, "or") <=> c.t = "or"
          /\ \A i \in 1..Len(y) : Len(x) + 1 + i \in Outermost(s, "or") <=> i \in Outermost(y, "or")
        BY <1>1, <2>1, GluedOutermost DEF Separator
    <2>3. Len(x) \in Nat /\ Len(y) \in Nat /\ Len(s) = Len(x) + 1 + Len(y) BY DEF Glued
    <2>4. ASSUME NEW i \in Outermost(s, "or") PROVE FALSE
        <3>1. i \in 1..Len(s) BY <2>4 DEF Outermost
        <3>2. CASE i \in 1..Len(x) BY <2>2, <2>4, <3>2 DEF Plain
        <3>3. CASE i = Len(x) + 1 BY <2>2, <2>4, <3>3
        <3>4. CASE i > Len(x) + 1
            <4> DEFINE j == i - (Len(x) + 1)
            <4>1. j \in 1..Len(y) /\ Len(x) + 1 + j = i BY <2>3, <3>1, <3>4
            <4> HIDE DEF j
            <4>2. QED BY <2>2, <2>4, <4>1 DEF Plain
        <3>5. QED BY <2>3, <3>1, <3>2, <3>3, <3>4
    <2>5. QED BY <2>4 DEF Plain
<1>4. QED BY <1>2, <1>3, ReadingCut DEF Plain

\* Parentheses change nothing of what is read.
LEMMA ReadBracket ==
    ASSUME NEW s \in Seq(Item), NEW x \in Seq(Item), Bracketed(s, x), Closed(x), Filled(x)
    PROVE  Reading(s) = Reading(x)
<1>1. IsSeq(s) /\ IsSeq(x) BY SeqIsSeq
<1>2. Enclosed(s) /\ Outermost(s, "or") = {} /\ Outermost(s, "and") = {}
    BY <1>1, BracketedShape DEF Separator
<1>3. Len(s) > 2 /\ Len(s) = Len(x) + 2 /\ Len(x) \in Nat BY <1>2 DEF Enclosed, Bracketed
<1>4. /\ Inside(s) \in Seq(Item) /\ Len(Inside(s)) = Len(s) - 2
      /\ \A k \in 1..(Len(s) - 2) : Inside(s)[k] = s[1 + k]
    BY <1>3, InsideIs
<1>5. Inside(s) = x
    <2>1. Len(Inside(s)) = Len(x) BY <1>3, <1>4
    <2>2. \A k \in 1..Len(x) : Inside(s)[k] = x[k] BY <1>3, <1>4 DEF Bracketed
    <2>3. QED BY <1>4, <2>1, <2>2, SeqEqual
<1>6. QED BY <1>2, <1>3, <1>5, ReadingCut

\* A sequence is its parts before and behind a token, put together.
LEMMA GlueAtCut ==
    ASSUME NEW S, NEW s \in Seq(S), NEW c \in 1..Len(s)
    PROVE  Glued(s, Before(s, c), s[c], After(s, c))
<1>1. /\ Before(s, c) \in Seq(S) /\ Len(Before(s, c)) = c - 1
      /\ \A k \in 1..(c - 1) : Before(s, c)[k] = s[k]
      /\ After(s, c) \in Seq(S) /\ Len(After(s, c)) = Len(s) - c
      /\ \A k \in 1..(Len(s) - c) : After(s, c)[k] = s[c + k]
    BY Cuts
<1>2. Len(s) \in Nat OBVIOUS
<1>3. Len(s) = (c - 1) + 1 + (Len(s) - c) /\ (c - 1) + 1 = c BY <1>2
<1>4. \A k \in 1..(Len(s) - c) : s[(c - 1) + 1 + k] = After(s, c)[k] BY <1>1, <1>3
<1>5. QED BY <1>1, <1>3, <1>4 DEF Glued

\* An enclosed sequence is its inside between parentheses.
LEMMA EnclosedBrackets ==
    ASSUME NEW S, NEW s \in Seq(S), Enclosed(s)
    PROVE  Bracketed(s, Inside(s)) /\ Inside(s) \in Seq(S) /\ Filled(Inside(s)) /\ Len(Inside(s)) < Len(s)
<1>1. Len(s) > 2 /\ s[1].t = "(" /\ s[Len(s)].t = ")" /\ Len(s) \in Nat BY DEF Enclosed
<1>2. /\ Inside(s) \in Seq(S) /\ Len(Inside(s)) = Len(s) - 2
      /\ \A k \in 1..(Len(s) - 2) : Inside(s)[k] = s[1 + k]
    BY <1>1, InsideIs
<1>3. QED BY <1>1, <1>2 DEF Bracketed, Filled

\* A comparison alone is closed.
LEMMA LeafClosed ==
    ASSUME NEW s, IsSeq(s), Len(s) = 1, s[1].t = "leaf"
    PROVE  Closed(s) /\ Filled(s) /\ Plain(s, "or") /\ Plain(s, "and")
<1>1. \A t : Count(s, t, 0) = 0
    BY CountStep
<1>2. Count(s, "(", 1) = 0 /\ Count(s, ")", 1) = 0
    <2>1. \A j \in 1..1 : s[j].t = "leaf" OBVIOUS
    <2>2. {j \in 1..1 : s[j].t = "("} = {} /\ {j \in 1..1 : s[j].t = ")"} = {} BY <2>1
    <2>3. QED BY <2>2, FS_EmptySet DEF Count
<1>3. 0..1 = {0, 1} OBVIOUS
<1>4. Closed(s) BY <1>1, <1>2, <1>3 DEF Closed
<1>5. DOMAIN s = 1..1 BY DEF IsSeq
<1>6. Plain(s, "or") /\ Plain(s, "and") BY <1>5 DEF Plain, Outermost
<1>7. QED BY <1>4, <1>6 DEF Filled

\* What can be read is closed and not empty.
LEMMA SentenceClosed ==
    ASSUME NEW s \in Seq(Item), Reading(s) # {}
    PROVE  Closed(s) /\ Filled(s)
<1> DEFINE good(x) == Reading(x) # {} => Closed(x) /\ Filled(x)
           C == {n \in Nat : \E x \in Seq(Item) : Len(x) = n /\ ~good(x)}
<1>1. SUFFICES ASSUME C # {} PROVE FALSE
    <2>1. C = {} => good(s) OBVIOUS
    <2>2. QED BY <2>1
<1>2. PICK n \in C : \A m \in C : n <= m
    <2>1. C \in SUBSET Nat OBVIOUS
    <2> HIDE DEF C
    <2>2. QED BY <1>1, <2>1, Least
<1>3. PICK x \in Seq(Item) : Len(x) = n /\ Reading(x) # {} /\ ~(Closed(x) /\ Filled(x)) BY <1>2
<1>4. ASSUME NEW y \in Seq(Item), Len(y) < Len(x), Reading(y) # {} PROVE Closed(y) /\ Filled(y)
    <2>1. Len(y) \in Nat OBVIOUS
    <2>2. Len(y) \notin C BY <1>2, <1>3, <1>4, <2>1
    <2>3. QED BY <1>4, <2>1, <2>2
<1> HIDE DEF C, good
<1>5. Len(x) \in Nat OBVIOUS
<1>6. ASSUME NEW t \in Separator, Outermost(x, t) # {},
             Reading(Before(x, First(Outermost(x, t)))) # {}, Reading(After(x, First(Outermost(x, t)))) # {}
      PROVE  FALSE
    <2> DEFINE c == First(Outermost(x, t))
    <2>1. c \in 1..Len(x) /\ c \in Outermost(x, t) BY <1>6, OutermostIn
    <2> HIDE DEF c
    <2>2. Before(x, c) \in Seq(Item) /\ Len(Before(x, c)) = c - 1 /\ After(x, c) \in Seq(Item) /\ Len(After(x, c)) = Len(x) - c
        BY <2>1, Cuts
    <2>3. Len(Before(x, c)) < Len(x) /\ Len(After(x, c)) < Len(x) BY <1>5, <2>1, <2>2
    <2>4. Closed(Before(x, c)) /\ Closed(After(x, c)) BY <1>4, <1>6, <2>2, <2>3 DEF c
    <2>5. Glued(x, Before(x, c), x[c], After(x, c)) BY <2>1, GlueAtCut
    <2>6. x[c].t \in Separator BY <2>1 DEF Outermost
    <2>7. IsSeq(x) /\ IsSeq(Before(x, c)) /\ IsSeq(After(x, c)) BY <2>2, SeqIsSeq
    <2>8. Closed(x) BY <2>4, <2>5, <2>6, <2>7, GluedClosed
    <2>9. Filled(x) BY <1>5, <2>1 DEF Filled
    <2>10. QED BY <1>3, <2>8, <2>9
<1>7. CASE Outermost(x, "or") # {}
    <2> DEFINE c == First(Outermost(x, "or"))
    <2>1. Reading(x) = {u \cup v : u \in Reading(Before(x, c)), v \in Reading(After(x, c))} BY <1>7, ReadingCut
    <2>2. Reading(Before(x, c)) # {} /\ Reading(After(x, c)) # {} BY <1>3, <2>1
    <2>3. QED BY <1>6, <1>7, <2>2 DEF Separator
<1>8. CASE Outermost(x, "or") = {} /\ Outermost(x, "and") # {}
    <2> DEFINE c == First(Outermost(x, "and"))
    <2>1. Reading(x) = {u \cap v : u \in Reading(Before(x, c)), v \in Reading(After(x, c))} BY <1>8, ReadingCut
    <2>2. Reading(Before(x, c)) # {} /\ Reading(After(x, c)) # {} BY <1>3, <2>1
    <2>3. QED BY <1>6, <1>8, <2>2 DEF Separator
<1>9. CASE Outermost(x, "or") = {} /\ Outermost(x, "and") = {}
    <2>1. CASE Len(x) = 1
        <3>1. x[1].t = "leaf" BY <1>3, <1>9, <2>1, ReadingCut
        <3>2. IsSeq(x) BY SeqIsSeq
        <3>3. QED BY <1>3, <2>1, <3>1, <3>2, LeafClosed
    <2>2. CASE Len(x) # 1
        <3>0. /\ Enclosed(x) => Reading(x) = Reading(Inside(x))
              /\ ~Enclosed(x) => Reading(x) = {}
            BY <1>9, <2>2, ReadingCut
        <3>1. Enclosed(x) /\ Reading(Inside(x)) # {} BY <1>3, <3>0
        <3>2. Bracketed(x, Inside(x)) /\ Inside(x) \in Seq(Item) /\ Filled(Inside(x)) /\ Len(Inside(x)) < Len(x)
            BY <3>1, EnclosedBrackets
        <3>3. Closed(Inside(x)) BY <1>4, <3>1, <3>2
        <3>4. IsSeq(x) /\ IsSeq(Inside(x)) BY <3>2, SeqIsSeq
        <3>5. Closed(x) BY <3>2, <3>3, <3>4, BracketedShape
        <3>6. Filled(x) BY <3>1, <1>5 DEF Enclosed, Filled
        <3>7. QED BY <1>3, <3>5, <3>6
    <2>3. QED BY <2>1, <2>2
<1>10. QED BY <1>7, <1>8, <1>9
-----------------------------------------------------------------------------
(***************************************************************************)
(* The parser.  What begins at a token depends on what begins behind it.   *)
(***************************************************************************)
Result(e, i, n) == e.pos \in i..(n + 1)
Parser(p, s, m) == p = [i \in m..(Len(s) + 1) |-> [conj |-> parse_and(s, p, i), disj |-> parse_or(s, p, i)]]

\* A token seen is one of the sequence.
LEMMA PeekIn ==
    ASSUME NEW s, NEW i, Peek(s, i) # "end"
    PROVE  i <= Len(s) /\ Peek(s, i) = s[i].t
BY DEF Peek

\* Making one node of the parts moves nothing and repairs nothing.
LEMMA NodeKeeps ==
    ASSUME NEW e
    PROVE  FilterNode(e).pos = e.pos /\ (e.many => FilterNode(e).ok) /\ (~e.many => FilterNode(e) = e)
BY DEF FilterNode, Good

\* Parts looks only at what begins behind its first part, and does not go back.
LEMMA PartsLocal ==
    ASSUME NEW s, NEW n \in Nat, n = Len(s), NEW i \in 1..(n + 1), NEW k \in Separator, NEW first, NEW rest, NEW other,
           Result(first, i, n), first.pos <= n => rest = other /\ Result(rest, i, n)
    PROVE  Parts(s, k, first, rest) = Parts(s, k, first, other) /\ Result(Parts(s, k, first, rest), i, n)
<1>1. CASE ~first.ok \/ Peek(s, first.pos) # k BY <1>1 DEF Parts
<1>2. CASE ~(~first.ok \/ Peek(s, first.pos) # k)
    <2>1. first.pos <= n BY <1>2, PeekIn DEF Separator
    <2>2. Parts(s, k, first, rest) = Parts(s, k, first, other) BY <2>1
    <2>3. Parts(s, k, first, rest) = IF rest.ok THEN Good(first.node \o <<Sym(k)>> \o rest.node, TRUE, rest.pos) ELSE rest
        BY <1>2 DEF Parts
    <2>4. Parts(s, k, first, rest).pos = rest.pos BY <2>3 DEF Good
    <2>5. QED BY <2>1, <2>2, <2>4 DEF Result
<1>3. QED BY <1>1, <1>2

\* parse_atom looks only at what begins behind its parenthesis, and does not go back.
LEMMA AtomLocal ==
    ASSUME NEW s, NEW n \in Nat, n = Len(s), NEW i \in 1..(n + 1), NEW inner, NEW other,
           i <= n => inner = other /\ Result(inner, i, n)
    PROVE  parse_atom(s, i, inner) = parse_atom(s, i, other) /\ Result(parse_atom(s, i, inner), i, n)
<1>1. CASE Peek(s, i) # "("
    <2>1. parse_atom(s, i, inner) = parse_leaf(s, i) /\ parse_atom(s, i, other) = parse_leaf(s, i) BY <1>1 DEF parse_atom
    <2>2. Result(parse_leaf(s, i), i, n)
        <3>1. CASE Peek(s, i) = "leaf" /\ Taken(Leaves[s[i].n])
            <4>1. i <= n BY <3>1, PeekIn
            <4>2. parse_leaf(s, i).pos = i + 1 BY <3>1 DEF parse_leaf, Good
            <4>3. QED BY <4>1, <4>2 DEF Result
        <3>2. CASE ~(Peek(s, i) = "leaf" /\ Taken(Leaves[s[i].n]))
            <4>1. parse_leaf(s, i).pos = i BY <3>2 DEF parse_leaf, Bad
            <4>2. QED BY <4>1 DEF Result
        <3>3. QED BY <3>1, <3>2
    <2>3. QED BY <2>1, <2>2
<1>2. CASE Peek(s, i) = "("
    <2>1. i <= n BY <1>2, PeekIn
    <2>2. inner = other /\ inner.pos \in i..(n + 1) BY <2>1 DEF Result
    <2>3. parse_atom(s, i, inner) = IF ~inner.ok THEN inner ELSE IF Peek(s, inner.pos) # ")" THEN Bad(inner.pos)
                                    ELSE Good(inner.node, FALSE, inner.pos + 1)
        BY <1>2 DEF parse_atom
    <2>4. Peek(s, inner.pos) = ")" => inner.pos <= n BY PeekIn
    <2>5. parse_atom(s, i, inner).pos \in i..(n + 1) BY <2>2, <2>3, <2>4 DEF Good, Bad
    <2>6. QED BY <2>2, <2>5 DEF Result
<1>3. QED BY <1>1, <1>2

Agree(f, g, i, n) == \A j \in (i + 1)..(n + 1) : f[j] = g[j] /\ Result(f[j].conj, j, n) /\ Result(f[j].disj, j, n)

\* What begins at a token depends only on what begins behind it.
LEMMA ParseLocal ==
    ASSUME NEW s, NEW n \in Nat, n = Len(s), NEW i \in 1..(n + 1), NEW f, NEW g, Agree(f, g, i, n)
    PROVE  /\ parse_and(s, f, i) = parse_and(s, g, i) /\ Result(parse_and(s, f, i), i, n)
           /\ parse_or(s, f, i) = parse_or(s, g, i) /\ Result(parse_or(s, f, i), i, n)
<1>0. \A j \in (i + 1)..(n + 1) : f[j] = g[j] /\ Result(f[j].conj, i, n) /\ Result(f[j].disj, i, n)
    BY DEF Result, Agree
<1>1. ASSUME NEW e, Result(e, i, n), e.pos <= n
      PROVE  f[e.pos + 1] = g[e.pos + 1] /\ Result(f[e.pos + 1].conj, i, n) /\ Result(f[e.pos + 1].disj, i, n)
    <2>1. e.pos + 1 \in (i + 1)..(n + 1) BY <1>1 DEF Result
    <2>2. QED BY <1>0, <2>1
<1> DEFINE atom(p) == parse_atom(s, i, FilterNode(p[i + 1].disj))
           first(p) == FilterNode(parse_and(s, p, i))
<1>2. atom(f) = atom(g) /\ Result(atom(f), i, n)
    <2>1. i <= n => f[i + 1] = g[i + 1] /\ Result(FilterNode(f[i + 1].disj), i, n)
        <3>1. SUFFICES ASSUME i <= n PROVE f[i + 1] = g[i + 1] /\ Result(FilterNode(f[i + 1].disj), i, n) OBVIOUS
        <3>2. i + 1 \in (i + 1)..(n + 1) BY <3>1
        <3>3. f[i + 1] = g[i + 1] /\ Result(f[i + 1].disj, i, n) BY <1>0, <3>2
        <3>4. QED BY <3>3, NodeKeeps DEF Result
    <2>2. i <= n => FilterNode(f[i + 1].disj) = FilterNode(g[i + 1].disj) /\ Result(FilterNode(f[i + 1].disj), i, n)
        BY <2>1
    <2>3. QED BY <2>2, AtomLocal
<1>3. parse_and(s, f, i) = parse_and(s, g, i) /\ Result(parse_and(s, f, i), i, n)
    <2>1. parse_and(s, f, i) = Parts(s, "and", atom(f), f[atom(f).pos + 1].conj)
          /\ parse_and(s, g, i) = Parts(s, "and", atom(g), g[atom(g).pos + 1].conj)
        BY DEF parse_and
    <2> HIDE DEF atom
    <2>2. atom(f).pos <= n => f[atom(f).pos + 1].conj = g[atom(g).pos + 1].conj /\ Result(f[atom(f).pos + 1].conj, i, n)
        BY <1>1, <1>2
    <2>3. QED BY <1>2, <2>1, <2>2, PartsLocal DEF Separator
<1>4. first(f) = first(g) /\ Result(first(f), i, n)
    BY <1>3, NodeKeeps DEF Result
<1>5. parse_or(s, f, i) = parse_or(s, g, i) /\ Result(parse_or(s, f, i), i, n)
    <2>1. parse_or(s, f, i) = Parts(s, "or", first(f), f[first(f).pos + 1].disj)
          /\ parse_or(s, g, i) = Parts(s, "or", first(g), g[first(g).pos + 1].disj)
        BY DEF parse_or
    <2> HIDE DEF first
    <2>2. first(f).pos <= n => f[first(f).pos + 1].disj = g[first(g).pos + 1].disj /\ Result(f[first(f).pos + 1].disj, i, n)
        BY <1>1, <1>4
    <2>3. QED BY <1>4, <2>1, <2>2, PartsLocal DEF Separator
<1>6. QED BY <1>3, <1>5
Results(p, m, n) == \A j \in m..(n + 1) : Result(p[j].conj, j, n) /\ Result(p[j].disj, j, n)

Parses(p, s, m, n) == \A j \in m..(n + 1) : p[j] = [conj |-> parse_and(s, p, j), disj |-> parse_or(s, p, j)]

\* A parser of the tokens behind one extends to it.
LEMMA ParserExtends ==
    ASSUME NEW s, NEW n \in Nat, n = Len(s), NEW m \in 1..(n + 1), NEW f,
           Parses(f, s, m + 1, n), Results(f, m + 1, n)
    PROVE  \E g : Parser(g, s, m) /\ Results(g, m, n)
<1> DEFINE rec(p, i) == [conj |-> parse_and(s, p, i), disj |-> parse_or(s, p, i)]
           g == [i \in m..(n + 1) |-> rec(f, i)]
<1>1. \A i \in m..(n + 1) : g[i] = rec(f, i) OBVIOUS
<1>2. \A j \in (m + 1)..(n + 1) : f[j] = g[j] /\ Result(f[j].conj, j, n) /\ Result(f[j].disj, j, n)
    <2>1. \A j \in (m + 1)..(n + 1) : j \in m..(n + 1) OBVIOUS
    <2> HIDE DEF g
    <2>2. QED BY <1>1, <2>1 DEF Results, Parses
<1> HIDE DEF g
<1>3. ASSUME NEW i \in m..(n + 1)
      PROVE  rec(f, i) = rec(g, i) /\ Result(parse_and(s, f, i), i, n) /\ Result(parse_or(s, f, i), i, n)
    <2>1. i \in 1..(n + 1) /\ \A j \in (i + 1)..(n + 1) : j \in (m + 1)..(n + 1) OBVIOUS
    <2>2. \A j \in (i + 1)..(n + 1) : f[j] = g[j] /\ Result(f[j].conj, j, n) /\ Result(f[j].disj, j, n)
        BY <1>2, <2>1
    <2>5. i \in 1..(n + 1) /\ Agree(f, g, i, n) BY <2>1, <2>2 DEF Agree
    <2>3. /\ parse_and(s, f, i) = parse_and(s, g, i) /\ Result(parse_and(s, f, i), i, n)
          /\ parse_or(s, f, i) = parse_or(s, g, i) /\ Result(parse_or(s, f, i), i, n)
        BY <2>5, ParseLocal
    <2>4. QED BY <2>3
<1>4. Parser(g, s, m)
    <2>1. g = [i \in m..(n + 1) |-> rec(f, i)] BY DEF g
    <2> HIDE DEF rec
    <2>2. g = [i \in m..(n + 1) |-> rec(g, i)] BY <1>3, <2>1
    <2>3. QED BY <2>2 DEF Parser, rec
<1>5. Results(g, m, n)
    <2>1. ASSUME NEW j \in m..(n + 1) PROVE Result(g[j].conj, j, n) /\ Result(g[j].disj, j, n)
        <3>1. g[j] = rec(f, j) BY <1>1
        <3>a. g[j].conj = parse_and(s, f, j) /\ g[j].disj = parse_or(s, f, j) BY <3>1
        <3>2. QED BY <1>3, <3>a
    <2>2. QED BY <2>1 DEF Results
<1>6. QED BY <1>4, <1>5

\* The equation of the parser has a solution.
LEMMA ParserDefined ==
    ASSUME NEW s, NEW n \in Nat, n = Len(s)
    PROVE  \E p : Parser(p, s, 1) /\ Results(p, 1, n)
<1> DEFINE D(d) == \E p : Parser(p, s, n + 1 - d) /\ Results(p, n + 1 - d, n)
           S == {d \in 0..n : D(d)}
<1>1. 0 \in S
    <2>1. n + 1 \in 1..(n + 1) /\ n + 1 - 0 = n + 1 /\ ((n + 1) + 1)..(n + 1) = {} OBVIOUS
    <2>2. Results(<<>>, (n + 1) + 1, n) BY <2>1 DEF Results
    <2>3. Parses(<<>>, s, (n + 1) + 1, n) BY <2>1 DEF Parses
    <2>4. \E g : Parser(g, s, n + 1) /\ Results(g, n + 1, n) BY <2>1, <2>2, <2>3, ParserExtends
    <2>5. QED BY <2>1, <2>4
<1>2. ASSUME NEW d \in 1..n, d - 1 \in S PROVE d \in S
    <2> DEFINE m == n + 1 - d
    <2>1. m \in 1..(n + 1) /\ n + 1 - (d - 1) = m + 1 /\ d \in 0..n OBVIOUS
    <2> HIDE DEF m
    <2>2. PICK f : Parser(f, s, m + 1) /\ Results(f, m + 1, n) BY <1>2, <2>1
    <2>3. Parses(f, s, m + 1, n) BY <2>2 DEF Parser, Parses
    <2>4. \E g : Parser(g, s, m) /\ Results(g, m, n) BY <2>1, <2>2, <2>3, ParserExtends
    <2>5. QED BY <2>1, <2>4 DEF m
<1> HIDE DEF S
<1>3. n \in S
    <2>1. 0..n \subseteq S BY <1>1, <1>2, Induct
    <2>2. QED BY <2>1
<1>4. n + 1 - n = 1 OBVIOUS
<1>5. D(n) BY <1>3 DEF S
<1>6. QED BY <1>4, <1>5

\* What parse_rsql computes with.
LEMMA ParserIs ==
    ASSUME NEW s \in Seq(Token)
    PROVE  \E p : /\ \A i \in 1..(Len(s) + 1) : p[i] = [conj |-> parse_and(s, p, i), disj |-> parse_or(s, p, i)]
                  /\ Results(p, 1, Len(s))
                  /\ parse_rsql(s) = LET e == FilterNode(p[1].disj) IN IF e.ok /\ e.pos <= Len(s) THEN Bad(e.pos) ELSE e
<1> DEFINE p == CHOOSE p : p = [i \in 1..(Len(s) + 1) |-> [conj |-> parse_and(s, p, i), disj |-> parse_or(s, p, i)]]
<1>1. Len(s) \in Nat OBVIOUS
<1>2. PICK g : Parser(g, s, 1) /\ Results(g, 1, Len(s)) BY <1>1, ParserDefined
<1>3. Parser(p, s, 1) BY <1>2, Zenon DEF Parser
<1>4. parse_rsql(s) = LET e == FilterNode(p[1].disj) IN IF e.ok /\ e.pos <= Len(s) THEN Bad(e.pos) ELSE e
    BY DEF parse_rsql
<1> HIDE DEF p
<1> DEFINE n == Len(s)
<1>5. \A i \in 1..(n + 1) : p[i] = [conj |-> parse_and(s, p, i), disj |-> parse_or(s, p, i)] BY <1>3 DEF Parser
<1>6. \A i \in 1..(n + 1) : g[i] = [conj |-> parse_and(s, g, i), disj |-> parse_or(s, g, i)] BY <1>2 DEF Parser
<1>7. Results(p, 1, n)
    <2> DEFINE S == {d \in 0..n : \A j \in (n + 1 - d)..(n + 1) : p[j] = g[j]}
    <2>0. n \in Nat /\ n = Len(s) BY <1>1
    <2> HIDE DEF n
    <2>1. ASSUME NEW i \in 1..(n + 1), \A j \in (i + 1)..(n + 1) : p[j] = g[j] PROVE p[i] = g[i]
        <3>1. \A j \in (i + 1)..(n + 1) : g[j] = p[j] /\ Result(g[j].conj, j, n) /\ Result(g[j].disj, j, n)
            <4>1. \A j \in (i + 1)..(n + 1) : j \in 1..(n + 1) BY <2>0
            <4>2. QED BY <1>2, <2>1, <4>1 DEF Results, n
        <3>2. parse_and(s, g, i) = parse_and(s, p, i) /\ parse_or(s, g, i) = parse_or(s, p, i)
            <4>1. Agree(g, p, i, n) BY <3>1 DEF Agree
            <4>2. QED BY <2>0, <4>1, ParseLocal
        <3>3. QED BY <1>5, <1>6, <3>2
    <2>2. 0 \in S
        <3>1. n + 1 \in 1..(n + 1) /\ ((n + 1) + 1)..(n + 1) = {} /\ (n + 1 - 0)..(n + 1) = {n + 1} /\ 0 \in 0..n BY <2>0
        <3>2. p[n + 1] = g[n + 1] BY <2>1, <3>1
        <3>3. QED BY <3>1, <3>2
    <2>3. ASSUME NEW d \in 1..n, d - 1 \in S PROVE d \in S
        <3> DEFINE m == n + 1 - d
        <3>1. m \in 1..(n + 1) /\ n + 1 - (d - 1) = m + 1 /\ d \in 0..n /\ \A j \in m..(n + 1) : j = m \/ j \in (m + 1)..(n + 1)
            BY <2>0
        <3>2. \A j \in (m + 1)..(n + 1) : p[j] = g[j] BY <2>3, <3>1
        <3>3. p[m] = g[m] BY <2>1, <3>1, <3>2
        <3> HIDE DEF m
        <3>4. \A j \in m..(n + 1) : p[j] = g[j] BY <3>1, <3>2, <3>3
        <3>5. QED BY <3>1, <3>4 DEF m
    <2>4. n \in S
        <3> HIDE DEF S
        <3>1. 0..n \subseteq S BY <2>0, <2>2, <2>3, Induct
        <3>2. QED BY <2>0, <3>1
    <2>5. \A j \in 1..(n + 1) : p[j] = g[j]
        <3>1. n + 1 - n = 1 BY <2>0
        <3>2. QED BY <2>4, <3>1
    <2>6. QED BY <1>2, <2>5 DEF Results, n
<1>8. QED BY <1>4, <1>5, <1>7
-----------------------------------------------------------------------------
(***************************************************************************)
(* Tokens and their values: giving rows to the comparisons changes nothing *)
(* of the shape.                                                           *)
(***************************************************************************)
Kind == {"or", "and", "(", ")", "leaf"}
RowsFit(rows) == \A n \in DOMAIN Leaves : rows[n] \in SUBSET Row
Means(s, rows) == Reading(Valued(s, rows))
Comparisons(s) == {s[i].n : i \in {i \in 1..Len(s) : s[i].t = "leaf"}}

\* The kinds of tokens.
LEMMA TokenShape ==
    /\ \A tok \in Token : tok.t \in Kind /\ (tok.t = "leaf" => tok.n \in DOMAIN Leaves)
    /\ \A k \in Kind \ {"leaf"} : Sym(k) \in Token /\ Sym(k).t = k
<1>1. ASSUME NEW tok \in Token PROVE tok.t \in Kind /\ (tok.t = "leaf" => tok.n \in DOMAIN Leaves)
    BY DEF Token, Sym, Kind
<1>2. ASSUME NEW k \in Kind \ {"leaf"} PROVE Sym(k) \in Token /\ Sym(k).t = k
    BY DEF Token, Sym, Kind
<1>3. QED BY <1>1, <1>2

Val(tok, rows) == [t |-> tok.t, rows |-> IF tok.t = "leaf" THEN rows[tok.n] ELSE {}]

\* A token with its rows.
LEMMA ValuedAt ==
    ASSUME NEW s, IsSeq(s), NEW rows
    PROVE  \A i \in 1..Len(s) : Valued(s, rows)[i] = Val(s[i], rows)
BY DEF IsSeq, Valued, Val

\* The tokens with their rows are a text to read.
LEMMA ValuedIs ==
    ASSUME NEW s \in Seq(Token), NEW rows, RowsFit(rows)
    PROVE  /\ Valued(s, rows) \in Seq(Item) /\ Len(Valued(s, rows)) = Len(s)
           /\ \A i \in 1..Len(s) : /\ Valued(s, rows)[i].t = s[i].t
                                   /\ s[i].t = "leaf" => Valued(s, rows)[i].rows = rows[s[i].n]
<1> DEFINE v(i) == [t |-> s[i].t, rows |-> IF s[i].t = "leaf" THEN rows[s[i].n] ELSE {}]
<1>1. DOMAIN s = 1..Len(s) /\ Len(s) \in Nat OBVIOUS
<1>2. ASSUME NEW i \in 1..Len(s) PROVE v(i) \in Item
    <2>1. s[i] \in Token OBVIOUS
    <2>2. s[i].t \in Kind /\ (s[i].t = "leaf" => s[i].n \in DOMAIN Leaves) BY <2>1, TokenShape
    <2>3. (IF s[i].t = "leaf" THEN rows[s[i].n] ELSE {}) \in SUBSET Row BY <2>2 DEF RowsFit
    <2>4. QED BY <2>2, <2>3 DEF Item, Kind
<1>3. Valued(s, rows) = [i \in 1..Len(s) |-> v(i)] BY <1>1 DEF Valued
<1>4. Valued(s, rows) \in [1..Len(s) -> Item] BY <1>2, <1>3
<1>5. Valued(s, rows) \in Seq(Item) /\ Len(Valued(s, rows)) = Len(s) BY <1>1, <1>4, FunIsSeq
<1>6. ASSUME NEW i \in 1..Len(s)
      PROVE  Valued(s, rows)[i].t = s[i].t /\ (s[i].t = "leaf" => Valued(s, rows)[i].rows = rows[s[i].n])
    BY <1>3
<1>7. QED BY <1>5, <1>6

\* Shape is a matter of the kinds of the tokens.
LEMMA SameShape ==
    ASSUME NEW s, NEW r, IsSeq(s), IsSeq(r), Len(s) = Len(r), \A i \in 1..Len(s) : s[i].t = r[i].t
    PROVE  (Closed(s) <=> Closed(r)) /\ (Filled(s) <=> Filled(r)) /\ \A t : Outermost(s, t) = Outermost(r, t)
<1> DEFINE n == Len(s)
<1>1. n \in Nat /\ Len(r) = n /\ DOMAIN s = 1..n /\ DOMAIN r = 1..n BY DEF IsSeq
<1>2. \A i \in 0..n : \A t : Count(s, t, i) = Count(r, t, i)
    <2>1. ASSUME NEW i \in 0..n, NEW t PROVE Count(s, t, i) = Count(r, t, i)
        <3>1. {j \in 1..i : s[j].t = t} = {j \in 1..i : r[j].t = t} BY <1>1
        <3>2. QED BY <3>1 DEF Count
    <2>2. QED BY <2>1
<1>3. Closed(s) <=> Closed(r)
    <2>1. n \in 0..n BY <1>1
    <2>2. QED BY <1>1, <1>2, <2>1 DEF Closed
<1>4. \A t : Outermost(s, t) = Outermost(r, t)
    <2>1. ASSUME NEW t, NEW i \in 1..n PROVE i \in Outermost(s, t) <=> i \in Outermost(r, t)
        <3>1. i \in 0..n /\ s[i].t = r[i].t BY <1>1
        <3>2. QED BY <1>1, <1>2, <3>1 DEF Outermost
    <2>2. ASSUME NEW t PROVE Outermost(s, t) = Outermost(r, t)
        <3>1. Outermost(s, t) \subseteq 1..n /\ Outermost(r, t) \subseteq 1..n BY <1>1 DEF Outermost
        <3>2. \A i \in 1..n : i \in Outermost(s, t) <=> i \in Outermost(r, t) BY <2>1
        <3> HIDE DEF n
        <3>3. ASSUME NEW A, NEW B, A \subseteq 1..n, B \subseteq 1..n, \A i \in 1..n : i \in A <=> i \in B PROVE A = B
            BY <3>3
        <3>4. QED BY <3>1, <3>2, <3>3, Zenon
    <2>3. QED BY <2>2
<1>5. Filled(s) <=> Filled(r) BY <1>1 DEF Filled
<1>6. QED BY <1>3, <1>4, <1>5

\* Rows change nothing of the shape of a text.
LEMMA ValuedShape ==
    ASSUME NEW s \in Seq(Token), NEW rows, RowsFit(rows)
    PROVE  LET v == Valued(s, rows) IN
           /\ Closed(v) <=> Closed(s)
           /\ Filled(v) <=> Filled(s)
           /\ \A t : Plain(v, t) <=> Plain(s, t)
<1> DEFINE v == Valued(s, rows)
<1>1. v \in Seq(Item) /\ Len(v) = Len(s) /\ \A i \in 1..Len(s) : v[i].t = s[i].t BY ValuedIs
<1> HIDE DEF v
<1>2. IsSeq(v) /\ IsSeq(s) BY <1>1, SeqIsSeq
<1>3. (Closed(v) <=> Closed(s)) /\ (Filled(v) <=> Filled(s)) /\ \A t : Outermost(v, t) = Outermost(s, t)
    BY <1>1, <1>2, SameShape
<1>4. QED BY <1>3 DEF Plain, v

\* Rows are given to the parts of a text put together.
LEMMA ValuedGlued ==
    ASSUME NEW s \in Seq(Token), NEW x \in Seq(Token), NEW y \in Seq(Token), NEW c, Glued(s, x, c, y),
           NEW rows, RowsFit(rows)
    PROVE  \E d : d.t = c.t /\ Glued(Valued(s, rows), Valued(x, rows), d, Valued(y, rows))
<1> DEFINE v(z) == Valued(z, rows)
<1>1. Len(x) \in Nat /\ Len(y) \in Nat /\ Len(s) = Len(x) + 1 + Len(y) BY DEF Glued
<1>2. \A z \in Seq(Token) : Len(v(z)) = Len(z) /\ \A i \in 1..Len(z) : v(z)[i] = Val(z[i], rows)
    <2>1. ASSUME NEW z \in Seq(Token) PROVE Len(v(z)) = Len(z) /\ \A i \in 1..Len(z) : v(z)[i] = Val(z[i], rows)
        <3>1. IsSeq(z) BY SeqIsSeq
        <3>2. QED BY <3>1, ValuedIs, ValuedAt
    <2>2. QED BY <2>1
<1> HIDE DEF v
<1>3. \A i \in 1..Len(x) : v(s)[i] = v(x)[i]
    <2>1. ASSUME NEW i \in 1..Len(x) PROVE v(s)[i] = v(x)[i]
        <3>1. i \in 1..Len(s) /\ s[i] = x[i] BY <1>1 DEF Glued
        <3>2. QED BY <1>2, <3>1
    <2>2. QED BY <2>1
<1>4. \A i \in 1..Len(y) : v(s)[Len(x) + 1 + i] = v(y)[i]
    <2>1. ASSUME NEW i \in 1..Len(y) PROVE v(s)[Len(x) + 1 + i] = v(y)[i]
        <3>1. Len(x) + 1 + i \in 1..Len(s) /\ s[Len(x) + 1 + i] = y[i] BY <1>1 DEF Glued
        <3>2. QED BY <1>2, <3>1
    <2>2. QED BY <2>1
<1>5. v(s)[Len(x) + 1].t = c.t
    <2>1. Len(x) + 1 \in 1..Len(s) /\ s[Len(x) + 1] = c BY <1>1 DEF Glued
    <2>2. v(s)[Len(x) + 1] = Val(c, rows) BY <1>2, <2>1
    <2>3. QED BY <2>2 DEF Val
<1>6. Glued(v(s), v(x), v(s)[Len(x) + 1], v(y)) BY <1>1, <1>2, <1>3, <1>4 DEF Glued
<1>7. QED BY <1>5, <1>6 DEF v

\* Rows are given to a text between parentheses.
LEMMA ValuedBracketed ==
    ASSUME NEW s \in Seq(Token), NEW x \in Seq(Token), Bracketed(s, x), NEW rows, RowsFit(rows)
    PROVE  Bracketed(Valued(s, rows), Valued(x, rows))
<1> DEFINE v(z) == Valued(z, rows)
<1>1. Len(x) \in Nat /\ Len(s) = Len(x) + 2 BY DEF Bracketed
<1>2. \A z \in Seq(Token) : Len(v(z)) = Len(z) /\ \A i \in 1..Len(z) : v(z)[i] = Val(z[i], rows)
    <2>1. ASSUME NEW z \in Seq(Token) PROVE Len(v(z)) = Len(z) /\ \A i \in 1..Len(z) : v(z)[i] = Val(z[i], rows)
        <3>1. IsSeq(z) BY SeqIsSeq
        <3>2. QED BY <3>1, ValuedIs, ValuedAt
    <2>2. QED BY <2>1
<1> HIDE DEF v
<1>3. \A i \in 1..Len(x) : v(s)[1 + i] = v(x)[i]
    <2>1. ASSUME NEW i \in 1..Len(x) PROVE v(s)[1 + i] = v(x)[i]
        <3>1. 1 + i \in 1..Len(s) /\ s[1 + i] = x[i] BY <1>1 DEF Bracketed
        <3>2. QED BY <1>2, <3>1
    <2>2. QED BY <2>1
<1>4. v(s)[1].t = "(" /\ v(s)[Len(s)].t = ")"
    <2>1. 1 \in 1..Len(s) /\ Len(s) \in 1..Len(s) BY <1>1
    <2>2. s[1].t = "(" /\ s[Len(s)].t = ")" BY DEF Bracketed
    <2>3. v(s)[1] = Val(s[1], rows) /\ v(s)[Len(s)] = Val(s[Len(s)], rows) BY <1>2, <2>1
    <2>4. QED BY <2>2, <2>3 DEF Val
<1>5. Bracketed(v(s), v(x)) BY <1>1, <1>2, <1>3, <1>4 DEF Bracketed
<1>6. QED BY <1>5 DEF v

\* What two parts with an 'or' between them mean.
LEMMA MeansOr ==
    ASSUME NEW s \in Seq(Token), NEW x \in Seq(Token), NEW y \in Seq(Token), NEW c, Glued(s, x, c, y), c.t = "or",
           Closed(x), Plain(x, "or"), NEW rows, RowsFit(rows)
    PROVE  Means(s, rows) = {u \cup v : u \in Means(x, rows), v \in Means(y, rows)}
<1>1. PICK d : d.t = "or" /\ Glued(Valued(s, rows), Valued(x, rows), d, Valued(y, rows)) BY ValuedGlued
<1>2. Valued(s, rows) \in Seq(Item) /\ Valued(x, rows) \in Seq(Item) /\ Valued(y, rows) \in Seq(Item) BY ValuedIs
<1>3. Closed(Valued(x, rows)) /\ Plain(Valued(x, rows), "or") BY ValuedShape
<1>4. QED BY <1>1, <1>2, <1>3, ReadOr DEF Means

\* What two parts with an 'and' between them mean.
LEMMA MeansAnd ==
    ASSUME NEW s \in Seq(Token), NEW x \in Seq(Token), NEW y \in Seq(Token), NEW c, Glued(s, x, c, y), c.t = "and",
           Closed(x), Plain(x, "or"), Plain(x, "and"), Plain(y, "or"), NEW rows, RowsFit(rows)
    PROVE  Means(s, rows) = {u \cap v : u \in Means(x, rows), v \in Means(y, rows)} /\ Plain(s, "or")
<1>1. PICK d : d.t = "and" /\ Glued(Valued(s, rows), Valued(x, rows), d, Valued(y, rows)) BY ValuedGlued
<1>2. Valued(s, rows) \in Seq(Item) /\ Valued(x, rows) \in Seq(Item) /\ Valued(y, rows) \in Seq(Item) BY ValuedIs
<1>3. Closed(Valued(x, rows)) /\ Plain(Valued(x, rows), "or") /\ Plain(Valued(x, rows), "and") /\ Plain(Valued(y, rows), "or")
    BY ValuedShape
<1>4. /\ Reading(Valued(s, rows)) = {u \cap v : u \in Reading(Valued(x, rows)), v \in Reading(Valued(y, rows))}
      /\ Plain(Valued(s, rows), "or")
    BY <1>1, <1>2, <1>3, ReadAnd
<1>5. QED BY <1>4, ValuedShape DEF Means

\* What a text between parentheses means.
LEMMA MeansBracket ==
    ASSUME NEW s \in Seq(Token), NEW x \in Seq(Token), Bracketed(s, x), Closed(x), Filled(x), NEW rows, RowsFit(rows)
    PROVE  /\ Means(s, rows) = Means(x, rows)
           /\ Closed(s) /\ Filled(s) /\ Plain(s, "or") /\ Plain(s, "and")
<1>1. Bracketed(Valued(s, rows), Valued(x, rows)) BY ValuedBracketed
<1>2. Valued(s, rows) \in Seq(Item) /\ Valued(x, rows) \in Seq(Item) BY ValuedIs
<1>3. Closed(Valued(x, rows)) /\ Filled(Valued(x, rows)) BY ValuedShape
<1>4. Means(s, rows) = Means(x, rows) BY <1>1, <1>2, <1>3, ReadBracket DEF Means
<1>5. IsSeq(s) /\ IsSeq(x) BY SeqIsSeq
<1>6. Closed(s) /\ Enclosed(s) /\ \A t \in Separator : Outermost(s, t) = {} BY <1>5, BracketedShape
<1>7. Filled(s) BY <1>6 DEF Enclosed, Filled
<1>8. QED BY <1>4, <1>6, <1>7 DEF Plain, Separator

\* What a comparison means.
LEMMA MeansLeaf ==
    ASSUME NEW s \in Seq(Token), Len(s) = 1, s[1].t = "leaf", NEW rows, RowsFit(rows)
    PROVE  /\ Means(s, rows) = {rows[s[1].n]}
           /\ Closed(s) /\ Filled(s) /\ Plain(s, "or") /\ Plain(s, "and")
<1> DEFINE v == Valued(s, rows)
<1>1. v \in Seq(Item) /\ Len(v) = 1 /\ v[1].t = "leaf" /\ v[1].rows = rows[s[1].n] BY ValuedIs
<1> HIDE DEF v
<1>2. IsSeq(s) /\ IsSeq(v) BY <1>1, SeqIsSeq
<1>3. Closed(s) /\ Filled(s) /\ Plain(s, "or") /\ Plain(s, "and") BY <1>2, LeafClosed
<1>4. Plain(v, "or") /\ Plain(v, "and") BY <1>1, <1>2, LeafClosed
<1>5. Reading(v) = {v[1].rows} BY <1>1, <1>4, ReadingCut DEF Plain
<1>6. QED BY <1>1, <1>3, <1>5 DEF Means, v

\* The comparisons of two parts put together.
LEMMA GluedComparisons ==
    ASSUME NEW s, NEW x, NEW y, NEW c, IsSeq(s), IsSeq(x), IsSeq(y), Glued(s, x, c, y), c.t # "leaf"
    PROVE  Comparisons(s) = Comparisons(x) \cup Comparisons(y)
<1>1. Len(x) \in Nat /\ Len(y) \in Nat /\ Len(s) = Len(x) + 1 + Len(y) BY DEF Glued, IsSeq
<1>2. ASSUME NEW n \in Comparisons(s) PROVE n \in Comparisons(x) \cup Comparisons(y)
    <2>1. PICK i \in 1..Len(s) : s[i].t = "leaf" /\ n = s[i].n BY <1>2 DEF Comparisons
    <2>2. CASE i \in 1..Len(x)
        <3>1. s[i] = x[i] BY <2>2 DEF Glued
        <3>2. QED BY <2>1, <2>2, <3>1 DEF Comparisons
    <2>3. CASE i > Len(x)
        <3>1. i # Len(x) + 1 BY <2>1 DEF Glued
        <3> DEFINE j == i - (Len(x) + 1)
        <3>2. j \in 1..Len(y) /\ Len(x) + 1 + j = i BY <1>1, <2>1, <2>3, <3>1
        <3> HIDE DEF j
        <3>3. s[i] = y[j] BY <3>2 DEF Glued
        <3>4. QED BY <2>1, <3>2, <3>3 DEF Comparisons
    <2>4. QED BY <1>1, <2>1, <2>2, <2>3
<1>3. ASSUME NEW n \in Comparisons(x) PROVE n \in Comparisons(s)
    <2>1. PICK i \in 1..Len(x) : x[i].t = "leaf" /\ n = x[i].n BY <1>3 DEF Comparisons
    <2>2. i \in 1..Len(s) /\ s[i] = x[i] BY <1>1 DEF Glued
    <2>3. QED BY <2>1, <2>2 DEF Comparisons
<1>4. ASSUME NEW n \in Comparisons(y) PROVE n \in Comparisons(s)
    <2>1. PICK i \in 1..Len(y) : y[i].t = "leaf" /\ n = y[i].n BY <1>4 DEF Comparisons
    <2> DEFINE j == Len(x) + 1 + i
    <2>2. j \in 1..Len(s) /\ s[j] = y[i] BY <1>1 DEF Glued
    <2> HIDE DEF j
    <2>3. QED BY <2>1, <2>2 DEF Comparisons
<1>5. QED BY <1>2, <1>3, <1>4

\* The comparisons of a text between parentheses.
LEMMA BracketedComparisons ==
    ASSUME NEW s, NEW x, IsSeq(s), IsSeq(x), Bracketed(s, x)
    PROVE  Comparisons(s) = Comparisons(x)
<1>1. Len(x) \in Nat /\ Len(s) = Len(x) + 2 BY DEF Bracketed, IsSeq
<1>2. ASSUME NEW n \in Comparisons(s) PROVE n \in Comparisons(x)
    <2>1. PICK i \in 1..Len(s) : s[i].t = "leaf" /\ n = s[i].n BY <1>2 DEF Comparisons
    <2>2. i # 1 /\ i # Len(s) BY <2>1 DEF Bracketed
    <2> DEFINE j == i - 1
    <2>3. j \in 1..Len(x) /\ 1 + j = i BY <1>1, <2>1, <2>2
    <2> HIDE DEF j
    <2>4. s[i] = x[j] BY <2>3 DEF Bracketed
    <2>5. QED BY <2>1, <2>3, <2>4 DEF Comparisons
<1>3. ASSUME NEW n \in Comparisons(x) PROVE n \in Comparisons(s)
    <2>1. PICK i \in 1..Len(x) : x[i].t = "leaf" /\ n = x[i].n BY <1>3 DEF Comparisons
    <2> DEFINE j == 1 + i
    <2>2. j \in 1..Len(s) /\ s[j] = x[i] BY <1>1 DEF Bracketed
    <2> HIDE DEF j
    <2>3. QED BY <2>1, <2>2 DEF Comparisons
<1>4. QED BY <1>2, <1>3

\* The tokens from i up to the one before j.
Cut(s, i, j) == SubSeq(s, i, j - 1)

\* The tokens from one place to before another.
LEMMA CutIs ==
    ASSUME NEW s \in Seq(Token), NEW i \in 1..(Len(s) + 1), NEW j \in i..(Len(s) + 1)
    PROVE  /\ Cut(s, i, j) \in Seq(Token) /\ IsSeq(Cut(s, i, j)) /\ Len(Cut(s, i, j)) = j - i
           /\ \A k \in 1..(j - i) : Cut(s, i, j)[k] = s[i + k - 1]
<1> DEFINE n == j - i
<1>1. Len(s) \in Nat /\ \A k \in 1..Len(s) : s[k] \in Token OBVIOUS
<1>2. n \in Nat /\ i \in Nat /\ i >= 1 /\ i + n - 1 = j - 1 /\ \A k \in i..(i + n - 1) : s[k] \in Token BY <1>1
<1> HIDE DEF n
<1>3. /\ SubSeq(s, i, i + n - 1) \in Seq(Token) /\ Len(SubSeq(s, i, i + n - 1)) = n
      /\ \A k \in 1..n : SubSeq(s, i, i + n - 1)[k] = s[i + k - 1]
    BY <1>2, Span
<1>4. Cut(s, i, j) = SubSeq(s, i, i + n - 1) BY <1>2 DEF Cut
<1>5. Cut(s, i, j) \in Seq(Token) BY <1>3, <1>4
<1>6. QED BY <1>3, <1>4, <1>5, SeqIsSeq DEF n

\* A cut at a token of it.
LEMMA CutGlued ==
    ASSUME NEW s \in Seq(Token), NEW i \in 1..Len(s), NEW c \in i..Len(s), NEW j \in (c + 1)..(Len(s) + 1)
    PROVE  Glued(Cut(s, i, j), Cut(s, i, c), s[c], Cut(s, c + 1, j))
<1>0. Len(s) \in Nat OBVIOUS
<1>1. i \in 1..(Len(s) + 1) /\ j \in i..(Len(s) + 1) /\ c \in i..(Len(s) + 1) /\ c + 1 \in 1..(Len(s) + 1) BY <1>0
<1>2. Len(Cut(s, i, j)) = j - i /\ \A k \in 1..(j - i) : Cut(s, i, j)[k] = s[i + k - 1] BY <1>1, CutIs
<1>3. Len(Cut(s, i, c)) = c - i /\ \A k \in 1..(c - i) : Cut(s, i, c)[k] = s[i + k - 1] BY <1>1, CutIs
<1>4. Len(Cut(s, c + 1, j)) = j - (c + 1) /\ \A k \in 1..(j - (c + 1)) : Cut(s, c + 1, j)[k] = s[(c + 1) + k - 1]
    BY <1>1, CutIs
<1>5. Len(Cut(s, i, j)) = Len(Cut(s, i, c)) + 1 + Len(Cut(s, c + 1, j)) BY <1>0, <1>2, <1>3, <1>4
<1>6. ASSUME NEW k \in 1..(c - i) PROVE Cut(s, i, j)[k] = Cut(s, i, c)[k]
    <2>1. k \in 1..(j - i) BY <1>0
    <2>2. Cut(s, i, j)[k] = s[i + k - 1] BY <1>2, <2>1
    <2>3. QED BY <1>3, <2>2
<1>7. Cut(s, i, j)[(c - i) + 1] = s[c]
    <2>1. (c - i) + 1 \in 1..(j - i) /\ i + ((c - i) + 1) - 1 = c BY <1>0
    <2>2. QED BY <1>2, <2>1
<1>8. \A k \in 1..(j - (c + 1)) : Cut(s, i, j)[(c - i) + 1 + k] = Cut(s, c + 1, j)[k]
    <2>1. ASSUME NEW k \in 1..(j - (c + 1)) PROVE Cut(s, i, j)[(c - i) + 1 + k] = Cut(s, c + 1, j)[k]
        <3>1. (c - i) + 1 + k \in 1..(j - i) /\ i + ((c - i) + 1 + k) - 1 = (c + 1) + k - 1 BY <1>0
        <3>2. Cut(s, i, j)[(c - i) + 1 + k] = s[(c + 1) + k - 1] BY <1>2, <3>1
        <3>3. QED BY <1>4, <3>2
    <2>2. QED BY <2>1
<1>9. QED BY <1>3, <1>4, <1>5, <1>6, <1>7, <1>8 DEF Glued

\* A cut that begins and ends with parentheses.
LEMMA CutBracketed ==
    ASSUME NEW s \in Seq(Token), NEW i \in 1..Len(s), NEW j \in (i + 1)..Len(s), s[i].t = "(", s[j].t = ")"
    PROVE  Bracketed(Cut(s, i, j + 1), Cut(s, i + 1, j))
<1>0. Len(s) \in Nat OBVIOUS
<1>1. i \in 1..(Len(s) + 1) /\ j + 1 \in i..(Len(s) + 1) /\ i + 1 \in 1..(Len(s) + 1) /\ j \in (i + 1)..(Len(s) + 1) BY <1>0
<1>2. Len(Cut(s, i, j + 1)) = (j + 1) - i /\ \A k \in 1..((j + 1) - i) : Cut(s, i, j + 1)[k] = s[i + k - 1] BY <1>1, CutIs
<1>3. Len(Cut(s, i + 1, j)) = j - (i + 1) /\ \A k \in 1..(j - (i + 1)) : Cut(s, i + 1, j)[k] = s[(i + 1) + k - 1]
    BY <1>1, CutIs
<1>4. Len(Cut(s, i, j + 1)) = Len(Cut(s, i + 1, j)) + 2 BY <1>0, <1>2, <1>3
<1>5. Cut(s, i, j + 1)[1].t = "("
    <2>1. 1 \in 1..((j + 1) - i) /\ i + 1 - 1 = i BY <1>0
    <2>2. Cut(s, i, j + 1)[1] = s[i] BY <1>2, <2>1
    <2>3. QED BY <2>2
<1>6. Cut(s, i, j + 1)[(j + 1) - i].t = ")"
    <2>1. (j + 1) - i \in 1..((j + 1) - i) /\ i + ((j + 1) - i) - 1 = j BY <1>0
    <2>2. Cut(s, i, j + 1)[(j + 1) - i] = s[j] BY <1>2, <2>1
    <2>3. QED BY <2>2
<1>7. ASSUME NEW k \in 1..(j - (i + 1)) PROVE Cut(s, i, j + 1)[1 + k] = Cut(s, i + 1, j)[k]
    <2>1. 1 + k \in 1..((j + 1) - i) /\ i + (1 + k) - 1 = (i + 1) + k - 1 BY <1>0
    <2>2. Cut(s, i, j + 1)[1 + k] = s[(i + 1) + k - 1] BY <1>2, <2>1
    <2>3. QED BY <1>3, <2>2
<1>8. QED BY <1>2, <1>3, <1>4, <1>5, <1>6, <1>7 DEF Bracketed

\* Concatenation puts parts together.
LEMMA ConcatGlued ==
    ASSUME NEW x \in Seq(Token), NEW y \in Seq(Token), NEW c \in Token
    PROVE  x \o <<c>> \o y \in Seq(Token) /\ Glued(x \o <<c>> \o y, x, c, y)
<1> DEFINE s == x \o <<c>> \o y
<1>1. Len(x) \in Nat /\ Len(y) \in Nat OBVIOUS
<1>2. s \in Seq(Token) /\ Len(s) = Len(x) + 1 + Len(y) OBVIOUS
<1>3. ASSUME NEW i \in 1..Len(x) PROVE s[i] = x[i] OBVIOUS
<1>4. s[Len(x) + 1] = c OBVIOUS
<1>5. ASSUME NEW i \in 1..Len(y) PROVE s[Len(x) + 1 + i] = y[i]
    <2>1. Len(x \o <<c>>) = Len(x) + 1 OBVIOUS
    <2>2. QED BY <1>1, <2>1
<1>6. QED BY <1>2, <1>3, <1>4, <1>5 DEF Glued

\* Concatenation puts parentheses round a text.
LEMMA ConcatBracketed ==
    ASSUME NEW x \in Seq(Token)
    PROVE  LET s == <<Sym("(")>> \o x \o <<Sym(")")>> IN s \in Seq(Token) /\ Bracketed(s, x)
<1> DEFINE o == Sym("(")
           c == Sym(")")
           s == <<o>> \o x \o <<c>>
<1>1. o \in Token /\ o.t = "(" /\ c \in Token /\ c.t = ")" BY TokenShape DEF Kind
<1> HIDE DEF o, c
<1>2. Len(x) \in Nat OBVIOUS
<1>3. s \in Seq(Token) /\ Len(s) = Len(x) + 2 BY <1>1
<1>4. s[1] = o /\ s[Len(x) + 2] = c BY <1>1
<1>5. ASSUME NEW i \in 1..Len(x) PROVE s[1 + i] = x[i] BY <1>1
<1>6. Bracketed(s, x) BY <1>1, <1>3, <1>4, <1>5 DEF Bracketed
<1>7. QED BY <1>3, <1>6 DEF o, c

-----------------------------------------------------------------------------
(***************************************************************************)
(* What the parser accepts at a place is a sentence of that level, and the *)
(* node it makes of it means the same.                                     *)
(***************************************************************************)
Faithful(e, s, i, rows) ==
    LET x == Cut(s, i, e.pos) IN
    /\ e.pos \in (i + 1)..(Len(s) + 1)
    /\ e.node \in Seq(Token)
    /\ Closed(x) /\ Closed(e.node) /\ Filled(e.node)
    /\ ~e.many => Plain(e.node, "or") /\ Plain(e.node, "and")
    /\ Means(e.node, rows) = Means(x, rows) /\ Means(x, rows) # {}
    /\ Comparisons(e.node) = Comparisons(x)
    /\ \A n \in Comparisons(x) : Taken(Leaves[n])
Sound(e, s, i, rows, level) ==
    e.ok => /\ Faithful(e, s, i, rows)
            /\ level # "or" => Plain(Cut(s, i, e.pos), "or") /\ Plain(e.node, "or")
            /\ level = "atom" => Plain(Cut(s, i, e.pos), "and") /\ ~e.many

Whole(e) == e.many \in BOOLEAN /\ (e.many => e.ok)

\* One node made of parts is as sound as they are.
LEMMA NodeSound ==
    ASSUME NEW s \in Seq(Token), NEW i \in 1..(Len(s) + 1), NEW e, NEW rows, RowsFit(rows), NEW level, Sound(e, s, i, rows, level),
           Whole(e)
    PROVE  Sound(FilterNode(e), s, i, rows, level) /\ FilterNode(e).many = FALSE
<1>1. CASE ~e.many BY <1>1 DEF FilterNode, Whole
<1>2. CASE e.many
    <2>0. e.ok BY <1>2 DEF Whole
    <2> DEFINE b == <<Sym("(")>> \o e.node \o <<Sym(")")>>
               g == FilterNode(e)
    <2>1. g = Good(b, FALSE, e.pos) BY <1>2 DEF FilterNode
    <2>2. g.pos = e.pos /\ g.node = b /\ g.many = FALSE /\ g.ok = TRUE BY <2>1 DEF Good
    <2>3. Sound(g, s, i, rows, level)
        <3>1. Faithful(e, s, i, rows) BY <2>0 DEF Sound
        <3>2. e.node \in Seq(Token) /\ Closed(e.node) /\ Filled(e.node) BY <3>1 DEF Faithful
        <3>3. b \in Seq(Token) /\ Bracketed(b, e.node) BY <3>2, ConcatBracketed
        <3> HIDE DEF b
        <3>4. Means(b, rows) = Means(e.node, rows) /\ Closed(b) /\ Filled(b) /\ Plain(b, "or") /\ Plain(b, "and")
            BY <3>2, <3>3, MeansBracket
        <3>5. IsSeq(b) /\ IsSeq(e.node) BY <3>2, <3>3, SeqIsSeq
        <3>6. Comparisons(b) = Comparisons(e.node) BY <3>3, <3>5, BracketedComparisons
        <3> HIDE DEF g
        <3>7. Faithful(g, s, i, rows) BY <2>2, <3>1, <3>3, <3>4, <3>6 DEF Faithful
        <3>8. QED BY <2>0, <2>2, <3>4, <3>7 DEF Sound
    <2>4. QED BY <2>2, <2>3
<1>3. QED BY <1>1, <1>2

\* parse_leaf accepts a comparison, and returns it.
LEMMA LeafSound ==
    ASSUME NEW s \in Seq(Token), NEW i \in 1..(Len(s) + 1), NEW rows, RowsFit(rows)
    PROVE  Sound(parse_leaf(s, i), s, i, rows, "atom") /\ parse_leaf(s, i).many = FALSE
<1> DEFINE e == parse_leaf(s, i)
<1>0. Len(s) \in Nat OBVIOUS
<1>1. CASE ~(Peek(s, i) = "leaf" /\ Taken(Leaves[s[i].n])) BY <1>1 DEF parse_leaf, Bad, Sound
<1>2. CASE Peek(s, i) = "leaf" /\ Taken(Leaves[s[i].n])
    <2>1. e = Good(<<s[i]>>, FALSE, i + 1) BY <1>2 DEF parse_leaf
    <2>2. e.ok = TRUE /\ e.many = FALSE /\ e.node = <<s[i]>> /\ e.pos = i + 1 BY <2>1 DEF Good
    <2>3. i <= Len(s) /\ s[i].t = "leaf" BY <1>2, PeekIn
    <2>4. i \in 1..Len(s) /\ i + 1 \in i..(Len(s) + 1) /\ i + 1 \in (i + 1)..(Len(s) + 1) /\ (i + 1) - i = 1 BY <1>0, <2>3
    <2> DEFINE x == Cut(s, i, i + 1)
    <2>5. x \in Seq(Token) /\ Len(x) = 1 /\ x[1] = s[i]
        <3>1. x \in Seq(Token) /\ Len(x) = (i + 1) - i /\ \A k \in 1..((i + 1) - i) : x[k] = s[i + k - 1]
            BY <2>4, CutIs
        <3>2. 1 \in 1..((i + 1) - i) /\ i + 1 - 1 = i BY <2>4
        <3>3. QED BY <2>4, <3>1, <3>2
    <2>6. <<s[i]>> = x
        <3>1. s[i] \in Token BY <2>4
        <3>2. <<s[i]>> \in Seq(Token) /\ Len(<<s[i]>>) = 1 /\ <<s[i]>>[1] = s[i] BY <3>1
        <3> DEFINE y == <<s[i]>>
        <3> HIDE DEF x, y
        <3>3. \A k \in 1..Len(x) : y[k] = x[k] BY <2>5, <3>2 DEF y
        <3>4. y = x BY <2>5, <3>2, <3>3, SeqEqual DEF y
        <3>5. QED BY <3>4 DEF y
    <2> HIDE DEF x
    <2>7. Means(x, rows) = {rows[x[1].n]} /\ Closed(x) /\ Filled(x) /\ Plain(x, "or") /\ Plain(x, "and")
        BY <2>3, <2>5, MeansLeaf
    <2>8. \A n \in Comparisons(x) : Taken(Leaves[n]) BY <1>2, <2>5 DEF Comparisons
    <2> HIDE DEF e
    <2>9. e.node = x /\ Cut(s, i, e.pos) = x BY <2>2, <2>6 DEF x
    <2>10. Faithful(e, s, i, rows) BY <2>2, <2>4, <2>5, <2>7, <2>8, <2>9 DEF Faithful
    <2>11. Sound(e, s, i, rows, "atom") BY <2>2, <2>7, <2>9, <2>10 DEF Sound
    <2>12. QED BY <2>2, <2>11 DEF e
<1>3. QED BY <1>1, <1>2

\* parse_atom accepts a comparison or an expression in parentheses.
LEMMA AtomSound ==
    ASSUME NEW s \in Seq(Token), NEW i \in 1..(Len(s) + 1), NEW rows, RowsFit(rows), NEW inner,
           i <= Len(s) => Sound(inner, s, i + 1, rows, "or") /\ inner.many = FALSE
    PROVE  Sound(parse_atom(s, i, inner), s, i, rows, "atom") /\ parse_atom(s, i, inner).many = FALSE
<1>0. Len(s) \in Nat OBVIOUS
<1>1. CASE Peek(s, i) # "(" BY <1>1, LeafSound DEF parse_atom
<1>2. CASE Peek(s, i) = "("
    <2>1. i <= Len(s) /\ s[i].t = "(" BY <1>2, PeekIn
    <2>2. CASE ~inner.ok BY <1>2, <2>1, <2>2 DEF parse_atom, Sound
    <2>3. CASE inner.ok /\ Peek(s, inner.pos) # ")" BY <1>2, <2>3 DEF parse_atom, Sound, Bad
    <2>4. CASE inner.ok /\ Peek(s, inner.pos) = ")"
        <3> DEFINE e == parse_atom(s, i, inner)
                   j == inner.pos
                   x == Cut(s, i, j + 1)
                   y == Cut(s, i + 1, j)
        <3>1. e = Good(inner.node, FALSE, j + 1) BY <1>2, <2>4 DEF parse_atom
        <3>2. e.ok = TRUE /\ e.many = FALSE /\ e.node = inner.node /\ e.pos = j + 1 BY <3>1 DEF Good
        <3>3. j <= Len(s) /\ s[j].t = ")" BY <2>4, PeekIn
        <3>4. Faithful(inner, s, i + 1, rows) /\ ~inner.many BY <2>1, <2>4 DEF Sound
        <3>5. j \in ((i + 1) + 1)..(Len(s) + 1) BY <3>4 DEF Faithful
        <3> HIDE DEF j
        <3>6. i \in 1..Len(s) /\ j \in (i + 1)..Len(s) /\ i + 1 \in 1..(Len(s) + 1) /\ j \in (i + 1)..(Len(s) + 1)
              /\ j + 1 \in i..(Len(s) + 1) /\ j + 1 \in (i + 1)..(Len(s) + 1) /\ j - (i + 1) > 0
            BY <1>0, <2>1, <3>3, <3>5
        <3>7. Bracketed(x, y) BY <2>1, <3>3, <3>6, CutBracketed
        <3>8. x \in Seq(Token) /\ IsSeq(x) BY <3>6, CutIs
        <3>9. y \in Seq(Token) /\ IsSeq(y) /\ Filled(y) BY <3>6, CutIs DEF Filled
        <3> HIDE DEF x, y
        <3>10. /\ inner.node \in Seq(Token) /\ Closed(y) /\ Closed(inner.node) /\ Filled(inner.node)
               /\ Plain(inner.node, "or") /\ Plain(inner.node, "and")
               /\ Means(inner.node, rows) = Means(y, rows) /\ Means(y, rows) # {}
               /\ Comparisons(inner.node) = Comparisons(y)
               /\ \A n \in Comparisons(y) : Taken(Leaves[n])
            BY <3>4 DEF Faithful, y, j
        <3>11. Means(x, rows) = Means(y, rows) /\ Closed(x) /\ Plain(x, "or") /\ Plain(x, "and")
            BY <3>7, <3>8, <3>9, <3>10, MeansBracket
        <3>12. Comparisons(x) = Comparisons(y) BY <3>7, <3>8, <3>9, BracketedComparisons
        <3> HIDE DEF e
        <3>13. Cut(s, i, e.pos) = x BY <3>2 DEF x
        <3>14. Faithful(e, s, i, rows) BY <3>2, <3>6, <3>10, <3>11, <3>12, <3>13 DEF Faithful
        <3>15. Sound(e, s, i, rows, "atom") BY <3>2, <3>10, <3>11, <3>13, <3>14 DEF Sound
        <3>16. QED BY <3>2, <3>15 DEF e
    <2>5. QED BY <2>2, <2>3, <2>4
<1>3. QED BY <1>1, <1>2

Below(k) == IF k = "and" THEN "atom" ELSE "and"

\* Parts accepts parts with separators between them.
LEMMA PartsSound ==
    ASSUME NEW s \in Seq(Token), NEW i \in 1..(Len(s) + 1), NEW rows, RowsFit(rows), NEW k \in Separator, NEW first, NEW rest,
           Sound(first, s, i, rows, Below(k)), first.many = FALSE,
           first.ok /\ first.pos <= Len(s) => Sound(rest, s, first.pos + 1, rows, k) /\ Whole(rest)
    PROVE  Sound(Parts(s, k, first, rest), s, i, rows, k) /\ Whole(Parts(s, k, first, rest))
<1> DEFINE e == Parts(s, k, first, rest)
<1>0. Len(s) \in Nat OBVIOUS
<1>1. CASE ~first.ok \/ Peek(s, first.pos) # k
    <2>1. e = first BY <1>1 DEF Parts
    <2>2. QED BY <2>1 DEF Sound, Whole, Below, Separator
<1>2. CASE first.ok /\ Peek(s, first.pos) = k
    <2>1. first.pos <= Len(s) /\ s[first.pos].t = k BY <1>2, PeekIn DEF Separator
    <2>2. CASE ~rest.ok BY <1>2, <2>1, <2>2 DEF Parts, Sound
    <2>3. CASE rest.ok
        <3> DEFINE c == first.pos
                   j == rest.pos
                   x == Cut(s, i, c)
                   y == Cut(s, c + 1, j)
                   z == Cut(s, i, j)
                   u == first.node
                   v == rest.node
                   w == u \o <<Sym(k)>> \o v
        <3>1. e = Good(w, TRUE, j) BY <1>2, <2>3 DEF Parts
        <3>2. e.ok = TRUE /\ e.many = TRUE /\ e.node = w /\ e.pos = j
            <4> HIDE DEF e, w, j
            <4> QED BY <3>1 DEF Good
        <3>3. Faithful(first, s, i, rows) /\ Faithful(rest, s, c + 1, rows) BY <1>2, <2>1, <2>3 DEF Sound
        <3>4. c \in (i + 1)..(Len(s) + 1) /\ j \in ((c + 1) + 1)..(Len(s) + 1) BY <3>3 DEF Faithful
        <3>5. /\ u \in Seq(Token) /\ v \in Seq(Token)
              /\ Closed(x) /\ Closed(u) /\ Filled(u) /\ Closed(y) /\ Closed(v) /\ Filled(v)
              /\ Plain(u, "or") /\ Plain(u, "and")
              /\ Means(u, rows) = Means(x, rows) /\ Means(x, rows) # {}
              /\ Means(v, rows) = Means(y, rows) /\ Means(y, rows) # {}
              /\ Comparisons(u) = Comparisons(x) /\ Comparisons(v) = Comparisons(y)
              /\ \A n \in Comparisons(x) : Taken(Leaves[n])
              /\ \A n \in Comparisons(y) : Taken(Leaves[n])
            BY <3>3 DEF Faithful
        <3>6. /\ Plain(x, "or")
              /\ k = "and" => Plain(x, "and") /\ Plain(y, "or") /\ Plain(v, "or")
            BY <1>2, <2>1, <2>3 DEF Sound, Below, Separator
        <3>7. Sym(k) \in Token /\ Sym(k).t = k BY TokenShape DEF Separator, Kind
        <3>8. w \in Seq(Token) /\ Glued(w, u, Sym(k), v) BY <3>5, <3>7, ConcatGlued
        <3>9. s[c].t = k BY <2>1
        <3> HIDE DEF c, j, u, v, w
        <3>10. i \in 1..Len(s) /\ c \in i..Len(s) /\ j \in (c + 1)..(Len(s) + 1) /\ i \in 1..(Len(s) + 1) /\ c \in i..(Len(s) + 1)
               /\ j \in i..(Len(s) + 1) /\ c + 1 \in 1..(Len(s) + 1) /\ j \in (i + 1)..(Len(s) + 1)
            BY <1>0, <2>1, <3>4 DEF c
        <3>11. Glued(z, x, s[c], y) BY <3>10, CutGlued
        <3>12. x \in Seq(Token) /\ IsSeq(x) /\ y \in Seq(Token) /\ IsSeq(y) /\ z \in Seq(Token) /\ IsSeq(z) BY <3>10, CutIs
        <3> HIDE DEF x, y, z
        <3>13. IsSeq(u) /\ IsSeq(v) /\ IsSeq(w) BY <3>5, <3>8, SeqIsSeq
        <3>14. Closed(z) /\ Closed(w) BY <3>5, <3>7, <3>8, <3>9, <3>11, <3>12, <3>13, GluedClosed
        <3>15. Comparisons(z) = Comparisons(x) \cup Comparisons(y) /\ Comparisons(w) = Comparisons(u) \cup Comparisons(v)
            BY <3>7, <3>8, <3>9, <3>11, <3>12, <3>13, GluedComparisons DEF Separator
        <3>16. Filled(w)
            <4>1. Len(w) = Len(u) + 1 + Len(v) /\ Len(u) \in Nat /\ Len(v) \in Nat BY <3>8, <3>13 DEF Glued, IsSeq
            <4>2. QED BY <4>1 DEF Filled
        <3>17. Means(w, rows) = Means(z, rows) /\ Means(z, rows) # {} /\ (k = "and" => Plain(z, "or") /\ Plain(w, "or"))
            <4>1. CASE k = "or"
                <5>1. Means(z, rows) = {f \cup g : f \in Means(x, rows), g \in Means(y, rows)}
                    BY <3>5, <3>6, <3>9, <3>11, <3>12, <4>1, MeansOr
                <5>2. Means(w, rows) = {f \cup g : f \in Means(u, rows), g \in Means(v, rows)}
                    BY <3>5, <3>7, <3>8, <4>1, MeansOr
                <5>3. Means(w, rows) = Means(z, rows)
                    <6>1. Means(u, rows) = Means(x, rows) /\ Means(v, rows) = Means(y, rows) BY <3>5
                    <6>2. QED BY <5>1, <5>2, <6>1
                <5>4. PICK f \in Means(x, rows), g \in Means(y, rows) : TRUE BY <3>5
                <5>5. f \cup g \in Means(z, rows) BY <5>1, <5>4
                <5>6. QED BY <4>1, <5>1, <5>3, <5>5
            <4>2. CASE k = "and"
                <5>1. Means(z, rows) = {f \cap g : f \in Means(x, rows), g \in Means(y, rows)} /\ Plain(z, "or")
                    BY <3>5, <3>6, <3>9, <3>11, <3>12, <4>2, MeansAnd
                <5>2. Means(w, rows) = {f \cap g : f \in Means(u, rows), g \in Means(v, rows)} /\ Plain(w, "or")
                    BY <3>5, <3>6, <3>7, <3>8, <4>2, MeansAnd
                <5>3. Means(w, rows) = Means(z, rows)
                    <6>1. Means(u, rows) = Means(x, rows) /\ Means(v, rows) = Means(y, rows) BY <3>5
                    <6>2. QED BY <5>1, <5>2, <6>1
                <5>4. PICK f \in Means(x, rows), g \in Means(y, rows) : TRUE BY <3>5
                <5>5. f \cap g \in Means(z, rows) BY <5>1, <5>4
                <5>6. QED BY <4>2, <5>1, <5>2, <5>3, <5>5
            <4>3. QED BY <4>1, <4>2 DEF Separator
        <3> HIDE DEF e
        <3>18. Cut(s, i, e.pos) = z BY <3>2 DEF z
        <3>19. Faithful(e, s, i, rows) BY <3>2, <3>5, <3>8, <3>10, <3>14, <3>15, <3>16, <3>17, <3>18 DEF Faithful
        <3>20. Sound(e, s, i, rows, k) BY <3>2, <3>17, <3>18, <3>19 DEF Sound, Separator
        <3>21. QED BY <3>2, <3>20 DEF e, Whole
    <2>4. QED BY <2>2, <2>3
<1>3. QED BY <1>1, <1>2

Sounds(p, s, m, n, rows) ==
    \A j \in m..(n + 1) : /\ Sound(p[j].conj, s, j, rows, "and") /\ Whole(p[j].conj)
                          /\ Sound(p[j].disj, s, j, rows, "or") /\ Whole(p[j].disj)

\* parse_and and parse_or are sound where what begins behind is.
LEMMA ParseSound ==
    ASSUME NEW s \in Seq(Token), NEW n \in Nat, n = Len(s), NEW i \in 1..(n + 1), NEW rows, RowsFit(rows), NEW p,
           Sounds(p, s, i + 1, n, rows)
    PROVE  /\ Sound(parse_and(s, p, i), s, i, rows, "and") /\ Whole(parse_and(s, p, i))
           /\ Sound(parse_or(s, p, i), s, i, rows, "or") /\ Whole(parse_or(s, p, i))
<1>1. ASSUME NEW e, NEW level, Sound(e, s, i, rows, level), e.ok, e.pos <= n
      PROVE  /\ Sound(p[e.pos + 1].conj, s, e.pos + 1, rows, "and") /\ Whole(p[e.pos + 1].conj)
             /\ Sound(p[e.pos + 1].disj, s, e.pos + 1, rows, "or") /\ Whole(p[e.pos + 1].disj)
    <2> DEFINE c == e.pos
    <2>1. c \in (i + 1)..(n + 1) BY <1>1 DEF Sound, Faithful
    <2> HIDE DEF c
    <2>2. c + 1 \in (i + 1)..(n + 1) BY <1>1, <2>1 DEF c
    <2>3. QED BY <2>2 DEF Sounds, c
<1> DEFINE inner == FilterNode(p[i + 1].disj)
           atom == parse_atom(s, i, inner)
           first == FilterNode(parse_and(s, p, i))
<1>2. i <= n => Sound(inner, s, i + 1, rows, "or") /\ inner.many = FALSE
    <2>1. SUFFICES ASSUME i <= n PROVE Sound(inner, s, i + 1, rows, "or") /\ inner.many = FALSE OBVIOUS
    <2>2. i + 1 \in (i + 1)..(n + 1) /\ i + 1 \in 1..(Len(s) + 1) BY <2>1
    <2>3. Sound(p[i + 1].disj, s, i + 1, rows, "or") /\ Whole(p[i + 1].disj) BY <2>2 DEF Sounds
    <2>4. QED BY <2>2, <2>3, NodeSound
<1>3. Sound(atom, s, i, rows, "atom") /\ atom.many = FALSE
    <2> HIDE DEF inner
    <2>1. QED BY <1>2, AtomSound
<1>4. Sound(parse_and(s, p, i), s, i, rows, "and") /\ Whole(parse_and(s, p, i))
    <2>1. parse_and(s, p, i) = Parts(s, "and", atom, p[atom.pos + 1].conj) BY DEF parse_and
    <2> HIDE DEF atom
    <2>2. atom.ok /\ atom.pos <= Len(s) => Sound(p[atom.pos + 1].conj, s, atom.pos + 1, rows, "and") /\ Whole(p[atom.pos + 1].conj)
        BY <1>1, <1>3
    <2>3. Below("and") = "atom" /\ "and" \in Separator /\ i \in 1..(Len(s) + 1) BY DEF Below, Separator
    <2>4. QED BY <1>3, <2>1, <2>2, <2>3, PartsSound
<1>5. Sound(first, s, i, rows, "and") /\ first.many = FALSE
    BY <1>4, NodeSound
<1>6. Sound(parse_or(s, p, i), s, i, rows, "or") /\ Whole(parse_or(s, p, i))
    <2>1. parse_or(s, p, i) = Parts(s, "or", first, p[first.pos + 1].disj) BY DEF parse_or
    <2> HIDE DEF first
    <2>2. first.ok /\ first.pos <= Len(s) => Sound(p[first.pos + 1].disj, s, first.pos + 1, rows, "or") /\ Whole(p[first.pos + 1].disj)
        BY <1>1, <1>5
    <2>3. Below("or") = "and" /\ "or" \in Separator /\ i \in 1..(Len(s) + 1) BY DEF Below, Separator
    <2>4. QED BY <1>5, <2>1, <2>2, <2>3, PartsSound
<1>7. QED BY <1>4, <1>6

\* What the parser accepts is sound at every token.
LEMMA ParserSounds ==
    ASSUME NEW s \in Seq(Token), NEW n \in Nat, n = Len(s), NEW rows, RowsFit(rows), NEW p, Parses(p, s, 1, n)
    PROVE  Sounds(p, s, 1, n, rows)
<1> DEFINE S == {d \in 0..n : Sounds(p, s, n + 1 - d, n, rows)}
<1>1. ASSUME NEW i \in 1..(n + 1), Sounds(p, s, i + 1, n, rows) PROVE Sounds(p, s, i, n, rows)
    <2>1. p[i] = [conj |-> parse_and(s, p, i), disj |-> parse_or(s, p, i)] BY DEF Parses
    <2>2. p[i].conj = parse_and(s, p, i) /\ p[i].disj = parse_or(s, p, i) BY <2>1
    <2>3. /\ Sound(parse_and(s, p, i), s, i, rows, "and") /\ Whole(parse_and(s, p, i))
          /\ Sound(parse_or(s, p, i), s, i, rows, "or") /\ Whole(parse_or(s, p, i))
        BY <1>1, ParseSound
    <2>4. \A j \in i..(n + 1) : j = i \/ j \in (i + 1)..(n + 1) OBVIOUS
    <2>5. QED BY <1>1, <2>2, <2>3, <2>4 DEF Sounds
<1>2. 0 \in S
    <2>1. n + 1 \in 1..(n + 1) /\ ((n + 1) + 1)..(n + 1) = {} /\ n + 1 - 0 = n + 1 OBVIOUS
    <2>2. Sounds(p, s, (n + 1) + 1, n, rows) BY <2>1 DEF Sounds
    <2>3. Sounds(p, s, n + 1, n, rows) BY <1>1, <2>1, <2>2
    <2>4. QED BY <2>1, <2>3
<1>3. ASSUME NEW d \in 1..n, d - 1 \in S PROVE d \in S
    <2> DEFINE m == n + 1 - d
    <2>1. m \in 1..(n + 1) /\ n + 1 - (d - 1) = m + 1 /\ d \in 0..n OBVIOUS
    <2> HIDE DEF m
    <2>2. Sounds(p, s, m, n, rows) BY <1>1, <1>3, <2>1
    <2>3. QED BY <2>1, <2>2 DEF m
<1> HIDE DEF S
<1>4. n \in S
    <2>1. 0..n \subseteq S BY <1>2, <1>3, Induct
    <2>2. QED BY <2>1
<1>5. n + 1 - n = 1 OBVIOUS
<1>6. QED BY <1>4, <1>5 DEF S

-----------------------------------------------------------------------------
(***************************************************************************)
(* Every sentence whose comparisons are taken is accepted.  How a sentence *)
(* among the tokens of another is cut:                                     *)
(***************************************************************************)
\* A cut with rows, token by token.
LEMMA ValuedElement ==
    ASSUME NEW s \in Seq(Token), NEW i \in 1..(Len(s) + 1), NEW j \in i..(Len(s) + 1), NEW rows, RowsFit(rows)
    PROVE  LET v == Valued(Cut(s, i, j), rows) IN
           v \in Seq(Item) /\ Len(v) = j - i /\ \A k \in 1..(j - i) : v[k] = Val(s[i + k - 1], rows)
<1> DEFINE x == Cut(s, i, j)
<1>1. x \in Seq(Token) /\ IsSeq(x) /\ Len(x) = j - i /\ \A k \in 1..(j - i) : x[k] = s[i + k - 1] BY CutIs
<1> HIDE DEF x
<1>2. Valued(x, rows) \in Seq(Item) /\ Len(Valued(x, rows)) = j - i BY <1>1, ValuedIs
<1>3. \A k \in 1..(j - i) : Valued(x, rows)[k] = Val(x[k], rows) BY <1>1, ValuedAt
<1>4. QED BY <1>1, <1>2, <1>3 DEF x

\* A cut of a text with rows is cut like the text.
LEMMA ValuedCut ==
    ASSUME NEW s \in Seq(Token), NEW i \in 1..(Len(s) + 1), NEW j \in i..(Len(s) + 1), NEW rows, RowsFit(rows),
           NEW c \in i..(j - 1)
    PROVE  LET v == Valued(Cut(s, i, j), rows) IN
           /\ Before(v, (c - i) + 1) = Valued(Cut(s, i, c), rows)
           /\ After(v, (c - i) + 1) = Valued(Cut(s, c + 1, j), rows)
<1> DEFINE v == Valued(Cut(s, i, j), rows)
           x == Valued(Cut(s, i, c), rows)
           y == Valued(Cut(s, c + 1, j), rows)
           k == (c - i) + 1
<1>0. Len(s) \in Nat OBVIOUS
<1>1. v \in Seq(Item) /\ Len(v) = j - i /\ \A m \in 1..(j - i) : v[m] = Val(s[i + m - 1], rows) BY ValuedElement
<1>2. x \in Seq(Item) /\ Len(x) = c - i /\ \A m \in 1..(c - i) : x[m] = Val(s[i + m - 1], rows)
    <2>1. c \in i..(Len(s) + 1) BY <1>0
    <2>2. QED BY <2>1, ValuedElement
<1>3. y \in Seq(Item) /\ Len(y) = j - (c + 1) /\ \A m \in 1..(j - (c + 1)) : y[m] = Val(s[(c + 1) + m - 1], rows)
    <2> DEFINE b == c + 1
    <2>1. b \in 1..(Len(s) + 1) /\ j \in b..(Len(s) + 1) BY <1>0
    <2> HIDE DEF b
    <2>2. LET z == Valued(Cut(s, b, j), rows) IN
          z \in Seq(Item) /\ Len(z) = j - b /\ \A m \in 1..(j - b) : z[m] = Val(s[b + m - 1], rows)
        BY <2>1, ValuedElement
    <2>3. QED BY <2>2 DEF b
<1>4. k \in 1..Len(v) /\ k - 1 = c - i /\ (j - i) - k = j - (c + 1) BY <1>0, <1>1
<1> HIDE DEF v, x, y, k
<1>5. /\ Before(v, k) \in Seq(Item) /\ Len(Before(v, k)) = k - 1
      /\ \A m \in 1..(k - 1) : Before(v, k)[m] = v[m]
      /\ After(v, k) \in Seq(Item) /\ Len(After(v, k)) = Len(v) - k
      /\ \A m \in 1..(Len(v) - k) : After(v, k)[m] = v[k + m]
    BY <1>1, <1>4, Cuts
<1>6. Before(v, k) = x
    <2>1. ASSUME NEW m \in 1..Len(x) PROVE Before(v, k)[m] = x[m]
        <3>1. m \in 1..(k - 1) /\ m \in 1..(j - i) /\ m \in 1..(c - i) BY <1>0, <1>2, <1>4
        <3>2. QED BY <1>1, <1>2, <1>5, <3>1
    <2>2. Len(Before(v, k)) = Len(x) BY <1>2, <1>4, <1>5
    <2>3. QED BY <1>2, <1>5, <2>1, <2>2, SeqEqual
<1>7. After(v, k) = y
    <2>1. ASSUME NEW m \in 1..Len(y) PROVE After(v, k)[m] = y[m]
        <3>1. m \in 1..(Len(v) - k) /\ k + m \in 1..(j - i) /\ m \in 1..(j - (c + 1)) /\ i + (k + m) - 1 = (c + 1) + m - 1
            BY <1>0, <1>1, <1>3, <1>4 DEF k
        <3>2. After(v, k)[m] = v[k + m] BY <1>5, <3>1
        <3>3. v[k + m] = Val(s[i + (k + m) - 1], rows) BY <1>1, <3>1
        <3>4. y[m] = Val(s[(c + 1) + m - 1], rows) BY <1>3, <3>1
        <3>5. QED BY <3>1, <3>2, <3>3, <3>4
    <2>2. Len(After(v, k)) = Len(y) BY <1>1, <1>3, <1>4, <1>5
    <2>3. QED BY <1>3, <1>5, <2>1, <2>2, SeqEqual
<1>8. QED BY <1>6, <1>7 DEF v, x, y, k

\* The inside of a cut with rows.
LEMMA ValuedInside ==
    ASSUME NEW s \in Seq(Token), NEW i \in 1..(Len(s) + 1), NEW j \in i..(Len(s) + 1), NEW rows, RowsFit(rows), j - i > 2
    PROVE  Inside(Valued(Cut(s, i, j), rows)) = Valued(Cut(s, i + 1, j - 1), rows)
<1> DEFINE v == Valued(Cut(s, i, j), rows)
           x == Valued(Cut(s, i + 1, j - 1), rows)
<1>0. Len(s) \in Nat OBVIOUS
<1>1. v \in Seq(Item) /\ Len(v) = j - i /\ \A m \in 1..(j - i) : v[m] = Val(s[i + m - 1], rows) BY ValuedElement
<1>2. x \in Seq(Item) /\ Len(x) = (j - 1) - (i + 1) /\ \A m \in 1..((j - 1) - (i + 1)) : x[m] = Val(s[(i + 1) + m - 1], rows)
    <2> DEFINE b == i + 1
               d == j - 1
    <2>1. b \in 1..(Len(s) + 1) /\ d \in b..(Len(s) + 1) BY <1>0
    <2> HIDE DEF b, d
    <2>2. LET z == Valued(Cut(s, b, d), rows) IN
          z \in Seq(Item) /\ Len(z) = d - b /\ \A m \in 1..(d - b) : z[m] = Val(s[b + m - 1], rows)
        BY <2>1, ValuedElement
    <2>3. QED BY <2>2 DEF b, d
<1> HIDE DEF v, x
<1>3. Inside(v) \in Seq(Item) /\ Len(Inside(v)) = Len(v) - 2 /\ \A m \in 1..(Len(v) - 2) : Inside(v)[m] = v[1 + m]
    BY <1>1, InsideIs
<1>4. ASSUME NEW m \in 1..Len(x) PROVE Inside(v)[m] = x[m]
    <2>1. m \in 1..(Len(v) - 2) /\ 1 + m \in 1..(j - i) /\ m \in 1..((j - 1) - (i + 1)) /\ i + (1 + m) - 1 = (i + 1) + m - 1
        BY <1>0, <1>1, <1>2
    <2>2. Inside(v)[m] = v[1 + m] BY <1>3, <2>1
    <2>3. v[1 + m] = Val(s[i + (1 + m) - 1], rows) BY <1>1, <2>1
    <2>4. x[m] = Val(s[(i + 1) + m - 1], rows) BY <1>2, <2>1
    <2>5. QED BY <2>1, <2>2, <2>3, <2>4
<1>5. Len(Inside(v)) = Len(x) BY <1>0, <1>1, <1>2, <1>3
<1>6. Inside(v) = x BY <1>2, <1>3, <1>4, <1>5, SeqEqual
<1>7. QED BY <1>6 DEF v, x

\* What means something is closed and not empty.
LEMMA MeaningClosed ==
    ASSUME NEW s \in Seq(Token), NEW rows, RowsFit(rows), Means(s, rows) # {}
    PROVE  Closed(s) /\ Filled(s)
<1>1. Valued(s, rows) \in Seq(Item) BY ValuedIs
<1>2. Closed(Valued(s, rows)) /\ Filled(Valued(s, rows)) BY <1>1, SentenceClosed DEF Means
<1>3. QED BY <1>2, ValuedShape

\* A cut that means something splits at its first outermost separator into parts that do.
LEMMA SplitCut ==
    ASSUME NEW s \in Seq(Token), NEW i \in 1..(Len(s) + 1), NEW j \in i..(Len(s) + 1), NEW rows, RowsFit(rows),
           NEW t \in Separator, ~Plain(Cut(s, i, j), t), t = "and" => Plain(Cut(s, i, j), "or"), Means(Cut(s, i, j), rows) # {}
    PROVE  \E c \in i..(j - 1) :
               /\ s[c].t = t
               /\ Means(Cut(s, i, c), rows) # {} /\ Means(Cut(s, c + 1, j), rows) # {}
               /\ Plain(Cut(s, i, c), t) /\ Plain(Cut(s, i, c), "or")
               /\ t = "and" => Plain(Cut(s, c + 1, j), "or")
<1> DEFINE x == Cut(s, i, j)
           v == Valued(x, rows)
           k == First(Outermost(v, t))
           c == i + k - 1
<1>0. Len(s) \in Nat OBVIOUS
<1>1. x \in Seq(Token) /\ IsSeq(x) /\ Len(x) = j - i /\ \A m \in 1..(j - i) : x[m] = s[i + m - 1] BY CutIs
<1> HIDE DEF x
<1>2. v \in Seq(Item) /\ Len(v) = j - i /\ \A m \in 1..(j - i) : v[m].t = x[m].t
    <2>1. v \in Seq(Item) /\ Len(v) = Len(x) BY <1>1, ValuedIs
    <2>2. ASSUME NEW m \in 1..Len(x) PROVE v[m].t = x[m].t BY <1>1, ValuedIs
    <2>3. QED BY <1>1, <2>1, <2>2
<1>3. Outermost(v, t) # {} /\ (t = "and" => Outermost(v, "or") = {}) BY <1>1, ValuedShape DEF Plain, x
<1> HIDE DEF v
<1>4. k \in 1..Len(v) /\ k \in Outermost(v, t) /\ \A m \in Outermost(v, t) : k <= m BY <1>2, <1>3, OutermostIn
<1>5. Reading(Before(v, k)) # {} /\ Reading(After(v, k)) # {}
    <2>0. Reading(v) # {} BY DEF Means, v, x
    <2>1. CASE t = "or"
        <3>1. Reading(v) = {f \cup g : f \in Reading(Before(v, k)), g \in Reading(After(v, k))} BY <1>2, <1>3, <2>1, ReadingCut
        <3>2. QED BY <2>0, <3>1
    <2>2. CASE t = "and"
        <3>1. Reading(v) = {f \cap g : f \in Reading(Before(v, k)), g \in Reading(After(v, k))} BY <1>2, <1>3, <2>2, ReadingCut
        <3>2. QED BY <2>0, <3>1
    <2>3. QED BY <2>1, <2>2 DEF Separator
<1> HIDE DEF k
<1>6. c \in i..(j - 1) /\ (c - i) + 1 = k BY <1>0, <1>2, <1>4
<1> HIDE DEF c
<1>7. Before(v, k) = Valued(Cut(s, i, c), rows) /\ After(v, k) = Valued(Cut(s, c + 1, j), rows)
    BY <1>6, ValuedCut DEF v, x
<1> DEFINE y == Cut(s, i, c)
           z == Cut(s, c + 1, j)
<1>8. Means(y, rows) # {} /\ Means(z, rows) # {} BY <1>5, <1>7 DEF Means
<1>9. i \in 1..Len(s) /\ c \in i..Len(s) /\ j \in (c + 1)..(Len(s) + 1) /\ c \in i..(Len(s) + 1) /\ c + 1 \in 1..(Len(s) + 1)
    BY <1>0, <1>6
<1>10. Glued(x, y, s[c], z) BY <1>9, CutGlued DEF x
<1>11. y \in Seq(Token) /\ IsSeq(y) /\ Len(y) = c - i /\ z \in Seq(Token) /\ IsSeq(z) /\ Len(z) = j - (c + 1) BY <1>9, CutIs
<1>12. s[c].t = t
    <2>1. v[k].t = t BY <1>4 DEF Outermost
    <2>2. k \in 1..(j - i) /\ i + k - 1 = c BY <1>2, <1>4 DEF c
    <2>3. v[k].t = x[k].t /\ x[k] = s[i + k - 1] BY <1>1, <1>2, <2>2
    <2>4. QED BY <2>1, <2>2, <2>3
<1> HIDE DEF y, z
<1>13. Closed(y) BY <1>8, <1>11, MeaningClosed
<1>14. \A u \in Separator :
           /\ \A m \in 1..Len(y) : m \in Outermost(x, u) <=> m \in Outermost(y, u)
           /\ \A m \in 1..Len(z) : Len(y) + 1 + m \in Outermost(x, u) <=> m \in Outermost(z, u)
    <2>1. ASSUME NEW u \in Separator
          PROVE  /\ \A m \in 1..Len(y) : m \in Outermost(x, u) <=> m \in Outermost(y, u)
                 /\ \A m \in 1..Len(z) : Len(y) + 1 + m \in Outermost(x, u) <=> m \in Outermost(z, u)
        <3> DEFINE d == s[c]
        <3>1. IsSeq(x) /\ IsSeq(y) /\ IsSeq(z) /\ Glued(x, y, d, z) /\ d.t \in Separator /\ Closed(y)
            BY <1>1, <1>10, <1>11, <1>12, <1>13
        <3> HIDE DEF d
        <3>2. QED BY <3>1, GluedOutermost
    <2>2. QED BY <2>1
<1>15. Outermost(y, t) = {}
    <2>1. ASSUME NEW m \in Outermost(y, t) PROVE FALSE
        <3>1. m \in 1..Len(y) BY <1>11, <2>1 DEF Outermost, IsSeq
        <3>2. m \in Outermost(x, t) BY <1>14, <2>1, <3>1
        <3>3. Outermost(v, t) = Outermost(x, t)
            <4>1. IsSeq(v) /\ Len(v) = Len(x) /\ \A l \in 1..Len(v) : v[l].t = x[l].t BY <1>1, <1>2, SeqIsSeq
            <4>2. QED BY <1>1, <4>1, SameShape
        <3>4. k <= m BY <1>4, <3>2, <3>3
        <3>5. QED BY <1>6, <1>11, <3>1, <3>4
    <2>2. QED BY <2>1
<1>16. ASSUME t = "and" PROVE Outermost(y, "or") = {} /\ Outermost(z, "or") = {}
    <2>1. Outermost(x, "or") = {} BY <1>16 DEF Plain, x
    <2>2. Outermost(y, "or") \subseteq 1..Len(y) /\ Outermost(z, "or") \subseteq 1..Len(z) BY <1>11 DEF Outermost, IsSeq
    <2>3. "or" \in Separator BY DEF Separator
    <2>4. QED BY <1>14, <2>1, <2>2, <2>3
<1>17. Plain(y, t) /\ Plain(y, "or") /\ (t = "and" => Plain(z, "or")) BY <1>15, <1>16 DEF Plain, Separator
<1>18. QED BY <1>6, <1>8, <1>12, <1>17 DEF y, z

\* The tokens from i to before j are a sentence the parser takes; e stands at j behind them.
Sentence(s, i, j, rows) == Means(Cut(s, i, j), rows) # {} /\ \A n \in Comparisons(Cut(s, i, j)) : Taken(Leaves[n])
Ends(e, j) == e.ok /\ e.pos = j

\* A sentence splits into sentences at its first outermost separator.
LEMMA SentenceSplit ==
    ASSUME NEW s \in Seq(Token), NEW i \in 1..(Len(s) + 1), NEW j \in i..(Len(s) + 1), NEW rows, RowsFit(rows),
           NEW t \in Separator, ~Plain(Cut(s, i, j), t), t = "and" => Plain(Cut(s, i, j), "or"), Sentence(s, i, j, rows)
    PROVE  \E c \in i..(j - 1) :
               /\ Peek(s, c) = t
               /\ Sentence(s, i, c, rows) /\ Sentence(s, c + 1, j, rows)
               /\ Plain(Cut(s, i, c), t) /\ Plain(Cut(s, i, c), "or")
               /\ t = "and" => Plain(Cut(s, c + 1, j), "or")
<1>0. Len(s) \in Nat OBVIOUS
<1>1. Means(Cut(s, i, j), rows) # {} BY DEF Sentence
<1>2. PICK c \in i..(j - 1) :
               /\ s[c].t = t
               /\ Means(Cut(s, i, c), rows) # {} /\ Means(Cut(s, c + 1, j), rows) # {}
               /\ Plain(Cut(s, i, c), t) /\ Plain(Cut(s, i, c), "or")
               /\ t = "and" => Plain(Cut(s, c + 1, j), "or")
    BY <1>1, SplitCut
<1>3. i \in 1..Len(s) /\ c \in i..Len(s) /\ j \in (c + 1)..(Len(s) + 1) /\ c \in i..(Len(s) + 1) /\ c + 1 \in 1..(Len(s) + 1)
    BY <1>0
<1> DEFINE x == Cut(s, i, j)
           y == Cut(s, i, c)
           z == Cut(s, c + 1, j)
           d == s[c]
<1>4. Glued(x, y, d, z) BY <1>3, CutGlued
<1>5. IsSeq(x) /\ IsSeq(y) /\ IsSeq(z) BY <1>3, CutIs
<1>6. Peek(s, c) = t BY <1>2, <1>3 DEF Peek
<1>7. d.t # "leaf" BY <1>2 DEF Separator
<1> HIDE DEF x, y, z, d
<1>8. Comparisons(x) = Comparisons(y) \cup Comparisons(z) BY <1>4, <1>5, <1>7, GluedComparisons
<1>9. \A n \in Comparisons(x) : Taken(Leaves[n]) BY DEF Sentence, x
<1>10. Sentence(s, i, c, rows) /\ Sentence(s, c + 1, j, rows) BY <1>2, <1>8, <1>9 DEF Sentence, y, z
<1>11. QED BY <1>2, <1>6, <1>10

AtomAt(p, s, i) == parse_atom(s, i, FilterNode(p[i + 1].disj))
AcceptsOr(p, s, n, rows, d) ==
    \A i \in 1..(n + 1) : \A j \in i..(n + 1) :
        j - i < d /\ Sentence(s, i, j, rows) /\ Peek(s, j) \notin Separator => Ends(p[i].disj, j)
AcceptsAnd(p, s, n, rows, d) ==
    \A i \in 1..(n + 1) : \A j \in i..(n + 1) :
        j - i < d /\ Sentence(s, i, j, rows) /\ Plain(Cut(s, i, j), "or") /\ Peek(s, j) # "and" => Ends(p[i].conj, j)
AcceptsAtom(p, s, n, rows, d) ==
    \A i \in 1..(n + 1) : \A j \in i..(n + 1) :
        j - i < d /\ Sentence(s, i, j, rows) /\ Plain(Cut(s, i, j), "or") /\ Plain(Cut(s, i, j), "and") => Ends(AtomAt(p, s, i), j)

\* Making one node keeps where it ends.
LEMMA NodeEnds ==
    ASSUME NEW e, NEW j, Ends(e, j)
    PROVE  Ends(FilterNode(e), j)
BY NodeKeeps DEF Ends

\* Sentences in parentheses are accepted if shorter ones are.
LEMMA AtomComplete ==
    ASSUME NEW s \in Seq(Token), NEW n \in Nat, n = Len(s), NEW rows, RowsFit(rows), NEW p, NEW d \in Nat,
           AcceptsOr(p, s, n, rows, d)
    PROVE  AcceptsAtom(p, s, n, rows, d + 1)
<1> SUFFICES ASSUME NEW i \in 1..(n + 1), NEW j \in i..(n + 1), j - i < d + 1, Sentence(s, i, j, rows),
                    Plain(Cut(s, i, j), "or"), Plain(Cut(s, i, j), "and")
             PROVE  Ends(AtomAt(p, s, i), j)
    BY DEF AcceptsAtom
<1> DEFINE x == Cut(s, i, j)
           v == Valued(x, rows)
<1>1. i \in 1..(Len(s) + 1) /\ j \in i..(Len(s) + 1) OBVIOUS
<1>2. x \in Seq(Token) /\ IsSeq(x) /\ Len(x) = j - i /\ \A k \in 1..(j - i) : x[k] = s[i + k - 1] BY <1>1, CutIs
<1>3. Reading(v) # {} BY DEF Sentence, Means
<1>4. Plain(x, "or") /\ Plain(x, "and") /\ \A m \in Comparisons(x) : Taken(Leaves[m]) BY DEF Sentence
<1>5. (j - i = 1 => v[1].t = x[1].t) /\ v \in Seq(Item) /\ Len(v) = j - i
      /\ Outermost(v, "or") = {} /\ Outermost(v, "and") = {}
    <2> HIDE DEF x
    <2>1. v \in Seq(Item) /\ Len(v) = Len(x) /\ Plain(v, "or") /\ Plain(v, "and") BY <1>2, <1>4, ValuedIs, ValuedShape
    <2>2. ASSUME NEW k \in 1..Len(x) PROVE v[k].t = x[k].t BY <1>2, ValuedIs
    <2>3. QED BY <1>2, <2>1, <2>2 DEF Plain
<1>6. CASE j - i = 1
    <2>0. Len(v) = 1 BY <1>5, <1>6
    <2>1. v[1].t = "leaf"
        <3> HIDE DEF v
        <3>1. QED BY <1>3, <1>5, <2>0, ReadingCut
    <2>2. x[1].t = "leaf" BY <1>5, <1>6, <2>1
    <2> HIDE DEF x
    <2>3. x[1] = s[i]
        <3>1. 1 \in 1..(j - i) /\ i + 1 - 1 = i BY <1>6
        <3>2. QED BY <1>2, <3>1
    <2>4. x[1].n \in Comparisons(x)
        <3>1. 1 \in 1..Len(x) BY <1>2, <1>6
        <3>2. QED BY <2>2, <3>1 DEF Comparisons
    <2>5. Taken(Leaves[s[i].n]) BY <1>4, <2>3, <2>4
    <2>6. i <= Len(s) /\ j = i + 1 BY <1>6
    <2>7. Peek(s, i) = "leaf" BY <2>2, <2>3, <2>6 DEF Peek
    <2>8. AtomAt(p, s, i) = Good(<<s[i]>>, FALSE, i + 1) BY <2>5, <2>7 DEF AtomAt, parse_atom, parse_leaf
    <2>9. QED BY <2>6, <2>8 DEF Ends, Good
<1>7. CASE j - i # 1
    <2>1. Enclosed(v) /\ Reading(Inside(v)) # {}
        <3> HIDE DEF v
        <3>0. v \in Seq(Item) /\ Len(v) # 1 /\ Outermost(v, "or") = {} /\ Outermost(v, "and") = {} BY <1>5, <1>7
        <3>1. /\ Enclosed(v) => Reading(v) = Reading(Inside(v))
              /\ ~Enclosed(v) => Reading(v) = {}
            BY <3>0, ReadingCut
        <3>2. QED BY <1>3, <3>1
    <2>2. j - i > 2 BY <1>5, <2>1 DEF Enclosed
    <2>3. Inside(v) = Valued(Cut(s, i + 1, j - 1), rows) BY <1>1, <2>2, ValuedInside
    <2>4. s[i].t = "(" /\ s[j - 1].t = ")"
        <3>1. v[1].t = "(" /\ v[j - i].t = ")" BY <1>5, <2>1 DEF Enclosed
        <3>2. 1 \in 1..(j - i) /\ j - i \in 1..(j - i) /\ i + 1 - 1 = i /\ i + (j - i) - 1 = j - 1 BY <2>2
        <3> HIDE DEF x
        <3>3. \A k \in 1..Len(x) : v[k] = Val(x[k], rows) BY <1>2, ValuedAt
        <3> HIDE DEF v
        <3>4. v[1] = Val(s[i], rows) /\ v[j - i] = Val(s[j - 1], rows)
            <4>1. x[1] = s[i] /\ x[j - i] = s[j - 1] BY <1>2, <3>2
            <4>2. v[1] = Val(x[1], rows) /\ v[j - i] = Val(x[j - i], rows) BY <1>2, <3>2, <3>3
            <4>3. QED BY <4>1, <4>2
        <3>5. QED BY <3>1, <3>4 DEF Val
    <2> DEFINE b == i + 1
               c == j - 1
    <2>5. i \in 1..Len(s) /\ c \in (i + 1)..Len(s) /\ b \in 1..(n + 1) /\ c \in b..(n + 1) /\ c - b < d /\ c + 1 = j BY <2>2
    <2>6. Bracketed(x, Cut(s, b, c))
        <3>1. s[c].t = ")" BY <2>4
        <3> HIDE DEF c
        <3>2. Bracketed(Cut(s, i, c + 1), Cut(s, i + 1, c)) BY <2>4, <2>5, <3>1, CutBracketed
        <3>3. QED BY <2>5, <3>2
    <2>7. IsSeq(Cut(s, b, c))
        <3> HIDE DEF b, c
        <3>1. QED BY <2>5, CutIs
    <2>8. Sentence(s, b, c, rows)
        <3>1. Means(Cut(s, b, c), rows) # {} BY <2>1, <2>3 DEF Means
        <3> HIDE DEF x, b, c
        <3>2. Comparisons(x) = Comparisons(Cut(s, b, c)) BY <1>2, <2>6, <2>7, BracketedComparisons
        <3>3. QED BY <1>4, <3>1, <3>2 DEF Sentence
    <2>9. Peek(s, c) = ")" /\ Peek(s, i) = "(" BY <2>4, <2>5 DEF Peek
    <2> HIDE DEF x, v, c
    <2>10. Ends(p[b].disj, c)
        <3> HIDE DEF b
        <3>1. Peek(s, c) \notin Separator BY <2>9 DEF Separator
        <3>2. QED BY <2>5, <2>8, <3>1 DEF AcceptsOr
    <2> DEFINE inner == FilterNode(p[b].disj)
    <2>11. Ends(inner, c) BY <2>10, NodeEnds
    <2> HIDE DEF inner
    <2>12. parse_atom(s, i, inner) = Good(inner.node, FALSE, c + 1) BY <2>9, <2>11 DEF parse_atom, Ends
    <2>13. Ends(parse_atom(s, i, inner), j) BY <2>5, <2>12 DEF Ends, Good
    <2>14. QED BY <2>13 DEF AtomAt, inner
<1>8. QED BY <1>6, <1>7

\* Sentences of conjunctions are accepted if shorter ones are.
LEMMA AndComplete ==
    ASSUME NEW s \in Seq(Token), NEW n \in Nat, n = Len(s), NEW rows, RowsFit(rows), NEW p, Parses(p, s, 1, n), NEW d \in Nat,
           AcceptsAtom(p, s, n, rows, d + 1), AcceptsAnd(p, s, n, rows, d)
    PROVE  AcceptsAnd(p, s, n, rows, d + 1)
<1> SUFFICES ASSUME NEW i \in 1..(n + 1), NEW j \in i..(n + 1), j - i < d + 1, Sentence(s, i, j, rows),
                    Plain(Cut(s, i, j), "or"), Peek(s, j) # "and"
             PROVE  Ends(p[i].conj, j)
    BY DEF AcceptsAnd
<1> DEFINE atom == AtomAt(p, s, i)
<1>1. p[i].conj = Parts(s, "and", atom, p[atom.pos + 1].conj)
    <2>1. p[i] = [conj |-> parse_and(s, p, i), disj |-> parse_or(s, p, i)] BY DEF Parses
    <2>2. p[i].conj = parse_and(s, p, i) BY <2>1
    <2>3. QED BY <2>2, Zenon DEF parse_and, AtomAt
<1> HIDE DEF atom
<1>2. CASE Plain(Cut(s, i, j), "and")
    <2>1. Ends(atom, j) BY <1>2 DEF AcceptsAtom, atom
    <2>2. QED BY <1>1, <2>1 DEF Parts, Ends
<1>3. CASE ~Plain(Cut(s, i, j), "and")
    <2>1. PICK c \in i..(j - 1) :
               /\ Peek(s, c) = "and"
               /\ Sentence(s, i, c, rows) /\ Sentence(s, c + 1, j, rows)
               /\ Plain(Cut(s, i, c), "and") /\ Plain(Cut(s, i, c), "or")
               /\ Plain(Cut(s, c + 1, j), "or")
        BY <1>3, SentenceSplit DEF Separator
    <2> DEFINE b == c + 1
    <2>2. c \in i..(n + 1) /\ c - i < d + 1 /\ b \in 1..(n + 1) /\ j \in b..(n + 1) /\ j - b < d OBVIOUS
    <2>3. Ends(atom, c) BY <2>1, <2>2 DEF AcceptsAtom, atom
    <2>4. Sentence(s, b, j, rows) /\ Plain(Cut(s, b, j), "or") BY <2>1
    <2>5. Ends(p[b].conj, j)
        <3> HIDE DEF b
        <3>1. QED BY <2>2, <2>4 DEF AcceptsAnd
    <2>6. p[i].conj = Parts(s, "and", atom, p[b].conj) BY <1>1, <2>3 DEF Ends
    <2> HIDE DEF b
    <2>7. QED BY <2>1, <2>3, <2>5, <2>6 DEF Parts, Ends, Good
<1>4. QED BY <1>2, <1>3

\* Sentences of disjunctions are accepted if shorter ones are.
LEMMA OrComplete ==
    ASSUME NEW s \in Seq(Token), NEW n \in Nat, n = Len(s), NEW rows, RowsFit(rows), NEW p, Parses(p, s, 1, n), NEW d \in Nat,
           AcceptsAnd(p, s, n, rows, d + 1), AcceptsOr(p, s, n, rows, d)
    PROVE  AcceptsOr(p, s, n, rows, d + 1)
<1> SUFFICES ASSUME NEW i \in 1..(n + 1), NEW j \in i..(n + 1), j - i < d + 1, Sentence(s, i, j, rows), Peek(s, j) \notin Separator
             PROVE  Ends(p[i].disj, j)
    BY DEF AcceptsOr
<1> DEFINE first == FilterNode(p[i].conj)
<1>0. Peek(s, j) # "and" /\ Peek(s, j) # "or" BY DEF Separator
<1>1. p[i].disj = Parts(s, "or", first, p[first.pos + 1].disj)
    <2>1. p[i] = [conj |-> parse_and(s, p, i), disj |-> parse_or(s, p, i)] BY DEF Parses
    <2>2. p[i].disj = parse_or(s, p, i) /\ p[i].conj = parse_and(s, p, i) BY <2>1
    <2>3. QED BY <2>2, Zenon DEF parse_or
<1> HIDE DEF first
<1>2. CASE Plain(Cut(s, i, j), "or")
    <2>1. Ends(p[i].conj, j) BY <1>0, <1>2 DEF AcceptsAnd
    <2>2. Ends(first, j) BY <2>1, NodeEnds DEF first
    <2>3. QED BY <1>0, <1>1, <2>2 DEF Parts, Ends
<1>3. CASE ~Plain(Cut(s, i, j), "or")
    <2>1. PICK c \in i..(j - 1) :
               /\ Peek(s, c) = "or"
               /\ Sentence(s, i, c, rows) /\ Sentence(s, c + 1, j, rows)
               /\ Plain(Cut(s, i, c), "or")
        BY <1>3, SentenceSplit DEF Separator
    <2> DEFINE b == c + 1
    <2>2. c \in i..(n + 1) /\ c - i < d + 1 /\ b \in 1..(n + 1) /\ j \in b..(n + 1) /\ j - b < d OBVIOUS
    <2>3. Ends(p[i].conj, c) BY <2>1, <2>2 DEF AcceptsAnd
    <2>4. Ends(first, c) BY <2>3, NodeEnds DEF first
    <2>5. Sentence(s, b, j, rows) BY <2>1
    <2>6. Ends(p[b].disj, j)
        <3> HIDE DEF b
        <3>1. QED BY <2>2, <2>5 DEF AcceptsOr
    <2>7. p[i].disj = Parts(s, "or", first, p[b].disj) BY <1>1, <2>4 DEF Ends
    <2> HIDE DEF b
    <2>8. QED BY <2>1, <2>4, <2>6, <2>7 DEF Parts, Ends, Good
<1>4. QED BY <1>2, <1>3

\* The parser accepts every sentence whose comparisons it takes.
LEMMA ParserAccepts ==
    ASSUME NEW s \in Seq(Token), NEW n \in Nat, n = Len(s), NEW rows, RowsFit(rows), NEW p, Parses(p, s, 1, n)
    PROVE  AcceptsOr(p, s, n, rows, n + 1)
<1> DEFINE S == {d \in 0..(n + 1) : AcceptsOr(p, s, n, rows, d) /\ AcceptsAnd(p, s, n, rows, d)}
<1>1. 0 \in S
    <2>1. \A i \in 1..(n + 1) : \A j \in i..(n + 1) : ~(j - i < 0) OBVIOUS
    <2>2. QED BY <2>1 DEF AcceptsOr, AcceptsAnd
<1>2. ASSUME NEW k \in 1..(n + 1), k - 1 \in S PROVE k \in S
    <2> DEFINE d == k - 1
    <2>1. d \in Nat /\ d + 1 = k /\ k \in 0..(n + 1) OBVIOUS
    <2>2. AcceptsOr(p, s, n, rows, d) /\ AcceptsAnd(p, s, n, rows, d) BY <1>2
    <2> HIDE DEF d
    <2>3. AcceptsAtom(p, s, n, rows, d + 1) BY <2>1, <2>2, AtomComplete
    <2>4. AcceptsAnd(p, s, n, rows, d + 1) BY <2>1, <2>2, <2>3, AndComplete
    <2>5. AcceptsOr(p, s, n, rows, d + 1) BY <2>1, <2>2, <2>4, OrComplete
    <2>6. QED BY <2>1, <2>4, <2>5
<1> HIDE DEF S
<1>3. n + 1 \in S
    <2>1. n + 1 \in Nat OBVIOUS
    <2>2. 0..(n + 1) \subseteq S BY <1>1, <1>2, <2>1, Induct
    <2>3. QED BY <2>2
<1>4. QED BY <1>3 DEF S

(***************************************************************************)
(* parse_rsql takes exactly the sentences whose comparisons it knows, and  *)
(* the node it returns means what the sentence means.                      *)
(***************************************************************************)
THEOREM ParserFaithful ==
    ASSUME NEW s \in Seq(Token), NEW rows, RowsFit(rows)
    PROVE  LET e == parse_rsql(s) IN
           /\ e.ok <=> Means(s, rows) # {} /\ \A n \in Comparisons(s) : Taken(Leaves[n])
           /\ e.ok => /\ e.node \in Seq(Token) /\ Closed(e.node)
                      /\ Plain(e.node, "or") /\ Plain(e.node, "and")
                      /\ Means(e.node, rows) = Means(s, rows)
                      /\ Comparisons(e.node) = Comparisons(s)
<1> DEFINE n == Len(s)
           e == parse_rsql(s)
<1>0. n \in Nat /\ n = Len(s) /\ 1 \in 1..(n + 1) /\ n + 1 \in 1..(n + 1) /\ (n + 1) - 1 < n + 1 OBVIOUS
<1>1. PICK p : /\ \A i \in 1..(n + 1) : p[i] = [conj |-> parse_and(s, p, i), disj |-> parse_or(s, p, i)]
               /\ Results(p, 1, n)
               /\ e = LET f == FilterNode(p[1].disj) IN IF f.ok /\ f.pos <= n THEN Bad(f.pos) ELSE f
    BY ParserIs
<1> DEFINE f == FilterNode(p[1].disj)
<1>2. e = IF f.ok /\ f.pos <= n THEN Bad(f.pos) ELSE f BY <1>1
<1> HIDE DEF n, e
<1>3. Parses(p, s, 1, n) BY <1>1 DEF Parses
<1>4. Sound(f, s, 1, rows, "or") /\ f.many = FALSE
    <2>1. Sounds(p, s, 1, n, rows) BY <1>0, <1>3, ParserSounds
    <2>2. Sound(p[1].disj, s, 1, rows, "or") /\ Whole(p[1].disj) BY <1>0, <2>1 DEF Sounds
    <2>3. QED BY <1>0, <2>2, NodeSound
<1>5. Cut(s, 1, n + 1) = s
    <2> DEFINE x == Cut(s, 1, n + 1)
               m == n + 1
    <2>1. 1 \in 1..(Len(s) + 1) /\ m \in 1..(Len(s) + 1) /\ m - 1 = Len(s) BY <1>0
    <2> HIDE DEF m, x
    <2>2. x \in Seq(Token) /\ Len(x) = m - 1 /\ \A k \in 1..(m - 1) : x[k] = s[1 + k - 1]
        BY <2>1, CutIs DEF x, m
    <2>3. \A k \in 1..Len(x) : x[k] = s[k]
        <3>1. ASSUME NEW k \in 1..Len(x) PROVE x[k] = s[k]
            <4>1. k \in 1..(m - 1) /\ 1 + k - 1 = k BY <2>2, <2>1
            <4>2. QED BY <2>2, <4>1
        <3>2. QED BY <3>1
    <2>4. x = s BY <2>1, <2>2, <2>3, SeqEqual
    <2>5. QED BY <2>4 DEF x
<1>6. ASSUME e.ok
      PROVE  /\ Means(s, rows) # {} /\ \A k \in Comparisons(s) : Taken(Leaves[k])
             /\ e.node \in Seq(Token) /\ Closed(e.node)
             /\ Plain(e.node, "or") /\ Plain(e.node, "and")
             /\ Means(e.node, rows) = Means(s, rows)
             /\ Comparisons(e.node) = Comparisons(s)
    <2>1. e = f /\ f.ok /\ ~(f.pos <= n) BY <1>2, <1>6 DEF Bad
    <2> HIDE DEF f
    <2>2. Faithful(f, s, 1, rows) BY <1>4, <2>1 DEF Sound
    <2>3. f.pos = n + 1
        <3>1. f.pos \in (1 + 1)..(Len(s) + 1) BY <2>2 DEF Faithful
        <3>2. QED BY <1>0, <2>1, <3>1
    <2>4. Cut(s, 1, f.pos) = s BY <1>5, <2>3
    <2>5. QED BY <1>4, <2>1, <2>2, <2>4 DEF Faithful
<1>7. ASSUME Means(s, rows) # {}, \A k \in Comparisons(s) : Taken(Leaves[k]) PROVE e.ok
    <2>1. AcceptsOr(p, s, n, rows, n + 1) BY <1>0, <1>3, ParserAccepts
    <2>2. Sentence(s, 1, n + 1, rows) BY <1>5, <1>7 DEF Sentence
    <2>3. Peek(s, n + 1) \notin Separator BY <1>0 DEF Peek, Separator
    <2>4. Ends(p[1].disj, n + 1)
        <3> DEFINE m == n + 1
        <3>1. 1 \in 1..(n + 1) /\ m \in 1..(n + 1) /\ m - 1 < n + 1 BY <1>0
        <3>2. Sentence(s, 1, m, rows) /\ Peek(s, m) \notin Separator BY <2>2, <2>3
        <3> HIDE DEF m
        <3>3. Ends(p[1].disj, m) BY <2>1, <3>1, <3>2 DEF AcceptsOr, m
        <3>4. QED BY <3>3 DEF m
    <2>5. Ends(f, n + 1) BY <2>4, NodeEnds
    <2> HIDE DEF f
    <2>6. QED BY <1>0, <1>2, <2>5 DEF Ends
<1>8. QED BY <1>6, <1>7 DEF e

-----------------------------------------------------------------------------
(***************************************************************************)
(* Sequences of anything, and the comparisons one by one.                  *)
(***************************************************************************)
ASeq(s) == \E S : s \in Seq(S)

\* The elements of a concatenation.
LEMMA Joined ==
    ASSUME NEW S, NEW u \in Seq(S), NEW t \in Seq(S)
    PROVE  /\ u \o t \in Seq(S) /\ Len(u \o t) = Len(u) + Len(t)
           /\ \A i \in 1..Len(u) : (u \o t)[i] = u[i]
           /\ \A i \in 1..Len(t) : (u \o t)[Len(u) + i] = t[i]
<1>1. u \o t \in Seq(S) /\ Len(u \o t) = Len(u) + Len(t) OBVIOUS
<1>2. \A i \in 1..Len(u) : (u \o t)[i] = u[i] OBVIOUS
<1>3. \A i \in 1..Len(t) : (u \o t)[Len(u) + i] = t[i] OBVIOUS
<1>4. QED BY <1>1, <1>2, <1>3

\* Sequences of anything.

\* A sequence is a function on 1..Len.
LEMMA ASeqIs ==
    ASSUME NEW s, ASeq(s)
    PROVE  IsSeq(s)
<1>1. PICK S : s \in Seq(S) BY DEF ASeq
<1>2. QED BY <1>1, SeqIsSeq

\* Concatenation of sequences of anything.
LEMMA ConcatAny ==
    ASSUME NEW s, NEW r, ASeq(s), ASeq(r)
    PROVE  /\ ASeq(s \o r) /\ Len(s \o r) = Len(s) + Len(r)
           /\ \A i \in 1..Len(s) : (s \o r)[i] = s[i]
           /\ \A i \in 1..Len(r) : (s \o r)[Len(s) + i] = r[i]
<1>1. PICK S : s \in Seq(S) BY DEF ASeq
<1>2. PICK R : r \in Seq(R) BY DEF ASeq
<1> DEFINE T == S \cup R
<1>3. s \in Seq(T) /\ r \in Seq(T) BY <1>1, <1>2
<1> HIDE DEF T
<1>4. /\ s \o r \in Seq(T) /\ Len(s \o r) = Len(s) + Len(r)
      /\ \A i \in 1..Len(s) : (s \o r)[i] = s[i]
      /\ \A i \in 1..Len(r) : (s \o r)[Len(s) + i] = r[i]
    BY <1>3, Joined
<1>5. QED BY <1>4 DEF ASeq

\* Append to a sequence of anything.
LEMMA AppendAny ==
    ASSUME NEW s, NEW x, ASeq(s)
    PROVE  /\ ASeq(Append(s, x)) /\ Len(Append(s, x)) = Len(s) + 1
           /\ \A i \in 1..Len(s) : Append(s, x)[i] = s[i]
           /\ Append(s, x)[Len(s) + 1] = x
<1>1. PICK S : s \in Seq(S) BY DEF ASeq
<1> DEFINE T == S \cup {x}
<1>2. s \in Seq(T) /\ x \in T BY <1>1
<1> HIDE DEF T
<1>3. /\ Append(s, x) \in Seq(T) /\ Len(Append(s, x)) = Len(s) + 1
      /\ \A i \in 1..Len(s) : Append(s, x)[i] = s[i]
      /\ Append(s, x)[Len(s) + 1] = x
    BY <1>2, AppendProperties
<1>4. QED BY <1>3 DEF ASeq

\* Concatenation of single elements.
LEMMA PutTogether ==
    ASSUME NEW x, NEW y, NEW z
    PROVE  <<x>> \o <<y>> = <<x, y>> /\ <<x>> \o <<y>> \o <<z>> = <<x, y, z>> /\ <<x, y>> \o <<z>> = <<x, y, z>>
<1> DEFINE S == {x, y, z}
<1>1. <<x>> \in Seq(S) /\ <<y>> \in Seq(S) /\ <<z>> \in Seq(S) OBVIOUS
<1> DEFINE u == <<x>> \o <<y>>
           v == <<x, y>>
           w == u \o <<z>>
           r == <<x, y, z>>
<1>2. u \in Seq(S) /\ Len(u) = 2 /\ u[1] = x /\ u[2] = y BY <1>1
<1>3. v \in Seq(S) /\ Len(v) = 2 /\ v[1] = x /\ v[2] = y OBVIOUS
<1>5. r \in Seq(S) /\ Len(r) = 3 /\ r[1] = x /\ r[2] = y /\ r[3] = z OBVIOUS
<1> DEFINE t == <<z>>
<1>a. t \in Seq(S) /\ Len(t) = 1 /\ t[1] = z OBVIOUS
<1> HIDE DEF u, t, S
<1>b. w = u \o t BY DEF t
<1> HIDE DEF v, w, r
<1>4. w \in Seq(S) /\ Len(w) = 3 /\ w[1] = x /\ w[2] = y /\ w[3] = z
    <2>0. u \in Seq(S) /\ t \in Seq(S) BY <1>a, <1>2
    <2>1. /\ u \o t \in Seq(S) /\ Len(u \o t) = Len(u) + Len(t)
          /\ \A i \in 1..Len(u) : (u \o t)[i] = u[i]
          /\ \A i \in 1..Len(t) : (u \o t)[Len(u) + i] = t[i]
        BY <2>0, Joined
    <2>2. 1 \in 1..Len(u) /\ 2 \in 1..Len(u) /\ 1 \in 1..Len(t) /\ Len(u) + 1 = 3 /\ Len(u) + Len(t) = 3 BY <1>a, <1>2
    <2>3. (u \o t)[1] = x BY <1>2, <2>1, <2>2
    <2>4. (u \o t)[2] = y BY <1>2, <2>1, <2>2
    <2>5. (u \o t)[3] = z
        <3>1. (u \o t)[Len(u) + 1] = t[1] BY <2>1, <2>2
        <3>2. QED BY <1>a, <2>2, <3>1
    <2>6. QED BY <1>b, <2>1, <2>2, <2>3, <2>4, <2>5
<1>6. u = v
    <2>1. \A k \in 1..Len(u) : u[k] = v[k]
        <3>1. ASSUME NEW k \in 1..Len(u) PROVE u[k] = v[k]
            <4>1. k = 1 \/ k = 2 BY <1>2
            <4>2. QED BY <1>2, <1>3, <4>1
        <3>2. QED BY <3>1
    <2>2. QED BY <1>2, <1>3, <2>1, SeqEqual
<1>7. w = r
    <2>1. \A k \in 1..Len(w) : w[k] = r[k]
        <3>1. ASSUME NEW k \in 1..Len(w) PROVE w[k] = r[k]
            <4>1. k = 1 \/ k = 2 \/ k = 3 BY <1>4
            <4>2. QED BY <1>4, <1>5, <4>1
        <3>2. QED BY <3>1
    <2>2. QED BY <1>4, <1>5, <2>1, SeqEqual
<1>8. QED BY <1>6, <1>7 DEF u, v, w, r

\* The comparisons, one by one.
LEMMA LeavesAre ==
    /\ DOMAIN Leaves = 1..24
    /\ Leaves[1] = L("text", "==", <<a>>)
    /\ Leaves[2] = L("num", "gt", <<1>>)
    /\ Leaves[3] = L("text", "!=", <<a>>)
    /\ Leaves[4] = L("num", "ge", <<2>>)
    /\ Leaves[5] = L("num", "lt", <<2>>)
    /\ Leaves[6] = L("num", "le", <<1>>)
    /\ Leaves[7] = L("text", "in", <<a, <<"A", "b">>>>)
    /\ Leaves[8] = L("num", "out", <<1, 3>>)
    /\ Leaves[9] = L("num", "between", <<2, 3>>)
    /\ Leaves[10] = L("text", "like", <<<<"A", "%">>>>)
    /\ Leaves[11] = L("text", "ilike", <<<<"%", "B">>>>)
    /\ Leaves[12] = L("text", "contains", <<<<"b">>>>)
    /\ Leaves[13] = L("text", "starts", <<a>>)
    /\ Leaves[14] = L("text", "ends", <<a>>)
    /\ Leaves[15] = L("text", "null", <<"true">>)
    /\ Leaves[16] = L("num", "null", <<"false">>)
    /\ Leaves[17] = L("flag", "==", <<TRUE>>)
    /\ Leaves[18] = L("num", "null", <<"maybe">>)
    /\ Leaves[19] = L("num", "between", <<1>>)
    /\ Leaves[20] = L("text", "starts", <<<<"%", "b">>>>)
    /\ Leaves[21] = L("text", "gt", <<a>>)
    /\ Leaves[22] = L("secret", "==", <<a>>)
    /\ Leaves[23] = L("other", "==", <<a>>)
    /\ Leaves[24] = L("text", "near", <<a>>)
<1>1. DOMAIN Leaves = 1..24 BY DEF Leaves
<1>2. Leaves[1] = L("text", "==", <<a>>) BY DEF Leaves
<1>3. Leaves[2] = L("num", "gt", <<1>>) BY DEF Leaves
<1>4. Leaves[3] = L("text", "!=", <<a>>) BY DEF Leaves
<1>5. Leaves[4] = L("num", "ge", <<2>>) BY DEF Leaves
<1>6. Leaves[5] = L("num", "lt", <<2>>) BY DEF Leaves
<1>7. Leaves[6] = L("num", "le", <<1>>) BY DEF Leaves
<1>8. Leaves[7] = L("text", "in", <<a, <<"A", "b">>>>) BY DEF Leaves
<1>9. Leaves[8] = L("num", "out", <<1, 3>>) BY DEF Leaves
<1>10. Leaves[9] = L("num", "between", <<2, 3>>) BY DEF Leaves
<1>11. Leaves[10] = L("text", "like", <<<<"A", "%">>>>) BY DEF Leaves
<1>12. Leaves[11] = L("text", "ilike", <<<<"%", "B">>>>) BY DEF Leaves
<1>13. Leaves[12] = L("text", "contains", <<<<"b">>>>) BY DEF Leaves
<1>14. Leaves[13] = L("text", "starts", <<a>>) BY DEF Leaves
<1>15. Leaves[14] = L("text", "ends", <<a>>) BY DEF Leaves
<1>16. Leaves[15] = L("text", "null", <<"true">>) BY DEF Leaves
<1>17. Leaves[16] = L("num", "null", <<"false">>) BY DEF Leaves
<1>18. Leaves[17] = L("flag", "==", <<TRUE>>) BY DEF Leaves
<1>19. Leaves[18] = L("num", "null", <<"maybe">>) BY DEF Leaves
<1>20. Leaves[19] = L("num", "between", <<1>>) BY DEF Leaves
<1>21. Leaves[20] = L("text", "starts", <<<<"%", "b">>>>) BY DEF Leaves
<1>22. Leaves[21] = L("text", "gt", <<a>>) BY DEF Leaves
<1>23. Leaves[22] = L("secret", "==", <<a>>) BY DEF Leaves
<1>24. Leaves[23] = L("other", "==", <<a>>) BY DEF Leaves
<1>25. Leaves[24] = L("text", "near", <<a>>) BY DEF Leaves
<1> QED BY <1>1, <1>2, <1>3, <1>4, <1>5, <1>6, <1>7, <1>8, <1>9, <1>10, <1>11, <1>12, <1>13, <1>14, <1>15, <1>16, <1>17, <1>18, <1>19, <1>20, <1>21, <1>22, <1>23, <1>24, <1>25

\* Those that make sense are among them, and are none that the parser refuses.
LEMMA LeavesDomain == DOMAIN Leaves = 1..24 /\ \A n \in Sensible : n \in DOMAIN Leaves /\ n \notin {18, 24}
<1>1. DOMAIN Leaves = 1..24 BY LeavesAre
<1>2. \A n \in (1..17) \cup {20} : n \in 1..24 /\ n \notin {18, 24} OBVIOUS
<1>3. QED BY <1>1, <1>2 DEF Sensible

Accepted(l) == lookup(l.field) /\ op_valid_for_type(l.op, Fields[l.field].ty) /\ ~(l.op = "between" /\ Len(l.vals) # 2)

\* The fields one may use.
LEMMA FieldsAre ==
    /\ DOMAIN Fields = {"text", "num", "flag", "secret"}
    /\ Fields["text"].ty = "Text" /\ Fields["num"].ty = "Timestamp" /\ Fields["flag"].ty = "Bool"
    /\ \A f : lookup(f) <=> f \in {"text", "num", "flag"}
<1>1. DOMAIN Fields = {"text", "num", "flag", "secret"} BY DEF Fields
<1>2. Fields["text"].ty = "Text" /\ Fields["num"].ty = "Timestamp" /\ Fields["flag"].ty = "Bool" BY DEF Fields
<1>3. Fields["text"].sensitive = FALSE /\ Fields["num"].sensitive = FALSE /\ Fields["flag"].sensitive = FALSE /\ Fields["secret"].sensitive = TRUE
    BY DEF Fields
<1>4. QED BY <1>1, <1>2, <1>3 DEF lookup

\* What the builder is given for a comparison the parser takes.
LEMMA LeavesParsed ==
    /\ \A n \in DOMAIN Leaves : Taken(Leaves[n]) <=> n \notin {18, 24}
    /\ Parsed(Leaves[1]) = L("text", "==", <<a>>)
    /\ Parsed(Leaves[2]) = L("num", "gt", <<1>>)
    /\ Parsed(Leaves[3]) = L("text", "!=", <<a>>)
    /\ Parsed(Leaves[4]) = L("num", "ge", <<2>>)
    /\ Parsed(Leaves[5]) = L("num", "lt", <<2>>)
    /\ Parsed(Leaves[6]) = L("num", "le", <<1>>)
    /\ Parsed(Leaves[7]) = L("text", "in", <<a, <<"A", "b">>>>)
    /\ Parsed(Leaves[8]) = L("num", "out", <<1, 3>>)
    /\ Parsed(Leaves[9]) = L("num", "between", <<2, 3>>)
    /\ Parsed(Leaves[10]) = L("text", "like", <<<<"A", "%">>>>)
    /\ Parsed(Leaves[11]) = L("text", "ilike", <<<<"%", "B">>>>)
    /\ Parsed(Leaves[12]) = L("text", "contains", <<<<"b">>>>)
    /\ Parsed(Leaves[13]) = L("text", "starts", <<a>>)
    /\ Parsed(Leaves[14]) = L("text", "ends", <<a>>)
    /\ Parsed(Leaves[15]) = L("text", "is null", <<>>)
    /\ Parsed(Leaves[16]) = L("num", "is not null", <<>>)
    /\ Parsed(Leaves[17]) = L("flag", "==", <<TRUE>>)
    /\ Parsed(Leaves[19]) = L("num", "between", <<1>>)
    /\ Parsed(Leaves[20]) = L("text", "starts", <<<<"%", "b">>>>)
    /\ Parsed(Leaves[21]) = L("text", "gt", <<a>>)
    /\ Parsed(Leaves[22]) = L("secret", "==", <<a>>)
    /\ Parsed(Leaves[23]) = L("other", "==", <<a>>)
<1> USE LeavesAre DEF L, Taken, Parsed, Named
<1>1. Taken(Leaves[1]) /\ Parsed(Leaves[1]) = L("text", "==", <<a>>) OBVIOUS
<1>2. Taken(Leaves[2]) /\ Parsed(Leaves[2]) = L("num", "gt", <<1>>) OBVIOUS
<1>3. Taken(Leaves[3]) /\ Parsed(Leaves[3]) = L("text", "!=", <<a>>) OBVIOUS
<1>4. Taken(Leaves[4]) /\ Parsed(Leaves[4]) = L("num", "ge", <<2>>) OBVIOUS
<1>5. Taken(Leaves[5]) /\ Parsed(Leaves[5]) = L("num", "lt", <<2>>) OBVIOUS
<1>6. Taken(Leaves[6]) /\ Parsed(Leaves[6]) = L("num", "le", <<1>>) OBVIOUS
<1>7. Taken(Leaves[7]) /\ Parsed(Leaves[7]) = L("text", "in", <<a, <<"A", "b">>>>) OBVIOUS
<1>8. Taken(Leaves[8]) /\ Parsed(Leaves[8]) = L("num", "out", <<1, 3>>) OBVIOUS
<1>9. Taken(Leaves[9]) /\ Parsed(Leaves[9]) = L("num", "between", <<2, 3>>) OBVIOUS
<1>10. Taken(Leaves[10]) /\ Parsed(Leaves[10]) = L("text", "like", <<<<"A", "%">>>>) OBVIOUS
<1>11. Taken(Leaves[11]) /\ Parsed(Leaves[11]) = L("text", "ilike", <<<<"%", "B">>>>) OBVIOUS
<1>12. Taken(Leaves[12]) /\ Parsed(Leaves[12]) = L("text", "contains", <<<<"b">>>>) OBVIOUS
<1>13. Taken(Leaves[13]) /\ Parsed(Leaves[13]) = L("text", "starts", <<a>>) OBVIOUS
<1>14. Taken(Leaves[14]) /\ Parsed(Leaves[14]) = L("text", "ends", <<a>>) OBVIOUS
<1>15. Taken(Leaves[15]) /\ Parsed(Leaves[15]) = L("text", "is null", <<>>) OBVIOUS
<1>16. Taken(Leaves[16]) /\ Parsed(Leaves[16]) = L("num", "is not null", <<>>) OBVIOUS
<1>17. Taken(Leaves[17]) /\ Parsed(Leaves[17]) = L("flag", "==", <<TRUE>>) OBVIOUS
<1>18. ~Taken(Leaves[18]) OBVIOUS
<1>19. Taken(Leaves[19]) /\ Parsed(Leaves[19]) = L("num", "between", <<1>>) OBVIOUS
<1>20. Taken(Leaves[20]) /\ Parsed(Leaves[20]) = L("text", "starts", <<<<"%", "b">>>>) OBVIOUS
<1>21. Taken(Leaves[21]) /\ Parsed(Leaves[21]) = L("text", "gt", <<a>>) OBVIOUS
<1>22. Taken(Leaves[22]) /\ Parsed(Leaves[22]) = L("secret", "==", <<a>>) OBVIOUS
<1>23. Taken(Leaves[23]) /\ Parsed(Leaves[23]) = L("other", "==", <<a>>) OBVIOUS
<1>24. ~Taken(Leaves[24]) OBVIOUS
<1>25. \A n \in DOMAIN Leaves : Taken(Leaves[n]) <=> n \notin {18, 24}
    <2>1. SUFFICES ASSUME NEW n \in 1..24 PROVE Taken(Leaves[n]) <=> n \notin {18, 24} BY LeavesAre
    <2>2. n \in {1, 2, 3, 4, 5, 6, 7, 8, 9, 10, 11, 12, 13, 14, 15, 16, 17, 18, 19, 20, 21, 22, 23, 24} BY <2>1
    <2>3. QED BY <2>2, <1>1, <1>2, <1>3, <1>4, <1>5, <1>6, <1>7, <1>8, <1>9, <1>10, <1>11, <1>12, <1>13, <1>14, <1>15, <1>16, <1>17, <1>18, <1>19, <1>20, <1>21, <1>22, <1>23, <1>24
<1>26. QED BY <1>25, <1>1, <1>2, <1>3, <1>4, <1>5, <1>6, <1>7, <1>8, <1>9, <1>10, <1>11, <1>12, <1>13, <1>14, <1>15, <1>16, <1>17, <1>19, <1>20, <1>21, <1>22, <1>23

\* When the builder accepts a comparison, by the type of its field.
LEMMA AcceptedIs ==
    \A f, op, vals :
        Accepted(L(f, op, vals)) <=> \/ f = "text" /\ op \in Text
                                     \/ f = "num" /\ op \in Ordered /\ (op = "between" => Len(vals) = 2)
                                     \/ f = "flag" /\ op \in {"==", "!=", "is null", "is not null"}
<1> SUFFICES ASSUME NEW f, NEW op, NEW vals
             PROVE  Accepted(L(f, op, vals)) <=> \/ f = "text" /\ op \in Text
                                                 \/ f = "num" /\ op \in Ordered /\ (op = "between" => Len(vals) = 2)
                                                 \/ f = "flag" /\ op \in {"==", "!=", "is null", "is not null"}
    OBVIOUS
<1> DEFINE l == L(f, op, vals)
<1>1. l.field = f /\ l.op = op /\ l.vals = vals BY DEF L
<1>2. op_valid_for_type(op, "Text") <=> op \in Text BY DEF op_valid_for_type
<1>3. op_valid_for_type(op, "Timestamp") <=> op \in Ordered BY DEF op_valid_for_type
<1>4. op_valid_for_type(op, "Bool") <=> op \in {"==", "!=", "is null", "is not null"} BY DEF op_valid_for_type
<1>5. "between" \notin Text BY DEF Text
<1> HIDE DEF l
<1>6. Accepted(l) <=> lookup(f) /\ op_valid_for_type(op, Fields[f].ty) /\ ~(op = "between" /\ Len(vals) # 2)
    BY <1>1 DEF Accepted
<1>7. CASE f = "text" BY <1>2, <1>5, <1>6, <1>7, FieldsAre DEF l
<1>8. CASE f = "num" BY <1>3, <1>6, <1>8, FieldsAre DEF l
<1>9. CASE f = "flag" BY <1>4, <1>6, <1>9, FieldsAre DEF l
<1>10. CASE f \notin {"text", "num", "flag"} BY <1>6, <1>10, FieldsAre DEF l
<1>11. QED BY <1>7, <1>8, <1>9, <1>10

\* Of the comparisons the parser takes, the builder accepts those that make sense.
LEMMA LeavesAccepted ==
    \A n \in DOMAIN Leaves : Taken(Leaves[n]) => (Accepted(Parsed(Leaves[n])) <=> n \in Sensible)
<1>1. Accepted(Parsed(Leaves[1]))
    <2>1. Accepted(L("text", "==", <<a>>)) BY AcceptedIs DEF Text, Ordered
    <2>2. QED BY <2>1, LeavesParsed
<1>2. Accepted(Parsed(Leaves[2]))
    <2>1. Accepted(L("num", "gt", <<1>>)) BY AcceptedIs DEF Text, Ordered
    <2>2. QED BY <2>1, LeavesParsed
<1>3. Accepted(Parsed(Leaves[3]))
    <2>1. Accepted(L("text", "!=", <<a>>)) BY AcceptedIs DEF Text, Ordered
    <2>2. QED BY <2>1, LeavesParsed
<1>4. Accepted(Parsed(Leaves[4]))
    <2>1. Accepted(L("num", "ge", <<2>>)) BY AcceptedIs DEF Text, Ordered
    <2>2. QED BY <2>1, LeavesParsed
<1>5. Accepted(Parsed(Leaves[5]))
    <2>1. Accepted(L("num", "lt", <<2>>)) BY AcceptedIs DEF Text, Ordered
    <2>2. QED BY <2>1, LeavesParsed
<1>6. Accepted(Parsed(Leaves[6]))
    <2>1. Accepted(L("num", "le", <<1>>)) BY AcceptedIs DEF Text, Ordered
    <2>2. QED BY <2>1, LeavesParsed
<1>7. Accepted(Parsed(Leaves[7]))
    <2>1. Accepted(L("text", "in", <<a, <<"A", "b">>>>)) BY AcceptedIs DEF Text, Ordered
    <2>2. QED BY <2>1, LeavesParsed
<1>8. Accepted(Parsed(Leaves[8]))
    <2>0. "out" \in Ordered /\ "out" # "between" BY DEF Ordered
    <2>1. Accepted(L("num", "out", <<1, 3>>)) BY <2>0, AcceptedIs, Zenon
    <2>2. QED BY <2>1, LeavesParsed
<1>9. Accepted(Parsed(Leaves[9]))
    <2>0. "between" \in Ordered /\ Len(<<2, 3>>) = 2 BY DEF Ordered
    <2>1. Accepted(L("num", "between", <<2, 3>>)) BY <2>0, AcceptedIs, Zenon
    <2>2. QED BY <2>1, LeavesParsed
<1>10. Accepted(Parsed(Leaves[10]))
    <2>1. Accepted(L("text", "like", <<<<"A", "%">>>>)) BY AcceptedIs DEF Text, Ordered
    <2>2. QED BY <2>1, LeavesParsed
<1>11. Accepted(Parsed(Leaves[11]))
    <2>1. Accepted(L("text", "ilike", <<<<"%", "B">>>>)) BY AcceptedIs DEF Text, Ordered
    <2>2. QED BY <2>1, LeavesParsed
<1>12. Accepted(Parsed(Leaves[12]))
    <2>1. Accepted(L("text", "contains", <<<<"b">>>>)) BY AcceptedIs DEF Text, Ordered
    <2>2. QED BY <2>1, LeavesParsed
<1>13. Accepted(Parsed(Leaves[13]))
    <2>1. Accepted(L("text", "starts", <<a>>)) BY AcceptedIs DEF Text, Ordered
    <2>2. QED BY <2>1, LeavesParsed
<1>14. Accepted(Parsed(Leaves[14]))
    <2>1. Accepted(L("text", "ends", <<a>>)) BY AcceptedIs DEF Text, Ordered
    <2>2. QED BY <2>1, LeavesParsed
<1>15. Accepted(Parsed(Leaves[15]))
    <2>1. Accepted(L("text", "is null", <<>>)) BY AcceptedIs DEF Text, Ordered
    <2>2. QED BY <2>1, LeavesParsed
<1>16. Accepted(Parsed(Leaves[16]))
    <2>1. Accepted(L("num", "is not null", <<>>)) BY AcceptedIs DEF Text, Ordered
    <2>2. QED BY <2>1, LeavesParsed
<1>17. Accepted(Parsed(Leaves[17]))
    <2>1. Accepted(L("flag", "==", <<TRUE>>)) BY AcceptedIs DEF Text, Ordered
    <2>2. QED BY <2>1, LeavesParsed
<1>19. ~Accepted(Parsed(Leaves[19]))
    <2>0. "num" # "text" /\ "num" # "flag" /\ Len(<<1>>) # 2 OBVIOUS
    <2>1. ~Accepted(L("num", "between", <<1>>)) BY <2>0, AcceptedIs, Zenon
    <2>2. QED BY <2>1, LeavesParsed
<1>20. Accepted(Parsed(Leaves[20]))
    <2>1. Accepted(L("text", "starts", <<<<"%", "b">>>>)) BY AcceptedIs DEF Text, Ordered
    <2>2. QED BY <2>1, LeavesParsed
<1>21. ~Accepted(Parsed(Leaves[21]))
    <2>0. "text" # "num" /\ "text" # "flag" /\ "gt" \notin Text BY DEF Text
    <2>1. ~Accepted(L("text", "gt", <<a>>)) BY <2>0, AcceptedIs, Zenon
    <2>2. QED BY <2>1, LeavesParsed
<1>22. ~Accepted(Parsed(Leaves[22]))
    <2>0. "secret" # "text" /\ "secret" # "num" /\ "secret" # "flag" OBVIOUS
    <2>1. ~Accepted(L("secret", "==", <<a>>)) BY <2>0, AcceptedIs, Zenon
    <2>2. QED BY <2>1, LeavesParsed
<1>23. ~Accepted(Parsed(Leaves[23]))
    <2>0. "other" # "text" /\ "other" # "num" /\ "other" # "flag" OBVIOUS
    <2>1. ~Accepted(L("other", "==", <<a>>)) BY <2>0, AcceptedIs, Zenon
    <2>2. QED BY <2>1, LeavesParsed
<1>24. SUFFICES ASSUME NEW n \in 1..24, n # 18, n # 24, Taken(Leaves[n]) PROVE Accepted(Parsed(Leaves[n])) <=> n \in Sensible
    BY LeavesAre, LeavesParsed
<1>25. n \in {1, 2, 3, 4, 5, 6, 7, 8, 9, 10, 11, 12, 13, 14, 15, 16, 17, 19, 20, 21, 22, 23} BY <1>24
<1>26. QED BY <1>25, <1>1, <1>2, <1>3, <1>4, <1>5, <1>6, <1>7, <1>8, <1>9, <1>10, <1>11, <1>12, <1>13, <1>14, <1>15, <1>16, <1>17, <1>19, <1>20, <1>21, <1>22, <1>23 DEF Sensible

\* The SQL operator of each operator.
LEMMA ComparesAre ==
    /\ Compare["=="] = "="
    /\ Compare["gt"] = ">"
    /\ Compare["ge"] = ">="
    /\ Compare["lt"] = "<"
    /\ Compare["le"] = "<="
    /\ Compare["in"] = "IN"
    /\ Compare["out"] = "NOT IN"
    /\ Compare["like"] = "LIKE"
    /\ Compare["ilike"] = "ILIKE"
    /\ Compare["contains"] = "ILIKE"
    /\ Compare["starts"] = "ILIKE"
    /\ Compare["ends"] = "ILIKE"
    /\ Compare["!="] = "!="
    /\ Compare["between"] = "between"
    /\ Compare["is null"] = "is null"
    /\ Compare["is not null"] = "is not null"
<1> USE DEF Compare, Text, Ordered, LikeOps
<1>1. Compare["=="] = "=" OBVIOUS
<1>2. Compare["gt"] = ">" OBVIOUS
<1>3. Compare["ge"] = ">=" OBVIOUS
<1>4. Compare["lt"] = "<" OBVIOUS
<1>5. Compare["le"] = "<=" OBVIOUS
<1>6. Compare["in"] = "IN" OBVIOUS
<1>7. Compare["out"] = "NOT IN" OBVIOUS
<1>8. Compare["like"] = "LIKE" OBVIOUS
<1>9. Compare["ilike"] = "ILIKE" OBVIOUS
<1>10. Compare["contains"] = "ILIKE" OBVIOUS
<1>11. Compare["starts"] = "ILIKE" OBVIOUS
<1>12. Compare["ends"] = "ILIKE" OBVIOUS
<1>13. Compare["!="] = "!=" OBVIOUS
<1>14. Compare["between"] = "between" OBVIOUS
<1>15. Compare["is null"] = "is null" OBVIOUS
<1>16. Compare["is not null"] = "is not null" OBVIOUS
<1>17. QED BY <1>1, <1>2, <1>3, <1>4, <1>5, <1>6, <1>7, <1>8, <1>9, <1>10, <1>11, <1>12, <1>13, <1>14, <1>15, <1>16

\* The column, the comparison and the values of what is built for a comparison.
Is(l, col, cmp, binds) == l.field = col /\ Compare[l.op] = cmp /\ Bound(l) = binds

\* What is bound for each comparison that makes sense.
LEMMA LeavesBound ==
    /\ Is(Parsed(Leaves[1]), "text", "=", <<a>>)
    /\ Is(Parsed(Leaves[2]), "num", ">", <<1>>)
    /\ Is(Parsed(Leaves[3]), "text", "!=", <<a>>)
    /\ Is(Parsed(Leaves[4]), "num", ">=", <<2>>)
    /\ Is(Parsed(Leaves[5]), "num", "<", <<2>>)
    /\ Is(Parsed(Leaves[6]), "num", "<=", <<1>>)
    /\ Is(Parsed(Leaves[7]), "text", "IN", <<a, <<"A", "b">>>>)
    /\ Is(Parsed(Leaves[8]), "num", "NOT IN", <<1, 3>>)
    /\ Is(Parsed(Leaves[9]), "num", "between", <<2, 3>>)
    /\ Is(Parsed(Leaves[10]), "text", "LIKE", <<<<"A", "%">>>>)
    /\ Is(Parsed(Leaves[11]), "text", "ILIKE", <<<<"%", "B">>>>)
    /\ Is(Parsed(Leaves[12]), "text", "ILIKE", <<<<"%", "b", "%">>>>)
    /\ Is(Parsed(Leaves[13]), "text", "ILIKE", <<<<"a", "%">>>>)
    /\ Is(Parsed(Leaves[14]), "text", "ILIKE", <<<<"%", "a">>>>)
    /\ Is(Parsed(Leaves[15]), "text", "is null", <<>>)
    /\ Is(Parsed(Leaves[16]), "num", "is not null", <<>>)
    /\ Is(Parsed(Leaves[17]), "flag", "=", <<TRUE>>)
    /\ Is(Parsed(Leaves[20]), "text", "ILIKE", <<<<"%", "b", "%">>>>)
<1>1. Is(Parsed(Leaves[1]), "text", "=", <<a>>)
    <2>1. Is(L("text", "==", <<a>>), "text", "=", <<a>>) BY ComparesAre DEF Is, L, Bound, a
    <2>2. QED BY <2>1, LeavesParsed
<1>2. Is(Parsed(Leaves[2]), "num", ">", <<1>>)
    <2>1. Is(L("num", "gt", <<1>>), "num", ">", <<1>>) BY ComparesAre DEF Is, L, Bound, a
    <2>2. QED BY <2>1, LeavesParsed
<1>3. Is(Parsed(Leaves[3]), "text", "!=", <<a>>)
    <2>1. Is(L("text", "!=", <<a>>), "text", "!=", <<a>>) BY ComparesAre DEF Is, L, Bound, a
    <2>2. QED BY <2>1, LeavesParsed
<1>4. Is(Parsed(Leaves[4]), "num", ">=", <<2>>)
    <2>1. Is(L("num", "ge", <<2>>), "num", ">=", <<2>>) BY ComparesAre DEF Is, L, Bound, a
    <2>2. QED BY <2>1, LeavesParsed
<1>5. Is(Parsed(Leaves[5]), "num", "<", <<2>>)
    <2>1. Is(L("num", "lt", <<2>>), "num", "<", <<2>>) BY ComparesAre DEF Is, L, Bound, a
    <2>2. QED BY <2>1, LeavesParsed
<1>6. Is(Parsed(Leaves[6]), "num", "<=", <<1>>)
    <2>1. Is(L("num", "le", <<1>>), "num", "<=", <<1>>) BY ComparesAre DEF Is, L, Bound, a
    <2>2. QED BY <2>1, LeavesParsed
<1>7. Is(Parsed(Leaves[7]), "text", "IN", <<a, <<"A", "b">>>>)
    <2>1. Is(L("text", "in", <<a, <<"A", "b">>>>), "text", "IN", <<a, <<"A", "b">>>>) BY ComparesAre DEF Is, L, Bound, a
    <2>2. QED BY <2>1, LeavesParsed
<1>8. Is(Parsed(Leaves[8]), "num", "NOT IN", <<1, 3>>)
    <2>1. Is(L("num", "out", <<1, 3>>), "num", "NOT IN", <<1, 3>>) BY ComparesAre DEF Is, L, Bound, a
    <2>2. QED BY <2>1, LeavesParsed
<1>9. Is(Parsed(Leaves[9]), "num", "between", <<2, 3>>)
    <2>1. Is(L("num", "between", <<2, 3>>), "num", "between", <<2, 3>>) BY ComparesAre DEF Is, L, Bound, a
    <2>2. QED BY <2>1, LeavesParsed
<1>10. Is(Parsed(Leaves[10]), "text", "LIKE", <<<<"A", "%">>>>)
    <2>1. Is(L("text", "like", <<<<"A", "%">>>>), "text", "LIKE", <<<<"A", "%">>>>) BY ComparesAre DEF Is, L, Bound, a
    <2>2. QED BY <2>1, LeavesParsed
<1>11. Is(Parsed(Leaves[11]), "text", "ILIKE", <<<<"%", "B">>>>)
    <2>1. Is(L("text", "ilike", <<<<"%", "B">>>>), "text", "ILIKE", <<<<"%", "B">>>>) BY ComparesAre DEF Is, L, Bound, a
    <2>2. QED BY <2>1, LeavesParsed
<1>12. Is(Parsed(Leaves[12]), "text", "ILIKE", <<<<"%", "b", "%">>>>)
    <2>0. <<"%">> \o <<"b">> \o <<"%">> = <<"%", "b", "%">> BY PutTogether
    <2>1. Is(L("text", "contains", <<<<"b">>>>), "text", "ILIKE", <<<<"%", "b", "%">>>>) BY <2>0, ComparesAre DEF Is, L, Bound, a
    <2>2. QED BY <2>1, LeavesParsed
<1>13. Is(Parsed(Leaves[13]), "text", "ILIKE", <<<<"a", "%">>>>)
    <2>0. <<"a">> \o <<"%">> = <<"a", "%">> BY PutTogether
    <2>1. Is(L("text", "starts", <<a>>), "text", "ILIKE", <<<<"a", "%">>>>) BY <2>0, ComparesAre DEF Is, L, Bound, a
    <2>2. QED BY <2>1, LeavesParsed
<1>14. Is(Parsed(Leaves[14]), "text", "ILIKE", <<<<"%", "a">>>>)
    <2>0. <<"%">> \o <<"a">> = <<"%", "a">> BY PutTogether
    <2>1. Is(L("text", "ends", <<a>>), "text", "ILIKE", <<<<"%", "a">>>>) BY <2>0, ComparesAre DEF Is, L, Bound, a
    <2>2. QED BY <2>1, LeavesParsed
<1>15. Is(Parsed(Leaves[15]), "text", "is null", <<>>)
    <2>1. Is(L("text", "is null", <<>>), "text", "is null", <<>>) BY ComparesAre DEF Is, L, Bound, a
    <2>2. QED BY <2>1, LeavesParsed
<1>16. Is(Parsed(Leaves[16]), "num", "is not null", <<>>)
    <2>1. Is(L("num", "is not null", <<>>), "num", "is not null", <<>>) BY ComparesAre DEF Is, L, Bound, a
    <2>2. QED BY <2>1, LeavesParsed
<1>17. Is(Parsed(Leaves[17]), "flag", "=", <<TRUE>>)
    <2>1. Is(L("flag", "==", <<TRUE>>), "flag", "=", <<TRUE>>) BY ComparesAre DEF Is, L, Bound, a
    <2>2. QED BY <2>1, LeavesParsed
<1>20. Is(Parsed(Leaves[20]), "text", "ILIKE", <<<<"%", "b", "%">>>>)
    <2>0. <<"%", "b">> \o <<"%">> = <<"%", "b", "%">> BY PutTogether
    <2>1. Is(L("text", "starts", <<<<"%", "b">>>>), "text", "ILIKE", <<<<"%", "b", "%">>>>) BY <2>0, ComparesAre DEF Is, L, Bound, a
    <2>2. QED BY <2>1, LeavesParsed
<1>18. QED BY <1>20, <1>1, <1>2, <1>3, <1>4, <1>5, <1>6, <1>7, <1>8, <1>9, <1>10, <1>11, <1>12, <1>13, <1>14, <1>15, <1>16, <1>17

\* What is bound for a comparison is a sequence.
LEMMA BoundSeq ==
    \A n \in Sensible : ASeq(Bound(Parsed(Leaves[n])))
<1>1. \A x, y : <<>> \in Seq({}) /\ <<x>> \in Seq({x}) /\ <<x, y>> \in Seq({x, y}) OBVIOUS
<1>2. ASeq(<<>>) /\ \A x, y : ASeq(<<x>>) /\ ASeq(<<x, y>>) BY <1>1 DEF ASeq
<1>3. SUFFICES ASSUME NEW n \in Sensible PROVE ASeq(Bound(Parsed(Leaves[n]))) OBVIOUS
<1>4. ASeq(Bound(Parsed(Leaves[1]))) BY <1>2, LeavesBound DEF Is
<1>5. ASeq(Bound(Parsed(Leaves[2]))) BY <1>2, LeavesBound DEF Is
<1>6. ASeq(Bound(Parsed(Leaves[3]))) BY <1>2, LeavesBound DEF Is
<1>7. ASeq(Bound(Parsed(Leaves[4]))) BY <1>2, LeavesBound DEF Is
<1>8. ASeq(Bound(Parsed(Leaves[5]))) BY <1>2, LeavesBound DEF Is
<1>9. ASeq(Bound(Parsed(Leaves[6]))) BY <1>2, LeavesBound DEF Is
<1>10. ASeq(Bound(Parsed(Leaves[7]))) BY <1>2, LeavesBound DEF Is
<1>11. ASeq(Bound(Parsed(Leaves[8]))) BY <1>2, LeavesBound DEF Is
<1>12. ASeq(Bound(Parsed(Leaves[9]))) BY <1>2, LeavesBound DEF Is
<1>13. ASeq(Bound(Parsed(Leaves[10]))) BY <1>2, LeavesBound DEF Is
<1>14. ASeq(Bound(Parsed(Leaves[11]))) BY <1>2, LeavesBound DEF Is
<1>15. ASeq(Bound(Parsed(Leaves[12]))) BY <1>2, LeavesBound DEF Is
<1>16. ASeq(Bound(Parsed(Leaves[13]))) BY <1>2, LeavesBound DEF Is
<1>17. ASeq(Bound(Parsed(Leaves[14]))) BY <1>2, LeavesBound DEF Is
<1>18. ASeq(Bound(Parsed(Leaves[15]))) BY <1>2, LeavesBound DEF Is
<1>19. ASeq(Bound(Parsed(Leaves[16]))) BY <1>2, LeavesBound DEF Is
<1>20. ASeq(Bound(Parsed(Leaves[17]))) BY <1>2, LeavesBound DEF Is
<1>23. ASeq(Bound(Parsed(Leaves[20]))) BY <1>2, LeavesBound DEF Is
<1>21. n \in {1, 2, 3, 4, 5, 6, 7, 8, 9, 10, 11, 12, 13, 14, 15, 16, 17, 20} BY <1>3 DEF Sensible
<1>22. QED BY <1>21, <1>23, <1>4, <1>5, <1>6, <1>7, <1>8, <1>9, <1>10, <1>11, <1>12, <1>13, <1>14, <1>15, <1>16, <1>17, <1>18, <1>19, <1>20

-----------------------------------------------------------------------------
(***************************************************************************)
(* The builder.  A query is a record; once it has failed it stays so.      *)
(***************************************************************************)
Builder(b) == b = [ok |-> b.ok, atoms |-> b.atoms, params |-> b.params, next |-> b.next, sql |-> b.sql]
AtomOf(b, l) == [col |-> l.field, cmp |-> Compare[l.op], phs |-> ph(b, l), cast |-> cast(l.op, Fields[l.field].ty)]

\* What a separator or a parenthesis adds to a query.
LEMMA PutIs ==
    ASSUME NEW b, NEW t, Builder(b)
    PROVE  Put(b, t) = [ok |-> b.ok, atoms |-> b.atoms, params |-> b.params, next |-> b.next, sql |-> Append(b.sql, Sym(t))]
<1> DEFINE x == Append(b.sql, Sym(t))
           c == [ok |-> b.ok, atoms |-> b.atoms, params |-> b.params, next |-> b.next, sql |-> b.sql]
<1>1. b = c BY DEF Builder
<1>2. Put(b, t) = [b EXCEPT !.sql = x] BY DEF Put
<1>3. ASSUME NEW y PROVE [c EXCEPT !.sql = y] = [ok |-> b.ok, atoms |-> b.atoms, params |-> b.params, next |-> b.next, sql |-> y]
    OBVIOUS
<1>4. [c EXCEPT !.sql = x] = [ok |-> b.ok, atoms |-> b.atoms, params |-> b.params, next |-> b.next, sql |-> x]
    <2> HIDE DEF x, c
    <2>1. QED BY <1>3
<1> HIDE DEF c, x
<1>5. Put(b, t) = [c EXCEPT !.sql = x] BY <1>1, <1>2, Zenon
<1>6. QED BY <1>4, <1>5 DEF x

\* What a comparison adds to a query, or that it is refused.
LEMMA LeafBuilt ==
    ASSUME NEW b, NEW l, Builder(b)
    PROVE  /\ b.ok /\ Accepted(l) =>
                  build_leaf(b, l) = [ok |-> b.ok, atoms |-> Append(b.atoms, AtomOf(b, l)), params |-> b.params \o Bound(l),
                                      next |-> b.next + Len(Bound(l)), sql |-> Append(b.sql, [t |-> "leaf", n |-> Len(b.atoms) + 1])]
           /\ ~(b.ok /\ Accepted(l)) =>
                  build_leaf(b, l) = [ok |-> FALSE, atoms |-> b.atoms, params |-> b.params, next |-> b.next, sql |-> b.sql]
<1>1. CASE b.ok /\ Accepted(l)
    <2>1. build_leaf(b, l) = [b EXCEPT !.atoms = Append(@, [col |-> l.field, cmp |-> Compare[l.op], phs |-> ph(b, l),
                                                            cast |-> cast(l.op, Fields[l.field].ty)]),
                                       !.params = @ \o Bound(l), !.next = @ + Len(Bound(l)),
                                       !.sql = Append(@, [t |-> "leaf", n |-> Len(b.atoms) + 1])]
        BY <1>1, Zenon DEF build_leaf, Accepted
    <2>2. QED BY <1>1, <2>1 DEF Builder, AtomOf
<1>2. CASE ~(b.ok /\ Accepted(l))
    <2>1. build_leaf(b, l) = [b EXCEPT !.ok = FALSE]
        BY <1>2, Zenon DEF build_leaf, Accepted
    <2>2. QED BY <1>2, <2>1 DEF Builder
<1>3. QED BY <1>1, <1>2

(***************************************************************************)
(* An atom stands for a comparison when it compares the same column and    *)
(* its placeholders hold the values of the comparison; the placeholders of *)
(* a fragment fit when each of 1..next - 1 is used by one place.           *)
(***************************************************************************)
Placed(x, l, params, from) ==
    /\ x.col = l.field /\ x.cmp = Compare[l.op] /\ DOMAIN x.phs = DOMAIN Bound(l)
    /\ \A i \in DOMAIN Bound(l) : \E m \in 1..Len(params) : x.phs[i] = from + m - 1 /\ params[m] = Bound(l)[i]
Cast(x) == x.col \in {"num", "flag"} => x.cast # "none"
Fitting(atoms, next) ==
    /\ \A n \in 1..Len(atoms) : Cast(atoms[n]) /\ \A i \in DOMAIN atoms[n].phs : atoms[n].phs[i] \in 1..(next - 1)
    /\ \A m \in 1..(next - 1) : \E n \in 1..Len(atoms) : \E i \in DOMAIN atoms[n].phs : atoms[n].phs[i] = m
    /\ \A n \in 1..Len(atoms), k \in 1..Len(atoms) : \A i \in DOMAIN atoms[n].phs, j \in DOMAIN atoms[k].phs :
           atoms[n].phs[i] = atoms[k].phs[j] => n = k /\ i = j

\* An atom keeps its values when parameters are added.
LEMMA PlacedGrows ==
    ASSUME NEW x, NEW l, NEW params, NEW from, NEW more, Placed(x, l, params, from), ASeq(params), ASeq(more)
    PROVE  Placed(x, l, params \o more, from)
<1>1. Len(params \o more) = Len(params) + Len(more) /\ \A i \in 1..Len(params) : (params \o more)[i] = params[i]
    BY ConcatAny
<1>2. Len(params) \in Nat /\ Len(more) \in Nat BY ASeqIs DEF IsSeq
<1>3. \A m \in 1..Len(params) : m \in 1..Len(params \o more) BY <1>1, <1>2
<1>4. QED BY <1>1, <1>3 DEF Placed

\* A new atom has its values among the parameters added with it.
LEMMA PlacedHere ==
    ASSUME NEW b, NEW l, NEW from \in Nat, ASeq(b.params), ASeq(Bound(l)), b.next = from + Len(b.params)
    PROVE  Placed(AtomOf(b, l), l, b.params \o Bound(l), from)
<1> DEFINE v == Bound(l)
           x == AtomOf(b, l)
           r == b.params \o v
<1>1. Len(r) = Len(b.params) + Len(v) /\ \A i \in 1..Len(v) : r[Len(b.params) + i] = v[i]
    BY ConcatAny
<1>2. Len(b.params) \in Nat /\ Len(v) \in Nat /\ DOMAIN v = 1..Len(v) BY ASeqIs DEF IsSeq
<1>3. x.col = l.field /\ x.cmp = Compare[l.op] /\ x.phs = ph(b, l) BY DEF AtomOf
<1>4. DOMAIN ph(b, l) = DOMAIN v /\ \A i \in DOMAIN v : ph(b, l)[i] = b.next + i - 1 BY DEF ph
<1> HIDE DEF v, x, r
<1>5. ASSUME NEW i \in DOMAIN v PROVE \E m \in 1..Len(r) : x.phs[i] = from + m - 1 /\ r[m] = v[i]
    <2> DEFINE m == Len(b.params) + i
    <2>1. i \in 1..Len(v) BY <1>2
    <2>2. m \in 1..Len(r) /\ b.next + i - 1 = from + m - 1 BY <1>1, <1>2, <2>1
    <2>3. x.phs[i] = b.next + i - 1 BY <1>3, <1>4
    <2>4. r[m] = v[i] BY <1>1, <2>1
    <2>5. QED BY <2>2, <2>3, <2>4
<1>6. QED BY <1>3, <1>4, <1>5 DEF Placed, v, x, r

\* Placeholders fit still when an atom takes the next ones.
LEMMA FittingGrows ==
    ASSUME NEW atoms, NEW next \in Nat, NEW x, NEW n \in Nat, ASeq(atoms), next >= 1, Fitting(atoms, next), Cast(x),
           DOMAIN x.phs = 1..n, \A i \in 1..n : x.phs[i] = next + i - 1
    PROVE  Fitting(Append(atoms, x), next + n)
<1> DEFINE N == Len(atoms)
           r == Append(atoms, x)
<1>1. N \in Nat BY ASeqIs DEF IsSeq
<1>2. Len(r) = N + 1 /\ (\A i \in 1..N : r[i] = atoms[i]) /\ r[N + 1] = x BY AppendAny
<1> HIDE DEF N, r
<1>3. \A k \in 1..Len(r) : k \in 1..N \/ k = N + 1 BY <1>1, <1>2
<1>4. \A k \in 1..N : k \in 1..Len(r) BY <1>1, <1>2
<1>5. N + 1 \in 1..Len(r) BY <1>1, <1>2
<1>6. /\ \A k \in 1..N : Cast(atoms[k]) /\ \A i \in DOMAIN atoms[k].phs : atoms[k].phs[i] \in 1..(next - 1)
      /\ \A m \in 1..(next - 1) : \E k \in 1..N : \E i \in DOMAIN atoms[k].phs : atoms[k].phs[i] = m
      /\ \A k \in 1..N, l \in 1..N : \A i \in DOMAIN atoms[k].phs, j \in DOMAIN atoms[l].phs :
             atoms[k].phs[i] = atoms[l].phs[j] => k = l /\ i = j
    BY DEF Fitting, N
<1>7. ASSUME NEW k \in 1..Len(r) PROVE Cast(r[k]) /\ \A i \in DOMAIN r[k].phs : r[k].phs[i] \in 1..((next + n) - 1)
    <2>1. CASE k \in 1..N
        <3>1. Cast(r[k]) BY <1>2, <1>6, <2>1
        <3>2. ASSUME NEW i \in DOMAIN r[k].phs PROVE r[k].phs[i] \in 1..((next + n) - 1)
            <4>1. r[k].phs[i] \in 1..(next - 1) BY <1>2, <1>6, <2>1
            <4>2. QED BY <4>1
        <3>3. QED BY <3>1, <3>2
    <2>2. CASE k = N + 1
        <3>1. r[k] = x BY <1>2, <2>2
        <3>2. ASSUME NEW i \in 1..n PROVE x.phs[i] \in 1..((next + n) - 1)
            <4>1. x.phs[i] = next + i - 1 OBVIOUS
            <4>2. QED BY <4>1
        <3>3. QED BY <3>1, <3>2
    <2>3. QED BY <1>3, <2>1, <2>2
<1>8. ASSUME NEW m \in 1..((next + n) - 1) PROVE \E k \in 1..Len(r) : \E i \in DOMAIN r[k].phs : r[k].phs[i] = m
    <2>1. CASE m <= next - 1
        <3>1. m \in 1..(next - 1) BY <2>1
        <3>2. PICK k \in 1..N : \E i \in DOMAIN atoms[k].phs : atoms[k].phs[i] = m BY <1>6, <3>1
        <3>3. QED BY <1>2, <1>4, <3>2
    <2>2. CASE m > next - 1
        <3> DEFINE i == m - next + 1
        <3>1. i \in 1..n /\ next + i - 1 = m BY <2>2
        <3> HIDE DEF i
        <3>2. x.phs[i] = m BY <3>1
        <3>3. QED BY <1>2, <1>5, <3>1, <3>2
    <2>3. QED BY <2>1, <2>2
<1>9. ASSUME NEW k \in 1..Len(r), NEW l \in 1..Len(r), NEW i \in DOMAIN r[k].phs, NEW j \in DOMAIN r[l].phs,
             r[k].phs[i] = r[l].phs[j]
      PROVE  k = l /\ i = j
    <2>1. CASE k \in 1..N /\ l \in 1..N
        <3>1. r[k] = atoms[k] /\ r[l] = atoms[l] BY <1>2, <2>1
        <3>2. i \in DOMAIN atoms[k].phs /\ j \in DOMAIN atoms[l].phs /\ atoms[k].phs[i] = atoms[l].phs[j] BY <1>9, <3>1
        <3>3. QED BY <1>6, <2>1, <3>2
    <2>2. \A h \in 1..N : \A g \in DOMAIN r[h].phs : r[h].phs[g] \in 1..(next - 1) BY <1>2, <1>6
    <2>3. ASSUME NEW g \in DOMAIN r[N + 1].phs PROVE g \in 1..n /\ r[N + 1].phs[g] = next + g - 1 /\ r[N + 1].phs[g] \notin 1..(next - 1)
        <3>1. r[N + 1] = x BY <1>2
        <3>2. g \in 1..n BY <2>3, <3>1
        <3>3. x.phs[g] = next + g - 1 BY <3>2
        <3>4. x.phs[g] \notin 1..(next - 1) BY <3>2, <3>3
        <3>5. QED BY <3>1, <3>2, <3>3, <3>4
    <2>4. CASE k = N + 1 /\ l = N + 1
        <3>1. i \in 1..n /\ j \in 1..n /\ next + i - 1 = next + j - 1 BY <1>9, <2>3, <2>4
        <3>2. i = j BY <3>1
        <3>3. QED BY <2>4, <3>2
    <2>5. CASE k \in 1..N /\ l = N + 1
        <3>1. r[k].phs[i] \in 1..(next - 1) BY <2>2, <2>5
        <3>2. r[l].phs[j] \notin 1..(next - 1) BY <2>3, <2>5
        <3>3. QED BY <1>9, <3>1, <3>2
    <2>6. CASE k = N + 1 /\ l \in 1..N
        <3>1. r[l].phs[j] \in 1..(next - 1) BY <2>2, <2>6
        <3>2. r[k].phs[i] \notin 1..(next - 1) BY <2>3, <2>6
        <3>3. QED BY <1>9, <3>1, <3>2
    <2>7. QED BY <1>3, <2>1, <2>4, <2>5, <2>6
<1>10. Fitting(r, next + n) BY <1>7, <1>8, <1>9 DEF Fitting
<1>11. QED BY <1>10 DEF r

\* A value that is not text is cast.
LEMMA CastFits ==
    ASSUME NEW b, NEW l, Accepted(l)
    PROVE  Cast(AtomOf(b, l))
<1>1. AtomOf(b, l).col = l.field /\ AtomOf(b, l).cast = cast(l.op, Fields[l.field].ty) BY DEF AtomOf
<1>2. CASE l.field = "num"
    <2>1. op_valid_for_type(l.op, "Timestamp") BY <1>2, FieldsAre DEF Accepted
    <2>2. l.op \in Ordered BY <2>1 DEF op_valid_for_type
    <2>3. l.op \notin LikeOps BY <2>2 DEF Ordered, LikeOps
    <2>4. cast(l.op, "Timestamp") = "Timestamp" BY <2>3 DEF cast
    <2>5. QED BY <1>1, <1>2, <2>4, FieldsAre DEF Cast
<1>3. CASE l.field = "flag"
    <2>1. op_valid_for_type(l.op, "Bool") BY <1>3, FieldsAre DEF Accepted
    <2>2. l.op \in {"==", "!=", "is null", "is not null"} BY <2>1 DEF op_valid_for_type
    <2>3. l.op \notin LikeOps BY <2>2 DEF LikeOps
    <2>4. cast(l.op, "Bool") = "Bool" BY <2>3 DEF cast
    <2>5. QED BY <1>1, <1>3, <2>4, FieldsAre DEF Cast
<1>4. CASE l.field \notin {"num", "flag"} BY <1>1, <1>4 DEF Cast
<1>5. QED BY <1>2, <1>3, <1>4

(***************************************************************************)
(* A fragment b built from b0 with the first j tokens of a node.           *)
(***************************************************************************)
Denotes(atoms, params, from, y, token) ==
    /\ y.t = token.t
    /\ token.t = "leaf" => y.n \in 1..Len(atoms) /\ Placed(atoms[y.n], Parsed(Leaves[token.n]), params, from)
Built(b, b0, node, from, j) ==
    /\ b.ok /\ ASeq(b.atoms) /\ ASeq(b.params) /\ ASeq(b.sql)
    /\ Len(b.sql) = Len(b0.sql) + j /\ Len(b0.atoms) <= Len(b.atoms)
    /\ b.next = from + Len(b.params)
    /\ \A i \in 1..Len(b0.sql) : b.sql[i] = b0.sql[i]
    /\ \A i \in 1..Len(b0.atoms) : b.atoms[i] = b0.atoms[i]
    /\ \A k \in 1..j : Denotes(b.atoms, b.params, from, b.sql[Len(b0.sql) + k], node[k])
    /\ Fitting(b.atoms, b.next)
Refuses(token) == token.t = "leaf" /\ token.n \notin Sensible

\* What has been written keeps its meaning when more is written.
LEMMA DenotesStill ==
    ASSUME NEW atoms, NEW x, NEW params, NEW more, NEW from, NEW y, NEW token, ASeq(atoms), ASeq(params), ASeq(more),
           Denotes(atoms, params, from, y, token)
    PROVE  Denotes(Append(atoms, x), params \o more, from, y, token)
<1>1. CASE token.t # "leaf" BY <1>1 DEF Denotes
<1>2. CASE token.t = "leaf"
    <2>1. y.n \in 1..Len(atoms) /\ Placed(atoms[y.n], Parsed(Leaves[token.n]), params, from) BY <1>2 DEF Denotes
    <2>2. Placed(atoms[y.n], Parsed(Leaves[token.n]), params \o more, from) BY <2>1, PlacedGrows
    <2>3. Append(atoms, x)[y.n] = atoms[y.n] /\ Len(Append(atoms, x)) = Len(atoms) + 1 BY <2>1, AppendAny
    <2>4. Len(atoms) \in Nat BY ASeqIs DEF IsSeq
    <2>5. y.n \in 1..Len(Append(atoms, x)) BY <2>1, <2>3, <2>4
    <2>6. QED BY <1>2, <2>2, <2>3, <2>5 DEF Denotes
<1>3. QED BY <1>1, <1>2

\* Writing a separator or a parenthesis.
LEMMA SeparatorStep ==
    ASSUME NEW b, NEW b0, NEW node, NEW from \in Nat, NEW j \in Nat, Builder(b), Built(b, b0, node, from, j), Len(b0.sql) \in Nat,
           node[j + 1].t # "leaf"
    PROVE  Built(build_token(b, node[j + 1]), b0, node, from, j + 1)
<1> DEFINE y == Sym(node[j + 1].t)
           c == build_token(b, node[j + 1])
           m == Len(b0.sql)
<1>1. c = [ok |-> b.ok, atoms |-> b.atoms, params |-> b.params, next |-> b.next, sql |-> Append(b.sql, y)]
    BY PutIs DEF build_token
<1>2. c.ok = b.ok /\ c.atoms = b.atoms /\ c.params = b.params /\ c.next = b.next /\ c.sql = Append(b.sql, y) BY <1>1
<1> HIDE DEF c
<1>3. /\ b.ok /\ ASeq(b.atoms) /\ ASeq(b.params) /\ ASeq(b.sql)
      /\ Len(b.sql) = m + j /\ Len(b0.atoms) <= Len(b.atoms)
      /\ b.next = from + Len(b.params)
      /\ \A i \in 1..m : b.sql[i] = b0.sql[i]
      /\ \A i \in 1..Len(b0.atoms) : b.atoms[i] = b0.atoms[i]
      /\ \A k \in 1..j : Denotes(b.atoms, b.params, from, b.sql[m + k], node[k])
      /\ Fitting(b.atoms, b.next)
    BY DEF Built
<1>4. y.t = node[j + 1].t BY DEF Sym
<1> HIDE DEF y
<1>5. ASeq(c.sql) /\ Len(c.sql) = m + (j + 1) /\ (\A i \in 1..(m + j) : c.sql[i] = b.sql[i]) /\ c.sql[m + (j + 1)] = y
    <2>1. ASeq(c.sql) /\ Len(c.sql) = Len(b.sql) + 1 /\ (\A i \in 1..Len(b.sql) : c.sql[i] = b.sql[i]) /\ c.sql[Len(b.sql) + 1] = y
        BY <1>2, <1>3, AppendAny
    <2>2. (m + j) + 1 = m + (j + 1) OBVIOUS
    <2>3. QED BY <1>3, <2>1, <2>2
<1>6. \A i \in 1..m : c.sql[i] = b0.sql[i] BY <1>3, <1>5
<1>7. ASSUME NEW k \in 1..(j + 1) PROVE Denotes(c.atoms, c.params, from, c.sql[m + k], node[k])
    <2>1. CASE k \in 1..j
        <3>1. m + k \in 1..(m + j) BY <2>1
        <3>2. QED BY <1>2, <1>3, <1>5, <2>1, <3>1
    <2>2. CASE k = j + 1 BY <1>4, <1>5, <2>2 DEF Denotes
    <2>3. QED BY <2>1, <2>2
<1>8. QED BY <1>2, <1>3, <1>5, <1>6, <1>7 DEF Built, c

\* Writing a comparison.
LEMMA LeafStep ==
    ASSUME NEW b, NEW b0, NEW node, NEW from \in Nat, NEW j \in Nat, Builder(b), Built(b, b0, node, from, j), Len(b0.sql) \in Nat,
           from >= 1, Len(b0.atoms) \in Nat,
           node[j + 1].t = "leaf", node[j + 1].n \in Sensible
    PROVE  Built(build_token(b, node[j + 1]), b0, node, from, j + 1)
<1> DEFINE l == Parsed(Leaves[node[j + 1].n])
           x == AtomOf(b, l)
           y == [t |-> "leaf", n |-> Len(b.atoms) + 1]
           c == build_token(b, node[j + 1])
           m == Len(b0.sql)
           v == Bound(l)
<1>0. Accepted(l) /\ ASeq(v)
    <2>1. node[j + 1].n \in DOMAIN Leaves /\ node[j + 1].n \notin {18, 24} BY LeavesDomain
    <2>2. Taken(Leaves[node[j + 1].n]) BY <2>1, LeavesParsed
    <2>3. QED BY <2>1, <2>2, LeavesAccepted, BoundSeq
<1>3. /\ b.ok /\ ASeq(b.atoms) /\ ASeq(b.params) /\ ASeq(b.sql)
      /\ Len(b.sql) = m + j /\ Len(b0.atoms) <= Len(b.atoms)
      /\ b.next = from + Len(b.params)
      /\ \A i \in 1..m : b.sql[i] = b0.sql[i]
      /\ \A i \in 1..Len(b0.atoms) : b.atoms[i] = b0.atoms[i]
      /\ \A k \in 1..j : Denotes(b.atoms, b.params, from, b.sql[m + k], node[k])
      /\ Fitting(b.atoms, b.next)
    BY DEF Built
<1> HIDE DEF l
<1>1. c = [ok |-> b.ok, atoms |-> Append(b.atoms, x), params |-> b.params \o v, next |-> b.next + Len(v), sql |-> Append(b.sql, y)]
    <2>1. c = build_leaf(b, l) BY DEF build_token, l
    <2>2. QED BY <1>0, <1>3, <2>1, LeafBuilt
<1>2. c.ok = b.ok /\ c.atoms = Append(b.atoms, x) /\ c.params = b.params \o v /\ c.next = b.next + Len(v) /\ c.sql = Append(b.sql, y)
    BY <1>1
<1> HIDE DEF c, v
<1>4. y.t = "leaf" /\ y.n = Len(b.atoms) + 1 OBVIOUS
<1> HIDE DEF y
<1>5. ASeq(c.sql) /\ Len(c.sql) = m + (j + 1) /\ (\A i \in 1..(m + j) : c.sql[i] = b.sql[i]) /\ c.sql[m + (j + 1)] = y
    <2>0. ASeq(b.sql) /\ c.sql = Append(b.sql, y) /\ m \in Nat BY <1>2, <1>3
    <2> HIDE DEF m
    <2>1. ASeq(c.sql) /\ Len(c.sql) = Len(b.sql) + 1 /\ (\A i \in 1..Len(b.sql) : c.sql[i] = b.sql[i]) /\ c.sql[Len(b.sql) + 1] = y
        BY <2>0, AppendAny
    <2>2. (m + j) + 1 = m + (j + 1) BY <2>0
    <2>3. QED BY <1>3, <2>1, <2>2
<1>6. \A i \in 1..m : c.sql[i] = b0.sql[i] BY <1>3, <1>5
<1>7. Len(b.atoms) \in Nat /\ Len(b.params) \in Nat /\ Len(v) \in Nat /\ DOMAIN v = 1..Len(v) BY <1>0, <1>3, ASeqIs DEF IsSeq
<1>8. ASeq(c.atoms) /\ Len(c.atoms) = Len(b.atoms) + 1 /\ (\A i \in 1..Len(b.atoms) : c.atoms[i] = b.atoms[i])
      /\ c.atoms[Len(b.atoms) + 1] = x
    BY <1>2, <1>3, AppendAny
<1>9. ASeq(c.params) /\ Len(c.params) = Len(b.params) + Len(v) BY <1>0, <1>2, <1>3, ConcatAny
<1>10. Len(b0.atoms) <= Len(c.atoms) /\ \A i \in 1..Len(b0.atoms) : c.atoms[i] = b0.atoms[i]
    <2>1. \A i \in 1..Len(b0.atoms) : i \in 1..Len(b.atoms) BY <1>3, <1>7
    <2>2. QED BY <1>3, <1>7, <1>8, <2>1
<1>11. c.next = from + Len(c.params) BY <1>2, <1>3, <1>7, <1>9
<1>12. ASSUME NEW k \in 1..(j + 1) PROVE Denotes(c.atoms, c.params, from, c.sql[m + k], node[k])
    <2>1. CASE k \in 1..j
        <3>1. m + k \in 1..(m + j) BY <2>1
        <3>2. c.sql[m + k] = b.sql[m + k] BY <1>5, <3>1
        <3>3. Denotes(b.atoms, b.params, from, b.sql[m + k], node[k]) BY <1>3, <2>1
        <3>4. Denotes(c.atoms, c.params, from, b.sql[m + k], node[k]) BY <1>0, <1>2, <1>3, <3>3, DenotesStill
        <3>5. QED BY <3>2, <3>4
    <2>2. CASE k = j + 1
        <3>1. Placed(x, l, c.params, from) BY <1>0, <1>2, <1>3, PlacedHere DEF v
        <3>2. y.n \in 1..Len(c.atoms) /\ c.atoms[y.n] = x BY <1>4, <1>7, <1>8
        <3>3. Placed(c.atoms[y.n], l, c.params, from) BY <3>1, <3>2
        <3>4. Denotes(c.atoms, c.params, from, y, node[j + 1]) BY <1>4, <3>2, <3>3 DEF Denotes, l
        <3>5. QED BY <1>5, <2>2, <3>4
    <2>3. QED BY <2>1, <2>2
<1>13. Fitting(c.atoms, c.next)
    <2>1. Cast(x) BY <1>0, CastFits
    <2>2. x.phs = ph(b, l) BY DEF AtomOf
    <2>3. DOMAIN ph(b, l) = DOMAIN v /\ \A i \in DOMAIN v : ph(b, l)[i] = b.next + i - 1 BY DEF ph, v
    <2> HIDE DEF x
    <2>4. DOMAIN x.phs = 1..Len(v) /\ \A i \in 1..Len(v) : x.phs[i] = b.next + i - 1 BY <1>7, <2>2, <2>3
    <2>5. b.next \in Nat /\ b.next >= 1 BY <1>3, <1>7
    <2>6. QED BY <1>2, <1>3, <1>7, <2>1, <2>4, <2>5, FittingGrows
<1>14. QED BY <1>2, <1>3, <1>5, <1>6, <1>8, <1>9, <1>10, <1>11, <1>12, <1>13 DEF Built, c

\* A query that failed stays so, and a comparison without sense makes it fail.
LEMMA WrittenBuilder ==
    ASSUME NEW b, NEW token, Builder(b), token.t = "leaf" => token.n \in DOMAIN Leaves /\ Taken(Leaves[token.n])
    PROVE  /\ Builder(build_token(b, token))
           /\ (Refuses(token) \/ ~b.ok) => ~build_token(b, token).ok
<1> DEFINE c == build_token(b, token)
           l == Parsed(Leaves[token.n])
<1>1. CASE token.t # "leaf"
    <2>1. c = [ok |-> b.ok, atoms |-> b.atoms, params |-> b.params, next |-> b.next, sql |-> Append(b.sql, Sym(token.t))]
        BY <1>1, PutIs DEF build_token
    <2> HIDE DEF c
    <2>2. QED BY <1>1, <2>1 DEF Builder, Refuses, c
<1>2. CASE token.t = "leaf"
    <2>1. c = build_leaf(b, l) BY <1>2 DEF build_token
    <2>2. Refuses(token) => ~Accepted(l) BY <1>2, LeavesAccepted DEF Refuses
    <2> HIDE DEF c, l
    <2>3. CASE b.ok /\ Accepted(l)
        <3>1. c = [ok |-> b.ok, atoms |-> Append(b.atoms, AtomOf(b, l)), params |-> b.params \o Bound(l),
                   next |-> b.next + Len(Bound(l)), sql |-> Append(b.sql, [t |-> "leaf", n |-> Len(b.atoms) + 1])]
            BY <2>1, <2>3, LeafBuilt
        <3>2. QED BY <2>2, <2>3, <3>1 DEF Builder, c
    <2>4. CASE ~(b.ok /\ Accepted(l))
        <3>1. c = [ok |-> FALSE, atoms |-> b.atoms, params |-> b.params, next |-> b.next, sql |-> b.sql]
            BY <2>1, <2>4, LeafBuilt
        <3>2. QED BY <3>1 DEF Builder, c
    <2>5. QED BY <2>3, <2>4
<1>3. QED BY <1>1, <1>2

Folds(f, b0, node, n) == f = [i \in 0..n |-> IF i = 0 THEN b0 ELSE build_token(f[i - 1], node[i])]

\* The equation of build_node has a solution.
LEMMA FoldDefined ==
    ASSUME NEW n \in Nat, NEW b0, NEW node
    PROVE  \E f : Folds(f, b0, node, n)
<1> DEFINE S == {k \in 0..n : \E f : Folds(f, b0, node, k)}
<1>1. 0 \in S
    <2> DEFINE f == [i \in 0..0 |-> b0]
    <2>1. f = [i \in 0..0 |-> IF i = 0 THEN b0 ELSE build_token(f[i - 1], node[i])] OBVIOUS
    <2>2. Folds(f, b0, node, 0) BY <2>1, Zenon DEF Folds
    <2> HIDE DEF f
    <2>3. QED BY <2>2
<1>2. ASSUME NEW k \in 1..n, k - 1 \in S PROVE k \in S
    <2>1. PICK f : Folds(f, b0, node, k - 1) BY <1>2
    <2> DEFINE h(i) == IF i = 0 THEN b0 ELSE build_token(f[i - 1], node[i])
               g == [i \in 0..k |-> h(i)]
    <2>2. f = [i \in 0..(k - 1) |-> h(i)] BY <2>1 DEF Folds
    <2>3. ASSUME NEW i \in 0..k PROVE h(i) = IF i = 0 THEN b0 ELSE build_token(g[i - 1], node[i])
        <3>1. CASE i = 0 BY <3>1
        <3>2. CASE i # 0
            <4>1. i - 1 \in 0..(k - 1) /\ i - 1 \in 0..k BY <3>2
            <4> HIDE DEF h
            <4>2. g[i - 1] = h(i - 1) /\ f[i - 1] = h(i - 1) BY <2>2, <4>1
            <4> HIDE DEF g
            <4>3. QED BY <3>2, <4>2 DEF h
        <3>3. QED BY <3>1, <3>2
    <2> HIDE DEF h
    <2>4. g = [i \in 0..k |-> IF i = 0 THEN b0 ELSE build_token(g[i - 1], node[i])] BY <2>3
    <2> HIDE DEF g
    <2>5. Folds(g, b0, node, k) BY <2>4 DEF Folds
    <2>6. QED BY <2>5
<1> HIDE DEF S
<1>3. n \in S
    <2>1. 0..n \subseteq S BY <1>1, <1>2, Induct
    <2>2. QED BY <2>1
<1>4. QED BY <1>3 DEF S

\* build_node writes the tokens of a node one after the other.
LEMMA BuildFolds ==
    ASSUME NEW b0, NEW node \in Seq(Token)
    PROVE  \E f : /\ build_node(b0, node) = f[Len(node)] /\ f[0] = b0
                  /\ \A i \in 1..Len(node) : f[i] = build_token(f[i - 1], node[i])
<1> DEFINE f == CHOOSE f : f = [i \in 0..Len(node) |-> IF i = 0 THEN b0 ELSE build_token(f[i - 1], node[i])]
<1>1. Len(node) \in Nat OBVIOUS
<1>2. \E g : Folds(g, b0, node, Len(node)) BY <1>1, FoldDefined
<1>3. f = [i \in 0..Len(node) |-> IF i = 0 THEN b0 ELSE build_token(f[i - 1], node[i])] BY <1>2, Zenon DEF Folds
<1>4. build_node(b0, node) = f[Len(node)] BY DEF build_node
<1> HIDE DEF f
<1>5. f[0] = b0
    <2>1. 0 \in 0..Len(node) BY <1>1
    <2>2. QED BY <1>3, <2>1
<1>6. ASSUME NEW i \in 1..Len(node) PROVE f[i] = build_token(f[i - 1], node[i])
    <2>1. i \in 0..Len(node) /\ i # 0 BY <1>1
    <2>2. QED BY <1>3, <2>1
<1>7. QED BY <1>4, <1>5, <1>6

FoldedTo(b, b0, node, from, j) ==
    /\ Builder(b)
    /\ (\A k \in 1..j : ~Refuses(node[k])) => Built(b, b0, node, from, j)
    /\ (\E k \in 1..j : Refuses(node[k])) => ~b.ok

\* build_node refuses a node with a comparison without sense, and writes any other.
LEMMA BuildBuilds ==
    ASSUME NEW b0, NEW node \in Seq(Token), NEW from \in Nat, from >= 1, Builder(b0), Built(b0, b0, node, from, 0),
           Len(b0.sql) \in Nat, Len(b0.atoms) \in Nat, \A n \in Comparisons(node) : Taken(Leaves[n])
    PROVE  FoldedTo(build_node(b0, node), b0, node, from, Len(node))
<1>0. Len(node) \in Nat /\ \A i \in 1..Len(node) : node[i] \in Token OBVIOUS
<1>1. PICK f : /\ build_node(b0, node) = f[Len(node)] /\ f[0] = b0
               /\ \A i \in 1..Len(node) : f[i] = build_token(f[i - 1], node[i])
    BY BuildFolds
<1> DEFINE S == {j \in 0..Len(node) : FoldedTo(f[j], b0, node, from, j)}
<1>2. 0 \in S
    <2>1. 1..0 = {} OBVIOUS
    <2>2. QED BY <1>0, <1>1, <2>1 DEF FoldedTo
<1>3. ASSUME NEW i \in 1..Len(node), i - 1 \in S PROVE i \in S
    <2> DEFINE j == i - 1
               b == f[j]
               c == f[i]
    <2>1. j \in Nat /\ j + 1 = i /\ i \in 0..Len(node) /\ \A k \in 1..i : k \in 1..j \/ k = i OBVIOUS
    <2>1a. \A k \in 1..j : k \in 1..i OBVIOUS
    <2>2. FoldedTo(b, b0, node, from, j) BY <1>3
    <2>3. c = build_token(b, node[i]) BY <1>1
    <2>4. node[i] \in Token /\ (node[i].t = "leaf" => node[i].n \in Comparisons(node)) BY <1>0 DEF Comparisons
    <2>5. node[i].t = "leaf" => node[i].n \in DOMAIN Leaves /\ Taken(Leaves[node[i].n]) BY <2>4, TokenShape
    <2> HIDE DEF j, b, c
    <2>6. Builder(c) /\ (Refuses(node[i]) \/ ~b.ok => ~c.ok) BY <2>2, <2>3, <2>5, WrittenBuilder DEF FoldedTo
    <2>7. ASSUME \A k \in 1..i : ~Refuses(node[k]) PROVE Built(c, b0, node, from, i)
        <3>1. Built(b, b0, node, from, j) /\ Builder(b) BY <2>1a, <2>2, <2>7 DEF FoldedTo
        <3>2. ~Refuses(node[j + 1]) BY <2>1, <2>7
        <3>3. c = build_token(b, node[j + 1]) BY <2>1, <2>3
        <3>4. CASE node[j + 1].t # "leaf"
            <4>1. Built(build_token(b, node[j + 1]), b0, node, from, j + 1) BY <2>1, <3>1, <3>4, SeparatorStep
            <4>2. QED BY <2>1, <3>3, <4>1
        <3>5. CASE node[j + 1].t = "leaf"
            <4>1. node[j + 1].n \in Sensible BY <3>2, <3>5 DEF Refuses
            <4>2. Built(build_token(b, node[j + 1]), b0, node, from, j + 1) BY <2>1, <3>1, <3>5, <4>1, LeafStep
            <4>3. QED BY <2>1, <3>3, <4>2
        <3>6. QED BY <3>4, <3>5
    <2>8. ASSUME NEW k \in 1..i, Refuses(node[k]) PROVE ~c.ok
        <3>1. CASE k = i BY <2>6, <2>8, <3>1
        <3>2. CASE k \in 1..j
            <4>1. ~b.ok BY <2>2, <2>8, <3>2 DEF FoldedTo
            <4>2. QED BY <2>6, <4>1
        <3>3. QED BY <2>1, <3>1, <3>2
    <2>9. FoldedTo(c, b0, node, from, i) BY <2>6, <2>7, <2>8 DEF FoldedTo
    <2>10. QED BY <2>1, <2>9 DEF c
<1> HIDE DEF S
<1>4. Len(node) \in S
    <2>1. 0..Len(node) \subseteq S BY <1>0, <1>2, <1>3, Induct
    <2>2. QED BY <1>0, <2>1
<1>5. QED BY <1>1, <1>4 DEF S

-----------------------------------------------------------------------------
(***************************************************************************)
(* LIKE with the patterns that a comparison makes.                         *)
(***************************************************************************)
LikeAt(e, pattern, text, i) ==
    IF i = 0 THEN {0}
    ELSE IF pattern[i] = "%" THEN {k \in 0..Len(text) : \E m \in e[i - 1] : m <= k}
    ELSE {k \in 1..Len(text) : k - 1 \in e[i - 1] /\ text[k] = pattern[i]}
Matches(e, pattern, text, n) == e = [i \in 0..n |-> LikeAt(e, pattern, text, i)]

\* The equation of LIKE has a solution.
LEMMA MatchesDefined ==
    ASSUME NEW n \in Nat, NEW pattern, NEW text
    PROVE  \E e : Matches(e, pattern, text, n)
<1> DEFINE S == {k \in 0..n : \E e : Matches(e, pattern, text, k)}
<1>1. 0 \in S
    <2> DEFINE e == [i \in 0..0 |-> {0}]
    <2>1. \A i \in 0..0 : LikeAt(e, pattern, text, i) = {0} BY DEF LikeAt
    <2>2. e = [i \in 0..0 |-> LikeAt(e, pattern, text, i)]
        <3> HIDE DEF e
        <3>1. e = [i \in 0..0 |-> {0}] BY DEF e
        <3>2. QED BY <2>1, <3>1
    <2>3. Matches(e, pattern, text, 0) BY <2>2, Zenon DEF Matches
    <2> HIDE DEF e
    <2>4. QED BY <2>3
<1>2. ASSUME NEW k \in 1..n, k - 1 \in S PROVE k \in S
    <2>1. PICK e : Matches(e, pattern, text, k - 1) BY <1>2
    <2> DEFINE h(i) == LikeAt(e, pattern, text, i)
               g == [i \in 0..k |-> h(i)]
    <2>2. e = [i \in 0..(k - 1) |-> h(i)] BY <2>1 DEF Matches
    <2>3. ASSUME NEW i \in 0..k PROVE h(i) = LikeAt(g, pattern, text, i)
        <3>1. CASE i = 0 BY <3>1 DEF LikeAt
        <3>2. CASE i # 0
            <4>1. i - 1 \in 0..(k - 1) /\ i - 1 \in 0..k BY <3>2
            <4> HIDE DEF h
            <4>2. g[i - 1] = h(i - 1) /\ e[i - 1] = h(i - 1) BY <2>2, <4>1
            <4> HIDE DEF g
            <4>3. QED BY <3>2, <4>2 DEF h, LikeAt
        <3>3. QED BY <3>1, <3>2
    <2> HIDE DEF h
    <2>4. g = [i \in 0..k |-> LikeAt(g, pattern, text, i)] BY <2>3
    <2> HIDE DEF g
    <2>5. Matches(g, pattern, text, k) BY <2>4 DEF Matches
    <2>6. QED BY <2>5
<1> HIDE DEF S
<1>3. n \in S
    <2>1. 0..n \subseteq S BY <1>1, <1>2, Induct
    <2>2. QED BY <2>1
<1>4. QED BY <1>3 DEF S

\* LIKE by the equation of its places.
LEMMA LikeIs ==
    ASSUME NEW pattern, NEW text, Len(pattern) \in Nat
    PROVE  \E e : /\ Like(pattern, text) <=> Len(text) \in e[Len(pattern)]
                  /\ \A i \in 0..Len(pattern) : e[i] = LikeAt(e, pattern, text, i)
<1> DEFINE n == Len(pattern)
           e == CHOOSE e : e = [i \in 0..n |->
                    IF i = 0 THEN {0}
                    ELSE IF pattern[i] = "%" THEN {k \in 0..Len(text) : \E m \in e[i - 1] : m <= k}
                    ELSE {k \in 1..Len(text) : k - 1 \in e[i - 1] /\ text[k] = pattern[i]}]
<1>1. \E g : Matches(g, pattern, text, n) BY MatchesDefined
<1>2. Matches(e, pattern, text, n) BY <1>1, Zenon DEF Matches, LikeAt
<1>3. Like(pattern, text) <=> Len(text) \in e[n] BY DEF Like
<1> HIDE DEF e
<1>4. \A i \in 0..n : e[i] = LikeAt(e, pattern, text, i) BY <1>2 DEF Matches
<1>5. QED BY <1>3, <1>4

\* LIKE with the patterns a%, %a and %a%.
LEMMA LikePatterns ==
    ASSUME NEW pattern, NEW text, Len(text) \in Nat, NEW c, c # "%"
    PROVE  /\ Len(pattern) = 2 /\ pattern[1] = c /\ pattern[2] = "%" =>
                  (Like(pattern, text) <=> Len(text) >= 1 /\ text[1] = c)
           /\ Len(pattern) = 2 /\ pattern[1] = "%" /\ pattern[2] = c =>
                  (Like(pattern, text) <=> Len(text) >= 1 /\ text[Len(text)] = c)
           /\ Len(pattern) = 3 /\ pattern[1] = "%" /\ pattern[2] = c /\ pattern[3] = "%" =>
                  (Like(pattern, text) <=> \E k \in 1..Len(text) : text[k] = c)
<1> DEFINE N == Len(text)
           any(E) == {k \in 0..N : \E m \in E : m <= k}
           one(E) == {k \in 1..N : k - 1 \in E /\ text[k] = c}
<1>1. ASSUME Len(pattern) \in {2, 3}
      PROVE  \E e : /\ Like(pattern, text) <=> N \in e[Len(pattern)]
                    /\ e[0] = {0}
                    /\ \A i \in 1..Len(pattern) : /\ pattern[i] = "%" => e[i] = any(e[i - 1])
                                                  /\ pattern[i] = c => e[i] = one(e[i - 1])
    <2>1. Len(pattern) \in Nat BY <1>1
    <2>2. PICK e : /\ Like(pattern, text) <=> N \in e[Len(pattern)]
                   /\ \A i \in 0..Len(pattern) : e[i] = LikeAt(e, pattern, text, i)
        BY <2>1, LikeIs
    <2>3. e[0] = {0}
        <3>1. 0 \in 0..Len(pattern) BY <2>1
        <3>2. e[0] = LikeAt(e, pattern, text, 0) BY <2>2, <3>1
        <3>3. QED BY <3>2 DEF LikeAt
    <2>4. ASSUME NEW i \in 1..Len(pattern)
          PROVE  /\ pattern[i] = "%" => e[i] = any(e[i - 1])
                 /\ pattern[i] = c => e[i] = one(e[i - 1])
        <3>1. i \in 0..Len(pattern) /\ i # 0 BY <2>1
        <3>2. e[i] = LikeAt(e, pattern, text, i) BY <2>2, <3>1
        <3>3. ASSUME pattern[i] = "%" PROVE e[i] = any(e[i - 1]) BY <3>1, <3>2, <3>3 DEF LikeAt
        <3>4. ASSUME pattern[i] = c PROVE e[i] = one(e[i - 1]) BY <3>1, <3>2, <3>4 DEF LikeAt
        <3>5. QED BY <3>3, <3>4
    <2> HIDE DEF any, one
    <2>5. QED BY <2>2, <2>3, <2>4
<1>2. N \in Nat OBVIOUS
<1>3. any({0}) = 0..N OBVIOUS
<1>4. one(0..N) = {k \in 1..N : text[k] = c}
    <2>1. \A k \in 1..N : k - 1 \in 0..N BY <1>2
    <2>2. QED BY <2>1
<1>5. one({0}) = {k \in 1..N : k = 1 /\ text[k] = c} OBVIOUS
<1>6. \A E \in SUBSET (1..N) : N \in any(E) <=> E # {}
    <2>1. SUFFICES ASSUME NEW E \in SUBSET (1..N) PROVE N \in any(E) <=> E # {} OBVIOUS
    <2>2. \A m \in E : m <= N OBVIOUS
    <2>3. N \in 0..N OBVIOUS
    <2>4. QED BY <2>2, <2>3
<1> HIDE DEF N, any, one
<1>7. ASSUME Len(pattern) = 2, pattern[1] = c, pattern[2] = "%" PROVE Like(pattern, text) <=> N >= 1 /\ text[1] = c
    <2>1. PICK e : /\ Like(pattern, text) <=> N \in e[Len(pattern)]
                   /\ e[0] = {0}
                   /\ \A i \in 1..Len(pattern) : /\ pattern[i] = "%" => e[i] = any(e[i - 1])
                                                 /\ pattern[i] = c => e[i] = one(e[i - 1])
        BY <1>1, <1>7
    <2>2. e[1] = one({0}) /\ e[2] = any(e[1])
        <3>1. 1 \in 1..Len(pattern) /\ 2 \in 1..Len(pattern) /\ 1 - 1 = 0 /\ 2 - 1 = 1 BY <1>7
        <3>2. QED BY <1>7, <2>1, <3>1
    <2>3. e[1] \in SUBSET (1..N) BY <1>5, <2>2
    <2>4. Like(pattern, text) <=> e[1] # {} BY <1>6, <1>7, <2>1, <2>2, <2>3
    <2>5. QED BY <1>2, <1>5, <2>2, <2>4
<1>8. ASSUME Len(pattern) = 2, pattern[1] = "%", pattern[2] = c PROVE Like(pattern, text) <=> N >= 1 /\ text[N] = c
    <2>1. PICK e : /\ Like(pattern, text) <=> N \in e[Len(pattern)]
                   /\ e[0] = {0}
                   /\ \A i \in 1..Len(pattern) : /\ pattern[i] = "%" => e[i] = any(e[i - 1])
                                                 /\ pattern[i] = c => e[i] = one(e[i - 1])
        BY <1>1, <1>8
    <2>2. e[1] = any({0}) /\ e[2] = one(e[1])
        <3>1. 1 \in 1..Len(pattern) /\ 2 \in 1..Len(pattern) /\ 1 - 1 = 0 /\ 2 - 1 = 1 BY <1>8
        <3>2. QED BY <1>8, <2>1, <3>1
    <2>3. e[2] = {k \in 1..N : text[k] = c} BY <1>3, <1>4, <2>2
    <2>4. QED BY <1>2, <1>8, <2>1, <2>3
<1>9. ASSUME Len(pattern) = 3, pattern[1] = "%", pattern[2] = c, pattern[3] = "%"
      PROVE  Like(pattern, text) <=> \E k \in 1..N : text[k] = c
    <2>1. PICK e : /\ Like(pattern, text) <=> N \in e[Len(pattern)]
                   /\ e[0] = {0}
                   /\ \A i \in 1..Len(pattern) : /\ pattern[i] = "%" => e[i] = any(e[i - 1])
                                                 /\ pattern[i] = c => e[i] = one(e[i - 1])
        BY <1>1, <1>9
    <2>2. e[1] = any({0}) /\ e[2] = one(e[1]) /\ e[3] = any(e[2])
        <3>1. 1 \in 1..Len(pattern) /\ 2 \in 1..Len(pattern) /\ 3 \in 1..Len(pattern) /\ 1 - 1 = 0 /\ 2 - 1 = 1 /\ 3 - 1 = 2 BY <1>9
        <3>2. QED BY <1>9, <2>1, <3>1
    <2>3. e[2] = {k \in 1..N : text[k] = c} BY <1>3, <1>4, <2>2
    <2>4. e[2] \in SUBSET (1..N) BY <2>3
    <2>5. Like(pattern, text) <=> e[2] # {} BY <1>6, <1>9, <2>1, <2>2, <2>4
    <2>6. QED BY <2>3, <2>5
<1>10. QED BY <1>7, <1>8, <1>9 DEF N

(***************************************************************************)
(* The cases of an atom and of a comparison.                               *)
(***************************************************************************)
Filterable(x) == x.col \in {"text", "num", "flag"}

\* An atom of a filter, by its SQL operator.
LEMMA AtomIs ==
    ASSUME NEW x, NEW binds, NEW row, Filterable(x)
    PROVE  /\ x.cmp = "is null" => (Atom(x, binds, row) <=> row[x.col] = {})
           /\ x.cmp = "is not null" => (Atom(x, binds, row) <=> row[x.col] # {})
           /\ x.cmp = "=" => (Atom(x, binds, row) <=> \E v \in row[x.col] : v = binds[x.phs[1]])
           /\ x.cmp = "!=" => (Atom(x, binds, row) <=> \E v \in row[x.col] : v # binds[x.phs[1]])
           /\ x.cmp = ">" => (Atom(x, binds, row) <=> \E v \in row[x.col] : v > binds[x.phs[1]])
           /\ x.cmp = ">=" => (Atom(x, binds, row) <=> \E v \in row[x.col] : v >= binds[x.phs[1]])
           /\ x.cmp = "<" => (Atom(x, binds, row) <=> \E v \in row[x.col] : v < binds[x.phs[1]])
           /\ x.cmp = "<=" => (Atom(x, binds, row) <=> \E v \in row[x.col] : v <= binds[x.phs[1]])
           /\ x.cmp = "IN" => (Atom(x, binds, row) <=> \E v \in row[x.col] : \E i \in DOMAIN x.phs : v = binds[x.phs[i]])
           /\ x.cmp = "NOT IN" => (Atom(x, binds, row) <=> \E v \in row[x.col] : \A i \in DOMAIN x.phs : v # binds[x.phs[i]])
           /\ x.cmp = "between" => (Atom(x, binds, row) <=> \E v \in row[x.col] : binds[x.phs[1]] <= v /\ v <= binds[x.phs[2]])
           /\ x.cmp = "LIKE" => (Atom(x, binds, row) <=> \E v \in row[x.col] : Like(binds[x.phs[1]], v))
           /\ x.cmp = "ILIKE" => (Atom(x, binds, row) <=> \E v \in row[x.col] : Like(Lower(binds[x.phs[1]]), Lower(v)))
<1>0. x.col # "tenant" /\ x.col # "live" /\ x.col # "group" /\ x.col # "document" BY DEF Filterable
<1>1. x.cmp = "is null" => (Atom(x, binds, row) <=> row[x.col] = {}) BY <1>0 DEF Atom
<1>2. x.cmp = "is not null" => (Atom(x, binds, row) <=> row[x.col] # {}) BY <1>0 DEF Atom
<1>3. x.cmp = "=" => (Atom(x, binds, row) <=> \E v \in row[x.col] : v = binds[x.phs[1]]) BY <1>0 DEF Atom
<1>4. x.cmp = "!=" => (Atom(x, binds, row) <=> \E v \in row[x.col] : v # binds[x.phs[1]]) BY <1>0 DEF Atom
<1>5. x.cmp = ">" => (Atom(x, binds, row) <=> \E v \in row[x.col] : v > binds[x.phs[1]]) BY <1>0 DEF Atom
<1>6. x.cmp = ">=" => (Atom(x, binds, row) <=> \E v \in row[x.col] : v >= binds[x.phs[1]]) BY <1>0 DEF Atom
<1>7. x.cmp = "<" => (Atom(x, binds, row) <=> \E v \in row[x.col] : v < binds[x.phs[1]]) BY <1>0 DEF Atom
<1>8. x.cmp = "<=" => (Atom(x, binds, row) <=> \E v \in row[x.col] : v <= binds[x.phs[1]]) BY <1>0 DEF Atom
<1>9. x.cmp = "IN" => (Atom(x, binds, row) <=> \E v \in row[x.col] : \E i \in DOMAIN x.phs : v = binds[x.phs[i]]) BY <1>0 DEF Atom
<1>10. x.cmp = "NOT IN" => (Atom(x, binds, row) <=> \E v \in row[x.col] : \A i \in DOMAIN x.phs : v # binds[x.phs[i]]) BY <1>0 DEF Atom
<1>11. x.cmp = "between" => (Atom(x, binds, row) <=> \E v \in row[x.col] : binds[x.phs[1]] <= v /\ v <= binds[x.phs[2]]) BY <1>0 DEF Atom
<1>12. x.cmp = "LIKE" => (Atom(x, binds, row) <=> \E v \in row[x.col] : Like(binds[x.phs[1]], v)) BY <1>0 DEF Atom
<1>13. x.cmp = "ILIKE" => (Atom(x, binds, row) <=> \E v \in row[x.col] : Like(Lower(binds[x.phs[1]]), Lower(v))) BY <1>0 DEF Atom
<1>14. QED BY <1>1, <1>2, <1>3, <1>4, <1>5, <1>6, <1>7, <1>8, <1>9, <1>10, <1>11, <1>12, <1>13

\* A comparison, by its operator.
LEMMA HoldsIs ==
    ASSUME NEW l, NEW row
    PROVE  /\ l.op = "null" => (Holds(l, row) <=> (row[l.field] = {}) = (l.vals[1] = "true"))
           /\ l.op = "==" => (Holds(l, row) <=> \E v \in row[l.field] : v = l.vals[1])
           /\ l.op = "!=" => (Holds(l, row) <=> \E v \in row[l.field] : v # l.vals[1])
           /\ l.op = "gt" => (Holds(l, row) <=> \E v \in row[l.field] : v > l.vals[1])
           /\ l.op = "ge" => (Holds(l, row) <=> \E v \in row[l.field] : v >= l.vals[1])
           /\ l.op = "lt" => (Holds(l, row) <=> \E v \in row[l.field] : v < l.vals[1])
           /\ l.op = "le" => (Holds(l, row) <=> \E v \in row[l.field] : v <= l.vals[1])
           /\ l.op = "in" => (Holds(l, row) <=> \E v \in row[l.field] : \E i \in DOMAIN l.vals : v = l.vals[i])
           /\ l.op = "out" => (Holds(l, row) <=> \E v \in row[l.field] : \A i \in DOMAIN l.vals : v # l.vals[i])
           /\ l.op = "between" => (Holds(l, row) <=> \E v \in row[l.field] : l.vals[1] <= v /\ v <= l.vals[2])
           /\ l.op = "like" => (Holds(l, row) <=> \E v \in row[l.field] : v[1] = "A")
           /\ l.op = "ilike" => (Holds(l, row) <=> \E v \in row[l.field] : v[Len(v)] \in {"b", "B"})
           /\ l.op = "contains" => (Holds(l, row) <=> \E v \in row[l.field] : \E i \in DOMAIN v, j \in DOMAIN v : SubSeq(Lower(v), i, j) = l.vals[1])
           /\ l.op = "starts" /\ l.vals[1][1] # "%" => (Holds(l, row) <=> \E v \in row[l.field] : SubSeq(Lower(v), 1, 1) = l.vals[1])
           /\ l.op = "starts" /\ l.vals[1][1] = "%" =>
                  (Holds(l, row) <=> \E v \in row[l.field] : \E i \in DOMAIN v, j \in DOMAIN v : SubSeq(Lower(v), i, j) = Tail(l.vals[1]))
           /\ l.op = "ends" => (Holds(l, row) <=> \E v \in row[l.field] : SubSeq(Lower(v), Len(v), Len(v)) = l.vals[1])
<1>1. l.op = "null" => (Holds(l, row) <=> (row[l.field] = {}) = (l.vals[1] = "true")) BY DEF Holds
<1>2. l.op = "==" => (Holds(l, row) <=> \E v \in row[l.field] : v = l.vals[1]) BY DEF Holds
<1>3. l.op = "!=" => (Holds(l, row) <=> \E v \in row[l.field] : v # l.vals[1]) BY DEF Holds
<1>4. l.op = "gt" => (Holds(l, row) <=> \E v \in row[l.field] : v > l.vals[1]) BY DEF Holds
<1>5. l.op = "ge" => (Holds(l, row) <=> \E v \in row[l.field] : v >= l.vals[1]) BY DEF Holds
<1>6. l.op = "lt" => (Holds(l, row) <=> \E v \in row[l.field] : v < l.vals[1]) BY DEF Holds
<1>7. l.op = "le" => (Holds(l, row) <=> \E v \in row[l.field] : v <= l.vals[1]) BY DEF Holds
<1>8. l.op = "in" => (Holds(l, row) <=> \E v \in row[l.field] : \E i \in DOMAIN l.vals : v = l.vals[i]) BY DEF Holds
<1>9. l.op = "out" => (Holds(l, row) <=> \E v \in row[l.field] : \A i \in DOMAIN l.vals : v # l.vals[i]) BY DEF Holds
<1>10. l.op = "between" => (Holds(l, row) <=> \E v \in row[l.field] : l.vals[1] <= v /\ v <= l.vals[2]) BY DEF Holds
<1>11. l.op = "like" => (Holds(l, row) <=> \E v \in row[l.field] : v[1] = "A") BY DEF Holds
<1>12. l.op = "ilike" => (Holds(l, row) <=> \E v \in row[l.field] : v[Len(v)] \in {"b", "B"}) BY DEF Holds
<1>13. l.op = "contains" => (Holds(l, row) <=> \E v \in row[l.field] : \E i \in DOMAIN v, j \in DOMAIN v : SubSeq(Lower(v), i, j) = l.vals[1]) BY DEF Holds, FoundIn
<1>14. l.op = "starts" /\ l.vals[1][1] # "%" => (Holds(l, row) <=> \E v \in row[l.field] : SubSeq(Lower(v), 1, 1) = l.vals[1]) BY DEF Holds
<1>17. l.op = "starts" /\ l.vals[1][1] = "%" =>
           (Holds(l, row) <=> \E v \in row[l.field] : \E i \in DOMAIN v, j \in DOMAIN v : SubSeq(Lower(v), i, j) = Tail(l.vals[1]))
    BY DEF Holds, FoundIn
<1>15. l.op = "ends" => (Holds(l, row) <=> \E v \in row[l.field] : SubSeq(Lower(v), Len(v), Len(v)) = l.vals[1]) BY DEF Holds
<1>16. QED BY <1>1, <1>2, <1>3, <1>4, <1>5, <1>6, <1>7, <1>8, <1>9, <1>10, <1>11, <1>12, <1>13, <1>14, <1>15, <1>17

-----------------------------------------------------------------------------
(***************************************************************************)
(* Texts: the values of the rows, and the letters of their lower case.     *)
(***************************************************************************)
\* Lower case keeps the length of a text.
LEMMA LowerIs ==
    ASSUME NEW S, NEW t \in Seq(S)
    PROVE  ASeq(Lower(t)) /\ Len(Lower(t)) = Len(t)
           /\ \A i \in 1..Len(t) : Lower(t)[i] = CASE t[i] = "A" -> "a" [] t[i] = "B" -> "b" [] OTHER -> t[i]
<1> DEFINE low(x) == CASE x = "A" -> "a" [] x = "B" -> "b" [] OTHER -> x
           T == {low(x) : x \in S}
<1>1. DOMAIN t = 1..Len(t) /\ Len(t) \in Nat /\ \A i \in 1..Len(t) : t[i] \in S OBVIOUS
<1>2. Lower(t) = [i \in 1..Len(t) |-> low(t[i])] BY <1>1 DEF Lower
<1>3. \A i \in 1..Len(t) : low(t[i]) \in T BY <1>1
<1> HIDE DEF T, low
<1>4. Lower(t) \in [1..Len(t) -> T] BY <1>2, <1>3
<1>5. Lower(t) \in Seq(T) /\ Len(Lower(t)) = Len(t) BY <1>1, <1>4, FunIsSeq
<1>6. \A i \in 1..Len(t) : Lower(t)[i] = low(t[i]) BY <1>2
<1>7. QED BY <1>5, <1>6 DEF ASeq, low

\* Texts of one letter.
LEMMA OneLetter ==
    ASSUME NEW s, ASeq(s), NEW k \in 1..Len(s), NEW c
    PROVE  SubSeq(s, k, k) = <<c>> <=> s[k] = c
<1>1. PICK S : s \in Seq(S) BY DEF ASeq
<1>2. SubSeq(s, k, k) \in Seq(S) /\ Len(SubSeq(s, k, k)) = 1 /\ SubSeq(s, k, k)[1] = s[k]
    <2>1. k \in Nat /\ k >= 1 /\ 1 \in Nat /\ k + 1 - 1 = k /\ \A i \in k..k : s[i] \in S BY <1>1
    <2>2. /\ SubSeq(s, k, k + 1 - 1) \in Seq(S) /\ Len(SubSeq(s, k, k + 1 - 1)) = 1
          /\ \A i \in 1..1 : SubSeq(s, k, k + 1 - 1)[i] = s[k + i - 1]
        BY <2>1, Span
    <2>3. 1 \in 1..1 OBVIOUS
    <2>4. QED BY <2>1, <2>2, <2>3
<1> DEFINE r == SubSeq(s, k, k)
           T == S \cup {c}
           u == <<c>>
<1>3. r \in Seq(T) /\ Len(r) = 1 /\ r[1] = s[k] BY <1>2
<1>4. u \in Seq(T) /\ Len(u) = 1 /\ u[1] = c OBVIOUS
<1> HIDE DEF r, u, T
<1>5. ASSUME s[k] = c PROVE r = u
    <2>1. \A i \in 1..Len(r) : r[i] = u[i] BY <1>3, <1>4, <1>5
    <2>2. QED BY <1>3, <1>4, <2>1, SeqEqual
<1>6. QED BY <1>3, <1>4, <1>5 DEF r, u

Ab == <<"A", "b">>

\* The texts of rows in lower case.
LEMMA TextsAre ==
    /\ ASeq(a) /\ Len(a) = 1 /\ a[1] = "a"
    /\ ASeq(Ab) /\ Len(Ab) = 2 /\ Ab[1] = "A" /\ Ab[2] = "b"
    /\ ASeq(Lower(a)) /\ Len(Lower(a)) = 1 /\ Lower(a)[1] = "a"
    /\ ASeq(Lower(Ab)) /\ Len(Lower(Ab)) = 2 /\ Lower(Ab)[1] = "a" /\ Lower(Ab)[2] = "b"
<1>1. a \in Seq({"a"}) /\ Len(a) = 1 /\ a[1] = "a" BY DEF a
<1>2. Ab \in Seq({"A", "b"}) /\ Len(Ab) = 2 /\ Ab[1] = "A" /\ Ab[2] = "b" BY DEF Ab
<1>3. ASeq(Lower(a)) /\ Len(Lower(a)) = 1 /\ Lower(a)[1] = "a"
    <2>1. /\ ASeq(Lower(a)) /\ Len(Lower(a)) = Len(a)
          /\ \A i \in 1..Len(a) : Lower(a)[i] = CASE a[i] = "A" -> "a" [] a[i] = "B" -> "b" [] OTHER -> a[i]
        BY <1>1, LowerIs
    <2>2. 1 \in 1..Len(a) BY <1>1
    <2>3. QED BY <1>1, <2>1, <2>2
<1>4. ASeq(Lower(Ab)) /\ Len(Lower(Ab)) = 2 /\ Lower(Ab)[1] = "a" /\ Lower(Ab)[2] = "b"
    <2>1. /\ ASeq(Lower(Ab)) /\ Len(Lower(Ab)) = Len(Ab)
          /\ \A i \in 1..Len(Ab) : Lower(Ab)[i] = CASE Ab[i] = "A" -> "a" [] Ab[i] = "B" -> "b" [] OTHER -> Ab[i]
        BY <1>2, LowerIs
    <2>2. 1 \in 1..Len(Ab) /\ 2 \in 1..Len(Ab) BY <1>2
    <2>3. QED BY <1>2, <2>1, <2>2
<1>5. QED BY <1>1, <1>2, <1>3, <1>4 DEF ASeq

\* A text of a row is one of two.
LEMMA RowTexts ==
    ASSUME NEW row \in Row
    PROVE  \A v \in row["text"] : v = a \/ v = Ab
BY DEF Row, Ab

\* What a pattern of the filter holds for, on the texts of the rows.
LEMMA PatternsHold ==
    ASSUME NEW v, v = a \/ v = Ab
    PROVE  /\ Like(<<"A", "%">>, v) <=> v[1] = "A"
           /\ Like(Lower(<<"%", "B">>), Lower(v)) <=> v[Len(v)] \in {"b", "B"}
           /\ Like(Lower(<<"%", "b", "%">>), Lower(v)) <=> \E i \in DOMAIN v, j \in DOMAIN v : SubSeq(Lower(v), i, j) = <<"b">>
           /\ Like(Lower(<<"a", "%">>), Lower(v)) <=> SubSeq(Lower(v), 1, 1) = a
           /\ Like(Lower(<<"%", "a">>), Lower(v)) <=> SubSeq(Lower(v), Len(v), Len(v)) = a
<1> DEFINE w == Lower(v)
<1>1. ASeq(v) /\ ASeq(w) /\ Len(v) \in {1, 2} /\ Len(w) = Len(v) /\ DOMAIN v = 1..Len(v)
    <2>1. ASeq(v) /\ ASeq(w) /\ Len(v) \in {1, 2} /\ Len(w) = Len(v) BY TextsAre
    <2>2. IsSeq(v) BY <2>1, ASeqIs
    <2>3. QED BY <2>1, <2>2 DEF IsSeq
<1>2. Len(v) \in Nat /\ Len(w) \in Nat /\ Len(v) >= 1 BY <1>1
<1>3. Like(<<"A", "%">>, v) <=> v[1] = "A"
    <2> DEFINE p == <<"A", "%">>
    <2>1. Len(p) = 2 /\ p[1] = "A" /\ p[2] = "%" OBVIOUS
    <2> HIDE DEF p
    <2>2. Like(p, v) <=> Len(v) >= 1 /\ v[1] = "A" BY <1>2, <2>1, LikePatterns
    <2>3. QED BY <1>2, <2>2 DEF p
<1>4. ASSUME NEW x, NEW y PROVE Len(Lower(<<x, y>>)) = 2 /\ \A i \in 1..2 : Lower(<<x, y>>)[i] =
             CASE <<x, y>>[i] = "A" -> "a" [] <<x, y>>[i] = "B" -> "b" [] OTHER -> <<x, y>>[i]
    <2>1. <<x, y>> \in Seq({x, y}) /\ Len(<<x, y>>) = 2 OBVIOUS
    <2>2. QED BY <2>1, LowerIs
<1>5. Like(Lower(<<"%", "B">>), w) <=> v[Len(v)] \in {"b", "B"}
    <2> DEFINE p == Lower(<<"%", "B">>)
    <2>1. Len(p) = 2 /\ p[1] = "%" /\ p[2] = "b" BY <1>4
    <2> HIDE DEF p, w
    <2>2. Like(p, w) <=> Len(w) >= 1 /\ w[Len(w)] = "b" BY <1>2, <2>1, LikePatterns
    <2>3. w[Len(v)] = "b" <=> v[Len(v)] \in {"b", "B"} BY TextsAre DEF w
    <2>4. QED BY <1>1, <1>2, <2>2, <2>3 DEF p
<1>6. Like(Lower(<<"a", "%">>), w) <=> SubSeq(w, 1, 1) = a
    <2> DEFINE p == Lower(<<"a", "%">>)
    <2>1. Len(p) = 2 /\ p[1] = "a" /\ p[2] = "%" BY <1>4
    <2> HIDE DEF p, w
    <2>2. Like(p, w) <=> Len(w) >= 1 /\ w[1] = "a" BY <1>2, <2>1, LikePatterns
    <2>3. 1 \in 1..Len(w) BY <1>1
    <2>4. SubSeq(w, 1, 1) = a <=> w[1] = "a" BY <1>1, <2>3, OneLetter DEF a
    <2>5. QED BY <1>1, <1>2, <2>2, <2>4 DEF p
<1>7. Like(Lower(<<"%", "a">>), w) <=> SubSeq(w, Len(v), Len(v)) = a
    <2> DEFINE p == Lower(<<"%", "a">>)
    <2>1. Len(p) = 2 /\ p[1] = "%" /\ p[2] = "a" BY <1>4
    <2> HIDE DEF p, w
    <2>2. Like(p, w) <=> Len(w) >= 1 /\ w[Len(w)] = "a" BY <1>2, <2>1, LikePatterns
    <2>3. Len(v) \in 1..Len(w) BY <1>1
    <2>4. SubSeq(w, Len(v), Len(v)) = a <=> w[Len(v)] = "a" BY <1>1, <2>3, OneLetter DEF a
    <2>5. QED BY <1>1, <1>2, <2>2, <2>4 DEF p
<1>8. Like(Lower(<<"%", "b", "%">>), w) <=> \E i \in DOMAIN v, j \in DOMAIN v : SubSeq(w, i, j) = <<"b">>
    <2> DEFINE u == <<"%", "b", "%">>
               p == Lower(u)
    <2>1. u \in Seq({"%", "b"}) /\ Len(u) = 3 /\ u[1] = "%" /\ u[2] = "b" /\ u[3] = "%" OBVIOUS
    <2> HIDE DEF u
    <2>2. Len(p) = 3 /\ \A i \in 1..3 : p[i] = CASE u[i] = "A" -> "a" [] u[i] = "B" -> "b" [] OTHER -> u[i] BY <2>1, LowerIs
    <2>3. Len(p) = 3 /\ p[1] = "%" /\ p[2] = "b" /\ p[3] = "%" BY <2>1, <2>2
    <2> HIDE DEF p, w
    <2>4. Like(p, w) <=> \E k \in 1..Len(w) : w[k] = "b" BY <1>2, <2>3, LikePatterns
    <2>5. \A k \in 1..Len(w) : SubSeq(w, k, k) = <<"b">> <=> w[k] = "b" BY <1>1, OneLetter
    <2>6. CASE v = a
        <3>1. Len(w) = 1 /\ w[1] = "a" /\ Len(v) = 1 BY <2>6, TextsAre DEF w
        <3>2. \A k \in 1..Len(w) : k = 1 BY <3>1
        <3>3. ~\E k \in 1..Len(w) : w[k] = "b" BY <3>1, <3>2
        <3>4. ~\E i \in DOMAIN v, j \in DOMAIN v : SubSeq(w, i, j) = <<"b">>
            <4>1. \A i \in DOMAIN v : i = 1 /\ i \in 1..Len(w) BY <1>1, <3>1
            <4>2. SubSeq(w, 1, 1) # <<"b">>
                <5>1. 1 \in 1..Len(w) BY <3>1
                <5>2. QED BY <2>5, <3>1, <5>1
            <4>3. QED BY <4>1, <4>2
        <3>5. QED BY <2>4, <3>3, <3>4 DEF p, u
    <2>7. CASE v = Ab
        <3>1. Len(w) = 2 /\ w[2] = "b" /\ Len(v) = 2 BY <2>7, TextsAre DEF w
        <3>2. 2 \in 1..Len(w) /\ 2 \in DOMAIN v BY <1>1, <3>1
        <3>3. SubSeq(w, 2, 2) = <<"b">> BY <2>5, <3>1, <3>2
        <3>4. QED BY <2>4, <3>1, <3>2, <3>3 DEF p, u
    <2>8. QED BY <2>6, <2>7
<1>9. QED BY <1>3, <1>5, <1>6, <1>7, <1>8

-----------------------------------------------------------------------------
(***************************************************************************)
(* An atom that stands for a comparison is true for the rows that the      *)
(* comparison is about.                                                    *)
(***************************************************************************)
Stands(x, binds, l) ==
    /\ x.col = l.field /\ x.cmp = Compare[l.op] /\ DOMAIN x.phs = DOMAIN Bound(l)
    /\ \A i \in DOMAIN Bound(l) : binds[x.phs[i]] = Bound(l)[i]

\* The values of an atom that stands for a comparison.
LEMMA StandsIs ==
    ASSUME NEW x, NEW binds, NEW l, Stands(x, binds, l), NEW col, NEW cmp
    PROVE  /\ \A v : Is(l, col, cmp, <<v>>) => x.col = col /\ x.cmp = cmp /\ binds[x.phs[1]] = v
           /\ \A v, w : Is(l, col, cmp, <<v, w>>) =>
                  x.col = col /\ x.cmp = cmp /\ DOMAIN x.phs = {1, 2} /\ binds[x.phs[1]] = v /\ binds[x.phs[2]] = w
           /\ Is(l, col, cmp, <<>>) => x.col = col /\ x.cmp = cmp
<1>1. ASSUME NEW v, Is(l, col, cmp, <<v>>) PROVE x.col = col /\ x.cmp = cmp /\ binds[x.phs[1]] = v
    <2>1. 1 \in DOMAIN <<v>> /\ <<v>>[1] = v OBVIOUS
    <2>2. QED BY <1>1, <2>1 DEF Is, Stands
<1>2. ASSUME NEW v, NEW w, Is(l, col, cmp, <<v, w>>)
      PROVE  x.col = col /\ x.cmp = cmp /\ DOMAIN x.phs = {1, 2} /\ binds[x.phs[1]] = v /\ binds[x.phs[2]] = w
    <2>1. DOMAIN <<v, w>> = {1, 2} /\ <<v, w>>[1] = v /\ <<v, w>>[2] = w OBVIOUS
    <2>2. QED BY <1>2, <2>1 DEF Is, Stands
<1>3. QED BY <1>1, <1>2 DEF Is, Stands

\* An atom is true for the rows that its comparison is about.
LEMMA AtomMeans ==
    ASSUME NEW n \in Sensible, NEW x, NEW binds, NEW row \in Row, Stands(x, binds, Parsed(Leaves[n]))
    PROVE  Atom(x, binds, row) <=> Holds(Leaves[n], row)
<1>0. x.col = Parsed(Leaves[n]).field BY DEF Stands
<1>1. CASE n = 1
    <2> DEFINE l == L("text", "==", <<a>>)
    <2>1. Leaves[n] = l /\ Is(Parsed(Leaves[n]), "text", "=", <<a>>) BY <1>1, LeavesAre, LeavesBound
    <2>9. Filterable(x) BY <2>1, <1>0 DEF Is, Filterable
    <2>2. x.col = "text" /\ x.cmp = "=" /\ binds[x.phs[1]] = a BY <2>1, StandsIs
    <2>3. l.op = "==" /\ l.field = "text" /\ l.vals[1] = a BY DEF L
    <2> HIDE DEF l
    <2>4. Atom(x, binds, row) <=> \E t \in row[x.col] : t = binds[x.phs[1]] BY <2>2, <2>9, AtomIs
    <2>5. Holds(l, row) <=> \E t \in row[l.field] : t = l.vals[1] BY <2>3, HoldsIs, Zenon
    <2>6. QED BY <2>1, <2>2, <2>3, <2>4, <2>5, Zenon
<1>2. CASE n = 2
    <2> DEFINE l == L("num", "gt", <<1>>)
    <2>1. Leaves[n] = l /\ Is(Parsed(Leaves[n]), "num", ">", <<1>>) BY <1>2, LeavesAre, LeavesBound
    <2>9. Filterable(x) BY <2>1, <1>0 DEF Is, Filterable
    <2>2. x.col = "num" /\ x.cmp = ">" /\ binds[x.phs[1]] = 1 BY <2>1, StandsIs
    <2>3. l.op = "gt" /\ l.field = "num" /\ l.vals[1] = 1 BY DEF L
    <2> HIDE DEF l
    <2>4. Atom(x, binds, row) <=> \E t \in row[x.col] : t > binds[x.phs[1]] BY <2>2, <2>9, AtomIs
    <2>5. Holds(l, row) <=> \E t \in row[l.field] : t > l.vals[1] BY <2>3, HoldsIs, Zenon
    <2>6. QED BY <2>1, <2>2, <2>3, <2>4, <2>5, Zenon
<1>3. CASE n = 3
    <2> DEFINE l == L("text", "!=", <<a>>)
    <2>1. Leaves[n] = l /\ Is(Parsed(Leaves[n]), "text", "!=", <<a>>) BY <1>3, LeavesAre, LeavesBound
    <2>9. Filterable(x) BY <2>1, <1>0 DEF Is, Filterable
    <2>2. x.col = "text" /\ x.cmp = "!=" /\ binds[x.phs[1]] = a BY <2>1, StandsIs
    <2>3. l.op = "!=" /\ l.field = "text" /\ l.vals[1] = a BY DEF L
    <2> HIDE DEF l
    <2>4. Atom(x, binds, row) <=> \E t \in row[x.col] : t # binds[x.phs[1]] BY <2>2, <2>9, AtomIs
    <2>5. Holds(l, row) <=> \E t \in row[l.field] : t # l.vals[1] BY <2>3, HoldsIs, Zenon
    <2>6. QED BY <2>1, <2>2, <2>3, <2>4, <2>5, Zenon
<1>4. CASE n = 4
    <2> DEFINE l == L("num", "ge", <<2>>)
    <2>1. Leaves[n] = l /\ Is(Parsed(Leaves[n]), "num", ">=", <<2>>) BY <1>4, LeavesAre, LeavesBound
    <2>9. Filterable(x) BY <2>1, <1>0 DEF Is, Filterable
    <2>2. x.col = "num" /\ x.cmp = ">=" /\ binds[x.phs[1]] = 2 BY <2>1, StandsIs
    <2>3. l.op = "ge" /\ l.field = "num" /\ l.vals[1] = 2 BY DEF L
    <2> HIDE DEF l
    <2>4. Atom(x, binds, row) <=> \E t \in row[x.col] : t >= binds[x.phs[1]] BY <2>2, <2>9, AtomIs
    <2>5. Holds(l, row) <=> \E t \in row[l.field] : t >= l.vals[1] BY <2>3, HoldsIs, Zenon
    <2>6. QED BY <2>1, <2>2, <2>3, <2>4, <2>5, Zenon
<1>5. CASE n = 5
    <2> DEFINE l == L("num", "lt", <<2>>)
    <2>1. Leaves[n] = l /\ Is(Parsed(Leaves[n]), "num", "<", <<2>>) BY <1>5, LeavesAre, LeavesBound
    <2>9. Filterable(x) BY <2>1, <1>0 DEF Is, Filterable
    <2>2. x.col = "num" /\ x.cmp = "<" /\ binds[x.phs[1]] = 2 BY <2>1, StandsIs
    <2>3. l.op = "lt" /\ l.field = "num" /\ l.vals[1] = 2 BY DEF L
    <2> HIDE DEF l
    <2>4. Atom(x, binds, row) <=> \E t \in row[x.col] : t < binds[x.phs[1]] BY <2>2, <2>9, AtomIs
    <2>5. Holds(l, row) <=> \E t \in row[l.field] : t < l.vals[1] BY <2>3, HoldsIs, Zenon
    <2>6. QED BY <2>1, <2>2, <2>3, <2>4, <2>5, Zenon
<1>6. CASE n = 6
    <2> DEFINE l == L("num", "le", <<1>>)
    <2>1. Leaves[n] = l /\ Is(Parsed(Leaves[n]), "num", "<=", <<1>>) BY <1>6, LeavesAre, LeavesBound
    <2>9. Filterable(x) BY <2>1, <1>0 DEF Is, Filterable
    <2>2. x.col = "num" /\ x.cmp = "<=" /\ binds[x.phs[1]] = 1 BY <2>1, StandsIs
    <2>3. l.op = "le" /\ l.field = "num" /\ l.vals[1] = 1 BY DEF L
    <2> HIDE DEF l
    <2>4. Atom(x, binds, row) <=> \E t \in row[x.col] : t <= binds[x.phs[1]] BY <2>2, <2>9, AtomIs
    <2>5. Holds(l, row) <=> \E t \in row[l.field] : t <= l.vals[1] BY <2>3, HoldsIs, Zenon
    <2>6. QED BY <2>1, <2>2, <2>3, <2>4, <2>5, Zenon
<1>7. CASE n = 7
    <2> DEFINE l == L("text", "in", <<a, <<"A", "b">>>>)
    <2>1. Leaves[n] = l /\ Is(Parsed(Leaves[n]), "text", "IN", <<a, <<"A", "b">>>>) BY <1>7, LeavesAre, LeavesBound
    <2>9. Filterable(x) BY <2>1, <1>0 DEF Is, Filterable
    <2>0. \A v, w : Is(Parsed(Leaves[n]), "text", "IN", <<v, w>>) => x.col = "text" /\ x.cmp = "IN" /\ DOMAIN x.phs = {1, 2} /\ binds[x.phs[1]] = v /\ binds[x.phs[2]] = w
        BY StandsIs
    <2>2. x.col = "text" /\ x.cmp = "IN" /\ DOMAIN x.phs = {1, 2} /\ binds[x.phs[1]] = a /\ binds[x.phs[2]] = <<"A", "b">> BY <2>1, <2>0, Zenon
    <2>3. Atom(x, binds, row) <=> \E t \in row[x.col] : \E i \in DOMAIN x.phs : t = binds[x.phs[i]] BY <2>2, <2>9, AtomIs
    <2>4. \A t : (\E i \in DOMAIN x.phs : t = binds[x.phs[i]]) <=> t = a \/ t = <<"A", "b">> BY <2>2
    <2>5. l.op = "in" /\ l.field = "text" /\ DOMAIN l.vals = {1, 2} /\ l.vals[1] = a /\ l.vals[2] = <<"A", "b">> BY DEF L
    <2> HIDE DEF l
    <2>6. Holds(l, row) <=> \E t \in row[l.field] : \E i \in DOMAIN l.vals : t = l.vals[i] BY <2>5, HoldsIs, Zenon
    <2>7. \A t : (\E i \in DOMAIN l.vals : t = l.vals[i]) <=> t = a \/ t = <<"A", "b">> BY <2>5
    <2>8. Atom(x, binds, row) <=> \E t \in row["text"] : t = a \/ t = <<"A", "b">> BY <2>2, <2>3, <2>4, Zenon
    <2>10. Holds(l, row) <=> \E t \in row["text"] : t = a \/ t = <<"A", "b">> BY <2>5, <2>6, <2>7, Zenon
    <2>11. QED BY <2>1, <2>8, <2>10
<1>8. CASE n = 8
    <2> DEFINE l == L("num", "out", <<1, 3>>)
    <2>1. Leaves[n] = l /\ Is(Parsed(Leaves[n]), "num", "NOT IN", <<1, 3>>) BY <1>8, LeavesAre, LeavesBound
    <2>9. Filterable(x) BY <2>1, <1>0 DEF Is, Filterable
    <2>0. \A v, w : Is(Parsed(Leaves[n]), "num", "NOT IN", <<v, w>>) => x.col = "num" /\ x.cmp = "NOT IN" /\ DOMAIN x.phs = {1, 2} /\ binds[x.phs[1]] = v /\ binds[x.phs[2]] = w
        BY StandsIs
    <2>2. x.col = "num" /\ x.cmp = "NOT IN" /\ DOMAIN x.phs = {1, 2} /\ binds[x.phs[1]] = 1 /\ binds[x.phs[2]] = 3 BY <2>1, <2>0, Zenon
    <2>3. Atom(x, binds, row) <=> \E t \in row[x.col] : \A i \in DOMAIN x.phs : t # binds[x.phs[i]] BY <2>2, <2>9, AtomIs
    <2>4. \A t : (\A i \in DOMAIN x.phs : t # binds[x.phs[i]]) <=> t # 1 /\ t # 3 BY <2>2
    <2>5. l.op = "out" /\ l.field = "num" /\ DOMAIN l.vals = {1, 2} /\ l.vals[1] = 1 /\ l.vals[2] = 3 BY DEF L
    <2> HIDE DEF l
    <2>6. Holds(l, row) <=> \E t \in row[l.field] : \A i \in DOMAIN l.vals : t # l.vals[i] BY <2>5, HoldsIs, Zenon
    <2>7. \A t : (\A i \in DOMAIN l.vals : t # l.vals[i]) <=> t # 1 /\ t # 3 BY <2>5
    <2>8. Atom(x, binds, row) <=> \E t \in row["num"] : t # 1 /\ t # 3 BY <2>2, <2>3, <2>4, Zenon
    <2>10. Holds(l, row) <=> \E t \in row["num"] : t # 1 /\ t # 3 BY <2>5, <2>6, <2>7, Zenon
    <2>11. QED BY <2>1, <2>8, <2>10
<1>9. CASE n = 9
    <2> DEFINE l == L("num", "between", <<2, 3>>)
    <2>1. Leaves[n] = l /\ Is(Parsed(Leaves[n]), "num", "between", <<2, 3>>) BY <1>9, LeavesAre, LeavesBound
    <2>9. Filterable(x) BY <2>1, <1>0 DEF Is, Filterable
    <2>0. \A v, w : Is(Parsed(Leaves[n]), "num", "between", <<v, w>>) => x.col = "num" /\ x.cmp = "between" /\ DOMAIN x.phs = {1, 2} /\ binds[x.phs[1]] = v /\ binds[x.phs[2]] = w
        BY StandsIs
    <2>2. x.col = "num" /\ x.cmp = "between" /\ DOMAIN x.phs = {1, 2} /\ binds[x.phs[1]] = 2 /\ binds[x.phs[2]] = 3 BY <2>1, <2>0, Zenon
    <2>3. Atom(x, binds, row) <=> \E t \in row[x.col] : binds[x.phs[1]] <= t /\ t <= binds[x.phs[2]] BY <2>2, <2>9, AtomIs
    <2>4. \A t : (binds[x.phs[1]] <= t /\ t <= binds[x.phs[2]]) <=> 2 <= t /\ t <= 3 BY <2>2
    <2>5. l.op = "between" /\ l.field = "num" /\ DOMAIN l.vals = {1, 2} /\ l.vals[1] = 2 /\ l.vals[2] = 3 BY DEF L
    <2> HIDE DEF l
    <2>6. Holds(l, row) <=> \E t \in row[l.field] : l.vals[1] <= t /\ t <= l.vals[2] BY <2>5, HoldsIs, Zenon
    <2>7. \A t : (l.vals[1] <= t /\ t <= l.vals[2]) <=> 2 <= t /\ t <= 3 BY <2>5
    <2>8. Atom(x, binds, row) <=> \E t \in row["num"] : 2 <= t /\ t <= 3 BY <2>2, <2>3, <2>4, Zenon
    <2>10. Holds(l, row) <=> \E t \in row["num"] : 2 <= t /\ t <= 3 BY <2>5, <2>6, <2>7, Zenon
    <2>11. QED BY <2>1, <2>8, <2>10
<1>10. CASE n = 10
    <2> DEFINE l == L("text", "like", <<<<"A", "%">>>>)
    <2>1. Leaves[n] = l /\ Is(Parsed(Leaves[n]), "text", "LIKE", <<<<"A", "%">>>>) BY <1>10, LeavesAre, LeavesBound
    <2>9. Filterable(x) BY <2>1, <1>0 DEF Is, Filterable
    <2>2. x.col = "text" /\ x.cmp = "LIKE" /\ binds[x.phs[1]] = <<"A", "%">> BY <2>1, StandsIs
    <2>3. l.op = "like" /\ l.field = "text" /\ l.vals[1] = <<"A", "%">> BY DEF L
    <2> HIDE DEF l
    <2>4. Atom(x, binds, row) <=> \E t \in row[x.col] : Like(binds[x.phs[1]], t) BY <2>2, <2>9, AtomIs
    <2>5. Holds(l, row) <=> \E t \in row[l.field] : t[1] = "A" BY <2>3, HoldsIs, Zenon
    <2>6. \A t \in row["text"] : Like(<<"A", "%">>, t) <=> t[1] = "A" BY RowTexts, PatternsHold, Zenon
    <2>7. QED BY <2>1, <2>2, <2>3, <2>4, <2>5, <2>6, Zenon
<1>11. CASE n = 11
    <2> DEFINE l == L("text", "ilike", <<<<"%", "B">>>>)
    <2>1. Leaves[n] = l /\ Is(Parsed(Leaves[n]), "text", "ILIKE", <<<<"%", "B">>>>) BY <1>11, LeavesAre, LeavesBound
    <2>9. Filterable(x) BY <2>1, <1>0 DEF Is, Filterable
    <2>2. x.col = "text" /\ x.cmp = "ILIKE" /\ binds[x.phs[1]] = <<"%", "B">> BY <2>1, StandsIs
    <2>3. l.op = "ilike" /\ l.field = "text" /\ l.vals[1] = <<"%", "B">> BY DEF L
    <2> HIDE DEF l
    <2>4. Atom(x, binds, row) <=> \E t \in row[x.col] : Like(Lower(binds[x.phs[1]]), Lower(t)) BY <2>2, <2>9, AtomIs
    <2>5. Holds(l, row) <=> \E t \in row[l.field] : t[Len(t)] \in {"b", "B"} BY <2>3, HoldsIs, Zenon
    <2>6. \A t \in row["text"] : Like(Lower(<<"%", "B">>), Lower(t)) <=> t[Len(t)] \in {"b", "B"} BY RowTexts, PatternsHold, Zenon
    <2>7. QED BY <2>1, <2>2, <2>3, <2>4, <2>5, <2>6, Zenon
<1>12. CASE n = 12
    <2> DEFINE l == L("text", "contains", <<<<"b">>>>)
    <2>1. Leaves[n] = l /\ Is(Parsed(Leaves[n]), "text", "ILIKE", <<<<"%", "b", "%">>>>) BY <1>12, LeavesAre, LeavesBound
    <2>9. Filterable(x) BY <2>1, <1>0 DEF Is, Filterable
    <2>2. x.col = "text" /\ x.cmp = "ILIKE" /\ binds[x.phs[1]] = <<"%", "b", "%">> BY <2>1, StandsIs
    <2>3. l.op = "contains" /\ l.field = "text" /\ l.vals[1] = <<"b">> BY DEF L
    <2> HIDE DEF l
    <2>4. Atom(x, binds, row) <=> \E t \in row[x.col] : Like(Lower(binds[x.phs[1]]), Lower(t)) BY <2>2, <2>9, AtomIs
    <2>5. Holds(l, row) <=> \E t \in row[l.field] : \E i \in DOMAIN t, j \in DOMAIN t : SubSeq(Lower(t), i, j) = l.vals[1] BY <2>3, HoldsIs, Zenon
    <2>6. \A t \in row["text"] : Like(Lower(<<"%", "b", "%">>), Lower(t)) <=> \E i \in DOMAIN t, j \in DOMAIN t : SubSeq(Lower(t), i, j) = <<"b">> BY RowTexts, PatternsHold, Zenon
    <2>7. QED BY <2>1, <2>2, <2>3, <2>4, <2>5, <2>6, Zenon
<1>13. CASE n = 13
    <2> DEFINE l == L("text", "starts", <<a>>)
    <2>1. Leaves[n] = l /\ Is(Parsed(Leaves[n]), "text", "ILIKE", <<<<"a", "%">>>>) BY <1>13, LeavesAre, LeavesBound
    <2>9. Filterable(x) BY <2>1, <1>0 DEF Is, Filterable
    <2>2. x.col = "text" /\ x.cmp = "ILIKE" /\ binds[x.phs[1]] = <<"a", "%">> BY <2>1, StandsIs
    <2>3. l.op = "starts" /\ l.field = "text" /\ l.vals[1] = a /\ l.vals[1][1] # "%" BY TextsAre DEF L
    <2> HIDE DEF l
    <2>4. Atom(x, binds, row) <=> \E t \in row[x.col] : Like(Lower(binds[x.phs[1]]), Lower(t)) BY <2>2, <2>9, AtomIs
    <2>5. Holds(l, row) <=> \E t \in row[l.field] : SubSeq(Lower(t), 1, 1) = l.vals[1] BY <2>3, HoldsIs, Zenon
    <2>6. \A t \in row["text"] : Like(Lower(<<"a", "%">>), Lower(t)) <=> SubSeq(Lower(t), 1, 1) = a BY RowTexts, PatternsHold, Zenon
    <2>7. QED BY <2>1, <2>2, <2>3, <2>4, <2>5, <2>6, Zenon
<1>14. CASE n = 14
    <2> DEFINE l == L("text", "ends", <<a>>)
    <2>1. Leaves[n] = l /\ Is(Parsed(Leaves[n]), "text", "ILIKE", <<<<"%", "a">>>>) BY <1>14, LeavesAre, LeavesBound
    <2>9. Filterable(x) BY <2>1, <1>0 DEF Is, Filterable
    <2>2. x.col = "text" /\ x.cmp = "ILIKE" /\ binds[x.phs[1]] = <<"%", "a">> BY <2>1, StandsIs
    <2>3. l.op = "ends" /\ l.field = "text" /\ l.vals[1] = a BY DEF L
    <2> HIDE DEF l
    <2>4. Atom(x, binds, row) <=> \E t \in row[x.col] : Like(Lower(binds[x.phs[1]]), Lower(t)) BY <2>2, <2>9, AtomIs
    <2>5. Holds(l, row) <=> \E t \in row[l.field] : SubSeq(Lower(t), Len(t), Len(t)) = l.vals[1] BY <2>3, HoldsIs, Zenon
    <2>6. \A t \in row["text"] : Like(Lower(<<"%", "a">>), Lower(t)) <=> SubSeq(Lower(t), Len(t), Len(t)) = a BY RowTexts, PatternsHold, Zenon
    <2>7. QED BY <2>1, <2>2, <2>3, <2>4, <2>5, <2>6, Zenon
<1>15. CASE n = 15
    <2> DEFINE l == L("text", "null", <<"true">>)
    <2>1. Leaves[n] = l /\ Is(Parsed(Leaves[n]), "text", "is null", <<>>) BY <1>15, LeavesAre, LeavesBound
    <2>9. Filterable(x) BY <2>1, <1>0 DEF Is, Filterable
    <2>2. x.col = "text" /\ x.cmp = "is null" BY <2>1, StandsIs
    <2>3. Atom(x, binds, row) <=> row[x.col] = {} BY <2>2, <2>9, AtomIs
    <2>4. l.op = "null" /\ l.field = "text" /\ l.vals[1] = "true" BY DEF L
    <2> HIDE DEF l
    <2>5. Holds(l, row) <=> row["text"] = {} BY <2>4, HoldsIs
    <2>6. QED BY <2>1, <2>2, <2>3, <2>5
<1>16. CASE n = 16
    <2> DEFINE l == L("num", "null", <<"false">>)
    <2>1. Leaves[n] = l /\ Is(Parsed(Leaves[n]), "num", "is not null", <<>>) BY <1>16, LeavesAre, LeavesBound
    <2>9. Filterable(x) BY <2>1, <1>0 DEF Is, Filterable
    <2>2. x.col = "num" /\ x.cmp = "is not null" BY <2>1, StandsIs
    <2>3. Atom(x, binds, row) <=> row[x.col] # {} BY <2>2, <2>9, AtomIs
    <2>4. l.op = "null" /\ l.field = "num" /\ l.vals[1] = "false" BY DEF L
    <2> HIDE DEF l
    <2>5. Holds(l, row) <=> row["num"] # {} BY <2>4, HoldsIs
    <2>6. QED BY <2>1, <2>2, <2>3, <2>5
<1>17. CASE n = 17
    <2> DEFINE l == L("flag", "==", <<TRUE>>)
    <2>1. Leaves[n] = l /\ Is(Parsed(Leaves[n]), "flag", "=", <<TRUE>>) BY <1>17, LeavesAre, LeavesBound
    <2>9. Filterable(x) BY <2>1, <1>0 DEF Is, Filterable
    <2>2. x.col = "flag" /\ x.cmp = "=" /\ binds[x.phs[1]] = TRUE BY <2>1, StandsIs
    <2>3. l.op = "==" /\ l.field = "flag" /\ l.vals[1] = TRUE BY DEF L
    <2> HIDE DEF l
    <2>4. Atom(x, binds, row) <=> \E t \in row[x.col] : t = binds[x.phs[1]] BY <2>2, <2>9, AtomIs
    <2>5. Holds(l, row) <=> \E t \in row[l.field] : t = l.vals[1] BY <2>3, HoldsIs, Zenon
    <2>6. QED BY <2>1, <2>2, <2>3, <2>4, <2>5, Zenon
<1>20. CASE n = 20
    <2> DEFINE u == <<"%", "b">>
               l == L("text", "starts", <<u>>)
    <2>1. Leaves[n] = l /\ Is(Parsed(Leaves[n]), "text", "ILIKE", <<<<"%", "b", "%">>>>) BY <1>20, LeavesAre, LeavesBound
    <2>9. Filterable(x) BY <2>1, <1>0 DEF Is, Filterable
    <2>2. x.col = "text" /\ x.cmp = "ILIKE" /\ binds[x.phs[1]] = <<"%", "b", "%">> BY <2>1, StandsIs
    <2>0. u[1] = "%" /\ Tail(u) = <<"b">> OBVIOUS
    <2>3. l.op = "starts" /\ l.field = "text" /\ l.vals[1] = u BY DEF L
    <2> HIDE DEF l, u
    <2>4. Atom(x, binds, row) <=> \E t \in row[x.col] : Like(Lower(binds[x.phs[1]]), Lower(t)) BY <2>2, <2>9, AtomIs
    <2>5. Holds(l, row) <=> \E t \in row[l.field] : \E i \in DOMAIN t, j \in DOMAIN t : SubSeq(Lower(t), i, j) = Tail(l.vals[1]) BY <2>0, <2>3, HoldsIs, Zenon
    <2>6. \A t \in row["text"] : Like(Lower(<<"%", "b", "%">>), Lower(t)) <=> \E i \in DOMAIN t, j \in DOMAIN t : SubSeq(Lower(t), i, j) = <<"b">> BY RowTexts, PatternsHold, Zenon
    <2>7. QED BY <2>0, <2>1, <2>2, <2>3, <2>4, <2>5, <2>6, Zenon
<1>18. n \in {1, 2, 3, 4, 5, 6, 7, 8, 9, 10, 11, 12, 13, 14, 15, 16, 17, 20} BY DEF Sensible
<1>19. QED BY <1>18, <1>20, <1>1, <1>2, <1>3, <1>4, <1>5, <1>6, <1>7, <1>8, <1>9, <1>10, <1>11, <1>12, <1>13, <1>14, <1>15, <1>16, <1>17

-----------------------------------------------------------------------------
(***************************************************************************)
(* The fixed condition of an endpoint: one or two atoms joined by AND.     *)
(***************************************************************************)
Leaf(n) == [t |-> "leaf", n |-> n]
Begun(b, K) ==
    /\ Builder(b) /\ b.ok /\ b.params = <<>>
    /\ ASeq(b.atoms) /\ Len(b.atoms) = K
    /\ ASeq(b.sql) /\ b.sql[1] = Leaf(1)
    /\ K = 2 => b.sql[2] = Sym("and") /\ b.sql[3] = Leaf(2)

OneOrTwo(K) == K \in {1, 2}

\* The query of a fixed condition.
LEMMA StartIs ==
    ASSUME NEW next, NEW fixed, ASeq(fixed), NEW K, OneOrTwo(K), Len(fixed) = K
    PROVE  LET b == Start(next, fixed, TRUE) IN
           Begun(b, K) /\ b.atoms = fixed /\ b.next = next /\ Len(b.sql) = 2 * K - 1
<1> USE DEF OneOrTwo
<1> DEFINE b == Start(next, fixed, TRUE)
           f == [i \in 1..(2 * K - 1) |-> IF i % 2 = 0 THEN Sym("and") ELSE Leaf((i + 1) \div 2)]
           T == {f[i] : i \in 1..(2 * K - 1)}
<1>1. b = [ok |-> TRUE, atoms |-> fixed, params |-> <<>>, next |-> next, sql |-> f] BY DEF Start, Leaf
<1>2. 2 * K - 1 \in Nat OBVIOUS
<1>3. f \in [1..(2 * K - 1) -> T] OBVIOUS
<1>4. f[1] = Leaf(1)
    <2>1. 1 \in 1..(2 * K - 1) /\ 1 % 2 # 0 /\ (1 + 1) \div 2 = 1 OBVIOUS
    <2>2. QED BY <2>1
<1>5. K = 2 => f[2] = Sym("and") /\ f[3] = Leaf(2)
    <2>1. K = 2 => 2 \in 1..(2 * K - 1) /\ 3 \in 1..(2 * K - 1) OBVIOUS
    <2>2. 2 % 2 = 0 /\ 3 % 2 # 0 /\ (3 + 1) \div 2 = 2 OBVIOUS
    <2>3. QED BY <2>1, <2>2
<1> HIDE DEF f, T
<1>6. f \in Seq(T) /\ Len(f) = 2 * K - 1 BY <1>2, <1>3, FunIsSeq
<1>7. ASeq(f) BY <1>6 DEF ASeq
<1> HIDE DEF b
<1>8. b.ok = TRUE /\ b.atoms = fixed /\ b.params = <<>> /\ b.next = next /\ b.sql = f BY <1>1
<1>9. Builder(b) BY <1>1, <1>8 DEF Builder
<1>10. QED BY <1>4, <1>5, <1>6, <1>7, <1>8, <1>9 DEF Begun, b

From(e) == Len(FixedBinds(e)) + 1
FixedAtoms(e) ==
    CASE e = "users" -> <<Tenant, Fixed("live", <<>>)>>
      [] e = "group members" -> <<Tenant, Fixed("group", <<2>>)>>
      [] e = "permissions" -> <<Tenant, Fixed("document", <<>>)>>
      [] OTHER -> <<Tenant>>
Fixes(e) == IF e = "users" \/ e = "group members" \/ e = "permissions" THEN 2 ELSE 1

\* The fixed condition of an endpoint and the values bound for it.
LEMMA QueryIs ==
    ASSUME NEW e \in Endpoint
    PROVE  /\ Query(e) = Start(From(e), FixedAtoms(e), TRUE)
           /\ ASeq(FixedBinds(e)) /\ Len(FixedBinds(e)) \in Nat /\ From(e) \in Nat /\ From(e) >= 1
           /\ e # "group members" => From(e) = 2 /\ FixedBinds(e) = <<"mine">>
           /\ e = "group members" => From(e) = 3 /\ FixedBinds(e) = <<"mine", "the group">>
<1> DEFINE one == <<"mine">>
           two == <<"mine", "the group">>
<1>0. one \in Seq({"mine"}) /\ two \in Seq({"mine", "the group"}) OBVIOUS
<1>1. Len(one) = 1 OBVIOUS
<1>2. Len(two) = 2 OBVIOUS
<1>3. FixedBinds(e) = IF e = "group members" THEN two ELSE one BY DEF FixedBinds
<1> HIDE DEF one, two
<1>4. ASeq(one) /\ ASeq(two) BY <1>0 DEF ASeq
<1>5. /\ ASeq(FixedBinds(e)) /\ Len(FixedBinds(e)) \in Nat /\ From(e) \in Nat /\ From(e) >= 1
      /\ e # "group members" => From(e) = 2 /\ FixedBinds(e) = one
      /\ e = "group members" => From(e) = 3 /\ FixedBinds(e) = two
    <2>1. CASE e = "group members"
        <3>1. FixedBinds(e) = two BY <1>3, <2>1
        <3>2. Len(FixedBinds(e)) = 2 BY <1>2, <3>1
        <3>4. From(e) = 3 BY <3>2 DEF From
        <3>3. ASeq(FixedBinds(e)) BY <1>4, <3>1
        <3>5. Len(FixedBinds(e)) \in Nat /\ From(e) \in Nat /\ From(e) >= 1 BY <3>2, <3>4
        <3>6. QED BY <2>1, <3>1, <3>3, <3>4, <3>5, Zenon
    <2>2. CASE e # "group members"
        <3>1. FixedBinds(e) = one BY <1>3, <2>2
        <3>2. Len(FixedBinds(e)) = 1 BY <1>1, <3>1
        <3>4. From(e) = 2 BY <3>2 DEF From
        <3>3. ASeq(FixedBinds(e)) BY <1>4, <3>1
        <3>5. Len(FixedBinds(e)) \in Nat /\ From(e) \in Nat /\ From(e) >= 1 BY <3>2, <3>4
        <3>6. QED BY <2>2, <3>1, <3>3, <3>4, <3>5, Zenon
    <2>3. QED BY <2>1, <2>2
<1>6. Query(e) = Start(From(e), FixedAtoms(e), TRUE)
    <2>1. CASE e = "users"
        <3>1. Query(e) = Start(2, <<Tenant, Fixed("live", <<>>)>>, TRUE) BY <2>1 DEF Query, ListUsers
        <3>2. FixedAtoms(e) = <<Tenant, Fixed("live", <<>>)>> BY <2>1 DEF FixedAtoms
        <3>3. From(e) = 2 BY <1>5, <2>1
        <3>4. QED BY <3>1, <3>2, <3>3, Zenon
    <2>2. CASE e = "group members"
        <3>1. Query(e) = Start(3, <<Tenant, Fixed("group", <<2>>)>>, TRUE) BY <2>2 DEF Query, list_by_group
        <3>2. FixedAtoms(e) = <<Tenant, Fixed("group", <<2>>)>> BY <2>2 DEF FixedAtoms
        <3>3. From(e) = 3 BY <1>5, <2>2
        <3>4. QED BY <3>1, <3>2, <3>3, Zenon
    <2>3. CASE e = "permissions"
        <3>1. Query(e) = Start(2, <<Tenant, Fixed("document", <<>>)>>, TRUE) BY <2>3 DEF Query, ListPermissions
        <3>2. FixedAtoms(e) = <<Tenant, Fixed("document", <<>>)>> BY <2>3 DEF FixedAtoms
        <3>3. From(e) = 2 BY <1>5, <2>3
        <3>4. QED BY <3>1, <3>2, <3>3, Zenon
    <2>4. CASE e = "all users" \/ e = "roles" \/ e = "groups"
        <3>1. Query(e) = Start(2, <<Tenant>>, TRUE) BY <2>4 DEF Query, ListUsers, ListGroups, list_roles
        <3>2. FixedAtoms(e) = <<Tenant>> BY <2>4 DEF FixedAtoms
        <3>3. From(e) = 2 BY <1>5, <2>4
        <3>4. QED BY <3>1, <3>2, <3>3, Zenon
    <2>5. QED BY <2>1, <2>2, <2>3, <2>4 DEF Endpoint
<1>7. QED BY <1>5, <1>6 DEF one, two

\* The second atom of an endpoint that has one.
Second(e) ==
    CASE e = "users" -> Fixed("live", <<>>)
      [] e = "group members" -> Fixed("group", <<2>>)
      [] e = "permissions" -> Fixed("document", <<>>)

\* How many atoms the fixed condition of an endpoint has.
LEMMA FixesIs ==
    ASSUME NEW e
    PROVE  /\ (e = "users" \/ e = "group members" \/ e = "permissions") => Fixes(e) = 2 /\ Fixes(e) # 1
           /\ ~(e = "users" \/ e = "group members" \/ e = "permissions") => Fixes(e) = 1 /\ Fixes(e) # 2
<1>1. (e = "users" \/ e = "group members" \/ e = "permissions") => Fixes(e) = 2 BY DEF Fixes
<1>2. ~(e = "users" \/ e = "group members" \/ e = "permissions") => Fixes(e) = 1 BY DEF Fixes
<1>3. 1 # 2 /\ 2 # 1 OBVIOUS
<1>4. QED BY <1>1, <1>2, <1>3, Zenon

\* The atoms of the fixed condition.
LEMMA FixedAtomsAre ==
    ASSUME NEW e \in Endpoint
    PROVE  /\ ASeq(FixedAtoms(e)) /\ Len(FixedAtoms(e)) = Fixes(e) /\ Fixes(e) \in {1, 2}
           /\ FixedAtoms(e)[1] = Tenant
           /\ Fixes(e) = 2 => FixedAtoms(e)[2] = Second(e)
<1>1. ASSUME NEW x, NEW y PROVE ASeq(<<x, y>>) /\ Len(<<x, y>>) = 2 /\ <<x, y>>[1] = x /\ <<x, y>>[2] = y
    <2>1. <<x, y>> \in Seq({x, y}) /\ Len(<<x, y>>) = 2 /\ <<x, y>>[1] = x /\ <<x, y>>[2] = y OBVIOUS
    <2>2. QED BY <2>1 DEF ASeq
<1>2. ASSUME NEW x PROVE ASeq(<<x>>) /\ Len(<<x>>) = 1 /\ <<x>>[1] = x
    <2>1. <<x>> \in Seq({x}) /\ Len(<<x>>) = 1 /\ <<x>>[1] = x OBVIOUS
    <2>2. QED BY <2>1 DEF ASeq
<1>3. CASE e = "users" \/ e = "group members" \/ e = "permissions"
    <2>1. FixedAtoms(e) = <<Tenant, Second(e)>> BY <1>3 DEF FixedAtoms, Second
    <2>2. Fixes(e) = 2 BY <1>3 DEF Fixes
    <2> DEFINE y == Second(e)
    <2> HIDE DEF y
    <2>3. FixedAtoms(e) = <<Tenant, y>> BY <2>1 DEF y
    <2>4. /\ ASeq(FixedAtoms(e)) /\ Len(FixedAtoms(e)) = 2 /\ FixedAtoms(e)[1] = Tenant /\ FixedAtoms(e)[2] = y
        BY <1>1, <2>3
    <2>5. QED BY <2>2, <2>4 DEF y
<1>4. CASE ~(e = "users" \/ e = "group members" \/ e = "permissions")
    <2>1. FixedAtoms(e) = <<Tenant>> BY <1>4 DEF FixedAtoms
    <2>2. Fixes(e) = 1 BY <1>4 DEF Fixes
    <2>3. QED BY <1>2, <2>1, <2>2
<1>5. QED BY <1>3, <1>4

\* The placeholders of the fixed condition fit.
LEMMA FixedFit ==
    ASSUME NEW e \in Endpoint
    PROVE  Fitting(FixedAtoms(e), From(e))
<1> DEFINE s == FixedAtoms(e)
<1>0. /\ (e = "users" \/ e = "group members" \/ e = "permissions") => Fixes(e) = 2 /\ Fixes(e) # 1
      /\ ~(e = "users" \/ e = "group members" \/ e = "permissions") => Fixes(e) = 1 /\ Fixes(e) # 2
    BY FixesIs
<1>1. Tenant.col = "tenant" /\ DOMAIN Tenant.phs = {1} /\ Tenant.phs[1] = 1 BY DEF Tenant, Fixed
<1>2. Cast(Tenant) BY <1>1 DEF Cast
<1>3. Len(s) = Fixes(e) /\ Fixes(e) \in {1, 2} /\ s[1] = Tenant /\ (Fixes(e) = 2 => s[2] = Second(e)) BY FixedAtomsAre
<1>4. (e = "group members" => From(e) = 3) /\ (e # "group members" => From(e) = 2) BY QueryIs
<1> HIDE DEF s
<1>5. CASE Fixes(e) = 1
    <2>1. e # "group members" BY <1>0, <1>5
    <2>2. From(e) = 2 BY <1>4, <2>1
    <2>11. From(e) - 1 = 1 BY <2>2
    <2>3. Len(s) = 1 BY <1>3, <1>5
    <2>4. \A n \in 1..Len(s) : n = 1 BY <2>3
    <2>5. 1 \in 1..Len(s) BY <2>3
    <2>6. \A n \in 1..Len(s) : s[n] = Tenant BY <1>3, <2>4
    <2>7. \A n \in 1..Len(s) : Cast(s[n]) /\ \A i \in DOMAIN s[n].phs : s[n].phs[i] \in 1..(From(e) - 1) BY <1>1, <1>2, <2>6, <2>11
    <2>8. \A m \in 1..(From(e) - 1) : \E n \in 1..Len(s) : \E i \in DOMAIN s[n].phs : s[n].phs[i] = m BY <1>1, <2>5, <2>6, <2>11
    <2>9. \A n \in 1..Len(s), k \in 1..Len(s) : \A i \in DOMAIN s[n].phs, j \in DOMAIN s[k].phs :
             s[n].phs[i] = s[k].phs[j] => n = k /\ i = j
        BY <1>1, <2>4, <2>6
    <2>10. QED BY <2>7, <2>8, <2>9 DEF Fitting, s
<1>6. CASE Fixes(e) = 2
    <2> DEFINE y == Second(e)
    <2>1. s[1] = Tenant /\ s[2] = y /\ Len(s) = 2 BY <1>3, <1>6
    <2>2. (e = "users" \/ e = "group members" \/ e = "permissions") BY <1>0, <1>6
    <2>3. /\ Cast(y)
          /\ e # "group members" => DOMAIN y.phs = {}
          /\ e = "group members" => DOMAIN y.phs = {1} /\ y.phs[1] = 2
        <3>1. CASE e = "users"
            <4>1. y = Fixed("live", <<>>) BY <3>1 DEF Second
            <4>2. y.col = "live" /\ DOMAIN y.phs = {} BY <4>1 DEF Fixed
            <4>3. QED BY <3>1, <4>2 DEF Cast
        <3>2. CASE e = "group members"
            <4>1. y = Fixed("group", <<2>>) BY <3>2 DEF Second
            <4>2. y.col = "group" /\ DOMAIN y.phs = {1} /\ y.phs[1] = 2 BY <4>1 DEF Fixed
            <4>3. QED BY <3>2, <4>2 DEF Cast
        <3>3. CASE e = "permissions"
            <4>1. y = Fixed("document", <<>>) BY <3>3 DEF Second
            <4>2. y.col = "document" /\ DOMAIN y.phs = {} BY <4>1 DEF Fixed
            <4>3. QED BY <3>3, <4>2 DEF Cast
        <3>4. QED BY <2>2, <3>1, <3>2, <3>3
    <2> HIDE DEF y
    <2>4. \A n \in 1..Len(s) : n = 1 \/ n = 2 BY <2>1
    <2>5. 1 \in 1..Len(s) /\ 2 \in 1..Len(s) BY <2>1
    <2>6. \A n \in 1..Len(s) : \/ n = 1 /\ s[n] = Tenant
                               \/ n = 2 /\ s[n] = y BY <2>1, <2>4
    <2>11. /\ 1 \in 1..(From(e) - 1) /\ \A m \in 1..(From(e) - 1) : m = 1 \/ m = 2
           /\ e = "group members" => 2 \in 1..(From(e) - 1)
           /\ e # "group members" => 2 \notin 1..(From(e) - 1)
        <3>1. CASE e = "group members"
            <4>1. From(e) = 3 BY <1>4, <3>1
            <4>2. 1 \in 1..(From(e) - 1) /\ 2 \in 1..(From(e) - 1) /\ \A m \in 1..(From(e) - 1) : m = 1 \/ m = 2 BY <4>1
            <4>3. QED BY <3>1, <4>2
        <3>2. CASE e # "group members"
            <4>1. From(e) = 2 BY <1>4, <3>2
            <4>2. 1 \in 1..(From(e) - 1) /\ 2 \notin 1..(From(e) - 1) /\ \A m \in 1..(From(e) - 1) : m = 1 \/ m = 2 BY <4>1
            <4>3. QED BY <3>2, <4>2
        <3>3. QED BY <3>1, <3>2
    <2>12. ASSUME NEW i \in DOMAIN y.phs PROVE e = "group members" /\ i = 1 /\ y.phs[i] = 2
        <3>1. e = "group members" BY <2>3, <2>12
        <3>2. i = 1 BY <2>3, <2>12, <3>1
        <3>3. QED BY <2>3, <3>1, <3>2
    <2>7. \A n \in 1..Len(s) : Cast(s[n]) /\ \A i \in DOMAIN s[n].phs : s[n].phs[i] \in 1..(From(e) - 1)
        <3>1. ASSUME NEW n \in 1..Len(s) PROVE Cast(s[n]) /\ \A i \in DOMAIN s[n].phs : s[n].phs[i] \in 1..(From(e) - 1)
            <4>1. CASE s[n] = Tenant
                <5>1. \A i \in DOMAIN Tenant.phs : Tenant.phs[i] \in 1..(From(e) - 1) BY <1>1, <2>11
                <5>2. QED BY <1>2, <4>1, <5>1
            <4>2. CASE s[n] = y
                <5>1. \A i \in DOMAIN y.phs : y.phs[i] \in 1..(From(e) - 1) BY <2>11, <2>12
                <5>2. QED BY <2>3, <4>2, <5>1
            <4>3. QED BY <2>6, <4>1, <4>2
        <3>2. QED BY <3>1
    <2>8. ASSUME NEW m \in 1..(From(e) - 1) PROVE \E n \in 1..Len(s) : \E i \in DOMAIN s[n].phs : s[n].phs[i] = m
        <3>1. m = 1 \/ (e = "group members" /\ m = 2) BY <2>11
        <3>2. CASE m = 1 BY <1>1, <2>1, <2>5, <3>2
        <3>3. CASE e = "group members" /\ m = 2 BY <2>1, <2>3, <2>5, <3>3
        <3>4. QED BY <3>1, <3>2, <3>3
    <2>9. \A n \in 1..Len(s), k \in 1..Len(s) : \A i \in DOMAIN s[n].phs, j \in DOMAIN s[k].phs :
             s[n].phs[i] = s[k].phs[j] => n = k /\ i = j
        <3>1. ASSUME NEW n \in 1..Len(s), NEW i \in DOMAIN s[n].phs PROVE i = 1 /\ s[n].phs[i] = n
            <4>1. CASE n = 1 /\ s[n] = Tenant BY <1>1, <4>1
            <4>2. CASE n = 2 /\ s[n] = y BY <2>12, <4>2
            <4>3. QED BY <2>6, <4>1, <4>2
        <3>2. QED BY <3>1
    <2>10. QED BY <2>7, <2>8, <2>9 DEF Fitting, s
<1>7. QED BY <1>3, <1>5, <1>6

\* An atom of the fixed condition on a row.
LEMMA FixedAtom ==
    ASSUME NEW x, NEW binds, NEW row \in Row, x.cmp = "fixed"
    PROVE  /\ x.col = "tenant" => (Atom(x, binds, row) <=> (row.mine /\ binds[x.phs[1]] = "mine"))
           /\ x.col = "live" => (Atom(x, binds, row) <=> row.live)
           /\ x.col = "group" => (Atom(x, binds, row) <=> (row.group /\ binds[x.phs[1]] = "the group"))
           /\ x.col = "document" => Atom(x, binds, row)
<1>1. row.mine \in BOOLEAN /\ row.live \in BOOLEAN /\ row.group \in BOOLEAN BY DEF Row
<1>2. x.col = "tenant" => (Atom(x, binds, row) <=> (row.mine /\ binds[x.phs[1]] = "mine")) BY <1>1 DEF Atom
<1>3. x.col = "live" => (Atom(x, binds, row) <=> row.live) BY <1>1 DEF Atom
<1>4. x.col = "group" => (Atom(x, binds, row) <=> (row.group /\ binds[x.phs[1]] = "the group")) BY <1>1 DEF Atom
<1>5. x.col = "document" => Atom(x, binds, row) BY DEF Atom
<1>6. QED BY <1>2, <1>3, <1>4, <1>5

\* The fixed condition is true for the rows the caller may see.
LEMMA FixedMean ==
    ASSUME NEW e \in Endpoint, NEW binds, \A i \in 1..Len(FixedBinds(e)) : binds[i] = FixedBinds(e)[i], NEW row \in Row
    PROVE  (Atom(Tenant, binds, row) /\ (Fixes(e) = 2 => Atom(Second(e), binds, row))) <=> Visible(e, row)
<1>1. binds[1] = "mine" /\ (e = "group members" => binds[2] = "the group")
    <2>1. CASE e = "group members"
        <3> DEFINE two == <<"mine", "the group">>
        <3>1. FixedBinds(e) = two BY <2>1, QueryIs
        <3>2. Len(two) = 2 /\ two[1] = "mine" /\ two[2] = "the group" OBVIOUS
        <3> HIDE DEF two
        <3>5. Len(FixedBinds(e)) = 2 BY <3>1, <3>2
        <3>3. 1 \in 1..Len(FixedBinds(e)) /\ 2 \in 1..Len(FixedBinds(e)) BY <3>5
        <3>4. QED BY <3>1, <3>2, <3>3
    <2>2. CASE e # "group members"
        <3> DEFINE one == <<"mine">>
        <3>1. FixedBinds(e) = one BY <2>2, QueryIs
        <3>2. Len(one) = 1 /\ one[1] = "mine" OBVIOUS
        <3> HIDE DEF one
        <3>3. 1 \in 1..Len(FixedBinds(e)) BY <3>1, <3>2
        <3>4. QED BY <2>2, <3>1, <3>2, <3>3
    <2>3. QED BY <2>1, <2>2
<1>2. Tenant.cmp = "fixed" /\ Tenant.col = "tenant" /\ Tenant.phs[1] = 1 BY DEF Tenant, Fixed
<1>3. Atom(Tenant, binds, row) <=> row.mine
    <2>1. Atom(Tenant, binds, row) <=> (row.mine /\ binds[Tenant.phs[1]] = "mine") BY <1>2, FixedAtom
    <2>2. QED BY <1>1, <1>2, <2>1, Zenon
<1>4. CASE e = "users"
    <2>1. Second(e).cmp = "fixed" /\ Second(e).col = "live" BY <1>4 DEF Second, Fixed
    <2>2. Atom(Second(e), binds, row) <=> row.live BY <2>1, FixedAtom
    <2>3. Fixes(e) = 2 BY <1>4, FixesIs
    <2>4. Visible(e, row) <=> row.mine /\ row.live BY <1>4 DEF Visible
    <2>5. QED BY <1>3, <2>2, <2>3, <2>4, Zenon
<1>5. CASE e = "group members"
    <2>1. Second(e).cmp = "fixed" /\ Second(e).col = "group" /\ Second(e).phs[1] = 2 BY <1>5 DEF Second, Fixed
    <2>2. Atom(Second(e), binds, row) <=> (row.group /\ binds[Second(e).phs[1]] = "the group") BY <2>1, FixedAtom
    <2>3. Fixes(e) = 2 BY <1>5, FixesIs
    <2>4. Visible(e, row) <=> row.mine /\ row.group BY <1>5 DEF Visible
    <2>5. QED BY <1>1, <1>3, <1>5, <2>1, <2>2, <2>3, <2>4, Zenon
<1>6. CASE e = "permissions"
    <2>1. Second(e).cmp = "fixed" /\ Second(e).col = "document" BY <1>6 DEF Second, Fixed
    <2>2. Atom(Second(e), binds, row) <=> TRUE BY <2>1, FixedAtom
    <2>3. Visible(e, row) <=> row.mine BY <1>6 DEF Visible
    <2>4. QED BY <1>3, <2>2, <2>3, Zenon
<1>7. CASE ~(e = "users" \/ e = "group members" \/ e = "permissions")
    <2>1. Fixes(e) # 2 BY <1>7, FixesIs
    <2>2. Visible(e, row) <=> row.mine BY <1>7 DEF Visible
    <2>3. QED BY <1>3, <2>1, <2>2, Zenon
<1>8. QED BY <1>4, <1>5, <1>6, <1>7

-----------------------------------------------------------------------------
(***************************************************************************)
(* What is read of a text are rows.                                        *)
(***************************************************************************)
OfRows(R) == \A u \in R : u \in SUBSET Row

\* What is read of a text are sets of rows.
LEMMA ReadingRows ==
    ASSUME NEW s \in Seq(Item)
    PROVE  OfRows(Reading(s))
<1> DEFINE C == {n \in Nat : \E x \in Seq(Item) : Len(x) = n /\ ~OfRows(Reading(x))}
<1>1. SUFFICES ASSUME C # {} PROVE FALSE
    <2>1. C = {} => OfRows(Reading(s)) OBVIOUS
    <2>2. QED BY <2>1
<1>2. PICK n \in C : \A m \in C : n <= m
    <2>1. C \in SUBSET Nat OBVIOUS
    <2> HIDE DEF C
    <2>2. QED BY <1>1, <2>1, Least
<1>3. PICK x \in Seq(Item) : Len(x) = n /\ ~OfRows(Reading(x)) BY <1>2
<1>4. ASSUME NEW y \in Seq(Item), Len(y) < Len(x) PROVE OfRows(Reading(y))
    <2>1. Len(y) \in Nat OBVIOUS
    <2>2. Len(y) \notin C BY <1>2, <1>3, <1>4, <2>1
    <2>3. QED BY <1>4, <2>1, <2>2
<1> HIDE DEF C
<1>5. Len(x) \in Nat OBVIOUS
<1>6. ASSUME NEW t \in Separator, Outermost(x, t) # {}
      PROVE  OfRows(Reading(Before(x, First(Outermost(x, t))))) /\ OfRows(Reading(After(x, First(Outermost(x, t)))))
    <2> DEFINE c == First(Outermost(x, t))
    <2>1. c \in 1..Len(x) BY <1>6, OutermostIn
    <2> HIDE DEF c
    <2>2. Before(x, c) \in Seq(Item) /\ Len(Before(x, c)) = c - 1 /\ After(x, c) \in Seq(Item) /\ Len(After(x, c)) = Len(x) - c
        BY <2>1, Cuts
    <2>3. Len(Before(x, c)) < Len(x) /\ Len(After(x, c)) < Len(x) BY <1>5, <2>1, <2>2
    <2>4. QED BY <1>4, <2>2, <2>3 DEF c
<1>7. CASE Outermost(x, "or") # {}
    <2> DEFINE c == First(Outermost(x, "or"))
    <2>1. Reading(x) = {u \cup v : u \in Reading(Before(x, c)), v \in Reading(After(x, c))} BY <1>7, ReadingCut
    <2>2. OfRows(Reading(Before(x, c))) /\ OfRows(Reading(After(x, c))) BY <1>6, <1>7 DEF Separator
    <2> DEFINE A == Reading(Before(x, c))
               B == Reading(After(x, c))
    <2>3. OfRows(A) /\ OfRows(B) /\ Reading(x) = {u \cup v : u \in A, v \in B} BY <2>1, <2>2
    <2> HIDE DEF A, B, c
    <2>4. ASSUME NEW z \in Reading(x) PROVE z \in SUBSET Row
        <3>1. PICK u \in A, v \in B : z = u \cup v BY <2>3
        <3>2. u \in SUBSET Row /\ v \in SUBSET Row BY <2>3 DEF OfRows
        <3>3. QED BY <3>1, <3>2
    <2>5. QED BY <1>3, <2>4 DEF OfRows
<1>8. CASE Outermost(x, "or") = {} /\ Outermost(x, "and") # {}
    <2> DEFINE c == First(Outermost(x, "and"))
    <2>1. Reading(x) = {u \cap v : u \in Reading(Before(x, c)), v \in Reading(After(x, c))} BY <1>8, ReadingCut
    <2>2. OfRows(Reading(Before(x, c))) /\ OfRows(Reading(After(x, c))) BY <1>6, <1>8 DEF Separator
    <2> DEFINE A == Reading(Before(x, c))
               B == Reading(After(x, c))
    <2>3. OfRows(A) /\ OfRows(B) /\ Reading(x) = {u \cap v : u \in A, v \in B} BY <2>1, <2>2
    <2> HIDE DEF A, B, c
    <2>4. ASSUME NEW z \in Reading(x) PROVE z \in SUBSET Row
        <3>1. PICK u \in A, v \in B : z = u \cap v BY <2>3
        <3>2. u \in SUBSET Row /\ v \in SUBSET Row BY <2>3 DEF OfRows
        <3>3. QED BY <3>1, <3>2
    <2>5. QED BY <1>3, <2>4 DEF OfRows
<1>9. CASE Outermost(x, "or") = {} /\ Outermost(x, "and") = {}
    <2>0. OfRows({}) BY DEF OfRows
    <2>1. CASE Len(x) = 1
        <3>1. Reading(x) = {x[1].rows} \/ Reading(x) = {} BY <1>9, <2>1, ReadingCut
        <3>2. x[1] \in Item BY <2>1
        <3>3. x[1].rows \in SUBSET Row BY <3>2 DEF Item
        <3>4. OfRows({x[1].rows}) BY <3>3 DEF OfRows
        <3>5. QED BY <1>3, <2>0, <3>1, <3>4
    <2>2. CASE Len(x) # 1
        <3>1. /\ Enclosed(x) => Reading(x) = Reading(Inside(x))
              /\ ~Enclosed(x) => Reading(x) = {}
            BY <1>9, <2>2, ReadingCut
        <3>2. CASE Enclosed(x)
            <4>1. Inside(x) \in Seq(Item) /\ Len(Inside(x)) < Len(x) BY <3>2, EnclosedBrackets
            <4>2. OfRows(Reading(Inside(x))) BY <1>4, <4>1
            <4>3. QED BY <1>3, <3>1, <3>2, <4>2
        <3>3. CASE ~Enclosed(x) BY <1>3, <2>0, <3>1, <3>3
        <3>4. QED BY <3>2, <3>3
    <2>3. QED BY <2>1, <2>2
<1>10. QED BY <1>7, <1>8, <1>9

\* A comparison alone is read as its rows.
LEMMA ReadLeaf ==
    ASSUME NEW s \in Seq(Item), Len(s) = 1, s[1].t = "leaf"
    PROVE  Reading(s) = {s[1].rows} /\ Closed(s) /\ Plain(s, "or") /\ Plain(s, "and")
<1>1. IsSeq(s) BY SeqIsSeq
<1>2. Closed(s) /\ Plain(s, "or") /\ Plain(s, "and") BY <1>1, LeafClosed
<1>3. Reading(s) = {s[1].rows} BY <1>2, ReadingCut DEF Plain
<1>4. QED BY <1>2, <1>3

\* A leaf and what AND puts behind it.
LEMMA AndLeaf ==
    ASSUME NEW s \in Seq(Item), Len(s) >= 2, s[1].t = "leaf", s[2].t = "and", Plain(After(s, 2), "or")
    PROVE  Reading(s) = {s[1].rows \cap v : v \in Reading(After(s, 2))} /\ Plain(s, "or")
<1> DEFINE x == Before(s, 2)
           y == After(s, 2)
<1>0. Len(s) \in Nat OBVIOUS
<1>1. 2 \in 1..Len(s) BY <1>0
<1>2. /\ x \in Seq(Item) /\ Len(x) = 2 - 1 /\ \A k \in 1..(2 - 1) : x[k] = s[k]
      /\ y \in Seq(Item)
    BY <1>1, Cuts
<1>3. Glued(s, x, s[2], y) BY <1>1, GlueAtCut
<1> HIDE DEF x, y
<1>4. Len(x) = 1 /\ x[1] = s[1]
    <2>1. 2 - 1 = 1 /\ 1 \in 1..1 OBVIOUS
    <2>2. QED BY <1>2, <2>1
<1>5. Reading(x) = {x[1].rows} /\ Closed(x) /\ Plain(x, "or") /\ Plain(x, "and") BY <1>2, <1>4, ReadLeaf
<1>6. Plain(y, "or") BY DEF y
<1>7. Reading(s) = {u \cap v : u \in Reading(x), v \in Reading(y)} /\ Plain(s, "or")
    <2> DEFINE c == s[2]
    <2>1. Glued(s, x, c, y) /\ c.t = "and" BY <1>3
    <2> HIDE DEF c
    <2>2. x \in Seq(Item) /\ y \in Seq(Item) BY <1>2
    <2>3. Closed(x) /\ Plain(x, "or") /\ Plain(x, "and") BY <1>5
    <2>4. QED BY <1>6, <2>1, <2>2, <2>3, ReadAnd
<1>8. {u \cap v : u \in {x[1].rows}, v \in Reading(y)} = {s[1].rows \cap v : v \in Reading(y)} BY <1>4
<1>9. QED BY <1>5, <1>7, <1>8 DEF y

-----------------------------------------------------------------------------
(***************************************************************************)
(* The rows of the atoms of a query, and the items of its text.            *)
(***************************************************************************)
Truth(w, binds) == [n \in DOMAIN w.atoms |-> {row \in Row : Atom(w.atoms[n], binds, row)}]
WellFormed(w) ==
    /\ ASeq(w.atoms) /\ ASeq(w.sql)
    /\ \A i \in 1..Len(w.sql) : w.sql[i].t \in Kind /\ (w.sql[i].t = "leaf" => w.sql[i].n \in 1..Len(w.atoms))

\* The rows for which an atom is true.
LEMMA TruthAt ==
    ASSUME NEW w, NEW binds, ASeq(w.atoms), NEW n \in 1..Len(w.atoms)
    PROVE  Truth(w, binds)[n] = {row \in Row : Atom(w.atoms[n], binds, row)}
<1>1. n \in DOMAIN w.atoms
    <2>1. IsSeq(w.atoms) BY ASeqIs
    <2>2. QED BY <2>1 DEF IsSeq
<1>2. QED BY <1>1 DEF Truth

\* The text of a query with the rows of its atoms.
LEMMA SqlItems ==
    ASSUME NEW w, NEW binds, WellFormed(w)
    PROVE  LET V == Valued(w.sql, Truth(w, binds)) IN
           /\ V \in Seq(Item) /\ Len(V) = Len(w.sql)
           /\ \A i \in 1..Len(w.sql) : V[i] = Val(w.sql[i], Truth(w, binds))
<1> DEFINE R == Truth(w, binds)
           s == w.sql
           V == Valued(s, R)
<1>1. ASeq(w.atoms) /\ ASeq(s) /\ \A i \in 1..Len(s) : s[i].t \in Kind /\ (s[i].t = "leaf" => s[i].n \in 1..Len(w.atoms))
    BY DEF WellFormed
<1>2. \A n \in 1..Len(w.atoms) : R[n] \in SUBSET Row
    <2>1. ASSUME NEW n \in 1..Len(w.atoms) PROVE R[n] \in SUBSET Row
        <3>1. R[n] = {row \in Row : Atom(w.atoms[n], binds, row)} BY <1>1, TruthAt
        <3> HIDE DEF R
        <3>2. QED BY <3>1
    <2>2. QED BY <2>1
<1> HIDE DEF R
<1>3. IsSeq(s) BY <1>1, ASeqIs
<1>4. \A i \in 1..Len(s) : V[i] = Val(s[i], R) BY <1>3, ValuedAt
<1>5. ASSUME NEW i \in 1..Len(s) PROVE Val(s[i], R) \in Item
    <2>1. s[i].t \in Kind /\ (s[i].t = "leaf" => s[i].n \in 1..Len(w.atoms)) BY <1>1
    <2>2. (IF s[i].t = "leaf" THEN R[s[i].n] ELSE {}) \in SUBSET Row BY <1>2, <2>1
    <2>3. QED BY <2>1, <2>2 DEF Item, Kind, Val
<1>6. V = [i \in 1..Len(s) |-> Val(s[i], R)] BY <1>3 DEF Valued, Val, IsSeq
<1>7. Len(s) \in Nat BY <1>3 DEF IsSeq
<1> HIDE DEF V
<1>8. V \in [1..Len(s) -> Item] BY <1>5, <1>6
<1>9. V \in Seq(Item) /\ Len(V) = Len(s) BY <1>7, <1>8, FunIsSeq
<1>10. QED BY <1>4, <1>9 DEF V, R

\* An atom whose values are among the parameters stands for its comparison.
LEMMA PlacedStands ==
    ASSUME NEW x, NEW l, NEW params, NEW from \in Nat, NEW fixed, ASeq(fixed), ASeq(params), Len(fixed) + 1 = from,
           Placed(x, l, params, from)
    PROVE  Stands(x, fixed \o params, l)
<1> DEFINE binds == fixed \o params
<1>1. \A i \in 1..Len(params) : binds[Len(fixed) + i] = params[i] BY ConcatAny
<1>2. Len(fixed) \in Nat /\ Len(params) \in Nat
    <2>1. IsSeq(fixed) /\ IsSeq(params) BY ASeqIs
    <2>2. QED BY <2>1 DEF IsSeq
<1> HIDE DEF binds
<1>3. ASSUME NEW i \in DOMAIN Bound(l) PROVE binds[x.phs[i]] = Bound(l)[i]
    <2>1. PICK m \in 1..Len(params) : x.phs[i] = from + m - 1 /\ params[m] = Bound(l)[i] BY DEF Placed
    <2>2. from + m - 1 = Len(fixed) + m BY <1>2
    <2>3. x.phs[i] = Len(fixed) + m BY <2>1, <2>2
    <2>4. QED BY <1>1, <2>1, <2>3
<1>4. x.col = l.field /\ x.cmp = Compare[l.op] /\ DOMAIN x.phs = DOMAIN Bound(l) BY DEF Placed
<1>5. QED BY <1>3, <1>4 DEF Stands, binds

\* The rows that the comparisons are about.
LEMMA MeantIs ==
    /\ RowsFit(Meant)
    /\ \A n \in Sensible : Meant[n] = {row \in Row : Holds(Leaves[n], row)}
<1>1. ASSUME NEW n \in DOMAIN Leaves PROVE Meant[n] = {row \in Row : n \in Sensible /\ Holds(Leaves[n], row)}
    BY DEF Meant
<1>2. RowsFit(Meant)
    <2>1. ASSUME NEW n \in DOMAIN Leaves PROVE Meant[n] \in SUBSET Row BY <1>1
    <2>2. QED BY <2>1 DEF RowsFit
<1>3. ASSUME NEW n \in Sensible PROVE Meant[n] = {row \in Row : Holds(Leaves[n], row)}
    <2>1. n \in DOMAIN Leaves BY LeavesDomain
    <2>2. QED BY <1>1, <1>3, <2>1
<1>4. QED BY <1>2, <1>3

\* A token of the filter and what is written for it mean the same.
LEMMA DenotesMeans ==
    ASSUME NEW w, NEW from \in Nat, NEW fixed, ASeq(fixed), ASeq(w.params), ASeq(w.atoms), Len(fixed) + 1 = from,
           NEW y, NEW token, Denotes(w.atoms, w.params, from, y, token), ~Refuses(token)
    PROVE  Val(y, Truth(w, fixed \o w.params)) = Val(token, Meant)
<1> DEFINE binds == fixed \o w.params
           R == Truth(w, binds)
           n == token.n
           x == w.atoms[y.n]
<1>1. y.t = token.t BY DEF Denotes
<1>2. CASE token.t # "leaf" BY <1>1, <1>2 DEF Val
<1>3. CASE token.t = "leaf"
    <2>1. n \in Sensible BY <1>3 DEF Refuses
    <2>2. y.n \in 1..Len(w.atoms) /\ Placed(x, Parsed(Leaves[n]), w.params, from) BY <1>3 DEF Denotes
    <2>3. Stands(x, binds, Parsed(Leaves[n])) BY <2>2, PlacedStands
    <2>4. R[y.n] = {row \in Row : Atom(x, binds, row)} BY <2>2, TruthAt
    <2> HIDE DEF binds, x, n, R
    <2>5. \A row \in Row : Atom(x, binds, row) <=> Holds(Leaves[n], row) BY <2>1, <2>3, AtomMeans
    <2>6. Meant[n] = {row \in Row : Holds(Leaves[n], row)} BY <2>1, MeantIs
    <2>7. {row \in Row : Atom(x, binds, row)} = {row \in Row : Holds(Leaves[n], row)} BY <2>5
    <2>8. R[y.n] = Meant[n] BY <2>4, <2>6, <2>7
    <2>9. QED BY <1>1, <1>3, <2>8 DEF Val, n, R, binds
<1>4. QED BY <1>2, <1>3

-----------------------------------------------------------------------------
(***************************************************************************)
(* The text of a query: the fixed condition, and behind it the filter.     *)
(***************************************************************************)
Prefixed(w, e) ==
    /\ w.sql[1] = Leaf(1) /\ w.atoms[1] = Tenant /\ Fixes(e) <= Len(w.atoms)
    /\ Fixes(e) = 2 => w.sql[2] = Sym("and") /\ w.sql[3] = Leaf(2) /\ w.atoms[2] = Second(e)
Given(binds, e) == \A i \in 1..Len(FixedBinds(e)) : binds[i] = FixedBinds(e)[i]
Seen(e, rows) == {row \in rows : Visible(e, row)}

\* The rows of the fixed condition, atom by atom.
LEMMA FixedRows ==
    ASSUME NEW e \in Endpoint, NEW w, NEW binds, WellFormed(w), Prefixed(w, e), Given(binds, e)
    PROVE  LET R == Truth(w, binds) IN
           /\ Val(w.sql[1], R) = [t |-> "leaf", rows |-> R[1]]
           /\ Fixes(e) = 1 => R[1] = Seen(e, Row)
           /\ Fixes(e) = 2 => /\ Val(w.sql[2], R).t = "and" /\ Val(w.sql[3], R) = [t |-> "leaf", rows |-> R[2]]
                              /\ R[1] \cap R[2] = Seen(e, Row)
<1> DEFINE R == Truth(w, binds)
<1>1. Fixes(e) \in {1, 2} BY FixedAtomsAre
<1>2. Len(w.atoms) \in Nat /\ ASeq(w.atoms)
    <2>1. ASeq(w.atoms) BY DEF WellFormed
    <2>2. IsSeq(w.atoms) BY <2>1, ASeqIs
    <2>3. QED BY <2>1, <2>2 DEF IsSeq
<1>3. 1 \in 1..Len(w.atoms) /\ (Fixes(e) = 2 => 2 \in 1..Len(w.atoms)) BY <1>1, <1>2 DEF Prefixed
<1>4. R[1] = {row \in Row : Atom(Tenant, binds, row)}
    <2>1. R[1] = {row \in Row : Atom(w.atoms[1], binds, row)} BY <1>2, <1>3, TruthAt
    <2>2. w.atoms[1] = Tenant BY DEF Prefixed
    <2> HIDE DEF R
    <2>3. QED BY <2>1, <2>2
<1>5. ASSUME Fixes(e) = 2 PROVE R[2] = {row \in Row : Atom(Second(e), binds, row)}
    <2>1. R[2] = {row \in Row : Atom(w.atoms[2], binds, row)} BY <1>2, <1>3, <1>5, TruthAt
    <2>2. w.atoms[2] = Second(e) BY <1>5 DEF Prefixed
    <2> HIDE DEF R
    <2>3. QED BY <2>1, <2>2
<1>6. ASSUME NEW row \in Row
      PROVE  (Atom(Tenant, binds, row) /\ (Fixes(e) = 2 => Atom(Second(e), binds, row))) <=> Visible(e, row)
    BY FixedMean DEF Given
<1>7. ASSUME Fixes(e) = 1 PROVE R[1] = Seen(e, Row)
    <2>1. Fixes(e) # 2 BY <1>7
    <2>2. \A row \in Row : Atom(Tenant, binds, row) <=> Visible(e, row) BY <1>6, <2>1, Zenon
    <2> HIDE DEF R
    <2>3. {row \in Row : Atom(Tenant, binds, row)} = {row \in Row : Visible(e, row)} BY <2>2
    <2>4. QED BY <1>4, <2>3 DEF Seen
<1>8. ASSUME Fixes(e) = 2 PROVE R[1] \cap R[2] = Seen(e, Row)
    <2>1. \A row \in Row : (Atom(Tenant, binds, row) /\ Atom(Second(e), binds, row)) <=> Visible(e, row) BY <1>6, <1>8, Zenon
    <2> HIDE DEF R
    <2>2. R[1] \cap R[2] = {row \in Row : Atom(Tenant, binds, row) /\ Atom(Second(e), binds, row)} BY <1>4, <1>5, <1>8
    <2>3. {row \in Row : Atom(Tenant, binds, row) /\ Atom(Second(e), binds, row)} = {row \in Row : Visible(e, row)} BY <2>1
    <2>4. QED BY <2>2, <2>3 DEF Seen
<1> HIDE DEF R
<1>9. Val(w.sql[1], R) = [t |-> "leaf", rows |-> R[1]] BY DEF Prefixed, Leaf, Val
<1>10. Fixes(e) = 2 => Val(w.sql[2], R).t = "and" /\ Val(w.sql[3], R) = [t |-> "leaf", rows |-> R[2]]
    BY DEF Prefixed, Leaf, Sym, Val
<1>11. QED BY <1>7, <1>8, <1>9, <1>10 DEF R

\* The rows of the endpoint among others.
LEMMA SeenOf ==
    ASSUME NEW e, NEW A, A = Seen(e, Row), NEW S, OfRows(S)
    PROVE  {A \cap v : v \in S} = {Seen(e, v) : v \in S}
<1>1. ASSUME NEW v \in S PROVE A \cap v = Seen(e, v)
    <2>1. v \in SUBSET Row BY DEF OfRows
    <2>2. QED BY <2>1 DEF Seen
<1>2. QED BY <1>1

\* Behind the fixed condition stands AND and a text of the value Y.
Behind(w, e, binds, Y) ==
    /\ Y \in Seq(Item) /\ Plain(Y, "or") /\ Len(w.sql) = 2 * Fixes(e) + Len(Y) /\ w.sql[2 * Fixes(e)] = Sym("and")
    /\ \A m \in 1..Len(Y) : Val(w.sql[2 * Fixes(e) + m], Truth(w, binds)) = Y[m]

\* A query returns those rows of the endpoint that the text behind its fixed condition means.
LEMMA BehindFixed ==
    ASSUME NEW e \in Endpoint, NEW w, NEW binds, WellFormed(w), Prefixed(w, e), Given(binds, e),
           NEW Y, Behind(w, e, binds, Y)
    PROVE  Reading(Valued(w.sql, Truth(w, binds))) = {Seen(e, v) : v \in Reading(Y)}
<1>0. /\ Y \in Seq(Item) /\ Plain(Y, "or") /\ Len(w.sql) = 2 * Fixes(e) + Len(Y) /\ w.sql[2 * Fixes(e)] = Sym("and")
      /\ \A m \in 1..Len(Y) : Val(w.sql[2 * Fixes(e) + m], Truth(w, binds)) = Y[m]
    BY DEF Behind
<1> DEFINE R == Truth(w, binds)
           s == w.sql
           V == Valued(s, R)
<1>1. V \in Seq(Item) /\ Len(V) = Len(s) /\ \A i \in 1..Len(s) : V[i] = Val(s[i], R) BY SqlItems
<1>2. /\ Val(s[1], R) = [t |-> "leaf", rows |-> R[1]]
      /\ Fixes(e) = 1 => R[1] = Seen(e, Row)
      /\ Fixes(e) = 2 => Val(s[2], R).t = "and" /\ Val(s[3], R) = [t |-> "leaf", rows |-> R[2]] /\ R[1] \cap R[2] = Seen(e, Row)
    BY FixedRows
<1>3. Val(Sym("and"), R).t = "and" BY DEF Val, Sym
<1>4. Len(Y) \in Nat BY <1>0
<1>5. OfRows(Reading(Y)) BY <1>0, ReadingRows
<1>6. Fixes(e) \in {1, 2} BY FixedAtomsAre
<1> HIDE DEF V, R
<1>7. CASE Fixes(e) = 1
    <2>0. Len(s) = 2 + Len(Y) /\ s[2] = Sym("and") /\ \A m \in 1..Len(Y) : Val(s[2 + m], R) = Y[m]
        <3>1. 2 * Fixes(e) = 2 BY <1>7
        <3>2. QED BY <1>0, <3>1 DEF R
    <2>1. 1 \in 1..Len(s) /\ 2 \in 1..Len(s) /\ Len(V) >= 2 /\ \A m \in 1..Len(Y) : 2 + m \in 1..Len(s) BY <1>1, <1>4, <2>0
    <2>2. V[1].t = "leaf" /\ V[1].rows = R[1] BY <1>1, <1>2, <2>1
    <2>3. V[2].t = "and" BY <1>1, <1>3, <2>0, <2>1
    <2>4. After(V, 2) = Y
        <3>1. 2 \in 1..Len(V) BY <1>1, <2>1
        <3>2. After(V, 2) \in Seq(Item) /\ Len(After(V, 2)) = Len(V) - 2 /\ \A k \in 1..(Len(V) - 2) : After(V, 2)[k] = V[2 + k]
            BY <1>1, <3>1, Cuts
        <3>3. Len(V) - 2 = Len(Y) BY <1>1, <1>4, <2>0
        <3>4. \A k \in 1..Len(Y) : V[2 + k] = Y[k] BY <1>1, <2>0, <2>1
        <3>5. Len(After(V, 2)) = Len(Y) /\ \A k \in 1..Len(Y) : After(V, 2)[k] = Y[k] BY <3>2, <3>3, <3>4
        <3>6. QED BY <1>0, <3>2, <3>5, SeqEqual
    <2>5. Reading(V) = {R[1] \cap v : v \in Reading(Y)}
        <3>1. Plain(After(V, 2), "or") BY <1>0, <2>4
        <3>2. Reading(V) = {V[1].rows \cap v : v \in Reading(After(V, 2))} BY <1>1, <2>1, <2>2, <2>3, <3>1, AndLeaf
        <3>3. QED BY <2>2, <2>4, <3>2
    <2>6. {R[1] \cap v : v \in Reading(Y)} = {Seen(e, v) : v \in Reading(Y)} BY <1>2, <1>5, <1>7, SeenOf
    <2>7. QED BY <2>5, <2>6 DEF V, R
<1>8. CASE Fixes(e) = 2
    <2> DEFINE V2 == After(V, 2)
    <2>0. Len(s) = 4 + Len(Y) /\ s[4] = Sym("and") /\ \A m \in 1..Len(Y) : Val(s[4 + m], R) = Y[m]
        <3>1. 2 * Fixes(e) = 4 BY <1>8
        <3>2. QED BY <1>0, <3>1 DEF R
    <2>1. /\ 1 \in 1..Len(s) /\ 2 \in 1..Len(s) /\ 3 \in 1..Len(s) /\ 4 \in 1..Len(s) /\ Len(V) >= 4
          /\ \A m \in 1..Len(Y) : 4 + m \in 1..Len(s)
        BY <1>1, <1>4, <2>0
    <2>2. V[1].t = "leaf" /\ V[1].rows = R[1] BY <1>1, <1>2, <2>1
    <2>3. V[2].t = "and" BY <1>1, <1>2, <1>8, <2>1
    <2>4. V[3].t = "leaf" /\ V[3].rows = R[2] BY <1>1, <1>2, <1>8, <2>1
    <2>5. V[4].t = "and" BY <1>1, <1>3, <2>0, <2>1
    <2>6. V2 \in Seq(Item) /\ Len(V2) = Len(V) - 2 /\ \A k \in 1..(Len(V) - 2) : V2[k] = V[2 + k]
        <3>1. 2 \in 1..Len(V) BY <1>1, <2>1
        <3>2. QED BY <1>1, <3>1, Cuts
    <2> HIDE DEF V2
    <2>7. Len(V) - 2 = 2 + Len(Y) BY <1>1, <1>4, <2>0
    <2>8. Len(V2) = 2 + Len(Y) /\ (\A k \in 1..(2 + Len(Y)) : V2[k] = V[2 + k]) /\ Len(V2) >= 2 BY <1>4, <2>6, <2>7
    <2>9. V2[1].t = "leaf" /\ V2[1].rows = R[2] /\ V2[2].t = "and"
        <3>1. 1 \in 1..(2 + Len(Y)) /\ 2 \in 1..(2 + Len(Y)) /\ 2 + 1 = 3 /\ 2 + 2 = 4 BY <1>4
        <3>2. V2[1] = V[3] /\ V2[2] = V[4] BY <2>8, <3>1
        <3>3. QED BY <2>4, <2>5, <3>2
    <2>10. After(V2, 2) = Y
        <3>1. 2 \in 1..Len(V2) BY <1>4, <2>8
        <3>2. After(V2, 2) \in Seq(Item) /\ Len(After(V2, 2)) = Len(V2) - 2 /\ \A k \in 1..(Len(V2) - 2) : After(V2, 2)[k] = V2[2 + k]
            BY <2>6, <3>1, Cuts
        <3>3. Len(V2) - 2 = Len(Y) BY <1>4, <2>8
        <3>4. ASSUME NEW k \in 1..Len(Y) PROVE V2[2 + k] = Y[k]
            <4>1. 2 + k \in 1..(2 + Len(Y)) /\ 2 + (2 + k) = 4 + k BY <1>4
            <4>2. V2[2 + k] = V[4 + k] BY <2>8, <4>1
            <4>3. QED BY <1>1, <2>0, <2>1, <4>2
        <3>5. Len(After(V2, 2)) = Len(Y) /\ \A k \in 1..Len(Y) : After(V2, 2)[k] = Y[k] BY <3>2, <3>3, <3>4
        <3>6. QED BY <1>0, <3>2, <3>5, SeqEqual
    <2>11. Reading(V2) = {R[2] \cap v : v \in Reading(Y)} /\ Plain(V2, "or")
        <3>1. Plain(After(V2, 2), "or") BY <1>0, <2>10
        <3>2. Reading(V2) = {V2[1].rows \cap v : v \in Reading(After(V2, 2))} /\ Plain(V2, "or")
            BY <2>6, <2>8, <2>9, <3>1, AndLeaf
        <3>3. QED BY <2>9, <2>10, <3>2
    <2>12. Reading(V) = {R[1] \cap u : u \in Reading(V2)}
        <3>0. Len(V) >= 2 BY <1>1, <1>4, <2>0
        <3>1. Plain(After(V, 2), "or") BY <2>11 DEF V2
        <3>2. Reading(V) = {V[1].rows \cap v : v \in Reading(After(V, 2))} BY <1>1, <2>2, <2>3, <3>0, <3>1, AndLeaf
        <3>3. QED BY <2>2, <3>2 DEF V2
    <2> DEFINE A == R[1] \cap R[2]
               S == Reading(Y)
    <2>13. Reading(V) = {A \cap v : v \in S}
        <3> DEFINE P == R[1]
                   Q == R[2]
        <3>1. Reading(V) = {P \cap u : u \in Reading(V2)} /\ Reading(V2) = {Q \cap v : v \in S} BY <2>11, <2>12
        <3>2. \A v : P \cap (Q \cap v) = A \cap v OBVIOUS
        <3> HIDE DEF P, Q, A, S
        <3>3. ASSUME NEW z \in Reading(V) PROVE z \in {A \cap v : v \in S}
            <4>1. PICK u \in Reading(V2) : z = P \cap u BY <3>1
            <4>2. PICK v \in S : u = Q \cap v BY <3>1
            <4>3. z = A \cap v BY <3>2, <4>1, <4>2
            <4>4. QED BY <4>3
        <3>4. ASSUME NEW v \in S PROVE A \cap v \in Reading(V)
            <4>1. Q \cap v \in Reading(V2) BY <3>1
            <4>2. P \cap (Q \cap v) \in Reading(V) BY <3>1, <4>1
            <4>3. QED BY <3>2, <4>2
        <3>5. QED BY <3>3, <3>4
    <2>14. {A \cap v : v \in S} = {Seen(e, v) : v \in S}
        <3>1. A = Seen(e, Row) /\ OfRows(S) BY <1>2, <1>5, <1>8
        <3> HIDE DEF A, S
        <3>2. QED BY <3>1, SeenOf
    <2>15. QED BY <2>13, <2>14 DEF V, R
<1>9. QED BY <1>6, <1>7, <1>8

\* The query of an endpoint before its filter.
LEMMA BaseIs ==
    ASSUME NEW e \in Endpoint
    PROVE  LET b == Query(e) IN
           /\ Begun(b, Fixes(e)) /\ b.atoms = FixedAtoms(e) /\ b.next = From(e) /\ Len(b.sql) = 2 * Fixes(e) - 1
           /\ Fixes(e) \in {1, 2} /\ Prefixed(b, e) /\ Fitting(b.atoms, b.next)
<1> DEFINE b == Query(e)
           K == Fixes(e)
<1>1. b = Start(From(e), FixedAtoms(e), TRUE) BY QueryIs
<1>2. ASeq(FixedAtoms(e)) /\ Len(FixedAtoms(e)) = K /\ K \in {1, 2} /\ FixedAtoms(e)[1] = Tenant /\ (K = 2 => FixedAtoms(e)[2] = Second(e))
    BY FixedAtomsAre
<1> HIDE DEF K
<1>3. LET c == Start(From(e), FixedAtoms(e), TRUE) IN
      Begun(c, K) /\ c.atoms = FixedAtoms(e) /\ c.next = From(e) /\ Len(c.sql) = 2 * K - 1
    <2> DEFINE f == FixedAtoms(e)
               m == From(e)
    <2>1. ASeq(f) /\ Len(f) = K /\ OneOrTwo(K) BY <1>2 DEF OneOrTwo
    <2> HIDE DEF f, m
    <2>2. LET c == Start(m, f, TRUE) IN Begun(c, K) /\ c.atoms = f /\ c.next = m /\ Len(c.sql) = 2 * K - 1 BY <2>1, StartIs
    <2>3. QED BY <2>2 DEF f, m
<1>4. Begun(b, K) /\ b.atoms = FixedAtoms(e) /\ b.next = From(e) /\ Len(b.sql) = 2 * K - 1 BY <1>1, <1>3
<1> HIDE DEF b
<1>5. Prefixed(b, e)
    <2>1. b.sql[1] = Leaf(1) /\ (K = 2 => b.sql[2] = Sym("and") /\ b.sql[3] = Leaf(2)) BY <1>4 DEF Begun
    <2>2. K <= Len(b.atoms) BY <1>2, <1>4
    <2>3. QED BY <1>2, <1>4, <2>1, <2>2 DEF Prefixed, K
<1>6. Fitting(b.atoms, b.next)
    <2>1. Fitting(FixedAtoms(e), From(e)) BY FixedFit
    <2>2. QED BY <1>4, <2>1
<1>7. QED BY <1>2, <1>4, <1>5, <1>6 DEF b, K

\* The values bound begin with the fixed ones.
LEMMA BindsGiven ==
    ASSUME NEW e \in Endpoint, NEW params, ASeq(params)
    PROVE  /\ Given(FixedBinds(e) \o params, e)
           /\ DOMAIN (FixedBinds(e) \o params) = 1..(From(e) + Len(params) - 1)
<1> DEFINE fb == FixedBinds(e)
           r == fb \o params
<1>1. ASeq(fb) /\ Len(fb) \in Nat BY QueryIs
<1>2. From(e) = Len(fb) + 1 BY DEF From
<1> HIDE DEF fb
<1>3. ASeq(r) /\ Len(r) = Len(fb) + Len(params) /\ \A i \in 1..Len(fb) : r[i] = fb[i] BY <1>1, ConcatAny
<1>4. IsSeq(r) /\ IsSeq(params) BY <1>3, ASeqIs
<1> HIDE DEF r
<1>5. DOMAIN r = 1..Len(r) /\ Len(params) \in Nat BY <1>4 DEF IsSeq
<1>6. Len(r) = From(e) + Len(params) - 1 BY <1>1, <1>2, <1>3, <1>5
<1>7. DOMAIN r = 1..(From(e) + Len(params) - 1) BY <1>5, <1>6
<1>8. Given(r, e) BY <1>3 DEF Given, fb
<1>9. QED BY <1>7, <1>8 DEF r, fb

\* Placeholders that fit are bound to one value each.
LEMMA FitsBinds ==
    ASSUME NEW w, NEW binds, ASeq(w.atoms), Fitting(w.atoms, w.next), DOMAIN binds = 1..(w.next - 1)
    PROVE  BindsFit(w, binds)
<1> DEFINE N == Len(w.atoms)
           D(n) == DOMAIN w.atoms[n].phs
           at(n, i) == w.atoms[n].phs[i]
<1>1. DOMAIN w.atoms = 1..N
    <2>1. IsSeq(w.atoms) BY ASeqIs
    <2>2. QED BY <2>1 DEF IsSeq
<1>2. /\ \A n \in 1..N : Cast(w.atoms[n]) /\ \A i \in D(n) : at(n, i) \in 1..(w.next - 1)
      /\ \A m \in 1..(w.next - 1) : \E n \in 1..N : \E i \in D(n) : at(n, i) = m
      /\ \A n \in 1..N, k \in 1..N : \A i \in D(n), j \in D(k) : at(n, i) = at(k, j) => n = k /\ i = j
    BY DEF Fitting
<1>3. ASSUME NEW u \in Uses(w) PROVE \E n \in 1..N : \E i \in D(n) : u = <<n, i>>
    <2>1. u \in UNION {{<<n, i>> : i \in DOMAIN w.atoms[n].phs} : n \in DOMAIN w.atoms} BY <1>3 DEF Uses
    <2>2. PICK n \in DOMAIN w.atoms : u \in {<<n, i>> : i \in D(n)} BY <2>1
    <2>3. PICK i \in D(n) : u = <<n, i>> BY <2>2
    <2>4. QED BY <1>1, <2>2, <2>3
<1>4. ASSUME NEW n \in 1..N, NEW i \in D(n) PROVE <<n, i>> \in Uses(w)
    <2>1. <<n, i>> \in {<<n, k>> : k \in DOMAIN w.atoms[n].phs} OBVIOUS
    <2>2. n \in DOMAIN w.atoms BY <1>1
    <2>3. QED BY <2>1, <2>2 DEF Uses
<1>5. ASSUME NEW n, NEW i PROVE Used(w, <<n, i>>) = at(n, i) /\ <<n, i>>[1] = n /\ <<n, i>>[2] = i BY DEF Used
<1> HIDE DEF N, D, at
<1>6. {Used(w, u) : u \in Uses(w)} = DOMAIN binds
    <2>1. ASSUME NEW u \in Uses(w) PROVE Used(w, u) \in DOMAIN binds
        <3>1. PICK n \in 1..N : \E i \in D(n) : u = <<n, i>> BY <1>3
        <3>2. PICK i \in D(n) : u = <<n, i>> BY <3>1
        <3>3. Used(w, u) = at(n, i) BY <1>5, <3>2
        <3>4. QED BY <1>2, <3>3
    <2>2. ASSUME NEW m \in DOMAIN binds PROVE \E u \in Uses(w) : Used(w, u) = m
        <3>1. PICK n \in 1..N : \E i \in D(n) : at(n, i) = m BY <1>2
        <3>2. PICK i \in D(n) : at(n, i) = m BY <3>1
        <3>3. <<n, i>> \in Uses(w) /\ Used(w, <<n, i>>) = m BY <1>4, <1>5, <3>2
        <3>4. QED BY <3>3
    <2>3. QED BY <2>1, <2>2
<1>7. ASSUME NEW u \in Uses(w), NEW v \in Uses(w), Used(w, u) = Used(w, v) PROVE u = v
    <2>1. PICK n \in 1..N : \E i \in D(n) : u = <<n, i>> BY <1>3
    <2>2. PICK i \in D(n) : u = <<n, i>> BY <2>1
    <2>3. PICK k \in 1..N : \E j \in D(k) : v = <<k, j>> BY <1>3
    <2>4. PICK j \in D(k) : v = <<k, j>> BY <2>3
    <2>5. at(n, i) = at(k, j) BY <1>5, <1>7, <2>2, <2>4
    <2>6. n = k /\ i = j BY <1>2, <2>5
    <2>7. QED BY <2>2, <2>4, <2>6
<1>8. ASSUME NEW u \in Uses(w) PROVE w.atoms[u[1]].col \in {"num", "flag"} => w.atoms[u[1]].cast # "none"
    <2>1. PICK n \in 1..N : \E i \in D(n) : u = <<n, i>> BY <1>3
    <2>2. u[1] = n BY <1>5, <2>1
    <2>3. Cast(w.atoms[n]) BY <1>2
    <2>4. QED BY <2>2, <2>3 DEF Cast
<1>9. QED BY <1>6, <1>7, <1>8 DEF BindsFit

Same(w, b) == w.atoms = b.atoms /\ w.sql = b.sql /\ w.params = b.params /\ w.next = b.next

Nothing(s) == s = <<>>

\* The empty sequence.
LEMMA NothingSeq ==
    ASSUME NEW s, Nothing(s)
    PROVE  ASeq(s) /\ Len(s) = 0
<1> DEFINE S == {}
<1>1. s \in Seq(S) BY DEF Nothing
<1>2. Len(s) = 0 BY DEF Nothing
<1> HIDE DEF S
<1>3. ASeq(s) BY <1>1 DEF ASeq
<1>4. QED BY <1>2, <1>3

\* Without a filter, the rows of the endpoint.
LEMMA NoFilter ==
    ASSUME NEW e \in Endpoint, NEW w, Same(w, Query(e))
    PROVE  LET binds == FixedBinds(e) \o w.params IN
           BindsFit(w, binds) /\ Returns(w, binds) = {Seen(e, Row)}
<1> DEFINE b == Query(e)
           K == Fixes(e)
           binds == FixedBinds(e) \o w.params
           R == Truth(w, binds)
           V == Valued(w.sql, R)
<1>1. /\ Begun(b, K) /\ b.atoms = FixedAtoms(e) /\ b.next = From(e) /\ Len(b.sql) = 2 * K - 1
      /\ K \in {1, 2} /\ Prefixed(b, e) /\ Fitting(b.atoms, b.next)
    BY BaseIs
<1>2. w.atoms = b.atoms /\ w.sql = b.sql /\ w.params = b.params /\ w.next = b.next BY DEF Same
<1> HIDE DEF b
<1>3. /\ ASeq(w.atoms) /\ Len(w.atoms) = K /\ ASeq(w.sql) /\ w.params = <<>> /\ w.sql[1] = Leaf(1)
      /\ K = 2 => w.sql[2] = Sym("and") /\ w.sql[3] = Leaf(2)
    BY <1>1, <1>2 DEF Begun
<1>4. Len(w.sql) = 2 * K - 1 /\ Fitting(w.atoms, w.next) /\ w.next = From(e) BY <1>1, <1>2
<1>5. Prefixed(w, e) BY <1>1, <1>2 DEF Prefixed
<1>6. ASeq(w.params) /\ Len(w.params) = 0
    <2>1. Nothing(w.params) BY <1>3 DEF Nothing
    <2>2. ASeq(w.params) BY <2>1, NothingSeq
    <2>3. Len(w.params) = 0 BY <2>1, NothingSeq
    <2>4. QED BY <2>2, <2>3
<1>7. Given(binds, e) /\ DOMAIN binds = 1..(From(e) + Len(w.params) - 1) BY <1>6, BindsGiven
<1>8. From(e) \in Nat /\ From(e) + Len(w.params) - 1 = w.next - 1
    <2>1. From(e) \in Nat BY QueryIs
    <2>2. QED BY <1>4, <1>6, <2>1
<1>9. BindsFit(w, binds) BY <1>3, <1>4, <1>7, <1>8, FitsBinds
<1> HIDE DEF binds, K
<1>10. WellFormed(w)
    <2>1. Leaf(1).t = "leaf" /\ Leaf(1).n = 1 /\ Leaf(2).t = "leaf" /\ Leaf(2).n = 2 /\ Sym("and").t = "and" BY DEF Leaf, Sym
    <2>2. "leaf" \in Kind /\ "and" \in Kind /\ "and" # "leaf" BY DEF Kind
    <2>3. ASSUME NEW i \in 1..Len(w.sql) PROVE w.sql[i].t \in Kind /\ (w.sql[i].t = "leaf" => w.sql[i].n \in 1..Len(w.atoms))
        <3>1. CASE K = 1
            <4>1. Len(w.sql) = 1 /\ 1 \in 1..Len(w.atoms) BY <1>3, <1>4, <3>1
            <4>2. i = 1 BY <4>1
            <4>3. QED BY <1>3, <2>1, <2>2, <4>1, <4>2
        <3>2. CASE K = 2
            <4>1. Len(w.sql) = 3 /\ 1 \in 1..Len(w.atoms) /\ 2 \in 1..Len(w.atoms) BY <1>3, <1>4, <3>2
            <4>2. i = 1 \/ i = 2 \/ i = 3 BY <4>1
            <4>3. CASE i = 1 BY <1>3, <2>1, <2>2, <4>1, <4>3
            <4>4. CASE i = 2 BY <1>3, <2>1, <2>2, <3>2, <4>4
            <4>5. CASE i = 3 BY <1>3, <2>1, <2>2, <3>2, <4>1, <4>5
            <4>6. QED BY <4>2, <4>3, <4>4, <4>5
        <3>3. QED BY <1>1, <3>1, <3>2
    <2>4. QED BY <1>3, <2>3 DEF WellFormed
<1>11. V \in Seq(Item) /\ Len(V) = Len(w.sql) /\ \A i \in 1..Len(w.sql) : V[i] = Val(w.sql[i], R) BY <1>10, SqlItems
<1>12. /\ Val(w.sql[1], R) = [t |-> "leaf", rows |-> R[1]]
       /\ K = 1 => R[1] = Seen(e, Row)
       /\ K = 2 => Val(w.sql[2], R).t = "and" /\ Val(w.sql[3], R) = [t |-> "leaf", rows |-> R[2]] /\ R[1] \cap R[2] = Seen(e, Row)
    BY <1>5, <1>7, <1>10, FixedRows DEF K
<1>13. Returns(w, binds) = Reading(V) BY DEF Returns, Truth
<1> HIDE DEF V, R
<1>14. CASE K = 1
    <2>1. Len(w.sql) = 1 /\ 1 \in 1..Len(w.sql) BY <1>4, <1>14
    <2>2. Len(V) = 1 /\ V[1].t = "leaf" /\ V[1].rows = R[1] BY <1>11, <1>12, <2>1
    <2>3. Reading(V) = {V[1].rows} BY <1>11, <2>2, ReadLeaf
    <2>4. QED BY <1>9, <1>12, <1>13, <1>14, <2>2, <2>3 DEF binds
<1>15. CASE K = 2
    <2> DEFINE y == After(V, 2)
    <2>1. Len(w.sql) = 3 /\ 1 \in 1..Len(w.sql) /\ 2 \in 1..Len(w.sql) /\ 3 \in 1..Len(w.sql) BY <1>4, <1>15
    <2>2. Len(V) = 3 /\ V[1].t = "leaf" /\ V[1].rows = R[1] /\ V[2].t = "and" /\ V[3].t = "leaf" /\ V[3].rows = R[2]
        BY <1>11, <1>12, <1>15, <2>1
    <2>3. y \in Seq(Item) /\ Len(y) = 3 - 2 /\ \A k \in 1..(3 - 2) : y[k] = V[2 + k]
        <3>1. 2 \in 1..Len(V) BY <2>2
        <3>2. y \in Seq(Item) /\ Len(y) = Len(V) - 2 /\ \A k \in 1..(Len(V) - 2) : y[k] = V[2 + k] BY <1>11, <3>1, Cuts
        <3>3. QED BY <2>2, <3>2
    <2> HIDE DEF y
    <2>4. Len(y) = 1 /\ y[1] = V[3]
        <3>1. 3 - 2 = 1 /\ 1 \in 1..1 /\ 2 + 1 = 3 OBVIOUS
        <3>2. QED BY <2>3, <3>1
    <2>5. Reading(y) = {R[2]} /\ Plain(y, "or") BY <2>2, <2>3, <2>4, ReadLeaf
    <2>6. Reading(V) = {V[1].rows \cap v : v \in Reading(y)}
        <3>1. Len(V) >= 2 /\ Plain(After(V, 2), "or") BY <2>2, <2>5 DEF y
        <3>2. QED BY <1>11, <2>2, <3>1, AndLeaf DEF y
    <2>7. Reading(V) = {R[1] \cap R[2]} BY <2>2, <2>5, <2>6
    <2>8. QED BY <1>9, <1>12, <1>13, <1>15, <2>7 DEF binds
<1>16. QED BY <1>1, <1>14, <1>15

\* The query of an endpoint when its filter begins.
LEMMA FilterBegins ==
    ASSUME NEW e \in Endpoint, NEW node
    PROVE  LET b0 == Put(Query(e), "and") IN
           /\ Builder(b0) /\ Built(b0, b0, node, From(e), 0)
           /\ Len(b0.sql) = 2 * Fixes(e) /\ Len(b0.atoms) = Fixes(e) /\ Prefixed(b0, e) /\ b0.sql[2 * Fixes(e)] = Sym("and")
<1> DEFINE b == Query(e)
           K == Fixes(e)
           c == Put(b, "and")
<1>1. /\ Begun(b, K) /\ b.atoms = FixedAtoms(e) /\ b.next = From(e) /\ Len(b.sql) = 2 * K - 1
      /\ K \in {1, 2} /\ Prefixed(b, e) /\ Fitting(b.atoms, b.next)
    BY BaseIs
<1> HIDE DEF b
<1>2. Builder(b) /\ b.ok /\ b.params = <<>> /\ ASeq(b.atoms) /\ Len(b.atoms) = K /\ ASeq(b.sql) BY <1>1 DEF Begun
<1>3. c = [ok |-> b.ok, atoms |-> b.atoms, params |-> b.params, next |-> b.next, sql |-> Append(b.sql, Sym("and"))]
    BY <1>2, PutIs
<1> HIDE DEF c
<1>4. c.ok = b.ok /\ c.atoms = b.atoms /\ c.params = b.params /\ c.next = b.next /\ c.sql = Append(b.sql, Sym("and")) BY <1>3
<1>5. Builder(c) BY <1>3, <1>4 DEF Builder
<1>6. ASeq(c.sql) /\ Len(c.sql) = Len(b.sql) + 1 /\ (\A i \in 1..Len(b.sql) : c.sql[i] = b.sql[i]) /\ c.sql[Len(b.sql) + 1] = Sym("and")
    BY <1>2, <1>4, AppendAny
<1>7. Len(c.sql) = 2 * K /\ Len(b.sql) + 1 = 2 * K /\ 1 \in 1..Len(b.sql) /\ (K = 2 => 2 \in 1..Len(b.sql) /\ 3 \in 1..Len(b.sql)) BY <1>1, <1>6
<1>8. Prefixed(c, e) /\ c.sql[2 * K] = Sym("and")
    <2>1. c.sql[1] = b.sql[1] /\ (K = 2 => c.sql[2] = b.sql[2] /\ c.sql[3] = b.sql[3]) BY <1>6, <1>7
    <2>2. c.sql[2 * K] = Sym("and") BY <1>6, <1>7
    <2>3. QED BY <1>1, <1>4, <2>1, <2>2 DEF Prefixed, K
<1>9. Built(c, c, node, From(e), 0)
    <2>1. ASeq(c.params) /\ Len(c.params) = 0
        <3>1. Nothing(c.params) BY <1>2, <1>4 DEF Nothing
        <3>2. ASeq(c.params) BY <3>1, NothingSeq
        <3>3. Len(c.params) = 0 BY <3>1, NothingSeq
        <3>4. QED BY <3>2, <3>3
    <2>2. From(e) \in Nat BY QueryIs
    <2>3. c.next = From(e) + Len(c.params) BY <1>1, <1>4, <2>1, <2>2
    <2>4. Len(c.sql) \in Nat /\ Len(c.atoms) \in Nat
        <3>1. IsSeq(c.sql) /\ IsSeq(c.atoms) BY <1>2, <1>4, <1>6, ASeqIs
        <3>2. QED BY <3>1 DEF IsSeq
    <2>5. Len(c.sql) = Len(c.sql) + 0 /\ Len(c.atoms) <= Len(c.atoms) BY <2>4
    <2>6. \A k \in 1..0 : Denotes(c.atoms, c.params, From(e), c.sql[Len(c.sql) + k], node[k]) OBVIOUS
    <2>7. Fitting(c.atoms, c.next) BY <1>1, <1>4
    <2>8. c.ok /\ ASeq(c.atoms) BY <1>2, <1>4
    <2>9. QED BY <1>6, <2>1, <2>3, <2>5, <2>6, <2>7, <2>8 DEF Built
<1>10. QED BY <1>2, <1>4, <1>5, <1>7, <1>8, <1>9 DEF c, b, K

\* The fragment of a filter and the fixed condition before it.
LEMMA WithFilter ==
    ASSUME NEW e \in Endpoint, NEW node \in Seq(Token), Plain(node, "or"), NEW w, NEW c, Same(w, c),
           Built(c, Put(Query(e), "and"), node, From(e), Len(node)), \A k \in 1..Len(node) : ~Refuses(node[k])
    PROVE  LET binds == FixedBinds(e) \o w.params IN
           BindsFit(w, binds) /\ Returns(w, binds) = {Seen(e, v) : v \in Means(node, Meant)}
<1> DEFINE b0 == Put(Query(e), "and")
           K == Fixes(e)
           N == Len(node)
           fb == FixedBinds(e)
           binds == fb \o w.params
           R == Truth(w, binds)
           Y == Valued(node, Meant)
<1>1. Len(b0.sql) = 2 * K /\ Len(b0.atoms) = K /\ Prefixed(b0, e) /\ b0.sql[2 * K] = Sym("and") BY FilterBegins
<1>2. w.atoms = c.atoms /\ w.sql = c.sql /\ w.params = c.params /\ w.next = c.next BY DEF Same
<1>3. /\ ASeq(w.atoms) /\ ASeq(w.params) /\ ASeq(w.sql)
      /\ Len(w.sql) = Len(b0.sql) + N /\ Len(b0.atoms) <= Len(w.atoms)
      /\ w.next = From(e) + Len(w.params)
      /\ \A i \in 1..Len(b0.sql) : w.sql[i] = b0.sql[i]
      /\ \A i \in 1..Len(b0.atoms) : w.atoms[i] = b0.atoms[i]
      /\ \A k \in 1..N : Denotes(w.atoms, w.params, From(e), w.sql[Len(b0.sql) + k], node[k])
      /\ Fitting(w.atoms, w.next)
    BY <1>2 DEF Built
<1>4. From(e) \in Nat /\ ASeq(fb) /\ Len(fb) + 1 = From(e)
    <2>1. From(e) \in Nat /\ ASeq(fb) /\ Len(fb) \in Nat BY QueryIs
    <2>2. QED BY <2>1 DEF From
<1>5. K \in {1, 2} BY BaseIs
<1>6. N \in Nat /\ \A k \in 1..N : node[k] \in Token OBVIOUS
<1> HIDE DEF b0, K, N
<1>7. Len(w.sql) = 2 * K + N /\ K <= Len(w.atoms) /\ \A k \in 1..N : Denotes(w.atoms, w.params, From(e), w.sql[2 * K + k], node[k])
    <2>1. Len(w.sql) = 2 * K + N BY <1>1, <1>3
    <2>2. K <= Len(w.atoms) BY <1>1, <1>3
    <2>3. ASSUME NEW k \in 1..N PROVE Denotes(w.atoms, w.params, From(e), w.sql[2 * K + k], node[k])
        <3>1. Denotes(w.atoms, w.params, From(e), w.sql[Len(b0.sql) + k], node[k]) BY <1>3
        <3>2. QED BY <1>1, <3>1
    <2>4. QED BY <2>1, <2>2, <2>3
<1>8. Prefixed(w, e) /\ w.sql[2 * K] = Sym("and")
    <2>1. 1 \in 1..(2 * K) /\ 2 * K \in 1..(2 * K) /\ 1 \in 1..K /\ (K = 2 => 2 \in 1..K /\ 2 \in 1..(2 * K) /\ 3 \in 1..(2 * K)) BY <1>5
    <2>2. (\A i \in 1..(2 * K) : w.sql[i] = b0.sql[i]) /\ \A i \in 1..K : w.atoms[i] = b0.atoms[i] BY <1>1, <1>3
    <2>3. w.sql[1] = b0.sql[1] /\ w.atoms[1] = b0.atoms[1] /\ w.sql[2 * K] = b0.sql[2 * K] BY <2>1, <2>2
    <2>4. K = 2 => w.sql[2] = b0.sql[2] /\ w.sql[3] = b0.sql[3] /\ w.atoms[2] = b0.atoms[2] BY <2>1, <2>2
    <2>5. b0.sql[1] = Leaf(1) /\ b0.atoms[1] = Tenant /\ (K = 2 => b0.sql[2] = Sym("and") /\ b0.sql[3] = Leaf(2) /\ b0.atoms[2] = Second(e))
        BY <1>1 DEF Prefixed, K
    <2>6. w.sql[1] = Leaf(1) /\ w.atoms[1] = Tenant BY <2>3, <2>5
    <2>7. K = 2 => w.sql[2] = Sym("and") /\ w.sql[3] = Leaf(2) /\ w.atoms[2] = Second(e) BY <2>4, <2>5
    <2>8. Prefixed(w, e) BY <1>7, <2>6, <2>7 DEF Prefixed, K
    <2>9. QED BY <1>1, <2>3, <2>8
<1>9. Given(binds, e) /\ DOMAIN binds = 1..(From(e) + Len(w.params) - 1) BY <1>3, BindsGiven
<1>10. BindsFit(w, binds)
    <2> DEFINE x == Len(w.params)
               y == From(e)
    <2>1. w.next = y + x /\ DOMAIN binds = 1..(y + x - 1) BY <1>3, <1>9
    <2>1a. x \in Nat /\ y \in Nat
        <3>1. IsSeq(w.params) BY <1>3, ASeqIs
        <3>2. QED BY <1>4, <3>1 DEF IsSeq
    <2> HIDE DEF binds, x, y
    <2>2. DOMAIN binds = 1..(w.next - 1) BY <2>1, <2>1a
    <2>3. QED BY <1>3, <2>2, FitsBinds
<1>11. WellFormed(w)
    <2>1. Leaf(1).t = "leaf" /\ Leaf(1).n = 1 /\ Leaf(2).t = "leaf" /\ Leaf(2).n = 2 /\ Sym("and").t = "and" BY DEF Leaf, Sym
    <2>2. "leaf" \in Kind /\ "and" \in Kind /\ "and" # "leaf" BY DEF Kind
    <2>3. w.sql[1] = Leaf(1) /\ w.sql[2 * K] = Sym("and") /\ (K = 2 => w.sql[2] = Sym("and") /\ w.sql[3] = Leaf(2))
        BY <1>8 DEF Prefixed, K
    <2>4. Len(w.atoms) \in Nat BY <1>3, ASeqIs DEF IsSeq
    <2>5. 1 \in 1..Len(w.atoms) /\ (K = 2 => 2 \in 1..Len(w.atoms)) BY <1>5, <1>7, <2>4
    <2>6. ASSUME NEW i \in 1..Len(w.sql) PROVE w.sql[i].t \in Kind /\ (w.sql[i].t = "leaf" => w.sql[i].n \in 1..Len(w.atoms))
        <3>1. CASE i > 2 * K
            <4> DEFINE k == i - 2 * K
                       y == w.sql[i]
            <4>1. k \in 1..N /\ 2 * K + k = i BY <1>5, <1>6, <1>7, <3>1
            <4>2. Denotes(w.atoms, w.params, From(e), y, node[k]) BY <1>7, <4>1
            <4> HIDE DEF k, y
            <4>3. node[k].t \in Kind BY <1>6, <4>1, TokenShape
            <4>4. y.t \in Kind /\ (y.t = "leaf" => y.n \in 1..Len(w.atoms)) BY <4>2, <4>3 DEF Denotes
            <4>5. QED BY <4>4 DEF y
        <3>2. CASE i <= 2 * K
            <4>1. i = 1 \/ i = 2 * K \/ (K = 2 /\ (i = 2 \/ i = 3)) BY <1>5, <3>2
            <4>2. CASE i = 1 BY <2>1, <2>2, <2>3, <2>5, <4>2
            <4>3. CASE i = 2 * K BY <2>1, <2>2, <2>3, <4>3
            <4>4. CASE K = 2 /\ i = 2 BY <2>1, <2>2, <2>3, <4>4
            <4>5. CASE K = 2 /\ i = 3 BY <2>1, <2>2, <2>3, <2>5, <4>5
            <4>6. QED BY <4>1, <4>2, <4>3, <4>4, <4>5
        <3>3. QED BY <1>5, <1>7, <3>1, <3>2
    <2>7. QED BY <1>3, <2>6 DEF WellFormed
<1>12. RowsFit(Meant) BY MeantIs
<1>13. Y \in Seq(Item) /\ Len(Y) = N /\ Plain(Y, "or")
    <2>1. Y \in Seq(Item) /\ Len(Y) = Len(node) BY <1>12, ValuedIs
    <2>2. Plain(Y, "or") BY <1>12, ValuedShape
    <2>3. QED BY <2>1, <2>2 DEF N
<1>14. \A m \in 1..N : Y[m] = Val(node[m], Meant)
    <2>1. IsSeq(node) BY SeqIsSeq
    <2>2. QED BY <2>1, ValuedAt DEF N
<1>15. ASSUME NEW m \in 1..N PROVE Val(w.sql[2 * K + m], R) = Y[m]
    <2> DEFINE y == w.sql[2 * K + m]
               tok == node[m]
               from == From(e)
    <2>1. Denotes(w.atoms, w.params, from, y, tok) /\ ~Refuses(tok) BY <1>7 DEF N
    <2>2. from \in Nat /\ Len(fb) + 1 = from BY <1>4
    <2> HIDE DEF y, tok, from
    <2>3. Val(y, Truth(w, fb \o w.params)) = Val(tok, Meant) BY <1>3, <1>4, <2>1, <2>2, DenotesMeans
    <2>4. QED BY <1>14, <2>3 DEF y, tok
<1>16. Reading(Valued(w.sql, R)) = {Seen(e, v) : v \in Reading(Y)}
    <2>1. Len(w.sql) = 2 * Fixes(e) + Len(Y) /\ w.sql[2 * Fixes(e)] = Sym("and") BY <1>7, <1>8, <1>13 DEF K
    <2>2. \A m \in 1..Len(Y) : Val(w.sql[2 * Fixes(e) + m], Truth(w, binds)) = Y[m] BY <1>13, <1>15 DEF K
    <2> HIDE DEF Y, binds
    <2>3. Behind(w, e, binds, Y) BY <1>13, <2>1, <2>2 DEF Behind
    <2>4. QED BY <1>8, <1>9, <1>11, <2>3, BehindFixed
<1>17. Returns(w, binds) = Reading(Valued(w.sql, R)) BY DEF Returns, Truth
<1>18. Reading(Y) = Means(node, Meant) BY DEF Means
<1> HIDE DEF R, Y
<1>19. QED BY <1>10, <1>16, <1>17, <1>18

-----------------------------------------------------------------------------
(***************************************************************************)
(* The query made of a request, before its sort is looked at.              *)
(***************************************************************************)
Filtered(e, s) ==
    IF s = <<>> THEN Query(e)
    ELSE IF parse_rsql(s).ok THEN build_node(Put(Query(e), "and"), parse_rsql(s).node) ELSE [Query(e) EXCEPT !.ok = FALSE]
Known(s) == \A n \in Comparisons(s) : n \in Sensible
Lists(e, w, R) ==
    LET binds == FixedBinds(e) \o w.params IN BindsFit(w, binds) /\ Returns(w, binds) = {Seen(e, v) : v \in R}
ListsSame(e, c, R) == \A w : Same(w, c) => Lists(e, w, R)

\* A filter of comparisons that make sense, token by token.
LEMMA KnownIs ==
    ASSUME NEW s, IsSeq(s)
    PROVE  /\ Known(s) <=> \A i \in DOMAIN s : s[i].t = "leaf" => s[i].n \in Sensible
           /\ Known(s) <=> \A k \in 1..Len(s) : ~Refuses(s[k])
<1>1. DOMAIN s = 1..Len(s) BY DEF IsSeq
<1>2. Known(s) <=> \A i \in 1..Len(s) : s[i].t = "leaf" => s[i].n \in Sensible
    <2>1. ASSUME Known(s), NEW i \in 1..Len(s), s[i].t = "leaf" PROVE s[i].n \in Sensible BY <2>1 DEF Known, Comparisons
    <2>2. ASSUME \A i \in 1..Len(s) : s[i].t = "leaf" => s[i].n \in Sensible, NEW n \in Comparisons(s) PROVE n \in Sensible
        <3>1. PICK i \in 1..Len(s) : s[i].t = "leaf" /\ n = s[i].n BY <2>2 DEF Comparisons
        <3>2. QED BY <2>2, <3>1
    <2>3. QED BY <2>1, <2>2 DEF Known
<1>3. QED BY <1>1, <1>2 DEF Refuses

\* The parser takes the comparisons that make sense.
LEMMA KnownTaken ==
    ASSUME NEW s, Known(s)
    PROVE  \A n \in Comparisons(s) : Taken(Leaves[n])
<1>1. ASSUME NEW n \in Sensible PROVE Taken(Leaves[n])
    <2>1. n \in DOMAIN Leaves /\ n \notin {18, 24} BY LeavesDomain
    <2>2. QED BY <2>1, LeavesParsed
<1>2. QED BY <1>1 DEF Known

\* Without a filter the rows of the endpoint are asked for, and listed.
LEMMA OutcomeNone ==
    ASSUME NEW e \in Endpoint, NEW s, s = <<>>
    PROVE  /\ Builder(Filtered(e, s)) /\ Filtered(e, s).ok /\ Asked(s) = {Row}
           /\ ListsSame(e, Filtered(e, s), Asked(s))
<1> DEFINE c == Query(e)
<1>1. Filtered(e, s) = c /\ Asked(s) = {Row} BY DEF Filtered, Asked
<1>2. Begun(c, Fixes(e)) BY BaseIs
<1>3. Builder(c) /\ c.ok BY <1>2 DEF Begun
<1>4. ASSUME NEW w, Same(w, c) PROVE Lists(e, w, {Row})
    <2> DEFINE binds == FixedBinds(e) \o w.params
    <2>1. BindsFit(w, binds) /\ Returns(w, binds) = {Seen(e, Row)} BY <1>4, NoFilter
    <2> HIDE DEF binds
    <2>2. {Seen(e, v) : v \in {Row}} = {Seen(e, Row)} OBVIOUS
    <2>3. QED BY <2>1, <2>2 DEF Lists, binds
<1> HIDE DEF c
<1>5. QED BY <1>1, <1>3, <1>4 DEF ListsSame

\* With a filter the query is refused or lists the rows of the endpoint the filter is true for.
LEMMA OutcomeSome ==
    ASSUME NEW e \in Endpoint, NEW s \in Seq(Token), s # <<>>
    PROVE  /\ Builder(Filtered(e, s)) /\ (Filtered(e, s).ok <=> Asked(s) # {} /\ Known(s))
           /\ Filtered(e, s).ok => ListsSame(e, Filtered(e, s), Asked(s))
<1> DEFINE p == parse_rsql(s)
           b == Query(e)
           b0 == Put(b, "and")
           c == Filtered(e, s)
<1>1. Asked(s) = Means(s, Meant) BY DEF Asked, Means
<1>2. RowsFit(Meant) BY MeantIs
<1>3. /\ p.ok <=> Means(s, Meant) # {} /\ \A n \in Comparisons(s) : Taken(Leaves[n])
      /\ p.ok => /\ p.node \in Seq(Token) /\ Plain(p.node, "or")
                 /\ Means(p.node, Meant) = Means(s, Meant) /\ Comparisons(p.node) = Comparisons(s)
    BY <1>2, ParserFaithful
<1>4. c = IF p.ok THEN build_node(b0, p.node) ELSE [b EXCEPT !.ok = FALSE] BY DEF Filtered
<1> HIDE DEF p, c
<1>5. CASE ~p.ok
    <2>1. Begun(b, Fixes(e)) BY BaseIs
    <2>2. Builder(b) BY <2>1 DEF Begun
    <2> HIDE DEF b
    <2>3. c = [b EXCEPT !.ok = FALSE] BY <1>4, <1>5
    <2>4. Builder(c) /\ c.ok = FALSE BY <2>2, <2>3 DEF Builder
    <2>5. ~(Asked(s) # {} /\ Known(s)) BY <1>1, <1>3, <1>5, KnownTaken
    <2>6. QED BY <2>4, <2>5 DEF c
<1>6. CASE p.ok
    <2> DEFINE node == p.node
               from == From(e)
    <2>1. node \in Seq(Token) /\ Plain(node, "or") /\ Means(node, Meant) = Asked(s) /\ Comparisons(node) = Comparisons(s)
          /\ Asked(s) # {} /\ \A n \in Comparisons(node) : Taken(Leaves[n])
        BY <1>1, <1>3, <1>6
    <2>2. c = build_node(b0, node) BY <1>4, <1>6
    <2> HIDE DEF node
    <2>3. Builder(b0) /\ Built(b0, b0, node, from, 0) /\ Len(b0.sql) = 2 * Fixes(e) /\ Len(b0.atoms) = Fixes(e) BY FilterBegins
    <2>4. from \in Nat /\ from >= 1 BY QueryIs
    <2>5. Len(b0.sql) \in Nat /\ Len(b0.atoms) \in Nat
        <3>1. Fixes(e) \in {1, 2} BY BaseIs
        <3> HIDE DEF b0
        <3>2. QED BY <2>3, <3>1
    <2> HIDE DEF b0, from
    <2>6. FoldedTo(c, b0, node, from, Len(node)) BY <2>1, <2>2, <2>3, <2>4, <2>5, BuildBuilds
    <2>7. IsSeq(node) BY <2>1, SeqIsSeq
    <2>8. Known(node) <=> \A k \in 1..Len(node) : ~Refuses(node[k]) BY <2>7, KnownIs
    <2>9. Known(node) <=> Known(s) BY <2>1 DEF Known
    <2>10. CASE Known(s)
        <3>1. \A k \in 1..Len(node) : ~Refuses(node[k]) BY <2>8, <2>9, <2>10
        <3>2. Builder(c) /\ Built(c, b0, node, from, Len(node)) BY <2>6, <3>1 DEF FoldedTo
        <3>3. c.ok BY <3>2 DEF Built
        <3>4. ASSUME NEW w, Same(w, c) PROVE Lists(e, w, Asked(s))
            <4> DEFINE binds == FixedBinds(e) \o w.params
            <4>1. Built(c, Put(Query(e), "and"), node, From(e), Len(node)) BY <3>2 DEF b0, from
            <4>2. BindsFit(w, binds) /\ Returns(w, binds) = {Seen(e, v) : v \in Means(node, Meant)}
                BY <2>1, <3>1, <3>4, <4>1, WithFilter
            <4>3. QED BY <2>1, <4>2 DEF Lists
        <3>5. ListsSame(e, c, Asked(s)) BY <3>4 DEF ListsSame
        <3>6. QED BY <2>1, <2>10, <3>2, <3>3, <3>5 DEF c
    <2>11. CASE ~Known(s)
        <3>1. \E k \in 1..Len(node) : Refuses(node[k]) BY <2>8, <2>9, <2>11
        <3>2. Builder(c) /\ ~c.ok BY <2>6, <3>1 DEF FoldedTo
        <3>3. QED BY <2>11, <3>2 DEF c
    <2>12. QED BY <2>10, <2>11
<1>7. QED BY <1>5, <1>6

\* The sort changes nothing but whether the request is taken.
LEMMA SortedSame ==
    ASSUME NEW c, Builder(c), NEW z \in BOOLEAN
    PROVE  LET w == [c EXCEPT !.ok = @ /\ z] IN Same(w, c) /\ (w.ok <=> c.ok /\ z)
<1> DEFINE w == [c EXCEPT !.ok = @ /\ z]
<1>1. w = [ok |-> c.ok /\ z, atoms |-> c.atoms, params |-> c.params, next |-> c.next, sql |-> c.sql] BY DEF Builder
<1> HIDE DEF w
<1>2. Same(w, c) BY <1>1 DEF Same
<1>3. w.ok <=> c.ok /\ z BY <1>1
<1>4. QED BY <1>2, <1>3 DEF w

\* A request is answered as it asks, whatever its filter and its sort.
LEMMA RequestFaithful ==
    ASSUME endpoint \in Endpoint, q \in Seq(Token)
    PROVE  ListFaithful
<1> DEFINE parts == parse_sort(sort)
           c == Filtered(endpoint, q)
           z == \A i \in DOMAIN parts : lookup(parts[i].field)
           w == [c EXCEPT !.ok = @ /\ z]
           binds == FixedBinds(endpoint) \o w.params
<1>1. build(Query(endpoint), q, parts) = w BY DEF build, Filtered
<1>2. z <=> \A i \in DOMAIN parts : parts[i].field \in {"text", "num", "flag"} BY FieldsAre
<1>3. Builder(c) /\ (c.ok <=> Asked(q) # {} /\ Known(q)) /\ (c.ok => ListsSame(endpoint, c, Asked(q)))
    <2>1. CASE q = <<>>
        <3>1. Builder(c) /\ c.ok /\ Asked(q) = {Row} /\ ListsSame(endpoint, c, Asked(q)) BY <2>1, OutcomeNone
        <3> HIDE DEF c
        <3>2. Known(q)
            <4>1. Len(q) = 0 BY <2>1
            <4>2. 1..Len(q) = {} BY <4>1
            <4>3. Comparisons(q) = {} BY <4>2 DEF Comparisons
            <4>4. QED BY <4>3 DEF Known
        <3>3. {Row} # {} OBVIOUS
        <3>4. QED BY <3>1, <3>2, <3>3
    <2>2. CASE q # <<>>
        <3>1. QED BY <2>2, OutcomeSome
    <2>3. QED BY <2>1, <2>2
<1>4. Known(q) <=> \A i \in DOMAIN q : q[i].t = "leaf" => q[i].n \in Sensible
    <2>1. IsSeq(q) BY SeqIsSeq
    <2>2. QED BY <2>1, KnownIs
<1> HIDE DEF c, parts
<1>5. z \in BOOLEAN OBVIOUS
<1> HIDE DEF z
<1>6. Same(w, c) /\ (w.ok <=> c.ok /\ z) BY <1>3, <1>5, SortedSame
<1> HIDE DEF w
<1>7. w.ok => Lists(endpoint, w, Asked(q)) BY <1>3, <1>6 DEF ListsSame
<1>8. w.ok <=> /\ Asked(q) # {}
               /\ \A i \in DOMAIN q : q[i].t = "leaf" => q[i].n \in Sensible
               /\ \A i \in DOMAIN parts : parts[i].field \in {"text", "num", "flag"}
    BY <1>2, <1>3, <1>4, <1>6
<1>9. w.ok => /\ BindsFit(w, binds)
              /\ Returns(w, binds) = {{row \in rows : Visible(endpoint, row)} : rows \in Asked(q)}
    BY <1>7 DEF Lists, Seen
<1>10. QED BY <1>1, <1>8, <1>9 DEF ListFaithful, parts

-----------------------------------------------------------------------------
\* What every request is.
FiltersType == endpoint \in Endpoint /\ q \in Seq(Token)

\* In every request of every endpoint, a filter of any length over the comparisons of Leaves and a sort are refused
\* exactly when they are no sentence over usable fields; otherwise parse_rsql and build make a query whose placeholders
\* fit, and which returns the endpoint's rows for which the filter is true.
THEOREM ListsAreFaithful == FiltersSpec => []ListFaithful
<1>1. FiltersInit => FiltersType BY DEF FiltersInit, FiltersType
<1>2. FiltersType /\ [FiltersNext]_filterVars => FiltersType'
    <2>1. SUFFICES ASSUME FiltersType, [FiltersNext]_filterVars PROVE FiltersType' OBVIOUS
    <2>2. CASE UNCHANGED filterVars BY <2>1, <2>2 DEF FiltersType, filterVars
    <2>3. ASSUME NEW token \in Token, Extend(token) PROVE FiltersType' BY <2>1, <2>3 DEF FiltersType, Extend
    <2>4. ASSUME NEW part \in SortPart, ExtendSort(part) PROVE FiltersType' BY <2>1, <2>4 DEF FiltersType, ExtendSort
    <2>5. QED BY <2>1, <2>2, <2>3, <2>4 DEF FiltersNext
<1>3. FiltersType => ListFaithful BY RequestFaithful DEF FiltersType
<1>4. QED BY <1>1, <1>2, <1>3, PTL DEF FiltersSpec
=============================================================================
