--------------------------- MODULE PoliciesProofs ---------------------------
(***************************************************************************)
(* Policies, for every registry, document and request: LikeFaithful and    *)
(* UidFaithful are about the resources a statement names, from which       *)
(* DecisionsAreFaithful follows with what the entity graph and the schema  *)
(* hold; ActionsAreFaithful is about what a check without an action asks.  *)
(* The invariant under both is Registered and Documented.                  *)
(***************************************************************************)
EXTENDS Policies, TLAPS, WellFoundedInduction, SequenceTheorems

-----------------------------------------------------------------------------
(***************************************************************************)
(* Induction over the places of a sequence is done by least counterexample *)
(* throughout.                                                             *)
(***************************************************************************)
LEMMA Least ==
    ASSUME NEW S \in SUBSET Nat, S # {}
    PROVE  \E n \in S : \A m \in S : n <= m
<1>1. PICK n \in S : \A m \in S : ~(<<m, n>> \in OpToRel(<, Nat))
    BY NatLessThanWellFounded, WFMin
<1>2. \A m \in S : ~(m < n)
    BY <1>1 DEF OpToRel
<1>3. QED BY <1>2

\* A set of numbers that holds 0 and the successor of each of its members up to N.
LEMMA Induct ==
    ASSUME NEW N \in Nat, NEW S, 0 \in S, \A i \in 1..N : i - 1 \in S => i \in S
    PROVE  0..N \subseteq S
<1> DEFINE C == {i \in 0..N : i \notin S}
<1>1. SUFFICES ASSUME C # {} PROVE FALSE OBVIOUS
<1>2. PICK n \in C : \A m \in C : n <= m
    <2>1. C \subseteq Nat OBVIOUS
    <2> HIDE DEF C
    <2> QED BY <1>1, <2>1, Least
<1>3. n \in 1..N /\ n - 1 \in 0..N /\ n - 1 \notin C
    BY <1>2
<1>4. QED BY <1>2, <1>3

-----------------------------------------------------------------------------
(***************************************************************************)
(* The text of a path.  FlattenSeq is a recursive function chosen by its   *)
(* equation, so first that there is one.                                   *)
(***************************************************************************)
LEMMA FlattenDefined ==
    ASSUME NEW seqs, NEW N \in Nat
    PROVE  \E f : f = [i \in 1..N |-> IF i = 1 THEN seqs[i] ELSE f[i - 1] \o seqs[i]]
<1> DEFINE D(f, n) == f = [i \in 1..n |-> IF i = 1 THEN seqs[i] ELSE f[i - 1] \o seqs[i]]
           S == {n \in Nat : \E f : D(f, n)}
<1>1. 0 \in S
    <2>1. D([i \in 1..0 |-> 0], 0) OBVIOUS
    <2>2. QED BY <2>1
<1>2. ASSUME NEW n \in 1..N, n - 1 \in S PROVE n \in S
    <2>1. PICK f : D(f, n - 1) BY <1>2
    <2> DEFINE g == [i \in 1..n |-> IF i = 1 THEN seqs[i] ELSE f[i - 1] \o seqs[i]]
    <2>2. ASSUME NEW i \in 1..(n - 1) PROVE f[i] = g[i]
        <3>1. i \in 1..n OBVIOUS
        <3>2. f[i] = IF i = 1 THEN seqs[i] ELSE f[i - 1] \o seqs[i] BY <2>1
        <3>3. QED BY <3>1, <3>2
    <2>3. ASSUME NEW i \in 1..n, i # 1 PROVE f[i - 1] = g[i - 1]
        <3>1. i - 1 \in 1..(n - 1) BY <2>3
        <3> HIDE DEF g
        <3> QED BY <2>2, <3>1
    <2>4. [i \in 1..n |-> IF i = 1 THEN seqs[i] ELSE g[i - 1] \o seqs[i]] = g
        <3> DEFINE h == g
        <3>1. \A i \in 1..n : i # 1 => f[i - 1] = h[i - 1] BY <2>3
        <3> HIDE DEF h
        <3>2. [i \in 1..n |-> IF i = 1 THEN seqs[i] ELSE h[i - 1] \o seqs[i]] = g BY <3>1
        <3>3. QED BY <3>2 DEF h
    <2>5. D(g, n) BY <2>4
    <2> HIDE DEF D, g
    <2>6. QED BY <2>5
<1>3. N \in S
    <2> HIDE DEF S
    <2>1. 0..N \subseteq S BY <1>1, <1>2, Induct
    <2>2. QED BY <2>1
<1>4. QED BY <1>3

LEMMA FlattenType ==
    ASSUME NEW S, NEW seqs \in Seq(Seq(S))
    PROVE  FlattenSeq(seqs) \in Seq(S)
<1> DEFINE f == CHOOSE f : f = [i \in 1..Len(seqs) |-> IF i = 1 THEN seqs[i] ELSE f[i - 1] \o seqs[i]]
<1>1. CASE Len(seqs) = 0
    BY <1>1 DEF FlattenSeq
<1>2. CASE Len(seqs) # 0
    <2>1. FlattenSeq(seqs) = f[Len(seqs)] BY <1>2 DEF FlattenSeq
    <2>2. f = [i \in 1..Len(seqs) |-> IF i = 1 THEN seqs[i] ELSE f[i - 1] \o seqs[i]]
        <3>1. \E h : h = [i \in 1..Len(seqs) |-> IF i = 1 THEN seqs[i] ELSE h[i - 1] \o seqs[i]]
            <4>1. Len(seqs) \in Nat OBVIOUS
            <4>2. QED BY <4>1, FlattenDefined, Zenon
        <3>2. QED BY <3>1
    <2> HIDE DEF f
    <2> DEFINE G == {i \in Nat : i \in 1..Len(seqs) => f[i] \in Seq(S)}
    <2>3. 0 \in G OBVIOUS
    <2>4. ASSUME NEW i \in 1..Len(seqs), i - 1 \in G PROVE i \in G
        <3>1. seqs[i] \in Seq(S) OBVIOUS
        <3>2. i # 1 => f[i - 1] \in Seq(S)
            <4>1. i # 1 => i - 1 \in 1..Len(seqs) OBVIOUS
            <4>2. QED BY <2>4, <4>1
        <3>3. f[i] = IF i = 1 THEN seqs[i] ELSE f[i - 1] \o seqs[i] BY <2>2
        <3>4. f[i] \in Seq(S) BY <3>1, <3>2, <3>3
        <3>5. QED BY <3>4
    <2>5. Len(seqs) \in G
        <3> HIDE DEF G
        <3>1. Len(seqs) \in Nat OBVIOUS
        <3>2. 0..Len(seqs) \subseteq G BY <2>3, <2>4, <3>1, Induct
        <3>3. QED BY <3>1, <3>2
    <2>6. QED BY <1>2, <2>1, <2>5
<1>3. QED BY <1>1, <1>2

LEMMA ShortSeq ==
    ASSUME NEW S, NEW x \in S, NEW y \in S
    PROVE  <<>> \in Seq(S) /\ <<x>> \in Seq(S) /\ <<x, y>> \in Seq(S)
OBVIOUS

\* What the text of a path is made of.
Token == STRING \cup {"/", ":"}

LEMMA PathTextType ==
    ASSUME NEW path \in Path
    PROVE  PathText(path) \in Seq(Token) /\ Len(PathText(path)) \in Nat
<1> DEFINE token(i) == (IF i = 1 THEN <<>> ELSE <<"/">>) \o (IF path[i].pre = "" THEN <<>> ELSE <<path[i].pre, ":">>) \o path[i].id
           parts == [i \in DOMAIN path |-> token(i)]
<1>1. ASSUME NEW i \in DOMAIN path PROVE token(i) \in Seq(Token)
    <2>1. path[i] \in Segment BY DEF Path
    <2>2. path[i].pre \in Token /\ path[i].id \in Seq(Token)
        <3>1. path[i].pre \in STRING /\ path[i].id \in Seq(STRING) BY <2>1 DEF Segment
        <3>2. QED BY <3>1 DEF Token
    <2>3. <<>> \in Seq(Token) /\ <<"/">> \in Seq(Token)
        <3>1. "/" \in Token BY DEF Token
        <3>2. QED BY <3>1, ShortSeq
    <2>4. <<path[i].pre, ":">> \in Seq(Token)
        <3>1. ":" \in Token BY DEF Token
        <3>2. QED BY <2>2, <3>1, ShortSeq
    <2> DEFINE x == IF i = 1 THEN <<>> ELSE <<"/">>
               y == IF path[i].pre = "" THEN <<>> ELSE <<path[i].pre, ":">>
    <2>5. x \in Seq(Token) BY <2>3
    <2>6. y \in Seq(Token) BY <2>3, <2>4
    <2> HIDE DEF x, y
    <2>7. x \o y \o path[i].id \in Seq(Token) BY <2>2, <2>5, <2>6
    <2>8. QED BY <2>7 DEF x, y
<1>2. parts \in Seq(Seq(Token))
    <2> HIDE DEF token
    <2>1. path \in Seq(Segment) BY DEF Path
    <2>2. DOMAIN path = 1..Len(path) /\ Len(path) \in Nat BY <2>1
    <2>3. QED BY <1>1, <2>2
<1>3. PathText(path) = FlattenSeq(parts) BY DEF PathText
<1>4. PathText(path) \in Seq(Token)
    <2> HIDE DEF parts
    <2> QED BY <1>2, <1>3, FlattenType
<1>5. QED BY <1>4

-----------------------------------------------------------------------------
(***************************************************************************)
(* Cedar's like.  A text is like a pattern exactly when there is a walk    *)
(* through the text, one step for each element of the pattern.             *)
(***************************************************************************)
Step(element, text, x, y) ==
    IF element.kind = "Wildcard" THEN x <= y ELSE y = x + 1 /\ text[y] = element.text

Walk(pattern, text, n, g) ==
    /\ g \in [0..n -> 0..Len(text)]
    /\ g[0] = 0
    /\ \A i \in 1..n : Step(pattern[i], text, g[i - 1], g[i])

\* f is the recursive function of CedarLike on the first n elements.
Ends(pattern, text, n, f) == f = [i \in 0..n |-> IF i = 0 THEN {0} ELSE Reached(pattern[i], f[i - 1], text)]

LEMMA EndsDefined ==
    ASSUME NEW pattern, NEW text, NEW N \in Nat
    PROVE  \E f : Ends(pattern, text, N, f)
<1> DEFINE D(f, n) == f = [i \in 0..n |-> IF i = 0 THEN {0} ELSE Reached(pattern[i], f[i - 1], text)]
           S == {n \in Nat : \E f : D(f, n)}
<1>1. 0 \in S
    <2>1. [i \in 0..0 |-> {0}] = [i \in 0..0 |-> IF i = 0 THEN {0} ELSE Reached(pattern[i], [j \in 0..0 |-> {0}][i - 1], text)]
        OBVIOUS
    <2>2. D([i \in 0..0 |-> {0}], 0) BY <2>1
    <2>3. QED BY <2>2
<1>2. ASSUME NEW n \in 1..N, n - 1 \in S PROVE n \in S
    <2>1. PICK f : D(f, n - 1) BY <1>2
    <2> DEFINE g == [i \in 0..n |-> IF i = 0 THEN {0} ELSE Reached(pattern[i], f[i - 1], text)]
    <2>2. ASSUME NEW i \in 0..(n - 1) PROVE f[i] = g[i]
        <3>1. i \in 0..n OBVIOUS
        <3>2. f[i] = IF i = 0 THEN {0} ELSE Reached(pattern[i], f[i - 1], text) BY <2>1
        <3>3. QED BY <3>1, <3>2
    <2>3. ASSUME NEW i \in 0..n, i # 0 PROVE f[i - 1] = g[i - 1]
        <3>1. i - 1 \in 0..(n - 1) BY <2>3
        <3> HIDE DEF g
        <3> QED BY <2>2, <3>1
    <2>4. [i \in 0..n |-> IF i = 0 THEN {0} ELSE Reached(pattern[i], g[i - 1], text)] = g
        <3> DEFINE h == g
        <3>1. \A i \in 0..n : i # 0 => f[i - 1] = h[i - 1] BY <2>3
        <3> HIDE DEF h
        <3>2. [i \in 0..n |-> IF i = 0 THEN {0} ELSE Reached(pattern[i], h[i - 1], text)] = g BY <3>1
        <3>3. QED BY <3>2 DEF h
    <2>5. D(g, n) BY <2>4
    <2> HIDE DEF D, g
    <2>6. QED BY <2>5
<1>3. N \in S
    <2> HIDE DEF S
    <2>1. 0..N \subseteq S BY <1>1, <1>2, Induct
    <2>2. QED BY <2>1
<1>4. QED BY <1>3 DEF Ends

\* The sets CedarLike goes through.
LEMMA LikeEnds ==
    ASSUME NEW pattern, NEW text, Len(pattern) \in Nat
    PROVE  \E f : /\ f[0] = {0}
                  /\ \A i \in 1..Len(pattern) : f[i] = Reached(pattern[i], f[i - 1], text)
                  /\ CedarLike(pattern, text) <=> Len(text) \in f[Len(pattern)]
<1> DEFINE f == CHOOSE f : f = [i \in 0..Len(pattern) |-> IF i = 0 THEN {0} ELSE Reached(pattern[i], f[i - 1], text)]
<1>1. f = [i \in 0..Len(pattern) |-> IF i = 0 THEN {0} ELSE Reached(pattern[i], f[i - 1], text)]
    <2>1. \E h : Ends(pattern, text, Len(pattern), h) BY EndsDefined
    <2>2. QED BY <2>1, Zenon DEF Ends
<1>2. CedarLike(pattern, text) <=> Len(text) \in f[Len(pattern)]
    BY DEF CedarLike
<1> HIDE DEF f
<1>3. f[0] = {0} BY <1>1
<1>4. ASSUME NEW i \in 1..Len(pattern) PROVE f[i] = Reached(pattern[i], f[i - 1], text)
    <2>1. i \in 0..Len(pattern) /\ i # 0 OBVIOUS
    <2>2. QED BY <1>1, <2>1
<1>5. QED BY <1>2, <1>3, <1>4

LEMMA ReachedSteps ==
    ASSUME NEW element, NEW text, Len(text) \in Nat, NEW B \in SUBSET (0..Len(text))
    PROVE  Reached(element, B, text) = {y \in 0..Len(text) : \E x \in B : Step(element, text, x, y)}
<1>1. CASE element.kind = "Wildcard" BY <1>1 DEF Reached, Step
<1>2. CASE element.kind # "Wildcard" BY <1>2 DEF Reached, Step
<1>3. QED BY <1>1, <1>2

LEMMA LikeIsWalk ==
    ASSUME NEW pattern, NEW text, Len(pattern) \in Nat, Len(text) \in Nat
    PROVE  CedarLike(pattern, text) <=> \E g : Walk(pattern, text, Len(pattern), g) /\ g[Len(pattern)] = Len(text)
<1> DEFINE N == Len(pattern)
<1>1. PICK f : /\ f[0] = {0}
               /\ \A i \in 1..N : f[i] = Reached(pattern[i], f[i - 1], text)
               /\ CedarLike(pattern, text) <=> Len(text) \in f[N]
    BY LikeEnds
<1> DEFINE S == {n \in 0..N : /\ f[n] \subseteq 0..Len(text)
                              /\ \A k \in 0..Len(text) : k \in f[n] <=> \E g : Walk(pattern, text, n, g) /\ g[n] = k}
<1>2. 0 \in S
    <2>1. f[0] \subseteq 0..Len(text) BY <1>1
    <2>2. Walk(pattern, text, 0, [i \in 0..0 |-> 0]) BY DEF Walk
    <2>3. ASSUME NEW k \in 0..Len(text) PROVE k \in f[0] <=> \E g : Walk(pattern, text, 0, g) /\ g[0] = k
        <3>1. CASE k = 0 BY <1>1, <2>2, <3>1
        <3>2. CASE k # 0 BY <1>1, <3>2 DEF Walk
        <3>3. QED BY <3>1, <3>2
    <2>4. QED BY <2>1, <2>3
<1>3. ASSUME NEW n \in 1..N, n - 1 \in S PROVE n \in S
    <2>1. f[n - 1] \subseteq 0..Len(text) BY <1>3
    <2>2. f[n] = {y \in 0..Len(text) : \E x \in f[n - 1] : Step(pattern[n], text, x, y)}
        BY <1>1, <2>1, ReachedSteps
    <2>3. ASSUME NEW k \in 0..Len(text), k \in f[n] PROVE \E g : Walk(pattern, text, n, g) /\ g[n] = k
        <3>1. PICK x \in f[n - 1] : Step(pattern[n], text, x, k) BY <2>2, <2>3
        <3>2. x \in 0..Len(text) BY <2>1
        <3>3. PICK h : Walk(pattern, text, n - 1, h) /\ h[n - 1] = x BY <1>3, <3>2
        <3> DEFINE g == [i \in 0..n |-> IF i = n THEN k ELSE h[i]]
        <3>4. h \in [0..(n - 1) -> 0..Len(text)] BY <3>3 DEF Walk
        <3>5. g \in [0..n -> 0..Len(text)] BY <3>4
        <3>6. g[0] = 0 BY <3>3 DEF Walk
        <3>7. ASSUME NEW i \in 1..n PROVE Step(pattern[i], text, g[i - 1], g[i])
            <4>1. CASE i = n
                <5>1. g[i] = k /\ g[i - 1] = x BY <3>3, <4>1
                <5>2. QED BY <3>1, <4>1, <5>1
            <4>2. CASE i # n
                <5>1. g[i] = h[i] /\ g[i - 1] = h[i - 1] /\ i \in 1..(n - 1) BY <4>2
                <5>2. Step(pattern[i], text, h[i - 1], h[i]) BY <3>3, <5>1 DEF Walk
                <5>3. QED BY <5>1, <5>2
            <4>3. QED BY <4>1, <4>2
        <3>8. g[n] = k OBVIOUS
        <3> HIDE DEF g
        <3>9. QED BY <3>5, <3>6, <3>7, <3>8 DEF Walk
    <2>4. ASSUME NEW k \in 0..Len(text), NEW g, Walk(pattern, text, n, g), g[n] = k PROVE k \in f[n]
        <3> DEFINE h == [i \in 0..(n - 1) |-> g[i]]
        <3>1. Walk(pattern, text, n - 1, h)
            <4>1. g \in [0..n -> 0..Len(text)] /\ g[0] = 0 BY <2>4 DEF Walk
            <4>2. h \in [0..(n - 1) -> 0..Len(text)] /\ h[0] = 0 BY <4>1
            <4>3. ASSUME NEW i \in 1..(n - 1) PROVE Step(pattern[i], text, h[i - 1], h[i])
                <5>1. h[i - 1] = g[i - 1] /\ h[i] = g[i] /\ i \in 1..n OBVIOUS
                <5>2. Step(pattern[i], text, g[i - 1], g[i]) BY <2>4, <5>1 DEF Walk
                <5>3. QED BY <5>1, <5>2
            <4> HIDE DEF h
            <4>4. QED BY <4>2, <4>3 DEF Walk
        <3>2. h[n - 1] = g[n - 1] /\ g[n - 1] \in 0..Len(text) BY <2>4 DEF Walk
        <3> HIDE DEF h
        <3>3. g[n - 1] \in f[n - 1] BY <1>3, <3>1, <3>2
        <3>4. Step(pattern[n], text, g[n - 1], g[n]) BY <2>4 DEF Walk
        <3>5. QED BY <2>2, <2>4, <3>3, <3>4
    <2>5. f[n] \subseteq 0..Len(text) BY <2>2
    <2>6. QED BY <2>3, <2>4, <2>5
<1>4. N \in S
    <2> HIDE DEF S
    <2>1. 0..N \subseteq S BY <1>2, <1>3, Induct
    <2>2. QED BY <2>1
<1>5. Len(text) \in 0..Len(text) OBVIOUS
<1>6. QED BY <1>1, <1>4, <1>5

-----------------------------------------------------------------------------
(***************************************************************************)
(* The reference: where Place puts the tokens of a pattern.                *)
(***************************************************************************)
LEMMA Greatest ==
    ASSUME NEW N \in Nat, NEW S \in SUBSET (0..N), S # {}
    PROVE  \E n \in S : \A m \in S : n >= m
<1> DEFINE T == {N - x : x \in S}
<1>1. T \subseteq Nat /\ T # {}
    <2>1. \A x \in S : N - x \in Nat OBVIOUS
    <2>2. QED BY <2>1
<1>2. PICK y \in T : \A z \in T : y <= z
    <2> HIDE DEF T
    <2> QED BY <1>1, Least
<1>3. PICK n \in S : y = N - n OBVIOUS
<1>4. ASSUME NEW m \in S PROVE n >= m
    <2>1. y <= N - m BY <1>2
    <2>2. QED BY <1>3, <2>1
<1>5. QED BY <1>4

LEMMA MaxStar ==
    ASSUME NEW N \in Nat, NEW S \in SUBSET (0..N), S # {}
    PROVE  Max(S) \in S /\ \A m \in S : Max(S) >= m
BY Greatest DEF Max

LEMMA PlaceSteps ==
    ASSUME NEW N \in Nat, NEW stars \in SUBSET (1..N), NEW end \in [stars -> Nat]
    PROVE  /\ Place(stars, end, 0) = 0
           /\ \A i \in stars : Place(stars, end, i) = end[i]
           /\ \A i \in (1..N) \ stars : Place(stars, end, i) = Place(stars, end, i - 1) + 1
<1>0. \A s \in stars : s \in 1..N /\ s \in Nat /\ s > 0 OBVIOUS
<1>1. Place(stars, end, 0) = 0
    <2>1. StarsUpTo(stars, 0) = {}
        <3>1. \A s \in stars : ~(s <= 0) BY <1>0
        <3>2. QED BY <3>1, Zenon DEF StarsUpTo
    <2>2. QED BY <2>1 DEF Place
<1>2. ASSUME NEW i \in stars PROVE Place(stars, end, i) = end[i]
    <2>1. i \in StarsUpTo(stars, i) /\ StarsUpTo(stars, i) \subseteq 0..N /\ \A m \in StarsUpTo(stars, i) : m <= i
        <3>1. i <= i BY <1>0
        <3>2. stars \subseteq 0..N OBVIOUS
        <3>3. QED BY <3>1, <3>2, Zenon DEF StarsUpTo
    <2>2. Max(StarsUpTo(stars, i)) = i
        <3> DEFINE S == StarsUpTo(stars, i)
                   x == Max(S)
        <3>1. x \in S /\ \A m \in S : x >= m
            <4> HIDE DEF S
            <4> QED BY <2>1, MaxStar DEF S
        <3> HIDE DEF S, x
        <3>2. x <= i /\ x >= i /\ x \in Nat BY <2>1, <3>1 DEF S
        <3>3. x = i BY <3>2
        <3>4. QED BY <3>3 DEF S, x
    <2>3. QED BY <2>1, <2>2 DEF Place
<1>3. ASSUME NEW i \in (1..N) \ stars PROVE Place(stars, end, i) = Place(stars, end, i - 1) + 1
    <2> DEFINE S == StarsUpTo(stars, i)
               x == Max(S)
    <2>1. StarsUpTo(stars, i - 1) = S
        <3>1. \A s \in stars : s <= i - 1 <=> s <= i BY <1>0
        <3>2. QED BY <3>1 DEF StarsUpTo
    <2>2. CASE S = {} BY <2>1, <2>2 DEF Place
    <2>3. CASE S # {}
        <3>1. S \subseteq 0..N /\ S \subseteq stars
            <4>1. stars \subseteq 0..N OBVIOUS
            <4>2. QED BY <4>1, Zenon DEF StarsUpTo
        <3>2. x \in S
            <4> HIDE DEF S
            <4> QED BY <2>3, <3>1, MaxStar
        <3>3. Place(stars, end, i) = end[x] + (i - x) /\ Place(stars, end, i - 1) = end[x] + ((i - 1) - x)
            BY <2>1, <2>3 DEF Place
        <3> HIDE DEF x, S
        <3>4. end[x] \in Nat /\ x \in Nat BY <3>1, <3>2
        <3>5. QED BY <3>3, <3>4
    <2>4. QED BY <2>2, <2>3
<1>4. QED BY <1>1, <1>2, <1>3

\* The pattern like_pattern makes of a text.
PatternOf(t) == [i \in DOMAIN t |-> IF t[i] = "*" THEN Wildcard ELSE Literal(t[i])]

LEMMA PatternSteps ==
    ASSUME NEW t, NEW i \in DOMAIN t, NEW text, NEW x \in Nat, NEW y \in Nat
    PROVE  Step(PatternOf(t)[i], text, x, y) <=> IF t[i] = "*" THEN x <= y ELSE y = x + 1 /\ text[y] = t[i]
<1>1. PatternOf(t)[i] = IF t[i] = "*" THEN Wildcard ELSE Literal(t[i]) BY DEF PatternOf
<1>2. CASE t[i] = "*"
    <2>1. PatternOf(t)[i].kind = "Wildcard" BY <1>1, <1>2 DEF Wildcard
    <2>2. QED BY <1>2, <2>1 DEF Step
<1>3. CASE t[i] # "*"
    <2>1. PatternOf(t)[i].kind = "Literal" /\ PatternOf(t)[i].text = t[i] BY <1>1, <1>3 DEF Literal
    <2>2. QED BY <1>3, <2>1 DEF Step
<1>4. QED BY <1>2, <1>3

\* A walk through the text gives the stars their stretches, and the other way round.
LEMMA WalkCovers ==
    ASSUME NEW t, NEW text, NEW S, t \in Seq(S), text \in Seq(S), NEW g, Walk(PatternOf(t), text, Len(t), g), g[Len(t)] = Len(text)
    PROVE  Covers(t, text)
<1> DEFINE N == Len(t)
           stars == {i \in DOMAIN t : t[i] = "*"}
           end == [s \in stars |-> g[s]]
<1>1. N \in Nat /\ DOMAIN t = 1..N /\ Len(text) \in Nat /\ DOMAIN text = 1..Len(text) OBVIOUS
<1>2. g \in [0..N -> 0..Len(text)] /\ g[0] = 0 BY DEF Walk
<1>3. stars \subseteq 1..N /\ end \in [stars -> 0..Len(text)] /\ end \in [stars -> Nat] BY <1>1, <1>2
<1>4. ASSUME NEW i \in 1..N
      PROVE  IF t[i] = "*" THEN g[i - 1] <= g[i] ELSE g[i] = g[i - 1] + 1 /\ text[g[i]] = t[i]
    <2>1. g[i - 1] \in Nat /\ g[i] \in Nat BY <1>2
    <2>2. Step(PatternOf(t)[i], text, g[i - 1], g[i]) BY DEF Walk
    <2>3. QED BY <1>1, <2>1, <2>2, PatternSteps
<1>5. /\ Place(stars, end, 0) = 0
      /\ \A i \in stars : Place(stars, end, i) = end[i]
      /\ \A i \in (1..N) \ stars : Place(stars, end, i) = Place(stars, end, i - 1) + 1
    <2>1. N \in Nat /\ stars \in SUBSET (1..N) /\ end \in [stars -> Nat] BY <1>1, <1>3
    <2> HIDE DEF stars, end, N
    <2>2. QED BY <2>1, PlaceSteps, Zenon
<1> DEFINE G == {i \in 0..N : Place(stars, end, i) = g[i]}
<1>6. 0 \in G BY <1>1, <1>2, <1>5
<1>7. ASSUME NEW i \in 1..N, i - 1 \in G PROVE i \in G
    <2>1. CASE i \in stars
        <3>1. Place(stars, end, i) = end[i] BY <1>5, <2>1
        <3>2. end[i] = g[i] BY <2>1
        <3>3. QED BY <3>1, <3>2
    <2>2. CASE i \notin stars
        <3>1. t[i] # "*" BY <1>1, <2>2
        <3>2. g[i] = g[i - 1] + 1 BY <1>4, <3>1
        <3>3. Place(stars, end, i) = Place(stars, end, i - 1) + 1 BY <1>5, <2>2
        <3>4. QED BY <1>7, <3>2, <3>3
    <2>3. QED BY <2>1, <2>2
<1>8. \A i \in 0..N : Place(stars, end, i) = g[i]
    <2>1. 0..N \subseteq G
        <3> HIDE DEF G
        <3> QED BY <1>1, <1>6, <1>7, Induct
    <2>2. QED BY <2>1
<1>9. Place(stars, end, N) = Len(text) BY <1>1, <1>8
<1>10. ASSUME NEW i \in DOMAIN t
       PROVE  IF i \in stars THEN Place(stars, end, i - 1) <= end[i]
              ELSE Place(stars, end, i) \in DOMAIN text /\ text[Place(stars, end, i)] = t[i]
    <2>1. i \in 1..N /\ i \in 0..N /\ i - 1 \in 0..N BY <1>1
    <2>2. Place(stars, end, i - 1) = g[i - 1] /\ Place(stars, end, i) = g[i] BY <1>8, <2>1
    <2>3. CASE i \in stars
        <3>1. end[i] = g[i] /\ t[i] = "*" BY <2>3
        <3>2. QED BY <1>4, <2>1, <2>2, <2>3, <3>1
    <2>4. CASE i \notin stars
        <3>1. g[i] = g[i - 1] + 1 /\ text[g[i]] = t[i] BY <1>4, <2>1, <2>4
        <3>2. g[i] \in 1..Len(text) BY <1>1, <1>2, <2>1, <3>1
        <3>3. QED BY <1>1, <2>2, <2>4, <3>1, <3>2
    <2>5. QED BY <2>3, <2>4
<1>11. QED
    <2> HIDE DEF end
    <2> QED BY <1>3, <1>9, <1>10 DEF Covers

LEMMA CoversWalk ==
    ASSUME NEW t, NEW text, NEW S, t \in Seq(S), text \in Seq(S), Covers(t, text)
    PROVE  \E g : Walk(PatternOf(t), text, Len(t), g) /\ g[Len(t)] = Len(text)
<1> DEFINE N == Len(t)
           stars == {i \in DOMAIN t : t[i] = "*"}
<1>1. N \in Nat /\ DOMAIN t = 1..N /\ Len(text) \in Nat /\ DOMAIN text = 1..Len(text) OBVIOUS
<1>2. PICK end \in [stars -> 0..Len(text)] :
          /\ Place(stars, end, N) = Len(text)
          /\ \A i \in DOMAIN t :
                IF i \in stars THEN Place(stars, end, i - 1) <= end[i]
                ELSE Place(stars, end, i) \in DOMAIN text /\ text[Place(stars, end, i)] = t[i]
    BY DEF Covers
<1>3. stars \subseteq 1..N /\ end \in [stars -> Nat] BY <1>1, <1>2
<1>4. /\ Place(stars, end, 0) = 0
      /\ \A i \in stars : Place(stars, end, i) = end[i]
      /\ \A i \in (1..N) \ stars : Place(stars, end, i) = Place(stars, end, i - 1) + 1
    <2>1. N \in Nat /\ stars \in SUBSET (1..N) /\ end \in [stars -> Nat] BY <1>1, <1>3
    <2> HIDE DEF stars, N
    <2>2. QED BY <2>1, PlaceSteps, Zenon
<1> DEFINE g == [i \in 0..N |-> Place(stars, end, i)]
<1>5. ASSUME NEW i \in 0..N PROVE Place(stars, end, i) \in 0..Len(text)
    <2>1. CASE i = 0 BY <1>1, <1>4, <2>1
    <2>2. CASE i \in stars BY <1>2, <1>4, <2>2
    <2>3. CASE i # 0 /\ i \notin stars
        <3>1. i \in DOMAIN t BY <1>1, <2>3
        <3>2. Place(stars, end, i) \in DOMAIN text BY <1>2, <2>3, <3>1
        <3>3. QED BY <1>1, <3>2
    <2>4. QED BY <2>1, <2>2, <2>3
<1>6. g \in [0..N -> 0..Len(text)] BY <1>5
<1>7. g[0] = 0 BY <1>1, <1>4
<1>8. ASSUME NEW i \in 1..N PROVE Step(PatternOf(t)[i], text, g[i - 1], g[i])
    <2>1. i - 1 \in 0..N /\ i \in 0..N /\ i \in DOMAIN t BY <1>1
    <2>2. g[i - 1] = Place(stars, end, i - 1) /\ g[i] = Place(stars, end, i) BY <2>1
    <2>3. g[i - 1] \in Nat /\ g[i] \in Nat BY <1>6, <2>1
    <2>4. CASE i \in stars
        <3>1. t[i] = "*" BY <2>4
        <3>2. Place(stars, end, i - 1) <= end[i] /\ Place(stars, end, i) = end[i] BY <1>2, <1>4, <2>1, <2>4
        <3> HIDE DEF g
        <3>3. QED BY <2>1, <2>2, <2>3, <3>1, <3>2, PatternSteps
    <2>5. CASE i \notin stars
        <3>1. t[i] # "*" BY <2>1, <2>5
        <3>2. text[Place(stars, end, i)] = t[i] BY <1>2, <2>1, <2>5
        <3>3. Place(stars, end, i) = Place(stars, end, i - 1) + 1 BY <1>4, <2>5
        <3> HIDE DEF g
        <3>4. QED BY <2>1, <2>2, <2>3, <3>1, <3>2, <3>3, PatternSteps
    <2>6. QED BY <2>4, <2>5
<1>9. g[N] = Len(text) BY <1>1, <1>2
<1>10. QED
    <2> HIDE DEF g
    <2> QED BY <1>6, <1>7, <1>8, <1>9 DEF Walk

\* A path is like the pattern of a resource exactly when the resource covers it,
\* with any number of stars.
THEOREM LikeFaithful ==
    ASSUME NEW resource \in Path, NEW path \in Path
    PROVE  CedarLike(like_pattern(resource), PathText(path)) <=> Covers(PathText(resource), PathText(path))
<1> DEFINE t == PathText(resource)
           text == PathText(path)
           pattern == PatternOf(t)
<1>1. t \in Seq(Token) /\ text \in Seq(Token) /\ Len(t) \in Nat /\ Len(text) \in Nat BY PathTextType
<1>2. like_pattern(resource) = pattern BY DEF like_pattern, PatternOf
<1>3. Len(pattern) = Len(t)
    <2> HIDE DEF t
    <2>1. DOMAIN t = 1..Len(t) BY <1>1
    <2>2. pattern \in Seq({pattern[i] : i \in 1..Len(t)}) /\ Len(pattern) = Len(t) BY <1>1, <2>1 DEF PatternOf
    <2>3. QED BY <2>2
<1> HIDE DEF t, text, pattern
<1>4. CedarLike(pattern, text) <=> \E g : Walk(pattern, text, Len(t), g) /\ g[Len(t)] = Len(text)
    BY <1>1, <1>3, LikeIsWalk
<1>5. (\E g : Walk(pattern, text, Len(t), g) /\ g[Len(t)] = Len(text)) => Covers(t, text)
    BY <1>1, WalkCovers DEF pattern
<1>6. Covers(t, text) => \E g : Walk(pattern, text, Len(t), g) /\ g[Len(t)] = Len(text)
    BY <1>1, CoversWalk DEF pattern
<1>7. QED BY <1>2, <1>4, <1>5, <1>6 DEF t, text

-----------------------------------------------------------------------------
(***************************************************************************)
(* The entity graph of a request.  The schema accepts it, so the request   *)
(* never loses its entities; and the entity the request is about is the    *)
(* one with the whole path.                                                *)
(***************************************************************************)
ResourceType == {"Service", "Package", "Table", "Column", "Query", "View"}

LEMMA SegmentType == \A seg : segment_entity_type(seg) \in ResourceType
BY DEF segment_entity_type, ResourceType

LEMMA PathParts ==
    ASSUME NEW path \in Path
    PROVE  /\ Len(path) \in Nat /\ Len(path) > 0 /\ DOMAIN path = 1..Len(path)
           /\ Len(path) \in DOMAIN path
           /\ \A i \in DOMAIN path : path[i] \in Segment
           /\ SubSeq(path, 1, Len(path)) = path
           /\ \A i \in DOMAIN path : SubSeq(path, 1, i) \in Path /\ Len(SubSeq(path, 1, i)) = i
<1>1. path \in Seq(Segment) /\ path # <<>> BY DEF Path
<1>2. Len(path) \in Nat /\ DOMAIN path = 1..Len(path) /\ Len(path) > 0 BY <1>1
<1>3. \A i \in DOMAIN path : path[i] \in Segment BY <1>1
<1>4. SubSeq(path, 1, Len(path)) = path BY <1>1
<1>5. ASSUME NEW i \in DOMAIN path PROVE SubSeq(path, 1, i) \in Path /\ Len(SubSeq(path, 1, i)) = i
    <2>1. SubSeq(path, 1, i) \in Seq(Segment) /\ Len(SubSeq(path, 1, i)) = i BY <1>1, <1>2
    <2>2. QED BY <1>2, <2>1 DEF Path
<1>6. QED BY <1>2, <1>3, <1>4, <1>5

\* Two resources with one uid have as many segments.
LEMMA UidLength ==
    ASSUME NEW p \in Path, NEW q \in Path, resource_uid(p) = resource_uid(q)
    PROVE  Len(p) = Len(q) /\ entity_type(p) = entity_type(q) /\ \A i \in DOMAIN p : p[i].id = q[i].id
<1>1. DOMAIN p = 1..Len(p) /\ DOMAIN q = 1..Len(q) /\ Len(p) \in Nat /\ Len(q) \in Nat BY PathParts
<1>2. entity_type(p) = entity_type(q) /\ entity_id(p) = entity_id(q) BY DEF resource_uid
<1>3. DOMAIN entity_id(p) = DOMAIN p /\ DOMAIN entity_id(q) = DOMAIN q BY DEF entity_id
<1>4. 1..Len(p) = 1..Len(q) BY <1>1, <1>2, <1>3
<1>5. Len(p) = Len(q)
    <2> DEFINE m == Len(p)
               n == Len(q)
    <2>1. m \in Nat /\ n \in Nat /\ m > 0 /\ n > 0 BY PathParts
    <2>2. 1..m = 1..n BY <1>4
    <2> HIDE DEF m, n
    <2>3. m \in 1..m /\ n \in 1..n BY <2>1
    <2>4. m \in 1..n /\ n \in 1..m BY <2>2, <2>3, Zenon
    <2>5. m = n BY <2>1, <2>4
    <2>6. QED BY <2>5 DEF m, n
<1>6. ASSUME NEW i \in DOMAIN p PROVE p[i].id = q[i].id
    <2>1. i \in DOMAIN q BY <1>1, <1>5
    <2>2. entity_id(p)[i] = p[i].id /\ entity_id(q)[i] = q[i].id BY <2>1 DEF entity_id
    <2>3. QED BY <1>2, <2>2
<1>7. QED BY <1>2, <1>5, <1>6

Entities(user, roles, path) == build_resource_chain(path) \cup {build_user_entity(user, roles)}

LEMMA ChainParts ==
    ASSUME NEW path \in Path, NEW e \in build_resource_chain(path)
    PROVE  \E i \in DOMAIN path :
              /\ e.uid = resource_uid(SubSeq(path, 1, i)) /\ e.path = PathText(SubSeq(path, 1, i))
              /\ \A par \in e.parents : i > 1 /\ allows_parent(entity_type(SubSeq(path, 1, i)), par[1])
<1> DEFINE upto(i) == SubSeq(path, 1, i)
<1>1. PICK i \in DOMAIN path :
        e = [uid |-> resource_uid(upto(i)), path |-> PathText(upto(i)),
             parents |-> IF i > 1 /\ allows_parent(entity_type(upto(i)), entity_type(upto(i - 1)))
                         THEN {resource_uid(upto(i - 1))} ELSE {}]
    BY DEF build_resource_chain
<1>2. e.uid = resource_uid(upto(i)) /\ e.path = PathText(upto(i)) BY <1>1
<1>3. ASSUME NEW par \in e.parents PROVE i > 1 /\ allows_parent(entity_type(upto(i)), par[1])
    <2>1. i > 1 /\ allows_parent(entity_type(upto(i)), entity_type(upto(i - 1))) /\ par = resource_uid(upto(i - 1))
        BY <1>1, <1>3
    <2>2. par[1] = entity_type(upto(i - 1)) BY <2>1 DEF resource_uid
    <2>3. QED BY <2>1, <2>2
<1>4. QED BY <1>2, <1>3

LEMMA GraphAccepted ==
    ASSUME NEW user, NEW roles, NEW path \in Path
    PROVE  from_entities(Entities(user, roles, path)) = Entities(user, roles, path)
<1>1. ASSUME NEW e \in build_resource_chain(path), NEW par \in e.parents PROVE par[1] \in SchemaParents(e.uid[1])
    <2>1. PICK i \in DOMAIN path : /\ e.uid = resource_uid(SubSeq(path, 1, i))
                                   /\ allows_parent(entity_type(SubSeq(path, 1, i)), par[1])
        BY ChainParts
    <2>2. e.uid[1] = entity_type(SubSeq(path, 1, i)) BY <2>1 DEF resource_uid
    <2>3. allows_parent(e.uid[1], par[1]) BY <2>1, <2>2
    <2>4. QED BY <2>3 DEF allows_parent, SchemaParents
<1>2. ASSUME NEW par \in build_user_entity(user, roles).parents
      PROVE  par[1] \in SchemaParents(build_user_entity(user, roles).uid[1])
    <2>1. par[1] = "Role" BY DEF build_user_entity
    <2>2. build_user_entity(user, roles).uid[1] = "User" BY DEF build_user_entity
    <2>3. QED BY <2>1, <2>2 DEF SchemaParents
<1>3. QED BY <1>1, <1>2 DEF from_entities, Entities

LEMMA UserFound ==
    ASSUME NEW user, NEW roles, NEW path \in Path, NEW id
    PROVE  (\E e \in Entities(user, roles, path) : e.uid = <<"User", user>> /\ <<"Role", id>> \in e.parents) <=> id \in roles
<1> DEFINE me == build_user_entity(user, roles)
<1>1. me.uid = <<"User", user>> /\ (<<"Role", id>> \in me.parents <=> id \in roles) BY DEF build_user_entity
<1>2. ASSUME NEW e \in build_resource_chain(path) PROVE e.uid # <<"User", user>>
    <2>1. PICK i \in DOMAIN path : e.uid = resource_uid(SubSeq(path, 1, i)) BY ChainParts
    <2>2. e.uid[1] \in ResourceType BY <2>1, SegmentType DEF resource_uid, entity_type
    <2>3. QED BY <2>2 DEF ResourceType
<1> HIDE DEF me
<1>3. QED BY <1>1, <1>2 DEF Entities, me

LEMMA ResourceFound ==
    ASSUME NEW user, NEW roles, NEW path \in Path, NEW pattern
    PROVE  (\E e \in Entities(user, roles, path) : e.uid = resource_uid(path) /\ CedarLike(pattern, e.path))
               <=> CedarLike(pattern, PathText(path))
<1>1. ASSUME NEW e \in Entities(user, roles, path), e.uid = resource_uid(path) PROVE e.path = PathText(path)
    <2>1. CASE e \in build_resource_chain(path)
        <3>1. PICK i \in DOMAIN path : e.uid = resource_uid(SubSeq(path, 1, i)) /\ e.path = PathText(SubSeq(path, 1, i))
            BY <2>1, ChainParts
        <3>2. SubSeq(path, 1, i) \in Path /\ Len(SubSeq(path, 1, i)) = i BY PathParts
        <3>3. i = Len(path) BY <1>1, <3>1, <3>2, UidLength
        <3>4. QED BY <3>1, <3>3, PathParts
    <2>2. CASE e = build_user_entity(user, roles)
        <3>1. e.uid[1] = "User" BY <2>2 DEF build_user_entity
        <3>2. e.uid[1] \in ResourceType BY <1>1, SegmentType DEF resource_uid, entity_type
        <3>3. QED BY <3>1, <3>2 DEF ResourceType
    <2>3. QED BY <2>1, <2>2 DEF Entities
<1>2. \E e \in Entities(user, roles, path) : e.uid = resource_uid(path)
    <2> DEFINE n == Len(path)
               upto(i) == SubSeq(path, 1, i)
               whole == [uid |-> resource_uid(upto(n)), path |-> PathText(upto(n)),
                         parents |-> IF n > 1 /\ allows_parent(entity_type(upto(n)), entity_type(upto(n - 1)))
                                     THEN {resource_uid(upto(n - 1))} ELSE {}]
    <2>1. n \in DOMAIN path /\ upto(n) = path BY PathParts
    <2>2. whole \in build_resource_chain(path) BY <2>1 DEF build_resource_chain
    <2>3. whole.uid = resource_uid(path) BY <2>1
    <2>4. QED BY <2>2, <2>3 DEF Entities
<1>3. QED BY <1>1, <1>2

-----------------------------------------------------------------------------
(***************************************************************************)
(* An exact resource.  On the documented paths the uid, which keeps the    *)
(* kind of the last segment and the ids only, still tells all paths apart. *)
(***************************************************************************)
CanonicalPrefix == {"service", "package", "table", "column", "query", "view"}

LEMMA CanonicalPrefixes ==
    ASSUME NEW path \in Path, Canonical(path)
    PROVE  \A i \in DOMAIN path : path[i].pre \in CanonicalPrefix /\ (path[i].pre = "service" <=> i = 1)
<1>1. Len(path) \in Nat /\ Len(path) > 0 /\ DOMAIN path = 1..Len(path) BY PathParts
<1> DEFINE G == {i \in 0..Len(path) : i > 0 => path[i].pre \in CanonicalPrefix}
<1>2. 0 \in G BY <1>1
<1>3. ASSUME NEW i \in 1..Len(path), i - 1 \in G PROVE i \in G
    <2>1. CASE i = 1 BY <2>1 DEF Canonical, CanonicalPrefix
    <2>2. CASE i # 1
        <3>1. path[i - 1].pre \in CanonicalPrefix BY <1>3, <2>2
        <3>2. path[i - 1].pre = Under(path[i].pre) BY <2>2 DEF Canonical
        <3>3. path[i].pre \in CanonicalPrefix BY <3>1, <3>2 DEF CanonicalPrefix, Under
        <3>4. QED BY <3>3
    <2>3. QED BY <2>1, <2>2
<1>4. 0..Len(path) \subseteq G
    <2> HIDE DEF G
    <2> QED BY <1>1, <1>2, <1>3, Induct
<1>5. ASSUME NEW i \in DOMAIN path PROVE path[i].pre \in CanonicalPrefix BY <1>1, <1>4
<1>6. ASSUME NEW i \in DOMAIN path PROVE path[i].pre = "service" <=> i = 1
    <2>1. CASE i = 1 BY <2>1 DEF Canonical
    <2>2. CASE i # 1
        <3>1. i \in 2..Len(path) BY <1>1, <2>2
        <3>2. QED BY <2>2, <3>1 DEF Canonical
    <2>3. QED BY <2>1, <2>2
<1>7. QED BY <1>5, <1>6

LEMMA KindOfPrefix ==
    ASSUME NEW x, NEW y, x.pre \in CanonicalPrefix, y.pre \in CanonicalPrefix,
           segment_entity_type(x) = segment_entity_type(y)
    PROVE  x.pre = y.pre
BY DEF CanonicalPrefix, segment_entity_type

\* Two documented paths with one uid are one path.
THEOREM UidFaithful ==
    ASSUME NEW p \in Path, NEW q \in Path, Canonical(p), Canonical(q)
    PROVE  resource_uid(p) = resource_uid(q) <=> p = q
<1>1. SUFFICES ASSUME resource_uid(p) = resource_uid(q) PROVE p = q OBVIOUS
<1> DEFINE N == Len(p)
<1>2. N = Len(q) /\ entity_type(p) = entity_type(q) /\ \A i \in DOMAIN p : p[i].id = q[i].id BY <1>1, UidLength
<1>3. N \in Nat /\ N > 0 /\ DOMAIN p = 1..N /\ DOMAIN q = 1..N BY <1>2, PathParts
<1>4. \A i \in 1..N : p[i].pre \in CanonicalPrefix /\ q[i].pre \in CanonicalPrefix BY <1>3, CanonicalPrefixes
<1> DEFINE G == {k \in 0..N : k < N => p[N - k].pre = q[N - k].pre}
<1>5. 0 \in G
    <2>1. p[N].pre = q[N].pre BY <1>2, <1>3, <1>4, KindOfPrefix DEF entity_type
    <2>2. QED BY <1>3, <2>1
<1>6. ASSUME NEW k \in 1..N, k - 1 \in G PROVE k \in G
    <2>1. CASE k < N
        <3> DEFINE i == N - k + 1
        <3>1. i \in 2..N /\ i = N - (k - 1) /\ i - 1 = N - k BY <1>3, <2>1
        <3>2. p[i].pre = q[i].pre BY <1>6, <2>1, <3>1
        <3>3. p[i - 1].pre = Under(p[i].pre) /\ q[i - 1].pre = Under(q[i].pre) BY <1>2, <3>1 DEF Canonical
        <3> HIDE DEF i
        <3>4. p[N - k].pre = q[N - k].pre BY <3>1, <3>2, <3>3
        <3>5. QED BY <3>4
    <2>2. CASE ~(k < N) BY <2>2
    <2>3. QED BY <2>1, <2>2
<1>7. 0..N \subseteq G
    <2> HIDE DEF G, N
    <2> QED BY <1>3, <1>5, <1>6, Induct
<1>8. ASSUME NEW i \in 1..N PROVE p[i] = q[i]
    <2> DEFINE k == N - i
    <2>1. k \in 0..N /\ k < N /\ N - k = i BY <1>3
    <2>2. p[i].pre = q[i].pre
        <3> HIDE DEF k
        <3> QED BY <1>7, <2>1
    <2>3. p[i].id = q[i].id BY <1>2, <1>3
    <2>4. p[i] \in Segment /\ q[i] \in Segment BY <1>3, PathParts
    <2>5. QED BY <2>2, <2>3, <2>4 DEF Segment
<1>9. p \in Seq(Segment) /\ q \in Seq(Segment) BY DEF Path
<1>10. QED BY <1>2, <1>3, <1>8, <1>9

-----------------------------------------------------------------------------
(***************************************************************************)
(* One policy: it is satisfied by a request exactly when its principal is  *)
(* the user or one of the user's roles, its action is the action asked for *)
(* and its resource names the path.                                        *)
(***************************************************************************)
LEMMA FlattenOne ==
    ASSUME NEW s
    PROVE  FlattenSeq(<<s>>) = s
<1> DEFINE seqs == <<s>>
           f == CHOOSE f : f = [i \in 1..Len(seqs) |-> IF i = 1 THEN seqs[i] ELSE f[i - 1] \o seqs[i]]
<1>1. Len(seqs) = 1 /\ seqs[1] = s OBVIOUS
<1>2. FlattenSeq(seqs) = f[Len(seqs)] BY <1>1 DEF FlattenSeq
<1>3. \E h : h = [i \in 1..Len(seqs) |-> IF i = 1 THEN seqs[i] ELSE h[i - 1] \o seqs[i]]
    <2>1. Len(seqs) \in Nat BY <1>1
    <2> HIDE DEF seqs
    <2>2. QED BY <2>1, FlattenDefined, Zenon
<1>4. f = [i \in 1..Len(seqs) |-> IF i = 1 THEN seqs[i] ELSE f[i - 1] \o seqs[i]] BY <1>3
<1> HIDE DEF f
<1>5. f[1] = s BY <1>1, <1>4
<1>6. QED BY <1>1, <1>2, <1>5

LEMMA StarParts == DOMAIN Star = {1} /\ Star[1].pre = "" /\ Star[1].id = <<"*">>
<1> DEFINE x == Seg("", <<"*">>)
<1>1. x.pre = "" /\ x.id = <<"*">> BY DEF Seg
<1>2. Star = <<x>> BY DEF Star
<1> HIDE DEF x
<1>3. DOMAIN Star = 1..1 /\ Star[1] = x BY <1>2
<1>4. 1..1 = {1} OBVIOUS
<1>5. QED BY <1>1, <1>3, <1>4

LEMMA StarText == PathText(Star) = <<"*">>
<1>1. DOMAIN Star = {1} /\ Star[1].pre = "" /\ Star[1].id = <<"*">> BY StarParts
<1> DEFINE token(i) == (IF i = 1 THEN <<>> ELSE <<"/">>) \o (IF Star[i].pre = "" THEN <<>> ELSE <<Star[i].pre, ":">>) \o Star[i].id
<1>2. token(1) = <<"*">>
    <2> DEFINE e == <<"*">>
    <2>1. token(1) = <<>> \o <<>> \o e BY <1>1
    <2>2. e \in Seq({"*"}) OBVIOUS
    <2> HIDE DEF e
    <2>3. <<>> \o <<>> \o e = e BY <2>2
    <2>4. QED BY <2>1, <2>3 DEF e
<1>3. [i \in DOMAIN Star |-> token(i)] = <<<<"*">>>>
    <2> DEFINE e == <<"*">>
    <2> HIDE DEF token, e
    <2>1. [i \in {1} |-> token(i)] = [i \in {1} |-> e] BY <1>2 DEF e
    <2>2. [i \in {1} |-> e] = <<e>>
        <3>1. {1} = 1..1 OBVIOUS
        <3>2. QED BY <3>1
    <2>3. QED BY <1>1, <2>1, <2>2 DEF e
<1>4. PathText(Star) = FlattenSeq([i \in DOMAIN Star |-> token(i)]) BY DEF PathText
<1>5. QED BY <1>3, <1>4, FlattenOne

LEMMA StarNames ==
    ASSUME NEW path \in Path
    PROVE  is_wildcard(Star) /\ Names(Star, path)
<1>2. is_wildcard(Star)
    <2>1. DOMAIN Star = {1} /\ Star[1].id = <<"*">> BY StarParts
    <2>2. Contains(<<"*">>, "*") BY DEF Contains
    <2>3. QED BY <2>1, <2>2 DEF is_wildcard
<1> DEFINE t == <<"*">>
           text == PathText(path)
           g == [i \in 0..1 |-> IF i = 0 THEN 0 ELSE Len(text)]
<1>3. text \in Seq(Token) /\ Len(text) \in Nat BY PathTextType
<1>4. t \in Seq(Token \cup {"*"}) /\ text \in Seq(Token \cup {"*"}) /\ Len(t) = 1 /\ t[1] = "*" BY <1>3
<1>5. Walk(PatternOf(t), text, 1, g)
    <2> HIDE DEF t, text
    <2>1. g \in [0..1 -> 0..Len(text)] /\ g[0] = 0 /\ g[1] = Len(text) BY <1>3
    <2>2. 1 \in DOMAIN t BY <1>4
    <2> HIDE DEF g
    <2>3. Step(PatternOf(t)[1], text, g[0], g[1]) BY <1>3, <1>4, <2>1, <2>2, PatternSteps
    <2>4. ASSUME NEW i \in 1..1 PROVE Step(PatternOf(t)[i], text, g[i - 1], g[i])
        <3>1. i = 1 /\ i - 1 = 0 OBVIOUS
        <3>2. QED BY <2>3, <3>1
    <2>5. QED BY <2>1, <2>4 DEF Walk
<1>6. g[1] = Len(text) OBVIOUS
<1>7. Covers(t, text)
    <2> HIDE DEF t, text, g
    <2> QED BY <1>4, <1>5, <1>6, WalkCovers
<1>8. QED
    <2>1. Names(Star, path) BY <1>2, <1>7, StarText DEF Names
    <2>2. QED BY <1>2, <2>1

\* Principal pr is the user, one of the roles, or everyone.
IsMeant(pr, user, roles) == pr.pre = "*" \/ (pr.pre = "user" /\ pr.id = user) \/ (pr.pre = "role" /\ pr.id \in roles)

\* The clauses of a policy.
PrincipalHolds(principal, user, entities) ==
    \/ principal.op = "All"
    \/ principal.op = "==" /\ principal.uid = <<"User", user>>
    \/ principal.op = "in" /\ \E e \in entities : e.uid = <<"User", user>> /\ principal.uid \in e.parents
ResourceHolds(resource, conditions, uid, entities) ==
    /\ resource.op = "All" \/ resource.uid = uid
    /\ \A pattern \in conditions : \E e \in entities : e.uid = uid /\ CedarLike(pattern, e.path)

LEMMA PrincipalSpeaks ==
    ASSUME NEW pr \in Principal, NEW user, NEW roles, NEW path \in Path
    PROVE  PrincipalHolds(parse_principal(pr), user, Entities(user, roles, path)) <=> IsMeant(pr, user, roles)
<1> DEFINE principal == parse_principal(pr)
<1>1. pr.pre \in {"*", "role", "user"} BY DEF Principal
<1>2. CASE pr.pre = "*"
    <2>1. principal.op = "All" BY <1>2 DEF parse_principal
    <2>2. QED BY <1>2, <2>1 DEF IsMeant, PrincipalHolds
<1>3. CASE pr.pre = "role"
    <2>1. principal.op = "in" /\ principal.uid = <<"Role", pr.id>> BY <1>3 DEF parse_principal
    <2>2. (\E e \in Entities(user, roles, path) : e.uid = <<"User", user>> /\ <<"Role", pr.id>> \in e.parents) <=> pr.id \in roles
        BY UserFound
    <2> HIDE DEF principal
    <2>3. PrincipalHolds(principal, user, Entities(user, roles, path)) <=> pr.id \in roles BY <2>1, <2>2 DEF PrincipalHolds
    <2>4. QED BY <1>3, <2>3 DEF IsMeant, principal
<1>4. CASE pr.pre = "user"
    <2>1. principal.op = "==" /\ principal.uid = <<"User", pr.id>> BY <1>4 DEF parse_principal
    <2> HIDE DEF principal
    <2>2. PrincipalHolds(principal, user, Entities(user, roles, path)) <=> pr.id = user BY <2>1 DEF PrincipalHolds
    <2>3. QED BY <1>4, <2>2 DEF IsMeant, principal
<1>5. QED BY <1>1, <1>2, <1>3, <1>4

LEMMA ResourceSpeaks ==
    ASSUME NEW r \in Path, NEW user, NEW roles, NEW path \in Path
    PROVE  ResourceHolds(parse_resource(r), resource_like_condition(r), resource_uid(path), Entities(user, roles, path))
               <=> Names(r, path)
<1>1. CASE r = Star
    <2>1. parse_resource(r).op = "All" /\ resource_like_condition(r) = {}
        BY <1>1, StarNames DEF parse_resource, resource_like_condition
    <2>2. QED BY <1>1, <2>1, StarNames DEF ResourceHolds
<1>2. CASE r # Star /\ is_wildcard(r)
    <2>1. parse_resource(r).op = "All" /\ resource_like_condition(r) = {like_pattern(r)}
        BY <1>2 DEF parse_resource, resource_like_condition
    <2>2. (\E e \in Entities(user, roles, path) : e.uid = resource_uid(path) /\ CedarLike(like_pattern(r), e.path))
              <=> Covers(PathText(r), PathText(path))
        BY ResourceFound, LikeFaithful
    <2>3. QED BY <1>2, <2>1, <2>2 DEF Names, ResourceHolds
<1>3. CASE ~is_wildcard(r)
    <2>1. parse_resource(r).op = "==" /\ parse_resource(r).uid = resource_uid(r) /\ resource_like_condition(r) = {}
        BY <1>3 DEF parse_resource, resource_like_condition
    <2>2. QED BY <1>3, <2>1, UidFaithful DEF Names, ResourceHolds
<1>4. QED BY <1>1, <1>2, <1>3

LEMMA PolicySpeaks ==
    ASSUME NEW stmt, NEW pr \in Principal, NEW act, NEW r \in Path, NEW user, NEW roles, NEW action, NEW path \in Path
    PROVE  Satisfied(build_cedar_json(stmt, pr, act, r), user, action, resource_uid(path), Entities(user, roles, path))
               <=> act = action /\ IsMeant(pr, user, roles) /\ Names(r, path)
<1> DEFINE policy == build_cedar_json(stmt, pr, act, r)
<1>1. /\ policy.action = act /\ policy.principal = parse_principal(pr)
      /\ policy.resource = parse_resource(r) /\ policy.conditions = resource_like_condition(r)
    BY DEF build_cedar_json
<1> HIDE DEF policy
<1>2. Satisfied(policy, user, action, resource_uid(path), Entities(user, roles, path))
          <=> act = action /\ IsMeant(pr, user, roles) /\ Names(r, path)
    <2>1. Satisfied(policy, user, action, resource_uid(path), Entities(user, roles, path))
              <=> /\ policy.action = action
                  /\ PrincipalHolds(policy.principal, user, Entities(user, roles, path))
                  /\ ResourceHolds(policy.resource, policy.conditions, resource_uid(path), Entities(user, roles, path))
        BY DEF Satisfied, PrincipalHolds, ResourceHolds
    <2>2. QED BY <1>1, <2>1, PrincipalSpeaks, ResourceSpeaks
<1>3. QED BY <1>2 DEF policy

-----------------------------------------------------------------------------
(***************************************************************************)
(* The inductive invariant: a package registers the actions its tables     *)
(* give, and documents are sequences of statements.                        *)
(***************************************************************************)
Registered ==
    /\ registry = [p \in Range(PackageId) |-> registry[p]]
    /\ \A p \in Range(PackageId) :
          /\ registry[p].tables \subseteq Range(TableName)
          /\ \A t \in registry[p].tables : crud_action_names(t) \in registry[p].actions
Documented == doc \in Seq(Statements) /\ stored \in Seq(Seq(Statements))

LEMMA RegisteredInit == PoliciesInit => Registered /\ Documented
<1>1. SUFFICES ASSUME PoliciesInit PROVE Registered /\ Documented OBVIOUS
<1>2. registry = [p \in Range(PackageId) |-> [tables |-> {}, actions |-> {}]] BY <1>1 DEF PoliciesInit
<1>3. Registered BY <1>2 DEF Registered
<1>4. Documented BY <1>1 DEF PoliciesInit, Documented
<1>5. QED BY <1>3, <1>4

LEMMA RegisteredSync ==
    ASSUME Registered, NEW pkg \in Range(PackageId), NEW tables \in SUBSET Range(TableName), NEW ext, NEW custom,
           sync(pkg, tables, ext, custom)
    PROVE  Registered'
<1> DEFINE row == [tables |-> tables,
                   actions |-> {crud_action_names(t) : t \in tables} \cup {extensible_action_names(t) : t \in ext} \cup custom]
<1>1. registry = [p \in Range(PackageId) |-> registry[p]] BY DEF Registered
<1>2. registry' = [registry EXCEPT ![pkg] = row] BY DEF sync
<1>3. row.tables = tables /\ \A t \in tables : crud_action_names(t) \in row.actions OBVIOUS
<1> HIDE DEF row
<1>4. registry' = [p \in Range(PackageId) |-> IF p = pkg THEN row ELSE registry[p]] BY <1>1, <1>2
<1>5. registry' = [p \in Range(PackageId) |-> registry'[p]] BY <1>4
<1>6. ASSUME NEW p \in Range(PackageId)
      PROVE  /\ registry'[p].tables \subseteq Range(TableName)
             /\ \A t \in registry'[p].tables : crud_action_names(t) \in registry'[p].actions
    <2>1. CASE p = pkg
        <3>1. registry'[p] = row BY <1>4, <2>1
        <3>2. QED BY <1>3, <3>1
    <2>2. CASE p # pkg
        <3>1. registry'[p] = registry[p] BY <1>4, <2>2
        <3>2. QED BY <3>1 DEF Registered
    <2>3. QED BY <2>1, <2>2
<1>7. QED BY <1>5, <1>6 DEF Registered, crud_action_names

LEMMA RegisteredNext ==
    ASSUME Registered, Documented, [RegistryNext \/ DocumentsNext]_policyVars
    PROVE  Registered' /\ Documented'
<1>1. CASE RegistryNext
    <2>1. PICK p \in Range(PackageId), tables \in SUBSET Range(TableName), ext \in SUBSET ExtensibleTable, custom \in SUBSET CustomAction :
              sync(p, tables, ext, custom)
        BY <1>1 DEF RegistryNext
    <2>2. Registered' BY <2>1, RegisteredSync
    <2>3. doc' = doc /\ stored' = stored BY <2>1 DEF sync
    <2>4. QED BY <2>2, <2>3 DEF Documented
<1>2. ASSUME NEW stmt \in Statements, Write(stmt) PROVE Registered' /\ Documented'
    <2>1. registry' = registry /\ stored' = stored /\ doc' = Append(doc, stmt) BY <1>2 DEF Write
    <2>2. doc' \in Seq(Statements) BY <2>1 DEF Documented
    <2>3. QED BY <2>1, <2>2 DEF Registered, Documented
<1>3. CASE CreatePermissionDocument
    <2>1. registry' = registry /\ doc' = <<>> /\ (stored' = stored \/ stored' = Append(stored, doc))
        BY <1>3 DEF CreatePermissionDocument
    <2>2. doc' \in Seq(Statements) BY <2>1
    <2>3. stored' \in Seq(Seq(Statements)) BY <2>1 DEF Documented
    <2>4. QED BY <2>1, <2>2, <2>3 DEF Registered, Documented
<1>4. CASE UNCHANGED policyVars BY <1>4 DEF policyVars, Registered, Documented
<1>5. QED BY <1>1, <1>2, <1>3, <1>4 DEF DocumentsNext

LEMMA RegisteredAlways == PoliciesSpec => [](Registered /\ Documented)
<1>1. PoliciesInit => Registered /\ Documented BY RegisteredInit
<1>2. Registered /\ Documented /\ [RegistryNext \/ DocumentsNext]_policyVars => (Registered /\ Documented)'
    BY RegisteredNext
<1>3. QED BY <1>1, <1>2, PTL DEF PoliciesSpec

-----------------------------------------------------------------------------
(***************************************************************************)
(* The decision: the policies of the saved documents are the cells of      *)
(* their statements.                                                       *)
(***************************************************************************)
LEMMA CompiledCells ==
    ASSUME NEW d, NEW policy
    PROVE  policy \in compile(d).policies <=>
              \E i \in DOMAIN d : \E j \in DOMAIN d[i].principals, k \in DOMAIN d[i].actions, l \in DOMAIN d[i].resources :
                  policy = build_cedar_json(d[i], d[i].principals[j], d[i].actions[k], d[i].resources[l])
<1> DEFINE build(c) == build_cedar_json(d[c[1]], d[c[1]].principals[c[2]], d[c[1]].actions[c[3]], d[c[1]].resources[c[4]])
<1>1. compile(d).policies = {build(c) : c \in Cells(d)} BY DEF compile
<1>2. \A c : c \in Cells(d) <=> \E i \in DOMAIN d : \E j \in DOMAIN d[i].principals, k \in DOMAIN d[i].actions, l \in DOMAIN d[i].resources :
                                    c = <<i, j, k, l>>
    BY DEF Cells
<1>3. \A i, j, k, l : build(<<i, j, k, l>>) = build_cedar_json(d[i], d[i].principals[j], d[i].actions[k], d[i].resources[l])
    OBVIOUS
<1> HIDE DEF build
<1>4. ASSUME policy \in compile(d).policies
      PROVE  \E i \in DOMAIN d : \E j \in DOMAIN d[i].principals, k \in DOMAIN d[i].actions, l \in DOMAIN d[i].resources :
                 policy = build_cedar_json(d[i], d[i].principals[j], d[i].actions[k], d[i].resources[l])
    <2>1. PICK c \in Cells(d) : policy = build(c) BY <1>1, <1>4
    <2>2. PICK i \in DOMAIN d : \E j \in DOMAIN d[i].principals, k \in DOMAIN d[i].actions, l \in DOMAIN d[i].resources :
                                    c = <<i, j, k, l>>
        BY <1>2
    <2>3. QED BY <1>3, <2>1, <2>2
<1>5. ASSUME NEW i \in DOMAIN d, NEW j \in DOMAIN d[i].principals, NEW k \in DOMAIN d[i].actions, NEW l \in DOMAIN d[i].resources,
             policy = build_cedar_json(d[i], d[i].principals[j], d[i].actions[k], d[i].resources[l])
      PROVE  policy \in compile(d).policies
    <2>1. <<i, j, k, l>> \in Cells(d) BY <1>2
    <2>2. policy = build(<<i, j, k, l>>) BY <1>3, <1>5
    <2>3. QED BY <1>1, <2>1, <2>2
<1>6. QED BY <1>4, <1>5

\* A statement speaks about a request exactly when one of its policies is satisfied.
LEMMA StatementSpeaks ==
    ASSUME NEW stmt \in Statements, NEW user, NEW roles, NEW action, NEW path \in Path
    PROVE  Speaks(stmt, user, roles, action, path) <=>
              \E j \in DOMAIN stmt.principals, k \in DOMAIN stmt.actions, l \in DOMAIN stmt.resources :
                  Satisfied(build_cedar_json(stmt, stmt.principals[j], stmt.actions[k], stmt.resources[l]),
                            user, action, resource_uid(path), Entities(user, roles, path))
<1>1. stmt \in Statement BY PoliciesAssumption
<1>2. stmt.principals \in Seq(Principal) /\ stmt.resources \in Seq(Path) BY <1>1 DEF Statement
<1>3. /\ \A j \in DOMAIN stmt.principals : stmt.principals[j] \in Principal
      /\ \A l \in DOMAIN stmt.resources : stmt.resources[l] \in Path
    BY <1>2
<1>4. Speaks(stmt, user, roles, action, path) <=>
        /\ \E j \in DOMAIN stmt.principals : IsMeant(stmt.principals[j], user, roles)
        /\ \E k \in DOMAIN stmt.actions : stmt.actions[k] = action
        /\ \E l \in DOMAIN stmt.resources : Names(stmt.resources[l], path)
    BY DEF Speaks, IsMeant, Range
<1>5. \A j \in DOMAIN stmt.principals, k \in DOMAIN stmt.actions, l \in DOMAIN stmt.resources :
        Satisfied(build_cedar_json(stmt, stmt.principals[j], stmt.actions[k], stmt.resources[l]),
                  user, action, resource_uid(path), Entities(user, roles, path))
            <=> /\ stmt.actions[k] = action /\ IsMeant(stmt.principals[j], user, roles)
                /\ Names(stmt.resources[l], path)
    BY <1>3, PolicySpeaks
<1>6. QED BY <1>4, <1>5

\* The satisfied policies of an effect come from the statements of that effect that speak.
LEMMA EffectSpeaks ==
    ASSUME Documented, NEW user, NEW roles, NEW action, NEW path \in Path, NEW eff \in {"Allow", "Deny"}
    PROVE  (\E policy \in get_policy_set_for_roles :
               /\ policy.effect = (IF eff = "Allow" THEN "permit" ELSE "forbid")
               /\ Satisfied(policy, user, action, resource_uid(path), Entities(user, roles, path)))
           <=> \E s \in Saved : s.effect = eff /\ Speaks(s, user, roles, action, path)
<1> DEFINE Sat(policy) == Satisfied(policy, user, action, resource_uid(path), Entities(user, roles, path))
           word(e) == IF e = "Allow" THEN "permit" ELSE "forbid"
<1>1. \A n \in DOMAIN stored : \A i \in DOMAIN stored[n] : stored[n][i] \in Statements BY DEF Documented
<1>2. \A s \in Statements : s.effect \in {"Allow", "Deny"} BY PoliciesAssumption DEF Statement
<1>3. \A stmt, pr, act, r : build_cedar_json(stmt, pr, act, r).effect = word(stmt.effect) BY DEF build_cedar_json
<1>4. ASSUME NEW policy \in get_policy_set_for_roles, policy.effect = word(eff), Sat(policy)
      PROVE  \E s \in Saved : s.effect = eff /\ Speaks(s, user, roles, action, path)
    <2>1. PICK n \in DOMAIN stored : policy \in compile(stored[n]).policies BY DEF get_policy_set_for_roles
    <2> DEFINE d == stored[n]
    <2>2. PICK i \in DOMAIN d : \E j \in DOMAIN d[i].principals, k \in DOMAIN d[i].actions, l \in DOMAIN d[i].resources :
              policy = build_cedar_json(d[i], d[i].principals[j], d[i].actions[k], d[i].resources[l])
        BY <2>1, CompiledCells
    <2>3. d[i] \in Statements /\ d[i] \in Saved BY <1>1 DEF Saved, Range
    <2> HIDE DEF d
    <2>4. d[i].effect = eff BY <1>2, <1>3, <1>4, <2>2, <2>3
    <2>5. Speaks(d[i], user, roles, action, path)
        <3> HIDE DEF word
        <3> QED BY <1>4, <2>2, <2>3, StatementSpeaks
    <2>6. QED BY <2>3, <2>4, <2>5
<1>5. ASSUME NEW s \in Saved, s.effect = eff, Speaks(s, user, roles, action, path)
      PROVE  \E policy \in get_policy_set_for_roles : policy.effect = word(eff) /\ Sat(policy)
    <2>1. PICK n \in DOMAIN stored : \E i \in DOMAIN stored[n] : s = stored[n][i] BY DEF Saved, Range
    <2>2. s \in Statements BY <1>1, <2>1
    <2>3. PICK j \in DOMAIN s.principals, k \in DOMAIN s.actions, l \in DOMAIN s.resources :
              Sat(build_cedar_json(s, s.principals[j], s.actions[k], s.resources[l]))
        BY <1>5, <2>2, StatementSpeaks
    <2> DEFINE policy == build_cedar_json(s, s.principals[j], s.actions[k], s.resources[l])
    <2>4. policy \in compile(stored[n]).policies BY <2>1, CompiledCells
    <2>5. policy \in get_policy_set_for_roles BY <2>4 DEF get_policy_set_for_roles
    <2>6. policy.effect = word(eff) BY <1>3, <1>5
    <2> HIDE DEF policy, Sat, word
    <2>7. QED BY <2>3, <2>5, <2>6 DEF policy
<1>6. QED BY <1>4, <1>5

\* The schema declares an action for a kind of resource exactly when it is known there.
LEMMA SchemaKnows ==
    ASSUME Registered, NEW action, NEW path \in Path
    PROVE  entity_type(path) \in build_schema_str(action) <=> Known(action, path)
<1> DEFINE last == path[Len(path)]
<1>1. entity_type(path) = segment_entity_type(last) BY DEF entity_type
<1>2. DOMAIN registry = Range(PackageId) BY DEF Registered
<1>3. CASE action = Word("run")
    <2>1. build_schema_str(action) = {"Query"} BY <1>3 DEF build_schema_str, QUERY_ACTIONS
    <2>2. Known(action, path) <=> last.pre = "query"
        <3>1. action \notin {Word("get"), Word("refresh")} BY <1>3 DEF Word
        <3>2. QED BY <1>3, <3>1 DEF Known
    <2>3. segment_entity_type(last) = "Query" <=> last.pre = "query" BY DEF segment_entity_type
    <2>4. QED BY <1>1, <2>1, <2>2, <2>3
<1>4. CASE action \in {Word("get"), Word("refresh")}
    <2>1. action # Word("run") BY <1>4 DEF Word
    <2>2. build_schema_str(action) = {"View"} BY <1>4, <2>1 DEF build_schema_str, QUERY_ACTIONS, VIEW_ACTIONS
    <2>3. Known(action, path) <=> last.pre = "view" BY <1>4, <2>1 DEF Known
    <2>4. segment_entity_type(last) = "View" <=> last.pre = "view" BY DEF segment_entity_type
    <2>5. QED BY <1>1, <2>2, <2>3, <2>4
<1>5. CASE action # Word("run") /\ action \notin {Word("get"), Word("refresh")}
    <2>1. Known(action, path) <=> \E p \in DOMAIN registry : action \in registry[p].actions BY <1>5 DEF Known
    <2>2. (\E p \in DOMAIN registry : action \in registry[p].actions \/ \E t \in registry[p].tables : action = crud_action_names(t))
              <=> \E p \in DOMAIN registry : action \in registry[p].actions
        BY <1>2 DEF Registered
    <2>3. build_schema_str(action) = IF \E p \in DOMAIN registry : action \in registry[p].actions THEN ResourceType ELSE {}
        BY <1>5, <2>2 DEF build_schema_str, QUERY_ACTIONS, VIEW_ACTIONS, ResourceType
    <2>4. entity_type(path) \in ResourceType BY <1>1, SegmentType
    <2>5. QED BY <2>1, <2>3, <2>4
<1>6. QED BY <1>3, <1>4, <1>5

\* The decision on a request is the one the statements of the saved documents
\* spell out, for every set of documents, resource with any number of stars,
\* registry and request.
THEOREM DecisionsAreFaithful == PoliciesSpec => []DecisionFaithful
<1>1. ASSUME Registered, Documented PROVE DecisionFaithful
    <2> SUFFICES ASSUME NEW user \in RequestUser, NEW roles \in RequestRoles, NEW action \in RequestAction, NEW path \in RequestPath
        PROVE  authorize(user, roles, action, path, get_policy_set_for_roles) <=>
                   /\ Known(action, path)
                   /\ \E s \in Saved : s.effect = "Allow" /\ Speaks(s, user, roles, action, path)
                   /\ \A s \in Saved : s.effect = "Deny" => ~Speaks(s, user, roles, action, path)
        BY DEF DecisionFaithful
    <2> DEFINE Sat(policy) == Satisfied(policy, user, action, resource_uid(path), Entities(user, roles, path))
    <2>1. path \in Path BY PoliciesAssumption
    <2>2. from_entities(build_resource_chain(path) \cup {build_user_entity(user, roles)}) = Entities(user, roles, path)
        BY <2>1, GraphAccepted DEF Entities
    <2>3. authorize(user, roles, action, path, get_policy_set_for_roles) <=>
              /\ entity_type(path) \in build_schema_str(action)
              /\ \E p \in get_policy_set_for_roles : p.effect = "permit" /\ Sat(p)
              /\ ~\E p \in get_policy_set_for_roles : p.effect = "forbid" /\ Sat(p)
        BY <2>2 DEF authorize
    <2>4. (\E p \in get_policy_set_for_roles : p.effect = "permit" /\ Sat(p))
              <=> \E s \in Saved : s.effect = "Allow" /\ Speaks(s, user, roles, action, path)
        BY <1>1, <2>1, EffectSpeaks
    <2>5. (\E p \in get_policy_set_for_roles : p.effect = "forbid" /\ Sat(p))
              <=> \E s \in Saved : s.effect = "Deny" /\ Speaks(s, user, roles, action, path)
        BY <1>1, <2>1, EffectSpeaks
    <2> HIDE DEF Sat
    <2>6. QED BY <1>1, <2>1, <2>3, <2>4, <2>5, SchemaKnows
<1>2. QED BY <1>1, RegisteredAlways, PTL

-----------------------------------------------------------------------------
(***************************************************************************)
(* The actions of a scope.  First the scope: what parse_resource_scope     *)
(* reads is the innermost segment, of which there is at most one.          *)
(***************************************************************************)
LEMMA InnermostOnce ==
    ASSUME NEW path \in Path, NEW pre
    PROVE  /\ parse_resource_scope(path, pre) = {path[i].id : i \in Innermost(path, pre)}
           /\ \A i, j \in Innermost(path, pre) : i = j
<1>1. Len(path) \in Nat /\ DOMAIN path = 1..Len(path) BY PathParts
<1>2. ASSUME NEW i \in DOMAIN path
      PROVE  (\A j \in (i + 1)..Len(path) : path[j].pre # pre) <=> ~\E j \in DOMAIN path : j > i /\ path[j].pre = pre
    <2>1. \A j : j \in (i + 1)..Len(path) <=> j \in DOMAIN path /\ j > i BY <1>1
    <2>2. QED BY <2>1
<1>3. {i \in DOMAIN path : path[i].pre = pre /\ \A j \in (i + 1)..Len(path) : path[j].pre # pre} = Innermost(path, pre)
    BY <1>2 DEF Innermost
<1>4. parse_resource_scope(path, pre) = {path[i].id : i \in Innermost(path, pre)}
    BY <1>3 DEF parse_resource_scope
<1>5. ASSUME NEW i \in Innermost(path, pre), NEW j \in Innermost(path, pre) PROVE i = j
    <2>1. i \in Nat /\ j \in Nat BY <1>1 DEF Innermost
    <2>2. ~(j > i) /\ ~(i > j) BY DEF Innermost
    <2>3. QED BY <2>1, <2>2
<1>6. QED BY <1>4, <1>5

LEMMA ScopeRead ==
    ASSUME NEW path \in Path, NEW p \in Range(PackageId), NEW t
    PROVE  /\ Includes(parse_resource_scope(path, "package"), p) <=> p \in PackagesInScope(path)
           /\ (parse_resource_scope(path, "package") = {} \/ Includes(parse_resource_scope(path, "table"), t))
                  <=> TableInScope(path, t)
<1>1. ASSUME NEW pre, NEW id
      PROVE  Includes(parse_resource_scope(path, pre), id) <=> \A i \in Innermost(path, pre) : path[i].id = id
    <2>1. CASE Innermost(path, pre) = {} BY <2>1, InnermostOnce DEF Includes
    <2>2. CASE Innermost(path, pre) # {}
        <3>1. PICK i \in Innermost(path, pre) : TRUE BY <2>2
        <3>2. Innermost(path, pre) = {i} BY InnermostOnce
        <3>3. parse_resource_scope(path, pre) = {path[i].id} BY <3>2, InnermostOnce
        <3>4. QED BY <3>2, <3>3 DEF Includes
    <2>3. QED BY <2>1, <2>2
<1>2. parse_resource_scope(path, "package") = {} <=> Innermost(path, "package") = {} BY InnermostOnce
<1>3. QED BY <1>1, <1>2 DEF PackagesInScope, TableInScope

(***************************************************************************)
(* What the two loops push.                                                *)
(***************************************************************************)
TablePath(path, p, t) == service_prefix(path) \o <<Seg("package", p), Seg("table", t)>>
PackagePath(path, p) == service_prefix(path) \o <<Seg("package", p)>>

FromTable(path, x, i, j) ==
    /\ i \in DOMAIN PackageId /\ j \in DOMAIN TableName
    /\ x = Push(1, i, j, x.action, TablePath(path, PackageId[i], TableName[j]))
    /\ Gives(path, PackageId[i], TableName[j], x.action)
FromPackage(path, x, i) ==
    /\ i \in DOMAIN PackageId /\ PackageId[i] \in PackagesInScope(path)
    /\ x = Push(2, i, 0, x.action, PackagePath(path, PackageId[i]))
    /\ x.action \in registry[PackageId[i]].actions

LEMMA TablePushed ==
    ASSUME Registered, NEW path \in Path
    PROVE  \A x : x \in TableActions(path) <=> \E i, j : FromTable(path, x, i, j)
<1> DEFINE scope == parse_resource_scope(path, "package")
           included(row) == /\ row \in list_tables /\ Includes(scope, PackageId[row[1]])
                            /\ scope = {} \/ Includes(parse_resource_scope(path, "table"), TableName[row[2]])
           acts(row) == {crud_action_names(TableName[row[2]])}
                            \cup ({extensible_action_names(TableName[row[2]])} \cap registry[PackageId[row[1]]].actions)
           push(row, action) == Push(1, row[1], row[2], action, TablePath(path, PackageId[row[1]], TableName[row[2]]))
<1>1. \A x : x \in TableActions(path) <=> \E row : included(row) /\ \E action \in acts(row) : x = push(row, action)
    <2> DEFINE rows == {row \in list_tables :
                  /\ Includes(scope, PackageId[row[1]])
                  /\ scope = {} \/ Includes(parse_resource_scope(path, "table"), TableName[row[2]])}
    <2>1. TableActions(path) = UNION {{push(row, action) : action \in acts(row)} : row \in rows}
        BY DEF TableActions, TablePath
    <2>2. \A row : row \in rows <=> included(row) OBVIOUS
    <2> HIDE DEF push, acts, rows, included
    <2>3. QED BY <2>1, <2>2
<1>2. ASSUME NEW i \in DOMAIN PackageId, NEW j \in DOMAIN TableName, NEW action
      PROVE  included(<<i, j>>) /\ action \in acts(<<i, j>>) <=> Gives(path, PackageId[i], TableName[j], action)
    <2> DEFINE p == PackageId[i]
               t == TableName[j]
    <2>1. p \in Range(PackageId) BY DEF Range
    <2>2. <<i, j>> \in list_tables <=> t \in registry[p].tables BY DEF list_tables
    <2>3. t \in registry[p].tables => crud_action_names(t) \in registry[p].actions BY <2>1 DEF Registered
    <2> HIDE DEF p, t
    <2>4. included(<<i, j>>) <=> t \in registry[p].tables /\ p \in PackagesInScope(path) /\ TableInScope(path, t)
        BY <2>1, <2>2, ScopeRead DEF p, t
    <2>5. action \in acts(<<i, j>>)
              <=> action = crud_action_names(t) \/ (action = extensible_action_names(t) /\ action \in registry[p].actions)
        BY DEF p, t
    <2> HIDE DEF included, acts
    <2>6. QED BY <2>3, <2>4, <2>5 DEF Gives, p, t
<1>3. ASSUME NEW row, included(row) PROVE \E i \in DOMAIN PackageId, j \in DOMAIN TableName : row = <<i, j>>
    BY <1>3 DEF list_tables
<1>4. ASSUME NEW x, x \in TableActions(path) PROVE \E i, j : FromTable(path, x, i, j)
    <2>1. PICK row : included(row) /\ \E action \in acts(row) : x = push(row, action) BY <1>1, <1>4
    <2>2. PICK action \in acts(row) : x = push(row, action) BY <2>1
    <2>3. PICK i \in DOMAIN PackageId, j \in DOMAIN TableName : row = <<i, j>> BY <1>3, <2>1
    <2>4. Gives(path, PackageId[i], TableName[j], action)
        <3> HIDE DEF included, acts
        <3> QED BY <1>2, <2>1, <2>2, <2>3
    <2>5. x = Push(1, i, j, action, TablePath(path, PackageId[i], TableName[j])) BY <2>2, <2>3
    <2>6. x.action = action BY <2>5 DEF Push
    <2>7. QED BY <2>4, <2>5, <2>6 DEF FromTable
<1>5. ASSUME NEW x, NEW i, NEW j, FromTable(path, x, i, j) PROVE x \in TableActions(path)
    <2>1. i \in DOMAIN PackageId /\ j \in DOMAIN TableName BY <1>5 DEF FromTable
    <2>2. included(<<i, j>>) /\ x.action \in acts(<<i, j>>)
        <3>1. Gives(path, PackageId[i], TableName[j], x.action) BY <1>5 DEF FromTable
        <3> HIDE DEF included, acts
        <3>2. QED BY <1>2, <2>1, <3>1
    <2>3. x = push(<<i, j>>, x.action) BY <1>5 DEF FromTable
    <2> HIDE DEF included, acts, push
    <2>4. QED BY <1>1, <2>2, <2>3
<1>6. QED BY <1>4, <1>5

LEMMA PackagePushed ==
    ASSUME NEW path \in Path
    PROVE  \A x : x \in PackageActions(path) <=> \E i : FromPackage(path, x, i)
<1> DEFINE included(row) == row \in list_custom_actions /\ Includes(parse_resource_scope(path, "package"), PackageId[row[1]])
           push(row) == Push(2, row[1], 0, row[2], PackagePath(path, PackageId[row[1]]))
<1>1. \A x : x \in PackageActions(path) <=> \E row : included(row) /\ x = push(row)
    BY DEF PackageActions, PackagePath
<1>2. \A row : row \in list_custom_actions <=>
          \E i \in DOMAIN PackageId : \E action \in registry[PackageId[i]].actions : row = <<i, action>>
    BY DEF list_custom_actions
<1>3. ASSUME NEW i \in DOMAIN PackageId, NEW action \in registry[PackageId[i]].actions
      PROVE  included(<<i, action>>) <=> PackageId[i] \in PackagesInScope(path)
    <2>1. PackageId[i] \in Range(PackageId) BY DEF Range
    <2>2. <<i, action>> \in list_custom_actions BY <1>2
    <2>3. QED BY <2>1, <2>2, ScopeRead
<1>4. ASSUME NEW x, x \in PackageActions(path) PROVE \E i : FromPackage(path, x, i)
    <2>1. PICK row : included(row) /\ x = push(row) BY <1>1, <1>4
    <2>2. PICK i \in DOMAIN PackageId : \E action \in registry[PackageId[i]].actions : row = <<i, action>> BY <1>2, <2>1
    <2>3. PICK action \in registry[PackageId[i]].actions : row = <<i, action>> BY <2>2
    <2>4. PackageId[i] \in PackagesInScope(path) BY <1>3, <2>1, <2>3
    <2>5. x = Push(2, i, 0, action, PackagePath(path, PackageId[i])) BY <2>1, <2>3
    <2>6. x.action = action BY <2>5 DEF Push
    <2>7. QED BY <2>4, <2>5, <2>6 DEF FromPackage
<1>5. ASSUME NEW x, NEW i, FromPackage(path, x, i) PROVE x \in PackageActions(path)
    <2>1. i \in DOMAIN PackageId /\ x.action \in registry[PackageId[i]].actions BY <1>5 DEF FromPackage
    <2>2. included(<<i, x.action>>) BY <1>3, <1>5, <2>1 DEF FromPackage
    <2>3. x = push(<<i, x.action>>) BY <1>5 DEF FromPackage
    <2> HIDE DEF included, push
    <2>4. QED BY <1>1, <2>2, <2>3
<1>6. QED BY <1>4, <1>5

(***************************************************************************)
(* Sort and dedup: of the entries of an action exactly one was pushed      *)
(* first.                                                                  *)
(***************************************************************************)
Pushed(path) == TableActions(path) \cup PackageActions(path)
First(pushed, x) == x \in pushed /\ \A y \in pushed : y.action = x.action => ~PushedBefore(y, x)

LEMMA PushedParts ==
    ASSUME Registered, NEW path \in Path, NEW x \in Pushed(path)
    PROVE  /\ x.loop \in {1, 2} /\ x.i \in DOMAIN PackageId /\ x.j \in Nat
           /\ x.loop \in Nat /\ x.i \in Nat
           /\ x.loop = 1 => FromTable(path, x, x.i, x.j)
           /\ x.loop = 2 => FromPackage(path, x, x.i) /\ x.j = 0
<1>1. DOMAIN PackageId \subseteq Nat /\ DOMAIN TableName \subseteq Nat BY PoliciesAssumption
<1>2. CASE x \in TableActions(path)
    <2>1. PICK i, j : FromTable(path, x, i, j) BY <1>2, TablePushed
    <2>2. x.loop = 1 /\ x.i = i /\ x.j = j BY <2>1 DEF FromTable, Push
    <2>3. i \in DOMAIN PackageId /\ j \in DOMAIN TableName BY <2>1 DEF FromTable
    <2>4. QED BY <1>1, <2>1, <2>2, <2>3
<1>3. CASE x \in PackageActions(path)
    <2>1. PICK i : FromPackage(path, x, i) BY <1>3, PackagePushed
    <2>2. x.loop = 2 /\ x.i = i /\ x.j = 0 BY <2>1 DEF FromPackage, Push
    <2>3. i \in DOMAIN PackageId BY <2>1 DEF FromPackage
    <2>4. QED BY <1>1, <2>1, <2>2, <2>3
<1>4. QED BY <1>2, <1>3 DEF Pushed

LEMMA SomeFirst ==
    ASSUME Registered, NEW path \in Path, NEW z \in Pushed(path)
    PROVE  \E x : First(Pushed(path), x) /\ x.action = z.action
<1> DEFINE P == Pushed(path)
           E == {x \in P : x.action = z.action}
           L == {x.loop : x \in E}
<1>1. \A x \in E : x.loop \in Nat /\ x.i \in Nat /\ x.j \in Nat BY PushedParts
<1>2. z \in E OBVIOUS
<1> HIDE DEF P, E
<1>3. PICK l \in L : \A m \in L : l <= m
    <2>1. L \subseteq Nat /\ L # {} BY <1>1, <1>2
    <2> HIDE DEF L
    <2>2. QED BY <2>1, Least
<1> DEFINE I == {x.i : x \in {x \in E : x.loop = l}}
<1>4. PICK i \in I : \A m \in I : i <= m
    <2>1. I \subseteq Nat /\ I # {} BY <1>1, <1>3
    <2> HIDE DEF I
    <2>2. QED BY <2>1, Least
<1> DEFINE J == {x.j : x \in {x \in E : x.loop = l /\ x.i = i}}
<1>5. PICK j \in J : \A m \in J : j <= m
    <2>1. J \subseteq Nat /\ J # {} BY <1>1, <1>4
    <2> HIDE DEF J
    <2>2. QED BY <2>1, Least
<1>6. PICK x \in E : x.loop = l /\ x.i = i /\ x.j = j BY <1>5
<1>7. ASSUME NEW y \in E PROVE ~PushedBefore(y, x)
    <2>1. y.loop \in Nat /\ y.i \in Nat /\ y.j \in Nat /\ l \in Nat /\ i \in Nat /\ j \in Nat BY <1>1, <1>6
    <2>2. l <= y.loop BY <1>3
    <2>3. y.loop = l => i <= y.i BY <1>4
    <2>4. y.loop = l /\ y.i = i => j <= y.j BY <1>5
    <2>5. QED BY <1>6, <2>1, <2>2, <2>3, <2>4 DEF PushedBefore
<1>8. x \in P /\ x.action = z.action /\ \A y \in P : y.action = x.action => ~PushedBefore(y, x) BY <1>6, <1>7 DEF E
<1>9. QED BY <1>8 DEF First, P

LEMMA OneFirst ==
    ASSUME Registered, NEW path \in Path, NEW x, NEW y, First(Pushed(path), x), First(Pushed(path), y), x.action = y.action
    PROVE  x = y
<1>1. x \in Pushed(path) /\ y \in Pushed(path) /\ ~PushedBefore(y, x) /\ ~PushedBefore(x, y) BY DEF First
<1>2. /\ x.loop \in Nat /\ x.i \in Nat /\ x.j \in Nat
      /\ y.loop \in Nat /\ y.i \in Nat /\ y.j \in Nat
    BY <1>1, PushedParts
<1>3. x.loop = y.loop /\ x.i = y.i /\ x.j = y.j BY <1>1, <1>2 DEF PushedBefore
<1>4. x.loop \in {1, 2} BY <1>1, PushedParts
<1>5. CASE x.loop = 1
    <2>1. FromTable(path, x, x.i, x.j) /\ FromTable(path, y, x.i, x.j) BY <1>1, <1>3, <1>5, PushedParts
    <2>2. QED BY <2>1 DEF FromTable
<1>6. CASE x.loop = 2
    <2>1. FromPackage(path, x, x.i) /\ FromPackage(path, y, x.i) BY <1>1, <1>3, <1>6, PushedParts
    <2>2. QED BY <2>1 DEF FromPackage
<1>7. QED BY <1>4, <1>5, <1>6

LEMMA Asked ==
    ASSUME NEW pushed, NEW a
    PROVE  a \in SortedDeduped(pushed) <=> \E x : First(pushed, x) /\ a = <<x.action, x.resource>>
BY DEF SortedDeduped, First

(***************************************************************************)
(* The three parts of ActionsFaithful on a path that is no query or view.  *)
(***************************************************************************)
LEMMA AskedOnce ==
    ASSUME Registered, NEW path \in Path, NEW x \in SortedDeduped(Pushed(path)), NEW y \in SortedDeduped(Pushed(path)), x[1] = y[1]
    PROVE  x = y
<1>1. PICK u : First(Pushed(path), u) /\ x = <<u.action, u.resource>> BY Asked
<1>2. PICK v : First(Pushed(path), v) /\ y = <<v.action, v.resource>> BY Asked
<1>3. u.action = v.action BY <1>1, <1>2
<1>4. u = v BY <1>1, <1>2, <1>3, OneFirst
<1>5. QED BY <1>1, <1>2, <1>4

LEMMA AskedActions ==
    ASSUME Registered, NEW path \in Path
    PROVE  {x[1] : x \in SortedDeduped(Pushed(path))} = UNION {registry[p].actions : p \in PackagesInScope(path)}
<1>1. ASSUME NEW x \in SortedDeduped(Pushed(path)) PROVE x[1] \in UNION {registry[p].actions : p \in PackagesInScope(path)}
    <2>1. PICK u : First(Pushed(path), u) /\ x = <<u.action, u.resource>> BY Asked
    <2>2. u \in Pushed(path) /\ x[1] = u.action BY <2>1 DEF First
    <2>3. u.loop \in {1, 2} BY <2>2, PushedParts
    <2>4. \E p \in PackagesInScope(path) : u.action \in registry[p].actions
        <3>1. CASE u.loop = 1
            <4>1. FromTable(path, u, u.i, u.j) BY <2>2, <3>1, PushedParts
            <4>2. QED BY <4>1 DEF FromTable, Gives
        <3>2. CASE u.loop = 2
            <4>1. FromPackage(path, u, u.i) BY <2>2, <3>2, PushedParts
            <4>2. QED BY <4>1 DEF FromPackage
        <3>3. QED BY <2>3, <3>1, <3>2
    <2>5. QED BY <2>2, <2>4
<1>2. ASSUME NEW p \in PackagesInScope(path), NEW action \in registry[p].actions
      PROVE  \E x \in SortedDeduped(Pushed(path)) : x[1] = action
    <2>1. PICK i \in DOMAIN PackageId : PackageId[i] = p BY DEF PackagesInScope, Range
    <2> DEFINE z == Push(2, i, 0, action, PackagePath(path, PackageId[i]))
    <2>2. z.action = action BY DEF Push
    <2> HIDE DEF z
    <2>3. FromPackage(path, z, i) BY <2>1, <2>2 DEF FromPackage, z
    <2>4. z \in Pushed(path) BY <2>3, PackagePushed DEF Pushed
    <2>5. PICK x : First(Pushed(path), x) /\ x.action = action BY <2>2, <2>4, SomeFirst
    <2>6. <<x.action, x.resource>> \in SortedDeduped(Pushed(path)) BY <2>5, Asked
    <2>7. QED BY <2>5, <2>6
<1>3. QED BY <1>1, <1>2

LEMMA AskedAt ==
    ASSUME Registered, NEW path \in Path, NEW x \in SortedDeduped(Pushed(path))
    PROVE  IF \E p \in Range(PackageId), t \in Range(TableName) : Gives(path, p, t, x[1])
           THEN \E p \in Range(PackageId), t \in Range(TableName) : Gives(path, p, t, x[1]) /\ x[2] = TablePath(path, p, t)
           ELSE \E p \in PackagesInScope(path) : x[1] \in registry[p].actions /\ x[2] = PackagePath(path, p)
<1>1. PICK u : First(Pushed(path), u) /\ x = <<u.action, u.resource>> BY Asked
<1>2. u \in Pushed(path) /\ x[1] = u.action /\ x[2] = u.resource BY <1>1 DEF First
<1>3. u.loop \in {1, 2} BY <1>2, PushedParts
<1>4. ASSUME u.loop = 1
      PROVE  \E p \in Range(PackageId), t \in Range(TableName) : Gives(path, p, t, x[1]) /\ x[2] = TablePath(path, p, t)
    <2>1. FromTable(path, u, u.i, u.j) BY <1>2, <1>4, PushedParts
    <2>2. u.resource = TablePath(path, PackageId[u.i], TableName[u.j]) BY <2>1 DEF FromTable, Push
    <2>3. PackageId[u.i] \in Range(PackageId) /\ TableName[u.j] \in Range(TableName) BY <2>1 DEF FromTable, Range
    <2>4. QED BY <1>2, <2>1, <2>2, <2>3 DEF FromTable
<1>5. ASSUME u.loop = 2
      PROVE  \E p \in PackagesInScope(path) : x[1] \in registry[p].actions /\ x[2] = PackagePath(path, p)
    <2>1. FromPackage(path, u, u.i) BY <1>2, <1>5, PushedParts
    <2>2. u.resource = PackagePath(path, PackageId[u.i]) BY <2>1 DEF FromPackage, Push
    <2>3. QED BY <1>2, <2>1, <2>2 DEF FromPackage
<1>6. ASSUME NEW p \in Range(PackageId), NEW t \in Range(TableName), Gives(path, p, t, x[1]) PROVE u.loop = 1
    <2>1. PICK i \in DOMAIN PackageId, j \in DOMAIN TableName : PackageId[i] = p /\ TableName[j] = t BY DEF Range
    <2> DEFINE z == Push(1, i, j, x[1], TablePath(path, PackageId[i], TableName[j]))
    <2>2. z.action = x[1] /\ z.loop = 1 BY DEF Push
    <2> HIDE DEF z
    <2>3. FromTable(path, z, i, j) BY <1>6, <2>1, <2>2 DEF FromTable, z
    <2>4. z \in Pushed(path) BY <2>3, TablePushed DEF Pushed
    <2>5. ~PushedBefore(z, u) BY <1>1, <1>2, <2>2, <2>4 DEF First
    <2>6. QED BY <1>3, <2>2, <2>5 DEF PushedBefore
<1>7. QED BY <1>3, <1>4, <1>5, <1>6

\* What a check without an action asks for is the registered actions of the
\* scope, each once and where the policies name it, for every registry, path
\* and order of the rows.
THEOREM ActionsAreFaithful == PoliciesSpec => []ActionsFaithful
<1>1. ASSUME Registered PROVE ActionsFaithful
    <2> SUFFICES ASSUME NEW path \in RequestPath
        PROVE  LET asked == get_actions_for_resource(path)
                   last == path[Len(path)] IN
               IF last.pre = "query" THEN asked = {<<Word("run"), path>>}
               ELSE IF last.pre = "view" THEN asked = {<<Word("get"), path>>, <<Word("refresh"), path>>}
               ELSE /\ \A x, y \in asked : x[1] = y[1] => x = y
                    /\ {x[1] : x \in asked} = UNION {registry[p].actions : p \in PackagesInScope(path)}
                    /\ \A x \in asked :
                         IF \E p \in Range(PackageId), t \in Range(TableName) : Gives(path, p, t, x[1])
                         THEN \E p \in Range(PackageId), t \in Range(TableName) : Gives(path, p, t, x[1]) /\ x[2] = TablePath(path, p, t)
                         ELSE \E p \in PackagesInScope(path) : x[1] \in registry[p].actions /\ x[2] = PackagePath(path, p)
        BY DEF ActionsFaithful, TablePath, PackagePath
    <2> DEFINE last == path[Len(path)]
    <2>1. path \in Path BY PoliciesAssumption
    <2>2. CASE last.pre = "query"
        <3>1. get_actions_for_resource(path) = QUERY_ACTIONS \X {path} BY <2>2 DEF get_actions_for_resource
        <3>2. QED BY <2>2, <3>1 DEF QUERY_ACTIONS
    <2>3. CASE last.pre = "view"
        <3>1. get_actions_for_resource(path) = VIEW_ACTIONS \X {path} BY <2>3 DEF get_actions_for_resource
        <3>2. QED BY <2>3, <3>1 DEF VIEW_ACTIONS
    <2>4. CASE last.pre # "query" /\ last.pre # "view"
        <3>1. get_actions_for_resource(path) = SortedDeduped(Pushed(path)) BY <2>4 DEF get_actions_for_resource, Pushed
        <3>2. QED BY <1>1, <2>1, <2>4, <3>1, AskedOnce, AskedActions, AskedAt
    <2>5. QED BY <2>2, <2>3, <2>4
<1>2. QED BY <1>1, RegisteredAlways, PTL
=============================================================================
