--------------------------- MODULE BodyLimitProofs ---------------------------
(***************************************************************************)
(* The middleware against RequestGate, for every set of requests and every *)
(* limit: what it scanner piece by piece, however the connection splits a    *)
(* body, is what IsAcceptable says of the whole body at once.              *)
(***************************************************************************)
EXTENDS BodyLimit, FiniteSetTheorems, SequenceTheorems, WellFoundedInduction, TLAPS

-----------------------------------------------------------------------------
(* Numbers.                                                                *)

\* Induction as a fact about a set of naturals, by its least absentee.
LEMMA NumbersInduction ==
    ASSUME NEW S, 0 \in S, \A n \in Nat : n \in S => n + 1 \in S
    PROVE  Nat \subseteq S
<1> DEFINE absent == Nat \ S
           less == OpToRel(<, Nat)
<1> SUFFICES ASSUME absent # {} PROVE FALSE
    OBVIOUS
<1>1. IsWellFoundedOn(less, Nat) /\ absent \subseteq Nat
    BY NatLessThanWellFounded
<1>2. \A i, j \in Nat : i < j => <<i, j>> \in less
    BY DEF OpToRel
<1> HIDE DEF less
<1>3. PICK n \in absent : \A m \in absent : ~ (<<m, n>> \in less)
    <2> HIDE DEF absent
    <2> QED BY <1>1, WFMin
<1>4. n # 0 /\ n \in Nat /\ n - 1 \in Nat /\ n - 1 < n /\ (n - 1) + 1 = n
    BY <1>3
<1>5. n - 1 \in S
    BY <1>2, <1>3, <1>4
<1> QED BY <1>3, <1>4, <1>5

\* A set of naturals with a bound and a member has a greatest one.
LEMMA MaxOfNumbers ==
    ASSUME NEW D \in SUBSET Nat, D # {}, NEW bound \in Nat, \A x \in D : x <= bound
    PROVE  Max(D) \in D /\ \A x \in D : x <= Max(D)
<1> DEFINE S == {n \in Nat : (\A x \in D : x <= n) => \E m \in D : \A x \in D : x <= m}
<1>1. 0 \in S
    <2>1. PICK d \in D : TRUE
        OBVIOUS
    <2>2. ASSUME \A x \in D : x <= 0 PROVE \A x \in D : x <= d
        BY <2>1, <2>2
    <2> QED BY <2>1, <2>2
<1>2. ASSUME NEW n \in Nat, n \in S PROVE n + 1 \in S
    <2>1. CASE n + 1 \in D
        BY <2>1
    <2>2. CASE n + 1 \notin D
        BY <1>2, <2>2
    <2> QED BY <2>1, <2>2
<1>3. Nat \subseteq S
    <2> HIDE DEF S
    <2> QED BY <1>1, <1>2, NumbersInduction
<1>4. \E m \in D : \A x \in D : m >= x
    BY <1>3
<1> QED BY <1>4 DEF Max
\* A set of naturals with a member has a least one.
LEMMA MinOfNumbers ==
    ASSUME NEW D \in SUBSET Nat, D # {}
    PROVE  Min(D) \in D /\ \A x \in D : Min(D) <= x
<1> DEFINE S == {n \in Nat : (\E x \in D : x <= n) => \E m \in D : \A x \in D : m <= x}
<1>1. 0 \in S
    <2>1. ASSUME NEW d \in D, d <= 0 PROVE \A x \in D : d <= x
        BY <2>1
    <2> QED BY <2>1
<1>2. ASSUME NEW n \in Nat, n \in S PROVE n + 1 \in S
    <2>1. CASE \E x \in D : x <= n
        BY <1>2, <2>1
    <2>2. CASE ~ \E x \in D : x <= n
        <3>1. ASSUME NEW d \in D, d <= n + 1 PROVE \A x \in D : d <= x
            BY <2>2, <3>1
        <3> QED BY <3>1
    <2> QED BY <2>1, <2>2
<1>3. Nat \subseteq S
    <2> HIDE DEF S
    <2> QED BY <1>1, <1>2, NumbersInduction
<1>4. \E m \in D : \A x \in D : m <= x
    <2>1. PICK d \in D : d \in Nat
        OBVIOUS
    <2> QED BY <1>3, <2>1
<1> QED BY <1>4 DEF Min

-----------------------------------------------------------------------------
(* Scanning a body in fragments is scanning it at once.                    *)

\* One byte for the structure scanner, or for the decoder.
Turn(scanner, x, byte) == IF scanner = "budget" THEN Scanned(x, byte) ELSE Decoded(x, byte)

\* Max of a set of positions.
LEMMA LastPosition ==
    ASSUME NEW k \in Nat, NEW D \in SUBSET (1..k), D # {}
    PROVE  Max(D) \in D /\ \A x \in D : x <= Max(D)
<1>1. D \in SUBSET Nat /\ \A x \in D : x <= k
    OBVIOUS
<1> QED BY <1>1, MaxOfNumbers

\* g holds the fold over every set of the first k positions of s.
FoldsTo(scanner, base, g, s, k) ==
    g = [D \in SUBSET (1..k) |->
            IF D = {} THEN base ELSE Turn(scanner, g[D \ {Max(D)}], s[Max(D)])]

\* The recursion has a solution.
LEMMA FoldExists ==
    ASSUME NEW scanner, NEW base, NEW s, NEW n \in Nat
    PROVE  \E g : FoldsTo(scanner, base, g, s, n)
<1> DEFINE S == {k \in Nat : \E g : FoldsTo(scanner, base, g, s, k)}
<1>1. 0 \in S
    <2> DEFINE g == [D \in SUBSET (1..0) |-> base]
    <2>1. \A D \in SUBSET (1..0) : D = {}
        OBVIOUS
    <2>2. g = [D \in SUBSET (1..0) |->
                IF D = {} THEN base ELSE Turn(scanner, g[D \ {Max(D)}], s[Max(D)])]
        BY <2>1, Zenon
    <2>3. FoldsTo(scanner, base, g, s, 0)
        BY <2>2, Zenon DEF FoldsTo
    <2> QED BY <2>3
<1>2. ASSUME NEW k \in Nat, k \in S PROVE k + 1 \in S
    <2>1. PICK g : FoldsTo(scanner, base, g, s, k)
        BY <1>2
    <2>2. \A D \in SUBSET (1..k) :
            g[D] = IF D = {} THEN base ELSE Turn(scanner, g[D \ {Max(D)}], s[Max(D)])
        BY <2>1, Zenon DEF FoldsTo
    <2> DEFINE P == SUBSET (1..(k + 1))
               h == [D \in P |-> IF k + 1 \in D THEN Turn(scanner, g[D \ {k + 1}], s[k + 1])
                                                ELSE g[D]]
               j == [D \in P |-> IF D = {} THEN base
                                 ELSE Turn(scanner, h[D \ {Max(D)}], s[Max(D)])]
    <2>3. ASSUME NEW D \in P PROVE h[D] = j[D]
        <3> DEFINE m == Max(D)
        <3>1. CASE D = {}
            <4>1. h[D] = g[D] /\ j[D] = base /\ D \in SUBSET (1..k)
                BY <3>1
            <4> QED BY <2>2, <3>1, <4>1
        <3>2. CASE k + 1 \in D
            <4>1. m = k + 1
                <5>1. m \in D /\ \A x \in D : x <= m
                    <6>1. k + 1 \in Nat /\ D \in SUBSET (1..(k + 1)) /\ D # {}
                        BY <3>2
                    <6> QED BY <6>1, LastPosition
                <5>2. m \in 1..(k + 1)
                    BY <5>1
                <5> HIDE DEF m
                <5> QED BY <3>2, <5>1, <5>2
            <4>2. D \ {k + 1} \in P /\ k + 1 \notin D \ {k + 1}
                OBVIOUS
            <4>3. h[D \ {k + 1}] = g[D \ {k + 1}]
                BY <4>2
            <4>4. h[D] = Turn(scanner, g[D \ {k + 1}], s[k + 1])
                BY <3>2
            <4>5. j[D] = Turn(scanner, h[D \ {m}], s[m])
                BY <3>2
            <4> HIDE DEF m, h, j
            <4> QED BY <4>1, <4>3, <4>4, <4>5
        <3>3. CASE k + 1 \notin D /\ D # {}
            <4>1. D \in SUBSET (1..k) /\ D \ {m} \in P /\ k + 1 \notin D \ {m}
                <5>1. 1..(k + 1) = (1..k) \cup {k + 1}
                    OBVIOUS
                <5> HIDE DEF m
                <5> QED BY <3>3, <5>1
            <4>2. h[D] = g[D] /\ h[D \ {m}] = g[D \ {m}]
                BY <3>3, <4>1
            <4>3. j[D] = Turn(scanner, h[D \ {m}], s[m])
                BY <3>3
            <4>4. g[D] = Turn(scanner, g[D \ {m}], s[m])
                BY <2>2, <3>3, <4>1, Zenon
            <4> HIDE DEF m, h, j
            <4> QED BY <4>2, <4>3, <4>4
        <3> QED BY <3>1, <3>2, <3>3
    <2>4. h = j
        <3> HIDE DEF P
        <3> QED BY <2>3, Zenon
    <2>5. FoldsTo(scanner, base, h, s, k + 1)
        BY <2>4, Zenon DEF FoldsTo
    <2> QED BY <2>5
<1>3. Nat \subseteq S
    <2> HIDE DEF S
    <2> QED BY <1>1, <1>2, NumbersInduction
<1> QED BY <1>3

LEMMA EachTurn ==
    ASSUME NEW scanner, NEW base, NEW g, NEW s, NEW n \in Nat, FoldsTo(scanner, base, g, s, n)
    PROVE  /\ g[1..0] = base
           /\ \A k \in 0..(n - 1) : g[1..(k + 1)] = Turn(scanner, g[1..k], s[k + 1])
<1>1. \A D \in SUBSET (1..n) :
        g[D] = IF D = {} THEN base ELSE Turn(scanner, g[D \ {Max(D)}], s[Max(D)])
    BY Zenon DEF FoldsTo
<1>2. g[1..0] = base
    <2>1. 1..0 = {} /\ 1..0 \in SUBSET (1..n)
        OBVIOUS
    <2> QED BY <1>1, <2>1, Zenon
<1>3. ASSUME NEW k \in 0..(n - 1)
      PROVE  g[1..(k + 1)] = Turn(scanner, g[1..k], s[k + 1])
    <2> DEFINE D == 1..(k + 1)
               m == Max(D)
    <2>1. D \in SUBSET (1..n) /\ k + 1 \in D /\ k + 1 \in Nat
        OBVIOUS
    <2>2. m = k + 1
        <3>1. m \in D /\ \A x \in D : x <= m
            BY <2>1, LastPosition
        <3>2. m \in Nat /\ m <= k + 1
            BY <3>1
        <3> HIDE DEF m
        <3> QED BY <2>1, <3>1, <3>2
    <2>3. D \ {k + 1} = 1..k
        OBVIOUS
    <2>4. D # {}
        BY <2>1
    <2> HIDE DEF D
    <2>5. g[D] = Turn(scanner, g[D \ {m}], s[m])
        BY <1>1, <2>1, <2>4, Zenon
    <2>6. g[D] = Turn(scanner, g[1..k], s[k + 1])
        <3> HIDE DEF m
        <3> QED BY <2>2, <2>3, <2>5
    <2> QED BY <2>6, Zenon DEF D
<1> QED BY <1>2, <1>3

\* t goes through s turn by turn, from base.
Traces(scanner, base, s, n, t) ==
    /\ t[0] = base
    /\ \A k \in 0..(n - 1) : t[k + 1] = Turn(scanner, t[k], s[k + 1])

LEMMA TraceOf ==
    ASSUME NEW scanner, NEW base, NEW g, NEW s, NEW n \in Nat, FoldsTo(scanner, base, g, s, n)
    PROVE  \E t : Traces(scanner, base, s, n, t) /\ t[n] = g[1..n]
<1> DEFINE t == [k \in 0..n |-> g[1..k]]
<1>1. t[0] = base /\ t[n] = g[1..n]
    BY EachTurn
<1>2. ASSUME NEW k \in 0..(n - 1) PROVE t[k + 1] = Turn(scanner, t[k], s[k + 1])
    <2>1. k \in 0..n /\ k + 1 \in 0..n
        OBVIOUS
    <2>2. t[k] = g[1..k] /\ t[k + 1] = g[1..(k + 1)]
        BY <2>1
    <2> HIDE DEF t
    <2> QED BY <2>2, EachTurn
<1> HIDE DEF t
<1> QED BY <1>1, <1>2 DEF Traces

LEMMA ScannerTraces ==
    ASSUME NEW base, NEW s, NEW n \in Nat, DOMAIN s = 1..n
    PROVE  \E t : Traces("budget", base, s, n, t) /\ t[n] = FoldLeft(Scanned, base, s)
<1> DEFINE turns == CHOOSE g : g = [D \in SUBSET DOMAIN s |->
                IF D = {} THEN base ELSE Scanned(g[D \ {Max(D)}], s[Max(D)])]
<1>1. FoldLeft(Scanned, base, s) = turns[DOMAIN s]
    BY Zenon DEF FoldLeft, MapThenFoldSet
<1>2. FoldsTo("budget", base, turns, s, n)
    <2>1. PICK g : FoldsTo("budget", base, g, s, n)
        BY FoldExists
    <2>2. g = [D \in SUBSET DOMAIN s |->
                IF D = {} THEN base ELSE Scanned(g[D \ {Max(D)}], s[Max(D)])]
        BY <2>1, Zenon DEF FoldsTo, Turn
    <2> QED BY <2>2, Zenon DEF FoldsTo, Turn
<1> HIDE DEF turns
<1>3. \E t : Traces("budget", base, s, n, t) /\ t[n] = turns[1..n]
    BY <1>2, TraceOf
<1> QED BY <1>1, <1>3, Zenon

LEMMA DecoderTraces ==
    ASSUME NEW base, NEW s, NEW n \in Nat, DOMAIN s = 1..n
    PROVE  \E t : Traces("decoder", base, s, n, t) /\ t[n] = FoldLeft(Decoded, base, s)
<1> DEFINE turns == CHOOSE g : g = [D \in SUBSET DOMAIN s |->
                IF D = {} THEN base ELSE Decoded(g[D \ {Max(D)}], s[Max(D)])]
<1>1. FoldLeft(Decoded, base, s) = turns[DOMAIN s]
    BY Zenon DEF FoldLeft, MapThenFoldSet
<1>2. FoldsTo("decoder", base, turns, s, n)
    <2>1. PICK g : FoldsTo("decoder", base, g, s, n)
        BY FoldExists
    <2>2. g = [D \in SUBSET DOMAIN s |->
                IF D = {} THEN base ELSE Decoded(g[D \ {Max(D)}], s[Max(D)])]
        BY <2>1, Zenon DEF FoldsTo, Turn
    <2> QED BY <2>2, Zenon DEF FoldsTo, Turn
<1> HIDE DEF turns
<1>3. \E t : Traces("decoder", base, s, n, t) /\ t[n] = turns[1..n]
    BY <1>2, TraceOf
<1> QED BY <1>1, <1>3, Zenon
\* What the scanner and the decoder have seen after each byte of a body.
ScanOf(s)   == CHOOSE t : Traces("budget", NewBudget, s, Len(s), t)
DecodeOf(s) == CHOOSE t : Traces("decoder", "ready", s, Len(s), t)

LEMMA BodyTraces ==
    ASSUME NEW s \in Seq(Byte)
    PROVE  /\ Traces("budget", NewBudget, s, Len(s), ScanOf(s))
           /\ Traces("decoder", "ready", s, Len(s), DecodeOf(s))
<1>1. Len(s) \in Nat /\ DOMAIN s = 1..Len(s)
    OBVIOUS
<1>2. \E t : Traces("budget", NewBudget, s, Len(s), t)
    BY <1>1, ScannerTraces, Zenon
<1>3. \E t : Traces("decoder", "ready", s, Len(s), t)
    BY <1>1, DecoderTraces, Zenon
<1> QED BY <1>2, <1>3, Zenon DEF ScanOf, DecodeOf

\* Two traces that agree at a byte agree from there on.
LEMMA TracesMeet ==
    ASSUME NEW scanner, NEW b \in Seq(Byte), NEW l \in 0..Len(b), NEW e \in l..Len(b),
           NEW base, NEW whole, Traces(scanner, base, b, Len(b), whole),
           NEW t, Traces(scanner, whole[l], SubSeq(b, l + 1, e), e - l, t)
    PROVE  t[e - l] = whole[e]
<1> DEFINE f == SubSeq(b, l + 1, e)
           S == {k \in Nat : k <= e - l => t[k] = whole[l + k]}
<1>1. \A k \in 1..(e - l) : f[k] = b[l + k]
    OBVIOUS
<1>2. 0 \in S
    BY DEF Traces
<1>3. ASSUME NEW k \in Nat, k \in S PROVE k + 1 \in S
    <2> SUFFICES ASSUME k + 1 <= e - l PROVE t[k + 1] = whole[l + (k + 1)]
        OBVIOUS
    <2>1. k \in 0..((e - l) - 1) /\ l + k \in 0..(Len(b) - 1) /\ k + 1 \in 1..(e - l)
        OBVIOUS
    <2>2. t[k] = whole[l + k] /\ f[k + 1] = b[l + (k + 1)] /\ (l + k) + 1 = l + (k + 1)
        BY <1>1, <1>3, <2>1, SMTT(30)
    <2>3. t[k + 1] = Turn(scanner, t[k], f[k + 1])
        BY <2>1, Zenon DEF Traces
    <2>4. whole[(l + k) + 1] = Turn(scanner, whole[l + k], b[(l + k) + 1])
        BY <2>1, Zenon DEF Traces
    <2> HIDE DEF f
    <2> QED BY <2>2, <2>3, <2>4
<1>4. e - l \in S
    <2> HIDE DEF S
    <2> QED BY <1>2, <1>3, NumbersInduction, SMTT(30)
<1> QED BY <1>4

\* However a body is split, its fragments leave the scanner and the decoder where the
\* whole body would.
LEMMA FragmentsAddUp ==
    ASSUME NEW b \in Seq(Byte), NEW l \in 0..Len(b), NEW e \in l..Len(b)
    PROVE  /\ FoldLeft(Scanned, ScanOf(b)[l], SubSeq(b, l + 1, e)) = ScanOf(b)[e]
           /\ FoldLeft(Decoded, DecodeOf(b)[l], SubSeq(b, l + 1, e)) = DecodeOf(b)[e]
<1> DEFINE f == SubSeq(b, l + 1, e)
<1>1. e - l \in Nat /\ DOMAIN f = 1..(e - l)
    OBVIOUS
<1> HIDE DEF f
<1>2. FoldLeft(Scanned, ScanOf(b)[l], f) = ScanOf(b)[e]
    <2>1. PICK t : /\ Traces("budget", ScanOf(b)[l], f, e - l, t)
                   /\ t[e - l] = FoldLeft(Scanned, ScanOf(b)[l], f)
        BY <1>1, ScannerTraces, Zenon
    <2>2. Traces("budget", ScanOf(b)[l], SubSeq(b, l + 1, e), e - l, t)
        BY <2>1, Zenon DEF f
    <2>3. t[e - l] = ScanOf(b)[e]
        BY <2>2, BodyTraces, TracesMeet
    <2> QED BY <2>1, <2>3, Zenon
<1>3. FoldLeft(Decoded, DecodeOf(b)[l], f) = DecodeOf(b)[e]
    <2>1. PICK t : /\ Traces("decoder", DecodeOf(b)[l], f, e - l, t)
                   /\ t[e - l] = FoldLeft(Decoded, DecodeOf(b)[l], f)
        BY <1>1, DecoderTraces, Zenon
    <2>2. Traces("decoder", DecodeOf(b)[l], SubSeq(b, l + 1, e), e - l, t)
        BY <2>1, Zenon DEF f
    <2>3. t[e - l] = DecodeOf(b)[e]
        BY <2>2, BodyTraces, TracesMeet
    <2> QED BY <2>1, <2>3, Zenon
<1> QED BY <1>2, <1>3, Zenon DEF f
-----------------------------------------------------------------------------
(* The scanner.                                                            *)

\* A state of the scanner that the limits have not been broken in, unless it says so.
IsScan(x) ==
    /\ x \in [depth : Nat, tokens : Nat, inString : BOOLEAN, escaped : BOOLEAN, over : BOOLEAN]
    /\ x.escaped => x.inString
    /\ ~x.over => x.depth <= MaxDepth /\ x.tokens <= MaxTokens

\* What one byte does to each part of the state.
LEMMA ScannedParts ==
    ASSUME NEW x, IsScan(x), NEW c, NEW y, y = Scanned(x, c)
    PROVE  /\ IsScan(y) /\ (x.over => y.over)
           /\ x.inString =>
                /\ y.depth = x.depth /\ y.tokens = x.tokens /\ (y.over => x.over)
                /\ y.escaped <=> ~x.escaped /\ c = "backslash"
                /\ y.inString <=> x.escaped \/ c # "quote"
           /\ ~x.inString =>
                /\ ~y.escaped /\ (y.inString <=> c = "quote")
                /\ y.tokens = IF c \in {"open", "separator"} THEN x.tokens + 1 ELSE x.tokens
                /\ c = "open" => y.depth = x.depth + 1
                /\ c = "close" => y.depth = IF x.depth > 0 THEN x.depth - 1 ELSE 0
                /\ c \notin {"open", "close"} => y.depth = x.depth
                /\ y.over /\ ~x.over =>
                    y.tokens > MaxTokens \/ (c = "open" /\ y.depth > MaxDepth)
<1>1. CASE x.inString
    <2>1. y = [x EXCEPT !.escaped = ~x.escaped /\ c = "backslash",
                        !.inString = x.escaped \/ c # "quote"]
        BY <1>1 DEF Scanned
    <2>2. /\ y.depth = x.depth /\ y.tokens = x.tokens /\ y.over = x.over
          /\ y.escaped = (~x.escaped /\ c = "backslash")
          /\ y.inString = (x.escaped \/ c # "quote")
        BY <2>1 DEF IsScan
    <2>3. y \in [depth : Nat, tokens : Nat, inString : BOOLEAN, escaped : BOOLEAN,
                 over : BOOLEAN]
        BY <2>1 DEF IsScan
    <2> QED BY <1>1, <2>2, <2>3 DEF IsScan
<1>2. CASE ~x.inString
    <2> DEFINE depth  == x.depth + (IF c = "open" THEN 1 ELSE 0)
               tokens == x.tokens + (IF c \in {"open", "separator"} THEN 1 ELSE 0)
    <2>1. y = [depth    |-> IF c = "close" /\ depth > 0 THEN depth - 1 ELSE depth,
               tokens   |-> tokens,
               inString |-> c = "quote",
               escaped  |-> FALSE,
               over     |-> x.over \/ depth > MaxDepth \/ tokens > MaxTokens]
        BY <1>2, Zenon DEF Scanned
    <2>2. /\ x.depth \in Nat /\ x.tokens \in Nat /\ x.over \in BOOLEAN
          /\ ~x.over => x.depth <= MaxDepth /\ x.tokens <= MaxTokens
        BY DEF IsScan
    <2>3. /\ depth \in Nat /\ tokens \in Nat /\ MaxDepth \in Nat /\ MaxTokens \in Nat
          /\ c = "open" => depth = x.depth + 1
          /\ c # "open" => depth = x.depth
          /\ tokens = IF c \in {"open", "separator"} THEN x.tokens + 1 ELSE x.tokens
        BY <2>2, LimitsAssumption
    <2> HIDE DEF depth, tokens
    <2>4. /\ y.depth = IF c = "close" /\ depth > 0 THEN depth - 1 ELSE depth
          /\ y.tokens = tokens
          /\ y.inString = (c = "quote")
          /\ y.escaped = FALSE
          /\ y.over = (x.over \/ depth > MaxDepth \/ tokens > MaxTokens)
        BY <2>1
    <2>5. y \in [depth : Nat, tokens : Nat, inString : BOOLEAN, escaped : BOOLEAN,
                 over : BOOLEAN]
        BY <2>1, <2>3
    <2>6. ~y.over => y.depth <= MaxDepth /\ y.tokens <= MaxTokens
        <3>1. ~y.over => ~(depth > MaxDepth) /\ ~(tokens > MaxTokens)
            BY <2>4, Zenon
        <3>2. y.depth <= depth
            BY <2>3, <2>4
        <3> QED BY <2>3, <2>4, <2>5, <3>1, <3>2
    <2> QED BY <1>2, <2>2, <2>3, <2>4, <2>5, <2>6 DEF IsScan
<1> QED BY <1>1, <1>2

LEMMA ScanTypes ==
    ASSUME NEW b \in Seq(Byte)
    PROVE  /\ ScanOf(b)[0] = NewBudget
           /\ \A k \in 0..Len(b) : IsScan(ScanOf(b)[k])
           /\ \A k \in 0..(Len(b) - 1) : ScanOf(b)[k + 1] = Scanned(ScanOf(b)[k], b[k + 1])
<1> DEFINE f == ScanOf(b)
           S == {k \in Nat : k <= Len(b) => IsScan(f[k])}
<1>1. f[0] = NewBudget
    BY BodyTraces, Zenon DEF Traces
<1>2. \A k \in 0..(Len(b) - 1) : f[k + 1] = Scanned(f[k], b[k + 1])
    BY BodyTraces, Zenon DEF Traces, Turn
<1> HIDE DEF f
<1>3. 0 \in S
    <2>1. /\ NewBudget \in [depth : Nat, tokens : Nat, inString : BOOLEAN,
                            escaped : BOOLEAN, over : BOOLEAN]
          /\ ~NewBudget.escaped /\ NewBudget.depth = 0 /\ NewBudget.tokens = 0
        BY DEF NewBudget
    <2> QED BY <1>1, <2>1, LimitsAssumption DEF IsScan
<1>4. ASSUME NEW k \in Nat, k \in S PROVE k + 1 \in S
    <2> SUFFICES ASSUME k + 1 <= Len(b) PROVE IsScan(f[k + 1])
        OBVIOUS
    <2>1. k \in 0..(Len(b) - 1) /\ IsScan(f[k])
        BY <1>4
    <2>2. f[k + 1] = Scanned(f[k], b[k + 1])
        BY <1>2, <2>1
    <2> QED BY <2>1, <2>2, ScannedParts
<1>5. Nat \subseteq S
    <2> HIDE DEF S
    <2> QED BY <1>3, <1>4, NumbersInduction
<1>6. \A k \in 0..Len(b) : IsScan(f[k])
    BY <1>5
<1> QED BY <1>1, <1>2, <1>6 DEF f

\* A limit that is broken stays broken.
LEMMA OverStays ==
    ASSUME NEW b \in Seq(Byte), NEW l \in 0..Len(b), NEW e \in l..Len(b), ScanOf(b)[l].over
    PROVE  ScanOf(b)[e].over
<1> DEFINE f == ScanOf(b)
           S == {k \in Nat : l + k <= Len(b) => f[l + k].over}
<1>1. 0 \in S
    OBVIOUS
<1>2. ASSUME NEW k \in Nat, k \in S PROVE k + 1 \in S
    <2> SUFFICES ASSUME l + (k + 1) <= Len(b) PROVE f[l + (k + 1)].over
        OBVIOUS
    <2>1. /\ l + k \in 0..(Len(b) - 1) /\ l + k \in 0..Len(b)
          /\ (l + k) + 1 = l + (k + 1) /\ f[l + k].over
        BY <1>2
    <2>2. IsScan(f[l + k]) /\ f[l + (k + 1)] = Scanned(f[l + k], b[l + (k + 1)])
        BY <2>1, ScanTypes
    <2> HIDE DEF f
    <2> QED BY <2>1, <2>2, ScannedParts
<1>3. e - l \in S /\ l + (e - l) = e
    <2> HIDE DEF S
    <2> QED BY <1>1, <1>2, NumbersInduction
<1> QED BY <1>3
-----------------------------------------------------------------------------
(* Strings: what is escaped, and where a lexeme ends.                      *)

\* The lengths of the stretches of backslashes that end before j.
Runs(s, i, j) == {k \in 0..(j - 1 - i) : \A m \in 1..k : s[j - m] = "backslash"}

LEMMA RunIsLongest ==
    ASSUME NEW s, NEW i \in Nat, NEW j \in Nat, i < j
    PROVE  /\ Run(s, i, j) \in Runs(s, i, j) /\ Run(s, i, j) \in Nat
           /\ \A k \in Runs(s, i, j) : k <= Run(s, i, j)
<1> DEFINE K == Runs(s, i, j)
<1>1. K \in SUBSET Nat /\ (\A k \in K : k <= j - 1 - i) /\ 0 \in K /\ j - 1 - i \in Nat
    BY DEF Runs
<1>2. Run(s, i, j) = Max(K)
    BY DEF Run, Runs
<1> HIDE DEF K
<1>3. Max(K) \in K /\ \A k \in K : k <= Max(K)
    BY <1>1, MaxOfNumbers
<1> QED BY <1>1, <1>2, <1>3 DEF K

\* A backslash makes a run longer, anything else begins a new one.
LEMMA RunGrows ==
    ASSUME NEW s, NEW i \in Nat, NEW j \in Nat, i < j
    PROVE  /\ Run(s, i, i + 1) = 0
           /\ Run(s, i, j + 1) =
                IF s[j] = "backslash" THEN Run(s, i, j) + 1 ELSE 0
<1> DEFINE r == Run(s, i, j)
           t == Run(s, i, j + 1)
<1>1. /\ r \in Runs(s, i, j) /\ r \in Nat /\ \A k \in Runs(s, i, j) : k <= r
      /\ t \in Runs(s, i, j + 1) /\ t \in Nat /\ \A k \in Runs(s, i, j + 1) : k <= t
    BY RunIsLongest
<1>2. Run(s, i, i + 1) = 0
    <2>1. Run(s, i, i + 1) \in Runs(s, i, i + 1) /\ Run(s, i, i + 1) \in Nat
        BY RunIsLongest
    <2> QED BY <2>1 DEF Runs
<1> HIDE DEF r, t
<1>3. CASE s[j] = "backslash"
    <2>1. r + 1 \in Runs(s, i, j + 1)
        <3>1. r + 1 \in 0..((j + 1) - 1 - i)
            BY <1>1 DEF Runs
        <3>2. ASSUME NEW m \in 1..(r + 1) PROVE s[(j + 1) - m] = "backslash"
            <4>1. CASE m = 1
                BY <1>3, <4>1
            <4>2. CASE m # 1
                <5>1. m - 1 \in 1..r /\ j - (m - 1) = (j + 1) - m
                    BY <1>1, <4>2
                <5>2. s[j - (m - 1)] = "backslash"
                    BY <1>1, <5>1 DEF Runs
                <5> QED BY <5>1, <5>2
            <4> QED BY <4>1, <4>2
        <3> QED BY <3>1, <3>2 DEF Runs
    <2>2. t > 0
        BY <1>1, <2>1
    <2>3. t - 1 \in Runs(s, i, j)
        <3>1. t - 1 \in 0..(j - 1 - i)
            BY <1>1, <2>2 DEF Runs
        <3>2. ASSUME NEW m \in 1..(t - 1) PROVE s[j - m] = "backslash"
            <4>1. m + 1 \in 1..t /\ (j + 1) - (m + 1) = j - m
                BY <1>1
            <4>2. s[(j + 1) - (m + 1)] = "backslash"
                BY <1>1, <4>1 DEF Runs
            <4> QED BY <4>1, <4>2
        <3> QED BY <3>1, <3>2 DEF Runs
    <2>4. t = r + 1
        BY <1>1, <2>1, <2>3
    <2> QED BY <1>2, <1>3, <2>4 DEF r, t
<1>4. CASE s[j] # "backslash"
    <2>1. t = 0
        <3> SUFFICES ASSUME t > 0 PROVE FALSE
            BY <1>1
        <3>1. 1 \in 1..t /\ (j + 1) - 1 = j
            BY <1>1
        <3>2. s[(j + 1) - 1] = "backslash"
            BY <1>1, <3>1 DEF Runs
        <3> QED BY <1>4, <3>1, <3>2
    <2> QED BY <1>2, <1>4, <2>1 DEF t
<1> QED BY <1>3, <1>4

\* The bytes that are not in a string.
Outside(s) == {i \in 1..Len(s) : ~ScanOf(s)[i - 1].inString}

\* After the quote that begins it a string goes on until it is closed, and a byte of
\* it is escaped when it follows an odd number of backslashes.
LEMMA InsideString ==
    ASSUME NEW b \in Seq(Byte), NEW i \in Outside(b), b[i] = "quote",
           NEW j \in (i + 1)..(Len(b) + 1),
           \A q \in (i + 1)..(j - 1) : ~(b[q] = "quote" /\ Run(b, i, q) % 2 = 0)
    PROVE  /\ ScanOf(b)[j - 1].inString
           /\ ScanOf(b)[j - 1].escaped <=> Run(b, i, j) % 2 = 1
<1> DEFINE f == ScanOf(b)
           P(k) == f[i + k].inString /\ (f[i + k].escaped <=> Run(b, i, i + k + 1) % 2 = 1)
           S == {k \in Nat : i + k + 1 <= j => P(k)}
<1>1. i \in 1..Len(b) /\ ~f[i - 1].inString /\ Len(b) \in Nat
    BY DEF Outside
<1>2. 0 \in S
    <2>1. /\ i - 1 \in 0..(Len(b) - 1) /\ i - 1 \in 0..Len(b) /\ (i - 1) + 1 = i
          /\ i + 0 = i /\ i + 0 + 1 = i + 1 /\ i \in Nat /\ i < i + 1 /\ i + 1 \in Nat
        BY <1>1
    <2>2. IsScan(f[i - 1]) /\ f[i] = Scanned(f[i - 1], b[i])
        BY <2>1, ScanTypes
    <2>3. f[i].inString /\ ~f[i].escaped
        BY <1>1, <2>2, ScannedParts
    <2>4. Run(b, i, i + 1) % 2 = 0
        <3>1. Run(b, i, i + 1) = 0
            BY <2>1, RunGrows
        <3> QED BY <3>1
    <2>5. P(0)
        BY <2>1, <2>3, <2>4
    <2> QED BY <2>5
<1>3. ASSUME NEW k \in Nat, k \in S PROVE k + 1 \in S
    <2> SUFFICES ASSUME i + (k + 1) + 1 <= j PROVE P(k + 1)
        OBVIOUS
    <2> DEFINE q == i + k + 1
               r == Run(b, i, q)
               t == Run(b, i, q + 1)
    <2>1. /\ P(k) /\ q \in (i + 1)..(j - 1) /\ q \in Nat /\ i \in Nat /\ i < q
          /\ i + k \in 0..(Len(b) - 1) /\ i + k \in 0..Len(b)
          /\ (i + k) + 1 = q /\ i + (k + 1) = q /\ i + (k + 1) + 1 = q + 1
        BY <1>1, <1>3
    <2>2. IsScan(f[i + k]) /\ f[q] = Scanned(f[i + k], b[q])
        BY <2>1, ScanTypes
    <2>3. /\ f[q].escaped <=> ~f[i + k].escaped /\ b[q] = "backslash"
          /\ f[q].inString <=> f[i + k].escaped \/ b[q] # "quote"
        BY <2>1, <2>2, ScannedParts
    <2>4. r \in Nat /\ t = IF b[q] = "backslash" THEN r + 1 ELSE 0
        BY <2>1, RunGrows, RunIsLongest
    <2>5. /\ f[i + k].escaped <=> r % 2 = 1
          /\ ~(b[q] = "quote" /\ r % 2 = 0)
        BY <2>1
    <2> HIDE DEF f, r, t
    <2>6. f[q].inString /\ (f[q].escaped <=> t % 2 = 1)
        <3>1. r % 2 \in {0, 1} /\ ((r + 1) % 2 = 1 <=> r % 2 = 0) /\ 0 % 2 = 0
            BY <2>4
        <3> QED BY <2>3, <2>4, <2>5, <3>1
    <2> QED BY <2>1, <2>6 DEF t
<1>4. Nat \subseteq S
    <2> HIDE DEF S
    <2> QED BY <1>2, <1>3, NumbersInduction
<1>5. PICK k \in Nat : i + k = j - 1 /\ i + k + 1 = j
    <2>1. j - 1 - i \in Nat /\ i + (j - 1 - i) = j - 1 /\ i + (j - 1 - i) + 1 = j
        BY <1>1
    <2> QED BY <2>1
<1>6. P(k)
    <2>1. k \in S /\ i + k + 1 <= j
        BY <1>1, <1>4, <1>5
    <2> HIDE DEF P
    <2> QED BY <2>1
<1> QED BY <1>5, <1>6
\* A lexeme goes on inside its string, and what follows it is outside.
LEMMA LexemesEnd ==
    ASSUME NEW b \in Seq(Byte), NEW i \in Outside(b)
    PROVE  /\ LexemeEnd(b, i) \in i..Len(b)
           /\ \A q \in (i + 1)..LexemeEnd(b, i) : ScanOf(b)[q - 1].inString
           /\ LexemeEnd(b, i) = Len(b) \/ ~ScanOf(b)[LexemeEnd(b, i)].inString
<1> DEFINE f == ScanOf(b)
           n == Len(b)
           e == LexemeEnd(b, i)
<1>1. i \in 1..n /\ n \in Nat /\ ~f[i - 1].inString
    BY DEF Outside
<1>2. CASE b[i] # "quote"
    <2>1. e = i
        BY <1>2, Zenon DEF LexemeEnd
    <2>2. /\ i - 1 \in 0..(n - 1) /\ i - 1 \in 0..n /\ (i - 1) + 1 = i
          /\ \A q \in (i + 1)..i : FALSE
        BY <1>1
    <2>3. IsScan(f[i - 1]) /\ f[i] = Scanned(f[i - 1], b[i])
        BY <2>2, ScanTypes
    <2>4. ~f[i].inString
        BY <1>1, <1>2, <2>3, ScannedParts
    <2> HIDE DEF f, e
    <2> QED BY <1>1, <2>1, <2>2, <2>4 DEF f, e
<1>3. CASE b[i] = "quote"
    <2> DEFINE Q == {j \in (i + 1)..n : b[j] = "quote" /\ Run(b, i, j) % 2 = 0}
               D == Q \cup {n}
    <2>1. e = Min(D)
        BY <1>3, Zenon DEF LexemeEnd
    <2>2. D \in SUBSET Nat /\ D # {} /\ (\A j \in Q : j \in (i + 1)..n) /\ \A j \in D : j \in i..n
        BY <1>1
    <2>3. e \in D /\ \A j \in D : e <= j
        <3> HIDE DEF D
        <3> QED BY <2>1, <2>2, MinOfNumbers
    <2>4. e \in i..n
        BY <2>2, <2>3
    <2> HIDE DEF e
    <2>5. ASSUME NEW q \in (i + 1)..(n + 1), q <= e \/ q = e
          PROVE  f[q - 1].inString /\ (f[q - 1].escaped <=> Run(b, i, q) % 2 = 1)
        <3>1. ASSUME NEW j \in (i + 1)..(q - 1)
              PROVE  ~(b[j] = "quote" /\ Run(b, i, j) % 2 = 0)
            <4>1. j < e /\ j \in (i + 1)..n
                BY <1>1, <2>4, <2>5
            <4>2. j \notin Q
                <5> HIDE DEF Q
                <5> QED BY <2>2, <2>3, <2>4, <4>1
            <4> QED BY <4>1, <4>2
        <3> QED BY <1>3, <3>1, InsideString
    <2>6. \A q \in (i + 1)..e : f[q - 1].inString
        <3> SUFFICES ASSUME NEW q \in (i + 1)..e PROVE f[q - 1].inString
            OBVIOUS
        <3>1. q \in (i + 1)..(n + 1) /\ q <= e
            BY <1>1, <2>4
        <3> QED BY <2>5, <3>1
    <2>7. e = n \/ ~f[e].inString
        <3> SUFFICES ASSUME e # n PROVE ~f[e].inString
            OBVIOUS
        <3>1. e \in Q /\ e \in (i + 1)..n /\ e \in (i + 1)..(n + 1) /\ Run(b, i, e) % 2 # 1
            BY <1>1, <2>3
        <3>2. f[e - 1].inString /\ ~f[e - 1].escaped
            BY <2>5, <3>1
        <3>3. e - 1 \in 0..(n - 1) /\ e - 1 \in 0..n /\ (e - 1) + 1 = e
            BY <1>1, <3>1
        <3>4. IsScan(f[e - 1]) /\ f[e] = Scanned(f[e - 1], b[e])
            BY <3>3, ScanTypes
        <3> QED BY <3>1, <3>2, <3>4, ScannedParts
    <2> HIDE DEF f
    <2> QED BY <2>4, <2>6, <2>7 DEF e, f
<1> QED BY <1>2, <1>3

\* So the bytes that start a lexeme are those that are not in a string.
LEMMA LexemesStartOutside ==
    ASSUME NEW b \in Seq(Byte)
    PROVE  LexemeStarts(b) = Outside(b)
<1> DEFINE f == ScanOf(b)
           n == Len(b)
           Closed(D) == 1 \in D /\ \A d \in D \ {n + 1} : LexemeEnd(b, d) + 1 \in D
<1>1. n \in Nat /\ Outside(b) \in SUBSET (1..n)
    BY DEF Outside
<1>2. \A i \in 1..n : i \in LexemeStarts(b) <=>
                        \A D \in SUBSET (1..(n + 1)) : Closed(D) => i \in D
    BY Zenon DEF LexemeStarts
<1>3. n > 0 => 1 \in Outside(b)
    <2>1. ~f[0].inString
        BY ScanTypes DEF NewBudget
    <2> QED BY <2>1, <1>1 DEF Outside
<1>4. ASSUME NEW d \in Outside(b), LexemeEnd(b, d) # n PROVE LexemeEnd(b, d) + 1 \in Outside(b)
    <2> DEFINE e == LexemeEnd(b, d)
    <2>1. e \in d..n /\ ~f[e].inString /\ d \in 1..n
        BY <1>1, <1>4, LexemesEnd
    <2> HIDE DEF e, f
    <2>2. e + 1 \in 1..n /\ (e + 1) - 1 = e
        BY <1>1, <1>4, <2>1 DEF e
    <2> QED BY <2>1, <2>2 DEF Outside, e, f
\* The bytes outside form a closed set.
<1>5. ASSUME NEW i \in 1..n, i \in LexemeStarts(b) PROVE i \in Outside(b)
    <2> DEFINE D == Outside(b) \cup {n + 1}
    <2>1. D \in SUBSET (1..(n + 1))
        BY <1>1
    <2>2. 1 \in D
        BY <1>1, <1>3
    <2>3. ASSUME NEW d \in D \ {n + 1} PROVE LexemeEnd(b, d) + 1 \in D
        BY <1>4, <2>3
    <2>4. Closed(D)
        BY <2>2, <2>3
    <2>5. i \in D
        <3> HIDE DEF D, Closed
        <3> QED BY <1>2, <1>5, <2>1, <2>4
    <2>6. i # n + 1
        BY <1>1
    <2> QED BY <2>5, <2>6
\* Every closed set has them all.
<1>6. ASSUME NEW D \in SUBSET (1..(n + 1)), Closed(D) PROVE Outside(b) \subseteq D
    <2> DEFINE S == {k \in Nat : \A i \in Outside(b) : i <= k => i \in D}
    <2>1. 0 \in S
        BY <1>1
    <2>2. ASSUME NEW k \in Nat, k \in S PROVE k + 1 \in S
        <3> SUFFICES ASSUME k + 1 \in Outside(b) PROVE k + 1 \in D
            BY <1>1, <2>2
        <3>1. CASE k = 0
            BY <1>6, <3>1
        <3>2. CASE k # 0
            <4> DEFINE P == {q \in Outside(b) : q <= k}
                       p == Max(P)
            <4>1. P \in SUBSET Nat /\ (\A x \in P : x <= k) /\ 1 \in P
                BY <1>1, <1>3, <3>2
            <4>2. p \in P /\ \A x \in P : x <= p
                <5> HIDE DEF P
                <5> QED BY <4>1, MaxOfNumbers
            <4>3. p \in Outside(b) /\ p <= k /\ p \in 1..n /\ p \in D
                BY <1>1, <2>2, <4>2
            <4>4. \A x \in Outside(b) : x <= k => x <= p
                BY <4>2
            <4> HIDE DEF p, P
            <4> DEFINE e == LexemeEnd(b, p)
            <4>5. /\ e \in p..n /\ (\A q \in (p + 1)..e : f[q - 1].inString)
                  /\ e + 1 \in D
                BY <1>1, <1>6, <4>3, LexemesEnd
            <4>6. e # n => e + 1 \in Outside(b)
                BY <1>4, <4>3
            <4> HIDE DEF e, f
            <4>7. e <= k
                <5> SUFFICES ASSUME e >= k + 1 PROVE FALSE
                    BY <1>1, <4>5
                <5>1. k + 1 \in (p + 1)..e
                    BY <4>3, <4>5
                <5>2. f[(k + 1) - 1].inString
                    BY <4>5, <5>1
                <5> QED BY <5>2 DEF Outside, f
            <4>8. e # n
                BY <1>1, <4>7
            <4>9. ~(e + 1 <= k)
                BY <1>1, <4>3, <4>4, <4>5, <4>6, <4>8
            <4>10. e + 1 = k + 1
                BY <1>1, <4>5, <4>7, <4>9
            <4> QED BY <4>5, <4>10
        <3> QED BY <3>1, <3>2
    <2>3. Nat \subseteq S
        <3> HIDE DEF S
        <3> QED BY <2>1, <2>2, NumbersInduction
    <2> QED BY <1>1, <2>3
<1>7. LexemeStarts(b) \subseteq 1..n
    BY Zenon DEF LexemeStarts
<1> HIDE DEF Closed
<1> QED BY <1>1, <1>2, <1>5, <1>6, <1>7
-----------------------------------------------------------------------------
(* The limits of the structure.                                            *)

\* The bytes of a kind that start a lexeme from i to j.
Marks(s, kinds, i, j) == {p \in Outside(s) \cap (i..j) : s[p] \in kinds}
Marked(s, kinds, i, j) == Cardinality(Marks(s, kinds, i, j))

LEMMA MarkedByOneMore ==
    ASSUME NEW b \in Seq(Byte), NEW kinds, NEW i \in Nat, NEW j \in Nat
    PROVE  /\ Marked(b, kinds, i, j) \in Nat
           /\ i > j => Marked(b, kinds, i, j) = 0
           /\ i <= j + 1 =>
                Marked(b, kinds, i, j + 1) =
                    IF j + 1 \in Outside(b) /\ b[j + 1] \in kinds
                    THEN Marked(b, kinds, i, j) + 1 ELSE Marked(b, kinds, i, j)
<1> DEFINE M == Marks(b, kinds, i, j)
           N == Marks(b, kinds, i, j + 1)
<1>1. IsFiniteSet(M)
    <2>1. IsFiniteSet(i..j) /\ M \subseteq i..j
        BY FS_Interval DEF Marks
    <2> QED BY <2>1, FS_Subset
<1>2. Cardinality(M) \in Nat
    BY <1>1, FS_CardinalityType
<1>3. ASSUME i > j PROVE Cardinality(M) = 0
    <2>1. M = {}
        BY <1>3 DEF Marks
    <2> QED BY <2>1, FS_EmptySet
<1>4. ASSUME i <= j + 1
      PROVE  Cardinality(N) = IF j + 1 \in Outside(b) /\ b[j + 1] \in kinds
                              THEN Cardinality(M) + 1 ELSE Cardinality(M)
    <2>1. i..(j + 1) = (i..j) \cup {j + 1} /\ j + 1 \notin i..j
        BY <1>4
    <2>2. CASE j + 1 \in Outside(b) /\ b[j + 1] \in kinds
        <3>1. N = M \cup {j + 1} /\ j + 1 \notin M
            BY <2>1, <2>2 DEF Marks
        <3> QED BY <1>1, <2>2, <3>1, FS_AddElement
    <2>3. CASE ~(j + 1 \in Outside(b) /\ b[j + 1] \in kinds)
        <3>1. N = M
            BY <2>1, <2>3 DEF Marks
        <3> QED BY <2>3, <3>1
    <2> QED BY <2>2, <2>3
<1> QED BY <1>2, <1>3, <1>4 DEF Marked

Opened(s, i, j) == Marked(s, {"open"}, i, j)
Closed(s, i, j) == Marked(s, {"close"}, i, j)
Tokens(s, j)    == Marked(s, {"open", "separator"}, 1, j)

\* The step from one byte of a body to the next.
LEMMA NextByte ==
    ASSUME NEW b \in Seq(Byte), NEW k \in Nat, k + 1 <= Len(b)
    PROVE  LET x == ScanOf(b)[k]
               y == ScanOf(b)[k + 1]
           IN  /\ IsScan(x) /\ IsScan(y) /\ y = Scanned(x, b[k + 1])
               /\ k + 1 \in Outside(b) <=> ~x.inString
<1>1. k \in 0..Len(b) /\ k \in 0..(Len(b) - 1) /\ k + 1 \in 0..Len(b)
      /\ k + 1 \in 1..Len(b) /\ (k + 1) - 1 = k
    OBVIOUS
<1>2. k + 1 \in Outside(b) <=> ~ScanOf(b)[k].inString
    BY <1>1 DEF Outside
<1> QED BY <1>1, <1>2, ScanTypes

LEMMA TokensAreCounted ==
    ASSUME NEW b \in Seq(Byte), NEW j \in 0..Len(b)
    PROVE  ScanOf(b)[j].tokens = Tokens(b, j)
<1> DEFINE f == ScanOf(b)
           S == {k \in Nat : k <= Len(b) => f[k].tokens = Tokens(b, k)}
<1>1. 0 \in S
    <2>1. f[0].tokens = 0
        BY ScanTypes DEF NewBudget
    <2>2. Tokens(b, 0) = 0
        BY MarkedByOneMore DEF Tokens
    <2> QED BY <2>1, <2>2
<1>2. ASSUME NEW k \in Nat, k \in S PROVE k + 1 \in S
    <2> SUFFICES ASSUME k + 1 <= Len(b) PROVE f[k + 1].tokens = Tokens(b, k + 1)
        OBVIOUS
    <2> DEFINE x == f[k]
               y == f[k + 1]
    <2>1. /\ IsScan(x) /\ y = Scanned(x, b[k + 1])
          /\ k + 1 \in Outside(b) <=> ~x.inString
        BY NextByte, Zenon
    <2>2. x.tokens = Tokens(b, k)
        BY <1>2
    <2>3. Tokens(b, k + 1) =
            IF k + 1 \in Outside(b) /\ b[k + 1] \in {"open", "separator"}
            THEN Tokens(b, k) + 1 ELSE Tokens(b, k)
        <3>1. 1 \in Nat /\ 1 <= k + 1
            OBVIOUS
        <3>2. PICK kinds : kinds = {"open", "separator"}
            OBVIOUS
        <3>3. Marked(b, kinds, 1, k + 1) =
                IF k + 1 \in Outside(b) /\ b[k + 1] \in kinds
                THEN Marked(b, kinds, 1, k) + 1 ELSE Marked(b, kinds, 1, k)
            BY <3>1, MarkedByOneMore
        <3> QED BY <3>2, <3>3, Zenon DEF Tokens
    <2> HIDE DEF x, y
    <2>4. y.tokens = Tokens(b, k + 1)
        BY <2>1, <2>2, <2>3, ScannedParts
    <2> QED BY <2>4 DEF y
<1>3. Nat \subseteq S
    <2> HIDE DEF S
    <2> QED BY <1>1, <1>2, NumbersInduction
<1> QED BY <1>3

\* The depth is that of the deepest stretch that ends here: none is deeper, and unless
\* it is zero some stretch is as deep.
DeepestTo(b, k) ==
    LET x == ScanOf(b)[k] IN
    /\ \A i \in 1..(k + 1) : Opened(b, i, k) <= x.depth + Closed(b, i, k)
    /\ x.depth > 0 =>
        \E i \in Outside(b) : i <= k /\ Opened(b, i, k) = x.depth + Closed(b, i, k)

LEMMA DepthIsDeepest ==
    ASSUME NEW b \in Seq(Byte), NEW j \in 0..Len(b)
    PROVE  DeepestTo(b, j)
<1> DEFINE f == ScanOf(b)
           S == {k \in Nat : k <= Len(b) => DeepestTo(b, k)}
<1>1. 0 \in S
    <2>1. f[0].depth = 0
        BY ScanTypes DEF NewBudget
    <2>2. \A i \in 1..(0 + 1) : Opened(b, i, 0) = 0 /\ Closed(b, i, 0) = 0
        BY MarkedByOneMore DEF Opened, Closed
    <2> QED BY <2>1, <2>2 DEF DeepestTo
<1>2. ASSUME NEW k \in Nat, k \in S PROVE k + 1 \in S
    <2> SUFFICES ASSUME k + 1 <= Len(b) PROVE DeepestTo(b, k + 1)
        OBVIOUS
    <2> DEFINE x == f[k]
               y == f[k + 1]
               c == b[k + 1]
    <2>1. /\ IsScan(x) /\ IsScan(y) /\ y = Scanned(x, c)
          /\ k + 1 \in Outside(b) <=> ~x.inString
        BY NextByte, Zenon
    <2>2. x.depth \in Nat /\ y.depth \in Nat
        BY <2>1 DEF IsScan
    <2>3. /\ \A i \in 1..(k + 1) : Opened(b, i, k) <= x.depth + Closed(b, i, k)
          /\ x.depth > 0 =>
                \E i \in Outside(b) : i <= k /\ Opened(b, i, k) = x.depth + Closed(b, i, k)
        BY <1>2 DEF DeepestTo
    <2>4. ASSUME NEW i \in 1..(k + 1)
          PROVE  /\ Opened(b, i, k) \in Nat /\ Closed(b, i, k) \in Nat
                 /\ Opened(b, i, k + 1) = IF k + 1 \in Outside(b) /\ c = "open"
                                          THEN Opened(b, i, k) + 1 ELSE Opened(b, i, k)
                 /\ Closed(b, i, k + 1) = IF k + 1 \in Outside(b) /\ c = "close"
                                          THEN Closed(b, i, k) + 1 ELSE Closed(b, i, k)
        <3>1. i \in Nat /\ i <= k + 1
            OBVIOUS
        <3>2. c \in {"open"} <=> c = "open"
            OBVIOUS
        <3>3. c \in {"close"} <=> c = "close"
            OBVIOUS
        <3> QED BY <3>1, <3>2, <3>3, MarkedByOneMore DEF Opened, Closed
    <2>5. Opened(b, k + 2, k + 1) = 0 /\ Closed(b, k + 2, k + 1) = 0
          /\ Opened(b, k + 1, k) = 0 /\ Closed(b, k + 1, k) = 0
        BY MarkedByOneMore, SMTT(30) DEF Opened, Closed
    <2>6. \/ (x.inString \/ c \notin {"open", "close"}) /\ y.depth = x.depth
          \/ ~x.inString /\ c = "open" /\ y.depth = x.depth + 1
          \/ ~x.inString /\ c = "close" /\ y.depth = IF x.depth > 0 THEN x.depth - 1 ELSE 0
        BY <2>1, ScannedParts
    <2> HIDE DEF x, y, c
    <2> DEFINE Moves(i) ==
            \/ /\ y.depth = x.depth
               /\ Opened(b, i, k + 1) = Opened(b, i, k) /\ Closed(b, i, k + 1) = Closed(b, i, k)
            \/ /\ y.depth = x.depth + 1
               /\ Opened(b, i, k + 1) = Opened(b, i, k) + 1
               /\ Closed(b, i, k + 1) = Closed(b, i, k)
            \/ /\ y.depth = IF x.depth > 0 THEN x.depth - 1 ELSE 0
               /\ Opened(b, i, k + 1) = Opened(b, i, k)
               /\ Closed(b, i, k + 1) = Closed(b, i, k) + 1
    <2>7. ASSUME NEW i \in 1..(k + 1) PROVE Moves(i)
        BY <2>1, <2>4, <2>6
    <2>8. ASSUME NEW i \in 1..((k + 1) + 1)
          PROVE  Opened(b, i, k + 1) <= y.depth + Closed(b, i, k + 1)
        <3>1. CASE i = k + 2
            BY <2>2, <2>5, <3>1
        <3>2. CASE i # k + 2
            <4>1. i \in 1..(k + 1)
                BY <3>2
            <4>2. Opened(b, i, k) <= x.depth + Closed(b, i, k)
                BY <2>3, <4>1
            <4>3. Moves(i)
                BY <2>7, <4>1
            <4>4. Opened(b, i, k) \in Nat /\ Closed(b, i, k) \in Nat
                BY <2>4, <4>1
            <4> QED BY <2>2, <4>2, <4>3, <4>4, SMTT(30)
        <3> QED BY <3>1, <3>2
    <2>9. ASSUME y.depth > 0
          PROVE  \E i \in Outside(b) :
                    i <= k + 1 /\ Opened(b, i, k + 1) = y.depth + Closed(b, i, k + 1)
        <3>1. CASE x.depth > 0
            <4>1. PICK i \in Outside(b) :
                    i <= k /\ Opened(b, i, k) = x.depth + Closed(b, i, k)
                BY <2>3, <3>1
            <4>2. i \in 1..(k + 1) /\ i <= k + 1
                BY <4>1 DEF Outside
            <4>3. Opened(b, i, k + 1) = y.depth + Closed(b, i, k + 1)
                <5>1. Moves(i)
                    BY <2>7, <4>2
                <5>2. Opened(b, i, k) \in Nat /\ Closed(b, i, k) \in Nat
                    BY <2>4, <4>2
                <5> QED BY <2>2, <3>1, <4>1, <5>1, <5>2
            <4> QED BY <4>2, <4>3
        <3>2. CASE x.depth = 0
            <4>1. k + 1 \in Outside(b) /\ c = "open" /\ y.depth = 1
                BY <2>1, <2>2, <2>6, <2>9, <3>2
            <4>2. Opened(b, k + 1, k + 1) = 1 /\ Closed(b, k + 1, k + 1) = 0
                BY <2>4, <2>5, <4>1
            <4> QED BY <4>1, <4>2
        <3> QED BY <2>2, <3>1, <3>2
    <2> QED BY <2>8, <2>9 DEF DeepestTo, y
<1>3. Nat \subseteq S
    <2> HIDE DEF S
    <2> QED BY <1>1, <1>2, NumbersInduction
<1> QED BY <1>3
\* The scanner reports a body whose lexemes are too many, or somewhere too deep, and no
\* other: the structure part of IsAcceptable.
LEMMA OverHasReasons ==
    ASSUME NEW b \in Seq(Byte), NEW e \in 0..Len(b), ScanOf(b)[e].over
    PROVE  \/ Tokens(b, e) > MaxTokens
           \/ \E i \in Outside(b), j \in Outside(b) :
                i <= j /\ j <= e /\ Opened(b, i, j) > MaxDepth + Closed(b, i, j)
<1> DEFINE f == ScanOf(b)
           Reason(k) ==
                \/ f[k].tokens > MaxTokens
                \/ \E i \in Outside(b), j \in Outside(b) :
                    i <= j /\ j <= k /\ Opened(b, i, j) > MaxDepth + Closed(b, i, j)
           S == {k \in Nat : k <= Len(b) /\ f[k].over => Reason(k)}
<1>1. 0 \in S
    <2>1. ~f[0].over
        BY ScanTypes DEF NewBudget
    <2> QED BY <2>1
<1>2. ASSUME NEW k \in Nat, k \in S PROVE k + 1 \in S
    <2> SUFFICES ASSUME k + 1 <= Len(b), f[k + 1].over PROVE Reason(k + 1)
        OBVIOUS
    <2> DEFINE x == f[k]
               y == f[k + 1]
    <2>1. /\ IsScan(x) /\ IsScan(y) /\ y = Scanned(x, b[k + 1])
          /\ k + 1 \in Outside(b) <=> ~x.inString
        BY NextByte, Zenon
    <2>2. /\ x.tokens \in Nat /\ y.tokens \in Nat /\ y.depth \in Nat
          /\ MaxTokens \in Nat /\ MaxDepth \in Nat
        BY <2>1, LimitsAssumption DEF IsScan
    <2>3. x.over => Reason(k)
        BY <1>2
    <2>4. y.tokens >= x.tokens
        <3> HIDE DEF x, y
        <3> QED BY <2>1, <2>2, ScannedParts
    <2>5. CASE x.over
        <3>1. CASE x.tokens > MaxTokens
            BY <2>2, <2>4, <3>1
        <3>2. CASE ~(x.tokens > MaxTokens)
            <4>1. PICK i \in Outside(b), j \in Outside(b) :
                    i <= j /\ j <= k /\ Opened(b, i, j) > MaxDepth + Closed(b, i, j)
                BY <2>3, <2>5, <3>2
            <4>2. j <= k + 1
                BY <4>1 DEF Outside
            <4> QED BY <4>1, <4>2
        <3> QED BY <3>1, <3>2
    <2>6. CASE ~x.over
        <3>1. \/ y.tokens > MaxTokens
              \/ ~x.inString /\ b[k + 1] = "open" /\ y.depth > MaxDepth
            <4>1. y.over
                OBVIOUS
            <4> HIDE DEF x, y
            <4> QED BY <2>1, <2>6, <4>1, ScannedParts
        <3>2. CASE y.tokens > MaxTokens
            BY <3>2
        <3>3. CASE ~x.inString /\ y.depth > MaxDepth
            <4>1. k + 1 \in Outside(b) /\ k + 1 \in 0..Len(b) /\ y.depth > 0
                BY <2>1, <2>2, <3>3
            <4>2. PICK i \in Outside(b) :
                    i <= k + 1 /\ Opened(b, i, k + 1) = y.depth + Closed(b, i, k + 1)
                BY <4>1, DepthIsDeepest DEF DeepestTo
            <4>3. Closed(b, i, k + 1) \in Nat
                <5>1. i \in Nat
                    BY DEF Outside
                <5> QED BY <5>1, MarkedByOneMore DEF Closed
            <4> HIDE DEF y
            <4>4. Opened(b, i, k + 1) > MaxDepth + Closed(b, i, k + 1)
                BY <2>2, <3>3, <4>2, <4>3
            <4> QED BY <4>1, <4>2, <4>4
        <3> QED BY <3>1, <3>2, <3>3
    <2> QED BY <2>5, <2>6
<1>3. Nat \subseteq S
    <2> HIDE DEF S
    <2> QED BY <1>1, <1>2, NumbersInduction
<1>4. Reason(e)
    BY <1>3
<1>5. f[e].tokens = Tokens(b, e)
    BY TokensAreCounted
<1> QED BY <1>4, <1>5

LEMMA NotOverKeepsLimits ==
    ASSUME NEW b \in Seq(Byte), ~ScanOf(b)[Len(b)].over
    PROVE  /\ Tokens(b, Len(b)) <= MaxTokens
           /\ \A i \in Outside(b), j \in Outside(b) :
                i <= j => Opened(b, i, j) <= MaxDepth + Closed(b, i, j)
<1>1. Len(b) \in 0..Len(b)
    OBVIOUS
<1>2. Tokens(b, Len(b)) <= MaxTokens
    <2>1. IsScan(ScanOf(b)[Len(b)])
        BY <1>1, ScanTypes
    <2>2. ScanOf(b)[Len(b)].tokens = Tokens(b, Len(b))
        BY <1>1, TokensAreCounted
    <2> QED BY <2>1, <2>2 DEF IsScan
<1>3. ASSUME NEW i \in Outside(b), NEW j \in Outside(b), i <= j
      PROVE  Opened(b, i, j) <= MaxDepth + Closed(b, i, j)
    <2>1. j \in 0..Len(b) /\ Len(b) \in j..Len(b) /\ i \in 1..(j + 1) /\ i \in Nat /\ j \in Nat
        BY <1>3 DEF Outside
    <2>2. IsScan(ScanOf(b)[j]) /\ ~ScanOf(b)[j].over
        BY <2>1, ScanTypes, OverStays
    <2>3. Opened(b, i, j) <= ScanOf(b)[j].depth + Closed(b, i, j)
        BY <2>1, DepthIsDeepest DEF DeepestTo
    <2>4. Opened(b, i, j) \in Nat /\ Closed(b, i, j) \in Nat
        BY <2>1, MarkedByOneMore DEF Opened, Closed
    <2>5. ScanOf(b)[j].depth \in Nat /\ ScanOf(b)[j].depth <= MaxDepth /\ MaxDepth \in Nat
        BY <2>2, LimitsAssumption DEF IsScan
    <2> QED BY <2>3, <2>4, <2>5
<1> QED BY <1>2, <1>3

\* What IsAcceptable says of the structure of a body.
WithinLimits(s) ==
    /\ Tokens(s, Len(s)) <= MaxTokens
    /\ \A i \in Outside(s), j \in Outside(s) :
        i <= j => Opened(s, i, j) <= MaxDepth + Closed(s, i, j)

LEMMA ScannerDecides ==
    ASSUME NEW b \in Seq(Byte)
    PROVE  WithinLimits(b) <=> ~ScanOf(b)[Len(b)].over
<1>1. ASSUME ScanOf(b)[Len(b)].over, WithinLimits(b) PROVE FALSE
    <2>1. /\ Len(b) \in 0..Len(b) /\ Len(b) \in Nat /\ MaxTokens \in Nat /\ MaxDepth \in Nat
        BY LimitsAssumption
    <2>2. Tokens(b, Len(b)) \in Nat
        BY <2>1, MarkedByOneMore DEF Tokens
    <2>3. PICK i \in Outside(b), j \in Outside(b) :
            i <= j /\ Opened(b, i, j) > MaxDepth + Closed(b, i, j)
        BY <1>1, <2>1, <2>2, OverHasReasons DEF WithinLimits
    <2>4. i \in Nat /\ j \in Nat
        BY DEF Outside
    <2>5. Opened(b, i, j) \in Nat /\ Closed(b, i, j) \in Nat
        BY <2>4, MarkedByOneMore DEF Opened, Closed
    <2> QED BY <1>1, <2>1, <2>3, <2>5 DEF WithinLimits
<1> QED BY <1>1, NotOverKeepsLimits DEF WithinLimits
-----------------------------------------------------------------------------
(* The decoder.                                                            *)

DecodeStates == {"ready", "inside", "broken"}

LEMMA DecodeSteps ==
    ASSUME NEW b \in Seq(Byte)
    PROVE  /\ DecodeOf(b)[0] = "ready"
           /\ \A k \in 0..(Len(b) - 1) : DecodeOf(b)[k + 1] = Decoded(DecodeOf(b)[k], b[k + 1])
<1>1. "decoder" # "budget"
    OBVIOUS
<1> QED BY <1>1, BodyTraces, Zenon DEF Traces, Turn

LEMMA BrokenStays ==
    ASSUME NEW b \in Seq(Byte), NEW l \in 0..Len(b), NEW e \in l..Len(b),
           DecodeOf(b)[l] = "broken"
    PROVE  DecodeOf(b)[e] = "broken"
<1> DEFINE f == DecodeOf(b)
           S == {k \in Nat : l + k <= Len(b) => f[l + k] = "broken"}
<1>1. 0 \in S
    OBVIOUS
<1>2. ASSUME NEW k \in Nat, k \in S PROVE k + 1 \in S
    <2> SUFFICES ASSUME l + (k + 1) <= Len(b) PROVE f[l + (k + 1)] = "broken"
        OBVIOUS
    <2>1. /\ l + k \in 0..(Len(b) - 1) /\ (l + k) + 1 = l + (k + 1) /\ f[l + k] = "broken"
        BY <1>2
    <2>2. f[l + (k + 1)] = Decoded(f[l + k], b[l + (k + 1)])
        BY <2>1, DecodeSteps
    <2> HIDE DEF f
    <2> QED BY <2>1, <2>2 DEF Decoded
<1>3. e - l \in S /\ l + (e - l) = e
    <2> HIDE DEF S
    <2> QED BY <1>1, <1>2, NumbersInduction
<1> QED BY <1>3

\* The bytes up to k make letters, but for a last one that is still open.
EncodedTo(s, k) ==
    /\ \A i \in 1..k : s[i] = "continuation" => i > 1 /\ s[i - 1] = "lead"
    /\ \A i \in 1..(k - 1) : s[i] = "lead" => s[i + 1] = "continuation"
StateAt(s, k) == IF k > 0 /\ s[k] = "lead" THEN "inside" ELSE "ready"

LEMMA DecodeAgrees ==
    ASSUME NEW b \in Seq(Byte), NEW j \in 0..Len(b)
    PROVE  DecodeOf(b)[j] = IF EncodedTo(b, j) THEN StateAt(b, j) ELSE "broken"
<1> DEFINE f == DecodeOf(b)
           S == {k \in Nat : k <= Len(b) =>
                    f[k] = IF EncodedTo(b, k) THEN StateAt(b, k) ELSE "broken"}
<1>1. 0 \in S
    <2>1. EncodedTo(b, 0) /\ StateAt(b, 0) = "ready"
        BY DEF EncodedTo, StateAt
    <2> QED BY <2>1, DecodeSteps
<1>2. ASSUME NEW k \in Nat, k \in S PROVE k + 1 \in S
    <2> SUFFICES ASSUME k + 1 <= Len(b)
                 PROVE  f[k + 1] = IF EncodedTo(b, k + 1) THEN StateAt(b, k + 1) ELSE "broken"
        OBVIOUS
    <2> DEFINE c == b[k + 1]
               x == f[k]
    <2>1. f[k + 1] = Decoded(x, c)
        <3>1. k \in 0..(Len(b) - 1)
            OBVIOUS
        <3> QED BY <3>1, DecodeSteps
    <2>2. x = IF EncodedTo(b, k) THEN StateAt(b, k) ELSE "broken"
        BY <1>2
    <2>3. /\ 1..(k + 1) = (1..k) \cup {k + 1} /\ (k + 1) - 1 = k
          /\ k > 0 => 1..k = (1..(k - 1)) \cup {k}
          /\ k > 0 <=> k + 1 > 1
          /\ k = 0 => 1..k = {}
          /\ k > 0 \/ k = 0
        OBVIOUS
    <2>4. EncodedTo(b, k + 1) <=>
            /\ EncodedTo(b, k)
            /\ c = "continuation" <=> k > 0 /\ b[k] = "lead"
        <3>1. ASSUME EncodedTo(b, k + 1)
              PROVE  EncodedTo(b, k) /\ (c = "continuation" <=> k > 0 /\ b[k] = "lead")
            <4>1. \A i \in 1..k : b[i] = "continuation" => i > 1 /\ b[i - 1] = "lead"
                BY <2>3, <3>1 DEF EncodedTo
            <4>2. \A i \in 1..k : b[i] = "lead" => b[i + 1] = "continuation"
                BY <2>3, <3>1 DEF EncodedTo
            <4>3. c = "continuation" => k + 1 > 1 /\ b[(k + 1) - 1] = "lead"
                BY <2>3, <3>1 DEF EncodedTo
            <4>4. \A i \in 1..(k - 1) : i \in 1..k
                OBVIOUS
            <4>5. k > 0 => k \in 1..k
                OBVIOUS
            <4> QED BY <2>3, <4>1, <4>2, <4>3, <4>4, <4>5 DEF EncodedTo
        <3>2. ASSUME EncodedTo(b, k), c = "continuation" <=> k > 0 /\ b[k] = "lead"
              PROVE  EncodedTo(b, k + 1)
            <4>1. ASSUME NEW i \in 1..(k + 1), b[i] = "continuation"
                  PROVE  i > 1 /\ b[i - 1] = "lead"
                BY <2>3, <3>2, <4>1 DEF EncodedTo
            <4>2. ASSUME NEW i \in 1..((k + 1) - 1), b[i] = "lead"
                  PROVE  b[i + 1] = "continuation"
                BY <2>3, <3>2, <4>2 DEF EncodedTo
            <4> QED BY <4>1, <4>2 DEF EncodedTo
        <3> QED BY <3>1, <3>2
    <2>5. StateAt(b, k + 1) = IF c = "lead" THEN "inside" ELSE "ready"
        BY DEF StateAt
    <2>6. (StateAt(b, k) = "inside" <=> k > 0 /\ b[k] = "lead") /\ StateAt(b, k) # "broken"
        BY DEF StateAt
    <2> HIDE DEF f, x, c
    <2>7. f[k + 1] = IF x = "broken" \/ (x = "inside" <=> c # "continuation") THEN "broken"
                     ELSE IF c = "lead" THEN "inside" ELSE "ready"
        BY <2>1, Zenon DEF Decoded
    <2> QED BY <2>2, <2>4, <2>5, <2>6, <2>7
<1>3. Nat \subseteq S
    <2> HIDE DEF S
    <2> QED BY <1>1, <1>2, NumbersInduction
<1> QED BY <1>3

\* The encoding part of IsAcceptable.
LEMMA DecoderDecides ==
    ASSUME NEW b \in Seq(Byte)
    PROVE  WellEncoded(b) <=> DecodeOf(b)[Len(b)] = "ready"
<1> DEFINE n == Len(b)
<1>1. n \in Nat /\ n \in 0..n /\ DOMAIN b = 1..n
    OBVIOUS
<1>2. DecodeOf(b)[n] = IF EncodedTo(b, n) THEN StateAt(b, n) ELSE "broken"
    BY <1>1, DecodeAgrees
<1>3. ASSUME WellEncoded(b) PROVE EncodedTo(b, n) /\ StateAt(b, n) = "ready"
    <2>1. \A i \in 1..n : /\ b[i] = "lead" => i < n /\ b[i + 1] = "continuation"
                          /\ b[i] = "continuation" => i > 1 /\ b[i - 1] = "lead"
        BY <1>1, <1>3, Zenon DEF WellEncoded
    <2> HIDE DEF n
    <2>2. (\A i \in 1..(n - 1) : i \in 1..n) /\ (n > 0 => n \in 1..n /\ ~(n < n))
        BY <1>1
    <2> QED BY <2>1, <2>2 DEF EncodedTo, StateAt
<1>4. ASSUME EncodedTo(b, n), StateAt(b, n) = "ready" PROVE WellEncoded(b)
    <2> SUFFICES ASSUME NEW i \in 1..n
                 PROVE  /\ b[i] = "lead" => i < n /\ b[i + 1] = "continuation"
                        /\ b[i] = "continuation" => i > 1 /\ b[i - 1] = "lead"
        BY <1>1 DEF WellEncoded
    <2>1. CASE i = n
        BY <1>1, <1>4, <2>1 DEF EncodedTo, StateAt
    <2>2. CASE i # n
        <3>1. i \in 1..(n - 1)
            <4> HIDE DEF n
            <4> QED BY <1>1, <2>2
        <3> QED BY <1>1, <1>4, <3>1 DEF EncodedTo
    <2> QED BY <2>1, <2>2
<1>5. StateAt(b, n) # "broken"
    BY DEF StateAt
<1> QED BY <1>2, <1>3, <1>4, <1>5

-----------------------------------------------------------------------------
(* What is acceptable.                                                     *)

LEMMA AcceptableParts ==
    ASSUME NEW r, r.body \in Seq(Byte)
    PROVE  IsAcceptable(r) <=>
            /\ r.headers = "fine"
            /\ Len(r.body) <= MaxBytes /\ r.declared \in {None, Len(r.body)}
            /\ ~ScanOf(r.body)[Len(r.body)].over
            /\ r.post => /\ DecodeOf(r.body)[Len(r.body)] = "ready"
                         /\ ~Contains(r.body, "nul")
                         /\ r.body # <<>> => Head(r.body) # "mark"
<1> DEFINE b == r.body
           Count(kinds, i, j) == Cardinality({p \in Outside(b) \cap (i..j) : b[p] \in kinds})
           within == /\ Count({"open", "separator"}, 1, Len(b)) =< MaxTokens
                     /\ \A i \in Outside(b) : \A j \in Outside(b) \cap (i..Len(b)) :
                            Count({"open"}, i, j) =< MaxDepth + Count({"close"}, i, j)
<1>1. LexemeStarts(b) = Outside(b)
    BY LexemesStartOutside
<1>2. IsAcceptable(r) <=>
        /\ r.headers = "fine"
        /\ Len(b) =< MaxBytes /\ r.declared \in {None, Len(b)}
        /\ within
        /\ r.post => /\ WellEncoded(b) /\ ~Contains(b, "nul")
                     /\ b # <<>> => Head(b) # "mark"
    BY <1>1, Zenon DEF IsAcceptable
<1>3. within <=> WithinLimits(b)
    <2>1. \A kinds, i, j : Count(kinds, i, j) = Marked(b, kinds, i, j)
        BY Zenon DEF Marked, Marks
    <2>2. \A i, j \in Outside(b) : j \in i..Len(b) <=> i <= j
        BY DEF Outside
    <2> HIDE DEF Count, b
    <2> QED BY <2>1, <2>2, Zenon DEF WithinLimits, Tokens, Opened, Closed
<1>4. within <=> ~ScanOf(b)[Len(b)].over
    <2> HIDE DEF within
    <2> QED BY <1>3, ScannerDecides
<1>5. WellEncoded(b) <=> DecodeOf(b)[Len(b)] = "ready"
    BY DecoderDecides
<1> HIDE DEF within
<1> QED BY <1>2, <1>4, <1>5, Zenon DEF b
-----------------------------------------------------------------------------
(* The inductive invariant.                                                *)

\* What has been read is a part of the body that breaks no limit, and the scanner and
\* the decoder are where that part takes them.
Buffered ==
    /\ body \in Seq(Byte) /\ Len(body) <= Len(request.body) /\ Len(body) <= MaxBytes
    /\ body = SubSeq(request.body, 1, Len(body))
    /\ budget = ScanOf(request.body)[Len(body)] /\ ~budget.over
    /\ decoder = IF request.post THEN DecodeOf(request.body)[Len(body)] ELSE "ready"
    /\ decoder # "broken"
    /\ request.post => ~Contains(body, "nul")

\* The headers have passed.
Admitted ==
    /\ request.headers = "fine"
    /\ request.declared # None => request.declared <= MaxBytes

\* A reason to refuse, that lies in the request only if the request is not acceptable.
Justified(reason) ==
    /\ reason \in Disturbances \cup Faults
    /\ reason \in Faults => ~IsAcceptable(request)

\* What each phase has been through.
Phased ==
    /\ phase \in Phases /\ timed \in BOOLEAN /\ chunks \in 0..(MaxChunks + 1)
    /\ timed => phase \in {"reading", "refusing"}
    /\ phase \notin {"refusing", "refused"} => refusals = <<>>
    /\ phase \in {"refusing", "refused"} =>
        \E reason : /\ Justified(reason)
                    /\ refusals = <<reason>> \/ (~timed /\ refusals = <<reason, "late">>)
    /\ phase = "headers" => chunks = 0
    /\ phase = "reading" => chunks <= MaxChunks
    /\ phase \in {"reading", "sealing"} => Admitted
    /\ phase = "sealing" => Len(body) = Len(request.body)
    /\ phase \in {"application", "served"} => body = request.body /\ IsAcceptable(request)

Given ==
    taken = <<>> \/ (phase \in {"application", "served"} /\ taken = <<request.body>>)

IInv == request \in Requests /\ Buffered /\ Phased /\ Given

LEMMA RequestTypes ==
    ASSUME request \in Requests
    PROVE  /\ request.body \in Seq(Byte) /\ Len(request.body) \in Nat
           /\ request.post \in BOOLEAN /\ request.declared \in Nat \cup {None}
           /\ MaxBytes \in Nat /\ MaxChunks \in Nat
           /\ None \notin Nat \cup Disturbances \cup Faults
BY RequestsAssumption, LimitsAssumption

\* Whatever comes next of the body, the verdict on it is that on the body so far.
LEMMA FragmentRead ==
    ASSUME IInv, phase = "reading", NEW end \in Len(body)..Len(request.body)
    PROVE  LET fragment == SubSeq(request.body, Len(body) + 1, end) IN
           /\ body \o fragment = SubSeq(request.body, 1, end)
           /\ Len(SubSeq(request.body, 1, end)) = end
           /\ Oversized(fragment) <=> end > MaxBytes
           /\ Budget(fragment) = ScanOf(request.body)[end]
           /\ Decoder(fragment) =
                IF request.post THEN DecodeOf(request.body)[end] ELSE "ready"
           /\ Contains(fragment, "nul") => Contains(request.body, "nul")
           /\ Contains(SubSeq(request.body, 1, end), "nul") =>
                Contains(body, "nul") \/ Contains(fragment, "nul")
<1> DEFINE b == request.body
           l == Len(body)
           fragment == SubSeq(b, l + 1, end)
<1>1. /\ b \in Seq(Byte) /\ Len(b) \in Nat /\ request.post \in BOOLEAN /\ MaxBytes \in Nat
      /\ body \in Seq(Byte) /\ l \in Nat /\ l <= Len(b) /\ l <= MaxBytes
      /\ body = SubSeq(b, 1, l)
    BY RequestTypes DEF IInv, Buffered
<1>2. l \in 0..Len(b) /\ end \in l..Len(b) /\ end \in Nat /\ end <= Len(b)
    BY <1>1
<1> HIDE DEF l
<1>3. /\ Len(fragment) = end - l /\ \A i \in 1..(end - l) : fragment[i] = b[l + i]
      /\ fragment \in Seq(Byte)
    BY <1>1, <1>2
<1>4. /\ Len(SubSeq(b, 1, end)) = end /\ SubSeq(b, 1, end) \in Seq(Byte)
      /\ \A i \in 1..end : SubSeq(b, 1, end)[i] = b[i]
    BY <1>1, <1>2
<1>5. Len(body) = l /\ \A i \in 1..l : body[i] = b[i]
    BY <1>1, <1>2 DEF l
<1>6. body \o fragment = SubSeq(b, 1, end)
    <2>1. /\ body \o fragment \in Seq(Byte) /\ Len(body \o fragment) = end
          /\ \A i \in 1..end :
                (body \o fragment)[i] = IF i <= l THEN body[i] ELSE fragment[i - l]
        BY <1>1, <1>2, <1>3, <1>5
    <2>2. ASSUME NEW i \in 1..end PROVE (body \o fragment)[i] = SubSeq(b, 1, end)[i]
        BY <1>1, <1>2, <1>3, <1>4, <1>5, <2>1
    <2> HIDE DEF fragment
    <2> QED BY <1>4, <2>1, <2>2, SeqEqual
<1>7. Oversized(fragment) <=> end > MaxBytes
    BY <1>1, <1>2, <1>3, <1>5 DEF Oversized
<1>8. Budget(fragment) = ScanOf(b)[end]
    <2>1. budget = ScanOf(b)[l]
        BY DEF IInv, Buffered, l
    <2>2. FoldLeft(Scanned, ScanOf(b)[l], fragment) = ScanOf(b)[end]
        BY <1>1, <1>2, FragmentsAddUp, Zenon
    <2> QED BY <2>1, <2>2, Zenon DEF Budget
<1>9. Decoder(fragment) = IF request.post THEN DecodeOf(b)[end] ELSE "ready"
    <2>1. decoder = IF request.post THEN DecodeOf(b)[l] ELSE "ready"
        BY DEF IInv, Buffered, l
    <2>2. FoldLeft(Decoded, DecodeOf(b)[l], fragment) = DecodeOf(b)[end]
        BY <1>1, <1>2, FragmentsAddUp, Zenon
    <2> QED BY <2>1, <2>2, Zenon DEF Decoder
<1>10. Contains(fragment, "nul") => Contains(b, "nul")
    <2> SUFFICES ASSUME NEW i \in 1..(end - l), fragment[i] = "nul" PROVE Contains(b, "nul")
        BY <1>3 DEF Contains
    <2>1. l + i \in 1..Len(b)
        BY <1>1, <1>2
    <2> QED BY <1>3, <2>1 DEF Contains
<1>11. Contains(SubSeq(b, 1, end), "nul") =>
            Contains(body, "nul") \/ Contains(fragment, "nul")
    <2> SUFFICES ASSUME NEW i \in 1..end, b[i] = "nul"
                 PROVE  Contains(body, "nul") \/ Contains(fragment, "nul")
        BY <1>4 DEF Contains
    <2>1. CASE i <= l
        <3>1. i \in 1..l
            BY <1>2, <2>1
        <3> QED BY <1>5, <3>1 DEF Contains
    <2>2. CASE i > l
        <3>1. i - l \in 1..(end - l) /\ l + (i - l) = i
            BY <1>1, <1>2, <2>2
        <3> HIDE DEF fragment
        <3> QED BY <1>3, <3>1 DEF Contains
    <2> QED BY <1>2, <2>1, <2>2
<1> QED BY <1>4, <1>6, <1>7, <1>8, <1>9, <1>10, <1>11, Zenon DEF l
\* A fault of a part of the body is one of the request, and a part without a fault is
\* one that may be kept.
LEMMA FaultsAreJustified ==
    ASSUME IInv, phase = "reading", NEW end \in Len(body)..Len(request.body),
           NEW fragment, fragment = SubSeq(request.body, Len(body) + 1, end)
    PROVE  /\ Fault(fragment) # None => Justified(Fault(fragment))
           /\ Fault(fragment) = None =>
                /\ ~Oversized(fragment) /\ ~Budget(fragment).over
                /\ Decoder(fragment) # "broken"
                /\ request.post => ~Contains(fragment, "nul")
<1> DEFINE b == request.body
           P == Oversized(fragment)
           Q == Budget(fragment).over
           R == request.post /\ Contains(fragment, "nul")
           D == Decoder(fragment) = "broken"
           v == Fault(fragment)
<1>1. /\ b \in Seq(Byte) /\ Len(b) \in Nat /\ request.post \in BOOLEAN /\ MaxBytes \in Nat
      /\ None \notin Nat \cup Disturbances \cup Faults /\ request.declared \in Nat \cup {None}
    BY RequestTypes DEF IInv
<1>2. end \in Nat /\ end <= Len(b) /\ end \in 0..Len(b) /\ Len(b) \in end..Len(b)
    <2>1. Len(body) \in Nat
        BY DEF IInv, Buffered
    <2> QED BY <1>1, <2>1
<1>3. /\ P <=> end > MaxBytes
      /\ Budget(fragment) = ScanOf(b)[end]
      /\ Decoder(fragment) = IF request.post THEN DecodeOf(b)[end] ELSE "ready"
      /\ Contains(fragment, "nul") => Contains(b, "nul")
    BY FragmentRead, Zenon
<1>4. v = CASE P -> "size" [] Q -> "structure" [] R -> "nul" [] D -> "encoding" [] OTHER -> None
    BY Zenon DEF Fault
<1> HIDE DEF P, Q, R, D, v
<1>5. \/ P /\ v = "size"
      \/ Q /\ v = "structure"
      \/ R /\ v = "nul"
      \/ D /\ v = "encoding"
      \/ ~P /\ ~Q /\ ~R /\ ~D /\ v = None
    BY <1>4
<1>6. P => ~IsAcceptable(request)
    BY <1>1, <1>2, <1>3, AcceptableParts
<1>7. Q => ~IsAcceptable(request)
    <2> SUFFICES ASSUME Q PROVE ~IsAcceptable(request)
        OBVIOUS
    <2>1. ScanOf(b)[end].over
        BY <1>3 DEF Q
    <2>2. ScanOf(b)[Len(b)].over
        BY <1>1, <1>2, <2>1, OverStays
    <2> QED BY <1>1, <2>2, AcceptableParts
<1>8. R => ~IsAcceptable(request)
    BY <1>1, <1>3, AcceptableParts, Zenon DEF R, b
<1>9. D => ~IsAcceptable(request)
    <2> SUFFICES ASSUME D PROVE ~IsAcceptable(request)
        OBVIOUS
    <2>1. request.post /\ DecodeOf(b)[end] = "broken"
        BY <1>1, <1>3 DEF D
    <2>2. DecodeOf(b)[Len(b)] = "broken"
        BY <1>1, <1>2, <2>1, BrokenStays
    <2> QED BY <1>1, <2>1, <2>2, AcceptableParts
<1>10. {"size", "structure", "nul", "encoding"} \subseteq Faults
    BY DEF Faults
<1>11. None \notin Faults
    BY <1>1
<1>12. v # None => v \in Faults /\ ~IsAcceptable(request)
    BY <1>5, <1>6, <1>7, <1>8, <1>9, <1>10
<1>13. v = None => ~P /\ ~Q /\ ~R /\ ~D
    BY <1>5, <1>10, <1>11
<1> QED BY <1>12, <1>13 DEF Justified, P, Q, R, D, v

LEMMA InitIInv == Init => IInv
<1> SUFFICES ASSUME Init PROVE IInv
    OBVIOUS
<1>1. request \in Requests /\ phase = "headers" /\ timed = FALSE /\ body = <<>> /\ chunks = 0
      /\ budget = NewBudget /\ decoder = "ready" /\ refusals = <<>> /\ taken = <<>>
    BY DEF Init
<1>2. Len(body) = 0 /\ body \in Seq(Byte) /\ MaxBytes \in Nat /\ MaxChunks \in Nat
      /\ request.body \in Seq(Byte) /\ Len(request.body) \in Nat
    BY <1>1, RequestTypes
<1>3. body = SubSeq(request.body, 1, Len(body))
    BY <1>1, <1>2
<1>4. budget = ScanOf(request.body)[Len(body)] /\ ~budget.over
    BY <1>1, <1>2, ScanTypes DEF NewBudget
<1>5. decoder = DecodeOf(request.body)[Len(body)]
    BY <1>1, <1>2, DecodeSteps
<1>6. ~Contains(body, "nul")
    BY <1>1, <1>2 DEF Contains
<1>7. Buffered
    BY <1>1, <1>2, <1>3, <1>4, <1>5, <1>6 DEF Buffered
<1>8. Phased
    <2>1. /\ phase \in Phases /\ timed \in BOOLEAN /\ chunks \in 0..(MaxChunks + 1)
          /\ ~timed /\ chunks = 0 /\ refusals = <<>>
          /\ phase \notin {"reading", "refusing", "refused", "sealing", "application", "served"}
        <3>1. phase \in Phases
            BY <1>1 DEF Phases
        <3>2. chunks \in 0..(MaxChunks + 1)
            BY <1>1, <1>2
        <3>3. timed \in BOOLEAN /\ ~timed
            BY <1>1
        <3>4. phase \notin {"reading", "refusing", "refused", "sealing", "application", "served"}
            BY <1>1
        <3> QED BY <1>1, <3>1, <3>2, <3>3, <3>4
    <2> QED BY <2>1, Zenon DEF Phased
<1> QED BY <1>1, <1>7, <1>8 DEF IInv, Given
-----------------------------------------------------------------------------
(* What the gate sees.                                                     *)

LEMMA OutcomeOf ==
    /\ refusals = <<>> /\ phase \in {"headers", "reading", "sealing"} => Outcome = "pending"
    /\ refusals = <<>> /\ phase \in {"application", "served"} => Outcome = "delivered"
    /\ refusals = <<>> /\ phase = "abandoned" => Outcome = "abandoned"
    /\ \A reason :
        phase \in {"refusing", "refused"} /\ refusals \in {<<reason>>, <<reason, "late">>} =>
            Outcome = IF reason \in Disturbances THEN "disturbed" ELSE "refused"
<1>1. ASSUME refusals = <<>>
      PROVE  Outcome = CASE phase = "abandoned"                 -> "abandoned"
                         [] phase \in {"application", "served"} -> "delivered"
                         [] OTHER                               -> "pending"
    BY <1>1 DEF Outcome
<1>2. ASSUME NEW reason, phase \in {"refusing", "refused"},
             refusals \in {<<reason>>, <<reason, "late">>}
      PROVE  Outcome = IF reason \in Disturbances THEN "disturbed" ELSE "refused"
    <2>1. refusals # <<>> /\ Head(refusals) = reason
        BY <1>2
    <2>2. phase # "abandoned" /\ phase \notin {"application", "served"}
        BY <1>2
    <2> QED BY <2>1, <2>2 DEF Outcome
<1> QED BY <1>1, <1>2

\* A response that is begun while the request is pending is the end of it.
LEMMA RefusalEnds ==
    ASSUME IInv, phase \in {"headers", "reading", "sealing"},
           NEW reason, Justified(reason), Refuse(reason),
           request' = request, body' = body, budget' = budget, decoder' = decoder,
           taken' = taken, timed' \in BOOLEAN, chunks' \in 0..(MaxChunks + 1)
    PROVE  IInv' /\ Gate!Next
<1>1. /\ request \in Requests /\ refusals = <<>> /\ taken = <<>> /\ phase' = "refusing"
      /\ Buffered /\ phase' \in Phases
    BY DEF IInv, Phased, Given, Refuse, Phases
<1>2. refusals' = <<reason>>
    BY <1>1 DEF Refuse
<1>3. Justified(reason)'
    BY Zenon DEF Justified
<1>4. Phased'
    <2>1. /\ phase' \notin {"headers", "reading", "sealing", "application", "served"}
          /\ phase' \in {"reading", "refusing"} /\ phase' \in {"refusing", "refused"}
        BY <1>1
    <2> QED BY <1>1, <1>2, <1>3, <2>1, Zenon DEF Phased
<1>5. Buffered'
    BY <1>1, Zenon DEF Buffered
<1>6. IInv'
    BY <1>1, <1>4, <1>5, Zenon DEF IInv, Given
<1>7. Outcome = "pending"
    BY <1>1, OutcomeOf
<1>8. Outcome' = IF reason \in Disturbances THEN "disturbed" ELSE "refused"
    <2>1. phase' \in {"refusing", "refused"}
        BY <1>1
    <2>2. refusals' # <<>> /\ Head(refusals') = reason
        BY <1>2
    <2>3. phase' # "abandoned" /\ phase' \notin {"application", "served"}
        BY <1>1
    <2> QED BY <2>2, <2>3 DEF Outcome
<1>9. Gate!Next
    <2>1. CASE reason \in Disturbances
        <3>1. Gate!Disturb
            BY <1>7, <1>8, <2>1, Zenon DEF Gate!Disturb, Gate!Ends
        <3> QED BY <3>1, Zenon DEF Gate!Next, Gate!End
    <2>2. CASE reason \notin Disturbances
        <3>1. ~IsAcceptable(request)
            BY <2>2, Zenon DEF Justified
        <3>2. Gate!Refuse
            BY <1>7, <1>8, <2>2, <3>1, Zenon DEF Gate!Refuse, Gate!Ends
        <3> QED BY <3>2, Zenon DEF Gate!Next, Gate!End
    <2> QED BY <2>1, <2>2
<1> QED BY <1>6, <1>9
-----------------------------------------------------------------------------
(* The steps.                                                              *)

LEMMA CheckHeadersSteps ==
    ASSUME IInv, CheckHeaders
    PROVE  IInv' /\ [Gate!Next]_Gate!vars
<1>1. /\ phase = "headers" /\ refusals = <<>> /\ ~timed /\ timed \in BOOLEAN /\ chunks = 0
      /\ chunks \in 0..(MaxChunks + 1) /\ request \in Requests /\ taken = <<>> /\ Buffered
      /\ MaxChunks \in Nat
    BY RequestTypes DEF CheckHeaders, IInv, Phased, Given
<1>2. UNCHANGED <<request, body, chunks, budget, decoder, taken>>
    BY DEF CheckHeaders
<1>3. \/ request.headers = "wrong" /\ Refuse("headers") /\ UNCHANGED timed
      \/ /\ request.declared # None /\ request.declared > MaxBytes
         /\ Refuse("size") /\ UNCHANGED timed
      \/ /\ request.headers # "wrong"
         /\ request.declared = None \/ ~(request.declared > MaxBytes)
         /\ phase' = "reading" /\ timed' = TRUE /\ UNCHANGED refusals
    <2> DEFINE A == request.headers = "wrong"
               B == request.declared # None /\ request.declared > MaxBytes
    <2>1. (CASE A -> Refuse("headers") /\ UNCHANGED timed
             [] B -> Refuse("size") /\ UNCHANGED timed
             [] OTHER -> phase' = "reading" /\ timed' = TRUE /\ UNCHANGED refusals)
        BY Zenon DEF CheckHeaders
    <2> HIDE DEF A, B
    <2>2. \/ A /\ Refuse("headers") /\ UNCHANGED timed
          \/ B /\ Refuse("size") /\ UNCHANGED timed
          \/ ~A /\ ~B /\ phase' = "reading" /\ timed' = TRUE /\ UNCHANGED refusals
        BY <2>1
    <2> QED BY <2>2, Zenon DEF A, B
<1>4. ASSUME NEW reason, reason \in Faults, ~IsAcceptable(request), Refuse(reason), UNCHANGED timed
      PROVE  IInv' /\ Gate!Next
    <2>1. Justified(reason)
        BY <1>4 DEF Justified
    <2>2. timed' \in BOOLEAN /\ chunks' \in 0..(MaxChunks + 1)
        BY <1>1, <1>2, <1>4
    <2> QED BY <1>1, <1>2, <1>4, <2>1, <2>2, RefusalEnds
<1>5. CASE request.headers = "wrong" /\ Refuse("headers") /\ UNCHANGED timed
    <2>1. ~IsAcceptable(request)
        BY <1>1, <1>5, AcceptableParts, RequestTypes
    <2> QED BY <1>4, <1>5, <2>1 DEF Faults
<1>6. CASE /\ request.declared # None /\ request.declared > MaxBytes
           /\ Refuse("size") /\ UNCHANGED timed
    <2>1. ~IsAcceptable(request)
        BY <1>1, <1>6, AcceptableParts, RequestTypes
    <2> QED BY <1>4, <1>6, <2>1 DEF Faults
<1>7. CASE /\ request.headers # "wrong"
           /\ request.declared = None \/ ~(request.declared > MaxBytes)
           /\ phase' = "reading" /\ timed' = TRUE /\ UNCHANGED refusals
    <2>1. Admitted'
        <3>1. request.headers = "fine"
            BY <1>1, <1>7, RequestsAssumption
        <3>2. request.declared # None => request.declared <= MaxBytes
            BY <1>1, <1>7, RequestTypes
        <3> QED BY <1>2, <3>1, <3>2 DEF Admitted
    <2>2. /\ phase' \in Phases /\ timed' \in BOOLEAN
          /\ phase' \notin {"headers", "sealing", "refusing", "refused", "application", "served"}
        BY <1>7 DEF Phases
    <2>3. phase' = "reading" => chunks' <= MaxChunks
        BY <1>1, <1>2
    <2>4. Phased'
        BY <1>1, <1>2, <1>7, <2>1, <2>2, <2>3 DEF Phased
    <2>5. IInv'
        BY <1>1, <1>2, <2>4, Zenon DEF IInv, Given, Buffered
    <2>6. Outcome = "pending" /\ Outcome' = "pending"
        BY <1>1, <1>7 DEF Outcome
    <2>7. UNCHANGED Gate!vars
        BY <1>2, <2>6 DEF Gate!vars
    <2> QED BY <2>5, <2>7
<1> QED BY <1>3, <1>5, <1>6, <1>7
\* A fragment that is kept.
LEMMA FragmentKept ==
    ASSUME IInv, phase = "reading", NEW end \in Len(body)..Len(request.body), NEW more \in BOOLEAN,
           more \/ end = Len(request.body), NEW fragment,
           fragment = SubSeq(request.body, Len(body) + 1, end), Fault(fragment) = None,
           chunks < MaxChunks,
           body' = body \o fragment, budget' = Budget(fragment), decoder' = Decoder(fragment),
           phase' = IF more THEN "reading" ELSE "sealing", timed' = more,
           refusals' = refusals, chunks' = chunks + 1, request' = request, taken' = taken
    PROVE  IInv' /\ UNCHANGED Gate!vars
<1> DEFINE b == request.body
           p == SubSeq(b, 1, end)
<1>1. /\ b \in Seq(Byte) /\ Len(b) \in Nat /\ request.post \in BOOLEAN
      /\ MaxBytes \in Nat /\ MaxChunks \in Nat /\ request \in Requests
      /\ refusals = <<>> /\ taken = <<>> /\ Admitted /\ chunks \in Nat
      /\ Len(body) \in Nat /\ (request.post => ~Contains(body, "nul"))
    BY RequestTypes DEF IInv, Buffered, Phased, Given
<1>2. end \in Nat /\ end <= Len(b)
    BY <1>1
<1>3. /\ body' = p /\ Len(p) = end /\ end <= MaxBytes
      /\ budget' = ScanOf(b)[end] /\ ~budget'.over
      /\ decoder' = IF request.post THEN DecodeOf(b)[end] ELSE "ready"
      /\ decoder' # "broken"
      /\ request.post => ~Contains(p, "nul")
    <2>1. /\ body \o fragment = p /\ Len(p) = end
          /\ Oversized(fragment) <=> end > MaxBytes
          /\ Budget(fragment) = ScanOf(b)[end]
          /\ Decoder(fragment) = IF request.post THEN DecodeOf(b)[end] ELSE "ready"
          /\ Contains(p, "nul") => Contains(body, "nul") \/ Contains(fragment, "nul")
        BY FragmentRead, Zenon
    <2>2. /\ ~Oversized(fragment) /\ ~Budget(fragment).over
          /\ Decoder(fragment) # "broken"
          /\ request.post => ~Contains(fragment, "nul")
        BY FaultsAreJustified, Zenon
    <2>3. end <= MaxBytes
        BY <1>1, <1>2, <2>1, <2>2
    <2> HIDE DEF p, b
    <2> QED BY <1>1, <2>1, <2>2, <2>3, Zenon
<1>4. p \in Seq(Byte) /\ p = SubSeq(b, 1, Len(p))
    BY <1>1, <1>2, <1>3
<1> HIDE DEF p
<1>5. request'.body = b /\ request'.post = request.post
    OBVIOUS
<1> HIDE DEF b
<1>6. Buffered'
    BY <1>2, <1>3, <1>4, <1>5 DEF Buffered
<1>7. /\ phase' \in {"reading", "sealing"} /\ phase' \in Phases /\ timed' \in BOOLEAN
      /\ phase' = "reading" <=> more
      /\ timed' => phase' = "reading"
    BY DEF Phases
<1>8. chunks' \in 0..(MaxChunks + 1) /\ chunks' <= MaxChunks
    BY <1>1
<1>9. phase' = "sealing" => Len(body') = Len(request'.body)
    BY <1>3, <1>7 DEF b
<1>10. Phased'
    <2>1. /\ phase' \notin {"refusing", "refused", "headers", "application", "served"}
          /\ (phase' = "reading" => phase' \in {"reading", "refusing"}) /\ refusals' = <<>>
        BY <1>1, <1>7
    <2>2. Admitted'
        BY <1>1, Zenon DEF Admitted
    <2> QED BY <1>7, <1>8, <1>9, <2>1, <2>2, Zenon DEF Phased
<1>11. IInv'
    BY <1>1, <1>6, <1>10, Zenon DEF IInv, Given
<1>12. Outcome = "pending" /\ Outcome' = "pending"
    BY <1>1, <1>7 DEF Outcome
<1> QED BY <1>11, <1>12 DEF Gate!vars

LEMMA FragmentSteps ==
    ASSUME IInv, Fragment
    PROVE  IInv' /\ [Gate!Next]_Gate!vars
<1>1. PICK end \in Len(body)..Len(request.body), more \in BOOLEAN :
        (more \/ end = Len(request.body)) /\ ReadFragment(end, more)
    BY Zenon DEF Fragment
<1> DEFINE fragment == SubSeq(request.body, Len(body) + 1, end)
           reason == IF chunks = MaxChunks THEN "fragments" ELSE Fault(fragment)
<1>2. /\ phase = "reading" /\ chunks' = chunks + 1 /\ UNCHANGED <<request, taken>>
      /\ IF reason # None
         THEN Refuse(reason) /\ UNCHANGED <<timed, body, budget, decoder>>
         ELSE /\ body' = body \o fragment
              /\ budget' = Budget(fragment) /\ decoder' = Decoder(fragment)
              /\ phase' = IF more THEN "reading" ELSE "sealing"
              /\ timed' = more
              /\ UNCHANGED refusals
    BY <1>1, Zenon DEF ReadFragment
<1>3. /\ chunks \in Nat /\ chunks <= MaxChunks /\ timed \in BOOLEAN /\ MaxChunks \in Nat
      /\ None # "fragments"
    <2>1. chunks \in 0..(MaxChunks + 1) /\ chunks <= MaxChunks /\ timed \in BOOLEAN
        BY <1>2 DEF IInv, Phased
    <2>2. MaxChunks \in Nat /\ None # "fragments"
        BY LimitsAssumption DEF Disturbances
    <2> QED BY <2>1, <2>2
<1> HIDE DEF fragment
<1>4. CASE reason # None
    <2>1. Justified(reason)
        <3>1. CASE chunks = MaxChunks
            BY <3>1 DEF Justified, Disturbances, Faults
        <3>2. CASE chunks # MaxChunks
            BY <1>2, <1>4, <3>2, FaultsAreJustified DEF fragment
        <3> QED BY <3>1, <3>2
    <2>2. /\ Refuse(reason) /\ UNCHANGED <<timed, body, budget, decoder>>
          /\ chunks' \in 0..(MaxChunks + 1) /\ phase \in {"headers", "reading", "sealing"}
        BY <1>2, <1>3, <1>4
    <2> HIDE DEF reason
    <2> QED BY <1>2, <1>3, <2>1, <2>2, RefusalEnds
<1>5. CASE reason = None
    <2>1. chunks < MaxChunks /\ Fault(fragment) = None
        BY <1>3, <1>5
    <2>2. /\ body' = body \o fragment
          /\ budget' = Budget(fragment) /\ decoder' = Decoder(fragment)
          /\ phase' = IF more THEN "reading" ELSE "sealing"
          /\ timed' = more /\ refusals' = refusals
        BY <1>2, <1>5, Zenon
    <2>3. IInv' /\ UNCHANGED Gate!vars
        BY <1>1, <1>2, <2>1, <2>2, FragmentKept, Zenon DEF fragment
    <2> QED BY <2>3
<1> QED BY <1>4, <1>5
LEMMA ReadDisconnectSteps ==
    ASSUME IInv, ReadDisconnect
    PROVE  IInv' /\ [Gate!Next]_Gate!vars
<1>1. /\ phase = "reading" /\ phase' = "abandoned" /\ timed' = FALSE
      /\ UNCHANGED <<request, body, chunks, budget, decoder, refusals, taken>>
    BY DEF ReadDisconnect
<1>2. /\ request \in Requests /\ Buffered /\ taken = <<>> /\ refusals = <<>>
      /\ chunks \in 0..(MaxChunks + 1)
    BY <1>1 DEF IInv, Phased, Given
<1>3. Phased'
    <2>1. /\ phase' \in Phases /\ timed' \in BOOLEAN /\ ~timed'
          /\ phase' \notin {"refusing", "refused", "headers", "reading", "sealing",
                            "application", "served"}
        BY <1>1 DEF Phases
    <2> QED BY <1>1, <1>2, <2>1, Zenon DEF Phased
<1>4. IInv'
    BY <1>1, <1>2, <1>3, Zenon DEF IInv, Given, Buffered
<1>5. Outcome = "pending" /\ Outcome' = "abandoned"
    BY <1>1, <1>2 DEF Outcome
<1>6. Gate!Next
    BY <1>1, <1>5, Zenon DEF Gate!Next, Gate!End, Gate!Abandon, Gate!Ends
<1> QED BY <1>4, <1>6

LEMMA ReadOtherSteps ==
    ASSUME IInv, ReadOther
    PROVE  IInv' /\ [Gate!Next]_Gate!vars
<1>1. /\ phase = "reading" /\ Refuse("event")
      /\ UNCHANGED <<request, timed, body, chunks, budget, decoder, taken>>
    BY DEF ReadOther
<1>2. Justified("event")
    BY DEF Justified, Disturbances, Faults
<1>3. timed' \in BOOLEAN /\ chunks' \in 0..(MaxChunks + 1)
    BY <1>1 DEF IInv, Phased
<1> QED BY <1>1, <1>2, <1>3, RefusalEnds

LEMMA AppendedSecond ==
    ASSUME NEW r, NEW q
    PROVE  Append(<<r>>, q) = <<r, q>>
<1> DEFINE s == Append(<<r>>, q)
           t == <<r, q>>
<1>1. t \in Seq({r, q}) /\ Len(t) = 2 /\ t[1] = r /\ t[2] = q
    OBVIOUS
<1>2. s \in Seq({r, q}) /\ Len(s) = 2 /\ s[1] = r /\ s[2] = q
    <2>1. <<r>> \in Seq({r, q})
        OBVIOUS
    <2> QED BY <2>1
<1> HIDE DEF s, t
<1>3. \A i \in 1..Len(s) : s[i] = t[i]
    BY <1>1, <1>2
<1>4. s = t
    BY <1>1, <1>2, <1>3, SeqEqual
<1> QED BY <1>4 DEF s, t

\* A timeout ends a request that is read; a second response changes nothing that counts.
LEMMA TimeoutSteps ==
    ASSUME IInv, Timeout
    PROVE  IInv' /\ [Gate!Next]_Gate!vars
<1>1. /\ timed /\ Refuse("late") /\ timed' = FALSE
      /\ UNCHANGED <<request, body, chunks, budget, decoder, taken>>
    BY DEF Timeout
<1>2. timed' \in BOOLEAN /\ chunks' \in 0..(MaxChunks + 1) /\ chunks \in 0..(MaxChunks + 1)
    BY <1>1 DEF IInv, Phased
<1>3. CASE phase = "reading"
    <2>1. Justified("late")
        BY DEF Justified, Disturbances, Faults
    <2> QED BY <1>1, <1>2, <1>3, <2>1, RefusalEnds
<1>4. CASE phase = "refusing"
    <2>1. /\ request \in Requests /\ Buffered /\ taken = <<>> /\ phase' = "refusing"
          /\ refusals' = Append(refusals, "late")
        BY <1>1, <1>4 DEF IInv, Given, Refuse
    <2>2. PICK reason : Justified(reason) /\ refusals = <<reason>>
        <3>1. phase \in {"refusing", "refused"}
            BY <1>4
        <3> QED BY <1>1, <3>1, Zenon DEF IInv, Phased
    <2>3. refusals' = <<reason, "late">>
        BY <2>1, <2>2, AppendedSecond, Zenon
    <2>4. Justified(reason)'
        BY <1>1, <2>2, Zenon DEF Justified
    <2>5. Phased'
        <3>1. /\ phase' \in Phases /\ ~timed'
              /\ phase' \notin {"headers", "reading", "sealing", "application", "served"}
              /\ phase' \in {"refusing", "refused"}
            BY <1>1, <2>1 DEF Phases
        <3> QED BY <1>1, <1>2, <2>3, <2>4, <3>1, Zenon DEF Phased
    <2>6. IInv'
        BY <1>1, <2>1, <2>5, Zenon DEF IInv, Given, Buffered
    <2>7. Outcome' = Outcome
        <3>1. refusals # <<>> /\ Head(refusals) = reason
            BY <2>2
        <3>2. refusals' # <<>> /\ Head(refusals') = reason
            BY <2>3
        <3>3. /\ phase # "abandoned" /\ phase \notin {"application", "served"}
              /\ phase' # "abandoned" /\ phase' \notin {"application", "served"}
            BY <1>4, <2>1
        <3> QED BY <3>1, <3>2, <3>3 DEF Outcome
    <2> QED BY <1>1, <2>6, <2>7 DEF Gate!vars
<1> QED BY <1>1, <1>3, <1>4 DEF IInv, Phased

LEMMA RefusalSentSteps ==
    ASSUME IInv, RefusalSent
    PROVE  IInv' /\ [Gate!Next]_Gate!vars
<1>1. /\ phase = "refusing" /\ phase' = "refused" /\ timed' = FALSE
      /\ UNCHANGED <<request, body, chunks, budget, decoder, refusals, taken>>
    BY DEF RefusalSent
<1>2. request \in Requests /\ Buffered /\ taken = <<>> /\ chunks \in 0..(MaxChunks + 1)
    BY <1>1 DEF IInv, Phased, Given
<1>3. PICK reason : Justified(reason) /\ refusals \in {<<reason>>, <<reason, "late">>}
    <2>1. phase \in {"refusing", "refused"}
        BY <1>1
    <2> QED BY <2>1, Zenon DEF IInv, Phased
<1>4. Justified(reason)'
    BY <1>1, <1>3, Zenon DEF Justified
<1>5. Phased'
    <2>1. /\ phase' \in Phases /\ ~timed' /\ timed' \in BOOLEAN
          /\ phase' \notin {"headers", "reading", "sealing", "application", "served"}
          /\ phase' \in {"refusing", "refused"}
        BY <1>1 DEF Phases
    <2> QED BY <1>1, <1>2, <1>3, <1>4, <2>1, Zenon DEF Phased
<1>6. IInv'
    BY <1>1, <1>2, <1>5, Zenon DEF IInv, Given, Buffered
<1>7. Outcome' = Outcome
    <2>1. refusals # <<>>
        BY <1>3
    <2>2. /\ phase # "abandoned" /\ phase \notin {"application", "served"}
          /\ phase' # "abandoned" /\ phase' \notin {"application", "served"}
        BY <1>1
    <2> QED BY <1>1, <2>1, <2>2 DEF Outcome
<1> QED BY <1>1, <1>6, <1>7 DEF Gate!vars
\* What a body shows only when it is complete: all that is left of IsAcceptable.
LEMMA SealSteps ==
    ASSUME IInv, Seal
    PROVE  IInv' /\ [Gate!Next]_Gate!vars
<1> DEFINE b == request.body
           A == request.post /\ decoder = "inside"
           B == request.post /\ body # <<>> /\ Head(body) = "mark"
           C == request.declared # None /\ request.declared # Len(body)
           reason == CASE A -> "encoding" [] B -> "mark" [] C -> "length" [] OTHER -> None
<1>1. /\ phase = "sealing"
      /\ IF reason # None THEN Refuse(reason)
         ELSE phase' = "application" /\ UNCHANGED refusals
      /\ UNCHANGED <<request, timed, body, chunks, budget, decoder, taken>>
    BY Zenon DEF Seal
<1>2. /\ request \in Requests /\ Buffered /\ taken = <<>> /\ refusals = <<>>
      /\ chunks \in 0..(MaxChunks + 1) /\ ~timed /\ timed \in BOOLEAN
      /\ Admitted /\ Len(body) = Len(b)
    BY <1>1 DEF IInv, Phased, Given
<1>3. /\ b \in Seq(Byte) /\ Len(b) \in Nat /\ request.post \in BOOLEAN
      /\ request.declared \in Nat \cup {None} /\ MaxBytes \in Nat
      /\ None \notin Nat \cup Disturbances \cup Faults
    BY <1>2, RequestTypes
<1>4. body = b
    <2>1. body = SubSeq(b, 1, Len(b))
        BY <1>2, Zenon DEF Buffered
    <2>2. SubSeq(b, 1, Len(b)) = b
        BY <1>3
    <2> QED BY <2>1, <2>2, Zenon
<1>5. /\ Len(b) <= MaxBytes /\ ~ScanOf(b)[Len(b)].over
      /\ request.post => decoder = DecodeOf(b)[Len(b)] /\ ~Contains(b, "nul")
      /\ decoder # "broken"
    <2>1. /\ Len(body) <= MaxBytes /\ budget = ScanOf(b)[Len(b)] /\ ~budget.over
          /\ request.post => decoder = DecodeOf(b)[Len(b)] /\ ~Contains(body, "nul")
          /\ decoder # "broken"
        BY <1>2, Zenon DEF Buffered
    <2> HIDE DEF b
    <2> QED BY <1>2, <1>4, <2>1, Zenon
<1>6. request.post => DecodeOf(b)[Len(b)] \in {"ready", "inside", "broken"}
    <2>1. Len(b) \in 0..Len(b)
        BY <1>3
    <2> QED BY <1>3, <2>1, DecodeAgrees DEF StateAt
<1>7. /\ request.headers = "fine"
      /\ request.declared # None => request.declared <= MaxBytes
    BY <1>2 DEF Admitted
<1>8. IsAcceptable(request) <=> ~A /\ ~B /\ ~C
    <2>1. IsAcceptable(request) <=>
            /\ request.declared \in {None, Len(b)}
            /\ request.post => DecodeOf(b)[Len(b)] = "ready" /\ (b # <<>> => Head(b) # "mark")
        BY <1>3, <1>5, <1>7, AcceptableParts, Zenon
    <2>2. C <=> request.declared \notin {None, Len(b)}
        BY <1>4, Zenon
    <2>3. A <=> request.post /\ DecodeOf(b)[Len(b)] # "ready"
        BY <1>5, <1>6
    <2>4. B <=> request.post /\ ~(b # <<>> => Head(b) # "mark")
        BY <1>4, Zenon
    <2> HIDE DEF A, B, C, b
    <2> QED BY <2>1, <2>2, <2>3, <2>4, Zenon
<1> HIDE DEF A, B, C
<1>9. \/ A /\ reason = "encoding"
      \/ B /\ reason = "mark"
      \/ C /\ reason = "length"
      \/ ~A /\ ~B /\ ~C /\ reason = None
    OBVIOUS
<1> HIDE DEF reason
<1>10. {"encoding", "mark", "length"} \subseteq Faults /\ None \notin Faults
    BY <1>3 DEF Faults
<1>11. CASE reason # None
    <2>1. Justified(reason)
        BY <1>8, <1>9, <1>10, <1>11 DEF Justified
    <2>2. Refuse(reason) /\ timed' \in BOOLEAN /\ chunks' \in 0..(MaxChunks + 1)
        BY <1>1, <1>2, <1>11
    <2> QED BY <1>1, <2>1, <2>2, RefusalEnds
<1>12. CASE reason = None
    <2>1. IsAcceptable(request)
        BY <1>8, <1>9, <1>10, <1>12
    <2>2. phase' = "application" /\ refusals' = refusals
        BY <1>1, <1>12
    <2>3. Phased'
        <3>1. /\ phase' \in Phases /\ ~timed' /\ timed' \in BOOLEAN
              /\ phase' \notin {"refusing", "refused", "headers", "reading", "sealing"}
            BY <1>1, <1>2, <2>2 DEF Phases
        <3>2. body' = request'.body /\ IsAcceptable(request')
            BY <1>1, <1>4, <2>1, Zenon
        <3> QED BY <1>1, <1>2, <2>2, <3>1, <3>2, Zenon DEF Phased
    <2>4. IInv'
        BY <1>1, <1>2, <2>3, Zenon DEF IInv, Given, Buffered
    <2>5. Outcome = "pending" /\ Outcome' = "delivered"
        BY <1>1, <1>2, <2>2 DEF Outcome
    <2>6. Gate!Next
        BY <1>1, <2>1, <2>5, Zenon DEF Gate!Next, Gate!End, Gate!Deliver, Gate!Ends
    <2> QED BY <2>4, <2>6
<1> QED BY <1>11, <1>12

LEMMA ReplaySteps ==
    ASSUME IInv, Replay
    PROVE  IInv' /\ [Gate!Next]_Gate!vars
<1>1. /\ phase = "application" /\ taken = <<>> /\ taken' = <<body>>
      /\ UNCHANGED <<request, phase, timed, body, chunks, budget, decoder, refusals>>
    BY DEF Replay
<1>2. refusals = <<>> /\ body = request.body
    BY <1>1 DEF IInv, Phased
<1>3. IInv'
    <2>1. Buffered' /\ Phased'
        BY <1>1, Zenon DEF IInv, Buffered, Phased, Justified, Admitted
    <2>2. Given'
        BY <1>1, <1>2 DEF Given
    <2> QED BY <1>1, <2>1, <2>2, Zenon DEF IInv
<1>4. Outcome = "delivered" /\ Outcome' = "delivered"
    BY <1>1, <1>2 DEF Outcome
<1>5. Gate!Take
    BY <1>1, <1>2, <1>4, Zenon DEF Gate!Take
<1> QED BY <1>3, <1>5, Zenon DEF Gate!Next

LEMMA RespondSteps ==
    ASSUME IInv, Respond
    PROVE  IInv' /\ [Gate!Next]_Gate!vars
<1>1. /\ phase = "application" /\ phase' = "served"
      /\ UNCHANGED <<request, timed, body, chunks, budget, decoder, refusals, taken>>
    BY DEF Respond
<1>2. /\ refusals = <<>> /\ body = request.body /\ IsAcceptable(request) /\ request \in Requests
      /\ Buffered /\ ~timed /\ timed \in BOOLEAN /\ chunks \in 0..(MaxChunks + 1)
    BY <1>1 DEF IInv, Phased
<1>3. Phased'
    <2>1. /\ phase' \in Phases
          /\ phase' \notin {"refusing", "refused", "headers", "reading", "sealing"}
        BY <1>1 DEF Phases
    <2> QED BY <1>1, <1>2, <2>1, Zenon DEF Phased
<1>4. Given'
    BY <1>1 DEF IInv, Given
<1>5. IInv'
    BY <1>1, <1>2, <1>3, <1>4, Zenon DEF IInv, Buffered
<1>6. Outcome = "delivered" /\ Outcome' = "delivered"
    BY <1>1, <1>2 DEF Outcome
<1> QED BY <1>1, <1>5, <1>6 DEF Gate!vars
LEMMA NextSteps ==
    ASSUME IInv, [Next]_vars
    PROVE  IInv' /\ [Gate!Next]_Gate!vars
<1>1. CASE UNCHANGED vars
    <2>1. UNCHANGED <<request, phase, timed, body, chunks, budget, decoder, refusals, taken>>
        BY <1>1 DEF vars
    <2>2. IInv'
        BY <2>1, ZenonT(30) DEF IInv, Buffered, Phased, Justified, Admitted, Given
    <2>3. UNCHANGED Gate!vars
        BY <2>1, Zenon DEF Gate!vars, Outcome
    <2> QED BY <2>2, <2>3
<1>2. ASSUME Next PROVE IInv' /\ [Gate!Next]_Gate!vars
    <2>1. CASE CheckHeaders    BY <2>1, CheckHeadersSteps
    <2>2. CASE Seal            BY <2>2, SealSteps
    <2>3. CASE Timeout         BY <2>3, TimeoutSteps
    <2>4. CASE RefusalSent     BY <2>4, RefusalSentSteps
    <2>5. CASE Fragment        BY <2>5, FragmentSteps
    <2>6. CASE ReadDisconnect  BY <2>6, ReadDisconnectSteps
    <2>7. CASE ReadOther       BY <2>7, ReadOtherSteps
    <2>8. CASE Replay          BY <2>8, ReplaySteps
    <2>9. CASE Respond         BY <2>9, RespondSteps
    <2> QED BY <1>2, <2>1, <2>2, <2>3, <2>4, <2>5, <2>6, <2>7, <2>8, <2>9, Zenon DEF Next
<1> QED BY <1>1, <1>2

LEMMA Invariance == Spec => []IInv
<1>1. IInv /\ [Next]_vars => IInv'
    BY NextSteps
<1> QED BY <1>1, InitIInv, PTL DEF Spec

LEMMA TypesFollow == IInv => TypeOK
<1> SUFFICES ASSUME IInv PROVE TypeOK
    OBVIOUS
<1>1. /\ request.body \in Seq(Byte) /\ Len(request.body) \in Nat /\ MaxBytes \in Nat
      /\ request.post \in BOOLEAN
    BY RequestTypes DEF IInv
<1>2. /\ body \in Seq(Byte) /\ Len(body) <= Len(request.body) /\ Len(body) <= MaxBytes
      /\ body = SubSeq(request.body, 1, Len(body)) /\ ~budget.over /\ decoder # "broken"
      /\ budget = ScanOf(request.body)[Len(body)]
      /\ decoder = IF request.post THEN DecodeOf(request.body)[Len(body)] ELSE "ready"
    BY DEF IInv, Buffered
<1>3. IsPrefix(body, request.body)
    BY <1>1, <1>2 DEF IsPrefix
<1>4. Len(body) \in 0..Len(request.body)
    BY <1>1, <1>2
<1>5. /\ budget.depth \in 0..MaxDepth /\ budget.tokens \in 0..MaxTokens
      /\ budget.inString \in BOOLEAN /\ (budget.escaped => budget.inString)
    <2>1. IsScan(budget)
        BY <1>1, <1>2, <1>4, ScanTypes
    <2> QED BY <1>2, <2>1, LimitsAssumption DEF IsScan
<1>6. decoder \in {"ready", "inside"}
    <2>1. DecodeOf(request.body)[Len(body)] \in {"ready", "inside", "broken"}
        BY <1>1, <1>4, DecodeAgrees DEF StateAt
    <2> QED BY <1>1, <1>2, <2>1
<1>7. phase \in Phases /\ timed \in BOOLEAN /\ chunks \in 0..(MaxChunks + 1)
    BY DEF IInv, Phased
<1>8. /\ Len(refusals) =< 2
      /\ \A i \in DOMAIN refusals : refusals[i] \in Disturbances \cup Faults
      /\ Len(refusals) = 2 => refusals[2] = "late" /\ ~timed
    <2>1. CASE refusals = <<>>
        BY <2>1
    <2>2. CASE refusals # <<>>
        <3>1. PICK reason : /\ reason \in Disturbances \cup Faults
                            /\ refusals = <<reason>> \/ (~timed /\ refusals = <<reason, "late">>)
            BY <2>2, Zenon DEF IInv, Phased, Justified
        <3>2. "late" \in Disturbances \cup Faults
            BY DEF Disturbances
        <3>3. CASE refusals = <<reason>>
            BY <3>1, <3>3
        <3>4. CASE ~timed /\ refusals = <<reason, "late">>
            BY <3>1, <3>2, <3>4
        <3> QED BY <3>1, <3>3, <3>4
    <2> QED BY <2>1, <2>2
<1> QED BY <1>1, <1>2, <1>3, <1>5, <1>6, <1>7, <1>8, Zenon DEF TypeOK

-----------------------------------------------------------------------------
(* Theorems.                                                               *)

\* Whatever a client sends and however it is split, stalled or closed: the buffer stays
\* within its limit, what is kept is a prefix of the body that breaks no limit, and
\* only a deadline that passes while a refusal is sent begins a second response.
THEOREM TypesHold == Spec => []TypeOK
BY Invariance, TypesFollow, PTL

\* For every body, every way of splitting it and all limits, the middleware keeps the
\* promise of RequestGate: the scanner and the decoder, fed fragment by fragment and
\* stopped at the first fault, hand a request over only if the reference definition
\* accepts the whole body, blame it only if that does not, and the application is
\* given that body once (__call__, check_chunk).
THEOREM GateKept == Spec => Gate!Spec
<1>1. Init => Gate!Init
    <2> SUFFICES ASSUME Init PROVE Gate!Init
        OBVIOUS
    <2>1. Outcome = "pending"
        BY DEF Init, Outcome
    <2> QED BY <2>1 DEF Init, Gate!Init
<1>2. IInv /\ [Next]_vars => [Gate!Next]_(Gate!vars)
    BY NextSteps
<1> QED BY <1>1, <1>2, Invariance, PTL DEF Spec, Gate!Spec
=============================================================================
