----------------------- MODULE DefenseSchedulerProofs -----------------------
(***************************************************************************)
(* What holds of the waves of any plan, policy and timeline: the wave      *)
(* keeps to its capacities, a deferral has a reason, ages survive          *)
(* restructuring, and waiting is bounded while nothing hinders it.         *)
(***************************************************************************)
EXTENDS DefenseScheduler, FiniteSetTheorems, WellFoundedInduction, TLAPS

-----------------------------------------------------------------------------
(* Numbers.                                                                *)

\* Induction as a fact about a set of naturals, by its least absentee.
LEMMA NumbersInduction ==
    ASSUME NEW S, 0 \in S, \A n \in Nat : n \in S => n + 1 \in S
    PROVE  Nat \subseteq S
<1> DEFINE absent == Nat \ S
           less == OpToRel(<, Nat)
<1> SUFFICES ASSUME absent # {} PROVE FALSE
    OBVIOUS
<1>1. IsWellFoundedOn(less, Nat) /\ absent \subseteq Nat
    BY NatLessThanWellFounded
<1>2. \A i, j \in Nat : i < j => <<i, j>> \in less
    BY DEF OpToRel
<1> HIDE DEF less
<1>3. PICK n \in absent : \A m \in absent : ~ (<<m, n>> \in less)
    <2> HIDE DEF absent
    <2> QED BY <1>1, WFMin
<1>4. n # 0 /\ n \in Nat /\ n - 1 \in Nat /\ n - 1 < n /\ (n - 1) + 1 = n
    BY <1>3
<1>5. n - 1 \in S
    BY <1>2, <1>3, <1>4
<1> QED BY <1>3, <1>4, <1>5

\* A set of naturals with a bound and a member has a greatest one.
LEMMA MaxOfNumbers ==
    ASSUME NEW D \in SUBSET Nat, D # {}, NEW bound \in Nat, \A x \in D : x <= bound
    PROVE  Max(D) \in D /\ \A x \in D : x <= Max(D)
<1> DEFINE S == {n \in Nat : (\A x \in D : x <= n) => \E m \in D : \A x \in D : x <= m}
<1>1. 0 \in S
    <2>1. PICK d \in D : TRUE
        OBVIOUS
    <2>2. ASSUME \A x \in D : x <= 0 PROVE \A x \in D : x <= d
        BY <2>1, <2>2
    <2> QED BY <2>1, <2>2
<1>2. ASSUME NEW n \in Nat, n \in S PROVE n + 1 \in S
    <2>1. CASE n + 1 \in D
        BY <2>1
    <2>2. CASE n + 1 \notin D
        BY <1>2, <2>2
    <2> QED BY <2>1, <2>2
<1>3. Nat \subseteq S
    <2> HIDE DEF S
    <2> QED BY <1>1, <1>2, NumbersInduction
<1>4. \E m \in D : \A x \in D : m >= x
    BY <1>3
<1> QED BY <1>4 DEF Max

-----------------------------------------------------------------------------
(* The order of the components.                                            *)

\* A component that asks for a control, and a set of them, one for each subject.
Item == [subject : Nat, class : Class, critical : BOOLEAN, score : Nat, mode : Nat, wait : Nat]
Items(items) ==
    /\ items \subseteq Item /\ IsFiniteSet(items)
    /\ \A i, j \in items : i.subject = j.subject => i = j

LEMMA PolicyTypes ==
    ASSUME setting \in Settings
    PROVE  /\ Reserved \in 0..MaxTotal /\ MaxWaitBoost \in Nat /\ AgeCap \in Nat /\ MaxLines \in Nat
           /\ MaxTotal \in Nat \ {0} /\ WaitBoost \in Nat /\ Capacity \in [Class -> Nat]
BY PolicyAssumption, AgeCapAssumption DEF Reserved, MaxWaitBoost, AgeCap, MaxLines

LEMMA PriorityType ==
    ASSUME setting \in Settings, NEW i, i.score \in Nat, i.wait \in Nat
    PROVE  /\ WaitBonus(i.wait) \in Nat /\ Priority(i) \in Nat
           /\ WaitBonus(i.wait) <= i.wait * WaitBoost
           /\ Priority(i) <= i.score + WaitBonus(i.wait)
<1>1. MaxWaitBoost \in Nat /\ i.wait * WaitBoost \in Nat
    BY PolicyTypes
<1>2. WaitBonus(i.wait) \in Nat /\ WaitBonus(i.wait) <= i.wait * WaitBoost
    BY <1>1 DEF WaitBonus, Least
<1> HIDE DEF WaitBonus
<1> QED BY <1>2 DEF Priority, Least, MaxPriority

\* Ahead is a strict total order of the components of a plan.
LEMMA AheadOrders ==
    ASSUME setting \in Settings, NEW items, Items(items)
    PROVE  /\ \A a \in items : ~Ahead(a, a)
           /\ \A a, b, c \in items : Ahead(a, b) /\ Ahead(b, c) => Ahead(a, c)
           /\ \A a, b \in items : a = b \/ Ahead(a, b) \/ Ahead(b, a)
<1>1. \A a \in items : /\ Priority(a) \in Nat /\ a.critical \in BOOLEAN
                       /\ a.mode \in Nat /\ a.subject \in Nat
    BY PriorityType DEF Items, Item
<1>2. \A a, b \in items : a = b \/ a.subject # b.subject
    BY DEF Items
<1> HIDE DEF Priority
<1> QED BY <1>1, <1>2 DEF Ahead

Before(items, i) == {k \in items : Ahead(k, i)}

LEMMA BeforeCounts ==
    ASSUME setting \in Settings, NEW items, Items(items)
    PROVE  /\ \A i \in items : Cardinality(Before(items, i)) \in 0..(Cardinality(items) - 1)
           /\ \A i, j \in items :
                Ahead(i, j) => Cardinality(Before(items, i)) < Cardinality(Before(items, j))
<1>1. IsFiniteSet(items) /\ Cardinality(items) \in Nat
    BY FS_CardinalityType DEF Items
<1>2. ASSUME NEW i \in items
      PROVE  /\ IsFiniteSet(Before(items, i)) /\ Before(items, i) \subseteq items
             /\ Cardinality(Before(items, i)) \in Nat
             /\ Cardinality(Before(items, i)) <= Cardinality(items)
    <2>1. Before(items, i) \in SUBSET items
        BY DEF Before
    <2> QED BY <1>1, <2>1, FS_Subset, FS_CardinalityType
<1>3. ASSUME NEW i \in items
      PROVE  Cardinality(Before(items, i)) # Cardinality(items)
    <2>1. i \notin Before(items, i)
        BY AheadOrders DEF Before
    <2> QED BY <1>1, <1>2, <2>1, FS_Subset
<1>4. ASSUME NEW i \in items, NEW j \in items, Ahead(i, j)
      PROVE  Cardinality(Before(items, i)) < Cardinality(Before(items, j))
    <2>1. Before(items, i) \in SUBSET Before(items, j)
        BY <1>4, AheadOrders DEF Before
    <2>2. i \in Before(items, j) /\ i \notin Before(items, i)
        BY <1>4, AheadOrders DEF Before
    <2>3. Cardinality(Before(items, i)) <= Cardinality(Before(items, j))
        BY <1>2, <2>1, FS_Subset
    <2>4. Cardinality(Before(items, i)) # Cardinality(Before(items, j))
        BY <1>2, <2>1, <2>2, FS_Subset
    <2> QED BY <1>2, <2>3, <2>4
<1> QED BY <1>1, <1>2, <1>3, <1>4

\* Ranked lists the components, each once, in their order.
LEMMA RankedSorts ==
    ASSUME setting \in Settings, NEW items, Items(items)
    PROVE  /\ Cardinality(items) \in Nat
           /\ Ranked(items) \in [1..Cardinality(items) -> items]
           /\ \A i \in items : \E n \in 1..Cardinality(items) : Ranked(items)[n] = i
           /\ \A m, n \in 1..Cardinality(items) :
                m < n => Ahead(Ranked(items)[m], Ranked(items)[n])
<1> DEFINE N == Cardinality(items)
           place == [i \in items |-> Cardinality(Before(items, i)) + 1]
<1>1. IsFiniteSet(items) /\ N \in Nat
    BY FS_CardinalityType DEF Items
<1>2. place \in [items -> 1..N]
    BY <1>1, BeforeCounts
<1>3. \A i, j \in items : place[i] = place[j] => i = j
    <2>1. \A i, j \in items : Cardinality(Before(items, i)) \in Nat
        BY <1>1, BeforeCounts
    <2> QED BY <2>1, BeforeCounts, AheadOrders
<1>4. place \in Injection(items, 1..N)
    BY <1>2, <1>3 DEF Injection, IsInjective
<1>5. place \in Surjection(items, 1..N)
    <2>1. IsFiniteSet(1..N) /\ Cardinality(1..N) = N
        BY <1>1, FS_Interval
    <2> HIDE DEF place
    <2> QED BY <1>4, <2>1, FS_Injection
<1>6. ASSUME NEW n \in 1..N PROVE \E i \in items : place[i] = n
    BY <1>5 DEF Surjection
<1>7. ASSUME NEW n \in 1..N PROVE Ranked(items)[n] \in items /\ place[Ranked(items)[n]] = n
    <2>1. Ranked(items)[n] = CHOOSE i \in items : Cardinality(Before(items, i)) = n - 1
        BY DEF Ranked, Before
    <2>2. \E i \in items : Cardinality(Before(items, i)) = n - 1
        BY <1>1, <1>6, BeforeCounts
    <2>3. Ranked(items)[n] \in items /\ Cardinality(Before(items, Ranked(items)[n])) = n - 1
        <3> HIDE DEF N
        <3> QED BY <2>1, <2>2
    <2> QED BY <1>1, <2>3
<1>8. Ranked(items) \in [1..N -> items]
    BY <1>7 DEF Ranked
<1>9. ASSUME NEW i \in items PROVE \E n \in 1..N : Ranked(items)[n] = i
    BY <1>2, <1>3, <1>7
<1>10. ASSUME NEW m \in 1..N, NEW n \in 1..N, m < n
       PROVE  Ahead(Ranked(items)[m], Ranked(items)[n])
    <2> DEFINE a == Ranked(items)[m]
               b == Ranked(items)[n]
    <2>1. a \in items /\ b \in items /\ place[a] = m /\ place[b] = n
        BY <1>7
    <2>2. Cardinality(Before(items, a)) + 1 = m /\ Cardinality(Before(items, b)) + 1 = n
        BY <2>1
    <2> HIDE DEF a, b, place
    <2>3. a # b
        BY <1>10, <2>1
    <2>4. ~Ahead(b, a)
        <3>1. Cardinality(Before(items, a)) \in Nat /\ Cardinality(Before(items, b)) \in Nat
            BY <1>1, <2>1, BeforeCounts
        <3>2. Cardinality(Before(items, a)) < Cardinality(Before(items, b))
            BY <1>10, <2>2, <3>1
        <3> QED BY <2>1, <3>1, <3>2, BeforeCounts
    <2>5. Ahead(a, b)
        BY <2>1, <2>3, <2>4, AheadOrders
    <2> QED BY <2>5 DEF a, b
<1> QED BY <1>1, <1>8, <1>9, <1>10

LEMMA SomeItems ==
    ASSUME NEW items, Items(items), NEW part \in SUBSET items
    PROVE  Items(part)
BY FS_Subset DEF Items

\* The favoured components are the first of the critical ones.
LEMMA FavouredAreFirst ==
    ASSUME setting \in Settings, NEW items, Items(items)
    PROVE  LET F == Favoured(items)
           IN  /\ Len(F) \in 0..Reserved /\ F \in [1..Len(F) -> items]
               /\ \A m, n \in 1..Len(F) : m < n => F[m] # F[n] /\ Ahead(F[m], F[n])
<1> DEFINE C == {i \in items : i.critical}
           s == Ranked(C)
           l == Least(Reserved, Len(s))
<1>1. Items(C) /\ C \subseteq items
    BY SomeItems
<1>2. /\ Cardinality(C) \in Nat /\ s \in [1..Cardinality(C) -> C]
      /\ \A m, n \in 1..Cardinality(C) : m < n => Ahead(s[m], s[n])
    BY <1>1, RankedSorts
<1> HIDE DEF s
<1>3. s \in Seq(items) /\ Len(s) = Cardinality(C)
    BY <1>1, <1>2
<1>4. l \in 0..Reserved /\ l <= Len(s) /\ l \in Nat
    BY <1>2, <1>3, PolicyTypes DEF Least
<1>5. Favoured(items) = SubSeq(s, 1, l)
    BY Zenon DEF Favoured, s
<1> HIDE DEF C, l
<1>6. SubSeq(s, 1, l) = [n \in 1..l |-> s[n]]
    BY <1>3, <1>4
<1>7. /\ Len(SubSeq(s, 1, l)) = l /\ SubSeq(s, 1, l) \in [1..l -> items]
      /\ \A n \in 1..l : SubSeq(s, 1, l)[n] = s[n]
    <2>1. \A n \in 1..l : s[n] \in items
        BY <1>3, <1>4
    <2>2. [n \in 1..l |-> s[n]] \in [1..l -> items]
        BY <2>1
    <2>3. Len([n \in 1..l |-> s[n]]) = l
        BY <1>4, <2>2
    <2> QED BY <1>6, <2>2, <2>3
<1>8. \A m, n \in 1..l : m < n => s[m] # s[n] /\ Ahead(s[m], s[n])
    <2>1. 1..l \subseteq 1..Cardinality(C)
        BY <1>3, <1>4
    <2>2. \A n \in 1..l : s[n] \in items
        BY <1>2, <1>1, <2>1
    <2> QED BY <1>2, <2>1, <2>2, AheadOrders
<1> QED BY <1>4, <1>5, <1>7, <1>8

\* Every component is considered once: the favoured ones first, then those behind
\* the components that are ahead of them.
LEMMA ConsideredOrders ==
    ASSUME setting \in Settings, NEW items, Items(items)
    PROVE  LET s == Considered(items)
               F == ToSet(Favoured(items))
           IN  /\ Len(s) \in Nat /\ s \in [1..Len(s) -> items] /\ F \subseteq items
               /\ \A i \in items : \E n \in 1..Len(s) : s[n] = i
               /\ \A m, n \in 1..Len(s) :
                    m < n => s[m] # s[n] /\ (Ahead(s[m], s[n]) \/ s[m] \in F)
               /\ \E l \in 0..Reserved : \A n \in 1..Len(s) : s[n] \in F <=> n <= l
<1> DEFINE f == Favoured(items)
           F == ToSet(f)
           r == Ranked(items \ F)
           l == Len(f)
           c == Cardinality(items \ F)
           s == f \o r
<1>1. /\ l \in 0..Reserved /\ f \in [1..l -> items]
      /\ \A m, n \in 1..l : m < n => f[m] # f[n] /\ Ahead(f[m], f[n])
    BY FavouredAreFirst
<1>2. l \in Nat
    BY <1>1, PolicyTypes
<1> HIDE DEF f, l
<1>3. F = {f[n] : n \in 1..l} /\ F \subseteq items
    BY <1>1 DEF ToSet
<1>4. Items(items \ F)
    BY SomeItems
<1>5. /\ c \in Nat /\ r \in [1..c -> items \ F]
      /\ \A i \in items \ F : \E n \in 1..c : r[n] = i
      /\ \A m, n \in 1..c : m < n => Ahead(r[m], r[n])
    BY <1>4, RankedSorts
<1> HIDE DEF F, r, c
<1>6. f \in Seq(items) /\ r \in Seq(items) /\ Len(f) = l /\ Len(r) = c
    BY <1>1, <1>2, <1>5 DEF l
<1>7. /\ s \in [1..(l + c) -> items] /\ Len(s) = l + c
      /\ \A n \in 1..l : s[n] = f[n]
      /\ \A n \in (l + 1)..(l + c) : s[n] = r[n - l]
    <2>1. s \in Seq(items) /\ Len(s) = l + c
        BY <1>6
    <2>2. s \in [1..(l + c) -> items]
        <3> HIDE DEF s
        <3> QED BY <2>1
    <2>3. \A n \in 1..l : s[n] = f[n]
        BY <1>2, <1>5, <1>6
    <2>4. \A n \in (l + 1)..(l + c) : s[n] = r[n - l]
        BY <1>2, <1>5, <1>6
    <2> QED BY <2>1, <2>2, <2>3, <2>4
<1>8. Considered(items) = s
    BY Zenon DEF Considered, f, F, r
<1> HIDE DEF s
<1>9. \A n \in 1..(l + c) : n <= l => n \in 1..l /\ s[n] = f[n] /\ s[n] \in F
    BY <1>2, <1>3, <1>7
<1>10. \A n \in 1..(l + c) : ~(n <= l) =>
            n \in (l + 1)..(l + c) /\ n - l \in 1..c /\ s[n] = r[n - l] /\ s[n] \in items \ F
    BY <1>2, <1>5, <1>7
<1>11. \A i \in items : \E n \in 1..(l + c) : s[n] = i
    <2> SUFFICES ASSUME NEW i \in items PROVE \E n \in 1..(l + c) : s[n] = i
        OBVIOUS
    <2>1. CASE i \in F
        <3>1. PICK n \in 1..l : f[n] = i
            BY <1>3, <2>1
        <3>2. n \in 1..(l + c) /\ s[n] = i
            BY <1>2, <1>5, <1>7, <3>1
        <3> QED BY <3>2
    <2>2. CASE i \notin F
        <3>1. PICK n \in 1..c : r[n] = i
            BY <1>5, <2>2
        <3>2. n + l \in (l + 1)..(l + c) /\ n + l \in 1..(l + c) /\ (n + l) - l = n
            BY <1>2, <1>5, <3>1
        <3> QED BY <1>7, <3>1, <3>2
    <2> QED BY <2>1, <2>2
<1>12. ASSUME NEW m \in 1..(l + c), NEW n \in 1..(l + c), m < n
       PROVE  s[m] # s[n] /\ (Ahead(s[m], s[n]) \/ s[m] \in F)
    <2>1. CASE n <= l
        <3>1. m <= l
            BY <1>12, <1>2, <1>5, <2>1
        <3> QED BY <1>1, <1>9, <1>12, <2>1, <3>1
    <2>2. CASE m <= l /\ ~(n <= l)
        BY <1>9, <1>10, <2>2
    <2>3. CASE ~(m <= l)
        <3>1. ~(n <= l)
            BY <1>12, <1>2, <1>5, <2>3
        <3>2. m - l \in 1..c /\ n - l \in 1..c /\ m - l < n - l
            BY <1>2, <1>5, <1>10, <1>12, <2>3, <3>1
        <3>3. Ahead(s[m], s[n]) /\ s[m] \in items
            BY <1>5, <1>10, <2>3, <3>1, <3>2
        <3> QED BY <3>3, AheadOrders
    <2> QED BY <2>1, <2>2, <2>3
<1>13. \A n \in 1..(l + c) : s[n] \in F <=> n <= l
    BY <1>9, <1>10
<1>14. l + c \in Nat
    BY <1>2, <1>5
<1>15. /\ s \in [1..Len(s) -> items] /\ Len(s) \in Nat
       /\ \E k \in 0..Reserved : \A n \in 1..Len(s) : s[n] \in F <=> n <= k
       /\ \A i \in items : \E n \in 1..Len(s) : s[n] = i
       /\ \A m, n \in 1..Len(s) : m < n => s[m] # s[n] /\ (Ahead(s[m], s[n]) \/ s[m] \in F)
    BY <1>1, <1>7, <1>11, <1>12, <1>13, <1>14
<1> QED BY <1>3, <1>8, <1>15, Zenon DEF F, f

-----------------------------------------------------------------------------
(* The allocation, component by component.                                 *)

\* Max of a set of positions.
LEMMA LastPosition ==
    ASSUME NEW k \in Nat, NEW D \in SUBSET (1..k), D # {}
    PROVE  Max(D) \in D /\ \A x \in D : x <= Max(D)
<1>1. D \in SUBSET Nat /\ \A x \in D : x <= k
    OBVIOUS
<1> QED BY <1>1, MaxOfNumbers

\* g holds the fold over every set of the first k positions of s.
FoldsTo(g, s, k) ==
    g = [D \in SUBSET (1..k) |->
            IF D = {} THEN EmptyWave ELSE Allocate(g[D \ {Max(D)}], s[Max(D)])]

\* The recursion has a solution.
LEMMA FoldExists ==
    ASSUME NEW s, NEW n \in Nat
    PROVE  \E g : FoldsTo(g, s, n)
<1> DEFINE S == {k \in Nat : \E g : FoldsTo(g, s, k)}
<1>1. 0 \in S
    <2> DEFINE g == [D \in SUBSET (1..0) |-> EmptyWave]
    <2>1. \A D \in SUBSET (1..0) : D = {}
        OBVIOUS
    <2>2. g = [D \in SUBSET (1..0) |->
                IF D = {} THEN EmptyWave ELSE Allocate(g[D \ {Max(D)}], s[Max(D)])]
        BY <2>1, Zenon
    <2>3. FoldsTo(g, s, 0)
        BY <2>2, Zenon DEF FoldsTo
    <2> QED BY <2>3
<1>2. ASSUME NEW k \in Nat, k \in S PROVE k + 1 \in S
    <2>1. PICK g : FoldsTo(g, s, k)
        BY <1>2
    <2>2. \A D \in SUBSET (1..k) :
            g[D] = IF D = {} THEN EmptyWave ELSE Allocate(g[D \ {Max(D)}], s[Max(D)])
        BY <2>1, Zenon DEF FoldsTo
    <2> DEFINE P == SUBSET (1..(k + 1))
               h == [D \in P |-> IF k + 1 \in D THEN Allocate(g[D \ {k + 1}], s[k + 1])
                                                ELSE g[D]]
               j == [D \in P |-> IF D = {} THEN EmptyWave
                                 ELSE Allocate(h[D \ {Max(D)}], s[Max(D)])]
    <2>3. ASSUME NEW D \in P PROVE h[D] = j[D]
        <3> DEFINE m == Max(D)
        <3>1. CASE D = {}
            <4>1. h[D] = g[D] /\ j[D] = EmptyWave /\ D \in SUBSET (1..k)
                BY <3>1
            <4> QED BY <2>2, <3>1, <4>1
        <3>2. CASE k + 1 \in D
            <4>1. m = k + 1
                <5>1. m \in D /\ \A x \in D : x <= m
                    <6>1. k + 1 \in Nat /\ D \in SUBSET (1..(k + 1)) /\ D # {}
                        BY <3>2
                    <6> QED BY <6>1, LastPosition
                <5>2. m \in 1..(k + 1)
                    BY <5>1
                <5> HIDE DEF m
                <5> QED BY <3>2, <5>1, <5>2
            <4>2. D \ {k + 1} \in P /\ k + 1 \notin D \ {k + 1}
                OBVIOUS
            <4>3. h[D \ {k + 1}] = g[D \ {k + 1}]
                BY <4>2
            <4>4. h[D] = Allocate(g[D \ {k + 1}], s[k + 1])
                BY <3>2
            <4>5. j[D] = Allocate(h[D \ {m}], s[m])
                BY <3>2
            <4> HIDE DEF m, h, j
            <4> QED BY <4>1, <4>3, <4>4, <4>5
        <3>3. CASE k + 1 \notin D /\ D # {}
            <4>1. D \in SUBSET (1..k) /\ D \ {m} \in P /\ k + 1 \notin D \ {m}
                <5>1. 1..(k + 1) = (1..k) \cup {k + 1}
                    OBVIOUS
                <5> HIDE DEF m
                <5> QED BY <3>3, <5>1
            <4>2. h[D] = g[D] /\ h[D \ {m}] = g[D \ {m}]
                BY <3>3, <4>1
            <4>3. j[D] = Allocate(h[D \ {m}], s[m])
                BY <3>3
            <4>4. g[D] = Allocate(g[D \ {m}], s[m])
                BY <2>2, <3>3, <4>1, Zenon
            <4> HIDE DEF m, h, j
            <4> QED BY <4>2, <4>3, <4>4
        <3> QED BY <3>1, <3>2, <3>3
    <2>4. h = j
        <3> HIDE DEF P
        <3> QED BY <2>3, Zenon
    <2>5. FoldsTo(h, s, k + 1)
        BY <2>4, Zenon DEF FoldsTo
    <2> QED BY <2>5
<1>3. Nat \subseteq S
    <2> HIDE DEF S
    <2> QED BY <1>1, <1>2, NumbersInduction
<1> QED BY <1>3

\* The wave after the first k components of s.
Turns(s) ==
    CHOOSE g : g = [D \in SUBSET DOMAIN s |->
        IF D = {} THEN EmptyWave ELSE Allocate(g[D \ {Max(D)}], s[Max(D)])]
After(s, k) == Turns(s)[1..k]

LEMMA AfterEach ==
    ASSUME NEW s, NEW n \in Nat, DOMAIN s = 1..n
    PROVE  /\ FoldLeft(Allocate, EmptyWave, s) = After(s, n)
           /\ After(s, 0) = EmptyWave
           /\ \A k \in 0..(n - 1) : After(s, k + 1) = Allocate(After(s, k), s[k + 1])
<1>1. FoldLeft(Allocate, EmptyWave, s) = Turns(s)[DOMAIN s]
    BY Zenon DEF FoldLeft, MapThenFoldSet, Turns
<1>2. FoldsTo(Turns(s), s, n)
    <2>1. PICK g : FoldsTo(g, s, n)
        BY FoldExists
    <2>2. g = [D \in SUBSET DOMAIN s |->
            IF D = {} THEN EmptyWave ELSE Allocate(g[D \ {Max(D)}], s[Max(D)])]
        BY <2>1, Zenon DEF FoldsTo
    <2> QED BY <2>2, Zenon DEF FoldsTo, Turns
<1>3. \A D \in SUBSET (1..n) :
        Turns(s)[D] = IF D = {} THEN EmptyWave
                      ELSE Allocate(Turns(s)[D \ {Max(D)}], s[Max(D)])
    BY <1>2, Zenon DEF FoldsTo
<1>4. After(s, 0) = EmptyWave
    <2>1. 1..0 = {} /\ 1..0 \in SUBSET (1..n)
        OBVIOUS
    <2> QED BY <1>3, <2>1, Zenon DEF After
<1>5. ASSUME NEW k \in 0..(n - 1)
      PROVE  After(s, k + 1) = Allocate(After(s, k), s[k + 1])
    <2> DEFINE D == 1..(k + 1)
               m == Max(D)
    <2>1. D \in SUBSET (1..n) /\ k + 1 \in D /\ k + 1 \in Nat
        OBVIOUS
    <2>2. m = k + 1
        <3>1. m \in D /\ \A x \in D : x <= m
            BY <2>1, LastPosition
        <3>2. m \in Nat /\ m <= k + 1
            BY <3>1
        <3> HIDE DEF m
        <3> QED BY <2>1, <3>1, <3>2
    <2>3. D \ {k + 1} = 1..k
        OBVIOUS
    <2>4. D # {}
        BY <2>1
    <2> HIDE DEF D
    <2>5. Turns(s)[D] = Allocate(Turns(s)[D \ {m}], s[m])
        BY <1>3, <2>1, <2>4, Zenon
    <2>6. Turns(s)[D] = Allocate(Turns(s)[1..k], s[k + 1])
        <3> HIDE DEF m
        <3> QED BY <2>2, <2>3, <2>5
    <2> QED BY <2>6, Zenon DEF After, D
<1> QED BY <1>1, <1>4, <1>5, Zenon DEF After

-----------------------------------------------------------------------------
(* The wave of a plan.                                                     *)

LEMMA UsedGrows ==
    ASSUME NEW B, IsFiniteSet(B), NEW A \in SUBSET B, NEW c
    PROVE  /\ Used(A, c) \in Nat /\ Used(B, c) \in Nat /\ Used(A, c) <= Used(B, c)
           /\ Cardinality(A) \in Nat /\ Cardinality(B) \in Nat
           /\ Cardinality(A) <= Cardinality(B)
<1>1. IsFiniteSet(A) /\ Cardinality(A) <= Cardinality(B)
    BY FS_Subset
<1>2. {i \in A : i.class = c} \in SUBSET {i \in B : i.class = c}
    OBVIOUS
<1>3. IsFiniteSet({i \in B : i.class = c})
    <2>1. {i \in B : i.class = c} \in SUBSET B
        OBVIOUS
    <2> QED BY <2>1, FS_Subset
<1>4. /\ IsFiniteSet({i \in A : i.class = c})
      /\ Cardinality({i \in A : i.class = c}) <= Cardinality({i \in B : i.class = c})
    BY <1>2, <1>3, FS_Subset
<1> QED BY <1>1, <1>3, <1>4, FS_CardinalityType DEF Used

\* One component more takes one slot, and one control of its class.
LEMMA UsedByOneMore ==
    ASSUME NEW B, IsFiniteSet(B), NEW x, x \notin B, NEW c
    PROVE  /\ Cardinality(B \cup {x}) = Cardinality(B) + 1
           /\ Used(B \cup {x}, c) = IF x.class = c THEN Used(B, c) + 1 ELSE Used(B, c)
<1> DEFINE U == {i \in B : i.class = c}
<1>1. IsFiniteSet(U)
    <2>1. U \in SUBSET B
        OBVIOUS
    <2> QED BY <2>1, FS_Subset
<1>2. {i \in B \cup {x} : i.class = c} = IF x.class = c THEN U \cup {x} ELSE U
    OBVIOUS
<1>3. x \notin U
    OBVIOUS
<1>4. Cardinality(U \cup {x}) = Cardinality(U) + 1
    <2> HIDE DEF U
    <2> QED BY <1>1, <1>3, FS_AddElement
<1> QED BY <1>2, <1>4, FS_AddElement DEF Used

\* What has become of the first k components when they have been considered: each has
\* its answer by what was left at its turn.
Settled(s, k) ==
    LET w == After(s, k)
        Given(i) == {s[j] : j \in 1..i}
    IN  /\ w = [scheduled |-> w.scheduled, deferred |-> w.deferred]
        /\ w.scheduled \cup w.deferred = Given(k) /\ w.scheduled \cap w.deferred = {}
        /\ Cardinality(w.scheduled) <= MaxTotal
        /\ \A c \in Class : Used(w.scheduled, c) <= Capacity[c]
        /\ \A i \in 1..k : s[i] \in w.scheduled <=> Fits(After(s, i - 1).scheduled, s[i])
        /\ \A i \in 0..k : After(s, i).scheduled = w.scheduled \cap Given(i)

LEMMA FirstSettled ==
    ASSUME setting \in Settings, NEW s, NEW n \in Nat, DOMAIN s = 1..n
    PROVE  Settled(s, 0)
<1>1. After(s, 0) = [scheduled |-> {}, deferred |-> {}]
    BY AfterEach, Zenon DEF EmptyWave
<1>2. Cardinality({}) = 0 /\ \A c : Used({}, c) = 0
    <2>1. \A c : {i \in {} : i.class = c} = {}
        OBVIOUS
    <2> QED BY <2>1, FS_EmptySet DEF Used
<1>3. /\ 0 <= MaxTotal /\ \A c \in Class : 0 <= Capacity[c]
      /\ 1..0 = {} /\ 0..0 = {0} /\ {s[j] : j \in 1..0} = {}
    BY PolicyTypes
<1> DEFINE w == After(s, 0)
<1>4. /\ w.scheduled = {} /\ w.deferred = {}
      /\ w = [scheduled |-> w.scheduled, deferred |-> w.deferred]
    BY <1>1
<1> HIDE DEF w
<1>5. /\ Cardinality(w.scheduled) <= MaxTotal
      /\ \A c \in Class : Used(w.scheduled, c) <= Capacity[c]
    BY <1>2, <1>3, <1>4
<1>6. /\ w.scheduled \cup w.deferred = {s[j] : j \in 1..0}
      /\ w.scheduled \cap w.deferred = {}
      /\ w.scheduled = w.scheduled \cap {s[j] : j \in 1..0}
    BY <1>3, <1>4
<1>7. \A i \in 0..0 : After(s, i).scheduled = w.scheduled \cap {s[j] : j \in 1..i}
    BY <1>3, <1>6 DEF w
<1>8. \A i \in 1..0 : s[i] \in w.scheduled <=> Fits(After(s, i - 1).scheduled, s[i])
    BY <1>3
<1> QED BY <1>4, <1>5, <1>6, <1>7, <1>8, Zenon DEF Settled, w

LEMMA NextSettled ==
    ASSUME setting \in Settings, NEW items, Items(items), NEW n \in Nat,
           NEW s \in [1..n -> items], \A i, j \in 1..n : i < j => s[i] # s[j],
           NEW k \in 0..(n - 1), Settled(s, k)
    PROVE  Settled(s, k + 1)
<1> DEFINE w == After(s, k)
           v == After(s, k + 1)
           x == s[k + 1]
           Given(i) == {s[j] : j \in 1..i}
<1>1. v = Allocate(w, x)
    BY AfterEach
<1>2. /\ w = [scheduled |-> w.scheduled, deferred |-> w.deferred]
      /\ w.scheduled \cup w.deferred = Given(k) /\ w.scheduled \cap w.deferred = {}
      /\ Cardinality(w.scheduled) <= MaxTotal
      /\ \A c \in Class : Used(w.scheduled, c) <= Capacity[c]
      /\ \A i \in 1..k : s[i] \in w.scheduled <=> Fits(After(s, i - 1).scheduled, s[i])
      /\ \A i \in 0..k : After(s, i).scheduled = w.scheduled \cap Given(i)
    BY Zenon DEF Settled
<1>3. /\ k \in Nat /\ k + 1 \in 1..n /\ (k + 1) - 1 = k
      /\ 1..(k + 1) = (1..k) \cup {k + 1} /\ 0..(k + 1) = (0..k) \cup {k + 1}
      /\ k + 1 \notin 0..k
    OBVIOUS
<1>4. x \in items /\ \A i \in 1..k : s[i] \in items /\ s[i] # x
    BY <1>3
<1>5. Given(k + 1) = Given(k) \cup {x} /\ x \notin Given(k) /\ Given(k) \subseteq items
    BY <1>3, <1>4
<1>6. \A i \in 0..k : x \notin Given(i)
    BY <1>3, <1>4
<1>7. IsFiniteSet(w.scheduled) /\ x \notin w.scheduled /\ x \notin w.deferred
    <2>1. w.scheduled \in SUBSET items /\ IsFiniteSet(items)
        BY <1>2, <1>5 DEF Items
    <2> HIDE DEF w, x
    <2>2. IsFiniteSet(w.scheduled)
        BY <2>1, FS_Subset
    <2> QED BY <1>2, <1>5, <2>2
<1>8. Cardinality(w.scheduled) \in Nat /\ \A c : Used(w.scheduled, c) \in Nat
    BY <1>7, UsedGrows
<1> HIDE DEF w, v, x, Given
<1>9. CASE Fits(w.scheduled, x)
    <2>1. v = [scheduled |-> w.scheduled \cup {x}, deferred |-> w.deferred]
        BY <1>1, <1>2, <1>9 DEF Allocate
    <2>2. /\ v.scheduled = w.scheduled \cup {x} /\ v.deferred = w.deferred
          /\ v = [scheduled |-> v.scheduled, deferred |-> v.deferred]
        BY <2>1
    <2>3. v.scheduled \cup v.deferred = Given(k + 1) /\ v.scheduled \cap v.deferred = {}
        BY <1>2, <1>5, <1>7, <2>2
    <2>4. Cardinality(v.scheduled) <= MaxTotal
        <3>1. Cardinality(v.scheduled) = Cardinality(w.scheduled) + 1
            BY <1>7, <2>2, UsedByOneMore, Zenon
        <3>2. Cardinality(w.scheduled) < MaxTotal
            BY <1>9 DEF Fits
        <3> QED BY <1>8, <3>1, <3>2, PolicyTypes
    <2>5. ASSUME NEW c \in Class PROVE Used(v.scheduled, c) <= Capacity[c]
        <3>1. Used(v.scheduled, c) = IF x.class = c THEN Used(w.scheduled, c) + 1
                                                    ELSE Used(w.scheduled, c)
            <4>1. Used(w.scheduled \cup {x}, c) = IF x.class = c THEN Used(w.scheduled, c) + 1
                                                                ELSE Used(w.scheduled, c)
                BY <1>7, UsedByOneMore
            <4> QED BY <2>2, <4>1
        <3>2. x.class = c => Used(w.scheduled, c) < Capacity[c]
            BY <1>9 DEF Fits
        <3>3. Capacity[c] \in Nat
            BY PolicyTypes
        <3> QED BY <1>2, <1>8, <3>1, <3>2, <3>3
    <2>6. ASSUME NEW i \in 1..(k + 1)
          PROVE  s[i] \in v.scheduled <=> Fits(After(s, i - 1).scheduled, s[i])
        <3>1. CASE i \in 1..k
            BY <1>2, <1>4, <2>2, <3>1
        <3>2. CASE i = k + 1
            BY <1>3, <1>9, <2>2, <3>2 DEF x, w
        <3> QED BY <1>3, <3>1, <3>2
    <2>7. ASSUME NEW i \in 0..(k + 1)
          PROVE  After(s, i).scheduled = v.scheduled \cap Given(i)
        <3>1. CASE i \in 0..k
            BY <1>2, <1>6, <2>2, <3>1
        <3>2. CASE i = k + 1
            <4>1. After(s, i) = v
                BY <3>2 DEF v
            <4>2. v.scheduled \cap Given(k + 1) = v.scheduled
                BY <2>3
            <4> QED BY <3>2, <4>1, <4>2
        <3> QED BY <1>3, <3>1, <3>2
    <2> QED BY <2>2, <2>3, <2>4, <2>5, <2>6, <2>7, Zenon DEF Settled, v, Given
<1>10. CASE ~Fits(w.scheduled, x)
    <2>1. v = [scheduled |-> w.scheduled, deferred |-> w.deferred \cup {x}]
        BY <1>1, <1>2, <1>10 DEF Allocate
    <2>2. /\ v.scheduled = w.scheduled /\ v.deferred = w.deferred \cup {x}
          /\ v = [scheduled |-> v.scheduled, deferred |-> v.deferred]
        BY <2>1
    <2>3. v.scheduled \cup v.deferred = Given(k + 1) /\ v.scheduled \cap v.deferred = {}
        BY <1>2, <1>5, <1>7, <2>2
    <2>4. /\ Cardinality(v.scheduled) <= MaxTotal
          /\ \A c \in Class : Used(v.scheduled, c) <= Capacity[c]
        BY <1>2, <2>2
    <2>5. ASSUME NEW i \in 1..(k + 1)
          PROVE  s[i] \in v.scheduled <=> Fits(After(s, i - 1).scheduled, s[i])
        <3>1. CASE i \in 1..k
            BY <1>2, <2>2, <3>1
        <3>2. CASE i = k + 1
            <4>1. s[i] = x /\ i - 1 = k
                BY <1>3, <3>2 DEF x
            <4>2. x \notin v.scheduled /\ ~Fits(After(s, k).scheduled, x)
                BY <1>7, <1>10, <2>2 DEF w
            <4> QED BY <4>1, <4>2
        <3> QED BY <1>3, <3>1, <3>2
    <2>6. ASSUME NEW i \in 0..(k + 1)
          PROVE  After(s, i).scheduled = v.scheduled \cap Given(i)
        <3>1. CASE i \in 0..k
            BY <1>2, <2>2, <3>1
        <3>2. CASE i = k + 1
            <4>1. After(s, i) = v
                BY <3>2 DEF v
            <4>2. v.scheduled \cap Given(k + 1) = v.scheduled
                BY <2>3
            <4> QED BY <3>2, <4>1, <4>2
        <3> QED BY <1>3, <3>1, <3>2
    <2> QED BY <2>2, <2>3, <2>4, <2>5, <2>6, Zenon DEF Settled, v, Given
<1> QED BY <1>9, <1>10

LEMMA AllSettled ==
    ASSUME setting \in Settings, NEW items, Items(items), NEW n \in Nat,
           NEW s \in [1..n -> items], \A i, j \in 1..n : i < j => s[i] # s[j]
    PROVE  Settled(s, n)
<1> DEFINE S == {k \in Nat : k <= n => Settled(s, k)}
<1>1. 0 \in S
    BY FirstSettled
<1>2. ASSUME NEW k \in Nat, k \in S PROVE k + 1 \in S
    <2>1. CASE k + 1 <= n
        <3>1. k \in 0..(n - 1) /\ Settled(s, k)
            BY <1>2, <2>1
        <3>2. Settled(s, k + 1)
            BY <3>1, NextSettled
        <3> QED BY <3>2
    <2>2. CASE ~(k + 1 <= n)
        BY <2>2
    <2> QED BY <2>1, <2>2
<1>3. Nat \subseteq S
    <2> HIDE DEF S
    <2> QED BY <1>1, <1>2, NumbersInduction
<1> QED BY <1>3

\* The wave is what becomes of all components in the order they are considered.
LEMMA WaveSettled ==
    ASSUME setting \in Settings, NEW items, Items(items)
    PROVE  LET s == Considered(items)
           IN  Wave(items) = After(s, Len(s)) /\ Settled(s, Len(s))
<1> DEFINE s == Considered(items)
           n == Len(s)
<1>1. /\ n \in Nat /\ s \in [1..n -> items]
      /\ \A i, j \in 1..n : i < j => s[i] # s[j]
    BY ConsideredOrders
<1>2. Wave(items) = FoldLeft(Allocate, EmptyWave, s)
    BY Zenon DEF Wave, s
<1> HIDE DEF s, n
<1>3. FoldLeft(Allocate, EmptyWave, s) = After(s, n)
    <2>1. DOMAIN s = 1..n
        BY <1>1
    <2> QED BY <1>1, <2>1, AfterEach
<1>4. Settled(s, n)
    BY <1>1, AllSettled
<1> QED BY <1>2, <1>3, <1>4, Zenon DEF s, n

\* Every component is scheduled or deferred, and no capacity is exceeded.
LEMMA WaveKeepsToCapacity ==
    ASSUME setting \in Settings, NEW items, Items(items)
    PROVE  LET w == Wave(items)
           IN  /\ w = [scheduled |-> w.scheduled, deferred |-> w.deferred]
               /\ w.scheduled \cup w.deferred = items /\ w.scheduled \cap w.deferred = {}
               /\ Cardinality(w.scheduled) <= MaxTotal
               /\ \A c \in Class : Used(w.scheduled, c) <= Capacity[c]
<1> DEFINE s == Considered(items)
           n == Len(s)
           w == Wave(items)
<1>1. /\ n \in Nat /\ s \in [1..n -> items]
      /\ \A i \in items : \E k \in 1..n : s[k] = i
    BY ConsideredOrders
<1> HIDE DEF s, n
<1>2. {s[j] : j \in 1..n} = items
    BY <1>1
<1>3. w = After(s, n) /\ Settled(s, n)
    BY WaveSettled, Zenon DEF s, n
<1> HIDE DEF w
<1>4. /\ w = [scheduled |-> w.scheduled, deferred |-> w.deferred]
      /\ w.scheduled \cup w.deferred = {s[j] : j \in 1..n} /\ w.scheduled \cap w.deferred = {}
      /\ Cardinality(w.scheduled) <= MaxTotal
      /\ \A c \in Class : Used(w.scheduled, c) <= Capacity[c]
    BY <1>3, Zenon DEF Settled
<1> QED BY <1>2, <1>4, Zenon DEF w

\* The reasons of a deferral, with F the components that were favoured.
Reasons(scheduled, deferred, F) ==
    \A d \in deferred :
        /\ ~Fits(scheduled, d)
        /\ \A s \in scheduled :
            \/ Ahead(s, d)
            \/ s \in F
            \/ /\ s.class # d.class
               /\ Used(scheduled, d.class) = Capacity[d.class]
        /\ d \in F => Used(scheduled \cap F, d.class) = Capacity[d.class]

LEMMA WaveHasReasons ==
    ASSUME setting \in Settings, NEW items, Items(items)
    PROVE  Reasons(Wave(items).scheduled, Wave(items).deferred, ToSet(Favoured(items)))
<1> DEFINE s == Considered(items)
           n == Len(s)
           F == ToSet(Favoured(items))
           served == Wave(items).scheduled
           Given(i) == {s[j] : j \in 1..i}
           at(i) == After(s, i - 1).scheduled
<1>1. /\ n \in Nat /\ s \in [1..n -> items] /\ F \subseteq items
      /\ \A i \in items : \E k \in 1..n : s[k] = i
      /\ \A i, j \in 1..n : i < j => s[i] # s[j] /\ (Ahead(s[i], s[j]) \/ s[i] \in F)
      /\ \E l \in 0..Reserved : \A k \in 1..n : s[k] \in F <=> k <= l
    BY ConsideredOrders
<1>2. Wave(items) = After(s, n) /\ Settled(s, n)
    BY WaveSettled, Zenon DEF s, n
<1>3. /\ served \cup Wave(items).deferred = items /\ served \cap Wave(items).deferred = {}
      /\ \A c \in Class : Used(served, c) <= Capacity[c]
    BY WaveKeepsToCapacity
<1> HIDE DEF s, n, F
<1>4. /\ \A i \in 1..n : s[i] \in served <=> Fits(at(i), s[i])
      /\ \A i \in 0..n : After(s, i).scheduled = served \cap Given(i)
    BY <1>2, Zenon DEF Settled
<1> HIDE DEF served
<1>5. \A i \in 1..n : at(i) = served \cap Given(i - 1)
    <2>1. \A i \in 1..n : i - 1 \in 0..n
        BY <1>1
    <2> QED BY <1>4, <2>1
<1> HIDE DEF at
<1>6. IsFiniteSet(served) /\ served \in SUBSET items
    <2>1. IsFiniteSet(items) /\ served \in SUBSET items
        BY <1>3 DEF Items
    <2> QED BY <2>1, FS_Subset
<1>7. \A i \in items : i.class \in Class
    BY DEF Items, Item
\* What was used at a turn is used in the end.
<1>8. ASSUME NEW A \in SUBSET served, NEW B \in SUBSET A, NEW c \in Class
      PROVE  /\ Used(B, c) \in Nat /\ Used(A, c) \in Nat /\ Used(served, c) \in Nat
             /\ Used(B, c) <= Used(A, c) /\ Used(A, c) <= Used(served, c)
             /\ Cardinality(A) \in Nat /\ Cardinality(B) \in Nat
             /\ Cardinality(B) <= Cardinality(A)
    <2>1. IsFiniteSet(A)
        BY <1>6, FS_Subset
    <2> QED BY <1>6, <2>1, UsedGrows
<1>9. /\ MaxTotal \in Nat /\ Reserved \in 0..MaxTotal
      /\ \A c \in Class : Capacity[c] \in Nat
    BY PolicyTypes
<1> SUFFICES ASSUME NEW d \in Wave(items).deferred
             PROVE  /\ ~Fits(served, d)
                    /\ \A x \in served :
                        \/ Ahead(x, d)
                        \/ x \in F
                        \/ /\ x.class # d.class
                           /\ Used(served, d.class) = Capacity[d.class]
                    /\ d \in F => Used(served \cap F, d.class) = Capacity[d.class]
    BY Zenon DEF Reasons, served, F
<1>10. d \in items /\ d \notin served /\ d.class \in Class
    BY <1>3, <1>7
<1>11. PICK k \in 1..n : s[k] = d
    BY <1>1, <1>10
<1>12. ~Fits(at(k), d) /\ at(k) \in SUBSET served
    BY <1>4, <1>5, <1>10, <1>11
<1>13. ~Fits(served, d)
    BY <1>8, <1>9, <1>10, <1>12 DEF Fits
<1>14. ASSUME Cardinality(at(k)) < MaxTotal, NEW B \in SUBSET served, at(k) \subseteq B
       PROVE  Used(B, d.class) = Capacity[d.class]
    <2>1. ~(Used(at(k), d.class) < Capacity[d.class])
        BY <1>12, <1>14 DEF Fits
    <2>2. Used(served, d.class) <= Capacity[d.class]
        BY <1>3, <1>10
    <2> QED BY <1>8, <1>9, <1>10, <1>14, <2>1, <2>2
<1>15. ASSUME NEW x \in served
       PROVE  \/ Ahead(x, d)
              \/ x \in F
              \/ /\ x.class # d.class
                 /\ Used(served, d.class) = Capacity[d.class]
    <2>1. PICK m \in 1..n : s[m] = x
        BY <1>1, <1>6
    <2>2. m # k
        BY <1>10, <1>11, <2>1
    <2>3. CASE m < k
        BY <1>1, <1>11, <2>1, <2>3
    <2>4. CASE k < m
        <3>1. Fits(at(m), x) /\ at(m) \in SUBSET served /\ at(k) \in SUBSET at(m)
            <4>1. Given(k - 1) \subseteq Given(m - 1)
                BY <1>1, <2>4
            <4> QED BY <1>4, <1>5, <2>1, <4>1
        <3>2. x.class \in Class
            BY <1>6, <1>7
        <3>3. /\ Cardinality(at(k)) < MaxTotal
              /\ Used(at(m), x.class) < Capacity[x.class]
            BY <1>8, <1>9, <3>1, <3>2 DEF Fits
        <3>4. Used(served, d.class) = Capacity[d.class] /\ Used(at(m), d.class) = Capacity[d.class]
            BY <1>12, <1>14, <3>1, <3>3
        <3>5. x.class # d.class
            BY <1>9, <3>2, <3>3, <3>4, <1>8, <3>1
        <3> QED BY <3>4, <3>5
    <2> QED BY <1>1, <2>2, <2>3, <2>4
<1>16. ASSUME d \in F PROVE Used(served \cap F, d.class) = Capacity[d.class]
    <2>1. PICK l \in 0..Reserved : \A i \in 1..n : s[i] \in F <=> i <= l
        BY <1>1
    <2>2. k <= l /\ l <= MaxTotal /\ k \in Nat /\ k - 1 \in 0..n
        BY <1>1, <1>9, <1>11, <1>16, <2>1
    <2>3. Given(k - 1) \subseteq F
        BY <1>1, <2>1, <2>2
    <2>4. at(k) \subseteq served \cap F
        BY <1>5, <2>3
    <2>5. Cardinality(at(k)) < MaxTotal
        <3>1. IsFiniteSet(Given(k - 1)) /\ Cardinality(Given(k - 1)) <= k - 1
            <4> DEFINE f == [j \in 1..(k - 1) |-> s[j]]
            <4>1. f \in Surjection(1..(k - 1), Given(k - 1))
                BY DEF Surjection
            <4>2. IsFiniteSet(1..(k - 1)) /\ Cardinality(1..(k - 1)) = k - 1
                BY <2>2, FS_Interval
            <4> HIDE DEF f, Given
            <4> QED BY <4>1, <4>2, FS_Surjection
        <3>2. at(k) \in SUBSET Given(k - 1)
            BY <1>5
        <3>3. Cardinality(at(k)) <= Cardinality(Given(k - 1)) /\ Cardinality(at(k)) \in Nat
              /\ Cardinality(Given(k - 1)) \in Nat
            BY <3>1, <3>2, FS_Subset, FS_CardinalityType
        <3> QED BY <1>9, <2>2, <3>1, <3>3
    <2> QED BY <1>14, <2>4, <2>5
<1> QED BY <1>13, <1>15, <1>16

-----------------------------------------------------------------------------
(* The types.                                                              *)

\* The types, under one of the settings.
Typed == setting \in Settings /\ TypeOK /\ Cardinality(lines) <= MaxLines

LEMMA LinesAreFinite ==
    ASSUME Typed
    PROVE  IsFiniteSet(lines) /\ lines \subseteq Nat /\ Cardinality(lines) \in Nat
<1>1. IsFiniteSet(Subject) /\ Subject \subseteq Nat /\ lines \in SUBSET Subject
    BY PolicyAssumption DEF Typed, TypeOK, Subject
<1> QED BY <1>1, FS_Subset, FS_CardinalityType

LEMMA AgeType ==
    ASSUME Typed, NEW s
    PROVE  Age(ages, s) \in 0..AgeCap /\ AgeCap \in Nat
BY PolicyTypes DEF Typed, TypeOK, Age

\* The candidates of a plan without an unmapped action: one for each line that has an
\* authorized step, as old as the line.
LEMMA CandidatesAreItems ==
    ASSUME Typed, NEW profileOf \in [lines -> Profile], ~Raises(Plan(profileOf))
    PROVE  LET plan  == Plan(profileOf)
               items == Candidates(plan, ages)
           IN  /\ Items(items) /\ Subjects(plan) = lines
               /\ Subjects(items) \cup {c.subject : c \in {d \in plan : d.class = NoStep}} = lines
               /\ \A i \in items :
                    /\ i.subject \in lines /\ i.wait = Age(ages, i.subject)
                    /\ \E p \in Profile : p.class = i.class /\ p.score = i.score
<1> DEFINE plan == Plan(profileOf)
           items == Candidates(plan, ages)
           Part(s) == [subject |-> s, class |-> profileOf[s].class,
                       critical |-> profileOf[s].critical,
                       score |-> profileOf[s].score, mode |-> profileOf[s].mode]
           Wanted(s) == [subject |-> s, class |-> profileOf[s].class,
                         critical |-> profileOf[s].critical, score |-> profileOf[s].score,
                         mode |-> profileOf[s].mode, wait |-> Age(ages, s)]
           active == {s \in lines : profileOf[s].class # NoStep}
<1>1. \A s \in lines : /\ profileOf[s] \in Profile /\ s \in Nat
                       /\ profileOf[s].class \in Class \cup {NoStep, Unmapped}
                       /\ profileOf[s].critical \in BOOLEAN
                       /\ profileOf[s].score \in Nat /\ profileOf[s].mode \in Nat
    BY LinesAreFinite, PolicyAssumption DEF Typed, Profile
<1>2. plan = {Part(s) : s \in lines}
    BY DEF Plan
<1>3. \A s \in lines : profileOf[s].class # Unmapped
    <2>1. \A s \in lines : Part(s) \in plan /\ Part(s).class = profileOf[s].class
        BY <1>2
    <2>2. \A c \in plan : c.class # Unmapped
        BY DEF Raises
    <2> QED BY <2>1, <2>2
<1>4. items = {Wanted(s) : s \in active}
    <2>1. \A s \in lines : /\ Part(s).subject = s /\ Part(s).class = profileOf[s].class
                           /\ Part(s).critical = profileOf[s].critical
                           /\ Part(s).score = profileOf[s].score
                           /\ Part(s).mode = profileOf[s].mode
        OBVIOUS
    <2>2. {d \in plan : d.class # NoStep} = {Part(s) : s \in active}
        BY <1>2, <2>1
    <2> DEFINE Of(c) == [subject |-> c.subject, class |-> c.class, critical |-> c.critical,
                         score |-> c.score, mode |-> c.mode, wait |-> Age(ages, c.subject)]
    <2>3. items = {Of(c) : c \in {d \in plan : d.class # NoStep}}
        BY DEF Candidates
    <2>4. \A s \in active : Of(Part(s)) = Wanted(s)
        BY <2>1
    <2> HIDE DEF Of, Part, Wanted, plan, items
    <2> QED BY <2>2, <2>3, <2>4
<1>5. \A s \in active : Wanted(s) \in Item
    <2>1. \A s \in active : Age(ages, s) \in Nat
        BY AgeType
    <2> QED BY <1>1, <1>3, <2>1 DEF Item
<1>6. IsFiniteSet(items)
    <2> DEFINE f == [s \in active |-> Wanted(s)]
    <2>1. f \in Surjection(active, items)
        BY <1>4 DEF Surjection
    <2>2. IsFiniteSet(active)
        <3>1. active \in SUBSET lines
            OBVIOUS
        <3> QED BY <3>1, LinesAreFinite, FS_Subset
    <2> HIDE DEF f, active
    <2> QED BY <2>1, <2>2, FS_Surjection
<1>7. \A s \in lines : Wanted(s).subject = s /\ Part(s).subject = s
    OBVIOUS
<1>8. Items(items)
    <2> HIDE DEF Wanted, items
    <2> QED BY <1>4, <1>5, <1>6, <1>7 DEF Items
<1>9. Subjects(plan) = lines /\ Subjects(items) = active
    <2>1. active \subseteq lines
        OBVIOUS
    <2> HIDE DEF plan, items, Part, Wanted, active
    <2> QED BY <1>2, <1>4, <1>7, <2>1 DEF Subjects
<1>10. {c.subject : c \in {d \in plan : d.class = NoStep}} = lines \ active
    <2>1. \A s \in lines : Part(s).class = profileOf[s].class
        OBVIOUS
    <2>2. {d \in plan : d.class = NoStep} = {Part(s) : s \in lines \ active}
        <3> HIDE DEF Part, plan
        <3> QED BY <1>2, <2>1
    <2> HIDE DEF plan, Part, active
    <2> QED BY <1>7, <2>2
<1>11. \A i \in items :
        /\ i.subject \in lines /\ i.wait = Age(ages, i.subject)
        /\ \E p \in Profile : p.class = i.class /\ p.score = i.score
    <2>1. \A s \in active :
            /\ Wanted(s).subject = s /\ s \in lines /\ Wanted(s).wait = Age(ages, s)
            /\ Wanted(s).class = profileOf[s].class /\ Wanted(s).score = profileOf[s].score
            /\ profileOf[s] \in Profile
        BY <1>1
    <2> HIDE DEF items, Wanted, active
    <2> QED BY <1>4, <2>1
<1>12. active \cup (lines \ active) = lines
    OBVIOUS
<1> QED BY <1>8, <1>9, <1>10, <1>11, <1>12

LEMMA EmptyUse == Cardinality({}) = 0 /\ Subjects({}) = {} /\ \A c : Used({}, c) = 0
<1>1. \A c : {i \in {} : i.class = c} = {}
    OBVIOUS
<1> QED BY <1>1, FS_EmptySet DEF Used, Subjects

LEMMA InitTyped == Init => Typed
<1> SUFFICES ASSUME Init PROVE Typed
    OBVIOUS
<1>1. /\ setting \in Settings /\ lines \subseteq Subject /\ Cardinality(lines) <= MaxLines
      /\ DOMAIN ages = {}
      /\ wave.outcome = "none" /\ wave.scheduled = {}
    BY DEF Init, NoWave
<1>2. 0 <= MaxTotal /\ \A c \in Class : 0 <= Capacity[c]
    BY <1>1, PolicyTypes
<1> QED BY <1>1, <1>2, EmptyUse DEF Typed, TypeOK

\* The schedule of a plan is the wave of its candidates.
BuiltOf(items, idle) ==
    /\ Items(items) /\ Subjects(items) \cup idle = lines
    /\ \A i \in items :
        /\ i.subject \in lines /\ i.wait = Age(ages, i.subject)
        /\ \E p \in Profile : p.class = i.class /\ p.score = i.score
    /\ wave' = [outcome |-> "built", scheduled |-> Wave(items).scheduled,
                deferred |-> Wave(items).deferred, idle |-> idle]
    /\ ages' = [s \in lines |-> IF s \in Subjects(Wave(items).deferred)
                                THEN Least(AgeCap, Age(ages, s) + 1) ELSE 0]

Raised ==
    /\ wave' = [outcome |-> "raised", scheduled |-> {}, deferred |-> {}, idle |-> {}]
    /\ UNCHANGED ages

LEMMA ScheduleBuilds ==
    ASSUME Typed, Schedule
    PROVE  /\ setting' = setting /\ lines' = lines
           /\ Raised \/ \E items, idle : BuiltOf(items, idle)
<1>1. setting' = setting /\ lines' = lines
    BY DEF Schedule
<1>2. PICK profileOf \in [lines -> Profile] :
        LET plan == Plan(profileOf)
            w    == Wave(Candidates(plan, ages))
        IN  IF Raises(plan)
            THEN /\ wave' = [NoWave EXCEPT !.outcome = "raised"]
                 /\ UNCHANGED ages
            ELSE /\ wave' = [outcome |-> "built", scheduled |-> w.scheduled,
                             deferred |-> w.deferred,
                             idle |-> {c.subject : c \in {d \in plan : d.class = NoStep}}]
                 /\ ages' = NextAges(plan, ages, w)
    BY Zenon DEF Schedule
<1> DEFINE plan == Plan(profileOf)
           items == Candidates(plan, ages)
           idle == {c.subject : c \in {d \in plan : d.class = NoStep}}
<1>3. CASE Raises(plan)
    <2>1. wave' = [NoWave EXCEPT !.outcome = "raised"] /\ UNCHANGED ages
        BY <1>2, <1>3, Zenon
    <2> QED BY <1>1, <2>1 DEF NoWave, Raised
<1>4. CASE ~Raises(plan)
    <2>1. /\ wave' = [outcome |-> "built", scheduled |-> Wave(items).scheduled,
                      deferred |-> Wave(items).deferred, idle |-> idle]
          /\ ages' = NextAges(plan, ages, Wave(items))
        BY <1>2, <1>4, Zenon
    <2>2. /\ Items(items) /\ Subjects(plan) = lines /\ Subjects(items) \cup idle = lines
          /\ \A i \in items :
                /\ i.subject \in lines /\ i.wait = Age(ages, i.subject)
                /\ \E p \in Profile : p.class = i.class /\ p.score = i.score
        BY <1>4, CandidatesAreItems, Zenon
    <2> HIDE DEF items, idle, plan
    <2>3. ages' = [s \in lines |-> IF s \in Subjects(Wave(items).deferred)
                                   THEN Least(AgeCap, Age(ages, s) + 1) ELSE 0]
        BY <2>1, <2>2 DEF NextAges
    <2>4. BuiltOf(items, idle)
        BY <2>1, <2>2, <2>3, Zenon DEF BuiltOf
    <2> QED BY <1>1, <2>4, Zenon
<1> QED BY <1>1, <1>3, <1>4

LEMMA ScheduleTyped ==
    ASSUME Typed, Schedule
    PROVE  Typed'
<1>1. setting' = setting /\ lines' = lines /\ setting \in Settings
    BY ScheduleBuilds DEF Typed
<1>2. Subject' = Subject /\ AgeCap' = AgeCap /\ MaxLines' = MaxLines
    BY <1>1 DEF Subject, AgeCap, MaxLines
<1>3. lines \subseteq Subject /\ Cardinality(lines) <= MaxLines
    BY DEF Typed, TypeOK
<1>4. CASE Raised
    <2>1. wave'.outcome = "raised" /\ wave'.scheduled = {} /\ ages' = ages
        BY <1>4 DEF Raised
    <2>2. 0 <= MaxTotal /\ \A c \in Class : 0 <= Capacity[c]
        BY <1>1, PolicyTypes
    <2>3. DOMAIN ages \subseteq lines /\ \A s \in DOMAIN ages : ages[s] \in 0..AgeCap
        BY DEF Typed, TypeOK
    <2> QED BY <1>1, <1>2, <1>3, <2>1, <2>2, <2>3, EmptyUse DEF Typed, TypeOK
<1>5. ASSUME NEW items, NEW idle, BuiltOf(items, idle) PROVE Typed'
    <2> DEFINE w == Wave(items)
    <2>1. /\ Items(items) /\ Subjects(items) \cup idle = lines
          /\ wave' = [outcome |-> "built", scheduled |-> w.scheduled,
                      deferred |-> w.deferred, idle |-> idle]
          /\ ages' = [s \in lines |-> IF s \in Subjects(w.deferred)
                                      THEN Least(AgeCap, Age(ages, s) + 1) ELSE 0]
        BY <1>5, Zenon DEF BuiltOf
    <2>2. /\ w.scheduled \cup w.deferred = items /\ w.scheduled \cap w.deferred = {}
          /\ Cardinality(w.scheduled) <= MaxTotal
          /\ \A c \in Class : Used(w.scheduled, c) <= Capacity[c]
        BY <1>1, <2>1, WaveKeepsToCapacity, Zenon
    <2> HIDE DEF w
    <2>3. /\ wave'.scheduled = w.scheduled /\ wave'.deferred = w.deferred /\ wave'.idle = idle
        BY <2>1
    <2>4. Subjects(w.scheduled) \cup Subjects(w.deferred) = Subjects(items)
        BY <2>2 DEF Subjects
    <2>5. Subjects(w.scheduled) \cap Subjects(w.deferred) = {}
        <3>1. \A i, j \in items : i.subject = j.subject => i = j
            BY <2>1 DEF Items
        <3> QED BY <2>2, <3>1 DEF Subjects
    <2>6. DOMAIN ages' = lines /\ \A s \in lines : ages'[s] \in 0..AgeCap
        <3>1. AgeCap \in Nat /\ \A s : Age(ages, s) \in Nat
            BY <1>1, AgeType
        <3>2. \A s \in lines : Least(AgeCap, Age(ages, s) + 1) \in 0..AgeCap
            BY <3>1 DEF Least
        <3> QED BY <2>1, <3>1, <3>2
    <2>7. /\ Subjects(wave'.scheduled) \cup Subjects(wave'.deferred) \cup wave'.idle = lines
          /\ Subjects(wave'.scheduled) \cap Subjects(wave'.deferred) = {}
          /\ Cardinality(wave'.scheduled) <= MaxTotal
          /\ \A c \in Class : Used(wave'.scheduled, c) <= Capacity[c]
        BY <2>1, <2>2, <2>3, <2>4, <2>5
    <2> QED BY <1>1, <1>2, <1>3, <2>6, <2>7 DEF Typed, TypeOK
<1> QED BY <1>4, <1>5, ScheduleBuilds

\* The age of a line of the next tick is that of a predecessor, and of the oldest.
LEMMA InheritedAge ==
    ASSUME Typed, NEW from, NEW s, NEW S \in SUBSET lines, from[s] = S,
           s \in lines => S = {s}
    PROVE  /\ Inherited(from, s) \in 0..AgeCap
           /\ \A q \in S : Inherited(from, s) >= Age(ages, q)
           /\ Inherited(from, s) > 0 => \E q \in S : Inherited(from, s) = Age(ages, q)
<1>1. AgeCap \in Nat /\ \A q : Age(ages, q) \in 0..AgeCap
    BY AgeType
<1>2. CASE s \in DOMAIN ages
    <2>1. S = {s} /\ Inherited(from, s) = Age(ages, s)
        BY <1>2 DEF Typed, TypeOK, Inherited, Age
    <2> QED BY <1>1, <2>1
<1>3. CASE s \notin DOMAIN ages
    <2> DEFINE D == {0} \cup {Age(ages, q) : q \in S}
    <2>1. D \in SUBSET Nat /\ 0 \in D /\ \A x \in D : x <= AgeCap
        BY <1>1
    <2>2. Inherited(from, s) = Max(D)
        BY <1>3, Zenon DEF Inherited
    <2>3. \A q \in S : Age(ages, q) \in D
        OBVIOUS
    <2>4. \A x \in D : x = 0 \/ \E q \in S : x = Age(ages, q)
        OBVIOUS
    <2> HIDE DEF D
    <2>5. Max(D) \in D /\ \A x \in D : x <= Max(D)
        BY <1>1, <2>1, MaxOfNumbers
    <2>6. Max(D) \in 0..AgeCap
        <3>1. Max(D) \in Nat /\ Max(D) <= AgeCap
            BY <2>1, <2>5, Zenon
        <3> QED BY <1>1, <3>1
    <2>7. \A q \in S : Max(D) >= Age(ages, q)
        BY <1>1, <2>3, <2>5, <2>6
    <2>8. Max(D) > 0 => \E q \in S : Max(D) = Age(ages, q)
        BY <2>4, <2>5, <2>6
    <2> QED BY <2>2, <2>6, <2>7, <2>8
<1> QED BY <1>2, <1>3

\* What a tick does: who continues and who succeeds whom.
Succeeds(kept, fresh, from) ==
    /\ kept \in SUBSET lines /\ fresh \in SUBSET (Subject \ lines)
    /\ from \in [fresh -> SUBSET (lines \ kept)] /\ Grouped(from)
    /\ Cardinality(kept \cup fresh) <= MaxLines
    /\ parents' = [s \in kept \cup fresh |-> IF s \in kept THEN {s} ELSE from[s]]
    /\ lines' = kept \cup fresh
    /\ ages' = [s \in kept \cup fresh |-> Inherited(parents', s)]

LEMMA TickCarries ==
    ASSUME Typed, Tick
    PROVE  /\ setting' = setting
           /\ wave' = NoWave
           /\ \E kept, fresh, from : Succeeds(kept, fresh, from)
<1>1. PICK kept \in SUBSET lines, fresh \in SUBSET (Subject \ lines) :
        /\ Cardinality(kept \cup fresh) <= MaxLines
        /\ \E from \in [fresh -> SUBSET (lines \ kept)] :
            /\ Grouped(from)
            /\ "end" \in Kinds \/ kept \cup UNION {from[s] : s \in fresh} = lines
            /\ parents' = [s \in kept \cup fresh |-> IF s \in kept THEN {s} ELSE from[s]]
        /\ lines' = kept \cup fresh
        /\ ages' = [s \in lines' |-> Inherited(parents', s)]
        /\ wave' = NoWave
        /\ UNCHANGED setting
    BY Zenon DEF Tick
<1>2. PICK from \in [fresh -> SUBSET (lines \ kept)] :
            /\ Grouped(from)
            /\ parents' = [s \in kept \cup fresh |-> IF s \in kept THEN {s} ELSE from[s]]
    BY <1>1
<1>3. ages' = [s \in kept \cup fresh |-> Inherited(parents', s)]
    BY <1>1, Zenon
<1>4. Succeeds(kept, fresh, from)
    BY <1>1, <1>2, <1>3, Zenon DEF Succeeds
<1> QED BY <1>1, <1>4, Zenon

\* A line that continues has itself for a predecessor, a new one lines of before.
LEMMA TickAges ==
    ASSUME Typed, NEW kept, NEW fresh, NEW from,
           Succeeds(kept, fresh, from), NEW s \in kept \cup fresh
    PROVE  /\ parents'[s] = IF s \in kept THEN {s} ELSE from[s]
           /\ parents'[s] \in SUBSET lines
           /\ ages'[s] \in 0..AgeCap
           /\ \A q \in parents'[s] : ages'[s] >= Age(ages, q)
           /\ ages'[s] > 0 => \E q \in parents'[s] : ages'[s] = Age(ages, q)
<1>1. /\ kept \in SUBSET lines /\ fresh \in SUBSET (Subject \ lines)
      /\ parents' = [t \in kept \cup fresh |-> IF t \in kept THEN {t} ELSE from[t]]
      /\ ages' = [t \in kept \cup fresh |-> Inherited(parents', t)]
      /\ from \in [fresh -> SUBSET (lines \ kept)]
    BY DEF Succeeds
<1>2. parents'[s] = IF s \in kept THEN {s} ELSE from[s]
    BY <1>1
<1>3. parents'[s] \in SUBSET lines /\ (s \in lines => parents'[s] = {s})
    BY <1>1, <1>2
<1>4. ages'[s] = Inherited(parents', s)
    BY <1>1
<1> DEFINE p == parents'
           S == p[s]
           v == Inherited(p, s)
<1>5. S \in SUBSET lines /\ (s \in lines => S = {s})
    BY <1>3
<1> HIDE DEF p, S
<1>6. /\ v \in 0..AgeCap
      /\ \A q \in S : v >= Age(ages, q)
      /\ v > 0 => \E q \in S : v = Age(ages, q)
    <2>1. p[s] = S
        BY DEF S
    <2> QED BY <1>5, <2>1, InheritedAge
<1>7. /\ ages'[s] \in 0..AgeCap
      /\ \A q \in parents'[s] : ages'[s] >= Age(ages, q)
      /\ ages'[s] > 0 => \E q \in parents'[s] : ages'[s] = Age(ages, q)
    BY <1>4, <1>6, Zenon DEF p, S
<1> QED BY <1>2, <1>3, <1>7

LEMMA TickTyped ==
    ASSUME Typed, Tick
    PROVE  Typed'
<1>1. setting' = setting /\ wave' = NoWave /\ setting \in Settings
    BY TickCarries DEF Typed
<1>2. PICK kept, fresh, from : Succeeds(kept, fresh, from)
    BY TickCarries
<1>3. Subject' = Subject /\ AgeCap' = AgeCap /\ MaxLines' = MaxLines
    BY <1>1 DEF Subject, AgeCap, MaxLines
<1>4. /\ lines' = kept \cup fresh /\ DOMAIN ages' = kept \cup fresh
      /\ Cardinality(kept \cup fresh) <= MaxLines
    BY <1>2 DEF Succeeds
<1>5. kept \cup fresh \subseteq Subject
    BY <1>2 DEF Succeeds, Typed, TypeOK
<1>6. \A s \in kept \cup fresh : ages'[s] \in 0..AgeCap
    BY <1>2, TickAges
<1>7. 0 <= MaxTotal /\ \A c \in Class : 0 <= Capacity[c]
    BY <1>1, PolicyTypes
<1>8. wave'.outcome = "none" /\ wave'.scheduled = {}
    BY <1>1 DEF NoWave
<1> QED BY <1>1, <1>3, <1>4, <1>5, <1>6, <1>7, <1>8, EmptyUse DEF Typed, TypeOK

LEMMA TypedInductive == Typed /\ [Next]_vars => Typed'
<1> SUFFICES ASSUME Typed, [Next]_vars PROVE Typed'
    OBVIOUS
<1>1. CASE Schedule
    BY <1>1, ScheduleTyped
<1>2. CASE Tick
    BY <1>2, TickTyped
<1>3. CASE UNCHANGED vars
    BY <1>3 DEF vars, Typed, TypeOK, Subject, AgeCap, MaxLines
<1> QED BY <1>1, <1>2, <1>3 DEF Next

LEMMA AlwaysTyped == Spec => []Typed
BY InitTyped, TypedInductive, PTL DEF Spec

\* In any timeline, under any policy, a schedule answers for every line of its tick
\* once, and neither the slots of the wave nor the controls of a class are exceeded
\* (build_defense_resource_schedule, verify_defense_resource_schedule).
THEOREM TypesHold == Spec => []TypeOK
<1>1. Typed => TypeOK
    BY DEF Typed
<1> QED BY <1>1, AlwaysTyped, PTL

-----------------------------------------------------------------------------
(* Ages.                                                                   *)

\* However an attack is restructured, a line is as old as the oldest of its
\* predecessors, and no age is invented (carry_scheduler_state_across_world_lines).
THEOREM AgesAreCarried == Spec => AgesSurvive
<1> DEFINE Carried == Tick => \A s \in DOMAIN ages' :
            /\ \A q \in parents'[s] : ages'[s] >= Age(ages, q)
            /\ ages'[s] > 0 => \E q \in parents'[s] : ages'[s] = Age(ages, q)
<1>1. ASSUME Typed, [Next]_vars PROVE Carried
    <2> SUFFICES ASSUME Tick PROVE Carried
        OBVIOUS
    <2>1. PICK kept, fresh, from : Succeeds(kept, fresh, from)
        BY <1>1, TickCarries
    <2>2. DOMAIN ages' = kept \cup fresh
        BY <2>1 DEF Succeeds
    <2>3. ASSUME NEW s \in kept \cup fresh
          PROVE  /\ \A q \in parents'[s] : ages'[s] >= Age(ages, q)
                 /\ ages'[s] > 0 => \E q \in parents'[s] : ages'[s] = Age(ages, q)
        BY <1>1, <2>1, TickAges, Zenon
    <2> QED BY <2>2, <2>3, Zenon
<1>2. Spec => [][Carried]_vars
    <2>1. Typed /\ [Next]_vars => [Carried]_vars
        BY <1>1
    <2> HIDE DEF Carried
    <2> QED BY <2>1, AlwaysTyped, PTL DEF Spec
<1> QED BY <1>2, PTL DEF AgesSurvive

-----------------------------------------------------------------------------
(* Deferral.                                                               *)

\* The order does not depend on the tick, only on the policy.
LEMMA OrderStays ==
    ASSUME setting' = setting
    PROVE  /\ \A a, b : Ahead(a, b)' <=> Ahead(a, b)
           /\ \A items : Favoured(items)' = Favoured(items)
<1>1. \A i : Priority(i)' = Priority(i)
    BY DEF Priority, WaitBonus, MaxWaitBoost
<1>2. \A a, b : Ahead(a, b)' <=> Ahead(a, b)
    BY <1>1 DEF Ahead
<1>3. \A items : Ranked(items)' = Ranked(items)
    BY SMT DEF Ranked, Ahead, Priority, WaitBonus, MaxWaitBoost
<1>4. \A items : Favoured(items)' = Favoured(items)
    BY <1>3, Zenon DEF Favoured, Reserved
<1> QED BY <1>2, <1>4

LEMMA ScheduleDefers ==
    ASSUME Typed, Schedule
    PROVE  DeferredForBetter'
<1>1. CASE Raised
    <2>1. wave'.deferred = {}
        BY <1>1 DEF Raised
    <2> QED BY <2>1, Zenon DEF DeferredForBetter
<1>2. ASSUME NEW items, NEW idle, BuiltOf(items, idle)
      PROVE  DeferredForBetter'
    <2>1. setting' = setting /\ setting \in Settings
        BY ScheduleBuilds DEF Typed
    <2>2. /\ Items(items)
          /\ wave' = [outcome |-> "built", scheduled |-> Wave(items).scheduled,
                      deferred |-> Wave(items).deferred, idle |-> idle]
        BY <1>2, Zenon DEF BuiltOf
    <2>3. wave'.scheduled = Wave(items).scheduled /\ wave'.deferred = Wave(items).deferred
        BY <2>2
    <2>4. Wave(items).scheduled \cup Wave(items).deferred = items
        BY <2>1, <2>2, WaveKeepsToCapacity, Zenon
    <2>5. Reasons(wave'.scheduled, wave'.deferred, ToSet(Favoured(items)))
        BY <2>1, <2>2, <2>3, WaveHasReasons, Zenon
    <2>6. ToSet(Favoured(wave.scheduled \cup wave.deferred))' = ToSet(Favoured(items))
        <3>1. wave'.scheduled \cup wave'.deferred = items
            BY <2>3, <2>4
        <3>2. Favoured(items)' = Favoured(items)
            BY <2>1, OrderStays
        <3>3. Favoured(wave.scheduled \cup wave.deferred)' = Favoured(items)'
            BY <3>1, Zenon
        <3> QED BY <3>2, <3>3
    <2> DEFINE F == ToSet(Favoured(items))
    <2>7. \A d \in wave'.deferred :
            /\ ~Fits(wave'.scheduled, d)
            /\ \A s \in wave'.scheduled :
                \/ Ahead(s, d)'
                \/ s \in F
                \/ /\ s.class # d.class
                   /\ Used(wave'.scheduled, d.class) = Capacity[d.class]
            /\ d \in F => Used(wave'.scheduled \cap F, d.class) = Capacity[d.class]
        <3>1. \A a, b : Ahead(a, b)' <=> Ahead(a, b)
            BY <2>1, OrderStays
        <3> HIDE DEF F
        <3> QED BY <2>5, <3>1, Zenon DEF Reasons, F
    <2> QED BY <2>6, <2>7, Zenon DEF DeferredForBetter
<1> QED BY <1>1, <1>2, ScheduleBuilds

\* In any timeline, under any policy, a component is deferred only for want of
\* capacity, for components that are ahead of it or hold a reservation
\* (_can_allocate and the two passes of build_defense_resource_schedule).
THEOREM DeferralIsJustified == Spec => []DeferredForBetter
<1>1. Init => DeferredForBetter
    BY DEF Init, NoWave, DeferredForBetter
<1>2. Typed /\ DeferredForBetter /\ [Next]_vars => DeferredForBetter'
    <2> SUFFICES ASSUME Typed, DeferredForBetter, [Next]_vars PROVE DeferredForBetter'
        OBVIOUS
    <2>1. CASE Schedule
        BY <2>1, ScheduleDefers
    <2>2. CASE Tick
        <3>1. wave'.deferred = {}
            BY <2>2, TickCarries DEF NoWave
        <3> QED BY <3>1, Zenon DEF DeferredForBetter
    <2>3. CASE UNCHANGED vars
        <3>1. setting' = setting /\ wave' = wave
            BY <2>3 DEF vars
        <3>2. /\ \A a, b : Ahead(a, b)' <=> Ahead(a, b)
              /\ \A items : Favoured(items)' = Favoured(items)
            BY <3>1, OrderStays
        <3> QED BY <3>1, <3>2 DEF DeferredForBetter
    <2> QED BY <2>1, <2>2, <2>3 DEF Next
<1> QED BY <1>1, <1>2, AlwaysTyped, PTL DEF Spec

-----------------------------------------------------------------------------
(* Waiting.                                                                *)

\* A finite set of profiles has a highest score.
LEMMA ScoresAreBounded ==
    ASSUME setting \in Settings
    PROVE  \E bound \in Nat : \A p \in Profile : p.score <= bound
<1>1. IsFiniteSet(Profile) /\ \A p \in Profile : p.score \in Nat
    BY PolicyAssumption DEF Profile
<1>2. PICK n \in Nat : ExistsSurjection(1..n, Profile)
    BY <1>1, FS_NatSurjection
<1>3. PICK f \in Surjection(1..n, Profile) : TRUE
    BY <1>2 DEF ExistsSurjection
<1>4. f \in [1..n -> Profile] /\ \A p \in Profile : \E i \in 1..n : f[i] = p
    BY <1>3 DEF Surjection
<1> DEFINE S == {k \in Nat : k <= n => \E b \in Nat : \A i \in 1..k : f[i].score <= b}
<1>5. 0 \in S
    OBVIOUS
<1>6. ASSUME NEW k \in Nat, k \in S PROVE k + 1 \in S
    <2> SUFFICES ASSUME k + 1 <= n
                 PROVE  \E b \in Nat : \A i \in 1..(k + 1) : f[i].score <= b
        OBVIOUS
    <2>1. PICK b \in Nat : \A i \in 1..k : f[i].score <= b
        BY <1>6
    <2>2. f[k + 1].score \in Nat /\ \A i \in 1..k : f[i].score \in Nat
        BY <1>1, <1>4
    <2> DEFINE c == f[k + 1].score + b
    <2>3. c \in Nat /\ \A i \in 1..k : f[i].score <= c
        BY <2>1, <2>2
    <2>4. f[k + 1].score <= c
        BY <2>2
    <2> HIDE DEF c
    <2>5. \A i \in 1..(k + 1) : f[i].score <= c
        BY <2>3, <2>4
    <2> QED BY <2>3, <2>5
<1>7. Nat \subseteq S
    <2> HIDE DEF S
    <2> QED BY <1>5, <1>6, NumbersInduction
<1>8. PICK b \in Nat : \A i \in 1..n : f[i].score <= b
    <2>1. n \in S
        BY <1>7
    <2> QED BY <2>1
<1> QED BY <1>4, <1>8

LEMMA ScoreGapBounds ==
    ASSUME setting \in Settings
    PROVE  /\ ScoreGap \in Nat
           /\ \A p, q \in Profile :
                p.score \in Nat /\ q.score \in Nat /\ p.score - q.score <= ScoreGap
<1>1. Profile # {} /\ \A p \in Profile : p.score \in Nat
    BY PolicyAssumption DEF Profile
<1>2. PICK bound \in Nat : \A p \in Profile : p.score <= bound
    BY ScoresAreBounded
<1> DEFINE D == {p.score - q.score : p, q \in Profile} \cap Nat
<1>3. D \in SUBSET Nat /\ \A x \in D : x <= bound
    BY <1>1, <1>2
<1>4. 0 \in D
    <2>1. PICK p \in Profile : TRUE
        BY <1>1
    <2>2. p.score - p.score = 0
        BY <1>1
    <2> QED BY <2>2
<1>5. \A p, q \in Profile : p.score - q.score \in Nat => p.score - q.score \in D
    OBVIOUS
<1>6. ScoreGap = Max(D)
    BY DEF ScoreGap
<1> HIDE DEF D
<1>7. Max(D) \in D /\ \A x \in D : x <= Max(D)
    BY <1>3, <1>4, MaxOfNumbers
<1>8. ASSUME NEW p \in Profile, NEW q \in Profile
      PROVE  p.score \in Nat /\ q.score \in Nat /\ p.score - q.score <= ScoreGap
    <2>1. p.score \in Nat /\ q.score \in Nat /\ ScoreGap \in Nat
        BY <1>1, <1>3, <1>6, <1>7
    <2>2. CASE p.score - q.score \in Nat
        <3>1. p.score - q.score \in D
            BY <1>5, <2>2
        <3>2. p.score - q.score <= Max(D)
            BY <1>7, <3>1, Zenon
        <3> QED BY <1>6, <2>1, <3>2
    <2>3. CASE p.score - q.score \notin Nat
        BY <2>1, <2>3
    <2> QED BY <2>1, <2>2, <2>3
<1> QED BY <1>3, <1>6, <1>7, <1>8

\* The waits that make up for the largest gap between two scores.
Slack == ScoreGap \div WaitBoost

LEMMA SlackBounds ==
    ASSUME setting \in Settings, WaitBoost > 0
    PROVE  /\ Slack \in Nat /\ WaitLimit = (MaxLines - 1) + Slack
           /\ \A k \in Nat : k * WaitBoost <= ScoreGap => k <= Slack
<1>1. ScoreGap \in Nat /\ WaitBoost \in Nat
    BY ScoreGapBounds, PolicyTypes
<1> DEFINE G == ScoreGap
           B == WaitBoost
           s == G \div B
<1>2. G \in Nat /\ B \in Nat /\ B > 0
    BY <1>1
<1> HIDE DEF G, B
<1>3. s \in Nat /\ G < B * s + B
    BY <1>2
<1> HIDE DEF s
<1>4. ASSUME NEW k \in Nat, k * B <= G PROVE k <= s
    <2> SUFFICES ASSUME k >= s + 1 PROVE FALSE
        BY <1>3
    <2>1. k * B >= (s + 1) * B
        BY <1>2, <1>3
    <2>2. (s + 1) * B = B * s + B
        BY <1>2, <1>3
    <2> QED BY <1>2, <1>3, <1>4, <2>1, <2>2
<1>5. s = Slack /\ G = ScoreGap /\ B = WaitBoost
    BY DEF s, G, B, Slack
<1> QED BY <1>3, <1>4, <1>5 DEF WaitLimit, Slack

\* A component that is ahead of a waiting one has waited almost as long.
LEMMA AheadHasWaited ==
    ASSUME setting \in Settings, Unhindered,
           NEW p \in Profile, NEW q \in Profile, NEW s \in Item, NEW d \in Item,
           s.score = p.score, d.score = q.score, d.wait <= WaitLimit, Ahead(s, d)
    PROVE  d.wait <= s.wait + Slack
<1>1. /\ WaitBoost \in Nat /\ WaitBoost > 0 /\ MaxWaitBoost \in Nat /\ MaxLines \in Nat
      /\ WaitLimit \in Int /\ WaitLimit * WaitBoost <= MaxWaitBoost
      /\ q.score + WaitLimit * WaitBoost <= MaxPriority
    BY PolicyTypes, SlackBounds DEF Unhindered
<1>2. /\ s.wait \in Nat /\ d.wait \in Nat /\ p.score \in Nat /\ q.score \in Nat
      /\ p.score - q.score <= ScoreGap /\ ScoreGap \in Nat
    BY ScoreGapBounds DEF Item
<1> DEFINE a == d.wait
           w == s.wait
           B == WaitBoost
           W == WaitLimit
<1>3. a * B <= W * B /\ a * B \in Nat /\ w * B \in Nat /\ W * B \in Int
    <2>1. a \in Nat /\ w \in Nat /\ B \in Nat /\ W \in Int /\ a <= W
        BY <1>1, <1>2
    <2> HIDE DEF a, w, B, W
    <2> QED BY <2>1
<1>4. WaitBonus(d.wait) = a * B
    BY <1>1, <1>3 DEF WaitBonus, Least
<1>5. Priority(d) = q.score + a * B
    BY <1>1, <1>2, <1>3, <1>4 DEF Priority, Least, MaxPriority
<1>6. Priority(s) <= p.score + w * B /\ Priority(s) \in Nat /\ Priority(d) \in Nat
    <2>1. /\ s.score \in Nat /\ s.wait \in Nat /\ d.score \in Nat /\ d.wait \in Nat
        BY DEF Item
    <2>2. /\ WaitBonus(s.wait) \in Nat /\ Priority(s) \in Nat /\ Priority(d) \in Nat
          /\ WaitBonus(s.wait) <= w * B
          /\ Priority(s) <= s.score + WaitBonus(s.wait)
        BY <2>1, PriorityType
    <2> HIDE DEF Priority, WaitBonus
    <2> QED BY <1>2, <1>3, <2>2
<1>7. Priority(s) >= Priority(d)
    BY <1>6 DEF Ahead
<1>8. q.score + a * B <= p.score + w * B
    BY <1>2, <1>3, <1>5, <1>6, <1>7
<1>9. CASE w < a
    <2> DEFINE k == a - w
    <2>1. k \in Nat /\ k * B = a * B - w * B
        BY <1>1, <1>2, <1>9
    <2>2. k * B <= ScoreGap
        BY <1>2, <1>3, <1>8, <2>1
    <2>3. k <= Slack /\ Slack \in Nat
        BY <1>1, <2>1, <2>2, SlackBounds
    <2> QED BY <1>2, <2>3
<1>10. CASE a <= w
    BY <1>1, <1>2, <1>10, SlackBounds
<1> QED BY <1>2, <1>9, <1>10

\* With nothing reserved, who is deferred is behind somebody who is served.
LEMMA SomebodyAheadIsServed ==
    ASSUME Typed, Unhindered, NEW items, NEW idle, BuiltOf(items, idle),
           NEW d \in Wave(items).deferred, d.wait <= WaitLimit
    PROVE  \E s \in Wave(items).scheduled : d.wait <= s.wait + Slack
<1> DEFINE served == Wave(items).scheduled
           F == ToSet(Favoured(items))
<1>1. setting \in Settings /\ Items(items) /\ MaxTotal \in Nat \ {0} /\ Reserved = 0
    BY PolicyTypes DEF Typed, BuiltOf, Unhindered
<1>2. /\ served \cup Wave(items).deferred = items
      /\ Reasons(served, Wave(items).deferred, F)
    BY <1>1, WaveKeepsToCapacity, WaveHasReasons, Zenon
<1>3. F = {}
    <2>1. Len(Favoured(items)) \in 0..0 /\ Favoured(items) \in [1..Len(Favoured(items)) -> items]
        BY <1>1, FavouredAreFirst
    <2>2. DOMAIN Favoured(items) = {}
        BY <2>1
    <2> QED BY <2>2 DEF ToSet
<1> HIDE DEF served, F
<1>4. /\ ~Fits(served, d)
      /\ \A s \in served :
            Ahead(s, d) \/ (s.class # d.class /\ Used(served, d.class) = Capacity[d.class])
    BY <1>2, <1>3 DEF Reasons
<1>5. d \in items /\ served \subseteq items /\ \A i \in items : i \in Item
    BY <1>1, <1>2 DEF Items
<1>6. \A i \in items : \E p \in Profile : p.class = i.class /\ p.score = i.score
    BY DEF BuiltOf
<1>7. d.class \in Class /\ Capacity[d.class] > 0 /\ Capacity[d.class] \in Nat
    BY <1>1, <1>5, <1>6, PolicyTypes DEF Item, Unhindered
<1>8. \E s \in served : Ahead(s, d)
    <2>1. IsFiniteSet(served)
        BY <1>1, <1>5, FS_Subset DEF Items
    <2>2. Cardinality(served) \in Nat /\ Used(served, d.class) \in Nat
        BY <2>1, UsedGrows
    <2>3. CASE Used(served, d.class) < Capacity[d.class]
        <3>1. ~(Cardinality(served) < MaxTotal)
            BY <1>4, <2>3 DEF Fits
        <3>2. served # {}
            BY <1>1, <3>1, EmptyUse
        <3> QED BY <1>4, <1>7, <2>2, <2>3, <3>2
    <2>4. CASE ~(Used(served, d.class) < Capacity[d.class])
        <3>1. Used(served, d.class) # 0
            BY <1>7, <2>4
        <3>2. {i \in served : i.class = d.class} # {}
            BY <3>1, EmptyUse DEF Used
        <3> QED BY <1>4, <3>2
    <2> QED BY <2>3, <2>4
<1>9. PICK s \in served : Ahead(s, d)
    BY <1>8
<1>10. PICK p \in Profile : p.score = s.score
    BY <1>5, <1>6
<1>11. PICK q \in Profile : q.score = d.score
    BY <1>5, <1>6
<1>12. d.wait <= s.wait + Slack
    BY <1>1, <1>5, <1>9, <1>10, <1>11, AheadHasWaited
<1> QED BY <1>9, <1>12 DEF served

\* The lines that have waited as long as d but for the slack.
AsOld(d) == {q \in DOMAIN ages : ages[q] + Slack >= ages[d]}

\* The longer a line has waited beyond the slack, the fewer are as old: each time it
\* was deferred one of them was served.
FewAreAsOld ==
    Unhindered => \A d \in DOMAIN ages :
        ages[d] > Slack => Cardinality(AsOld(d)) + ages[d] <= MaxLines + Slack

LEMMA AsOldIsFinite ==
    ASSUME Typed, NEW d
    PROVE  IsFiniteSet(AsOld(d)) /\ Cardinality(AsOld(d)) \in Nat
<1>1. IsFiniteSet(lines) /\ AsOld(d) \in SUBSET lines
    BY LinesAreFinite DEF AsOld, Typed, TypeOK
<1> QED BY <1>1, FS_Subset, FS_CardinalityType

\* The members of two sets, one of them with one more.
LEMMA OneFewer ==
    ASSUME NEW B, IsFiniteSet(B), NEW x \in B, NEW A \in SUBSET (B \ {x})
    PROVE  Cardinality(A) + 1 <= Cardinality(B) /\ Cardinality(A) \in Nat
<1>1. IsFiniteSet(B \ {x}) /\ Cardinality(B \ {x}) = Cardinality(B) - 1
    BY FS_RemoveElement
<1>2. IsFiniteSet(A) /\ Cardinality(A) <= Cardinality(B \ {x})
    BY <1>1, FS_Subset
<1> QED BY <1>1, <1>2, FS_CardinalityType

LEMMA FewBoundsWaiting ==
    ASSUME Typed, FewAreAsOld
    PROVE  WaitingIsBounded /\ (Unhindered => \A s \in lines : Age(ages, s) <= WaitLimit)
<1> SUFFICES ASSUME Unhindered PROVE \A s \in lines : Age(ages, s) <= WaitLimit
    BY DEF WaitingIsBounded, Typed, TypeOK, Age
<1> SUFFICES ASSUME NEW s \in lines PROVE Age(ages, s) <= WaitLimit
    OBVIOUS
<1>1. /\ Slack \in Nat /\ WaitLimit = (MaxLines - 1) + Slack /\ MaxLines \in Nat
    BY PolicyTypes, SlackBounds DEF Typed, Unhindered
<1>2. MaxLines >= 1
    <2>1. Cardinality(lines) <= MaxLines /\ Cardinality(lines) \in Nat /\ IsFiniteSet(lines)
        BY LinesAreFinite DEF Typed
    <2>2. Cardinality(lines) # 0
        BY <2>1, FS_EmptySet
    <2> QED BY <1>1, <2>1, <2>2
<1>3. Age(ages, s) \in Nat
    BY AgeType
<1>4. CASE Age(ages, s) <= Slack
    BY <1>1, <1>2, <1>3, <1>4
<1>5. CASE ~(Age(ages, s) <= Slack)
    <2>1. s \in DOMAIN ages /\ Age(ages, s) = ages[s] /\ ages[s] > Slack /\ ages[s] \in Nat
        BY <1>1, <1>3, <1>5 DEF Age
    <2>2. Cardinality(AsOld(s)) + ages[s] <= MaxLines + Slack
        BY <2>1 DEF FewAreAsOld
    <2>3. s \in AsOld(s)
        BY <1>1, <2>1 DEF AsOld
    <2>4. Cardinality(AsOld(s)) \in Nat /\ Cardinality(AsOld(s)) # 0
        BY <2>3, AsOldIsFinite, FS_EmptySet
    <2> QED BY <1>1, <2>1, <2>2, <2>4
<1> QED BY <1>4, <1>5

LEMMA PolicyStays ==
    ASSUME setting' = setting
    PROVE  Unhindered' = Unhindered /\ Slack' = Slack /\ MaxLines' = MaxLines
<1>1. /\ Profile' = Profile /\ MaxLines' = MaxLines /\ Kinds' = Kinds
      /\ Reserved' = Reserved /\ MaxWaitBoost' = MaxWaitBoost
    BY DEF Profile, MaxLines, Kinds, Reserved, MaxWaitBoost
<1>2. ScoreGap' = ScoreGap
    BY <1>1 DEF ScoreGap
<1>3. Slack' = Slack
    BY <1>2 DEF Slack
<1>4. WaitLimit' = WaitLimit
    BY <1>1, <1>2 DEF WaitLimit
<1>5. Unhindered' = Unhindered
    BY <1>1, <1>4 DEF Unhindered
<1> QED BY <1>1, <1>3, <1>5

LEMMA ScheduleKeepsFew ==
    ASSUME Typed, FewAreAsOld, Schedule
    PROVE  FewAreAsOld'
<1>1. setting' = setting /\ lines' = lines /\ setting \in Settings
    BY ScheduleBuilds DEF Typed
<1>2. Unhindered' = Unhindered /\ Slack' = Slack /\ MaxLines' = MaxLines
    BY <1>1, PolicyStays
<1>3. CASE Raised
    <2>1. ages' = ages
        BY <1>3 DEF Raised
    <2> QED BY <1>2, <2>1 DEF FewAreAsOld, AsOld
<1>4. ASSUME NEW items, NEW idle, BuiltOf(items, idle) PROVE FewAreAsOld'
    <2> SUFFICES ASSUME Unhindered, NEW d \in DOMAIN ages', ages'[d] > Slack
                 PROVE  Cardinality(AsOld(d)') + ages'[d] <= MaxLines + Slack
        BY <1>2 DEF FewAreAsOld
    <2> DEFINE w == Wave(items)
               a == Age(ages, d)
               A == {q \in lines : Age(ages, q) + Slack >= a}
    <2>1. /\ Items(items)
          /\ \A i \in items : i.subject \in lines /\ i.wait = Age(ages, i.subject)
          /\ ages' = [s \in lines |-> IF s \in Subjects(w.deferred)
                                      THEN Least(AgeCap, Age(ages, s) + 1) ELSE 0]
        BY <1>4, Zenon DEF BuiltOf
    <2>2. w.scheduled \cup w.deferred = items /\ w.scheduled \cap w.deferred = {}
        BY <1>1, <2>1, WaveKeepsToCapacity, Zenon
    <2>3. \A i, j \in items : i.subject = j.subject => i = j
        BY <2>1 DEF Items
    <2>4. /\ Slack \in Nat /\ WaitLimit = (MaxLines - 1) + Slack /\ MaxLines \in Nat
          /\ AgeCap \in Nat /\ \A s : Age(ages, s) \in Nat
        BY <1>1, PolicyTypes, SlackBounds, AgeType DEF Unhindered
    <2>5. WaitLimit <= AgeCap
        <3>1. /\ WaitLimit * WaitBoost <= MaxWaitBoost /\ MaxWaitBoost <= AgeCap * WaitBoost
              /\ WaitBoost \in Nat /\ WaitBoost > 0 /\ MaxWaitBoost \in Nat
            BY <1>1, AgeCapAssumption, PolicyTypes DEF Unhindered, MaxWaitBoost, AgeCap
        <3> DEFINE W == WaitLimit
                   B == WaitBoost
                   C == AgeCap
                   M == MaxWaitBoost
        <3>2. /\ W \in Int /\ C \in Nat /\ B \in Nat /\ B > 0 /\ M \in Nat
              /\ W * B <= M /\ M <= C * B
            BY <2>4, <3>1
        <3> HIDE DEF W, B, C, M
        <3>3. ASSUME W >= C + 1 PROVE FALSE
            <4>1. W * B >= (C + 1) * B
                BY <3>2, <3>3
            <4>2. (C + 1) * B = C * B + B
                BY <3>2
            <4>3. C * B \in Nat /\ W * B \in Int
                BY <3>2
            <4> HIDE DEF W, B, C, M
            <4> QED BY <3>2, <4>1, <4>2, <4>3
        <3>4. W <= C
            BY <3>2, <3>3
        <3> QED BY <3>4 DEF W, C
    <2>6. d \in lines /\ d \in Subjects(w.deferred)
        BY <2>1, <2>4
    <2>7. PICK i \in w.deferred : i.subject = d
        BY <2>6 DEF Subjects
    <2>8. i.wait = a /\ a <= WaitLimit
        BY <2>1, <2>2, <2>6, <2>7, FewBoundsWaiting
    <2>9. PICK j \in w.scheduled : a <= j.wait + Slack
        BY <1>4, <2>7, <2>8, SomebodyAheadIsServed
    <2> DEFINE t == j.subject
    <2>10. t \in lines /\ j.wait = Age(ages, t) /\ t # d
        BY <2>1, <2>2, <2>3, <2>7, <2>9
    <2>11. t \notin Subjects(w.deferred)
        BY <2>2, <2>3, <2>9 DEF Subjects
    <2>12. /\ \A s \in lines : ages'[s] \in Nat /\ ages'[s] <= Age(ages, s) + 1
           /\ ages'[t] = 0 /\ ages'[d] = Least(AgeCap, a + 1)
        <3>1. \A n \in Nat : Least(AgeCap, n + 1) \in Nat /\ Least(AgeCap, n + 1) <= n + 1
            BY <2>4 DEF Least
        <3>2. ages'[t] = 0 /\ ages'[d] = Least(AgeCap, a + 1)
            BY <2>1, <2>6, <2>10, <2>11
        <3>3. \A s \in lines : ages'[s] = Least(AgeCap, Age(ages, s) + 1) \/ ages'[s] = 0
            BY <2>1
        <3> QED BY <2>4, <3>1, <3>2, <3>3
    <2> HIDE DEF a, t, w
    <2>13. a \in Nat /\ t \in A /\ d \in A /\ A \in SUBSET lines
        BY <2>4, <2>6, <2>9, <2>10 DEF a
    <2>14. IsFiniteSet(A) /\ Cardinality(A) \in Nat /\ Cardinality(A) <= MaxLines
        <3>1. IsFiniteSet(lines) /\ Cardinality(lines) <= MaxLines
            BY LinesAreFinite DEF Typed
        <3> HIDE DEF A
        <3>2. IsFiniteSet(A) /\ Cardinality(A) <= Cardinality(lines)
            BY <2>13, <3>1, FS_Subset
        <3> QED BY <2>4, <3>1, <3>2, FS_CardinalityType
    <2>15. a >= Slack
        BY <2>4, <2>12, <2>13 DEF Least
    <2>16. Cardinality(A) + a <= MaxLines + Slack
        <3>1. CASE a = Slack
            BY <2>4, <2>14, <3>1
        <3>2. CASE a > Slack
            <4>1. d \in DOMAIN ages /\ ages[d] = a
                BY <2>4, <3>2 DEF a, Age
            <4>2. A \in SUBSET AsOld(d)
                <5> SUFFICES ASSUME NEW q \in A PROVE q \in AsOld(d)
                    OBVIOUS
                <5>1. Age(ages, q) > 0
                    BY <2>4, <2>13, <3>2
                <5>2. q \in DOMAIN ages /\ ages[q] = Age(ages, q)
                    BY <5>1 DEF Age
                <5> QED BY <4>1, <5>2 DEF AsOld
            <4>3. Cardinality(AsOld(d)) + a <= MaxLines + Slack
                BY <3>2, <4>1 DEF FewAreAsOld
            <4> HIDE DEF A
            <4>4. Cardinality(A) <= Cardinality(AsOld(d)) /\ Cardinality(AsOld(d)) \in Nat
                BY <4>2, AsOldIsFinite, FS_Subset
            <4> QED BY <2>4, <2>13, <2>14, <4>3, <4>4
        <3> QED BY <2>4, <2>13, <2>15, <3>1, <3>2
    <2>17. ages'[d] = a + 1
        <3> HIDE DEF A
        <3>1. {d} \in SUBSET (A \ {t})
            BY <2>10, <2>13
        <3>2. Cardinality({d}) = 1
            BY FS_Singleton
        <3>3. 2 <= Cardinality(A)
            BY <2>13, <2>14, <3>1, <3>2, OneFewer
        <3>4. a + 1 <= AgeCap
            BY <2>4, <2>5, <2>13, <2>14, <2>16, <3>3
        <3> QED BY <2>4, <2>12, <2>13, <3>4 DEF Least
    <2>18. AsOld(d)' \in SUBSET (A \ {t})
        <3> SUFFICES ASSUME NEW q \in AsOld(d)' PROVE q \in A \ {t}
            OBVIOUS
        <3>1. q \in lines /\ ages'[q] + Slack >= a + 1
            BY <1>2, <2>1, <2>17 DEF AsOld
        <3>2. ages'[q] > 0 /\ ages'[q] <= Age(ages, q) + 1
            BY <2>4, <2>12, <2>13, <2>15, <3>1
        <3>3. q # t
            BY <2>12, <3>2
        <3>4. Age(ages, q) + Slack >= a
            BY <2>4, <2>12, <2>13, <3>1, <3>2
        <3> QED BY <3>1, <3>3, <3>4
    <2> HIDE DEF A
    <2>19. Cardinality(AsOld(d)') + 1 <= Cardinality(A) /\ Cardinality(AsOld(d)') \in Nat
        BY <2>13, <2>14, <2>18, OneFewer
    <2> QED BY <2>4, <2>13, <2>14, <2>16, <2>17, <2>19
<1> QED BY <1>3, <1>4, ScheduleBuilds

LEMMA TickKeepsFew ==
    ASSUME Typed, FewAreAsOld, Tick
    PROVE  FewAreAsOld'
<1>1. setting' = setting /\ setting \in Settings
    BY TickCarries DEF Typed
<1>2. Unhindered' = Unhindered /\ Slack' = Slack /\ MaxLines' = MaxLines
    BY <1>1, PolicyStays
<1>3. PICK kept, fresh, from : Succeeds(kept, fresh, from)
    BY TickCarries
<1> SUFFICES ASSUME Unhindered, NEW d \in DOMAIN ages', ages'[d] > Slack
             PROVE  Cardinality(AsOld(d)') + ages'[d] <= MaxLines + Slack
    BY <1>2 DEF FewAreAsOld
<1>4. /\ Slack \in Nat /\ MaxLines \in Nat /\ AgeCap \in Nat /\ \A s : Age(ages, s) \in Nat
    BY <1>1, PolicyTypes, SlackBounds, AgeType DEF Unhindered
<1>5. DOMAIN ages' = kept \cup fresh /\ Grouped(from) /\ from \in [fresh -> SUBSET (lines \ kept)]
    BY <1>3 DEF Succeeds
\* Only a line that continues has an age.
<1>6. ASSUME NEW q \in DOMAIN ages', ages'[q] > 0
      PROVE  q \in DOMAIN ages /\ ages'[q] = ages[q]
    <2>1. q \in kept \cup fresh
        BY <1>5
    <2>2. /\ parents'[q] = IF q \in kept THEN {q} ELSE from[q]
          /\ \E r \in parents'[q] : ages'[q] = Age(ages, r)
        BY <1>3, <1>6, <2>1, TickAges
    <2>3. CASE q \notin kept
        <3>1. q \in DOMAIN from /\ from[q] # {}
            BY <1>5, <2>1, <2>2, <2>3
        <3>2. "group" \in Kinds
            BY <1>5, <3>1 DEF Grouped
        <3> QED BY <3>2 DEF Unhindered
    <2>4. CASE q \in kept
        <3>1. ages'[q] = Age(ages, q)
            BY <2>2, <2>4
        <3> QED BY <1>6, <3>1 DEF Age
    <2> QED BY <2>3, <2>4
<1>7. d \in DOMAIN ages /\ ages'[d] = ages[d] /\ ages[d] \in Nat /\ ages[d] > Slack
    <2>1. d \in kept \cup fresh
        BY <1>5
    <2>2. ages'[d] \in 0..AgeCap
        BY <1>3, <2>1, TickAges
    <2>3. ages'[d] \in Nat
        BY <1>4, <2>2
    <2>4. ages'[d] > 0
        BY <1>4, <2>3
    <2> QED BY <1>6, <2>3, <2>4
<1>8. AsOld(d)' \in SUBSET AsOld(d)
    <2> SUFFICES ASSUME NEW q \in AsOld(d)' PROVE q \in AsOld(d)
        OBVIOUS
    <2>1. q \in DOMAIN ages' /\ ages'[q] + Slack >= ages[d]
        BY <1>2, <1>7 DEF AsOld
    <2>2. q \in kept \cup fresh
        BY <1>5, <2>1
    <2>3. ages'[q] \in 0..AgeCap
        BY <1>3, <2>2, TickAges
    <2>4. ages'[q] \in Nat
        BY <1>4, <2>3
    <2>5. ages'[q] > 0
        BY <1>4, <1>7, <2>1, <2>4
    <2> QED BY <1>6, <2>1, <2>5 DEF AsOld
<1>9. Cardinality(AsOld(d)') <= Cardinality(AsOld(d)) /\ Cardinality(AsOld(d)') \in Nat
    <2>1. IsFiniteSet(AsOld(d))
        BY AsOldIsFinite
    <2> QED BY <1>8, <2>1, FS_Subset, FS_CardinalityType
<1>10. Cardinality(AsOld(d)) + ages[d] <= MaxLines + Slack /\ Cardinality(AsOld(d)) \in Nat
    BY <1>7, AsOldIsFinite DEF FewAreAsOld
<1> QED BY <1>4, <1>7, <1>9, <1>10

\* In any timeline whose lines continue, appear and end, under any policy that does not
\* hinder it, no line is deferred more often than there are others and the waits that
\* make up for the largest gap of the scores (the wait bonus of _priority).
THEOREM WaitingHasABound == Spec => []WaitingIsBounded
<1>1. Init => FewAreAsOld
    BY DEF Init, FewAreAsOld
<1>2. Typed /\ FewAreAsOld /\ [Next]_vars => FewAreAsOld'
    <2> SUFFICES ASSUME Typed, FewAreAsOld, [Next]_vars PROVE FewAreAsOld'
        OBVIOUS
    <2>1. CASE Schedule
        BY <2>1, ScheduleKeepsFew
    <2>2. CASE Tick
        BY <2>2, TickKeepsFew
    <2>3. CASE UNCHANGED vars
        <3>1. setting' = setting /\ ages' = ages
            BY <2>3 DEF vars
        <3> QED BY <3>1, PolicyStays DEF FewAreAsOld, AsOld
    <2> QED BY <2>1, <2>2, <2>3 DEF Next
<1>3. Typed /\ FewAreAsOld => WaitingIsBounded
    BY FewBoundsWaiting
<1> QED BY <1>1, <1>2, <1>3, AlwaysTyped, PTL DEF Spec
=============================================================================
