---------------------------- MODULE BrowserProofs ---------------------------
(***************************************************************************)
(* Proofs about the two uses of the browser.  SiteScan: a website is       *)
(* searched once, in bounded time, and no browser is left open.            *)
(* LinkedInContact: an errand says what it did and closes its browser, and *)
(* a search lists each person once.                                        *)
(***************************************************************************)
EXTENDS SiteScan, LinkedInContact, FiniteSetTheorems, TLAPS

-----------------------------------------------------------------------------
(* Lists of pages and of people *)

\* What Picked returns: every element comes from a position in I, and none
\* from the same one twice.
PicksInOrder(s, I) ==
    /\ Cardinality(I) \in Nat
    /\ Len(Picked(s, I)) = Cardinality(I) /\ DOMAIN Picked(s, I) = 1..Cardinality(I)
    /\ \A n \in 1..Cardinality(I) : Nth(I, n) \in I /\ Picked(s, I)[n] = s[Nth(I, n)]
    /\ \A m, n \in 1..Cardinality(I) : Nth(I, m) = Nth(I, n) => m = n

LEMMA PickedPositions ==
    ASSUME NEW s, NEW I, IsFiniteSet(I), I \subseteq Nat
    PROVE  PicksInOrder(s, I)
    <1>1. Cardinality(I) \in Nat
        BY FS_CardinalityType
    <1> DEFINE rank == [i \in I |-> Cardinality({j \in I : j <= i})]
    <1>2. \A i \in I : rank[i] \in 1..Cardinality(I)
        <2> SUFFICES ASSUME NEW i \in I PROVE Cardinality({j \in I : j <= i}) \in 1..Cardinality(I)
            OBVIOUS
        <2> DEFINE J == {j \in I : j <= i}
        <2>1. J \in SUBSET I /\ i \in J
            OBVIOUS
        <2> HIDE DEF J
        <2>2. IsFiniteSet(J) /\ Cardinality(J) <= Cardinality(I)
            BY <2>1, FS_Subset
        <2>3. Cardinality(J) \in Nat /\ Cardinality(J) # 0
            BY <2>1, <2>2, FS_CardinalityType, FS_EmptySet
        <2>4. Cardinality(J) \in 1..Cardinality(I)
            BY <1>1, <2>2, <2>3
        <2> QED
            BY <2>4 DEF J
    <1>3. \A i, k \in I : i < k => rank[i] < rank[k]
        <2> SUFFICES ASSUME NEW i \in I, NEW k \in I, i < k
                     PROVE  Cardinality({j \in I : j <= i}) < Cardinality({j \in I : j <= k})
            OBVIOUS
        <2> DEFINE J == {j \in I : j <= i}
                   K == {j \in I : j <= k}
        <2>1. J \in SUBSET K /\ J # K /\ K \in SUBSET I
            <3>1. k \in K /\ k \notin J /\ \A j \in J : j \in K
                OBVIOUS
            <3> QED
                BY <3>1
        <2> HIDE DEF J, K
        <2>2. IsFiniteSet(K) /\ IsFiniteSet(J)
            BY <2>1, FS_Subset
        <2>3. Cardinality(J) <= Cardinality(K) /\ Cardinality(J) # Cardinality(K)
            BY <2>1, <2>2, FS_Subset
        <2>4. Cardinality(J) \in Nat /\ Cardinality(K) \in Nat
            BY <2>2, FS_CardinalityType
        <2>5. Cardinality(J) < Cardinality(K)
            BY <2>3, <2>4
        <2> QED
            BY <2>5 DEF J, K
    <1> HIDE DEF rank
    <1>4. rank \in [I -> 1..Cardinality(I)]
        BY <1>2 DEF rank
    <1>5. \A i, k \in I : rank[i] = rank[k] => i = k
        <2> SUFFICES ASSUME NEW i \in I, NEW k \in I, rank[i] = rank[k], i # k PROVE FALSE
            OBVIOUS
        <2>1. i < k \/ k < i
            OBVIOUS
        <2>2. rank[i] \in Nat /\ rank[k] \in Nat
            BY <1>1, <1>2
        <2> QED
            BY <1>3, <2>1, <2>2
    <1>6. rank \in Injection(I, 1..Cardinality(I))
        BY <1>4, <1>5 DEF Injection, IsInjective
    <1>7. rank \in Surjection(I, 1..Cardinality(I))
        <2>1. IsFiniteSet(1..Cardinality(I)) /\ Cardinality(1..Cardinality(I)) = Cardinality(I)
            BY <1>1, FS_Interval
        <2> QED
            BY <1>6, <2>1, FS_Injection
    <1>8. \A n \in 1..Cardinality(I) : Nth(I, n) \in I /\ Cardinality({j \in I : j <= Nth(I, n)}) = n
        <2> SUFFICES ASSUME NEW n \in 1..Cardinality(I)
                     PROVE  Nth(I, n) \in I /\ Cardinality({j \in I : j <= Nth(I, n)}) = n
            OBVIOUS
        <2>1. \E i \in I : Cardinality({j \in I : j <= i}) = n
            BY <1>7 DEF Surjection, rank
        <2> QED
            BY <2>1 DEF Nth
    <1>9. DOMAIN Picked(s, I) = 1..Cardinality(I) /\ \A n \in 1..Cardinality(I) : Picked(s, I)[n] = s[Nth(I, n)]
        BY DEF Picked
    <1>10. Len(Picked(s, I)) = Cardinality(I)
        BY <1>1, <1>9
    <1> QED
        BY <1>1, <1>8, <1>9, <1>10 DEF PicksInOrder

LEMMA PickedInSeq ==
    ASSUME NEW T, NEW s \in Seq(T), NEW I \in SUBSET DOMAIN s
    PROVE  /\ Picked(s, I) \in Seq(T)
           /\ \A n \in DOMAIN Picked(s, I) : \E i \in I : Picked(s, I)[n] = s[i]
           /\ (\A i, j \in I : s[i] = s[j] => i = j) =>
                \A m, n \in DOMAIN Picked(s, I) : Picked(s, I)[m] = Picked(s, I)[n] => m = n
    <1>1. IsFiniteSet(I) /\ I \subseteq Nat
        <2>1. DOMAIN s = 1..Len(s) /\ Len(s) \in Nat
            OBVIOUS
        <2>2. IsFiniteSet(DOMAIN s)
            BY <2>1, FS_Interval
        <2> QED
            BY <2>1, <2>2, FS_Subset
    <1>2. /\ Cardinality(I) \in Nat
          /\ DOMAIN Picked(s, I) = 1..Cardinality(I)
          /\ \A n \in 1..Cardinality(I) : Nth(I, n) \in I /\ Picked(s, I)[n] = s[Nth(I, n)]
          /\ \A m, n \in 1..Cardinality(I) : Nth(I, m) = Nth(I, n) => m = n
        <2>1. PicksInOrder(s, I)
            BY <1>1, PickedPositions
        <2> QED
            BY <2>1 DEF PicksInOrder
    <1>3. \A n \in 1..Cardinality(I) : Picked(s, I)[n] \in T
        BY <1>2
    <1>4. Picked(s, I) \in [1..Cardinality(I) -> T]
        BY <1>3 DEF Picked
    <1>5. Picked(s, I) \in Seq(T)
        BY <1>2, <1>4
    <1> QED
        BY <1>2, <1>5

Distinct(s) == \A i, j \in DOMAIN s : s[i] = s[j] => i = j

LEMMA JoinedDistinct ==
    ASSUME NEW T, NEW s \in Seq(T), NEW t \in Seq(T), Distinct(s), Distinct(t),
           \A j \in DOMAIN s, n \in DOMAIN t : s[j] # t[n]
    PROVE  s \o t \in Seq(T) /\ Distinct(s \o t)
    <1>1. /\ s \o t \in Seq(T) /\ Len(s) \in Nat /\ Len(t) \in Nat
          /\ DOMAIN s = 1..Len(s) /\ DOMAIN t = 1..Len(t) /\ DOMAIN (s \o t) = 1..(Len(s) + Len(t))
          /\ \A i \in 1..(Len(s) + Len(t)) : (s \o t)[i] = IF i <= Len(s) THEN s[i] ELSE t[i - Len(s)]
        OBVIOUS
    <1> SUFFICES ASSUME NEW i \in 1..(Len(s) + Len(t)), NEW j \in 1..(Len(s) + Len(t)), (s \o t)[i] = (s \o t)[j]
                 PROVE  i = j
        BY <1>1 DEF Distinct
    <1>2. CASE i <= Len(s) /\ j <= Len(s)
        BY <1>1, <1>2 DEF Distinct
    <1>3. CASE i > Len(s) /\ j > Len(s)
        <2>1. i - Len(s) \in DOMAIN t /\ j - Len(s) \in DOMAIN t
            BY <1>1, <1>3
        <2>2. i - Len(s) = j - Len(s)
            BY <1>1, <1>3, <2>1 DEF Distinct
        <2> QED
            BY <1>1, <2>2
    <1>4. CASE i <= Len(s) /\ j > Len(s)
        <2>1. i \in DOMAIN s /\ j - Len(s) \in DOMAIN t
            BY <1>1, <1>4
        <2> QED
            BY <1>1, <1>4, <2>1
    <1>5. CASE i > Len(s) /\ j <= Len(s)
        <2>1. j \in DOMAIN s /\ i - Len(s) \in DOMAIN t
            BY <1>1, <1>5
        <2> QED
            BY <1>1, <1>5, <2>1
    <1> QED
        BY <1>1, <1>2, <1>3, <1>4, <1>5

-----------------------------------------------------------------------------
(* SiteScan *)

\* While index sitemaps are expanded: sitemaps three levels down are on top,
\* then those of level two and of level one.
Layers(st, a, b, c) ==
    /\ Len(st) = a + b + c
    /\ \A i \in 1..Len(st) : st[i].depth = IF i <= a THEN 3 ELSE IF i <= a + b THEN 2 ELSE 1

\* What was fetched, and what the stack can still cause, stays within the bound.
StackOK(st, f) ==
    \/ Len(st) = 1 /\ st[1].depth = 0 /\ f = 0
    \/ \E a, b, c \in Nat :
         Layers(st, a, b, c) /\ f + b + c * (1 + MaxNested) <= 1 + MaxNested + MaxNested * MaxNested

HitsOK(x) ==
    /\ IsFiniteSet(x.hits) /\ Cardinality(x.hits) <= MaxHits + 1
    /\ ~ x.stopped => Cardinality(x.hits) <= MaxHits
    /\ x.pc = "launch" \/ (x.pc = "list" /\ x.phase = "keywords") => x.hits = {} /\ ~ x.stopped
    /\ x.pc = "read" => x.hits \cap Listed(x.pages) = {}

ScanInv ==
    /\ scan \in ScanState /\ scanned \in [Scan -> {"no", "nothing", "saved", "failed"}]
    /\ chrome \subseteq Scan /\ fetches \in Nat
    /\ HitsOK(scan)
    /\ BrowsersAccounted
    /\ scan.pc = "launch" => scan.id \notin chrome
    /\ scan.pc = "visit" => scan.pages # <<>>
    /\ Distinct(scan.pages)
    /\ StackOK(scan.stack, fetches)

LEMMA ScanTypes ==
    /\ SitemapPlaces \in Seq(Sitemap) /\ Root \notin Url /\ ContactPage \subseteq Url
    /\ MaxDepth \in 0..2 /\ MaxNested \in Nat /\ MaxHits \in Nat
    /\ MaxPages \in Nat /\ MaxPages >= 1 /\ MaxVisits \in Nat /\ MaxVisits >= 1
    /\ \A m \in Sitemap : (Body[m].index => Body[m].locs \in Seq(Sitemap))
                            /\ (~ Body[m].index => Body[m].locs \in Seq(Url))
    <1>1. /\ SitemapPlaces \in Seq(Sitemap) /\ Root \notin Url /\ ContactPage \subseteq Url
          /\ MaxDepth \in 0..2 /\ MaxNested \in Nat /\ MaxHits \in Nat
        BY ScanAssumption DEF ScanAssumption
    <1>2. /\ MaxPages \in Nat /\ MaxPages >= 1 /\ MaxVisits \in Nat /\ MaxVisits >= 1
        BY ScanAssumption DEF ScanAssumption
    <1>3. ASSUME NEW m \in Sitemap
          PROVE  (Body[m].index => Body[m].locs \in Seq(Sitemap)) /\ (~ Body[m].index => Body[m].locs \in Seq(Url))
        <2>1. Body[m] \in [index : {TRUE}, locs : Seq(Sitemap)] \/ Body[m] \in [index : {FALSE}, locs : Seq(Url)]
            BY ScanAssumption DEF ScanAssumption
        <2> QED
            BY <2>1
    <1> QED
        BY <1>1, <1>2, <1>3

LEMMA OneLess ==
    \A c \in Nat : c > 0 => /\ c * (1 + MaxNested) = (c - 1) * (1 + MaxNested) + 1 + MaxNested
                            /\ (c - 1) * (1 + MaxNested) \in Nat
    <1>1. MaxNested \in Nat
        BY ScanTypes
    <1> QED
        BY <1>1

LEMMA NoStack == ASSUME NEW f \in Nat, f <= 1 PROVE StackOK(<<>>, f)
    <1>1. MaxNested * MaxNested \in Nat /\ MaxNested \in Nat
        BY ScanTypes
    <1>2. Layers(<<>>, 0, 0, 0)
        BY DEF Layers
    <1>3. f + 0 + 0 * (1 + MaxNested) <= 1 + MaxNested + MaxNested * MaxNested
        BY <1>1
    <1> QED
        BY <1>2, <1>3 DEF StackOK

LEMMA LengthZero == \A s \in Seq(Place) : Len(s) = 0 => s = <<>>
    OBVIOUS

LEMMA StackPopped ==
    ASSUME NEW st \in Seq(Place), st # <<>>, NEW f \in Nat, NEW g \in Nat, StackOK(st, f),
           g = f \/ (g = f + 1 /\ Head(st).depth <= 2)
    PROVE  Tail(st) \in Seq(Place) /\ StackOK(Tail(st), g)
    <1>0. /\ Len(st) \in Nat \ {0} /\ Len(Tail(st)) = Len(st) - 1 /\ Tail(st) \in Seq(Place) /\ Head(st) = st[1]
          /\ \A i \in 1..(Len(st) - 1) : Tail(st)[i] = st[i + 1]
        OBVIOUS
    <1>n. MaxNested \in Nat
        BY ScanTypes
    <1>1. CASE Len(st) = 1 /\ st[1].depth = 0 /\ f = 0
        <2>1. Len(Tail(st)) = 0
            BY <1>0, <1>1
        <2>2. Tail(st) = <<>>
            BY <1>0, <2>1, LengthZero
        <2>3. g <= 1
            BY <1>1
        <2> QED
            BY <1>0, <2>2, <2>3, NoStack
    <1>2. ASSUME NEW a \in Nat, NEW b \in Nat, NEW c \in Nat, Layers(st, a, b, c),
                 f + b + c * (1 + MaxNested) <= 1 + MaxNested + MaxNested * MaxNested
          PROVE  StackOK(Tail(st), g)
        <2> DEFINE bound == 1 + MaxNested + MaxNested * MaxNested
        <2>0. bound \in Nat
            BY <1>n
        <2>l. /\ Len(st) = a + b + c
              /\ \A i \in 1..Len(st) : st[i].depth = IF i <= a THEN 3 ELSE IF i <= a + b THEN 2 ELSE 1
            BY <1>2 DEF Layers
        <2>1. CASE a > 0
            <3>1. Layers(Tail(st), a - 1, b, c)
                BY <1>0, <2>l, <2>1, SMTT(20) DEF Layers
            <3>2. st[1].depth = 3
                BY <1>0, <2>l, <2>1 DEF Layers
            <3>3. g = f
                BY <1>0, <3>2
            <3> QED
                BY <1>2, <2>1, <3>1, <3>3 DEF StackOK
        <2>2. CASE a = 0 /\ b > 0
            <3>1. Layers(Tail(st), 0, b - 1, c)
                BY <1>0, <2>l, <2>2 DEF Layers
            <3>2. c * (1 + MaxNested) \in Nat
                BY <1>n
            <3> HIDE DEF bound
            <3>3. g + (b - 1) + c * (1 + MaxNested) <= bound
                <4> DEFINE k == c * (1 + MaxNested)
                <4>1. f + b + k <= bound /\ k \in Nat
                    BY <1>2, <3>2 DEF bound
                <4> HIDE DEF k
                <4>2. g + (b - 1) + k <= bound
                    BY <2>0, <4>1
                <4> QED
                    BY <4>2 DEF k
            <3> QED
                BY <2>2, <3>1, <3>3 DEF StackOK, bound
        <2>3. CASE a = 0 /\ b = 0
            <3>1. c > 0 /\ Layers(Tail(st), 0, 0, c - 1)
                BY <1>0, <2>l, <2>3 DEF Layers
            <3>2. c * (1 + MaxNested) = (c - 1) * (1 + MaxNested) + 1 + MaxNested /\ (c - 1) * (1 + MaxNested) \in Nat
                BY <3>1, OneLess
            <3> HIDE DEF bound
            <3>3. g + 0 + (c - 1) * (1 + MaxNested) <= bound
                <4> DEFINE k == (c - 1) * (1 + MaxNested)
                <4>1. f + b + k + 1 + MaxNested <= bound /\ k \in Nat
                    <5>1. f + b + c * (1 + MaxNested) <= bound
                        BY <1>2 DEF bound
                    <5> QED
                        BY <1>n, <2>0, <3>2, <5>1
                <4> HIDE DEF k
                <4>2. g + 0 + k <= bound
                    BY <1>n, <2>0, <2>3, <4>1
                <4> QED
                    BY <4>2 DEF k
            <3> QED
                BY <3>1, <3>3 DEF StackOK, bound
        <2> QED
            BY <2>1, <2>2, <2>3
    <1> QED
        BY <1>0, <1>1, <1>2 DEF StackOK

\* An index sitemap is replaced by what it lists, one level down.
LEMMA StackExpanded ==
    ASSUME NEW st \in Seq(Place), st # <<>>, NEW f \in Nat, StackOK(st, f), Head(st).depth <= 2,
           NEW new \in Seq(Place), Len(new) <= MaxNested, \A i \in DOMAIN new : new[i].depth = Head(st).depth + 1
    PROVE  new \o Tail(st) \in Seq(Place) /\ StackOK(new \o Tail(st), f + 1)
    <1> DEFINE t == new \o Tail(st)
    <1>n. MaxNested \in Nat
        BY ScanTypes
    <1>0. /\ Len(st) \in Nat \ {0} /\ Len(new) \in Nat /\ DOMAIN new = 1..Len(new)
          /\ t \in Seq(Place) /\ Head(st) = st[1] /\ Len(t) = Len(new) + (Len(st) - 1)
        OBVIOUS
    <1>1. \A i \in 1..Len(t) : t[i] = IF i <= Len(new) THEN new[i] ELSE st[i - Len(new) + 1]
        <2>1. /\ Tail(st) \in Seq(Place) /\ Len(Tail(st)) = Len(st) - 1
              /\ \A i \in 1..(Len(st) - 1) : Tail(st)[i] = st[i + 1]
            OBVIOUS
        <2>2. \A i \in 1..Len(t) : t[i] = IF i <= Len(new) THEN new[i] ELSE Tail(st)[i - Len(new)]
            BY <1>0, <2>1
        <2> HIDE DEF t
        <2>3. ASSUME NEW i \in 1..Len(t), i > Len(new) PROVE Tail(st)[i - Len(new)] = st[i - Len(new) + 1]
            <3>1. i - Len(new) \in 1..(Len(st) - 1)
                BY <1>0, <2>3
            <3> QED
                BY <2>1, <3>1
        <2>4. ASSUME NEW i \in 1..Len(t)
              PROVE  t[i] = IF i <= Len(new) THEN new[i] ELSE st[i - Len(new) + 1]
            <3>1. i \in Nat /\ (i <= Len(new) \/ i > Len(new))
                BY <1>0
            <3> QED
                BY <2>2, <2>3, <3>1
        <2> QED
            BY <2>4
    <1>2. \A i \in 1..Len(new) : new[i].depth = st[1].depth + 1
        BY <1>0
    <1>3. st[1].depth <= 2
        BY <1>0
    <1> HIDE DEF t
    <1> DEFINE m == Len(new)
               bound == 1 + MaxNested + MaxNested * MaxNested
    <1>b. bound \in Nat
        BY <1>n
    <1>4. CASE Len(st) = 1 /\ st[1].depth = 0 /\ f = 0
        <2>1. Layers(t, 0, 0, m)
            BY <1>0, <1>1, <1>2, <1>4 DEF Layers
        <2>2. (f + 1) + 0 + m * (1 + MaxNested) <= bound
            <3> HIDE DEF m
            <3>1. m \in Nat /\ m <= MaxNested
                BY <1>0 DEF m
            <3>2. m * (1 + MaxNested) <= MaxNested * (1 + MaxNested)
                BY <1>n, <3>1
            <3>3. MaxNested * (1 + MaxNested) = MaxNested + MaxNested * MaxNested
                BY <1>n
            <3>4. m * (1 + MaxNested) \in Nat /\ MaxNested * MaxNested \in Nat
                BY <1>n, <3>1
            <3> QED
                BY <1>4, <1>n, <3>2, <3>3, <3>4
        <2> QED
            BY <1>0, <2>1, <2>2 DEF StackOK, t
    <1>5. ASSUME NEW a \in Nat, NEW b \in Nat, NEW c \in Nat, Layers(st, a, b, c),
                 f + b + c * (1 + MaxNested) <= bound
          PROVE  StackOK(t, f + 1)
        <2>l. /\ Len(st) = a + b + c
              /\ \A i \in 1..Len(st) : st[i].depth = IF i <= a THEN 3 ELSE IF i <= a + b THEN 2 ELSE 1
            BY <1>5 DEF Layers
        <2>0. a = 0
            BY <1>0, <1>3, <2>l
        <2>1. CASE b > 0
            <3>1. st[1].depth = 2
                BY <1>0, <2>l, <2>0, <2>1
            <3>2. Layers(t, m, b - 1, c)
                <4>1. Len(st) = b + c /\ \A i \in 1..Len(st) : st[i].depth = IF i <= b THEN 2 ELSE 1
                    BY <2>l, <2>0
                <4>2. Len(t) = m + (b - 1) + c /\ m \in Nat
                    BY <1>0, <4>1
                <4>3. ASSUME NEW i \in 1..Len(t)
                      PROVE  t[i].depth = IF i <= m THEN 3 ELSE IF i <= m + (b - 1) THEN 2 ELSE 1
                    <5>1. CASE i <= m
                        <6>1. i \in 1..Len(new) /\ t[i] = new[i]
                            BY <1>0, <1>1, <5>1
                        <6>2. new[i].depth = 3
                            BY <1>2, <3>1, <6>1
                        <6> QED
                            BY <5>1, <6>1, <6>2
                    <5>2. CASE i > m
                        <6>1. i - m + 1 \in 1..Len(st) /\ t[i] = st[i - m + 1]
                            BY <1>0, <1>1, <4>2, <5>2
                        <6>2. t[i].depth = IF i - m + 1 <= b THEN 2 ELSE 1
                            BY <4>1, <6>1
                        <6> QED
                            BY <4>2, <5>2, <6>2
                    <5> QED
                        BY <4>2, <5>1, <5>2
                <4> QED
                    BY <4>2, <4>3 DEF Layers
            <3>3. (f + 1) + (b - 1) + c * (1 + MaxNested) <= bound
                <4> DEFINE k == c * (1 + MaxNested)
                <4>1. f + b + k <= bound /\ k \in Nat
                    BY <1>5, <1>n
                <4> HIDE DEF k, bound
                <4>2. (f + 1) + (b - 1) + k <= bound
                    BY <1>b, <4>1
                <4> QED
                    BY <4>2 DEF k
            <3> QED
                BY <1>0, <2>1, <3>2, <3>3 DEF StackOK
        <2>2. CASE b = 0
            <3>1. st[1].depth = 1 /\ c > 0
                BY <1>0, <2>l, <2>0, <2>2
            <3>2. Layers(t, 0, m, c - 1)
                <4>1. Len(st) = c /\ \A i \in 1..Len(st) : st[i].depth = 1
                    BY <2>l, <2>0, <2>2
                <4>2. Len(t) = m + (c - 1) /\ m \in Nat
                    BY <1>0, <4>1
                <4>3. ASSUME NEW i \in 1..Len(t) PROVE t[i].depth = IF i <= m THEN 2 ELSE 1
                    <5>1. CASE i <= m
                        <6>1. i \in 1..Len(new) /\ t[i] = new[i]
                            BY <1>0, <1>1, <5>1
                        <6>2. new[i].depth = 2
                            BY <1>2, <3>1, <6>1
                        <6> QED
                            BY <5>1, <6>1, <6>2
                    <5>2. CASE i > m
                        <6>1. i - m + 1 \in 1..Len(st) /\ t[i] = st[i - m + 1]
                            BY <1>0, <1>1, <4>2, <5>2
                        <6> QED
                            BY <4>1, <4>2, <5>2, <6>1
                    <5> QED
                        BY <4>2, <5>1, <5>2
                <4> QED
                    BY <4>2, <4>3 DEF Layers
            <3>3. (f + 1) + m + (c - 1) * (1 + MaxNested) <= bound
                <4> DEFINE k == (c - 1) * (1 + MaxNested)
                <4>0. c * (1 + MaxNested) = k + 1 + MaxNested /\ k \in Nat
                    BY <3>1, OneLess
                <4> HIDE DEF k, bound
                <4>1. f + b + k + 1 + MaxNested <= bound
                    BY <1>5, <1>b, <1>n, <4>0
                <4>2. (f + 1) + m + k <= bound
                    BY <1>0, <1>b, <1>n, <2>2, <4>0, <4>1
                <4> QED
                    BY <4>2 DEF k
            <3> QED
                BY <1>0, <3>1, <3>2, <3>3 DEF StackOK
        <2> QED
            BY <2>1, <2>2
    <1> QED
        BY <1>0, <1>4, <1>5 DEF StackOK, t

LEMMA FirstOfSeq ==
    ASSUME NEW T, NEW s \in Seq(T), NEW n \in Nat
    PROVE  /\ FirstOf(s, n) \in Seq(T) /\ Len(FirstOf(s, n)) \in Nat /\ Len(FirstOf(s, n)) <= n
           /\ Len(FirstOf(s, n)) <= Len(s) /\ DOMAIN FirstOf(s, n) = 1..Len(FirstOf(s, n))
           /\ \A i \in DOMAIN FirstOf(s, n) : FirstOf(s, n)[i] = s[i] /\ i \in DOMAIN s
           /\ Distinct(s) => Distinct(FirstOf(s, n))
           /\ s # <<>> /\ n >= 1 => FirstOf(s, n) # <<>>
    <1> DEFINE k == IF Len(s) < n THEN Len(s) ELSE n
               t == SubSeq(s, 1, k)
    <1>1. k \in Nat /\ k <= n /\ k <= Len(s) /\ Len(s) \in Nat /\ DOMAIN s = 1..Len(s)
        OBVIOUS
    <1>2. FirstOf(s, n) = t /\ (Len(s) # 0 /\ n >= 1 => k # 0)
        BY DEF FirstOf
    <1>3. s # <<>> => Len(s) # 0
        OBVIOUS
    <1> HIDE DEF k
    <1>4. t \in Seq(T) /\ Len(t) = k /\ DOMAIN t = 1..k /\ \A i \in 1..k : t[i] = s[i]
        BY <1>1
    <1>5. k # 0 => t # <<>>
        BY <1>1, <1>4
    <1> HIDE DEF t
    <1>6. \A i \in DOMAIN t : t[i] = s[i] /\ i \in DOMAIN s
        BY <1>1, <1>4
    <1>7. Distinct(s) => Distinct(t)
        BY <1>6 DEF Distinct
    <1> QED
        BY <1>1, <1>2, <1>3, <1>4, <1>5, <1>6, <1>7

\* What a sitemap adds to a list of pages is new, and is added once.
LEMMA NewAreAppended ==
    ASSUME NEW T, NEW pages \in Seq(T), Distinct(pages), NEW locs \in Seq(T)
    PROVE  AppendNew(pages, locs) \in Seq(T) /\ Distinct(AppendNew(pages, locs))
    <1> DEFINE I == {i \in DOMAIN locs : /\ locs[i] \notin Listed(pages)
                                         /\ \A j \in 1..(i - 1) : locs[j] # locs[i]}
               new == Picked(locs, I)
    <1>1. /\ new \in Seq(T)
          /\ \A n \in DOMAIN new : \E i \in I : new[n] = locs[i]
          /\ (\A i, j \in I : locs[i] = locs[j] => i = j) => \A m, n \in DOMAIN new : new[m] = new[n] => m = n
        <2>1. I \in SUBSET DOMAIN locs
            OBVIOUS
        <2> QED
            BY <2>1, PickedInSeq
    <1>2. \A i, j \in I : locs[i] = locs[j] => i = j
        <2> SUFFICES ASSUME NEW i \in I, NEW j \in I, locs[i] = locs[j] PROVE i = j
            OBVIOUS
        <2>1. i \in Nat /\ j \in Nat /\ i >= 1 /\ j >= 1
            OBVIOUS
        <2>2. ~ (j \in 1..(i - 1)) /\ ~ (i \in 1..(j - 1))
            OBVIOUS
        <2> QED
            BY <2>1, <2>2
    <1>3. Distinct(new)
        BY <1>1, <1>2 DEF Distinct
    <1>4. ASSUME NEW j \in DOMAIN pages, NEW n \in DOMAIN new PROVE pages[j] # new[n]
        <2>1. PICK i \in I : new[n] = locs[i]
            BY <1>1
        <2>2. locs[i] \notin Listed(pages) /\ pages[j] \in Listed(pages)
            BY DEF Listed
        <2> QED
            BY <2>1, <2>2
    <1>5. AppendNew(pages, locs) = pages \o new
        BY DEF AppendNew
    <1> HIDE DEF I, new
    <1> QED
        BY <1>1, <1>3, <1>4, <1>5, JoinedDistinct

Page == Url \cup {Root}

LEMMA RootAlone == <<Root>> \in Seq(Page) /\ Distinct(<<Root>>) /\ <<Root>> # <<>> /\ Listed(<<Root>>) = {Root}
    <1>1. <<Root>> \in Seq(Page)
        BY DEF Page
    <1> QED
        BY <1>1 DEF Distinct, Listed

LEMMA PagesToRead ==
    scan \in ScanState /\ Distinct(scan.pages) => ScanPages \in Seq(Page) /\ Distinct(ScanPages)
    <1> SUFFICES ASSUME scan \in ScanState, Distinct(scan.pages) PROVE ScanPages \in Seq(Page) /\ Distinct(ScanPages)
        OBVIOUS
    <1>1. scan.pages \in Seq(Page)
        BY DEF ScanState, Page
    <1>2. FirstOf(scan.pages, MaxPages) \in Seq(Page) /\ Distinct(FirstOf(scan.pages, MaxPages))
        BY <1>1, ScanTypes, FirstOfSeq
    <1> QED
        BY <1>2, RootAlone DEF ScanPages

\* The root comes first, and is not a contact page.
LEMMA PagesToVisit ==
    scan \in ScanState /\ Distinct(scan.pages)
      => VisitOrder \in Seq(Page) /\ Distinct(VisitOrder) /\ VisitOrder # <<>>
    <1> SUFFICES ASSUME scan \in ScanState, Distinct(scan.pages)
                 PROVE  VisitOrder \in Seq(Page) /\ Distinct(VisitOrder) /\ VisitOrder # <<>>
        OBVIOUS
    <1> DEFINE I == {i \in DOMAIN ScanPages : ScanPages[i] \in ContactPage}
               v == Picked(ScanPages, I)
    <1>1. ScanPages \in Seq(Page) /\ Distinct(ScanPages) /\ I \in SUBSET DOMAIN ScanPages
        BY PagesToRead
    <1>2. /\ v \in Seq(Page)
          /\ \A n \in DOMAIN v : \E i \in I : v[n] = ScanPages[i]
          /\ (\A i, j \in I : ScanPages[i] = ScanPages[j] => i = j) => \A m, n \in DOMAIN v : v[m] = v[n] => m = n
        BY <1>1, PickedInSeq
    <1>3. Distinct(v)
        BY <1>1, <1>2 DEF Distinct
    <1>4. \A n \in DOMAIN v : Root # v[n]
        BY <1>2, ScanTypes
    <1>5. VisitOrder = FirstOf(<<Root>> \o v, MaxVisits)
        BY DEF VisitOrder
    <1> HIDE DEF v
    <1>6. \A j \in DOMAIN <<Root>>, n \in DOMAIN v : <<Root>>[j] # v[n]
        BY <1>4
    <1>7. <<Root>> \o v \in Seq(Page) /\ Distinct(<<Root>> \o v)
        BY <1>2, <1>3, <1>6, RootAlone, JoinedDistinct
    <1>8. <<Root>> \o v # <<>>
        <2>1. Len(<<Root>> \o v) = 1 + Len(v) /\ Len(v) \in Nat
            BY <1>2, RootAlone
        <2>2. Len(<<Root>> \o v) # 0
            BY <2>1
        <2> QED
            BY <2>2
    <1> QED
        BY <1>5, <1>7, <1>8, ScanTypes, FirstOfSeq

LEMMA InitScan == ScanInit => ScanInv
    <1> SUFFICES ASSUME ScanInit PROVE ScanInv
        OBVIOUS
    <1>1. (CHOOSE s \in Scan : TRUE) \in Scan
        BY ScanAssumption DEF ScanAssumption
    <1> DEFINE first == CHOOSE s \in Scan : TRUE
               x == [pc |-> "idle", phase |-> "keywords", id |-> first, places |-> <<>>, stack |-> <<>>,
                     pages |-> <<>>, hits |-> {}, stopped |-> FALSE]
    <1>2. scan = x /\ scanned = [s \in Scan |-> "no"] /\ chrome = {} /\ fetches = 0
        BY DEF ScanInit
    <1>e. <<>> \in Seq(Sitemap) /\ <<>> \in Seq(Place) /\ <<>> \in Seq(Page)
        OBVIOUS
    <1> HIDE DEF first
    <1>3. /\ x \in ScanState /\ x.pc = "idle" /\ x.pages = <<>> /\ x.stack = <<>> /\ x.hits = {}
          /\ x.stopped = FALSE
        <2>1. first \in Scan
            BY <1>1 DEF first
        <2> QED
            BY <1>e, <2>1 DEF ScanState, Page
    <1> HIDE DEF x
    <1>4. HitsOK(x)
        <2>1. IsFiniteSet({}) /\ Cardinality({}) = 0
            BY FS_EmptySet
        <2>2. Cardinality({}) <= MaxHits /\ Cardinality({}) <= MaxHits + 1
            BY <2>1, ScanTypes
        <2> QED
            BY <1>3, <2>1, <2>2 DEF HitsOK
    <1>5. Distinct(x.pages)
        BY <1>3 DEF Distinct
    <1>6. StackOK(x.stack, 0)
        BY <1>3, NoStack
    <1> QED
        BY <1>2, <1>3, <1>4, <1>5, <1>6 DEF ScanInv, BrowsersAccounted

\* The present scan goes on as x; nothing else changes but the count.
LEMMA ScanGoesOn ==
    \A x \in ScanState :
      /\ ScanInv /\ scan' = x /\ x.id = scan.id /\ scan.pc # "idle" /\ x.pc \notin {"idle", "launch"}
      /\ UNCHANGED <<scanned, chrome>> /\ fetches' \in Nat
      /\ HitsOK(x) /\ Distinct(x.pages) /\ (x.pc = "visit" => x.pages # <<>>) /\ StackOK(x.stack, fetches')
      => ScanInv'
    BY DEF ScanInv, BrowsersAccounted, ScanAt

LEMMA ScanStarts == \A s \in Scan : ScanInv /\ StartScan(s) => ScanInv'
    <1> SUFFICES ASSUME NEW s \in Scan, ScanInv, StartScan(s) PROVE ScanInv'
        OBVIOUS
    <1> DEFINE x == [scan EXCEPT !.pc = "launch", !.id = s, !.hits = {}, !.stopped = FALSE]
    <1>0. /\ scan \in ScanState /\ scan.pc = "idle" /\ scanned[s] = "no" /\ scan' = x
          /\ UNCHANGED <<scanned, chrome, fetches>>
        BY DEF StartScan, ScanAt, ScanInv
    <1>1. /\ x \in ScanState /\ x.pc = "launch" /\ x.id = s /\ x.hits = {} /\ x.stopped = FALSE
          /\ x.pages = scan.pages /\ x.stack = scan.stack
        BY <1>0 DEF ScanState
    <1> HIDE DEF x
    <1>2. HitsOK(x)
        <2>1. IsFiniteSet({}) /\ Cardinality({}) = 0
            BY FS_EmptySet
        <2>2. Cardinality({}) <= MaxHits /\ Cardinality({}) <= MaxHits + 1
            BY <2>1, ScanTypes
        <2> QED
            BY <1>1, <2>1, <2>2 DEF HitsOK
    <1>3. \A c \in chrome : scanned[c] = "nothing"
        BY <1>0 DEF ScanInv, BrowsersAccounted, ScanAt
    <1> QED
        BY <1>0, <1>1, <1>2, <1>3 DEF ScanInv, BrowsersAccounted

\* What a new listing starts from.
LEMMA NewListing ==
    \A phase \in {"keywords", "contact"} :
      scan \in ScanState =>
        /\ Listing(phase) \in ScanState /\ Listing(phase).pc = "list" /\ Listing(phase).id = scan.id
        /\ Listing(phase).phase = phase /\ Listing(phase).pages = <<>> /\ Listing(phase).stack = <<>>
        /\ Listing(phase).hits = scan.hits /\ Listing(phase).stopped = scan.stopped
        /\ Distinct(Listing(phase).pages) /\ StackOK(Listing(phase).stack, 0)
    <1> SUFFICES ASSUME NEW phase \in {"keywords", "contact"}, scan \in ScanState
                 PROVE  /\ Listing(phase) \in ScanState /\ Listing(phase).pc = "list" /\ Listing(phase).id = scan.id
                        /\ Listing(phase).phase = phase /\ Listing(phase).pages = <<>> /\ Listing(phase).stack = <<>>
                        /\ Listing(phase).hits = scan.hits /\ Listing(phase).stopped = scan.stopped
                        /\ Distinct(Listing(phase).pages) /\ StackOK(Listing(phase).stack, 0)
        OBVIOUS
    <1> DEFINE x == Listing(phase)
    <1>e. <<>> \in Seq(Place) /\ <<>> \in Seq(Page)
        OBVIOUS
    <1>1. /\ x \in ScanState /\ x.pc = "list" /\ x.id = scan.id
          /\ x.phase = phase /\ x.pages = <<>> /\ x.stack = <<>> /\ x.hits = scan.hits /\ x.stopped = scan.stopped
        BY <1>e, ScanTypes DEF ScanState, Listing, Page
    <1> HIDE DEF x
    <1>2. Distinct(x.pages)
        BY <1>1 DEF Distinct
    <1>3. StackOK(x.stack, 0)
        BY <1>1, NoStack
    <1> QED
        BY <1>1, <1>2, <1>3 DEF x

LEMMA BrowserLaunched == ScanInv /\ LaunchBrowser => ScanInv'
    <1> SUFFICES ASSUME ScanInv, LaunchBrowser PROVE ScanInv'
        OBVIOUS
    <1>0. /\ scan \in ScanState /\ scan.pc = "launch" /\ scan.id \in Scan /\ scan.id \notin chrome
          /\ HitsOK(scan) /\ scan.hits = {} /\ scan.stopped = FALSE
        BY DEF LaunchBrowser, ScanAt, ScanInv, ScanState, HitsOK
    <1>1. CASE /\ chrome' = chrome \cup {scan.id}
               /\ scan' = Listing("keywords")
               /\ fetches' = 0
               /\ UNCHANGED scanned
        <2>1. HitsOK(Listing("keywords"))
            BY <1>0, NewListing DEF HitsOK
        <2> QED
            BY <1>0, <1>1, <2>1, NewListing DEF ScanInv, BrowsersAccounted, ScanAt
    <1>2. CASE /\ scan' = [scan EXCEPT !.pc = "idle"]
               /\ scanned' = [scanned EXCEPT ![scan.id] = "failed"]
               /\ UNCHANGED <<chrome, fetches>>
        <2> DEFINE x == [scan EXCEPT !.pc = "idle"]
        <2>1. /\ x \in ScanState /\ x.pc = "idle" /\ x.id = scan.id /\ x.hits = scan.hits /\ x.stopped = scan.stopped
              /\ x.pages = scan.pages /\ x.stack = scan.stack
            BY <1>0 DEF ScanState
        <2> HIDE DEF x
        <2>2. HitsOK(x)
            BY <1>0, <2>1 DEF HitsOK
        <2>3. scan' = x
            BY <1>2 DEF x
        <2>4. \A s \in chrome : scanned'[s] = "nothing"
            BY <1>0, <1>2 DEF ScanInv, BrowsersAccounted
        <2>5. scanned' \in [Scan -> {"no", "nothing", "saved", "failed"}]
            BY <1>0, <1>2 DEF ScanInv
        <2> QED
            BY <1>2, <2>1, <2>2, <2>3, <2>4, <2>5 DEF ScanInv, BrowsersAccounted
    <1> QED
        BY <1>1, <1>2 DEF LaunchBrowser

LEMMA PlaceTried == ScanInv /\ TryPlace => ScanInv'
    <1> SUFFICES ASSUME ScanInv, TryPlace PROVE ScanInv'
        OBVIOUS
    <1>0. /\ scan \in ScanState /\ scan.pc = "list" /\ scan.places \in Seq(Sitemap) /\ scan.places # <<>>
          /\ HitsOK(scan) /\ Distinct(scan.pages)
          /\ fetches' = 0 /\ UNCHANGED <<scanned, chrome>>
        BY DEF TryPlace, ScanAt, ScanInv, ScanState
    <1> DEFINE ps == Tail(scan.places)
               st == <<[map |-> Head(scan.places), depth |-> 0]>>
               x == [scan EXCEPT !.places = ps, !.stack = st]
    <1>1. scan' = x
        BY DEF TryPlace
    <1>2. ps \in Seq(Sitemap) /\ Head(scan.places) \in Sitemap
        BY <1>0
    <1>3. st \in Seq(Place) /\ Len(st) = 1 /\ st[1].depth = 0
        BY <1>2 DEF Place
    <1> HIDE DEF ps, st
    <1>4. /\ x \in ScanState /\ x.pc = "list" /\ x.id = scan.id /\ x.hits = scan.hits /\ x.stopped = scan.stopped
          /\ x.phase = scan.phase /\ x.pages = scan.pages /\ x.stack = st
        BY <1>0, <1>2, <1>3 DEF ScanState
    <1> HIDE DEF x
    <1>5. HitsOK(x)
        BY <1>0, <1>4 DEF HitsOK
    <1>6. StackOK(x.stack, fetches')
        BY <1>0, <1>3, <1>4 DEF StackOK
    <1> QED
        BY <1>0, <1>1, <1>4, <1>5, <1>6, ScanGoesOn

\* What a fetch leaves: a new stack, and perhaps more pages.
LEMMA StackTurnsTo ==
    ASSUME ScanInv, scan.pc = "list", NEW st \in Seq(Place), NEW ps \in Seq(Page), Distinct(ps),
           scan' = [scan EXCEPT !.stack = st, !.pages = ps],
           fetches' \in Nat, StackOK(st, fetches'), UNCHANGED <<scanned, chrome>>
    PROVE  ScanInv'
    <1> DEFINE x == [scan EXCEPT !.stack = st, !.pages = ps]
    <1>0. scan \in ScanState /\ HitsOK(scan)
        BY DEF ScanInv
    <1>1. /\ x \in ScanState /\ x.pc = "list" /\ x.id = scan.id /\ x.hits = scan.hits /\ x.stopped = scan.stopped
          /\ x.phase = scan.phase /\ x.pages = ps /\ x.stack = st
        BY <1>0 DEF ScanState, Page
    <1>2. scan' = x
        OBVIOUS
    <1> HIDE DEF x
    <1>3. HitsOK(x)
        BY <1>0, <1>1 DEF HitsOK
    <1> QED
        BY <1>1, <1>2, <1>3, ScanGoesOn

LEMMA SitemapFetched == ScanInv /\ FetchSitemap => ScanInv'
    <1> SUFFICES ASSUME ScanInv, FetchSitemap PROVE ScanInv'
        OBVIOUS
    <1> DEFINE at == Head(scan.stack)
               below == FirstOf(Body[at.map].locs, MaxNested)
               rest == Tail(scan.stack)
    <1>0. /\ scan \in ScanState /\ scan.pc = "list" /\ scan.stack \in Seq(Place) /\ scan.stack # <<>>
          /\ scan.pages \in Seq(Page) /\ Distinct(scan.pages) /\ StackOK(scan.stack, fetches) /\ fetches \in Nat
          /\ UNCHANGED <<scanned, chrome>>
        BY DEF FetchSitemap, ScanAt, ScanInv, ScanState, Page
    <1>1. at \in Place /\ at.map \in Sitemap /\ at.depth \in Nat
        <2>1. \A s \in Seq(Place) : s # <<>> => Head(s) \in Place
            OBVIOUS
        <2>2. at \in Place
            BY <1>0, <2>1
        <2> HIDE DEF at
        <2> QED
            BY <2>2 DEF Place
    <1>2. rest \in Seq(Place)
        BY <1>0
    <1>3. IF TooDeep(at.depth)
            THEN /\ scan' = [scan EXCEPT !.stack = Tail(@)]
                 /\ UNCHANGED fetches
            ELSE /\ fetches' = fetches + 1
                 /\ \/ scan' = [scan EXCEPT !.stack = Tail(@)]
                    \/ /\ Body[at.map].index
                       /\ scan' = [scan EXCEPT !.stack =
                                     [i \in DOMAIN below |-> [map |-> below[i], depth |-> at.depth + 1]]
                                     \o Tail(@)]
                    \/ /\ ~Body[at.map].index
                       /\ scan' = [scan EXCEPT !.stack = Tail(@),
                                               !.pages = AppendNew(@, Body[at.map].locs)]
        BY DEF FetchSitemap
    <1>4. ~ TooDeep(at.depth) => at.depth <= 2
        BY <1>1, ScanTypes DEF TooDeep
    <1>5. \A g \in Nat : g = fetches \/ (g = fetches + 1 /\ at.depth <= 2) => StackOK(rest, g)
        BY <1>0, StackPopped
    <1>6. CASE scan' = [scan EXCEPT !.stack = Tail(@)]
        <2>1. scan' = [scan EXCEPT !.stack = rest, !.pages = scan.pages]
            BY <1>0, <1>6 DEF ScanState
        <2>2. fetches' = fetches \/ (fetches' = fetches + 1 /\ at.depth <= 2)
            <3>1. CASE TooDeep(at.depth)
                BY <1>3, <3>1
            <3>2. CASE ~ TooDeep(at.depth)
                BY <1>3, <1>4, <3>2
            <3> QED
                BY <3>1, <3>2
        <2>3. fetches' \in Nat
            BY <1>0, <2>2
        <2>4. StackOK(rest, fetches')
            BY <1>5, <2>2, <2>3
        <2> QED
            BY <1>0, <1>2, <2>1, <2>3, <2>4, StackTurnsTo
    <1>7. CASE /\ ~ TooDeep(at.depth) /\ fetches' = fetches + 1 /\ Body[at.map].index
               /\ scan' = [scan EXCEPT !.stack =
                             [i \in DOMAIN below |-> [map |-> below[i], depth |-> at.depth + 1]] \o Tail(@)]
        <2> DEFINE new == [i \in DOMAIN below |-> [map |-> below[i], depth |-> at.depth + 1]]
        <2>1. /\ below \in Seq(Sitemap) /\ Len(below) \in Nat /\ Len(below) <= MaxNested
              /\ DOMAIN below = 1..Len(below)
            <3> DEFINE locs == Body[at.map].locs
            <3>1. locs \in Seq(Sitemap) /\ MaxNested \in Nat
                BY <1>1, <1>7, ScanTypes
            <3> HIDE DEF locs
            <3>2. /\ FirstOf(locs, MaxNested) \in Seq(Sitemap) /\ Len(FirstOf(locs, MaxNested)) \in Nat
                  /\ Len(FirstOf(locs, MaxNested)) <= MaxNested
                  /\ DOMAIN FirstOf(locs, MaxNested) = 1..Len(FirstOf(locs, MaxNested))
                BY <3>1, FirstOfSeq
            <3> QED
                BY <3>2 DEF locs
        <2>2. \A i \in DOMAIN below : [map |-> below[i], depth |-> at.depth + 1] \in Place
            <3> HIDE DEF below, at
            <3> QED
                BY <1>1, <2>1 DEF Place
        <2>3. /\ new \in Seq(Place) /\ Len(new) <= MaxNested
              /\ \A i \in DOMAIN new : new[i].depth = Head(scan.stack).depth + 1
            <3> HIDE DEF below
            <3> QED
                BY <2>1, <2>2
        <2> HIDE DEF new
        <2>4. new \o rest \in Seq(Place) /\ StackOK(new \o rest, fetches + 1)
            BY <1>0, <1>4, <1>7, <2>3, StackExpanded
        <2>5. scan' = [scan EXCEPT !.stack = new \o rest, !.pages = scan.pages]
            BY <1>0, <1>7 DEF new, ScanState
        <2>6. fetches' = fetches + 1 /\ fetches' \in Nat
            <3>1. fetches' = fetches + 1
                BY <1>7
            <3> QED
                BY <1>0, <3>1
        <2>7. StackOK(new \o rest, fetches')
            BY <2>4, <2>6
        <2> QED
            BY <1>0, <2>4, <2>5, <2>6, <2>7, StackTurnsTo
    <1>8. CASE /\ ~ TooDeep(at.depth) /\ fetches' = fetches + 1 /\ ~ Body[at.map].index
               /\ scan' = [scan EXCEPT !.stack = Tail(@), !.pages = AppendNew(@, Body[at.map].locs)]
        <2> DEFINE ps == AppendNew(scan.pages, Body[at.map].locs)
        <2>1. Body[at.map].locs \in Seq(Page)
            <3>1. Body[at.map].locs \in Seq(Url)
                BY <1>1, <1>8, ScanTypes
            <3> QED
                BY <3>1 DEF Page
        <2>2. ps \in Seq(Page) /\ Distinct(ps)
            BY <1>0, <2>1, NewAreAppended
        <2>3. scan' = [scan EXCEPT !.stack = rest, !.pages = ps]
            BY <1>0, <1>8 DEF ScanState
        <2>4. fetches' \in Nat /\ StackOK(rest, fetches')
            BY <1>0, <1>4, <1>5, <1>8
        <2> QED
            BY <1>0, <1>2, <2>2, <2>3, <2>4, StackTurnsTo
    <1> QED
        BY <1>3, <1>6, <1>7, <1>8

LEMMA PagesListed == ScanInv /\ ListPages => ScanInv'
    <1> SUFFICES ASSUME ScanInv, ListPages PROVE ScanInv'
        OBVIOUS
    <1>0. /\ scan \in ScanState /\ scan.pc = "list" /\ HitsOK(scan) /\ Distinct(scan.pages)
          /\ StackOK(scan.stack, fetches) /\ fetches' = fetches /\ fetches \in Nat /\ UNCHANGED <<scanned, chrome>>
          /\ scan.phase \in {"keywords", "contact"}
          /\ scan' = IF scan.phase = "keywords"
                       THEN [scan EXCEPT !.pc = "read", !.pages = ScanPages]
                       ELSE [scan EXCEPT !.pc = "visit", !.pages = VisitOrder]
        BY DEF ListPages, ScanAt, ScanInv, ScanState
    <1>1. CASE scan.phase = "keywords"
        <2> DEFINE x == [scan EXCEPT !.pc = "read", !.pages = ScanPages]
        <2>1. ScanPages \in Seq(Page) /\ Distinct(ScanPages)
            BY <1>0, PagesToRead
        <2>2. /\ x \in ScanState /\ x.pc = "read" /\ x.id = scan.id /\ x.hits = scan.hits
              /\ x.stopped = scan.stopped /\ x.pages = ScanPages /\ x.stack = scan.stack
            BY <1>0, <2>1 DEF ScanState, Page
        <2> HIDE DEF x
        <2>3. scan.hits = {} /\ HitsOK(x)
            BY <1>0, <1>1, <2>2 DEF HitsOK
        <2>4. scan' = x
            BY <1>0, <1>1 DEF x
        <2> QED
            BY <1>0, <2>1, <2>2, <2>3, <2>4, ScanGoesOn
    <1>2. CASE scan.phase = "contact"
        <2> DEFINE x == [scan EXCEPT !.pc = "visit", !.pages = VisitOrder]
        <2>1. VisitOrder \in Seq(Page) /\ Distinct(VisitOrder) /\ VisitOrder # <<>>
            BY <1>0, PagesToVisit
        <2>2. /\ x \in ScanState /\ x.pc = "visit" /\ x.id = scan.id /\ x.hits = scan.hits
              /\ x.stopped = scan.stopped /\ x.pages = VisitOrder /\ x.stack = scan.stack
            BY <1>0, <2>1 DEF ScanState, Page
        <2> HIDE DEF x
        <2>3. HitsOK(x)
            BY <1>0, <2>2 DEF HitsOK
        <2>4. scan' = x
            BY <1>0, <1>2 DEF x
        <2> QED
            BY <1>0, <2>1, <2>2, <2>3, <2>4, ScanGoesOn
    <1> QED
        BY <1>0, <1>1, <1>2

\* What is left of a list without its first element.
LEMMA ListTail ==
    ASSUME NEW s \in Seq(Page), s # <<>>, Distinct(s)
    PROVE  /\ Head(s) \in Page /\ Tail(s) \in Seq(Page) /\ Distinct(Tail(s))
           /\ Listed(Tail(s)) \subseteq Listed(s) \ {Head(s)}
           /\ Len(s) # 1 => Tail(s) # <<>>
    <1>1. /\ Len(s) \in Nat \ {0} /\ DOMAIN s = 1..Len(s) /\ Head(s) = s[1] /\ Head(s) \in Page
          /\ Tail(s) \in Seq(Page) /\ Len(Tail(s)) = Len(s) - 1 /\ DOMAIN Tail(s) = 1..(Len(s) - 1)
          /\ \A i \in 1..(Len(s) - 1) : Tail(s)[i] = s[i + 1]
        OBVIOUS
    <1>2. Distinct(Tail(s))
        <2> SUFFICES ASSUME NEW i \in 1..(Len(s) - 1), NEW j \in 1..(Len(s) - 1), s[i + 1] = s[j + 1] PROVE i = j
            BY <1>1 DEF Distinct
        <2>1. i + 1 \in DOMAIN s /\ j + 1 \in DOMAIN s
            BY <1>1
        <2>2. i + 1 = j + 1
            BY <2>1 DEF Distinct
        <2> QED
            BY <2>2
    <1>3. ASSUME NEW i \in 1..(Len(s) - 1) PROVE Tail(s)[i] \in Listed(s) /\ Tail(s)[i] # Head(s)
        <2>1. i + 1 \in DOMAIN s /\ 1 \in DOMAIN s /\ i + 1 # 1
            BY <1>1
        <2>2. s[i + 1] # s[1]
            BY <2>1 DEF Distinct
        <2> QED
            BY <1>1, <2>1, <2>2 DEF Listed
    <1>4. Listed(Tail(s)) \subseteq Listed(s) \ {Head(s)}
        BY <1>1, <1>3 DEF Listed
    <1>5. Len(s) # 1 => Tail(s) # <<>>
        BY <1>1
    <1> QED
        BY <1>1, <1>2, <1>4, <1>5

LEMMA PageIsRead == ScanInv /\ ReadPage => ScanInv'
    <1> SUFFICES ASSUME ScanInv, ReadPage PROVE ScanInv'
        OBVIOUS
    <1>0. /\ scan \in ScanState /\ scan.pc = "read" /\ ~ scan.stopped /\ HitsOK(scan) /\ Distinct(scan.pages)
          /\ StackOK(scan.stack, fetches) /\ fetches' = fetches /\ fetches \in Nat /\ UNCHANGED <<scanned, chrome>>
          /\ scan.pages \in Seq(Page) /\ scan.pages # <<>> /\ scan.hits \subseteq Page
        BY DEF ReadPage, ScanAt, ScanInv, ScanState, Page
    <1> DEFINE page == Head(scan.pages)
               rest == Tail(scan.pages)
    <1>1. PICK hits \in {scan.hits, scan.hits \cup {page}} :
            scan' = [scan EXCEPT !.pages = Tail(@), !.hits = hits, !.stopped = Enough(hits)]
        BY DEF ReadPage
    <1>2. page \in Page /\ rest \in Seq(Page) /\ Distinct(rest) /\ Listed(rest) \subseteq Listed(scan.pages) \ {page}
        BY <1>0, ListTail
    <1>3. IsFiniteSet(scan.hits) /\ Cardinality(scan.hits) <= MaxHits /\ scan.hits \cap Listed(scan.pages) = {}
        BY <1>0 DEF HitsOK
    <1> HIDE DEF page
    <1>4. IsFiniteSet(hits) /\ Cardinality(hits) <= MaxHits + 1 /\ hits \subseteq Page
        <2>1. Cardinality(scan.hits) \in Nat
            BY <1>3, FS_CardinalityType
        <2>2. /\ IsFiniteSet(scan.hits \cup {page})
              /\ Cardinality(scan.hits \cup {page}) = IF page \in scan.hits THEN Cardinality(scan.hits)
                                                      ELSE Cardinality(scan.hits) + 1
            BY <1>3, FS_AddElement
        <2>3. Cardinality(scan.hits \cup {page}) <= MaxHits + 1 /\ Cardinality(scan.hits) <= MaxHits + 1
            BY <1>3, <2>1, <2>2, ScanTypes
        <2> QED
            BY <1>0, <1>1, <1>2, <1>3, <2>2, <2>3
    <1>5. hits \cap Listed(rest) = {}
        BY <1>1, <1>2, <1>3
    <1> DEFINE x == [scan EXCEPT !.pages = rest, !.hits = hits, !.stopped = Enough(hits)]
    <1>6. scan' = x
        BY <1>0, <1>1 DEF ScanState
    <1> HIDE DEF rest
    <1>7. Enough(hits) \in BOOLEAN /\ (~ Enough(hits) => Cardinality(hits) <= MaxHits)
        <2>1. Cardinality(hits) \in Nat
            BY <1>4, FS_CardinalityType
        <2> QED
            BY <2>1, ScanTypes DEF Enough
    <1>8. /\ x \in ScanState /\ x.pc = "read" /\ x.id = scan.id /\ x.hits = hits
          /\ x.stopped = Enough(hits) /\ x.pages = rest /\ x.stack = scan.stack
        BY <1>0, <1>2, <1>4, <1>7 DEF ScanState, Page
    <1> HIDE DEF x
    <1>9. HitsOK(x)
        BY <1>4, <1>5, <1>7, <1>8 DEF HitsOK
    <1> QED
        BY <1>0, <1>2, <1>6, <1>8, <1>9, ScanGoesOn

LEMMA SiteLeft == ScanInv /\ LeaveSite => ScanInv'
    <1> SUFFICES ASSUME ScanInv, LeaveSite PROVE ScanInv'
        OBVIOUS
    <1> DEFINE x == [scan EXCEPT !.pc = "idle"]
    <1>0. /\ scan \in ScanState /\ scan.pc = "read" /\ HitsOK(scan) /\ scan.id \in Scan
          /\ scan' = x /\ scanned' = [scanned EXCEPT ![scan.id] = "nothing"] /\ UNCHANGED <<chrome, fetches>>
        BY DEF LeaveSite, ScanAt, ScanInv, ScanState
    <1>1. /\ x \in ScanState /\ x.pc = "idle" /\ x.id = scan.id /\ x.hits = scan.hits /\ x.stopped = scan.stopped
          /\ x.pages = scan.pages /\ x.stack = scan.stack
        BY <1>0 DEF ScanState
    <1> HIDE DEF x
    <1>2. HitsOK(x)
        BY <1>0, <1>1 DEF HitsOK
    <1>3. scanned' \in [Scan -> {"no", "nothing", "saved", "failed"}]
        BY <1>0 DEF ScanInv
    <1>4. \A s \in chrome : scanned'[s] = "nothing"
        BY <1>0 DEF ScanInv, BrowsersAccounted
    <1> QED
        BY <1>0, <1>1, <1>2, <1>3, <1>4 DEF ScanInv, BrowsersAccounted

LEMMA ContactSought == ScanInv /\ LookForContact => ScanInv'
    <1> SUFFICES ASSUME ScanInv, LookForContact PROVE ScanInv'
        OBVIOUS
    <1>0. /\ scan \in ScanState /\ scan.pc = "read" /\ HitsOK(scan) /\ scan' = Listing("contact") /\ fetches' = 0
          /\ UNCHANGED <<scanned, chrome>>
        BY DEF LookForContact, ScanAt, ScanInv
    <1>1. HitsOK(Listing("contact"))
        BY <1>0, NewListing DEF HitsOK
    <1> QED
        BY <1>0, <1>1, NewListing, ScanGoesOn

LEMMA ContactPageVisited == ScanInv /\ VisitContactPage => ScanInv'
    <1> SUFFICES ASSUME ScanInv, VisitContactPage PROVE ScanInv'
        OBVIOUS
    <1> DEFINE rest == Tail(scan.pages)
    <1>0. /\ scan \in ScanState /\ scan.pc = "visit" /\ HitsOK(scan) /\ Distinct(scan.pages)
          /\ StackOK(scan.stack, fetches) /\ fetches' = fetches /\ fetches \in Nat /\ UNCHANGED <<scanned, chrome>>
          /\ scan.pages \in Seq(Page) /\ scan.pages # <<>>
          /\ scan' = IF Len(scan.pages) = 1 THEN [scan EXCEPT !.pages = <<>>, !.pc = "close"]
                     ELSE [scan EXCEPT !.pages = Tail(@)]
        BY DEF VisitContactPage, ScanAt, ScanInv, ScanState, Page
    <1>1. rest \in Seq(Page) /\ Distinct(rest) /\ (Len(scan.pages) # 1 => rest # <<>>)
        BY <1>0, ListTail
    <1>2. CASE Len(scan.pages) = 1
        <2> DEFINE x == [scan EXCEPT !.pages = <<>>, !.pc = "close"]
        <2>1. scan' = x
            BY <1>0, <1>2
        <2>2. <<>> \in Seq(Page) /\ Distinct(<<>>)
            BY DEF Distinct
        <2>3. /\ x \in ScanState /\ x.pc = "close" /\ x.id = scan.id /\ x.hits = scan.hits
              /\ x.stopped = scan.stopped /\ x.pages = <<>> /\ x.stack = scan.stack
            BY <1>0, <2>2 DEF ScanState, Page
        <2> HIDE DEF x
        <2>4. HitsOK(x)
            BY <1>0, <2>3 DEF HitsOK
        <2> QED
            BY <1>0, <2>1, <2>2, <2>3, <2>4, ScanGoesOn
    <1>3. CASE Len(scan.pages) # 1
        <2> DEFINE x == [scan EXCEPT !.pages = rest]
        <2>1. scan' = x
            BY <1>0, <1>3
        <2> HIDE DEF rest
        <2>2. /\ x \in ScanState /\ x.pc = "visit" /\ x.id = scan.id /\ x.hits = scan.hits
              /\ x.stopped = scan.stopped /\ x.pages = rest /\ x.stack = scan.stack
            BY <1>0, <1>1 DEF ScanState, Page
        <2> HIDE DEF x
        <2>3. HitsOK(x)
            BY <1>0, <2>2 DEF HitsOK
        <2> QED
            BY <1>0, <1>1, <1>3, <2>1, <2>2, <2>3, ScanGoesOn
    <1> QED
        BY <1>2, <1>3

LEMMA BrowserClosed == ScanInv /\ CloseBrowser => ScanInv'
    <1> SUFFICES ASSUME ScanInv, CloseBrowser PROVE ScanInv'
        OBVIOUS
    <1> DEFINE x == [scan EXCEPT !.pc = "idle"]
    <1>0. /\ scan \in ScanState /\ scan.pc = "close" /\ HitsOK(scan) /\ scan.id \in Scan
          /\ scan' = x /\ scanned' = [scanned EXCEPT ![scan.id] = "saved"]
          /\ chrome' = chrome \ {scan.id} /\ UNCHANGED fetches
        BY DEF CloseBrowser, ScanAt, ScanInv, ScanState
    <1>1. /\ x \in ScanState /\ x.pc = "idle" /\ x.id = scan.id /\ x.hits = scan.hits /\ x.stopped = scan.stopped
          /\ x.pages = scan.pages /\ x.stack = scan.stack
        BY <1>0 DEF ScanState
    <1> HIDE DEF x
    <1>2. HitsOK(x)
        BY <1>0, <1>1 DEF HitsOK
    <1>3. scanned' \in [Scan -> {"no", "nothing", "saved", "failed"}]
        BY <1>0 DEF ScanInv
    <1>4. \A s \in chrome' : scanned'[s] = "nothing"
        BY <1>0 DEF ScanInv, BrowsersAccounted
    <1> QED
        BY <1>0, <1>1, <1>2, <1>3, <1>4 DEF ScanInv, BrowsersAccounted

LEMMA ScanStepKeeps == ScanInv /\ [ScanNext]_scanVars => ScanInv'
    <1> SUFFICES ASSUME ScanInv, [ScanNext]_scanVars PROVE ScanInv'
        OBVIOUS
    <1>1. ASSUME NEW s \in Scan, StartScan(s) PROVE ScanInv'
        BY <1>1, ScanStarts
    <1>2. CASE LaunchBrowser
        BY <1>2, BrowserLaunched
    <1>3. CASE TryPlace
        BY <1>3, PlaceTried
    <1>4. CASE FetchSitemap
        BY <1>4, SitemapFetched
    <1>5. CASE ListPages
        BY <1>5, PagesListed
    <1>6. CASE ReadPage
        BY <1>6, PageIsRead
    <1>7. CASE LeaveSite
        BY <1>7, SiteLeft
    <1>8. CASE LookForContact
        BY <1>8, ContactSought
    <1>9. CASE VisitContactPage
        BY <1>9, ContactPageVisited
    <1>10. CASE CloseBrowser
        BY <1>10, BrowserClosed
    <1>11. CASE UNCHANGED scanVars
        BY <1>11 DEF scanVars, ScanInv, BrowsersAccounted, ScanAt
    <1> QED
        BY <1>1, <1>2, <1>3, <1>4, <1>5, <1>6, <1>7, <1>8, <1>9, <1>10, <1>11 DEF ScanNext, ScanStep

LEMMA BoundHolds == ScanInv => FetchesBounded
    <1> SUFFICES ASSUME ScanInv PROVE FetchesBounded
        OBVIOUS
    <1>0. fetches \in Nat /\ StackOK(scan.stack, fetches)
        BY DEF ScanInv
    <1>1. MaxNested \in Nat /\ MaxNested * MaxNested \in Nat
        BY ScanTypes
    <1>2. CASE fetches = 0
        BY <1>1, <1>2 DEF FetchesBounded
    <1>3. ASSUME NEW b \in Nat, NEW c \in Nat,
                 fetches + b + c * (1 + MaxNested) <= 1 + MaxNested + MaxNested * MaxNested
          PROVE  FetchesBounded
        <2>1. c * (1 + MaxNested) \in Nat
            BY <1>1
        <2> QED
            BY <1>0, <1>1, <1>3, <2>1 DEF FetchesBounded
    <1> QED
        BY <1>0, <1>2, <1>3 DEF StackOK

LEMMA ScanInvImplies == ScanInv => ScanIsSound
    <1> SUFFICES ASSUME ScanInv PROVE ScanIsSound
        OBVIOUS
    <1>1. ScanTypeOK
        BY DEF ScanInv, ScanTypeOK, HitsOK
    <1>2. PagesReadOnce
        BY DEF ScanInv, HitsOK, PagesReadOnce, ScanAt, Distinct
    <1>3. BrowsersAccounted
        BY DEF ScanInv
    <1> QED
        BY <1>1, <1>2, <1>3, BoundHolds DEF ScanIsSound

\* Whatever the sitemaps list, each other and themselves included, whatever
\* fails to load and however many deliveries there are: the pages that are left
\* to read are listed once and are none of those that gave a hit, the sitemaps
\* of one place are fetched at most 1 + MaxNested + MaxNested * MaxNested times,
\* and the only browsers left open are those of websites without a hit (ScanInv
\* adds how the stack of sitemaps is layered by depth, and what is left of the
\* bound for them).
THEOREM ScanIsKept == ScanSpec => []ScanIsSound
    <1>1. ScanInit => ScanInv
        BY InitScan
    <1>2. ScanInv /\ [ScanNext]_scanVars => ScanInv'
        BY ScanStepKeeps
    <1>3. ScanInv => ScanIsSound
        BY ScanInvImplies
    <1> QED
        BY <1>1, <1>2, <1>3, PTL DEF ScanSpec

-----------------------------------------------------------------------------
(* LinkedInContact *)

\* What an errand says of itself: where it has a browser, that only posts follow
\* a contact, and that a search counts its pages.
ErrandOK(x) ==
    /\ x.pc \in {"idle", "open", "pick", "draft", "over"} => ~ x.browser
    /\ x.pc \in {"goto", "login", "work", "click", "read", "next"} => x.browser
    /\ x.pc = "idle" => x.task = "people" /\ x.turn = 0 /\ x.people = <<>>
    /\ x.pc \notin {"close", "over"} => x.skip = ""
    /\ x.pc = "draft" => x.task = "activity"
    /\ x.task = "activity" => x.skip = ""
    /\ x.task # "activity" => x.contact = {} /\ ~ x.drafted
    /\ x.task = "search" => x.turn <= PageLimit
    /\ x.pc = "next" => x.turn < PageLimit
    /\ Distinct(x.people)
    /\ Cardinality(x.posts) <= MaxSnippets

\* A search that is not skipped has been cut short, or has seen every page; one
\* that is has nobody.
Searched(x, shutOut) ==
    x.pc \in {"close", "over"} /\ x.task = "search" =>
      IF x.skip = "" THEN x.turn = PageLimit \/ x.failed \/ (shutOut /\ x.people # <<>>) ELSE x.people = <<>>

ContactInv ==
    /\ ContactTypeOK
    /\ \A e \in Errand : ErrandOK(errand[e]) /\ Searched(errand[e], e \in walled)

LEMMA ContactTypes ==
    /\ IsFiniteSet(Snippet) /\ Persistent \in BOOLEAN /\ HasCredentials \in BOOLEAN
    /\ MaxClicks \in Nat /\ MaxRounds \in Nat /\ LastShortRound \in Nat
    /\ MaxSnippets \in Nat /\ MaxSnippets >= 1 /\ PageLimit \in Nat /\ PageLimit >= 1
    /\ \A S \in SUBSET Snippet : IsFiniteSet(S) /\ Cardinality(S) \in Nat
    BY ContactAssumption, FS_Subset, FS_CardinalityType DEF ContactAssumption

LEMMA InitContact == ContactInit => ContactInv
    <1> SUFFICES ASSUME ContactInit PROVE ContactInv
        OBVIOUS
    <1>0. Cardinality({}) = 0
        BY FS_EmptySet
    <1>1. Unstarted \in ErrandState
        <2>1. <<>> \in Seq(Person)
            OBVIOUS
        <2> QED
            BY <2>1 DEF Unstarted, ErrandState, Task, Skip
    <1>2. ErrandOK(Unstarted) /\ \A e \in Errand : Searched(Unstarted, e \in walled)
        BY <1>0, ContactTypes DEF ErrandOK, Searched, Unstarted, Distinct
    <1>3. \A e \in Errand : errand[e] = Unstarted
        BY DEF ContactInit
    <1>4. ContactTypeOK
        <2>1. \A e \in Errand : Cardinality(errand[e].posts) <= MaxSnippets
            <3>1. Unstarted.posts = {}
                BY DEF Unstarted
            <3> QED
                BY <1>0, <1>3, <3>1, ContactTypes
        <2>2. errand \in [Errand -> ErrandState]
            BY <1>1 DEF ContactInit
        <2> QED
            BY <2>1, <2>2 DEF ContactInit, ContactTypeOK
    <1>6. \A e \in Errand : ErrandOK(errand[e]) /\ Searched(errand[e], e \in walled)
        BY <1>2, <1>3 DEF ContactInit
    <1> QED
        BY <1>4, <1>6 DEF ContactInv

\* Errand e becomes x.
ErrandMoves(e, x) ==
    /\ errand' = [errand EXCEPT ![e] = x]
    /\ walled \subseteq walled' /\ walled' \subseteq Errand

LEMMA MovedErrand ==
    \A e \in Errand, x \in ErrandState :
      ContactInv /\ ErrandMoves(e, x) /\ ErrandOK(x) /\ Searched(x, e \in walled') => ContactInv'
    <1> SUFFICES ASSUME NEW e \in Errand, NEW x \in ErrandState, ContactInv, ErrandMoves(e, x), ErrandOK(x),
                        Searched(x, e \in walled')
                 PROVE  ContactInv'
        OBVIOUS
    <1>0. /\ errand \in [Errand -> ErrandState]
          /\ \A f \in Errand : Cardinality(errand[f].posts) <= MaxSnippets
        BY DEF ContactInv, ContactTypeOK
    <1>1. errand' \in [Errand -> ErrandState] /\ errand'[e] = x /\ \A f \in Errand : f # e => errand'[f] = errand[f]
        BY <1>0 DEF ErrandMoves
    <1>2. Cardinality(x.posts) <= MaxSnippets
        BY DEF ErrandOK
    <1>4. ContactTypeOK'
        BY <1>0, <1>1, <1>2 DEF ContactTypeOK, ErrandMoves
    <1>7. ASSUME NEW f \in Errand PROVE ErrandOK(errand'[f]) /\ Searched(errand'[f], f \in walled')
        <2>1. CASE f = e
            BY <1>1, <2>1
        <2>2. CASE f # e
            <3>1. ErrandOK(errand[f]) /\ Searched(errand[f], f \in walled) /\ errand'[f] = errand[f]
                BY <1>1, <2>2 DEF ContactInv
            <3>2. f \in walled => f \in walled'
                BY DEF ErrandMoves
            <3> QED
                BY <3>1, <3>2 DEF Searched
        <2> QED
            BY <2>1, <2>2
    <1> QED
        BY <1>4, <1>7 DEF ContactInv

LEMMA ErrandTypes ==
    ContactInv => \A e \in Errand : /\ errand \in [Errand -> ErrandState]
                                    /\ errand[e] \in ErrandState /\ ErrandOK(errand[e])
                                    /\ Searched(errand[e], e \in walled)
                                    /\ walled \subseteq Errand
    BY DEF ContactInv, ContactTypeOK

\* An errand goes on; its browser stays as it is.
LEMMA ErrandGoesOn ==
    \A e \in Errand, x \in ErrandState :
      /\ ContactInv /\ errand' = [errand EXCEPT ![e] = x] /\ x.browser = errand[e].browser
      /\ walled \subseteq walled' /\ walled' \subseteq Errand
      /\ ErrandOK(x) /\ Searched(x, e \in walled')
      => ContactInv'
    <1> SUFFICES ASSUME NEW e \in Errand, NEW x \in ErrandState, ContactInv,
                        errand' = [errand EXCEPT ![e] = x], x.browser = errand[e].browser,
                        walled \subseteq walled', walled' \subseteq Errand,
                        ErrandOK(x), Searched(x, e \in walled')
                 PROVE  ContactInv'
        OBVIOUS
    <1>1. ErrandMoves(e, x)
        BY ErrandTypes DEF ErrandMoves, ErrandOK
    <1> QED
        BY <1>1, MovedErrand

\* The steps that only say what is next.
LEMMA ErrandTurnsTo ==
    ASSUME ContactInv, NEW e \in Errand,
           NEW p \in {"work", "click", "read", "login", "close"}, NEW k \in Skip, NEW f \in BOOLEAN,
           errand[e].pc \notin {"idle", "pick", "draft", "close", "over"},
           p # "close" => errand[e].browser /\ k = errand[e].skip,
           errand[e].task = "activity" => k = "",
           p = "close" /\ errand[e].task = "search" =>
             IF k = "" THEN f \/ (e \in walled' /\ errand[e].people # <<>>) ELSE errand[e].people = <<>>,
           errand' = [errand EXCEPT ![e] = [errand[e] EXCEPT !.pc = p, !.skip = k, !.failed = f]],
           walled \subseteq walled', walled' \subseteq Errand
    PROVE  ContactInv'
    <1> DEFINE x == [errand[e] EXCEPT !.pc = p, !.skip = k, !.failed = f]
    <1>0. errand[e] \in ErrandState /\ ErrandOK(errand[e])
        BY ErrandTypes
    <1>1. /\ x \in ErrandState /\ x.pc = p /\ x.skip = k /\ x.failed = f /\ x.task = errand[e].task
          /\ x.browser = errand[e].browser /\ x.turn = errand[e].turn /\ x.people = errand[e].people
          /\ x.posts = errand[e].posts /\ x.contact = errand[e].contact /\ x.drafted = errand[e].drafted
        BY <1>0 DEF ErrandState
    <1>2. errand' = [errand EXCEPT ![e] = x]
        OBVIOUS
    <1> HIDE DEF x
    <1>3. ErrandOK(x)
        BY <1>0, <1>1 DEF ErrandOK
    <1>4. Searched(x, e \in walled')
        BY <1>1 DEF Searched
    <1> QED
        BY <1>1, <1>2, <1>3, <1>4, ErrandGoesOn

LEMMA ErrandStarts == \A e \in Errand : ContactInv /\ (RunOutreach(e) \/ RunSearch(e)) => ContactInv'
    <1> SUFFICES ASSUME NEW e \in Errand, ContactInv, RunOutreach(e) \/ RunSearch(e) PROVE ContactInv'
        OBVIOUS
    <1>0. /\ errand \in [Errand -> ErrandState]
          /\ errand[e] \in ErrandState /\ ErrandOK(errand[e]) /\ errand[e].pc = "idle" /\ walled \subseteq Errand
          /\ UNCHANGED walled
        BY ErrandTypes DEF RunOutreach, RunSearch, ErrandAt
    <1>1. ASSUME NEW x, errand' = [errand EXCEPT ![e] = x],
                 \/ x = [errand[e] EXCEPT !.pc = "open"]
                 \/ x = [errand[e] EXCEPT !.pc = "over", !.skip = "no_linkedin_url"]
                 \/ x = [errand[e] EXCEPT !.pc = "open", !.task = "search", !.turn = 1]
                 \/ x = [errand[e] EXCEPT !.pc = "over", !.task = "search", !.skip = "no_search_url"]
          PROVE  ContactInv'
        <2>0. errand[e].task = "people" /\ errand[e].turn = 0 /\ errand[e].people = <<>> /\ errand[e].skip = ""
            BY <1>0 DEF ErrandOK
        <2>1. /\ x \in ErrandState /\ x.pc \in {"open", "over"} /\ (x.pc = "over" <=> x.skip # "")
              /\ x.task \in {"people", "search"} /\ x.turn \in {0, 1}
              /\ x.browser = errand[e].browser /\ x.people = errand[e].people
              /\ x.posts = errand[e].posts /\ x.contact = errand[e].contact /\ x.drafted = errand[e].drafted
            <3>1. CASE x = [errand[e] EXCEPT !.pc = "open"]
                BY <1>0, <2>0, <3>1 DEF ErrandState
            <3>2. CASE x = [errand[e] EXCEPT !.pc = "over", !.skip = "no_linkedin_url"]
                BY <1>0, <2>0, <3>2 DEF ErrandState, Skip
            <3>3. CASE x = [errand[e] EXCEPT !.pc = "open", !.task = "search", !.turn = 1]
                BY <1>0, <2>0, <3>3 DEF ErrandState, Task
            <3>4. CASE x = [errand[e] EXCEPT !.pc = "over", !.task = "search", !.skip = "no_search_url"]
                BY <1>0, <2>0, <3>4 DEF ErrandState, Skip, Task
            <3> QED
                BY <1>1, <3>1, <3>2, <3>3, <3>4
        <2>2. x.turn <= PageLimit
            <3>1. 0 <= PageLimit /\ 1 <= PageLimit
                BY ContactTypes
            <3> QED
                BY <2>1, <3>1
        <2>3. ErrandOK(x)
            BY <1>0, <2>0, <2>1, <2>2 DEF ErrandOK
        <2>4. Searched(x, e \in walled')
            BY <2>0, <2>1 DEF Searched
        <2> QED
            BY <1>0, <1>1, <2>1, <2>3, <2>4, ErrandGoesOn
    <1>2. CASE errand' = [errand EXCEPT ![e].pc = "open"]
        BY <1>1, <1>2
    <1>3. CASE errand' = [errand EXCEPT ![e].pc = "over", ![e].skip = "no_linkedin_url"]
        <2>1. errand' = [errand EXCEPT ![e] = [errand[e] EXCEPT !.pc = "over", !.skip = "no_linkedin_url"]]
            BY <1>0, <1>3
        <2> QED
            BY <1>1, <2>1
    <1>4. CASE errand' = [errand EXCEPT ![e].pc = "open", ![e].task = "search", ![e].turn = 1]
        <2>1. errand' = [errand EXCEPT ![e] = [errand[e] EXCEPT !.pc = "open", !.task = "search", !.turn = 1]]
            BY <1>0, <1>4
        <2> QED
            BY <1>1, <2>1
    <1>5. CASE errand' = [errand EXCEPT ![e].pc = "over", ![e].task = "search", ![e].skip = "no_search_url"]
        <2>1. errand' = [errand EXCEPT ![e] = [errand[e] EXCEPT !.pc = "over", !.task = "search",
                                                                !.skip = "no_search_url"]]
            BY <1>0, <1>5
        <2> QED
            BY <1>1, <2>1
    <1> QED
        BY <1>2, <1>3, <1>4, <1>5 DEF RunOutreach, RunSearch, Go

LEMMA BrowserOpens == \A e \in Errand : ContactInv /\ OpenBrowser(e) => ContactInv'
    <1> SUFFICES ASSUME NEW e \in Errand, ContactInv, OpenBrowser(e) PROVE ContactInv'
        OBVIOUS
    <1> DEFINE x == [errand[e] EXCEPT !.pc = "goto", !.browser = TRUE]
    <1>0. /\ errand \in [Errand -> ErrandState] /\ errand[e] \in ErrandState /\ ErrandOK(errand[e])
          /\ errand[e].pc = "open"
          /\ UNCHANGED walled
        BY ErrandTypes DEF OpenBrowser, ErrandAt
    <1>1. errand' = [errand EXCEPT ![e] = x]
        BY <1>0 DEF OpenBrowser
    <1>2. /\ x \in ErrandState /\ x.pc = "goto" /\ x.browser = TRUE /\ x.skip = errand[e].skip
          /\ x.task = errand[e].task /\ x.turn = errand[e].turn /\ x.people = errand[e].people
          /\ x.posts = errand[e].posts /\ x.contact = errand[e].contact /\ x.drafted = errand[e].drafted
        BY <1>0 DEF ErrandState
    <1> HIDE DEF x
    <1>3. ErrandOK(x) /\ Searched(x, e \in walled')
        BY <1>0, <1>2 DEF ErrandOK, Searched
    <1>4. /\ errand' \in [Errand -> ErrandState] /\ errand'[e] = x
          /\ \A f \in Errand : f # e => errand'[f] = errand[f]
        BY <1>0, <1>1, <1>2
    <1>5. Cardinality(x.posts) <= MaxSnippets
        BY <1>3 DEF ErrandOK
    <1>6. ContactTypeOK'
        BY <1>0, <1>2, <1>4, <1>5 DEF ContactInv, ContactTypeOK
    <1> QED
        BY <1>0, <1>3, <1>4, <1>6 DEF ContactInv

\* What a collection makes of a session it does not get.
LEMMA SessionDenied ==
    \A e \in Errand :
      /\ ContactInv /\ NoSession(e) /\ errand[e].pc \in {"goto", "login"}
      => ContactInv'
    <1> SUFFICES ASSUME NEW e \in Errand, ContactInv, NoSession(e), errand[e].pc \in {"goto", "login"}
                 PROVE  ContactInv'
        OBVIOUS
    <1>0. errand \in [Errand -> ErrandState] /\ errand[e] \in ErrandState /\ walled \subseteq Errand
          /\ errand[e].failed \in BOOLEAN
        BY ErrandTypes DEF ErrandState
    <1> DEFINE k == IF errand[e].task = "people" \/ (errand[e].task = "search" /\ errand[e].people = <<>>)
                      THEN "linkedin_auth_required" ELSE ""
    <1>1. errand' = [errand EXCEPT ![e] = [errand[e] EXCEPT !.pc = "close", !.skip = k, !.failed = errand[e].failed]]
        <2>1. [errand[e] EXCEPT !.pc = "close", !.skip = k, !.failed = errand[e].failed]
                = [errand[e] EXCEPT !.pc = "close", !.skip = k]
            BY <1>0 DEF ErrandState
        <2>2. errand' = [errand EXCEPT ![e] = [errand[e] EXCEPT !.pc = "close", !.skip = k]]
            BY <1>0 DEF NoSession
        <2> QED
            BY <2>1, <2>2
    <1>2. k \in Skip /\ (errand[e].task = "activity" => k = "")
        BY DEF Skip
    <1>3. walled \subseteq walled' /\ walled' \subseteq Errand /\ (errand[e].task = "search" => e \in walled')
        BY <1>0 DEF NoSession
    <1>4. errand[e].task = "search" =>
            IF k = "" THEN errand[e].people # <<>> ELSE errand[e].people = <<>>
        OBVIOUS
    <1> HIDE DEF k
    <1> QED
        BY <1>0, <1>1, <1>2, <1>3, <1>4, ErrandTurnsTo

\* An errand goes to step p of its collection.
LEMMA StepTaken ==
    \A e \in Errand, p \in {"work", "click", "read", "login"} :
      /\ ContactInv /\ Go(e, p) /\ errand[e].pc \in {"goto", "login", "work", "click"}
      /\ UNCHANGED walled
      => ContactInv'
    <1> SUFFICES ASSUME NEW e \in Errand, NEW p \in {"work", "click", "read", "login"}, ContactInv, Go(e, p),
                        errand[e].pc \in {"goto", "login", "work", "click"},
                        UNCHANGED walled
                 PROVE  ContactInv'
        OBVIOUS
    <1>0. errand \in [Errand -> ErrandState] /\ errand[e] \in ErrandState /\ walled \subseteq Errand
          /\ errand[e].failed \in BOOLEAN /\ errand[e].skip \in Skip /\ ErrandOK(errand[e])
        BY ErrandTypes DEF ErrandState
    <1>1. errand' = [errand EXCEPT ![e] = [errand[e] EXCEPT !.pc = p, !.skip = errand[e].skip,
                                                            !.failed = errand[e].failed]]
        <2>1. [errand[e] EXCEPT !.pc = p, !.skip = errand[e].skip, !.failed = errand[e].failed]
                = [errand[e] EXCEPT !.pc = p]
            BY <1>0 DEF ErrandState
        <2> QED
            BY <1>0, <2>1 DEF Go
    <1>2. errand[e].browser /\ (errand[e].task = "activity" => errand[e].skip = "")
        BY <1>0 DEF ErrandOK
    <1>3. /\ p \in {"work", "click", "read", "login", "close"} /\ p # "close"
          /\ errand[e].pc \notin {"idle", "pick", "draft", "close", "over"}
          /\ walled \subseteq walled' /\ walled' \subseteq Errand
        BY <1>0
    <1> DEFINE k == errand[e].skip
               f == errand[e].failed
    <1>4. /\ k \in Skip /\ f \in BOOLEAN /\ k = errand[e].skip /\ (errand[e].task = "activity" => k = "")
          /\ errand' = [errand EXCEPT ![e] = [errand[e] EXCEPT !.pc = p, !.skip = k, !.failed = f]]
        BY <1>0, <1>1, <1>2
    <1> HIDE DEF k, f
    <1> QED
        BY <1>2, <1>3, <1>4, ErrandTurnsTo

LEMMA PageVisited == \A e \in Errand : ContactInv /\ GotoPage(e) => ContactInv'
    <1> SUFFICES ASSUME NEW e \in Errand, ContactInv, GotoPage(e) PROVE ContactInv'
        OBVIOUS
    <1>0. errand[e].pc = "goto"
        BY DEF GotoPage, ErrandAt
    <1>1. CASE Go(e, "work") /\ UNCHANGED walled
        BY <1>0, <1>1, StepTaken
    <1>2. CASE Go(e, "login") /\ UNCHANGED walled
        BY <1>0, <1>2, StepTaken
    <1>3. CASE NoSession(e)
        BY <1>0, <1>3, SessionDenied
    <1> QED
        BY <1>1, <1>2, <1>3 DEF GotoPage

LEMMA SignsIn == \A e \in Errand : ContactInv /\ SignIn(e) => ContactInv'
    <1> SUFFICES ASSUME NEW e \in Errand, ContactInv, SignIn(e) PROVE ContactInv'
        OBVIOUS
    <1>0. errand[e].pc = "login"
        BY DEF SignIn, ErrandAt
    <1>1. CASE Go(e, "work") /\ UNCHANGED walled
        BY <1>0, <1>1, StepTaken
    <1>2. CASE NoSession(e)
        BY <1>0, <1>2, SessionDenied
    <1> QED
        BY <1>1, <1>2 DEF SignIn

LEMMA PeopleCounted == \A e \in Errand : ContactInv /\ (CountMembers(e) \/ ClickShowMore(e)) => ContactInv'
    <1> SUFFICES ASSUME NEW e \in Errand, ContactInv, CountMembers(e) \/ ClickShowMore(e) PROVE ContactInv'
        OBVIOUS
    <1>0. /\ errand[e].pc \in {"work", "click"} /\ errand[e].task = "people"
          /\ UNCHANGED walled
          /\ errand \in [Errand -> ErrandState] /\ errand[e] \in ErrandState /\ ErrandOK(errand[e])
          /\ errand[e].failed \in BOOLEAN /\ walled \subseteq Errand
        BY ErrandTypes DEF CountMembers, ClickShowMore, Doing, ErrandState
    <1>1. CASE Go(e, "click") \/ Go(e, "read")
        BY <1>0, <1>1, StepTaken
    <1>2. CASE errand' = [errand EXCEPT ![e].pc = "close", ![e].skip = "too_many_associated_members"]
        <2>1. [errand[e] EXCEPT !.pc = "close", !.skip = "too_many_associated_members", !.failed = errand[e].failed]
                = [errand[e] EXCEPT !.pc = "close", !.skip = "too_many_associated_members"]
            BY <1>0 DEF ErrandState
        <2>2. errand' = [errand EXCEPT ![e] = [errand[e] EXCEPT !.pc = "close",
                                                                !.skip = "too_many_associated_members"]]
            BY <1>0, <1>2
        <2>3. "too_many_associated_members" \in Skip
            BY DEF Skip
        <2> QED
            BY <1>0, <2>1, <2>2, <2>3, ErrandTurnsTo
    <1>3. CASE errand' = [errand EXCEPT ![e].turn = @ + 1]
        <2> DEFINE n == errand[e].turn + 1
                   x == [errand[e] EXCEPT !.turn = n]
        <2>0. n \in Nat
            BY <1>0 DEF ErrandState
        <2>1. errand' = [errand EXCEPT ![e] = x]
            BY <1>0, <1>3
        <2> HIDE DEF n
        <2>2. /\ x \in ErrandState /\ x.pc = errand[e].pc /\ x.browser = errand[e].browser /\ x.skip = errand[e].skip
              /\ x.task = errand[e].task /\ x.people = errand[e].people
              /\ x.posts = errand[e].posts /\ x.contact = errand[e].contact /\ x.drafted = errand[e].drafted
            BY <1>0, <2>0 DEF ErrandState
        <2> HIDE DEF x
        <2>3. ErrandOK(x) /\ Searched(x, e \in walled')
            BY <1>0, <2>2 DEF ErrandOK, Searched
        <2> QED
            BY <1>0, <2>2, <2>1, <2>3, ErrandGoesOn
    <1> QED
        BY <1>1, <1>2, <1>3 DEF CountMembers, ClickShowMore

LEMMA CardsAreLists == \A cards \in Cards : cards \in Seq(Person) /\ Distinct(cards)
    <1> SUFFICES ASSUME NEW cards \in Cards PROVE cards \in Seq(Person) /\ Distinct(cards)
        OBVIOUS
    <1>1. PICK n \in 0..Cardinality(Person) : cards \in [1..n -> Person]
        BY DEF Cards
    <1>2. n \in Nat
        BY ContactAssumption, FS_CardinalityType DEF ContactAssumption
    <1> QED
        BY <1>1, <1>2 DEF Cards, Distinct

LEMMA PeopleRead == \A e \in Errand : ContactInv /\ ReadPeople(e) => ContactInv'
    <1> SUFFICES ASSUME NEW e \in Errand, ContactInv, ReadPeople(e) PROVE ContactInv'
        OBVIOUS
    <1>0. /\ errand[e].pc = "read" /\ errand[e].task = "people" /\ UNCHANGED walled
          /\ errand \in [Errand -> ErrandState] /\ errand[e] \in ErrandState /\ ErrandOK(errand[e])
          /\ walled \subseteq Errand
        BY ErrandTypes DEF ReadPeople, Doing
    <1>1. PICK cards \in Cards : errand' = [errand EXCEPT ![e].pc = "close", ![e].people = cards]
        BY DEF ReadPeople
    <1>2. cards \in Seq(Person) /\ Distinct(cards)
        BY CardsAreLists
    <1> DEFINE x == [errand[e] EXCEPT !.pc = "close", !.people = cards]
    <1>3. /\ x \in ErrandState /\ x.pc = "close" /\ x.browser = errand[e].browser /\ x.skip = errand[e].skip
          /\ x.task = errand[e].task /\ x.turn = errand[e].turn /\ x.people = cards
          /\ x.posts = errand[e].posts /\ x.contact = errand[e].contact /\ x.drafted = errand[e].drafted
        BY <1>0, <1>2 DEF ErrandState
    <1>4. errand' = [errand EXCEPT ![e] = x]
        BY <1>0, <1>1
    <1> HIDE DEF x
    <1>5. ErrandOK(x) /\ Searched(x, e \in walled')
        BY <1>0, <1>2, <1>3 DEF ErrandOK, Searched
    <1> QED
        BY <1>0, <1>3, <1>4, <1>5, ErrandGoesOn

LEMMA PostsRead == \A e \in Errand : ContactInv /\ ReadPosts(e) => ContactInv'
    <1> SUFFICES ASSUME NEW e \in Errand, ContactInv, ReadPosts(e) PROVE ContactInv'
        OBVIOUS
    <1>0. /\ errand[e].pc = "work" /\ errand[e].task = "activity" /\ UNCHANGED walled
          /\ errand \in [Errand -> ErrandState] /\ errand[e] \in ErrandState /\ ErrandOK(errand[e])
          /\ walled \subseteq Errand /\ errand[e].posts \subseteq Snippet
        BY ErrandTypes DEF ReadPosts, Doing, ErrandState
    <1>1. PICK batch \in SUBSET Snippet : \E p \in {"close", "work"} : \E taken \in SUBSET (errand[e].posts \cup batch) :
            /\ Cardinality(taken) = Quota(Cardinality(errand[e].posts \cup batch))
            /\ errand' = [errand EXCEPT ![e].posts = taken, ![e].pc = p, ![e].turn = @ + 1]
        <2>1. PICK batch \in SUBSET Snippet, atEnd \in BOOLEAN :
                \E taken \in SUBSET (errand[e].posts \cup batch) :
                  LET all == errand[e].posts \cup batch
                      enough == Cardinality(taken) >= MaxSnippets
                      last == (atEnd /\ errand[e].turn > LastShortRound) \/ errand[e].turn + 1 = MaxRounds
                  IN /\ errand[e].posts \subseteq taken
                     /\ Cardinality(taken) = Quota(Cardinality(all))
                     /\ errand' = [errand EXCEPT ![e].posts = taken,
                                                 ![e].pc = IF enough \/ last THEN "close" ELSE "work",
                                                 ![e].turn = @ + 1]
            BY DEF ReadPosts
        <2>2. PICK taken \in SUBSET (errand[e].posts \cup batch) :
                LET all == errand[e].posts \cup batch
                    enough == Cardinality(taken) >= MaxSnippets
                    last == (atEnd /\ errand[e].turn > LastShortRound) \/ errand[e].turn + 1 = MaxRounds
                IN /\ errand[e].posts \subseteq taken
                   /\ Cardinality(taken) = Quota(Cardinality(all))
                   /\ errand' = [errand EXCEPT ![e].posts = taken,
                                               ![e].pc = IF enough \/ last THEN "close" ELSE "work",
                                               ![e].turn = @ + 1]
            BY <2>1
        <2> QED
            BY <2>2
    <1>2. PICK p \in {"close", "work"}, taken \in SUBSET (errand[e].posts \cup batch) :
            /\ Cardinality(taken) = Quota(Cardinality(errand[e].posts \cup batch))
            /\ errand' = [errand EXCEPT ![e].posts = taken, ![e].pc = p, ![e].turn = @ + 1]
        BY <1>1
    <1>3. taken \subseteq Snippet /\ Cardinality(taken) <= MaxSnippets
        <2>1. (errand[e].posts \cup batch) \in SUBSET Snippet
            BY <1>0
        <2>2. Cardinality(errand[e].posts \cup batch) \in Nat
            BY <2>1, ContactTypes
        <2> QED
            BY <1>2, <2>1, <2>2, ContactTypes DEF Quota
    <1> DEFINE n == errand[e].turn + 1
               x == [errand[e] EXCEPT !.posts = taken, !.pc = p, !.turn = n]
    <1>4. errand' = [errand EXCEPT ![e] = x] /\ n \in Nat
        BY <1>0, <1>2 DEF ErrandState
    <1> HIDE DEF n
    <1>5. /\ x \in ErrandState /\ x.pc = p /\ x.browser = errand[e].browser /\ x.skip = errand[e].skip
          /\ x.task = errand[e].task /\ x.people = errand[e].people
          /\ x.posts = taken /\ x.contact = errand[e].contact /\ x.drafted = errand[e].drafted
        BY <1>0, <1>3, <1>4 DEF ErrandState
    <1> HIDE DEF x
    <1>6. ErrandOK(x) /\ Searched(x, e \in walled')
        BY <1>0, <1>3, <1>5 DEF ErrandOK, Searched
    <1> QED
        BY <1>0, <1>5, <1>4, <1>6, ErrandGoesOn

\* What a page adds to a list of people is new.
LEMMA UnseenAreNew ==
    ASSUME NEW people \in Seq(Person), Distinct(people), NEW cards \in Cards
    PROVE  TakeUnseen(people, cards) \in Seq(Person) /\ Distinct(TakeUnseen(people, cards))
    <1> DEFINE I == {i \in DOMAIN cards : \A j \in DOMAIN people : people[j] # cards[i]}
               new == Picked(cards, I)
    <1>0. cards \in Seq(Person) /\ Distinct(cards) /\ I \in SUBSET DOMAIN cards
        BY CardsAreLists
    <1>1. /\ new \in Seq(Person)
          /\ \A n \in DOMAIN new : \E i \in I : new[n] = cards[i]
          /\ (\A i, j \in I : cards[i] = cards[j] => i = j) => \A m, n \in DOMAIN new : new[m] = new[n] => m = n
        BY <1>0, PickedInSeq
    <1>2. Distinct(new)
        BY <1>0, <1>1 DEF Distinct
    <1>3. \A j \in DOMAIN people, n \in DOMAIN new : people[j] # new[n]
        BY <1>1
    <1>4. TakeUnseen(people, cards) = people \o new
        BY DEF TakeUnseen
    <1> HIDE DEF I, new
    <1> QED
        BY <1>1, <1>2, <1>3, <1>4, JoinedDistinct

LEMMA ResultsRead == \A e \in Errand : ContactInv /\ ReadResults(e) => ContactInv'
    <1> SUFFICES ASSUME NEW e \in Errand, ContactInv, ReadResults(e) PROVE ContactInv'
        OBVIOUS
    <1>0. /\ errand[e].pc = "work" /\ errand[e].task = "search" /\ UNCHANGED walled
          /\ errand \in [Errand -> ErrandState] /\ errand[e] \in ErrandState /\ ErrandOK(errand[e])
          /\ walled \subseteq Errand /\ errand[e].people \in Seq(Person) /\ errand[e].turn \in Nat
        BY ErrandTypes DEF ReadResults, Doing, ErrandState
    <1> DEFINE p == IF errand[e].turn < PageLimit THEN "next" ELSE "close"
    <1>1. PICK cards \in Cards :
            errand' = [errand EXCEPT ![e].people = TakeUnseen(@, cards), ![e].pc = p]
        BY DEF ReadResults
    <1> DEFINE all == TakeUnseen(errand[e].people, cards)
               x == [errand[e] EXCEPT !.people = all, !.pc = p]
    <1>2. errand' = [errand EXCEPT ![e] = x]
        BY <1>0, <1>1
    <1>3. all \in Seq(Person) /\ Distinct(all)
        BY <1>0, UnseenAreNew DEF ErrandOK
    <1>4. /\ p \in {"next", "close"} /\ (p = "next" => errand[e].turn < PageLimit)
          /\ p = "close" => errand[e].turn = PageLimit
        <2>1. errand[e].turn <= PageLimit
            BY <1>0 DEF ErrandOK
        <2> QED
            BY <1>0, <2>1, ContactTypes
    <1> HIDE DEF all, p
    <1>5. /\ x \in ErrandState /\ x.pc = p /\ x.browser = errand[e].browser /\ x.skip = errand[e].skip
          /\ x.task = errand[e].task /\ x.turn = errand[e].turn /\ x.people = all
          /\ x.posts = errand[e].posts /\ x.contact = errand[e].contact /\ x.drafted = errand[e].drafted
        BY <1>0, <1>3, <1>4 DEF ErrandState
    <1> HIDE DEF x
    <1>6. ErrandOK(x) /\ Searched(x, e \in walled')
        BY <1>0, <1>3, <1>4, <1>5 DEF ErrandOK, Searched
    <1> QED
        BY <1>0, <1>2, <1>4, <1>5, <1>6, ErrandGoesOn

LEMMA PageTurned == \A e \in Errand : ContactInv /\ NextPage(e) => ContactInv'
    <1> SUFFICES ASSUME NEW e \in Errand, ContactInv, NextPage(e) PROVE ContactInv'
        OBVIOUS
    <1>0. /\ errand[e].pc = "next" /\ errand[e].task = "search" /\ UNCHANGED walled
          /\ errand \in [Errand -> ErrandState] /\ errand[e] \in ErrandState /\ ErrandOK(errand[e])
          /\ walled \subseteq Errand /\ errand[e].turn \in Nat
        BY ErrandTypes DEF NextPage, Doing, ErrandState
    <1> DEFINE n == errand[e].turn + 1
               x == [errand[e] EXCEPT !.pc = "goto", !.turn = n]
    <1>1. errand' = [errand EXCEPT ![e] = x]
        BY <1>0 DEF NextPage
    <1>2. n \in Nat /\ n <= PageLimit
        <2>1. errand[e].turn < PageLimit
            BY <1>0 DEF ErrandOK
        <2> QED
            BY <1>0, <2>1, ContactTypes
    <1> HIDE DEF n
    <1>3. /\ x \in ErrandState /\ x.pc = "goto" /\ x.browser = errand[e].browser /\ x.skip = errand[e].skip
          /\ x.task = errand[e].task /\ x.turn = n /\ x.people = errand[e].people
          /\ x.posts = errand[e].posts /\ x.contact = errand[e].contact /\ x.drafted = errand[e].drafted
        BY <1>0, <1>2 DEF ErrandState
    <1> HIDE DEF x
    <1>4. ErrandOK(x) /\ Searched(x, e \in walled')
        BY <1>0, <1>2, <1>3 DEF ErrandOK, Searched
    <1> QED
        BY <1>0, <1>1, <1>3, <1>4, ErrandGoesOn

LEMMA AnythingFails == \A e \in Errand : ContactInv /\ FailErrand(e) => ContactInv'
    <1> SUFFICES ASSUME NEW e \in Errand, ContactInv, FailErrand(e) PROVE ContactInv'
        OBVIOUS
    <1>0. /\ errand[e].pc \in {"open", "goto", "login", "work", "click", "read", "next"}
          /\ UNCHANGED walled
          /\ errand \in [Errand -> ErrandState] /\ errand[e] \in ErrandState /\ ErrandOK(errand[e])
          /\ walled \subseteq Errand /\ errand[e].skip \in Skip
        BY ErrandTypes DEF FailErrand, ErrandState
    <1>1. [errand[e] EXCEPT !.pc = "close", !.skip = errand[e].skip, !.failed = TRUE]
            = [errand[e] EXCEPT !.pc = "close", !.failed = TRUE]
        BY <1>0 DEF ErrandState
    <1>2. errand' = [errand EXCEPT ![e] = [errand[e] EXCEPT !.pc = "close", !.skip = errand[e].skip, !.failed = TRUE]]
        BY <1>0, <1>1 DEF FailErrand
    <1>3. errand[e].skip = ""
        BY <1>0 DEF ErrandOK
    <1> QED
        BY <1>0, <1>2, <1>3, ErrandTurnsTo

LEMMA NothingYet == <<>> \in Seq(Person) /\ Distinct(<<>>) /\ Cardinality({}) <= MaxSnippets
    <1>1. Cardinality({}) = 0
        BY FS_EmptySet
    <1>2. Cardinality({}) <= MaxSnippets
        BY <1>1, ContactTypes
    <1>3. Distinct(<<>>)
        BY DEF Distinct
    <1>4. <<>> \in Seq(Person)
        OBVIOUS
    <1> QED
        BY <1>2, <1>3, <1>4

\* What an outreach leaves behind says no more than its task did.
LEMMA ResultOK ==
    \A y \in ErrandState :
      /\ ~ y.browser /\ y.task # "search" /\ (y.task = "activity" => y.skip = "")
      /\ y.task # "activity" => y.contact = {} /\ ~ y.drafted
      => Result(y) \in ErrandState /\ ErrandOK(Result(y)) /\ ~ Result(y).browser
           /\ Result(y).pc = "over" /\ Result(y).task = y.task
    <1> SUFFICES ASSUME NEW y \in ErrandState, ~ y.browser, y.task # "search", y.task = "activity" => y.skip = "",
                        y.task # "activity" => y.contact = {} /\ ~ y.drafted
                 PROVE  Result(y) \in ErrandState /\ ErrandOK(Result(y)) /\ ~ Result(y).browser
                          /\ Result(y).pc = "over" /\ Result(y).task = y.task
        OBVIOUS
    <1> DEFINE x == Result(y)
    <1>1. /\ x \in ErrandState /\ x.pc = "over" /\ x.browser = y.browser /\ x.skip = y.skip /\ x.task = y.task
          /\ x.people = <<>> /\ x.posts = {} /\ x.contact = y.contact /\ x.drafted = y.drafted
        BY NothingYet DEF ErrandState, Result
    <1> HIDE DEF x
    <1>2. ErrandOK(x)
        <2>1. Distinct(x.people) /\ Cardinality(x.posts) <= MaxSnippets
            BY <1>1, NothingYet
        <2> QED
            BY <1>1, <2>1 DEF ErrandOK
    <1> QED
        BY <1>1, <1>2 DEF x

LEMMA ErrandCloses == \A e \in Errand : ContactInv /\ CloseErrand(e) => ContactInv'
    <1> SUFFICES ASSUME NEW e \in Errand, ContactInv, CloseErrand(e) PROVE ContactInv'
        OBVIOUS
    <1> DEFINE y == [errand[e] EXCEPT !.browser = FALSE]
    <1>0. /\ errand[e].pc = "close" /\ UNCHANGED walled
          /\ errand \in [Errand -> ErrandState] /\ errand[e] \in ErrandState /\ ErrandOK(errand[e])
          /\ walled \subseteq Errand /\ Searched(errand[e], e \in walled) /\ errand[e].task \in Task
        BY ErrandTypes DEF CloseErrand, ErrandAt, ErrandState
    <1>1. /\ y \in ErrandState /\ y.pc = "close" /\ ~ y.browser /\ y.skip = errand[e].skip
          /\ y.task = errand[e].task /\ y.turn = errand[e].turn /\ y.people = errand[e].people
          /\ y.posts = errand[e].posts /\ y.contact = errand[e].contact /\ y.drafted = errand[e].drafted
          /\ y.failed = errand[e].failed
        BY <1>0 DEF ErrandState
    <1>2. ASSUME NEW x \in ErrandState, errand' = [errand EXCEPT ![e] = x], ErrandOK(x), ~ x.browser,
                 Searched(x, e \in walled)
          PROVE  ContactInv'
        <2>1. ErrandMoves(e, x)
            BY <1>0, <1>2 DEF ErrandMoves
        <2> QED
            BY <1>0, <1>2, <2>1, MovedErrand
    <1> DEFINE z == CASE y.task = "people"   -> AfterPeople(y)
                      [] y.task = "activity" -> IF y.failed THEN Result([y EXCEPT !.contact = {}])
                                                ELSE [y EXCEPT !.pc = "draft"]
                      [] y.task = "search"   -> [y EXCEPT !.pc = "over"]
    <1>3. errand' = [errand EXCEPT ![e] = z]
        BY DEF CloseErrand
    <1> HIDE DEF y
    <1>4. CASE y.task = "search"
        <2>1. z = [y EXCEPT !.pc = "over"]
            BY <1>4
        <2> DEFINE x == [y EXCEPT !.pc = "over"]
        <2>2. /\ x \in ErrandState /\ x.pc = "over" /\ ~ x.browser /\ x.skip = y.skip
              /\ x.task = y.task /\ x.turn = y.turn /\ x.people = y.people
              /\ x.posts = y.posts /\ x.contact = y.contact /\ x.drafted = y.drafted /\ x.failed = y.failed
            BY <1>1 DEF ErrandState
        <2> HIDE DEF x, z
        <2>3. ErrandOK(x) /\ Searched(x, e \in walled)
            BY <1>0, <1>1, <2>2 DEF ErrandOK, Searched
        <2>4. errand' = [errand EXCEPT ![e] = x]
            BY <1>3, <2>1 DEF x
        <2> QED
            BY <1>2, <2>2, <2>3, <2>4
    <1>5. CASE y.task = "activity"
        <2>1. CASE y.failed
            <3> DEFINE w == [y EXCEPT !.contact = {}]
            <3>1. z = Result(w)
                BY <1>5, <2>1
            <3>2. w \in ErrandState /\ ~ w.browser /\ w.task = y.task /\ w.skip = y.skip
                BY <1>1 DEF ErrandState
            <3> HIDE DEF w, z
            <3>3. /\ Result(w) \in ErrandState /\ ErrandOK(Result(w)) /\ ~ Result(w).browser
                  /\ Result(w).pc = "over" /\ Result(w).task = y.task
                <4>1. w.task = "activity" /\ w.skip = ""
                    BY <1>0, <1>1, <1>5, <3>2 DEF ErrandOK
                <4> QED
                    BY <3>2, <4>1, ResultOK
            <3>4. Searched(Result(w), e \in walled)
                BY <1>5, <3>3 DEF Searched
            <3> QED
                BY <1>2, <1>3, <3>1, <3>3, <3>4
        <2>2. CASE ~ y.failed
            <3> DEFINE x == [y EXCEPT !.pc = "draft"]
            <3>1. z = x
                BY <1>5, <2>2
            <3>2. /\ x \in ErrandState /\ x.pc = "draft" /\ ~ x.browser /\ x.skip = y.skip
                  /\ x.task = y.task /\ x.turn = y.turn /\ x.people = y.people
                  /\ x.posts = y.posts /\ x.contact = y.contact /\ x.drafted = y.drafted
                BY <1>1 DEF ErrandState
            <3> HIDE DEF x, z
            <3>3. ErrandOK(x) /\ Searched(x, e \in walled)
                BY <1>0, <1>1, <1>5, <3>2 DEF ErrandOK, Searched
            <3> QED
                BY <1>2, <1>3, <3>1, <3>2, <3>3
        <2> QED
            BY <2>1, <2>2
    <1>6. CASE y.task = "people"
        <2>1. z = AfterPeople(y)
            BY <1>6
        <2> HIDE DEF z
        <2>2. CASE y.failed \/ y.skip # ""
            <3>1. z = Result(y)
                BY <2>1, <2>2 DEF AfterPeople
            <3>2. /\ Result(y) \in ErrandState /\ ErrandOK(Result(y)) /\ ~ Result(y).browser
                  /\ Result(y).pc = "over" /\ Result(y).task = y.task
                <4>1. y.task # "search" /\ y.task # "activity" /\ y.contact = {} /\ ~ y.drafted
                    BY <1>0, <1>1, <1>6 DEF ErrandOK
                <4> QED
                    BY <1>1, <4>1, ResultOK
            <3>3. Searched(Result(y), e \in walled)
                BY <1>6, <3>2 DEF Searched
            <3> QED
                BY <1>2, <1>3, <3>1, <3>2, <3>3
        <2>3. CASE ~ (y.failed \/ y.skip # "") /\ y.people = <<>>
            <3> DEFINE w == [y EXCEPT !.skip = "no_profiles_found"]
            <3>1. z = Result(w)
                BY <2>1, <2>3 DEF AfterPeople
            <3>2. /\ w \in ErrandState /\ ~ w.browser /\ w.task = y.task /\ w.contact = y.contact
                  /\ w.drafted = y.drafted
                BY <1>1 DEF ErrandState, Skip
            <3> HIDE DEF w
            <3>3. /\ Result(w) \in ErrandState /\ ErrandOK(Result(w)) /\ ~ Result(w).browser
                  /\ Result(w).pc = "over" /\ Result(w).task = y.task
                <4>1. w.task # "search" /\ w.task # "activity" /\ w.contact = {} /\ ~ w.drafted
                    BY <1>0, <1>1, <1>6, <3>2 DEF ErrandOK
                <4> QED
                    BY <3>2, <4>1, ResultOK
            <3>4. Searched(Result(w), e \in walled)
                BY <1>6, <3>3 DEF Searched
            <3> QED
                BY <1>2, <1>3, <3>1, <3>3, <3>4
        <2>4. CASE ~ (y.failed \/ y.skip # "") /\ y.people # <<>>
            <3> DEFINE x == [y EXCEPT !.pc = "pick"]
            <3>1. z = x
                BY <2>1, <2>4 DEF AfterPeople
            <3>2. /\ x \in ErrandState /\ x.pc = "pick" /\ ~ x.browser /\ x.skip = y.skip
                  /\ x.task = y.task /\ x.turn = y.turn /\ x.people = y.people
                  /\ x.posts = y.posts /\ x.contact = y.contact /\ x.drafted = y.drafted
                BY <1>1 DEF ErrandState
            <3> HIDE DEF x
            <3>3. ErrandOK(x) /\ Searched(x, e \in walled)
                BY <1>0, <1>1, <1>6, <2>4, <3>2 DEF ErrandOK, Searched
            <3> QED
                BY <1>2, <1>3, <3>1, <3>2, <3>3
        <2> QED
            BY <2>2, <2>3, <2>4
    <1> QED
        BY <1>0, <1>1, <1>4, <1>5, <1>6 DEF Task

LEMMA ProfilePicked == \A e \in Errand : ContactInv /\ PickProfile(e) => ContactInv'
    <1> SUFFICES ASSUME NEW e \in Errand, ContactInv, PickProfile(e) PROVE ContactInv'
        OBVIOUS
    <1>0. /\ errand[e].pc = "pick" /\ UNCHANGED walled
          /\ errand \in [Errand -> ErrandState] /\ errand[e] \in ErrandState /\ ErrandOK(errand[e])
          /\ walled \subseteq Errand /\ errand[e].people \in Seq(Person)
        BY ErrandTypes DEF PickProfile, ErrandAt, ErrandState
    <1>1. PICK i \in DOMAIN errand[e].people :
            errand' = [errand EXCEPT ![e].pc = "open", ![e].task = "activity", ![e].turn = 0,
                                     ![e].people = <<>>, ![e].contact = {errand[e].people[i]}]
        BY DEF PickProfile
    <1> DEFINE c == {errand[e].people[i]}
               x == [errand[e] EXCEPT !.pc = "open", !.task = "activity", !.turn = 0, !.people = <<>>, !.contact = c]
    <1>2. errand' = [errand EXCEPT ![e] = x]
        BY <1>0, <1>1
    <1>3. c \subseteq Person /\ <<>> \in Seq(Person)
        BY <1>0
    <1> HIDE DEF c
    <1>4. /\ x \in ErrandState /\ x.pc = "open" /\ x.browser = errand[e].browser /\ x.skip = errand[e].skip
          /\ x.task = "activity" /\ x.people = <<>> /\ x.posts = errand[e].posts
        BY <1>0, <1>3 DEF ErrandState, Task
    <1> HIDE DEF x
    <1>5. ErrandOK(x) /\ Searched(x, e \in walled')
        <2>1. Distinct(x.people)
            BY <1>4 DEF Distinct
        <2> QED
            BY <1>0, <1>4, <2>1 DEF ErrandOK, Searched
    <1> QED
        BY <1>0, <1>2, <1>4, <1>5, ErrandGoesOn

LEMMA MessageDrafted == \A e \in Errand : ContactInv /\ DraftMessage(e) => ContactInv'
    <1> SUFFICES ASSUME NEW e \in Errand, ContactInv, DraftMessage(e) PROVE ContactInv'
        OBVIOUS
    <1>0. /\ errand[e].pc = "draft" /\ UNCHANGED walled
          /\ errand \in [Errand -> ErrandState] /\ errand[e] \in ErrandState /\ ErrandOK(errand[e])
          /\ walled \subseteq Errand
        BY ErrandTypes DEF DraftMessage, ErrandAt
    <1> DEFINE y == [errand[e] EXCEPT !.drafted = TRUE]
    <1>1. errand' = [errand EXCEPT ![e] = Result(y)]
        BY DEF DraftMessage
    <1>2. y \in ErrandState /\ y.browser = errand[e].browser /\ y.task = errand[e].task /\ y.skip = errand[e].skip
        BY <1>0 DEF ErrandState
    <1> HIDE DEF y
    <1>3. ~ y.browser /\ y.task = "activity" /\ y.skip = ""
        BY <1>0, <1>2 DEF ErrandOK
    <1>4. /\ Result(y) \in ErrandState /\ ErrandOK(Result(y)) /\ ~ Result(y).browser
          /\ Result(y).pc = "over" /\ Result(y).task = "activity"
        BY <1>2, <1>3, ResultOK
    <1>5. Searched(Result(y), e \in walled')
        BY <1>4 DEF Searched
    <1>6. Result(y).browser = errand[e].browser
        <2>1. Result(y).browser = y.browser
            BY <1>2 DEF Result, ErrandState
        <2> QED
            BY <1>2, <2>1
    <1> QED
        BY <1>0, <1>1, <1>4, <1>5, <1>6, ErrandGoesOn

LEMMA ContactStep == ContactInv /\ [ContactNext]_contactVars => ContactInv'
    <1> SUFFICES ASSUME ContactInv, [ContactNext]_contactVars PROVE ContactInv'
        OBVIOUS
    <1>1. ASSUME NEW e \in Errand, RunOutreach(e) \/ RunSearch(e) \/ ErrandStep(e) PROVE ContactInv'
        <2>1. CASE RunOutreach(e) \/ RunSearch(e)
            BY <2>1, ErrandStarts
        <2>2. CASE OpenBrowser(e)
            BY <2>2, BrowserOpens
        <2>3. CASE GotoPage(e)
            BY <2>3, PageVisited
        <2>4. CASE SignIn(e)
            BY <2>4, SignsIn
        <2>5. CASE CountMembers(e) \/ ClickShowMore(e)
            BY <2>5, PeopleCounted
        <2>6. CASE ReadPeople(e)
            BY <2>6, PeopleRead
        <2>7. CASE ReadPosts(e)
            BY <2>7, PostsRead
        <2>8. CASE ReadResults(e)
            BY <2>8, ResultsRead
        <2>9. CASE NextPage(e)
            BY <2>9, PageTurned
        <2>10. CASE CloseErrand(e)
            BY <2>10, ErrandCloses
        <2>11. CASE PickProfile(e)
            BY <2>11, ProfilePicked
        <2>12. CASE DraftMessage(e)
            BY <2>12, MessageDrafted
        <2>13. CASE FailErrand(e)
            BY <2>13, AnythingFails
        <2> QED
            BY <1>1, <2>1, <2>2, <2>3, <2>4, <2>5, <2>6, <2>7, <2>8, <2>9, <2>10, <2>11, <2>12, <2>13 DEF ErrandStep
    <1>3. CASE UNCHANGED contactVars
        BY <1>3 DEF contactVars, ContactInv, ContactTypeOK
    <1> QED
        BY <1>1, <1>3 DEF ContactNext

LEMMA ContactInvImplies == ContactInv => ErrandsAreSound
    <1> SUFFICES ASSUME ContactInv PROVE ErrandsAreSound
        OBVIOUS
    <1>1. ContactTypeOK /\ \A e \in Errand : ErrandOK(errand[e]) /\ Searched(errand[e], e \in walled)
        BY DEF ContactInv
    <1>2. BrowserReleased
        BY <1>1 DEF BrowserReleased, ErrandOK
    <1>3. SkippedReportsNothing
        BY <1>1 DEF SkippedReportsNothing, ErrandOK
    <1>5. SearchIsWhole
        BY <1>1 DEF SearchIsWhole, Searched, Doing
    <1>6. PeopleListedOnce
        BY <1>1 DEF PeopleListedOnce, ErrandOK, Distinct
    <1> QED
        BY <1>1, <1>2, <1>3, <1>5, <1>6 DEF ErrandsAreSound

\* However many errands there are, and with a persistent profile or without
\* one: however an outreach or a search ends, its browser is closed; what is
\* skipped reports neither a contact nor a message; a search that gives no reason
\* has seen every page, failed, or was shut out with people in hand, and one that
\* gives a reason has nobody; and nobody is listed twice.
THEOREM ErrandsAreKept == ContactSpec => []ErrandsAreSound
    <1>1. ContactInit => ContactInv
        BY InitContact
    <1>2. ContactInv /\ [ContactNext]_contactVars => ContactInv'
        BY ContactStep
    <1>3. ContactInv => ErrandsAreSound
        BY ContactInvImplies
    <1> QED
        BY <1>1, <1>2, <1>3, PTL DEF ContactSpec
=============================================================================
