--------------------------- MODULE ListOrderProofs ---------------------------
(***************************************************************************)
(* The order of a SELECT and the page that LIMIT and OFFSET cut out of it, *)
(* proved for any table, any sorts, any plan and any number of rows.       *)
(***************************************************************************)
EXTENDS ListQuery, EventCategoriesProofs, FiniteSetTheorems,
        WellFoundedInduction, TLAPS

\* Whatever matches a query is a set of ids, and a finite one.
LEMMA MatchingFinite ==
  ASSUME NEW t, NEW o
  PROVE  /\ Matching(t, o) \subseteq Ids
         /\ IsFiniteSet(Matching(t, o))
         /\ Cardinality(Matching(t, o)) \in Nat
<1>1. Matching(t, o) \subseteq Ids
  BY DEF Matching
<1> QED
  BY <1>1, IdsAssumption, FS_Subset, FS_CardinalityType

-----------------------------------------------------------------------------
(* Keys.                                                                   *)

Table(t) == t \in [Ids -> EventCategory \cup {None}]

\* Sorts that the parser let through.
Sorts(sorts) ==
    /\ Len(sorts) \in Nat /\ DOMAIN sorts = 1..Len(sorts)
    /\ \A i \in DOMAIN sorts : /\ sorts[i].field \in Columns
                               /\ sorts[i].direction \in {"ASC", "DESC"}

\* What the assumption says of the places of values.
LEMMA PlacesOfValues ==
  ASSUME NEW c \in Columns, NEW v \in ValuesOf(c)
  PROVE  Collation[c][v] \in Int
  BY CollationAssumption

\* A row that exists has a place in the order of every column.
LEMMA KeyType ==
  ASSUME NEW t, Table(t), NEW x \in Ids, t[x] # None, NEW c \in Columns
  PROVE  Key(t, x, c) \in Int
<1>1. t[x] \in EventCategory
  BY DEF Table
<1>2. c \in {"id", "source", "tenant_id", "name", "created_at", "updated_at"}
  BY DEF Columns, eventCategoryListConfig
<1>3. (IF c = "id" THEN x ELSE t[x][c]) \in ValuesOf(c)
  BY <1>1, <1>2 DEF EventCategory, ValuesOf
<1> QED
  BY <1>3, PlacesOfValues DEF Key

\* Of two rows that exist and differ in a column, one comes first.
LEMMA OneComes ==
  ASSUME NEW t, Table(t), NEW x \in Ids, t[x] # None, NEW y \in Ids, t[y] # None,
         NEW s, s.field \in Columns, s.direction \in {"ASC", "DESC"}
  PROVE  Comes(t, s, x, y) \/ Comes(t, s, y, x) \/ Same(t, s, x, y)
<1>1. Key(t, x, s.field) \in Int /\ Key(t, y, s.field) \in Int
  BY KeyType
<1> QED
  BY <1>1 DEF Comes, Same

-----------------------------------------------------------------------------
(* Before is a strict total order on the rows that exist.                  *)

\* Some sort is the first on which two rows differ.
LEMMA FirstDifference ==
  ASSUME NEW t, NEW sorts, Sorts(sorts), NEW x, NEW y,
         \E i \in DOMAIN sorts : ~Same(t, sorts[i], x, y)
  PROVE  \E i \in DOMAIN sorts :
            /\ ~Same(t, sorts[i], x, y)
            /\ \A j \in 1..(i - 1) : Same(t, sorts[j], x, y)
<1> DEFINE T == {i \in DOMAIN sorts : ~Same(t, sorts[i], x, y)}
<1>1. T \subseteq Nat /\ T # {}
  BY DEF Sorts
<1>2. PICK i \in T : \A j \in T : ~(<<j, i>> \in OpToRel(<, Nat))
  BY <1>1, WFMin, NatLessThanWellFounded
<1>3. ASSUME NEW j \in 1..(i - 1) PROVE Same(t, sorts[j], x, y)
  <2>1. j \in DOMAIN sorts /\ j \in Nat /\ i \in Nat /\ j < i
    BY <1>1, <1>3 DEF Sorts
  <2>2. <<j, i>> \in OpToRel(<, Nat)
    BY <2>1 DEF OpToRel
  <2> QED
    BY <1>2, <2>1, <2>2
<1> QED
  BY <1>2, <1>3

\* Of two rows one is before the other.
LEMMA BeforeTotal ==
  ASSUME NEW t, Table(t), NEW sorts, Sorts(sorts), NEW plan \in Plans,
         NEW x \in Ids, t[x] # None, NEW y \in Ids, t[y] # None, x # y
  PROVE  Before(t, sorts, plan, x, y) \/ Before(t, sorts, plan, y, x)
<1>1. CASE \E i \in DOMAIN sorts : ~Same(t, sorts[i], x, y)
  <2>1. PICK i \in DOMAIN sorts :
            /\ ~Same(t, sorts[i], x, y)
            /\ \A j \in 1..(i - 1) : Same(t, sorts[j], x, y)
    BY <1>1, FirstDifference
  <2>2. Comes(t, sorts[i], x, y) \/ Comes(t, sorts[i], y, x)
    BY <2>1, OneComes DEF Sorts
  <2>3. \A j \in 1..(i - 1) : Same(t, sorts[j], y, x)
    BY <2>1 DEF Same
  <2> QED
    BY <2>1, <2>2, <2>3 DEF Before, Precedes
<1>2. CASE \A i \in DOMAIN sorts : Same(t, sorts[i], x, y)
  <2>1. \A i \in DOMAIN sorts : Same(t, sorts[i], y, x)
    BY <1>2 DEF Same
  <2>2. plan[x] \in Int /\ plan[y] \in Int /\ plan[x] # plan[y]
    BY IdsAssumption, FS_CardinalityType DEF Plans
  <2> QED
    BY <1>2, <2>1, <2>2 DEF Before
<1> QED
  BY <1>1, <1>2

\* No row is before itself.
LEMMA BeforeIrreflexive ==
  ASSUME NEW t, Table(t), NEW sorts, Sorts(sorts), NEW plan \in Plans,
         NEW x \in Ids, t[x] # None
  PROVE  ~Before(t, sorts, plan, x, x)
<1>1. ASSUME NEW i \in DOMAIN sorts PROVE ~Comes(t, sorts[i], x, x)
  <2>1. Key(t, x, sorts[i].field) \in Int
    BY KeyType DEF Sorts
  <2> QED
    BY <2>1 DEF Comes
<1>2. plan[x] \in Int
  BY IdsAssumption, FS_CardinalityType DEF Plans
<1> QED
  BY <1>1, <1>2 DEF Before, Precedes

\* What is before what is before a row is before it.
LEMMA BeforeTransitive ==
  ASSUME NEW t, Table(t), NEW sorts, Sorts(sorts), NEW plan \in Plans,
         NEW x \in Ids, t[x] # None, NEW y \in Ids, t[y] # None,
         NEW z \in Ids, t[z] # None,
         Before(t, sorts, plan, x, y), Before(t, sorts, plan, y, z)
  PROVE  Before(t, sorts, plan, x, z)
<1>1. ASSUME NEW i \in DOMAIN sorts
      PROVE  /\ Same(t, sorts[i], x, y) /\ Same(t, sorts[i], y, z)
                   => Same(t, sorts[i], x, z)
             /\ Comes(t, sorts[i], x, y) /\ Same(t, sorts[i], y, z)
                   => Comes(t, sorts[i], x, z)
             /\ Same(t, sorts[i], x, y) /\ Comes(t, sorts[i], y, z)
                   => Comes(t, sorts[i], x, z)
             /\ Comes(t, sorts[i], x, y) /\ Comes(t, sorts[i], y, z)
                   => Comes(t, sorts[i], x, z)
  <2>1. /\ Key(t, x, sorts[i].field) \in Int
        /\ Key(t, y, sorts[i].field) \in Int
        /\ Key(t, z, sorts[i].field) \in Int
    BY KeyType DEF Sorts
  <2> QED
    BY <2>1 DEF Comes, Same
<1>2. \A i \in DOMAIN sorts : i \in Nat /\ \A j \in 1..(i - 1) : j \in DOMAIN sorts
  BY DEF Sorts
<1>3. CASE Precedes(t, sorts, x, y) /\ Precedes(t, sorts, y, z)
  <2>1. PICK i \in DOMAIN sorts : /\ Comes(t, sorts[i], x, y)
                                  /\ \A j \in 1..(i - 1) : Same(t, sorts[j], x, y)
    BY <1>3 DEF Precedes
  <2>2. PICK k \in DOMAIN sorts : /\ Comes(t, sorts[k], y, z)
                                  /\ \A j \in 1..(k - 1) : Same(t, sorts[j], y, z)
    BY <1>3 DEF Precedes
  <2>3. i \in Nat /\ k \in Nat /\ i >= 1 /\ k >= 1
    BY DEF Sorts
  <2>4. CASE i <= k
    <3>1. \A j \in 1..(i - 1) : Same(t, sorts[j], x, z)
      BY <1>1, <1>2, <2>1, <2>2, <2>3, <2>4
    <3>2. Comes(t, sorts[i], x, z)
      BY <1>1, <2>1, <2>2, <2>3, <2>4
    <3> QED
      BY <3>1, <3>2 DEF Before, Precedes
  <2>5. CASE k < i
    <3>1. \A j \in 1..(k - 1) : Same(t, sorts[j], x, z)
      BY <1>1, <1>2, <2>1, <2>2, <2>3, <2>5
    <3>2. Comes(t, sorts[k], x, z)
      BY <1>1, <2>1, <2>2, <2>3, <2>5
    <3> QED
      BY <3>1, <3>2 DEF Before, Precedes
  <2> QED
    BY <2>3, <2>4, <2>5
<1>4. CASE Precedes(t, sorts, x, y) /\ \A i \in DOMAIN sorts : Same(t, sorts[i], y, z)
  BY <1>1, <1>2, <1>4 DEF Before, Precedes
<1>5. CASE Precedes(t, sorts, y, z) /\ \A i \in DOMAIN sorts : Same(t, sorts[i], x, y)
  BY <1>1, <1>2, <1>5 DEF Before, Precedes
<1>6. CASE /\ \A i \in DOMAIN sorts : Same(t, sorts[i], x, y) /\ Same(t, sorts[i], y, z)
           /\ plan[x] < plan[y] /\ plan[y] < plan[z]
  <2>1. plan[x] \in Int /\ plan[y] \in Int /\ plan[z] \in Int
    BY IdsAssumption, FS_CardinalityType DEF Plans
  <2> QED
    BY <1>1, <1>6, <2>1 DEF Before
<1> QED
  BY <1>3, <1>4, <1>5, <1>6 DEF Before

-----------------------------------------------------------------------------
(* Ranks.  A row's rank is the number of rows before it; the ranks of n    *)
(* rows are the numbers from 0 to n - 1, one each.                         *)

\* The ranks that a strict total order gives fill an interval.
LEMMA RanksFill ==
  ASSUME NEW S, IsFiniteSet(S), NEW Pred \in [S -> SUBSET S],
         \A x \in S : x \notin Pred[x],
         \A x, y \in S : y \in Pred[x] => Pred[y] \subseteq Pred[x],
         \A x, y \in S : x # y => x \in Pred[y] \/ y \in Pred[x]
  PROVE  [x \in S |-> Cardinality(Pred[x])] \in Bijection(S, 0..(Cardinality(S) - 1))
<1> DEFINE n == Cardinality(S)
           rank == [x \in S |-> Cardinality(Pred[x])]
           I == 0..(n - 1)
<1>1. n \in Nat
  BY FS_CardinalityType
<1>2. ASSUME NEW x \in S
      PROVE  IsFiniteSet(Pred[x]) /\ rank[x] \in Nat
  BY FS_Subset, FS_CardinalityType
<1>3. ASSUME NEW x \in S PROVE rank[x] \in I
  <2>1. Pred[x] \subseteq S /\ Pred[x] # S
    OBVIOUS
  <2>2. Cardinality(Pred[x]) <= n /\ Cardinality(Pred[x]) # n
    BY <2>1, FS_Subset
  <2> QED
    BY <1>1, <1>2, <2>2
<1>4. ASSUME NEW x \in S, NEW y \in S, y \in Pred[x] PROVE rank[y] < rank[x]
  <2>1. Pred[y] \subseteq Pred[x] /\ Pred[y] # Pred[x]
    BY <1>4
  <2>2. Cardinality(Pred[y]) <= Cardinality(Pred[x])
        /\ Cardinality(Pred[y]) # Cardinality(Pred[x])
    BY <1>2, <2>1, FS_Subset
  <2> QED
    BY <1>2, <2>2
<1>5. ASSUME NEW x \in S, NEW y \in S, rank[x] = rank[y] PROVE x = y
  BY <1>2, <1>4, <1>5
<1>6. rank \in Injection(S, I)
  BY <1>3, <1>5 DEF Injection, IsInjective
<1>7. IsFiniteSet(I) /\ Cardinality(I) = n
  BY <1>1, FS_Interval
<1>8. rank \in Surjection(S, I)
  <2> HIDE DEF rank, I, n
  <2> QED
    BY <1>6, <1>7, FS_Injection DEF n
<1> QED
  BY <1>6, <1>8 DEF Bijection

\* What lies in a window of the ranks is as many as the window has in common
\* with the interval.
LEMMA Window ==
  ASSUME NEW S, IsFiniteSet(S), NEW n \in Nat, n = Cardinality(S),
         NEW f \in Bijection(S, 0..(n - 1)), NEW a \in Nat, NEW k \in Nat,
         NEW W, W = {x \in S : a <= f[x] /\ f[x] < a + k}
  PROVE  Cardinality(W) = IF n <= a THEN 0 ELSE IF k < n - a THEN k ELSE n - a
<1> DEFINE top == IF n <= a THEN a ELSE IF k < n - a THEN a + k ELSE n
           J == a..(top - 1)
           g == [x \in W |-> f[x]]
<1>1. /\ \A x \in S : f[x] \in 0..(n - 1)
      /\ \A x, y \in S : f[x] = f[y] => x = y
      /\ \A m \in 0..(n - 1) : \E x \in S : f[x] = m
  BY DEF Bijection, Injection, IsInjective, Surjection
<1>2. top \in Nat
  OBVIOUS
<1>3. \A x \in W : g[x] \in J
  BY <1>1
<1>4. ASSUME NEW m \in J PROVE \E x \in W : g[x] = m
  <2>1. m \in 0..(n - 1) /\ a <= m /\ m < a + k
    BY <1>4
  <2>2. PICK x \in S : f[x] = m
    BY <1>1, <2>1
  <2>3. x \in W
    BY <2>1, <2>2
  <2> QED
    BY <2>2, <2>3
<1>5. g \in Bijection(W, J)
  BY <1>1, <1>3, <1>4 DEF Bijection, Injection, IsInjective, Surjection
<1>6. IsFiniteSet(W) /\ W \subseteq S
  BY FS_Subset
<1>7. Cardinality(J) = Cardinality(W)
  <2> HIDE DEF J, g
  <2> QED
    BY <1>5, <1>6, FS_Bijection DEF ExistsBijection
<1>8. Cardinality(J) = IF a > top - 1 THEN 0 ELSE top - 1 - a + 1
  <2> HIDE DEF top
  <2>1. a \in Int /\ top - 1 \in Int
    BY <1>2
  <2> QED
    BY <2>1, FS_Interval
<1> QED
  BY <1>2, <1>7, <1>8

-----------------------------------------------------------------------------
(* The page.                                                               *)

\* Rows that match exist.
LEMMA MatchingRows ==
  ASSUME NEW t, NEW o, NEW x \in Matching(t, o)
  PROVE  x \in Ids /\ t[x] # None
  BY DEF Matching

\* Each matching row has a rank of its own, from 0 on.
LEMMA RankIsBijection ==
  ASSUME NEW t, Table(t), NEW o, Sorts(o.sorts), NEW plan \in Plans
  PROVE  [x \in Matching(t, o) |-> Rank(t, o, plan, x)] \in
             Bijection(Matching(t, o), 0..(Cardinality(Matching(t, o)) - 1))
<1> DEFINE S == Matching(t, o)
           Pred == [x \in S |-> {y \in S : Before(t, o.sorts, plan, y, x)}]
<1>1. IsFiniteSet(S) /\ \A x \in S : x \in Ids /\ t[x] # None
  BY MatchingFinite, MatchingRows
<1>2. Pred \in [S -> SUBSET S]
  OBVIOUS
<1>3. \A x \in S : x \notin Pred[x]
  BY <1>1, BeforeIrreflexive
<1>4. ASSUME NEW x \in S, NEW y \in S, y \in Pred[x], NEW z \in Pred[y]
      PROVE  z \in Pred[x]
  BY <1>1, <1>4, BeforeTransitive
<1>5. ASSUME NEW x \in S, NEW y \in S, x # y PROVE x \in Pred[y] \/ y \in Pred[x]
  BY <1>1, <1>5, BeforeTotal
<1>6. [x \in S |-> Cardinality(Pred[x])] \in Bijection(S, 0..(Cardinality(S) - 1))
  <2> HIDE DEF S, Pred
  <2> QED
    BY <1>1, <1>2, <1>3, <1>4, <1>5, RanksFill
<1>7. [x \in S |-> Cardinality(Pred[x])] = [x \in S |-> Rank(t, o, plan, x)]
  BY DEF Rank
<1> QED
  BY <1>6, <1>7

\* Ranks are numbers below the number of matching rows, and a row is before
\* another exactly if its rank is lower.
LEMMA RankOrder ==
  ASSUME NEW t, Table(t), NEW o, Sorts(o.sorts), NEW plan \in Plans,
         NEW x \in Matching(t, o), NEW y \in Matching(t, o)
  PROVE  /\ Rank(t, o, plan, x) \in 0..(Cardinality(Matching(t, o)) - 1)
         /\ Before(t, o.sorts, plan, x, y) <=>
                Rank(t, o, plan, x) < Rank(t, o, plan, y)
<1> DEFINE S == Matching(t, o)
           Pred(z) == {w \in S : Before(t, o.sorts, plan, w, z)}
<1>1. \A z \in S : Rank(t, o, plan, z) \in 0..(Cardinality(S) - 1)
  BY RankIsBijection DEF Bijection, Injection
<1>2. ASSUME NEW u \in S, NEW v \in S, Before(t, o.sorts, plan, u, v)
      PROVE  Rank(t, o, plan, u) < Rank(t, o, plan, v)
  <2>1. \A z \in S : z \in Ids /\ t[z] # None
    BY MatchingRows
  <2>2. Pred(u) \subseteq Pred(v)
    BY <1>2, <2>1, BeforeTransitive
  <2>3. u \in Pred(v) /\ u \notin Pred(u)
    BY <1>2, <2>1, BeforeIrreflexive
  <2>4. IsFiniteSet(Pred(v)) /\ IsFiniteSet(Pred(u))
    BY MatchingFinite, FS_Subset
  <2>5. /\ Cardinality(Pred(u)) <= Cardinality(Pred(v))
        /\ Cardinality(Pred(u)) # Cardinality(Pred(v))
    <3> HIDE DEF Pred
    <3> QED
      BY <2>2, <2>3, <2>4, FS_Subset
  <2>6. Cardinality(Pred(u)) \in Nat /\ Cardinality(Pred(v)) \in Nat
    BY <2>4, FS_CardinalityType
  <2> QED
    BY <2>5, <2>6 DEF Rank
<1>3. ASSUME Rank(t, o, plan, x) < Rank(t, o, plan, y)
      PROVE  Before(t, o.sorts, plan, x, y)
  <2>1. Rank(t, o, plan, x) \in Int /\ Rank(t, o, plan, y) \in Int
    BY <1>1
  <2>2. x # y /\ ~Before(t, o.sorts, plan, y, x)
    BY <1>2, <1>3, <2>1
  <2> QED
    BY <2>2, MatchingRows, BeforeTotal
<1> QED
  BY <1>1, <1>2, <1>3

\* What lies in a window of the ranks.
LEMMA RankWindow ==
  ASSUME NEW t, Table(t), NEW o, Sorts(o.sorts), NEW plan \in Plans,
         NEW a \in Nat, NEW k \in Nat
  PROVE  LET n == Cardinality(Matching(t, o)) IN
         Cardinality({x \in Matching(t, o) : /\ a <= Rank(t, o, plan, x)
                                             /\ Rank(t, o, plan, x) < a + k})
             = IF n <= a THEN 0 ELSE IF k < n - a THEN k ELSE n - a
<1> DEFINE S == Matching(t, o)
           n == Cardinality(S)
           f == [x \in S |-> Rank(t, o, plan, x)]
<1>1. IsFiniteSet(S) /\ n \in Nat /\ n = Cardinality(S)
  BY MatchingFinite
<1>2. f \in Bijection(S, 0..(n - 1))
  BY RankIsBijection
<1> DEFINE W == {x \in S : a <= Rank(t, o, plan, x) /\ Rank(t, o, plan, x) < a + k}
<1>3. W = {x \in S : a <= f[x] /\ f[x] < a + k}
  OBVIOUS
<1>4. Cardinality(W) = IF n <= a THEN 0 ELSE IF k < n - a THEN k ELSE n - a
  <2> HIDE DEF f, n, S, W
  <2>1. IsFiniteSet(S) /\ n \in Nat
    BY <1>1
  <2>2. n = Cardinality(S)
    BY <1>1
  <2> QED
    BY <1>2, <1>3, <2>1, <2>2, Window
<1> QED
  BY <1>4

\* A page has as many rows as LIMIT asks for, or as there are from OFFSET on,
\* whatever plan the database has for rows that tie; every row left out and not
\* after the page is one of the OFFSET rows before it.
LEMMA PageIsWindow ==
  ASSUME NEW t, Table(t), NEW o, Sorts(o.sorts), NEW plan \in Plans,
         o.offset \in Nat, o.limit \in Nat
  PROVE  LET n == Cardinality(Matching(t, o))
             page == Selected(t, o, plan)
             left == Matching(t, o) \ page
         IN  /\ page \subseteq Matching(t, o)
             /\ Cardinality(page) = IF n <= o.offset THEN 0
                                    ELSE IF o.limit < n - o.offset THEN o.limit
                                    ELSE n - o.offset
             /\ \A x \in page :
                   /\ Cardinality({y \in left : Precedes(t, o.sorts, y, x)}) <= o.offset
                   /\ Cardinality({y \in left : ~Precedes(t, o.sorts, x, y)}) >= o.offset
<1> DEFINE S == Matching(t, o)
           n == Cardinality(S)
           rank(x) == Rank(t, o, plan, x)
           page == Selected(t, o, plan)
           ahead == {y \in S : 0 <= rank(y) /\ rank(y) < 0 + o.offset}
<1>1. page = {x \in S : o.offset <= rank(x) /\ rank(x) < o.offset + o.limit}
  BY DEF Selected
<1>2. Cardinality(page) = IF n <= o.offset THEN 0
                          ELSE IF o.limit < n - o.offset THEN o.limit
                          ELSE n - o.offset
  BY <1>1, RankWindow
<1>3. Cardinality(ahead) = IF n <= 0 THEN 0
                           ELSE IF o.offset < n - 0 THEN o.offset ELSE n - 0
  <2>1. 0 \in Nat
    OBVIOUS
  <2> QED
    BY <2>1, RankWindow
<1>4. n \in Nat /\ \A x \in S : rank(x) \in Nat /\ rank(x) < n
  BY MatchingFinite, RankOrder
<1>5. IsFiniteSet(S)
  BY MatchingFinite
<1>6. ASSUME NEW x \in page
      PROVE  /\ Cardinality({y \in S \ page : Precedes(t, o.sorts, y, x)}) <= o.offset
             /\ Cardinality({y \in S \ page : ~Precedes(t, o.sorts, x, y)}) >= o.offset
  <2> DEFINE upto == {y \in S \ page : Precedes(t, o.sorts, y, x)}
             from == {y \in S \ page : ~Precedes(t, o.sorts, x, y)}
  <2>1. x \in S /\ o.offset <= rank(x) /\ rank(x) < o.offset + o.limit
    BY <1>1
  <2>2. Cardinality(ahead) = o.offset
    BY <1>3, <1>4, <2>1
  <2>3. ASSUME NEW y \in upto PROVE y \in ahead
    <3>1. y \in S /\ rank(y) < rank(x)
      BY <2>1, RankOrder DEF Before
    <3>2. ~(o.offset <= rank(y) /\ rank(y) < o.offset + o.limit)
      BY <1>1
    <3> QED
      BY <1>4, <2>1, <3>1, <3>2
  <2>4. ASSUME NEW y \in ahead PROVE y \in from
    <3>1. y \in S /\ rank(y) < o.offset /\ y \notin page
      BY <1>1, <1>4
    <3>2. ~Before(t, o.sorts, plan, x, y)
      BY <1>4, <2>1, <3>1, RankOrder
    <3> QED
      BY <3>1, <3>2 DEF Before
  <2>5. IsFiniteSet(ahead) /\ IsFiniteSet(from)
    BY <1>5, FS_Subset
  <2>6. upto \in SUBSET ahead /\ ahead \in SUBSET from
    BY <2>3, <2>4
  <2>7. Cardinality(upto) <= Cardinality(ahead) /\ Cardinality(ahead) <= Cardinality(from)
    <3> HIDE DEF upto, ahead, from
    <3> QED
      BY <2>5, <2>6, FS_Subset
  <2> QED
    BY <2>2, <2>5, <2>7, FS_CardinalityType
<1> QED
  BY <1>1, <1>2, <1>6

=============================================================================
