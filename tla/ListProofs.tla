----------------------------- MODULE ListProofs -----------------------------
(***************************************************************************)
(* What paging through the list promises, proved for any number of rows,   *)
(* any queries, any width of int and any writes of the others.             *)
(***************************************************************************)
EXTENDS ListWalk, ListOrderProofs

\* The width of int, without the rest of the assumptions.
LEMMA WidthFact == MaxInt \in Nat /\ MaxInt >= 100
  BY WidthAssumption DEF DefaultMaxSize

\* Wrap leaves what an int can hold.
LEMMA WrapFits ==
  ASSUME NEW n \in Int, 0 <= n, n <= MaxInt
  PROVE  Wrap(n) = n
<1>1. /\ n + MaxInt + 1 \in Nat
      /\ n + MaxInt + 1 < 2 * (MaxInt + 1)
  BY WidthFact
<1>2. ASSUME NEW a \in Nat, NEW b \in Nat, a < b PROVE a % b = a
  BY <1>2
<1>3. 2 * (MaxInt + 1) \in Nat
  BY WidthFact
<1>4. (n + MaxInt + 1) % (2 * (MaxInt + 1)) = n + MaxInt + 1
  BY <1>1, <1>2, <1>3
<1> QED
  BY <1>4, WidthFact DEF Wrap

\* Wrap always returns an int.
LEMMA WrapType ==
  ASSUME NEW n \in Int
  PROVE  Wrap(n) \in -(MaxInt + 1)..MaxInt
<1>1. ASSUME NEW a \in Int, NEW b \in Nat \ {0} PROVE a % b \in 0..(b - 1)
  BY <1>1
<1>2. n + MaxInt + 1 \in Int /\ 2 * (MaxInt + 1) \in Nat \ {0}
  BY WidthFact
<1>3. (n + MaxInt + 1) % (2 * (MaxInt + 1)) \in 0..(2 * (MaxInt + 1) - 1)
  BY <1>1, <1>2
<1> QED
  BY <1>3, WidthFact DEF Wrap

\* A remainder is determined by what it is a remainder of.
LEMMA ModUnique ==
  ASSUME NEW x \in Int, NEW y \in Nat \ {0}, NEW q \in Int, NEW r \in 0..(y - 1),
         x = y * q + r
  PROVE  x % y = r
<1> DEFINE q2 == x \div y
           r2 == x % y
<1>1. q2 \in Int /\ r2 \in 0..(y - 1) /\ x = y * q2 + r2
  OBVIOUS
<1> HIDE DEF q2, r2
<1>2. y * (q2 - q) = r - r2
  BY <1>1
<1>3. q2 - q = 0
  <2>1. ASSUME q2 - q >= 1 PROVE FALSE
    <3>1. y * (q2 - q) >= y
      BY <1>1, <2>1
    <3> QED
      BY <1>1, <1>2, <3>1
  <2>2. ASSUME q2 - q <= -1 PROVE FALSE
    <3>1. y * (q2 - q) <= -y
      BY <1>1, <2>2
    <3> QED
      BY <1>1, <1>2, <3>1
  <2> QED
    BY <1>1, <2>1, <2>2
<1>4. r2 = r
  BY <1>1, <1>2, <1>3
<1> QED
  BY <1>4 DEF r2

\* The offset of the next page is the next offset, or has wrapped below zero.
LEMMA WrapNext ==
  ASSUME NEW n \in Int, NEW k \in 1..100, Wrap(n) >= 0, Wrap(n + k) >= 0
  PROVE  Wrap(n + k) = Wrap(n) + k
<1> DEFINE b == 2 * (MaxInt + 1)
           a == n + MaxInt + 1
           q == a \div b
           r == a % b
<1>1. b \in Nat \ {0} /\ a \in Int /\ a + k \in Int /\ k < MaxInt + 1
  BY WidthFact
<1>2. q \in Int /\ r \in 0..(b - 1) /\ a = b * q + r
  <2> HIDE DEF a, b
  <2> QED
    BY <1>1
<1>3. Wrap(n) = r - (MaxInt + 1)
  BY DEF Wrap
<1>4. Wrap(n + k) = ((a + k) % b) - (MaxInt + 1)
  <2>1. n + k + MaxInt + 1 = a + k
    BY WidthFact
  <2> QED
    BY <2>1 DEF Wrap
<1>5. b = 2 * (MaxInt + 1)
  OBVIOUS
<1> HIDE DEF a, b, q, r
<1>6. CASE r + k < b
  <2>1. r + k \in 0..(b - 1) /\ a + k = b * q + (r + k)
    BY <1>1, <1>2, <1>6
  <2>2. (a + k) % b = r + k
    BY <2>1, <1>1, <1>2, ModUnique
  <2> QED
    BY <2>2, <1>2, <1>3, <1>4, WidthFact
<1>7. CASE r + k >= b
  <2>1. r + k - b \in 0..(b - 1) /\ r + k - b < k
    BY <1>1, <1>2, <1>5, <1>7, WidthFact
  <2>2. a + k = b * (q + 1) + (r + k - b)
    <3>1. b * (q + 1) = b * q + b
      BY <1>1, <1>2
    <3> QED
      BY <3>1, <1>1, <1>2
  <2>3. (a + k) % b = r + k - b
    BY <2>1, <2>2, <1>1, <1>2, ModUnique
  <2> QED
    BY <2>1, <2>3, <1>1, <1>4, WidthFact
<1> QED
  BY <1>1, <1>2, <1>6, <1>7

-----------------------------------------------------------------------------
(* The parser and the service.                                             *)

\* A page and a size that parse are in range after the defaults and the clamp.
LEMMA ParsedParams ==
  ASSUME NEW q, Query(q), Parses(q)
  PROVE  /\ ParseListParams(q).page \in 1..MaxInt
         /\ ParseListParams(q).size \in 1..100
         /\ ParseListParams(q).sorts = q.sort
         /\ ParseListParams(q).filters = parseFilters(q, eventCategoryListConfig)
<1> DEFINE cfg == withDefaults(eventCategoryListConfig)
<1>1. /\ cfg.DefaultPage = 1 /\ cfg.DefaultSize = 20 /\ cfg.MaxSize = 100
      /\ cfg.AllowedFilterFields = eventCategoryListConfig.AllowedFilterFields
  BY DEF withDefaults, eventCategoryListConfig, DefaultPage, DefaultSize, DefaultMaxSize
<1>2. /\ q.page = None \/ q.page \in 1..MaxInt
      /\ q.size = None \/ q.size \in 1..MaxInt
  BY WidthFact DEF Parses, Positive, Atoi
<1> HIDE DEF cfg
<1>3. parsePage(q, cfg) \in 1..MaxInt
  BY <1>1, <1>2, WidthFact DEF parsePage
<1>4. parseSize(q, cfg) \in 1..100
  BY <1>1, <1>2, WidthFact DEF parseSize
<1>5. parseFilters(q, cfg) = parseFilters(q, eventCategoryListConfig)
  BY <1>1 DEF parseFilters
<1>6. ParseListParams(q) = [page |-> parsePage(q, cfg), size |-> parseSize(q, cfg),
                            sorts |-> q.sort, filters |-> parseFilters(q, cfg)]
  BY DEF ParseListParams, parseSorts, cfg
<1> QED
  BY <1>3, <1>4, <1>5, <1>6

\* Whatever query is accepted, the service uses the page and the size that the
\* parser found and the answer reports, both clamps agree, and the offset is the
\* number of rows on the pages before, if an int holds the end of the page.
THEOREM ParserAndServiceAgree ==
  ASSUME NEW q, Query(q), Parses(q)
  PROVE  LET p == ParseListParams(q)
             o == Options(p)
         IN  /\ p.page \in 1..MaxInt /\ p.size \in 1..100
             /\ o.limit = p.size
             /\ o.offset = Offset(p.page, p.size)
             /\ o.offset \in -(MaxInt + 1)..MaxInt
             /\ o.sorts = q.sort
             /\ p.page * p.size <= MaxInt => o.offset = (p.page - 1) * p.size
<1> DEFINE p == ParseListParams(q)
           o == Options(p)
<1>1. p.page \in 1..MaxInt /\ p.size \in 1..100 /\ p.sorts = q.sort
  BY ParsedParams
<1> HIDE DEF p
<1>2. ~(p.page < 1) /\ ~(p.size < 1) /\ ~(p.size > 100)
  BY <1>1, WidthFact
<1>3. /\ listParamsToListOptions(p).limit = p.size
      /\ listParamsToListOptions(p).offset = Offset(p.page, p.size)
      /\ listParamsToListOptions(p).sorts = q.sort
  BY <1>1, <1>2 DEF listParamsToListOptions
<1>4. o.limit = p.size /\ o.offset = Offset(p.page, p.size) /\ o.sorts = q.sort
  BY <1>3 DEF Options, listParamsToListOptions
<1>5. (p.page - 1) * p.size \in Int
  BY <1>1, WidthFact
<1>6. Offset(p.page, p.size) \in -(MaxInt + 1)..MaxInt
  BY <1>5, WrapType DEF Offset
<1>7. ASSUME p.page * p.size <= MaxInt
      PROVE  Offset(p.page, p.size) = (p.page - 1) * p.size
  <2>1. (p.page - 1) * p.size = p.page * p.size - p.size /\ p.page * p.size \in Nat
    BY <1>1, WidthFact
  <2>2. 0 <= (p.page - 1) * p.size
    BY <1>1, WidthFact
  <2>3. (p.page - 1) * p.size <= MaxInt
    BY <1>1, <1>7, <2>1, WidthFact
  <2> QED
    BY <1>5, <2>2, <2>3, WrapFits DEF Offset
<1> QED
  BY <1>1, <1>4, <1>6, <1>7 DEF p

-----------------------------------------------------------------------------
(* Types.                                                                  *)

\* What the assumption on the constants says of one body.
LEMMA BodiesFact ==
  ASSUME NEW in \in Bodies
  PROVE  in \in Input /\ WellFormed(in)
  BY BodiesAssumption

\* The next page of a query is a query.
LEMMA NextQuery ==
  ASSUME NEW q, Query(q), NEW n \in Int
  PROVE  /\ Query([q EXCEPT !.page = n])
         /\ [q EXCEPT !.page = n].sort = q.sort
         /\ [q EXCEPT !.page = n].size = q.size
         /\ [q EXCEPT !.page = n].filters = q.filters
         /\ [q EXCEPT !.page = n].page = n
  BY DEF Query

\* The walk starts with every variable in its type.
LEMMA TypeInit == Init => TypeOK
  BY MaxClockAssumption DEF Init, TypeOK, Stamps

\* Each step of the client and of the others keeps the types.
LEMMA TypeStep == TypeOK /\ [Next]_vars => TypeOK'
<1> SUFFICES ASSUME TypeOK, [Next]_vars
             PROVE  TypeOK'
  OBVIOUS
<1> USE DEF table, call
<1>1. ASSUME NEW q, Query(q), Request(q) PROVE TypeOK'
  BY <1>1 DEF Request, Refused, Accepted, TypeOK
<1>2. CASE Begin
  BY <1>1, <1>2, QueriesAssumption DEF Begin
<1>3. CASE Continue
  BY <1>1, <1>3 DEF Continue, TypeOK
<1>4. CASE Count
  <2>1. total' \in Nat
    BY <1>4, MatchingFinite DEF Count
  <2> QED
    BY <1>4, <2>1 DEF Count, TypeOK
<1>5. CASE Select
  <2>1. items' \in SUBSET Ids
    BY <1>5, MatchingFinite DEF Select, Selected
  <2> QED
    BY <1>5, <2>1 DEF Select, TypeOK
<1>6. CASE Answer
  <2>1. Query(query) /\ Parses(query)
    BY <1>6 DEF Answer, TypeOK
  <2>2. params.page \in Int
    BY <2>1, ParsedParams, WidthFact DEF params
  <2>3. Query(query')
    BY <1>6, <2>1, <2>2, NextQuery DEF Answer
  <2> QED
    BY <1>6, <2>3 DEF Answer, TypeOK
<1>7. CASE DbError \/ Leave
  <2>1. CASE DbError
    BY <2>1 DEF DbError, Fail, TypeOK
  <2>2. CASE Leave
    BY <2>2 DEF Leave, TypeOK
  <2> QED
    BY <1>7, <2>1, <2>2
<1>8. ASSUME NEW id \in Ids, NEW e \in EventCategory, Write(id, e) PROVE TypeOK'
  <2>1. clock' \in Stamps
    BY <1>8, MaxClockAssumption DEF Write, Stamps, TypeOK
  <2>2. rows' \in [Ids -> EventCategory \cup {None}]
    BY <1>8 DEF Write, TypeOK
  <2>3. versions' \in [Ids -> SUBSET EventCategory]
    BY <1>8 DEF Write, TypeOK
  <2> QED
    BY <1>8, <2>1, <2>2, <2>3 DEF Write, TypeOK
<1>9. ASSUME NEW id \in Ids, NEW e \in versions[id] PROVE e \in EventCategory
  BY <1>9 DEF TypeOK
<1>10. ASSUME NEW id \in Ids, Insert(id) PROVE TypeOK'
  <2>1. PICK in \in Bodies, now \in Stamps :
           in.method = "POST" /\ Write(id, Created(in, now))
    BY <1>10 DEF Insert
  <2>2. Created(in, now) \in EventCategory
    BY <2>1, BodiesFact, CreatedType
  <2> QED
    BY <1>8, <2>1, <2>2
<1>11. ASSUME NEW id \in Ids, Put(id) PROVE TypeOK'
  <2>1. PICK in \in Bodies, e \in versions[id], now \in Stamps :
           in.method = "PUT" /\ Write(id, Updated(e, in, now))
    BY <1>11 DEF Put
  <2>2. Updated(e, in, now) \in EventCategory
    BY <2>1, <1>9, BodiesFact, UpdatedType
  <2> QED
    BY <1>8, <2>1, <2>2
<1>12. ASSUME NEW id \in Ids, SoftDelete(id) PROVE TypeOK'
  <2>1. PICK e \in versions[id], now \in Stamps : Write(id, Deleted(e, now))
    BY <1>12 DEF SoftDelete
  <2>2. Deleted(e, now) \in EventCategory
    BY <1>9, DeletedType
  <2> QED
    BY <1>8, <2>1, <2>2
<1>13. ASSUME NEW t \in Tenants, DropTenant(t) PROVE TypeOK'
  BY <1>13 DEF DropTenant, TypeOK
<1>14. CASE UNCHANGED vars
  BY <1>14 DEF vars, TypeOK
<1> QED
  BY <1>2, <1>3, <1>4, <1>5, <1>6, <1>7, <1>10, <1>11, <1>12, <1>13, <1>14
     DEF Next, List, Others

\* A step of the walk is a step of CategoryList: the history only watches.
LEMMA WalkStep == [NextWalk]_wvars => [Next]_vars
  BY DEF NextWalk, Begins, Asks, Answers, Changes, Ignores, Leaves, Next, List, wvars

\* Every variable keeps its type in every walk: a List that has run both
\* statements has both results, and no statement outlives its List.
THEOREM TypeCorrect == SpecWalk => []TypeOK
<1>1. InitWalk => TypeOK
  BY TypeInit DEF InitWalk
<1>2. TypeOK /\ [NextWalk]_wvars => TypeOK'
  BY TypeStep, WalkStep
<1> QED
  BY <1>1, <1>2, PTL DEF SpecWalk

-----------------------------------------------------------------------------
(* The place of a row among those that match, which no plan changes when   *)
(* the sorts leave no tie.                                                 *)

NoTie(sorts) == \E i \in DOMAIN sorts : sorts[i].field = "id"

Ahead(t, o, x) == {y \in Matching(t, o) : Precedes(t, o.sorts, y, x)}
Place(t, o, x) == Cardinality(Ahead(t, o, x))

\* Ids differ in their place in the collation.
LEMMA IdsDiffer ==
  ASSUME NEW x \in Ids, NEW y \in Ids, Collation["id"][x] = Collation["id"][y]
  PROVE  x = y
<1>1. "id" \in Columns /\ ValuesOf("id") = Ids
  BY DEF Columns, eventCategoryListConfig, ValuesOf
<1> QED
  BY <1>1, CollationAssumption

\* A place is a number, and no plan has a say in it.
LEMMA RankIsPlace ==
  ASSUME NEW t, NEW o, NoTie(o.sorts), NEW plan \in Plans, NEW x \in Ids
  PROVE  /\ Place(t, o, x) \in Nat
         /\ Rank(t, o, plan, x) = Place(t, o, x)
<1>1. Ahead(t, o, x) \subseteq Ids
  BY MatchingFinite DEF Ahead
<1>2. ASSUME NEW y \in Ids, Before(t, o.sorts, plan, y, x)
      PROVE  Precedes(t, o.sorts, y, x)
  <2>1. PICK i \in DOMAIN o.sorts : o.sorts[i].field = "id"
    BY DEF NoTie
  <2>2. CASE Same(t, o.sorts[i], y, x) /\ plan[y] < plan[x]
    <3>1. y = x
      BY <2>1, <2>2, IdsDiffer DEF Same, Key
    <3>2. plan[x] \in Int
      BY IdsAssumption, FS_CardinalityType DEF Plans
    <3> QED
      BY <2>2, <3>1, <3>2
  <2> QED
    BY <1>2, <2>1, <2>2 DEF Before
<1>3. {y \in Matching(t, o) : Before(t, o.sorts, plan, y, x)} = Ahead(t, o, x)
  BY <1>2, MatchingFinite DEF Ahead, Before
<1> QED
  BY <1>1, <1>3, IdsAssumption, FS_Subset, FS_CardinalityType DEF Rank, Place

\* When fewer rows match and none moves, no place grows.
LEMMA PlaceShrinks ==
  ASSUME NEW t, NEW u, NEW o,
         Matching(u, o) \subseteq Matching(t, o),
         \A id \in Matching(u, o), i \in DOMAIN o.sorts :
             Key(u, id, o.sorts[i].field) = Key(t, id, o.sorts[i].field),
         NEW x \in Matching(u, o), DOMAIN o.sorts = 1..Len(o.sorts),
         Len(o.sorts) \in Nat
  PROVE  Place(u, o, x) <= Place(t, o, x)
<1>1. ASSUME NEW y \in Matching(u, o), Precedes(u, o.sorts, y, x)
      PROVE  Precedes(t, o.sorts, y, x)
  <2>1. PICK i \in DOMAIN o.sorts :
           /\ Comes(u, o.sorts[i], y, x)
           /\ \A j \in 1..(i - 1) : Same(u, o.sorts[j], y, x)
    BY <1>1 DEF Precedes
  <2>2. Comes(t, o.sorts[i], y, x)
    BY <2>1 DEF Comes
  <2>3. ASSUME NEW j \in 1..(i - 1) PROVE Same(t, o.sorts[j], y, x)
    <3>1. j \in DOMAIN o.sorts
      BY <2>1
    <3> QED
      BY <2>1, <2>3, <3>1 DEF Same
  <2> QED
    BY <2>1, <2>2, <2>3 DEF Precedes
<1>2. Ahead(u, o, x) \subseteq Ahead(t, o, x)
  BY <1>1 DEF Ahead
<1>3. IsFiniteSet(Ahead(t, o, x))
  BY MatchingFinite, FS_Subset DEF Ahead
<1> QED
  BY <1>2, <1>3, FS_Subset DEF Place

\* Page and size do not matter to what matches and where it is.
LEMMA PlaceSame ==
  ASSUME NEW t, NEW o, NEW p, o.conditions = p.conditions, o.sorts = p.sorts, NEW x
  PROVE  Matching(t, o) = Matching(t, p) /\ Place(t, o, x) = Place(t, p, x)
<1>1. Matching(t, o) = Matching(t, p)
  BY DEF Matching
<1>2. Ahead(t, o, x) = Ahead(t, p, x)
  BY <1>1 DEF Ahead
<1> QED
  BY <1>1, <1>2 DEF Place

\* The query of the next page: the same rows in the same order, and an offset
\* that has grown by the limit unless it has wrapped.
LEMMA NextPage ==
  ASSUME NEW q, Query(q), Parses(q),
         NEW r, r = [q EXCEPT !.page = ParseListParams(q).page + 1]
  PROVE  LET o == Options(ParseListParams(q))
             p == Options(ParseListParams(r))
         IN  /\ Query(r) /\ r.sort = q.sort
             /\ p.conditions = o.conditions /\ p.sorts = o.sorts
             /\ Parses(r) /\ o.offset >= 0 /\ p.offset >= 0 =>
                    p.offset = o.offset + o.limit
<1> DEFINE page == ParseListParams(q).page
           size == ParseListParams(q).size
           o == Options(ParseListParams(q))
           p == Options(ParseListParams(r))
<1>1. page \in 1..MaxInt /\ size \in 1..100
  BY ParsedParams
<1>2. page + 1 \in Int /\ page + 1 # None
  BY <1>1, WidthFact, NaNAssumption
<1>3. /\ Query(r) /\ r.sort = q.sort /\ r.size = q.size
      /\ r.filters = q.filters /\ r.page = page + 1
  <2> DEFINE n == page + 1
  <2>1. n \in Int /\ r = [q EXCEPT !.page = n]
    BY <1>2
  <2> HIDE DEF n
  <2> DEFINE s == [q EXCEPT !.page = n]
  <2>2. Query(s) /\ s.sort = q.sort /\ s.size = q.size /\ s.filters = q.filters /\ s.page = n
    BY <2>1, NextQuery
  <2> HIDE DEF s
  <2>3. r = s
    BY <2>1 DEF s
  <2> QED
    BY <2>2, <2>3 DEF n
<1>4. /\ ParseListParams(r).filters = ParseListParams(q).filters
      /\ ParseListParams(r).sorts = ParseListParams(q).sorts
      /\ ParseListParams(r).size = ParseListParams(q).size
      /\ ParseListParams(r).page = page + 1
  BY <1>2, <1>3 DEF ParseListParams, parseFilters, parseSorts, parseSize, parsePage
<1>5. p.conditions = o.conditions /\ p.sorts = o.sorts
  BY <1>4 DEF Options, listParamsToListOptions
<1>6. ASSUME Parses(r), o.offset >= 0, p.offset >= 0
      PROVE  p.offset = o.offset + o.limit
  <2>1. o.offset = Offset(page, size) /\ o.limit = size
    BY ParserAndServiceAgree
  <2>2. p.offset = Offset(page + 1, size)
    BY <1>3, <1>4, <1>6, ParserAndServiceAgree
  <2> HIDE DEF page, size, o, p
  <2>3. (page + 1 - 1) * size = (page - 1) * size + size
    BY <1>1
  <2>4. (page - 1) * size \in Int
    BY <1>1
  <2> QED
    BY <1>1, <1>6, <2>1, <2>2, <2>3, <2>4, WrapNext DEF Offset
<1> QED
  BY <1>3, <1>5, <1>6

-----------------------------------------------------------------------------
(* NothingTwice: the rows seen, as far as they still match, are before the *)
(* page that is asked for, wherever deletions have moved it.               *)

SeenBefore ==
    phase \in {"run", "next"} /\ Parses(query) /\ opts.offset >= 0 =>
        \A x \in seen \cap Matching(rows, opts) : Place(rows, opts, x) < opts.offset

PageAfterSeen ==
    phase = "run" /\ "select" \notin pending =>
        /\ opts.offset >= 0 /\ seen \cap items = {}
        /\ \A x \in items \cap Matching(rows, opts) :
              Place(rows, opts, x) < opts.offset + opts.limit

TwiceInv ==
    /\ phase = "idle" => seen = {} /\ twice = FALSE
    /\ phase # "idle" /\ TotalOrder /\ ~grew => ~twice /\ SeenBefore /\ PageAfterSeen

\* A query in progress has options that the parser and the service agree on.
LEMMA OptsFact ==
  ASSUME TypeOK, phase # "idle", Parses(query)
  PROVE  /\ opts.limit = params.size /\ params.size \in 1..100
         /\ opts.offset \in Int /\ opts.sorts = query.sort
         /\ Len(opts.sorts) \in Nat /\ DOMAIN opts.sorts = 1..Len(opts.sorts)
<1>1. Query(query)
  BY DEF TypeOK
<1>2. /\ opts.limit = params.size /\ params.size \in 1..100
      /\ opts.offset \in -(MaxInt + 1)..MaxInt /\ opts.sorts = query.sort
  BY <1>1, ParserAndServiceAgree DEF opts, params
<1> QED
  BY <1>1, <1>2, WidthFact DEF Query

\* Whatever the page, the sorts of the options are those of the query.
LEMMA OptsSorts == opts.sorts = query.sort
  BY DEF opts, params, Options, listParamsToListOptions, ParseListParams, parseSorts

\* Places are numbers, whoever asks.
LEMMA PlaceType ==
  ASSUME NEW t, NEW o, NEW x
  PROVE  Place(t, o, x) \in Nat
<1>1. Ahead(t, o, x) \subseteq Matching(t, o)
  BY DEF Ahead
<1> QED
  BY <1>1, MatchingFinite, FS_Subset, FS_CardinalityType DEF Place

\* A write that adds no matching row and moves none brings no row further back.
LEMMA ShrinkStep ==
  ASSUME TypeOK, Changes, ~grew', NEW x \in Matching(rows', opts)
  PROVE  /\ ~grew /\ x \in Matching(rows, opts)
         /\ Place(rows', opts, x) <= Place(rows, opts, x)
<1>1. /\ ~grew /\ Matching(rows', opts) \subseteq Matching(rows, opts)
      /\ \A id \in Matching(rows, opts) \cap Matching(rows', opts), i \in DOMAIN query.sort :
            Stays(id, query.sort[i].field)
  BY DEF Changes
<1>2. \A id \in Matching(rows', opts), i \in DOMAIN opts.sorts :
          Key(rows', id, opts.sorts[i].field) = Key(rows, id, opts.sorts[i].field)
  BY <1>1, OptsSorts DEF Stays
<1>3. Len(opts.sorts) \in Nat /\ DOMAIN opts.sorts = 1..Len(opts.sorts)
  BY OptsSorts DEF Changes, TypeOK, Query
<1> QED
  BY <1>1, <1>2, <1>3, PlaceShrinks

\* The others leave the client's variables alone.
LEMMA OthersFrame == Others => UNCHANGED <<phase, query, pending, items, status>>
  BY DEF Others, Insert, Put, SoftDelete, DropTenant, Write, call

\* Each step of a walk keeps TwiceInv.
LEMMA TwiceStep == TypeOK /\ TwiceInv /\ [NextWalk]_wvars => TwiceInv'
<1> SUFFICES ASSUME TypeOK, TwiceInv, [NextWalk]_wvars
             PROVE  TwiceInv'
  OBVIOUS
<1> USE DEF table, call
<1>1. CASE Begins
  <2>1. /\ phase' = "run" /\ seen' = {} /\ ~twice' /\ "select" \in pending'
    BY <1>1 DEF Begins, Begin, Request, Refused, Accepted, TwiceInv
  <2> QED
    BY <2>1 DEF TwiceInv, SeenBefore, PageAfterSeen
<1>2. CASE Asks
  <2>1. /\ phase = "next" /\ phase' \in {"run", "done"} /\ query' = query /\ rows' = rows
        /\ phase' = "run" => "select" \in pending'
        /\ seen' = seen /\ twice' = twice /\ grew' = grew
    BY <1>2 DEF Asks, Continue, Request, Refused, Accepted
  <2>2. opts' = opts /\ (TotalOrder' <=> TotalOrder)
    BY <2>1 DEF opts, params, TotalOrder
  <2> QED
    BY <2>1, <2>2 DEF TwiceInv, SeenBefore, PageAfterSeen
<1>3. CASE Answers
  <2>1. /\ phase = "run" /\ pending = {} /\ pending' = {} /\ rows' = rows
        /\ seen' = seen \cup items /\ twice' = (twice \/ seen \cap items # {})
        /\ grew' = grew /\ Query(query) /\ Parses(query)
    BY <1>3 DEF Answers, Answer, TypeOK
  <2>2. CASE phase' = "done" /\ query' = query
    <3>1. TotalOrder' <=> TotalOrder
      BY <2>2 DEF TotalOrder
    <3> QED
      BY <2>1, <2>2, <3>1 DEF TwiceInv, SeenBefore, PageAfterSeen
  <2>3. CASE phase' = "next" /\ query' = [query EXCEPT !.page = params.page + 1]
    <3>1. /\ query'.sort = query.sort
          /\ opts'.conditions = opts.conditions /\ opts'.sorts = opts.sorts
          /\ Parses(query') /\ opts.offset >= 0 /\ opts'.offset >= 0 =>
                 opts'.offset = opts.offset + opts.limit
      <4> DEFINE r == query'
      <4>1. r = [query EXCEPT !.page = ParseListParams(query).page + 1]
        BY <2>3 DEF params
      <4>2. opts' = Options(ParseListParams(r)) /\ opts = Options(ParseListParams(query))
        BY DEF opts, params
      <4> HIDE DEF r
      <4>3. LET o == Options(ParseListParams(query))
                p == Options(ParseListParams(r))
            IN  /\ r.sort = query.sort
                /\ p.conditions = o.conditions /\ p.sorts = o.sorts
                /\ Parses(r) /\ o.offset >= 0 /\ p.offset >= 0 =>
                       p.offset = o.offset + o.limit
        BY <2>1, <4>1, NextPage
      <4> QED
        BY <4>2, <4>3 DEF r
    <3>2. TotalOrder' <=> TotalOrder
      BY <3>1 DEF TotalOrder
    <3>3. ASSUME TotalOrder, ~grew
          PROVE  ~twice' /\ SeenBefore'
      <4>1. ~twice /\ SeenBefore /\ PageAfterSeen
        BY <2>1, <3>3 DEF TwiceInv
      <4>2. /\ opts.offset >= 0 /\ seen \cap items = {}
            /\ \A x \in (seen \cup items) \cap Matching(rows, opts) :
                  Place(rows, opts, x) < opts.offset + opts.limit
        <5>1. opts.offset \in Int /\ opts.limit \in 1..100
          BY <2>1, OptsFact
        <5> QED
          BY <2>1, <4>1, <5>1, PlaceType DEF SeenBefore, PageAfterSeen
      <4>3. ASSUME NEW x
            PROVE  /\ Matching(rows', opts') = Matching(rows, opts)
                   /\ Place(rows', opts', x) = Place(rows, opts, x)
        BY <2>1, <3>1, PlaceSame
      <4> QED
        BY <2>1, <3>1, <4>1, <4>2, <4>3 DEF SeenBefore
    <3> QED
      BY <2>1, <2>3, <3>2, <3>3 DEF TwiceInv, PageAfterSeen
  <2> QED
    BY <1>3, <2>2, <2>3 DEF Answers, Answer
<1>4. CASE Changes
  <2>1. /\ phase # "idle" /\ UNCHANGED <<phase, query, pending, items, seen, twice>>
    BY <1>4, OthersFrame DEF Changes
  <2>2. opts' = opts /\ (TotalOrder' <=> TotalOrder)
    BY <2>1 DEF opts, params, TotalOrder
  <2>3. ASSUME TotalOrder, ~grew'
        PROVE  ~twice' /\ SeenBefore' /\ PageAfterSeen'
    <3>1. /\ ~grew
          /\ \A x \in Matching(rows', opts) :
                /\ x \in Matching(rows, opts)
                /\ Place(rows', opts, x) <= Place(rows, opts, x)
      BY <1>4, <2>3, ShrinkStep DEF Changes
    <3>2. ~twice /\ SeenBefore /\ PageAfterSeen
      BY <2>1, <2>3, <3>1 DEF TwiceInv
    <3>3. SeenBefore'
      <4>1. ASSUME phase \in {"run", "next"}, Parses(query), opts.offset >= 0,
                   NEW x \in seen \cap Matching(rows', opts)
            PROVE  Place(rows', opts, x) < opts.offset
        <5>1. Place(rows, opts, x) < opts.offset /\ opts.offset \in Int
          BY <2>1, <3>1, <3>2, <4>1, OptsFact DEF SeenBefore
        <5> QED
          BY <3>1, <4>1, <5>1, PlaceType
      <4> QED
        BY <2>1, <2>2, <4>1 DEF SeenBefore
    <3>4. PageAfterSeen'
      <4>1. ASSUME phase = "run", "select" \notin pending,
                   NEW x \in items \cap Matching(rows', opts)
            PROVE  Place(rows', opts, x) < opts.offset + opts.limit
        <5>1. opts.offset + opts.limit \in Int
          <6>1. Parses(query)
            BY <2>1, <4>1 DEF TypeOK
          <6>2. opts.offset \in Int /\ opts.limit \in 1..100
            BY <2>1, <6>1, OptsFact
          <6> QED
            BY <6>2
        <5>2. Place(rows, opts, x) < opts.offset + opts.limit
          BY <3>1, <3>2, <4>1 DEF PageAfterSeen
        <5> QED
          BY <3>1, <4>1, <5>1, <5>2, PlaceType
      <4> QED
        BY <2>1, <2>2, <3>2, <4>1 DEF PageAfterSeen
    <3> QED
      BY <2>1, <3>2, <3>3, <3>4
  <2> QED
    BY <2>1, <2>2, <2>3 DEF TwiceInv
<1>5. CASE Ignores
  <2>1. CASE Begin /\ phase' = "done"
    BY <1>5, <2>1 DEF Ignores, Begin, TwiceInv, SeenBefore, PageAfterSeen, walk
  <2>2. CASE Count
    <3>1. /\ phase' = phase /\ query' = query /\ rows' = rows /\ items' = items
          /\ seen' = seen /\ twice' = twice /\ grew' = grew
          /\ pending' = pending \ {"count"}
      BY <1>5, <2>2 DEF Ignores, Count, walk
    <3>2. opts' = opts /\ (TotalOrder' <=> TotalOrder)
      BY <3>1 DEF opts, params, TotalOrder
    <3> QED
      BY <3>1, <3>2 DEF TwiceInv, SeenBefore, PageAfterSeen
  <2>3. CASE Select
    <3>1. /\ phase = "run" /\ phase' = phase /\ query' = query /\ rows' = rows
          /\ seen' = seen /\ twice' = twice /\ grew' = grew
      BY <1>5, <2>3 DEF Ignores, Select, walk
    <3>2. opts' = opts /\ (TotalOrder' <=> TotalOrder)
      BY <3>1 DEF opts, params, TotalOrder
    <3>3. Parses(query) /\ opts.offset \in Int /\ opts.limit \in 1..100
      BY <3>1, OptsFact DEF TypeOK
    <3>4. opts.offset >= 0
      BY <2>3, <3>3 DEF Select, RefusedSelect
    <3>5. ASSUME TotalOrder, ~grew
          PROVE  ~twice /\ SeenBefore /\ PageAfterSeen'
      <4>1. ~twice /\ SeenBefore
        BY <3>1, <3>5 DEF TwiceInv
      <4>2. PICK plan \in Plans : items' = Selected(rows, opts, plan)
        BY <2>3 DEF Select
      <4>3. NoTie(opts.sorts)
        BY <3>5, OptsSorts DEF NoTie, TotalOrder
      <4>4. ASSUME NEW x \in items'
            PROVE  /\ x \in Matching(rows, opts)
                   /\ opts.offset <= Place(rows, opts, x)
                   /\ Place(rows, opts, x) < opts.offset + opts.limit
        <5>1. x \in Matching(rows, opts) /\ x \in Ids
          BY <4>2, <4>4, MatchingFinite DEF Selected
        <5>2. Rank(rows, opts, plan, x) = Place(rows, opts, x)
          BY <4>3, <5>1, RankIsPlace
        <5> QED
          BY <4>2, <4>4, <5>1, <5>2 DEF Selected
      <4>5. seen \cap items' = {}
        <5>1. ASSUME NEW x \in seen \cap items' PROVE FALSE
          <6>1. Place(rows, opts, x) < opts.offset
            BY <3>1, <3>3, <3>4, <4>1, <4>4, <5>1 DEF SeenBefore
          <6> QED
            BY <3>3, <4>4, <5>1, <6>1, PlaceType
        <5> QED
          BY <5>1
      <4> QED
        BY <3>1, <3>2, <3>4, <4>1, <4>4, <4>5 DEF PageAfterSeen
    <3>6. SeenBefore' <=> SeenBefore
      BY <3>1, <3>2 DEF SeenBefore
    <3> QED
      BY <3>1, <3>2, <3>5, <3>6 DEF TwiceInv
  <2>4. CASE DbError
    <3>1. /\ phase = "run" /\ phase' \in {"next", "done"} /\ query' = query
          /\ rows' = rows /\ seen' = seen /\ twice' = twice /\ grew' = grew
      BY <1>5, <2>4 DEF Ignores, DbError, Fail, walk
    <3>2. opts' = opts /\ (TotalOrder' <=> TotalOrder)
      BY <3>1 DEF opts, params, TotalOrder
    <3> QED
      BY <3>1, <3>2 DEF TwiceInv, SeenBefore, PageAfterSeen
  <2>5. CASE Others /\ phase = "idle"
    <3>1. phase' = "idle" /\ seen' = seen /\ twice' = twice
      BY <1>5, <2>5, OthersFrame DEF Ignores, walk
    <3> QED
      BY <2>5, <3>1 DEF TwiceInv
  <2> QED
    BY <1>5, <2>1, <2>2, <2>3, <2>4, <2>5 DEF Ignores
<1>6. CASE Leaves
  BY <1>6 DEF Leaves, Leave, TwiceInv
<1>7. CASE UNCHANGED wvars
  <2>1. UNCHANGED <<rows, phase, query, pending, items, seen, twice, grew>>
    BY <1>7 DEF wvars, vars, walk
  <2>2. opts' = opts /\ (TotalOrder' <=> TotalOrder)
    BY <2>1 DEF opts, params, TotalOrder
  <2> QED
    BY <2>1, <2>2 DEF TwiceInv, SeenBefore, PageAfterSeen
<1> QED
  BY <1>1, <1>2, <1>3, <1>4, <1>5, <1>6, <1>7 DEF NextWalk

\* Deletions alone never show a row on two pages of one walk.
THEOREM NothingTwiceHolds == SpecWalk => []NothingTwice
<1>1. InitWalk => TwiceInv
  BY DEF InitWalk, Init, TwiceInv
<1>2. TwiceInv => NothingTwice
  BY DEF TwiceInv, NothingTwice
<1> QED
  BY <1>1, <1>2, TypeCorrect, TwiceStep, PTL DEF SpecWalk

-----------------------------------------------------------------------------
(* AnswerConsistent: as long as no write comes, what the two statements    *)
(* returned is still what the table has.                                   *)

\* The sorts of a query that parses order the rows.
LEMMA ParsedSorts ==
  ASSUME NEW q, Query(q), Parses(q)
  PROVE  Sorts(Options(ParseListParams(q)).sorts)
<1>1. Options(ParseListParams(q)).sorts = q.sort
  BY ParserAndServiceAgree
<1> QED
  BY <1>1 DEF Sorts, Query, Parses, SortsAllowed, Columns

\* The conditions of a query are its filters, as far as they are known, and
\* that the row is live.
LEMMA ConditionsSelect ==
  ASSUME NEW t, NEW q
  PROVE  Matching(t, Options(ParseListParams(q))) =
             {id \in Ids : Live(t[id]) /\
                 \A f \in DOMAIN q.filters :
                     f \in eventCategoryListConfig.AllowedFilterFields =>
                         t[id][f] = q.filters[f]}
<1> DEFINE known == DOMAIN q.filters \cap eventCategoryListConfig.AllowedFilterFields
           equal(f) == [field |-> f, operator |-> "=", value |-> q.filters[f]]
           live == [field |-> "deleted_at", operator |-> "IS NULL", value |-> None]
           conditions == Options(ParseListParams(q)).conditions
<1>1. ParseListParams(q).filters = [f \in known |-> q.filters[f]]
  BY DEF ParseListParams, parseFilters, withDefaults, eventCategoryListConfig
<1>2. conditions = {equal(f) : f \in known} \cup {live}
  BY <1>1 DEF Options, listParamsToListOptions, appendSoftDeleteFilter
<1>3. ASSUME NEW e
      PROVE  (\A c \in conditions : Satisfies(e, c)) <=>
                 e.deleted_at = None /\ \A f \in known : e[f] = q.filters[f]
  <2>1. Satisfies(e, live) <=> e.deleted_at = None
    BY DEF Satisfies
  <2>2. \A f \in known : Satisfies(e, equal(f)) <=> e[f] = q.filters[f]
    BY DEF Satisfies
  <2> HIDE DEF conditions, live, equal
  <2> QED
    BY <1>2, <2>1, <2>2
<1> HIDE DEF conditions
<1>4. ASSUME NEW id \in Ids
      PROVE  t[id] # None /\ (\A c \in conditions : Satisfies(t[id], c)) <=>
                 Live(t[id]) /\ \A f \in known : t[id][f] = q.filters[f]
  BY <1>3 DEF Live, isSoftDeleted
<1> QED
  BY <1>4 DEF Matching, conditions

QuietInv ==
    phase = "run" /\ quiet =>
        /\ "count" \notin pending => total = Cardinality(Matching(rows, opts))
        /\ "select" \notin pending =>
               /\ opts.offset >= 0
               /\ \E plan \in Plans : items = Selected(rows, opts, plan)

\* A write leaves what the client knows alone.
LEMMA OthersKeepTotal == Others => UNCHANGED total
  BY DEF Others, Insert, Put, SoftDelete, DropTenant, Write, call

\* Each step of a walk keeps QuietInv.
LEMMA QuietStep == TypeOK /\ QuietInv /\ [NextWalk]_wvars => QuietInv'
<1> SUFFICES ASSUME TypeOK, QuietInv, [NextWalk]_wvars
             PROVE  QuietInv'
  OBVIOUS
<1>0. query' = query => opts' = opts
  BY DEF opts, params
<1>1. CASE Begins \/ Asks
  <2>1. phase' = "run" => pending' = {"count", "select"}
    BY <1>1 DEF Begins, Begin, Asks, Continue, Request, Refused, Accepted
  <2> QED
    BY <2>1 DEF QuietInv
<1>2. CASE Answers \/ Leaves
  <2>1. phase' # "run"
    BY <1>2 DEF Answers, Answer, Leaves, Leave
  <2> QED
    BY <2>1 DEF QuietInv
<1>3. CASE Changes
  <2>1. /\ UNCHANGED <<phase, query, pending, items, total>>
        /\ quiet' = (quiet /\ rows' = rows)
    BY <1>3, OthersFrame, OthersKeepTotal DEF Changes
  <2> QED
    BY <1>0, <2>1 DEF QuietInv
<1>4. CASE Ignores
  <2>1. CASE (Begin /\ phase' = "done") \/ DbError \/ (Others /\ phase = "idle")
    <3>1. phase' # "run"
      BY <2>1, OthersFrame DEF DbError, Fail
    <3> QED
      BY <3>1 DEF QuietInv
  <2>2. CASE Count
    <3>1. /\ UNCHANGED <<rows, phase, query, items, quiet>>
          /\ pending' = pending \ {"count"}
          /\ total' = Cardinality(Matching(rows, opts))
      BY <1>4, <2>2 DEF Ignores, Count, walk, table
    <3> QED
      BY <1>0, <3>1 DEF QuietInv
  <2>3. CASE Select
    <3>1. /\ UNCHANGED <<rows, phase, query, total, quiet>> /\ phase = "run"
          /\ pending' = pending \ {"select"}
          /\ \E plan \in Plans : items' = Selected(rows, opts, plan)
      BY <1>4, <2>3 DEF Ignores, Select, walk, table
    <3>2. opts.offset \in Int
      BY <3>1, OptsFact DEF TypeOK
    <3>3. opts.offset >= 0
      BY <2>3, <3>2 DEF Select, RefusedSelect
    <3> QED
      BY <1>0, <3>1, <3>3 DEF QuietInv
  <2> QED
    BY <1>4, <2>1, <2>2, <2>3 DEF Ignores
<1>5. CASE UNCHANGED wvars
  BY <1>0, <1>5 DEF QuietInv, wvars, vars, walk
<1> QED
  BY <1>1, <1>2, <1>3, <1>4, <1>5 DEF NextWalk

\* What the statements returned makes a consistent answer.
LEMMA QuietAnswers == TypeOK /\ QuietInv => AnswerConsistent
<1> SUFFICES ASSUME TypeOK, QuietInv,
                    phase = "run", pending = {}, quiet, InRange
             PROVE  LET size   == params.size
                        offset == (params.page - 1) * size
                        Wanted(f) == f \in eventCategoryListConfig.AllowedFilterFields
                        shown  == {id \in Ids : Live(rows[id]) /\
                                      \A f \in DOMAIN query.filters :
                                          Wanted(f) => rows[id][f] = query.filters[f]}
                        From(x) == {y \in shown \ items : ~Precedes(rows, query.sort, x, y)}
                        Upto(x) == {y \in shown \ items : Precedes(rows, query.sort, y, x)}
                    IN  /\ total = Cardinality(shown)
                        /\ items \subseteq shown
                        /\ Cardinality(items) =
                               IF total <= offset THEN 0 ELSE Least(size, total - offset)
                        /\ \A x \in items : /\ Cardinality(Upto(x)) <= offset
                                            /\ Cardinality(From(x)) >= offset
                        /\ opts.limit = size
  BY DEF AnswerConsistent
<1> DEFINE size   == params.size
           offset == (params.page - 1) * size
           shown  == {id \in Ids : Live(rows[id]) /\
                         \A f \in DOMAIN query.filters :
                             f \in eventCategoryListConfig.AllowedFilterFields =>
                                 rows[id][f] = query.filters[f]}
<1>1. Query(query) /\ Parses(query) /\ Table(rows)
  BY DEF TypeOK, Table
<1>2. /\ params.size \in 1..100 /\ opts.limit = size /\ opts.offset = offset
      /\ opts.sorts = query.sort
  BY <1>1, ParserAndServiceAgree DEF InRange, opts, params
<1>3. Sorts(opts.sorts)
  BY <1>1, ParsedSorts DEF opts, params
<1>4. Matching(rows, opts) = shown
  BY ConditionsSelect DEF opts, params
<1>5. PICK plan \in Plans : items = Selected(rows, opts, plan)
  BY DEF QuietInv
<1>6. opts.offset >= 0 /\ total = Cardinality(shown)
  BY <1>4 DEF QuietInv
<1>7. opts.offset \in Nat /\ opts.limit \in Nat
  <2>1. phase # "idle"
    OBVIOUS
  <2>2. opts.offset \in Int /\ opts.limit \in 1..100
    BY <1>1, <2>1, OptsFact
  <2> QED
    BY <1>6, <2>2
<1>8. /\ items \subseteq shown
      /\ Cardinality(items) = IF total <= opts.offset THEN 0
                              ELSE IF opts.limit < total - opts.offset THEN opts.limit
                              ELSE total - opts.offset
      /\ \A x \in items :
            /\ Cardinality({y \in shown \ items : Precedes(rows, opts.sorts, y, x)})
                   <= opts.offset
            /\ Cardinality({y \in shown \ items : ~Precedes(rows, opts.sorts, x, y)})
                   >= opts.offset
  <2> HIDE DEF shown
  <2> QED
    BY <1>1, <1>3, <1>4, <1>5, <1>6, <1>7, PageIsWindow
<1>9. Cardinality(items) = IF total <= offset THEN 0 ELSE Least(size, total - offset)
  BY <1>2, <1>8 DEF Least
<1> QED
  BY <1>2, <1>6, <1>8, <1>9

\* An answer to which no write came in between is right in every walk.
THEOREM AnswerConsistentHolds == SpecWalk => []AnswerConsistent
<1>1. InitWalk => QuietInv
  BY DEF InitWalk, Init, QuietInv
<1> QED
  BY <1>1, TypeCorrect, QuietStep, QuietAnswers, PTL DEF SpecWalk

-----------------------------------------------------------------------------
(* NothingMissed: the rows still to show are on the page that is asked for *)
(* or after it, wherever insertions have moved it.                         *)

ToShow == start \ seen

StartStays == phase \in {"run", "next"} => start \subseteq Matching(rows, opts)

RestAfterSeen ==
    phase \in {"run", "next"} /\ Parses(query) =>
        \A x \in ToShow : Place(rows, opts, x) >= opts.offset

RestAfterPage ==
    phase = "run" /\ "select" \notin pending =>
        /\ opts.offset >= 0
        /\ ToShow \subseteq items \/ Cardinality(items) = opts.limit
        /\ \A x \in ToShow \ items : Place(rows, opts, x) >= opts.offset + opts.limit

AllShown == phase = "done" /\ status = 200 => ToShow = {}

Complete == StartStays /\ RestAfterSeen /\ RestAfterPage /\ AllShown

\* A walk from page 1 that no write has taken a row from.
Unshrunk == phase # "idle" /\ first = 1 /\ TotalOrder /\ ~shrunk

MissInv == /\ phase = "idle" => seen = {}
           /\ Unshrunk => Complete

\* A write that takes no matching row away and moves none brings none forward.
LEMMA GrowStep ==
  ASSUME TypeOK, Changes, ~shrunk', NEW x \in Matching(rows, opts)
  PROVE  /\ ~shrunk /\ x \in Matching(rows', opts)
         /\ Place(rows, opts, x) <= Place(rows', opts, x)
<1>1. /\ ~shrunk /\ Matching(rows, opts) \subseteq Matching(rows', opts)
      /\ \A id \in Matching(rows, opts) \cap Matching(rows', opts), i \in DOMAIN query.sort :
            Stays(id, query.sort[i].field)
  BY DEF Changes
<1>2. \A id \in Matching(rows, opts), i \in DOMAIN opts.sorts :
          Key(rows, id, opts.sorts[i].field) = Key(rows', id, opts.sorts[i].field)
  BY <1>1, OptsSorts DEF Stays
<1>3. Len(opts.sorts) \in Nat /\ DOMAIN opts.sorts = 1..Len(opts.sorts)
  BY OptsSorts DEF Changes, TypeOK, Query
<1> QED
  BY <1>1, <1>2, <1>3, PlaceShrinks

\* A row from the offset on that is not on the page is after a full page.
LEMMA AfterPage ==
  ASSUME NEW t, Table(t), NEW o, Sorts(o.sorts), NoTie(o.sorts), NEW plan \in Plans,
         o.offset \in Nat, o.limit \in Nat,
         NEW x \in Matching(t, o), x \notin Selected(t, o, plan),
         Place(t, o, x) >= o.offset
  PROVE  /\ Place(t, o, x) >= o.offset + o.limit
         /\ Cardinality(Selected(t, o, plan)) = o.limit
<1> DEFINE n == Cardinality(Matching(t, o))
<1>1. x \in Ids
  BY MatchingFinite
<1>2. Rank(t, o, plan, x) = Place(t, o, x) /\ Place(t, o, x) \in Nat
  BY <1>1, RankIsPlace
<1>3. Rank(t, o, plan, x) \in 0..(n - 1)
  BY RankOrder
<1>4. ~(Rank(t, o, plan, x) < o.offset + o.limit)
  BY <1>2 DEF Selected
<1>5. Cardinality(Selected(t, o, plan)) = IF n <= o.offset THEN 0
          ELSE IF o.limit < n - o.offset THEN o.limit ELSE n - o.offset
  BY PageIsWindow
<1>6. n \in Nat
  BY MatchingFinite
<1> HIDE DEF n
<1> QED
  BY <1>2, <1>3, <1>4, <1>5, <1>6

\* A walk that begins with page 1 begins with the first row.
LEMMA FirstPage ==
  ASSUME NEW q, Query(q), Parses(q), ParseListParams(q).page = 1
  PROVE  Options(ParseListParams(q)).offset = 0
<1> DEFINE p == ParseListParams(q)
           o == Options(p)
<1>1. /\ p.size \in 1..100
      /\ p.page * p.size <= MaxInt => o.offset = (p.page - 1) * p.size
  BY ParserAndServiceAgree
<1>2. p.page = 1
  OBVIOUS
<1> HIDE DEF p, o
<1>3. p.page * p.size = p.size /\ (p.page - 1) * p.size = 0
  BY <1>1, <1>2
<1>4. o.offset = 0
  BY <1>1, <1>3, WidthFact
<1> QED
  BY <1>4 DEF o, p

\* An answer leaves what matches and where it is; the next page begins where
\* this one ends, or below zero.
LEMMA NextOffset ==
  ASSUME TypeOK, Answer, opts.offset >= 0, query' # query
  PROVE  /\ TotalOrder' <=> TotalOrder
         /\ Matching(rows', opts') = Matching(rows, opts)
         /\ \A x : Place(rows', opts', x) = Place(rows, opts, x)
         /\ Parses(query') =>
                /\ opts'.offset \in Int
                /\ opts'.offset <= opts.offset + opts.limit
<1> DEFINE r == query'
           o == Options(ParseListParams(query))
           p == Options(ParseListParams(r))
<1>1. /\ r = [query EXCEPT !.page = ParseListParams(query).page + 1]
      /\ rows' = rows /\ phase # "idle" /\ Query(query) /\ Parses(query)
  BY DEF Answer, TypeOK, params, table
<1>2. opts' = p /\ opts = o
  BY DEF opts, params
<1>3. opts.offset \in Int /\ opts.limit \in 1..100
  BY <1>1, OptsFact
<1> HIDE DEF r
<1>4. /\ Query(r) /\ r.sort = query.sort
      /\ p.conditions = o.conditions /\ p.sorts = o.sorts
      /\ Parses(r) /\ o.offset >= 0 /\ p.offset >= 0 =>
             p.offset = o.offset + o.limit
  BY <1>1, NextPage
<1>5. Parses(r) => p.offset \in Int
  BY <1>4, WidthFact, ParserAndServiceAgree
<1> HIDE DEF o, p
<1>6. Parses(r) => opts'.offset \in Int /\ opts'.offset <= opts.offset + opts.limit
  BY <1>2, <1>3, <1>4, <1>5
<1>7. ASSUME NEW x
      PROVE  /\ Matching(rows', opts') = Matching(rows, opts)
             /\ Place(rows', opts', x) = Place(rows, opts, x)
  BY <1>1, <1>2, <1>4, PlaceSame
<1>8. TotalOrder' <=> TotalOrder
  BY <1>4 DEF TotalOrder, r
<1> QED
  BY <1>6, <1>7, <1>8 DEF r

\* Each step of a walk keeps MissInv.
LEMMA MissStep == TypeOK /\ MissInv /\ [NextWalk]_wvars => MissInv'
<1> SUFFICES ASSUME TypeOK, MissInv, [NextWalk]_wvars
             PROVE  MissInv'
  OBVIOUS
<1> USE DEF table, call
<1>0. query' = query => opts' = opts /\ (TotalOrder' <=> TotalOrder)
  BY DEF opts, params, TotalOrder
<1>1. CASE Begins
  <2>1. /\ phase' = "run" /\ pending' = {"count", "select"} /\ Parses(query')
        /\ query' \in Queries /\ rows' = rows /\ seen' = {} /\ seen' = seen
        /\ first' = params'.page /\ start' = Matching(rows, opts')
    BY <1>1 DEF Begins, Begin, Request, Refused, Accepted, MissInv
  <2>2. ASSUME first' = 1, NEW x PROVE Place(rows', opts', x) >= opts'.offset
    <3>1. Query(query') /\ ParseListParams(query').page = 1
      BY <2>1, <2>2, QueriesAssumption DEF params
    <3>2. opts'.offset = 0
      BY <2>1, <3>1, FirstPage DEF opts, params
    <3> QED
      BY <3>2, PlaceType
  <2> QED
    BY <2>1, <2>2 DEF MissInv, Unshrunk, Complete, StartStays, RestAfterSeen,
                      RestAfterPage, AllShown, ToShow
<1>2. CASE Asks
  <2>1. /\ phase = "next" /\ query' = query /\ UNCHANGED <<rows, first, start, seen, shrunk>>
        /\ \/ phase' = "run" /\ pending' = {"count", "select"}
           \/ phase' = "done" /\ status' = 400
    BY <1>2 DEF Asks, Continue, Request, Refused, Accepted
  <2>2. ~(phase' = "done" /\ status' = 200)
    BY <2>1
  <2>3. phase # "idle" /\ phase' # "idle"
    BY <2>1
  <2> QED
    BY <1>0, <2>1, <2>2, <2>3 DEF MissInv, Unshrunk, Complete, StartStays, RestAfterSeen,
                                  RestAfterPage, AllShown, ToShow
<1>3. CASE Answers
  <2>1. /\ Answer /\ phase = "run" /\ pending = {} /\ rows' = rows
        /\ seen' = seen \cup items /\ UNCHANGED <<first, start, shrunk>>
        /\ Query(query) /\ Parses(query)
    BY <1>3 DEF Answers, Answer, TypeOK
  <2>2. /\ opts.limit = params.size /\ params.size \in 1..100 /\ opts.offset \in Int
    BY <2>1, OptsFact
  <2>3. ASSUME Unshrunk
        PROVE  /\ start \subseteq Matching(rows, opts)
               /\ opts.offset >= 0
               /\ ToShow \subseteq items \/ Cardinality(items) = opts.limit
               /\ \A x \in ToShow' : Place(rows, opts, x) >= opts.offset + opts.limit
    BY <2>1, <2>3 DEF MissInv, Complete, StartStays, RestAfterPage, ToShow
  <2>4. CASE phase' = "done" /\ query' = query /\ Cardinality(items) < params.size
    <3>1. ASSUME Unshrunk PROVE ToShow' = {}
      <4>1. ~(Cardinality(items) = opts.limit)
        <5>1. items \in SUBSET Ids
          BY <2>1 DEF TypeOK
        <5>2. Cardinality(items) \in Nat
          BY <5>1, IdsAssumption, FS_Subset, FS_CardinalityType
        <5> QED
          BY <2>2, <2>4, <5>2
      <4> QED
        BY <2>1, <2>3, <3>1, <4>1 DEF ToShow
    <3>2. Unshrunk' => Unshrunk
      BY <1>0, <2>1, <2>4 DEF Unshrunk
    <3> QED
      BY <2>4, <3>1, <3>2 DEF MissInv, Complete, StartStays, RestAfterSeen,
                              RestAfterPage, AllShown
  <2>5. CASE phase' = "next" /\ query' = [query EXCEPT !.page = params.page + 1]
    <3>1. query' # query
      <4>1. params.page \in 1..MaxInt /\ (query.page # None => params.page = query.page)
        BY <2>1, ParsedParams DEF params, ParseListParams, parsePage
      <4>2. params.page + 1 # None /\ params.page + 1 # params.page
        BY <4>1, WidthFact, NaNAssumption
      <4>3. query'.page = params.page + 1
        BY <2>1, <2>5 DEF Query
      <4> QED
        BY <4>1, <4>2, <4>3
    <3>2. ASSUME Unshrunk
          PROVE  StartStays' /\ RestAfterSeen'
      <4>1. /\ Matching(rows', opts') = Matching(rows, opts)
            /\ \A x : Place(rows', opts', x) = Place(rows, opts, x)
            /\ Parses(query') =>
                   /\ opts'.offset \in Int
                   /\ opts'.offset <= opts.offset + opts.limit
        BY <2>1, <2>3, <3>1, <3>2, NextOffset
      <4>2. ASSUME Parses(query'), NEW x \in ToShow'
            PROVE  Place(rows', opts', x) >= opts'.offset
        <5>1. Place(rows, opts, x) >= opts.offset + opts.limit
          BY <2>3, <3>2, <4>2
        <5>2. opts'.offset \in Int /\ opts'.offset <= opts.offset + opts.limit
          BY <4>1, <4>2
        <5>3. Place(rows', opts', x) = Place(rows, opts, x) /\ Place(rows, opts, x) \in Nat
          BY <4>1, PlaceType
        <5> QED
          BY <2>2, <5>1, <5>2, <5>3
      <4> QED
        BY <2>1, <2>3, <3>2, <4>1, <4>2 DEF StartStays, RestAfterSeen
    <3>3. Unshrunk' => Unshrunk
      <4>1. query'.sort = query.sort
        BY <2>1, <2>5 DEF Query
      <4> QED
        BY <2>1, <4>1 DEF Unshrunk, TotalOrder
    <3> QED
      BY <2>5, <3>2, <3>3 DEF MissInv, Complete, RestAfterPage, AllShown
  <2> QED
    BY <2>1, <2>4, <2>5 DEF Answer
<1>4. CASE Changes
  <2>1. /\ phase # "idle" /\ UNCHANGED <<phase, query, pending, items, status>>
        /\ UNCHANGED <<first, start, seen>>
    BY <1>4, OthersFrame DEF Changes
  <2>2. phase # "done"
    BY <1>4 DEF Changes, Others, Insert, Put, SoftDelete, DropTenant, Write
  <2>3. ASSUME Unshrunk'
        PROVE  Complete'
    <3>1. /\ ~shrunk
          /\ \A x \in Matching(rows, opts) :
                /\ x \in Matching(rows', opts)
                /\ Place(rows, opts, x) <= Place(rows', opts, x)
      <4>1. ~shrunk' /\ ~shrunk
        BY <1>4, <2>3 DEF Changes, Unshrunk
      <4> QED
        BY <1>4, <4>1, GrowStep
    <3>2. Complete
      BY <1>0, <2>1, <2>3, <3>1 DEF MissInv, Unshrunk
    <3>3. start \subseteq Matching(rows, opts)
      <4>1. phase \in {"run", "next"}
        BY <2>1, <2>2 DEF TypeOK
      <4> QED
        BY <3>2, <4>1 DEF Complete, StartStays
    <3>4. opts' = opts /\ ToShow' = ToShow
      BY <1>0, <2>1 DEF ToShow
    <3>5. RestAfterSeen'
      <4>1. ASSUME phase \in {"run", "next"}, Parses(query), NEW x \in ToShow
            PROVE  Place(rows', opts, x) >= opts.offset
        <5>1. Place(rows, opts, x) >= opts.offset /\ opts.offset \in Int
          BY <2>1, <3>2, <4>1, OptsFact DEF Complete, RestAfterSeen
        <5>2. Place(rows, opts, x) <= Place(rows', opts, x)
          BY <3>1, <3>3, <4>1 DEF ToShow
        <5> QED
          BY <5>1, <5>2, PlaceType
      <4> QED
        BY <2>1, <3>4, <4>1 DEF RestAfterSeen
    <3>6. RestAfterPage'
      <4>1. ASSUME phase = "run", "select" \notin pending, NEW x \in ToShow \ items
            PROVE  Place(rows', opts, x) >= opts.offset + opts.limit
        <5>1. opts.offset + opts.limit \in Int
          <6>1. Parses(query)
            BY <4>1 DEF TypeOK
          <6>2. opts.offset \in Int /\ opts.limit \in 1..100
            BY <2>1, <6>1, OptsFact
          <6> QED
            BY <6>2
        <5>2. Place(rows, opts, x) >= opts.offset + opts.limit
          BY <3>2, <4>1 DEF Complete, RestAfterPage
        <5>3. Place(rows, opts, x) <= Place(rows', opts, x)
          BY <3>1, <3>3, <4>1 DEF ToShow
        <5> QED
          BY <5>1, <5>2, <5>3, PlaceType
      <4> QED
        BY <2>1, <3>2, <3>4, <4>1 DEF Complete, RestAfterPage
    <3>7. StartStays' /\ AllShown'
      BY <2>1, <2>2, <3>1, <3>3, <3>4 DEF StartStays, AllShown
    <3> QED
      BY <3>5, <3>6, <3>7 DEF Complete
  <2> QED
    BY <2>1, <2>3 DEF MissInv
<1>5. CASE Ignores
  <2>1. CASE Begin /\ phase' = "done"
    <3>1. status' = 400 /\ phase' = "done"
      BY <2>1 DEF Begin, Request, Refused, Accepted
    <3> QED
      BY <3>1 DEF MissInv, Complete, StartStays, RestAfterSeen, RestAfterPage, AllShown
  <2>2. CASE Count
    <3>1. /\ UNCHANGED <<phase, query, rows, items, status, first, start, seen, shrunk>>
          /\ pending' = pending \ {"count"}
      BY <1>5, <2>2 DEF Ignores, Count, walk
    <3>2. Unshrunk' <=> Unshrunk
      BY <1>0, <3>1 DEF Unshrunk
    <3> QED
      BY <1>0, <3>1, <3>2 DEF MissInv, Complete, StartStays, RestAfterSeen,
                              RestAfterPage, AllShown, ToShow
  <2>3. CASE Select
    <3>1. /\ phase = "run" /\ UNCHANGED <<phase, query, rows, status, first, start, seen, shrunk>>
      BY <1>5, <2>3 DEF Ignores, Select, walk
    <3>2. Query(query) /\ Parses(query) /\ Table(rows)
      BY <3>1 DEF TypeOK, Table
    <3>3. opts.offset \in Int /\ opts.limit \in 1..100
      BY <3>1, <3>2, OptsFact
    <3>4. opts.offset \in Nat /\ opts.limit \in Nat
      BY <2>3, <3>3 DEF Select, RefusedSelect
    <3>5. PICK plan \in Plans : items' = Selected(rows, opts, plan)
      BY <2>3 DEF Select
    <3>6. Unshrunk' <=> Unshrunk
      BY <1>0, <3>1 DEF Unshrunk
    <3>7. ASSUME Unshrunk PROVE RestAfterPage'
      <4>1. ASSUME NEW x \in ToShow \ items'
            PROVE  /\ Place(rows, opts, x) >= opts.offset + opts.limit
                   /\ Cardinality(items') = opts.limit
        <5>1. x \in Matching(rows, opts) /\ Place(rows, opts, x) >= opts.offset
          BY <3>1, <3>2, <3>7, <4>1 DEF MissInv, Complete, StartStays, RestAfterSeen, ToShow
        <5>2. NoTie(opts.sorts) /\ Sorts(opts.sorts)
          BY <3>2, <3>7, OptsSorts, ParsedSorts DEF NoTie, Unshrunk, TotalOrder, opts, params
        <5> QED
          BY <3>2, <3>4, <3>5, <4>1, <5>1, <5>2, AfterPage
      <4>2. ToShow \subseteq items' \/ Cardinality(items') = opts.limit
        BY <4>1
      <4> QED
        BY <1>0, <3>1, <3>4, <4>1, <4>2 DEF RestAfterPage, ToShow
    <3> QED
      BY <1>0, <3>1, <3>6, <3>7 DEF MissInv, Complete, StartStays, RestAfterSeen,
                                    AllShown, ToShow
  <2>4. CASE DbError
    <3>1. /\ phase = "run" /\ phase' \in {"next", "done"} /\ status' = 500
          /\ UNCHANGED <<query, rows, first, start, seen, shrunk>>
      BY <1>5, <2>4 DEF Ignores, DbError, Fail, walk
    <3>2. Unshrunk' => Unshrunk
      BY <1>0, <3>1 DEF Unshrunk
    <3>3. phase' # "run" /\ phase' # "idle" /\ ~(phase' = "done" /\ status' = 200)
      BY <3>1
    <3> QED
      BY <1>0, <3>1, <3>2, <3>3 DEF MissInv, Complete, StartStays, RestAfterSeen,
                                    RestAfterPage, AllShown, ToShow
  <2>5. CASE Others /\ phase = "idle"
    <3>1. phase' = "idle" /\ seen' = seen
      BY <1>5, <2>5, OthersFrame DEF Ignores, walk
    <3> QED
      BY <2>5, <3>1 DEF MissInv, Unshrunk
  <2> QED
    BY <1>5, <2>1, <2>2, <2>3, <2>4, <2>5 DEF Ignores
<1>6. CASE Leaves
  <2>1. phase' = "idle" /\ seen' = {}
    BY <1>6 DEF Leaves, Leave
  <2> QED
    BY <2>1 DEF MissInv, Unshrunk
<1>7. CASE UNCHANGED wvars
  <2>1. UNCHANGED <<phase, query, rows, pending, items, status, first, start, seen, shrunk>>
    BY <1>7 DEF wvars, vars, walk
  <2> QED
    BY <1>0, <2>1 DEF MissInv, Unshrunk, Complete, StartStays, RestAfterSeen,
                      RestAfterPage, AllShown, ToShow
<1> QED
  BY <1>1, <1>2, <1>3, <1>4, <1>5, <1>6, <1>7 DEF NextWalk

\* Insertions alone never keep a walk from page 1 from showing a row that
\* matched when it began.
THEOREM NothingMissedHolds == SpecWalk => []NothingMissed
<1>1. InitWalk => MissInv
  BY DEF InitWalk, Init, MissInv, Unshrunk
<1>2. MissInv => NothingMissed
  BY DEF MissInv, Unshrunk, Complete, AllShown, ToShow, NothingMissed
<1> QED
  BY <1>1, <1>2, TypeCorrect, MissStep, PTL DEF SpecWalk

=============================================================================
