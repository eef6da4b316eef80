----------------------------- MODULE ListQuery -----------------------------
(***************************************************************************)
(* GET /event-categories as functions, without state: the query string,    *)
(* what internal/core/query makes of it (page, size, sorts, filters), the  *)
(* repository options that the service computes, the condition that the    *)
(* audit decorator adds, and what the two SQL queries answer for a table.  *)
(*                                                                         *)
(* Go's int has a width: it matters in offset = (page - 1) * size.         *)
(***************************************************************************)
EXTENDS EventCategories, Integers, Sequences, FiniteSets

CONSTANTS
    NaN,        \* a parameter that is no number, and no UUID as a filter
    MaxInt,     \* the largest int, 2^63 - 1 on the platforms in use
    Collation   \* for each column, the place of each value in the SQL order

\* A query string.  None is an absent parameter.  A sort without a comma, or
\* with a direction that is neither ASC nor DESC, has direction "other".
Query(q) ==
    /\ DOMAIN q = {"page", "size", "sort", "filters"}
    /\ q.page \in Int \cup {NaN, None} /\ q.size \in Int \cup {NaN, None}
    /\ DOMAIN q.sort = 1..Len(q.sort) /\ Len(q.sort) \in Nat
    /\ \A i \in DOMAIN q.sort : q.sort[i].direction \in {"ASC", "DESC", "other"}

-----------------------------------------------------------------------------
(* internal/core/query/list.go                                             *)

DefaultPage == 1
DefaultSize == 20
DefaultMaxSize == 100

eventCategoryListConfig ==
    [DefaultPage |-> 0, DefaultSize |-> 0, MaxSize |-> 0,
     AllowedSortFields |->
        {"id", "source", "tenant_id", "name", "created_at", "updated_at"},
     AllowedFilterFields |-> {"name", "source", "tenant_id"}]

withDefaults(c) ==
    [c EXCEPT !.DefaultPage = IF @ <= 0 THEN DefaultPage ELSE @,
              !.DefaultSize = IF @ <= 0 THEN DefaultSize ELSE @,
              !.MaxSize     = IF @ <= 0 THEN DefaultMaxSize ELSE @]

\* strconv.Atoi accepts v: a number that fits an int.
Atoi(v) == v \in -(MaxInt + 1)..MaxInt

Positive(v) == Atoi(v) /\ v >= 1

\* An absent page or size is the default; a size over MaxSize is clamped.
parsePage(q, cfg) == IF q.page = None THEN cfg.DefaultPage ELSE q.page
parseSize(q, cfg) ==
    LET size == IF q.size = None THEN cfg.DefaultSize ELSE q.size
    IN  IF size > cfg.MaxSize THEN cfg.MaxSize ELSE size

parseSorts(q) == q.sort
SortsAllowed(q, cfg) ==
    \A i \in DOMAIN q.sort :
        /\ q.sort[i].field \in cfg.AllowedSortFields
        /\ q.sort[i].direction \in {"ASC", "DESC"}

\* Keys outside the allow-list are ignored, not refused.
parseFilters(q, cfg) ==
    [f \in DOMAIN q.filters \cap cfg.AllowedFilterFields |-> q.filters[f]]

\* ParseListParams returns no error.
Parses(q) ==
    /\ q.page = None \/ Positive(q.page)
    /\ q.size = None \/ Positive(q.size)
    /\ SortsAllowed(q, eventCategoryListConfig)

ParseListParams(q) ==
    LET cfg == withDefaults(eventCategoryListConfig) IN
    [page    |-> parsePage(q, cfg),
     size    |-> parseSize(q, cfg),
     sorts   |-> parseSorts(q),
     filters |-> parseFilters(q, cfg)]

-----------------------------------------------------------------------------
(* The options of the repository, and the decorator's condition.           *)

\* What an int holds of a mathematical result: two's complement.
Wrap(n) == ((n + MaxInt + 1) % (2 * (MaxInt + 1))) - (MaxInt + 1)

\* Mutants: pages that share a row, and pages counted from zero.
OffsetSharesRow(page, size) == Wrap((page - 1) * (size - 1))
OffsetFromZero(page, size) == Wrap(page * size)

Offset(page, size) == Wrap((page - 1) * size)

\* The clamps of the parser once more.
listParamsToListOptions(params) ==
    LET page == IF params.page < 1 THEN 1 ELSE params.page
        size == IF params.size < 1 THEN 20
                ELSE IF params.size > 100 THEN 100 ELSE params.size
    IN  [conditions |-> {[field |-> f, operator |-> "=", value |-> params.filters[f]] :
                             f \in DOMAIN params.filters},
         limit      |-> size,
         offset     |-> Offset(page, size),
         sorts      |-> params.sorts]

\* Mutant: the decorator delegates List as it is.
appendNothing(conditions) == conditions

appendSoftDeleteFilter(conditions) ==
    conditions \cup {[field |-> "deleted_at", operator |-> "IS NULL", value |-> None]}

Options(params) ==
    [listParamsToListOptions(params) EXCEPT !.conditions = appendSoftDeleteFilter(@)]

-----------------------------------------------------------------------------
(* SQL, by the meaning of WHERE, ORDER BY, LIMIT and OFFSET.               *)

Satisfies(e, c) ==
    \/ c.operator = "=" /\ e[c.field] = c.value
    \/ c.operator = "IS NULL" /\ e[c.field] = None

Matching(table, o) ==
    {id \in Ids : table[id] # None /\ \A c \in o.conditions : Satisfies(table[id], c)}

\* PostgreSQL refuses an OFFSET below zero, and a tenant_id that is no UUID.
RefusedWhere(o) == \E c \in o.conditions : c.field = "tenant_id" /\ c.value = NaN
RefusedSelect(o) == RefusedWhere(o) \/ o.offset < 0

Key(table, id, field) ==
    Collation[field][IF field = "id" THEN id ELSE table[id][field]]

Comes(table, s, x, y) ==
    \/ s.direction = "ASC"  /\ Key(table, x, s.field) < Key(table, y, s.field)
    \/ s.direction = "DESC" /\ Key(table, y, s.field) < Key(table, x, s.field)

Same(table, s, x, y) == Key(table, x, s.field) = Key(table, y, s.field)

\* x is before y in the order that the sorts ask for.
Precedes(table, sorts, x, y) ==
    \E i \in DOMAIN sorts :
        /\ Comes(table, sorts[i], x, y)
        /\ \A j \in 1..(i - 1) : Same(table, sorts[j], x, y)

\* Rows that tie come in whatever order the plan of this SELECT has.
Plans == {p \in [Ids -> 1..Cardinality(Ids)] : \A x, y \in Ids : p[x] = p[y] => x = y}

Before(table, sorts, plan, x, y) ==
    \/ Precedes(table, sorts, x, y)
    \/ /\ \A i \in DOMAIN sorts : Same(table, sorts[i], x, y)
       /\ plan[x] < plan[y]

Rank(table, o, plan, x) ==
    Cardinality({y \in Matching(table, o) : Before(table, o.sorts, plan, y, x)})

\* The rows of SELECT ... LIMIT o.limit OFFSET o.offset.
Selected(table, o, plan) ==
    {x \in Matching(table, o) :
        /\ o.offset <= Rank(table, o, plan, x)
        /\ Rank(table, o, plan, x) < o.offset + o.limit}

-----------------------------------------------------------------------------

Columns == eventCategoryListConfig.AllowedSortFields

ValuesOf(column) ==
    CASE column = "id"        -> Ids
      [] column = "source"    -> Sources
      [] column = "tenant_id" -> Tenants \cup {None}
      [] column = "name"      -> Names
      [] OTHER                -> Stamps

ASSUME IdsAssumption == IsFiniteSet(Ids)

ASSUME WidthAssumption == MaxInt \in Nat /\ MaxInt >= DefaultMaxSize

\* Values that differ have different places; time stamps are ordered by time.
ASSUME CollationAssumption ==
    \A c \in Columns : \A v, w \in ValuesOf(c) :
        /\ Collation[c][v] \in Int
        /\ Collation[c][v] = Collation[c][w] => v = w
        /\ c \in {"created_at", "updated_at"} /\ v < w => Collation[c][v] < Collation[c][w]

ASSUME NaNAssumption ==
    /\ NaN # None /\ NaN \notin Int
    /\ None \notin Int

=============================================================================
