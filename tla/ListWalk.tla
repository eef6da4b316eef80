------------------------------ MODULE ListWalk ------------------------------
(***************************************************************************)
(* CategoryList with a record of one walk through the list, from the first *)
(* page asked for to the short one, and of what the others' writes did to  *)
(* the rows that the walk is about.  The history variables observe each    *)
(* step and never restrict one.                                            *)
(***************************************************************************)
EXTENDS CategoryList

VARIABLES
    first,      \* the page the walk began with
    start,      \* the rows that matched when it began
    seen,       \* the rows on the pages answered so far
    twice,      \* a row was on two pages
    grew,       \* a write added a matching row since the walk began, or
                \* changed a column that the walk sorts by
    shrunk,     \* a write took one away, or changed such a column
    quiet       \* no write since the last page was asked for

walk  == <<first, start, seen, twice, grew, shrunk, quiet>>
wvars == <<vars, walk>>

InitWalk ==
    /\ Init
    /\ first = None /\ start = {} /\ seen = {} /\ twice = FALSE
    /\ grew = FALSE /\ shrunk = FALSE /\ quiet = TRUE

Begins ==
    /\ Begin /\ phase' = "run"
    /\ first' = params'.page /\ start' = Matching(rows, opts')
    /\ UNCHANGED <<seen, twice, grew, shrunk, quiet>>

Asks == Continue /\ quiet' = TRUE /\ UNCHANGED <<first, start, seen, twice, grew, shrunk>>

Answers ==
    /\ Answer
    /\ seen' = seen \cup items
    /\ twice' = (twice \/ seen \cap items # {})
    /\ UNCHANGED <<first, start, grew, shrunk, quiet>>

\* A write leaves the place of id in a sort by field.
Stays(id, field) == Key(rows', id, field) = Key(rows, id, field)

Changes ==
    LET old   == Matching(rows, opts)
        new   == Matching(rows', opts)
        moved == \E id \in old \cap new, i \in DOMAIN query.sort :
                     ~Stays(id, query.sort[i].field)
    IN  /\ Others /\ phase # "idle"
        /\ grew' = (grew \/ moved \/ ~(new \subseteq old))
        /\ shrunk' = (shrunk \/ moved \/ ~(old \subseteq new))
        /\ quiet' = (quiet /\ rows' = rows)
        /\ UNCHANGED <<first, start, seen, twice>>

Ignores ==
    /\ \/ Begin /\ phase' = "done"
       \/ Count \/ Select \/ DbError
       \/ Others /\ phase = "idle"
    /\ UNCHANGED walk

Leaves ==
    /\ Leave
    /\ first' = None /\ start' = {} /\ seen' = {} /\ twice' = FALSE
    /\ grew' = FALSE /\ shrunk' = FALSE /\ quiet' = TRUE

NextWalk == Begins \/ Asks \/ Answers \/ Changes \/ Ignores \/ Leaves

SpecWalk == InitWalk /\ [][NextWalk]_wvars

-----------------------------------------------------------------------------

\* The sorts leave no tie: one of them is by id.
TotalOrder == \E i \in DOMAIN query.sort : query.sort[i].field = "id"

\* The row after the last one of the page has a number that an int holds.
InRange == params.page * params.size <= MaxInt

\* Deletions alone never make a row appear on two pages, when the sorts leave
\* no tie, however long the walk takes and however often a page fails and is
\* asked for again (category_service.go:181, the offset of the next page;
\* handler comment "sort=name,ASC&sort=id,DESC").
NothingTwice == phase # "idle" /\ TotalOrder /\ ~grew => ~twice

\* A walk from page 1 to the short page has shown every row that matched when
\* it began, when the sorts leave no tie and rows are only added
\* (category_service.go:181; FEATURES.md:38 "paginated, filtered, sorted").
NothingMissed ==
    phase = "done" /\ status = 200 /\ first = 1 /\ TotalOrder /\ ~shrunk
        => start \subseteq seen

\* A page that has rows comes after those of the pages before it: "1-based page
\* number" (list.go:65) and "items per page" (list.go:66).
PageIsNumbered ==
    phase = "run" /\ pending = {} /\ quiet /\ items # {} =>
        total > (params.page - 1) * params.size

Least(a, b) == IF a < b THEN a ELSE b

\* An answer to which no write came in between is right: total counts the live
\* rows with the values that were asked for, the page has as many of them as
\* its number and the reported size say, the rows left out before and after it
\* are really before and after, and the size reported is the size used
\* (list.go:60-68, category_service.go:157-162, auditable_repository.go:79-93).
AnswerConsistent ==
    LET size   == params.size
        offset == (params.page - 1) * size
        Wanted(f) == f \in eventCategoryListConfig.AllowedFilterFields
        shown  == {id \in Ids : Live(rows[id]) /\
                      \A f \in DOMAIN query.filters :
                          Wanted(f) => rows[id][f] = query.filters[f]}
        From(x) == {y \in shown \ items : ~Precedes(rows, query.sort, x, y)}
        Upto(x) == {y \in shown \ items : Precedes(rows, query.sort, y, x)}
    IN  phase = "run" /\ pending = {} /\ quiet /\ InRange =>
            /\ total = Cardinality(shown)
            /\ items \subseteq shown
            /\ Cardinality(items) =
                   IF total <= offset THEN 0 ELSE Least(size, total - offset)
            /\ \A x \in items : /\ Cardinality(Upto(x)) <= offset
                                /\ Cardinality(From(x)) >= offset
            /\ opts.limit = size

=============================================================================
