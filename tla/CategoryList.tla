---------------------------- MODULE CategoryList ----------------------------
(***************************************************************************)
(* A client that reads the list of categories page by page, over a table   *)
(* that other requests change meanwhile.                                   *)
(*                                                                         *)
(* One GET of a page is handler -> service -> decorators -> two SQL        *)
(* statements, one that counts the matching rows and one that selects the  *)
(* page, each of which sees the table at a moment of its own; go-sdk may   *)
(* run them in either order.  The cache decorator does not cache lists.    *)
(*                                                                         *)
(* The writes of the others are those that CategoryService commits.  A PUT *)
(* or a DELETE writes the whole row it once read, from the cache even, and *)
(* may put back what another one changed since, a deletion included.  The  *)
(* tenants are left out: a write may name one that is gone.                *)
(***************************************************************************)
EXTENDS ListQuery

CONSTANTS
    Queries,    \* what clients may ask for first
    Bodies      \* the inputs of POST and PUT that the others send

VARIABLES
    rows,       \* event_categories: entity or None, by id
    versions,   \* the live entities that each row has ever been, by id: what a
                \* request in flight may hold
    clock,      \* wall clock read by time.Now, non-decreasing
    phase,      \* the client: "idle", waiting in "run", asks the "next" page
                \* or the same one again, has "done" with the list
    query,      \* the query of the page in "run", of the next one in "next"
    pending,    \* statements of the List in progress still to run
    total,      \* what the count returned, None otherwise
    items,      \* the ids on the page, None otherwise
    status      \* HTTP status of the last answer, None while in phase "run"

table == <<rows, versions, clock>>
call  == <<phase, query, pending, total, items, status>>
vars  == <<rows, versions, clock, phase, query, pending, total, items, status>>

params == ParseListParams(query)
opts == Options(params)

Init ==
    /\ rows = [i \in Ids |-> None] /\ versions = [i \in Ids |-> {}] /\ clock = 0
    /\ phase = "idle" /\ query = None
    /\ pending = {} /\ total = None /\ items = None /\ status = None

-----------------------------------------------------------------------------
(* CategoryHandler.List                                                    *)

\* Of a query q that does not parse: 400.
Refused(q) ==
    /\ ~Parses(q)
    /\ phase' = "done" /\ pending' = {} /\ status' = 400

Accepted(q) ==
    /\ Parses(q)
    /\ phase' = "run" /\ pending' = {"count", "select"} /\ status' = None

Request(q) ==
    /\ query' = q
    /\ Refused(q) \/ Accepted(q)
    /\ total' = None /\ items' = None
    /\ UNCHANGED table

Begin == phase = "idle" /\ \E q \in Queries : Request(q)
Continue == phase = "next" /\ Request(query)

Count ==
    /\ phase = "run" /\ "count" \in pending /\ ~RefusedWhere(opts)
    /\ pending' = pending \ {"count"}
    /\ total' = Cardinality(Matching(rows, opts))
    /\ UNCHANGED <<table, phase, query, items, status>>

Select ==
    /\ phase = "run" /\ "select" \in pending /\ ~RefusedSelect(opts)
    /\ pending' = pending \ {"select"}
    /\ \E plan \in Plans : items' = Selected(rows, opts, plan)
    /\ UNCHANGED <<table, phase, query, total, status>>

\* The client goes on until a page is short.
Answer ==
    /\ phase = "run" /\ pending = {}
    /\ status' = 200
    /\ \/ /\ Cardinality(items) = params.size
          /\ phase' = "next" /\ query' = [query EXCEPT !.page = params.page + 1]
       \/ /\ Cardinality(items) < params.size
          /\ phase' = "done" /\ UNCHANGED query
    /\ total' = None /\ items' = None
    /\ UNCHANGED <<table, pending>>

\* Mutant: the answer to a page whose query failed is sent later.
FailLater == pending' = pending /\ phase' = "next" /\ status' = 500

\* 500: the client asks for the page again, or gives up.
Fail == pending' = {} /\ phase' \in {"next", "done"} /\ status' = 500

\* The database refuses a statement, or fails, or the request's context ends.
DbError ==
    /\ phase = "run" /\ pending # {}
    /\ Fail
    /\ total' = None /\ items' = None
    /\ UNCHANGED <<table, query>>

\* The client forgets the list, and another one may begin.
Leave ==
    /\ phase = "done" /\ phase' = "idle"
    /\ query' = None /\ status' = None
    /\ UNCHANGED <<table, pending, total, items>>

-----------------------------------------------------------------------------
(* What other requests do to the table while the client is there, and      *)
(* before it comes.                                                        *)

\* A write was stamped when it was sent, or before.
Write(id, e) ==
    /\ phase # "done"
    /\ rows' = [rows EXCEPT ![id] = e]
    /\ versions' = IF Live(e) THEN [versions EXCEPT ![id] = @ \cup {e}] ELSE versions
    /\ clock' \in clock..MaxClock /\ e.updated_at <= clock'
    /\ UNCHANGED call

\* No id is drawn twice.
Insert(id) ==
    /\ rows[id] = None /\ versions[id] = {}
    /\ \E in \in Bodies, now \in Stamps :
          in.method = "POST" /\ Write(id, Created(in, now))

Put(id) ==
    /\ rows[id] # None
    /\ \E in \in Bodies, e \in versions[id], now \in Stamps :
          /\ in.method = "PUT" /\ in.id = id /\ now >= e.updated_at
          /\ SourceRule(Updated(e, in, now))
          /\ Write(id, Updated(e, in, now))

SoftDelete(id) ==
    /\ rows[id] # None
    /\ \E e \in versions[id], now \in Stamps :
          now >= e.updated_at /\ Write(id, Deleted(e, now))

\* ON DELETE CASCADE.
DropTenant(t) ==
    /\ phase # "done"
    /\ rows' = [id \in Ids |->
          IF rows[id] # None /\ rows[id].tenant_id = t THEN None ELSE rows[id]]
    /\ UNCHANGED <<versions, clock, call>>

Others ==
    \/ \E id \in Ids : Insert(id) \/ Put(id) \/ SoftDelete(id)
    \/ \E t \in Tenants : DropTenant(t)

List == Begin \/ Continue \/ Count \/ Select \/ Answer \/ DbError \/ Leave

Next == List \/ Others

Spec == Init /\ [][Next]_vars

-----------------------------------------------------------------------------

ASSUME BodiesAssumption ==
    \A in \in Bodies : in \in Input /\ in.method \in {"POST", "PUT"} /\ WellFormed(in)
                         /\ (in.method = "POST" => SourceRule(in))

ASSUME QueriesAssumption == \A q \in Queries : Query(q)

\* The type of every variable.  A List that has run its statements has both
\* results, and one that has ended leaves none to run.
TypeOK ==
    /\ rows \in [Ids -> EventCategory \cup {None}]
    /\ versions \in [Ids -> SUBSET EventCategory]
    /\ clock \in Stamps
    /\ phase \in {"idle", "run", "next", "done"}
    /\ IF phase = "idle" THEN query = None ELSE Query(query)
    /\ phase = "run" => Parses(query)
    /\ pending \subseteq {"count", "select"}
    /\ phase # "run" => pending = {}
    /\ phase = "run" /\ "count" \notin pending => total \in Nat
    /\ phase = "run" /\ "select" \notin pending => items \in SUBSET Ids
    /\ status \in {None, 200, 400, 500}

=============================================================================
