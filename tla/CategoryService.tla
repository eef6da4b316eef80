-------------------------- MODULE CategoryService --------------------------
(***************************************************************************)
(* The event-category service: HTTP requests, each in a goroutine of its   *)
(* own, that run handler -> service -> cache decorator -> audit decorator  *)
(* -> SQL over one table, event_categories, and one Redis keyspace.        *)
(*                                                                         *)
(* A request is split where other requests can run between two of its      *)
(* steps: at every call to Redis or to the database.  What happens between *)
(* two such calls (validation, merging, stamping) is local to the request; *)
(* stamping has a step of its own because it reads the shared clock and    *)
(* the write it belongs to happens later.                                  *)
(*                                                                         *)
(*   GET     [lookup]   read   [fill]                         -> 200, 404  *)
(*   PUT     [lookup]   read   [fill]  stamp  write [refresh] -> 200, ...  *)
(*   DELETE             read           stamp  write [refresh] -> 204, ...  *)
(*   POST                              stamp  write [refresh] -> 201, ...  *)
(*                                                                         *)
(* Steps in brackets exist only when the cache decorator is installed;     *)
(* with the write_through strategy a refetch precedes the refresh.         *)
(***************************************************************************)
EXTENDS EventCategories

CONSTANTS
    Requests,      \* request slots: how many requests may be in flight
    Inputs,        \* the requests that clients send
    CacheEnabled,  \* CacheOptions.Enabled and a non-nil Redis client
    Strategy,      \* CacheConfig.Strategy
    Faults         \* the faults that may happen, out of AllFaults

AllFaults == {"db_error", "lost_reply", "cache_error", "crash", "tenant_drop"}

\* The strategy NewRepository gets: "" and write_behind mean write_around.
ResolveStrategy ==
    IF Strategy = "write_through" THEN "write_through" ELSE "write_around"

ASSUME ConstantsAssumption ==
    /\ CacheEnabled \in BOOLEAN
    /\ Strategy \in {"", "write_around", "write_through", "write_behind"}
    /\ Faults \subseteq AllFaults
    /\ \A in \in Inputs : in \in Input /\ (in.method = "POST" <=> in.id = None)

VARIABLES
    tenants,   \* rows of the tenants table, which event_categories references
    rows,      \* event_categories: entity or None, by id
    cache,     \* Redis: entity or None, by id
    clock,     \* wall clock read by time.Now, non-decreasing
    issued,    \* ids uuid.New has returned
    pc,        \* next step of each request, "done" when answered
    req,       \* the request being served, or served last, in each slot
    held,      \* entity the service holds; the response body once answered
    fill,      \* value on its way to the cache; None deletes the key
    status     \* HTTP status of the answer, None while in flight

store == <<tenants, rows, cache, clock, issued>>
local == <<pc, req, held, fill, status>>
vars  == <<tenants, rows, cache, clock, issued, pc, req, held, fill, status>>

-----------------------------------------------------------------------------

\* Mutant: a table without chk_app_tenant_id.
ReferenceOnly(e) == e.tenant_id # None => e.tenant_id \in tenants

\* What the table accepts: chk_app_tenant_id and the reference to tenants.
Constraints(e) ==
    /\ SourceRule(e)
    /\ e.tenant_id # None => e.tenant_id \in tenants

Goto(r, label) == pc' = [pc EXCEPT ![r] = label]

\* The handler returns: code and body are what the client receives.
Reply(r, code, body) ==
    /\ Goto(r, "done")
    /\ status' = [status EXCEPT ![r] = code]
    /\ held'   = [held EXCEPT ![r] = body]
    /\ fill'   = [fill EXCEPT ![r] = None]
    /\ UNCHANGED req

\* A DELETE is answered without a body.
Succeed(r) ==
    Reply(r, Success(req[r].method),
             IF req[r].method = "DELETE" THEN None ELSE held[r])

Init ==
    /\ tenants \in SUBSET Tenants
    /\ rows  = [i \in Ids |-> None]
    /\ cache = [i \in Ids |-> None]
    /\ clock = 0
    /\ issued = {}
    /\ pc = [r \in Requests |-> "done"]
    /\ req = [r \in Requests |-> None]
    /\ held = [r \in Requests |-> None]
    /\ fill = [r \in Requests |-> None]
    /\ status = [r \in Requests |-> None]

-----------------------------------------------------------------------------
(* Arrival.  The slot forgets the request it served before.                *)

FirstStep(method) ==
    IF method = "POST" THEN "stamp"
    ELSE IF method # "DELETE" /\ CacheEnabled THEN "lookup" ELSE "read"

Arrive(r, in, label, code) ==
    /\ pc[r] = "done"
    /\ Goto(r, label)
    /\ req'    = [req EXCEPT ![r] = in]
    /\ held'   = [held EXCEPT ![r] = None]
    /\ fill'   = [fill EXCEPT ![r] = None]
    /\ status' = [status EXCEPT ![r] = code]
    /\ UNCHANGED <<tenants, rows, cache, clock>>

\* 400 from the boundary, or from Create's own check of the rule.
Reject(r) ==
    \E in \in Inputs :
        /\ \/ ~WellFormed(in)
           \/ in.method = "POST" /\ ~SourceRule(in)
        /\ Arrive(r, in, "done", 400)
        /\ UNCHANGED issued

Accept(r) ==
    \E in \in Inputs :
        /\ in.method # "POST"
        /\ WellFormed(in)
        /\ Arrive(r, in, FirstStep(in.method), None)
        /\ UNCHANGED issued

\* Create draws a fresh id once the rule holds.
AcceptCreate(r) ==
    \E in \in Inputs, id \in Ids \ issued :
        /\ in.method = "POST"
        /\ WellFormed(in)
        /\ SourceRule(in)
        /\ Arrive(r, [in EXCEPT !.id = id], "stamp", None)
        /\ issued' = issued \cup {id}

-----------------------------------------------------------------------------
(* Reading, for GET and PUT through the cache decorator when it is there,  *)
(* for DELETE always straight from the table.                              *)

\* GetByID returned e to the service: a GET answers, a PUT or DELETE goes on.
Obtain(r, e) ==
    IF req[r].method = "GET"
    THEN Reply(r, 200, e)
    ELSE /\ Goto(r, "stamp")
         /\ held' = [held EXCEPT ![r] = e]
         /\ fill' = [fill EXCEPT ![r] = None]
         /\ UNCHANGED <<req, status>>

CacheHit(r) ==
    /\ pc[r] = "lookup"
    /\ cache[req[r].id] # None
    /\ Obtain(r, cache[req[r].id])
    /\ UNCHANGED store

CacheMiss(r) ==
    /\ pc[r] = "lookup"
    /\ cache[req[r].id] = None
    /\ Goto(r, "read")
    /\ UNCHANGED <<req, held, fill, status, store>>

\* The audit decorator hides soft-deleted rows; NotFound is not cached.
ReadMissing(r) ==
    /\ pc[r] = "read"
    /\ ~Live(rows[req[r].id])
    /\ Reply(r, 404, None)
    /\ UNCHANGED store

ReadUncached(r) ==
    /\ pc[r] = "read"
    /\ Live(rows[req[r].id])
    /\ req[r].method = "DELETE" \/ ~CacheEnabled
    /\ Obtain(r, rows[req[r].id])
    /\ UNCHANGED store

ReadThrough(r) ==
    /\ pc[r] = "read"
    /\ Live(rows[req[r].id])
    /\ req[r].method # "DELETE" /\ CacheEnabled
    /\ Goto(r, "fill")
    /\ held' = [held EXCEPT ![r] = rows[req[r].id]]
    /\ fill' = [fill EXCEPT ![r] = rows[req[r].id]]
    /\ UNCHANGED <<req, status, store>>

Fill(r) ==
    /\ pc[r] = "fill"
    /\ cache' = [cache EXCEPT ![req[r].id] = fill[r]]
    /\ Obtain(r, held[r])
    /\ UNCHANGED <<tenants, rows, clock, issued>>

-----------------------------------------------------------------------------
(* Stamping, in the audit decorator, just before the write is sent.        *)

Stamp(r, e) ==
    /\ pc[r] = "stamp"
    /\ Goto(r, "write")
    /\ held' = [held EXCEPT ![r] = e]
    /\ UNCHANGED <<req, fill, status, tenants, rows, cache, issued>>

\* time.Now: the clock may stand still between two readings, or advance.
TimeNow(now) ==
    /\ now \in {clock, clock + 1}
    /\ now <= MaxClock
    /\ clock' = now

StampCreate(r) ==
    /\ req[r] # None /\ req[r].method = "POST"
    /\ \E now \in Stamps :
        /\ TimeNow(now)
        /\ Stamp(r, Created(req[r], now))

\* Mutant: the entity is cached before the database has it.
StampUpdateAndCache(r) ==
    /\ req[r] # None /\ req[r].method = "PUT"
    /\ pc[r] = "stamp"
    /\ \E now \in Stamps :
        LET e == Updated(held[r], req[r], now)
        IN  /\ TimeNow(now)
            /\ held' = [held EXCEPT ![r] = e]
            /\ cache' = [cache EXCEPT ![req[r].id] = e]
    /\ Goto(r, "write")
    /\ UNCHANGED <<req, fill, status, tenants, rows, issued>>

StampUpdate(r) ==
    /\ req[r] # None /\ req[r].method = "PUT"
    /\ \E now \in Stamps :
        /\ TimeNow(now)
        /\ Stamp(r, Updated(held[r], req[r], now))

StampDelete(r) ==
    /\ req[r] # None /\ req[r].method = "DELETE"
    /\ \E now \in Stamps :
        /\ TimeNow(now)
        /\ Stamp(r, Deleted(held[r], now))

-----------------------------------------------------------------------------
(* Writing.  INSERT for a POST; for a PUT and a DELETE one UPDATE ... WHERE *)
(* id = ... that sets every column to the value the entity in hand has.    *)

\* After the commit the decorator deletes the key, or, with write_through
\* and unless the request was a DELETE, re-reads the row to cache it.
Written(r) ==
    IF ~CacheEnabled
    THEN Succeed(r)
    ELSE /\ Goto(r, IF ResolveStrategy = "write_through" /\ req[r].method # "DELETE"
                    THEN "refetch" ELSE "refresh")
         /\ UNCHANGED <<req, held, fill, status>>

Insert(r) ==
    /\ pc[r] = "write"
    /\ req[r].method = "POST"
    /\ Constraints(held[r])
    /\ rows' = [rows EXCEPT ![req[r].id] = held[r]]
    /\ Written(r)
    /\ UNCHANGED <<tenants, cache, clock, issued>>

\* Whether the SQL layer reports the constraint as ErrInvalidEntity is its own
\* business: the service answers 422 if it does and 500 if it does not.
InsertRefused(r) ==
    /\ pc[r] = "write"
    /\ req[r].method = "POST"
    /\ ~Constraints(held[r])
    /\ \E code \in {422, 500} : Reply(r, code, None)
    /\ UNCHANGED store

\* Mutant: the write inserts the row if it is not there.
WriteBackUpserts(r) ==
    /\ pc[r] = "write"
    /\ req[r].method # "POST"
    /\ Constraints(held[r])
    /\ rows' = [rows EXCEPT ![req[r].id] = held[r]]
    /\ Written(r)
    /\ UNCHANGED <<tenants, cache, clock, issued>>

WriteBack(r) ==
    /\ pc[r] = "write"
    /\ req[r].method # "POST"
    /\ rows[req[r].id] # None
    /\ Constraints(held[r])
    /\ rows' = [rows EXCEPT ![req[r].id] = held[r]]
    /\ Written(r)
    /\ UNCHANGED <<tenants, cache, clock, issued>>

\* Mutant: a row that somebody updated since counts as not found.
WriteMissingOrNewer(r) ==
    /\ pc[r] = "write"
    /\ req[r].method # "POST"
    /\ \/ rows[req[r].id] = None
       \/ rows[req[r].id].updated_at > held[r].updated_at
    /\ Reply(r, 404, None)
    /\ UNCHANGED store

\* No row has the id any more: the UPDATE matches nothing, ErrNotFound.
WriteMissing(r) ==
    /\ pc[r] = "write"
    /\ req[r].method # "POST"
    /\ rows[req[r].id] = None
    /\ Reply(r, 404, None)
    /\ UNCHANGED store

\* Update and Delete translate ErrNotFound only: a refused row is a 500.
WriteRefused(r) ==
    /\ pc[r] = "write"
    /\ req[r].method # "POST"
    /\ rows[req[r].id] # None
    /\ ~Constraints(held[r])
    /\ Reply(r, 500, None)
    /\ UNCHANGED store

-----------------------------------------------------------------------------
(* Bringing the cache in line after a commit.                              *)

\* write_through re-reads through the audit decorator, so a row that is gone
\* or soft-deleted by now leaves nothing to cache.
Refetch(r) ==
    /\ pc[r] = "refetch"
    /\ Goto(r, "refresh")
    /\ fill' = [fill EXCEPT ![r] =
                   IF Live(rows[req[r].id]) THEN rows[req[r].id] ELSE None]
    /\ UNCHANGED <<req, held, status, store>>

Refresh(r) ==
    /\ pc[r] = "refresh"
    /\ cache' = [cache EXCEPT ![req[r].id] = fill[r]]
    /\ Succeed(r)
    /\ UNCHANGED <<tenants, rows, clock, issued>>

-----------------------------------------------------------------------------
(* Faults, and what happens outside the service.                           *)

\* The database fails a read or a write, or the request's context ends there.
DbError(r) ==
    /\ "db_error" \in Faults
    /\ pc[r] \in {"read", "write"}
    /\ Reply(r, 500, None)
    /\ UNCHANGED store

\* The database commits the write and its answer does not come back (the
\* connection or the request's context ends): an error like any other.
LostReply(r) ==
    /\ "lost_reply" \in Faults
    /\ pc[r] = "write"
    /\ req[r].method = "POST" \/ rows[req[r].id] # None
    /\ Constraints(held[r])
    /\ rows' = [rows EXCEPT ![req[r].id] = held[r]]
    /\ Reply(r, 500, None)
    /\ UNCHANGED <<tenants, cache, clock, issued>>

\* Redis fails: the decorator goes on without the cache or returns the error.
CacheError(r) ==
    /\ "cache_error" \in Faults
    /\ \/ /\ pc[r] = "lookup"
          /\ Goto(r, "read")
          /\ UNCHANGED <<req, held, fill, status>>
       \/ pc[r] = "fill" /\ Obtain(r, held[r])
       \/ pc[r] \in {"refetch", "refresh"} /\ Succeed(r)
       \/ /\ pc[r] \in {"lookup", "fill", "refetch", "refresh"}
          /\ Reply(r, 500, None)
    /\ UNCHANGED store

\* The process dies, or is closed with requests in flight, and starts again:
\* the table and the keyspace survive, no request in flight is answered.
Crash ==
    /\ "crash" \in Faults
    /\ \E r \in Requests : pc[r] # "done"
    /\ LET Lost(r) == pc[r] # "done"
       IN  /\ held' = [r \in Requests |-> IF Lost(r) THEN None ELSE held[r]]
           /\ fill' = [r \in Requests |-> None]
           /\ pc'   = [r \in Requests |-> "done"]
    /\ UNCHANGED <<req, status, store>>

\* Mutant: entries are stored without a TTL.
ExpireNever(id) == FALSE /\ UNCHANGED vars

\* The TTL of an entry runs out.
Expire(id) ==
    /\ cache[id] # None
    /\ cache' = [cache EXCEPT ![id] = None]
    /\ UNCHANGED <<tenants, rows, clock, issued, local>>

\* A tenant is deleted: its categories go with it (ON DELETE CASCADE).
DropTenant(t) ==
    /\ "tenant_drop" \in Faults
    /\ t \in tenants
    /\ tenants' = tenants \ {t}
    /\ rows' = [id \in Ids |->
                  IF rows[id] # None /\ rows[id].tenant_id = t
                  THEN None ELSE rows[id]]
    /\ UNCHANGED <<cache, clock, issued, local>>

-----------------------------------------------------------------------------

\* The steps the service takes for a request once it has accepted it.
Serve(r) ==
    \/ CacheHit(r) \/ CacheMiss(r)
    \/ ReadMissing(r) \/ ReadUncached(r) \/ ReadThrough(r) \/ Fill(r)
    \/ StampCreate(r) \/ StampUpdate(r) \/ StampDelete(r)
    \/ Insert(r) \/ InsertRefused(r)
    \/ WriteBack(r) \/ WriteMissing(r) \/ WriteRefused(r)
    \/ Refetch(r) \/ Refresh(r)

Next ==
    \/ \E r \in Requests :
          \/ Reject(r) \/ Accept(r) \/ AcceptCreate(r)
          \/ Serve(r)
          \/ DbError(r) \/ LostReply(r) \/ CacheError(r)
    \/ Crash
    \/ \E id \in Ids : Expire(id)
    \/ \E t \in Tenants : DropTenant(t)

Spec == Init /\ [][Next]_vars

\* A request makes progress as long as its process lives (goroutine
\* scheduling, and a timeout on every call to the database and to Redis), and
\* Redis drops every entry in time, since TTL is positive.
Fairness ==
    /\ \A r \in Requests : WF_vars(Serve(r))
    /\ \A id \in Ids : WF_vars(Expire(id))

FairSpec == Spec /\ Fairness

-----------------------------------------------------------------------------
(* Properties.                                                             *)

\* Every variable keeps its type; a slot has a request from its first one on,
\* and past the first step that request has an id.
TypeOK ==
    /\ tenants \subseteq Tenants
    /\ rows  \in [Ids -> EventCategory \cup {None}]
    /\ cache \in [Ids -> EventCategory \cup {None}]
    /\ clock \in Stamps
    /\ issued \subseteq Ids
    /\ pc \in [Requests -> {"done", "lookup", "read", "fill", "stamp", "write",
                            "refetch", "refresh"}]
    /\ req  \in [Requests -> Input \cup {None}]
    /\ held \in [Requests -> EventCategory \cup {None}]
    /\ fill \in [Requests -> EventCategory \cup {None}]
    /\ status \in [Requests -> {None, 200, 201, 204, 400, 404, 422, 500}]

\* No copy of a soft-deleted category is ever cached, on its way to the cache,
\* merged into an update or served: tombstones live in the table, and in the
\* hands of the DELETE that is about to write one (auditable_repository.go:46-55).
TombstonesStayHidden ==
    /\ \A id \in Ids : cache[id] # None => cache[id].deleted_at = None
    /\ \A r \in Requests :
          /\ fill[r] # None => fill[r].deleted_at = None
          /\ held[r] # None /\ req[r].method # "DELETE" =>
                 held[r].deleted_at = None

\* Update does not check the source/tenant rule, so an in-flight entity may
\* break it, but none that is stored, cached or answered does: the rule holds
\* of whatever the database, Redis or a 200/201 shows (FEATURES.md:25-28).
RuleHoldsWhereVisible ==
    /\ \A id \in Ids : /\ rows[id]  # None => SourceRule(rows[id])
                       /\ cache[id] # None => SourceRule(cache[id])
    /\ \A r \in Requests :
          pc[r] = "done" /\ held[r] # None => SourceRule(held[r])

\* The audit columns of an entity agree wherever it is: created before it was
\* updated, and a tombstone was last updated by its own deletion, although
\* updates and deletions overlap (auditable_repository.go:58-77).
AuditColumnsAgree(e) ==
    /\ e.created_at <= e.updated_at
    /\ e.updated_at <= clock
    /\ e.deleted_at \in {None, e.updated_at}

AuditTrail ==
    /\ \A id \in Ids : /\ rows[id]  # None => AuditColumnsAgree(rows[id])
                       /\ cache[id] # None => AuditColumnsAgree(cache[id])
    /\ \A r \in Requests : /\ held[r] # None => AuditColumnsAgree(held[r])
                           /\ fill[r] # None => AuditColumnsAgree(fill[r])

\* What a write may do to the identity of a row: only the POST that drew an id
\* inserts it, and only once; created_at never changes afterwards; a row that a
\* tenant's deletion took away is not brought back by an update that still had a
\* copy of it.
RowIdentity ==
    [][\A id \in Ids :
          /\ rows[id] = None /\ rows'[id] # None =>
                 \E r \in Requests : /\ pc[r] = "write"
                                     /\ req[r].method = "POST"
                                     /\ req[r].id = id
          /\ rows[id] # None /\ rows'[id] # None =>
                 rows'[id].created_at = rows[id].created_at]_vars

\* A PUT changes only the fields it provides, in the row as it is when the write
\* reaches it (FEATURES.md:28).
Writes(r, method) ==
    /\ req[r] # None /\ req[r].method = method
    /\ pc[r] = "write" /\ pc'[r] # "write"

OnlyProvidedFieldsChange ==
    [][\A r \in Requests :
          Writes(r, "PUT") /\ rows' # rows =>
              \A field \in {"source", "tenant_id", "name"} :
                  req[r][field] = None =>
                      rows'[req[r].id][field] = rows[req[r].id][field]]_vars

\* A PUT whose resulting record breaks the source/tenant rule is refused as the
\* client's error, not as the server's (FEATURES.md:28, :42).
RuleBreakIsClientError ==
    [][\A r \in Requests :
          Writes(r, "PUT") /\ ~SourceRule(held[r]) =>
              status'[r] \in {400, 404, 422}]_vars

\* Once creations, updates and deletions cease, the cache ends up agreeing with
\* the table whatever races, lost refreshes and crashes came before: the TTL
\* bounds every staleness (CONFIGURATION.md:114).
Writing == \E r \in Requests : pc[r] # "done" /\ req[r].method # "GET"
CacheFresh == \A id \in Ids : cache[id] \in {None, rows[id]}
StalenessEnds == <>[]~Writing => <>[]CacheFresh

=============================================================================
