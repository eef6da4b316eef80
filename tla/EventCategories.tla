-------------------------- MODULE EventCategories --------------------------
(***************************************************************************)
(* What a category is and what clients may ask of one: the row, the input  *)
(* of each method, the rules that bind them, and how an input is applied.  *)
(***************************************************************************)
EXTENDS Naturals

CONSTANTS
    Ids,           \* category ids (UUIDs); uuid.New never returns one twice
    Tenants,       \* tenant ids; those of the rows of tenants, and others
    Names,         \* non-empty category names
    MaxClock,      \* bound on the clock, the only unbounded counter
    None           \* nil pointer, absent row, cache miss, no answer

SourceApp == "app"
SourceTenant == "tenant"
Sources == {SourceApp, SourceTenant}

Stamps == 0..MaxClock

\* A row of event_categories; its id is the index of the table and of the cache.
EventCategory ==
    [source     : Sources,
     tenant_id  : Tenants \cup {None},
     name       : Names,
     created_at : Stamps,
     updated_at : Stamps,
     deleted_at : Stamps \cup {None}]

\* What a client sends.  A source outside Sources stands for whatever else the
\* boundary refuses: a malformed UUID, malformed JSON, a failed validate tag.
Input ==
    [method    : {"GET", "POST", "PUT", "DELETE"},
     id        : Ids \cup {None},
     source    : Sources \cup {None, "other"},
     tenant_id : Tenants \cup {None},
     name      : Names \cup {None}]

ASSUME MaxClockAssumption == MaxClock \in Nat

\* None is none of the values it stands in for, and no HTTP status.
ASSUME NoneAssumption ==
    /\ None \notin Ids \cup Tenants \cup Names \cup Sources
    /\ None \notin Stamps \cup {200, 201, 204, 400, 404, 422, 500}
    /\ None \notin EventCategory \cup Input

-----------------------------------------------------------------------------

\* Mutant: the entity type has no field the helper recognises.
NeverSoftDeleted(e) == FALSE

isSoftDeleted(e) == e.deleted_at # None
\* e exists and is not soft-deleted: what the audit decorator lets through.
Live(e) == e # None /\ ~isSoftDeleted(e)

\* The id of the path parses, the body decodes, and the validate tags of
\* CreateInput or UpdateInput hold.
WellFormed(in) ==
    /\ in.source \in Sources \cup {None}
    /\ in.method = "POST" => in.source # None /\ in.name # None

\* The cross-field rule: an app category has no tenant, a tenant category one.
SourceRule(e) ==
    \/ e.source = SourceApp /\ e.tenant_id = None
    \/ e.source = SourceTenant /\ e.tenant_id # None

\* Mutant: nil fields of an UpdateInput overwrite the row too.
ProvidedOrNot(new, old) == new

\* Only non-nil fields of an UpdateInput are applied.
Provided(new, old) == IF new = None THEN old ELSE new
Merge(e, in) ==
    [e EXCEPT !.source    = Provided(in.source, @),
              !.tenant_id = Provided(in.tenant_id, @),
              !.name      = Provided(in.name, @)]

\* Mutants of Deleted: the setter finds no field with the tag, and updated_at or
\* deleted_at stays as it was.
DeletedNotStamped(e, now) == [e EXCEPT !.deleted_at = now]
DeletedInNameOnly(e, now) == [e EXCEPT !.updated_at = now]

\* The entity of a POST, as Create builds it and the audit decorator stamps it,
\* and what the decorator makes of an entity it updates or deletes.
Created(in, now) ==
    [source     |-> in.source,
     tenant_id  |-> in.tenant_id,
     name       |-> in.name,
     created_at |-> now,
     updated_at |-> now,
     deleted_at |-> None]
Updated(e, in, now) == [Merge(e, in) EXCEPT !.updated_at = now]
Deleted(e, now) == [e EXCEPT !.deleted_at = now, !.updated_at = now]

\* The status of a request that did what it was asked.
Success(method) ==
    IF method = "POST" THEN 201 ELSE IF method = "DELETE" THEN 204 ELSE 200

=============================================================================
