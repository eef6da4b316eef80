------------------------------ MODULE MCInputs ------------------------------
(***************************************************************************)
(* The requests that the small instances send, and the model values they   *)
(* are about.  One category id is enough: requests for different ids share *)
(* no state but the tenants.                                               *)
(***************************************************************************)
EXTENDS EventCategories

CONSTANTS i1, t1, n1, n2, r1, r2

Get == [method |-> "GET", id |-> i1, source |-> None, tenant_id |-> None,
        name |-> None]
Delete == [Get EXCEPT !.method = "DELETE"]
Put(source, tenant_id, name) ==
    [method |-> "PUT", id |-> i1, source |-> source, tenant_id |-> tenant_id,
     name |-> name]
Post(source, tenant_id, name) ==
    [method |-> "POST", id |-> None, source |-> source, tenant_id |-> tenant_id,
     name |-> name]

\* A category is created, read, moved from app to tenant, deleted; the move back
\* breaks the rule, because no PUT can clear tenant_id.
Moving ==
    {Get, Delete, Put("tenant", t1, None), Put("app", None, None),
     Post("app", None, n1)}

\* One kind of category: what is enough for races about one row.
OneKind == {Get, Delete, Put(None, None, n2), Post("app", None, n1)}

\* A move to a tenant, which the table refuses where there is no such tenant.
OneMove == Moving \ {Put("app", None, None)}

\* No updates.
ReadsAndDeletes == OneKind \ {Put(None, None, n2)}

\* No deletions: two updates that each provide one field.
Updates == {Put("tenant", t1, None), Put(None, None, n2), Post("app", None, n1)}

\* Everything, the requests that are refused with a 400 included.
AllKinds ==
    Moving \cup OneKind \cup
    {[Get EXCEPT !.source = "other"], [Delete EXCEPT !.source = "other"],
     Put("other", None, None), Post("tenant", t1, n1), Post("app", t1, n1),
     Post("app", None, None)}

=============================================================================
