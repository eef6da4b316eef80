----------------------------- MODULE MCListWalk -----------------------------
(***************************************************************************)
(* A small instance of ListWalk: a 16-bit int, so that a page and a size   *)
(* that the parser accepts can overflow it, and three rows.                *)
(***************************************************************************)
EXTENDS ListWalk, TLC

CONSTANTS i1, i2, i3, t1, n1, n2

By(field, direction) == [field |-> field, direction |-> direction]
ById == <<By("id", "ASC")>>
ByName == <<By("name", "ASC")>>
ByNameAndId == <<By("name", "DESC"), By("id", "DESC")>>
NoFilter == [f \in {} |-> None]
All(page, size, sort) ==
    [page |-> page, size |-> size, sort |-> sort, filters |-> NoFilter]
Where(field, value) ==
    [All(None, None, ById) EXCEPT !.filters = [f \in {field} |-> value]]

\* Pages 1025 and 513 of 64 rows begin at 0 and at -32768 in 16 bits.
ListQueries ==
    {All(None, 1, ById), All(1, 2, ByNameAndId), All(2, 1, ByName),
     All(1, 500, <<>>),
     Where("name", n1), Where("source", "app"), Where("tenant_id", NaN),
     Where("color", n1),
     All(1025, 64, ById), All(513, 64, ById),
     All(NaN, 2, ById), All(0, 2, ById), All(1, 0, ById), All(65536, 1, ById),
     All(1, 1, <<By("deleted_at", "ASC")>>), All(1, 1, <<By("id", "other")>>)}

Body(method, id, source, tenant_id, name) ==
    [method |-> method, id |-> id, source |-> source, tenant_id |-> tenant_id,
     name |-> name]

\* A PUT that provides nothing writes back the copy that it read.
Writes ==
    {Body("POST", None, "tenant", t1, n1),
     Body("PUT", i1, None, None, None), Body("PUT", i1, None, None, n2)}

\* None, SQL's NULL, is last in ascending order.
SmallCollation ==
    [id         |-> i1 :> 1 @@ i2 :> 2 @@ i3 :> 3,
     source     |-> "app" :> 1 @@ "tenant" :> 2,
     tenant_id  |-> t1 :> 1 @@ None :> 2,
     name       |-> n1 :> 1 @@ n2 :> 2,
     created_at |-> [t \in Stamps |-> t],
     updated_at |-> [t \in Stamps |-> t]]

=============================================================================
