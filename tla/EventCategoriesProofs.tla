----------------------- MODULE EventCategoriesProofs -----------------------
(***************************************************************************)
(* The entities that the audit decorator makes are whole, typed categories *)
(* with the stamps they should have.                                       *)
(***************************************************************************)
EXTENDS EventCategories, TLAPS

\* A create stamps a whole category, live and with equal stamps.
LEMMA CreatedType ==
    ASSUME NEW in \in Input, in.method = "POST", WellFormed(in), NEW now \in Stamps
    PROVE  /\ Created(in, now) \in EventCategory
           /\ Created(in, now).created_at = now
           /\ Created(in, now).updated_at = now
           /\ Created(in, now).deleted_at = None
  BY NoneAssumption DEF Input, WellFormed, Created, EventCategory

\* An update restamps updated_at and keeps the other two audit columns.
LEMMA UpdatedType ==
    ASSUME NEW in \in Input, in.method = "PUT", WellFormed(in), NEW now \in Stamps,
           NEW e \in EventCategory
    PROVE  /\ Updated(e, in, now) \in EventCategory
           /\ Updated(e, in, now).created_at = e.created_at
           /\ Updated(e, in, now).updated_at = now
           /\ Updated(e, in, now).deleted_at = e.deleted_at
<1>1. /\ Provided(in.source, e.source) \in Sources
      /\ Provided(in.tenant_id, e.tenant_id) \in Tenants \cup {None}
      /\ Provided(in.name, e.name) \in Names
  BY DEF Input, WellFormed, Provided, EventCategory
<1>2. Merge(e, in) \in EventCategory
  BY <1>1 DEF Merge, EventCategory
<1>3. /\ Merge(e, in).created_at = e.created_at
      /\ Merge(e, in).deleted_at = e.deleted_at
  BY DEF Merge, EventCategory
<1> QED
  BY <1>2, <1>3 DEF Updated, EventCategory

\* A soft deletion stamps updated_at and deleted_at alike.
LEMMA DeletedType ==
    ASSUME NEW now \in Stamps, NEW e \in EventCategory
    PROVE  /\ Deleted(e, now) \in EventCategory
           /\ Deleted(e, now).created_at = e.created_at
           /\ Deleted(e, now).updated_at = now
           /\ Deleted(e, now).deleted_at = now
  BY DEF Deleted, EventCategory

=============================================================================
