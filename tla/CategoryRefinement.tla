------------------------ MODULE CategoryRefinement ------------------------
(***************************************************************************)
(* The service against the store it promises.  The mapping forgets cache,  *)
(* clock and the copies of rows that requests hold; a write is applied at  *)
(* its commit, although the cache is brought in line only afterwards.      *)
(***************************************************************************)
EXTENDS CategoryService

Phase(label) ==
    CASE label = "done" -> "ready"
      [] label \in {"refetch", "refresh"} -> "applied"
      [] OTHER -> "called"

StorePhase == [r \in Requests |-> Phase(pc[r])]
StoreBody  == [r \in Requests |-> IF pc[r] = "done" THEN held[r] ELSE None]

Store ==
    INSTANCE CategoryStore WITH
        table <- rows,
        phase <- StorePhase,
        call  <- req,
        code  <- status,
        body  <- StoreBody

\* One request at a time, with no fault but database errors, cannot tell the
\* service from an atomic store: the cache is invisible, a PUT changes what it
\* was given on top of the latest row, updated_at never goes back, a failed
\* request has had no effect (base.go:30-69, category_service.go:61-150).
ServesAtomicStore == Store!Spec

=============================================================================
