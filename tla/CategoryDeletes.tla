-------------------------- MODULE CategoryDeletes --------------------------
(***************************************************************************)
(* CategoryService with a record of the deletions it acknowledged, for     *)
(* what a client may expect afterwards.  The history variables observe     *)
(* each step and never restrict one.                                       *)
(***************************************************************************)
EXTENDS CategoryService

VARIABLES
    deletedAcked, \* ids whose DELETE was answered with 204
    deletedFirst  \* for a request: was its id in deletedAcked when it came

dvars == <<vars, deletedAcked, deletedFirst>>

InitDeletes ==
    /\ Init
    /\ deletedAcked = {}
    /\ deletedFirst = [r \in Requests |-> FALSE]

Acknowledged(r) ==
    /\ req[r] # None /\ req[r].method = "DELETE"
    /\ pc[r] # "done" /\ pc'[r] = "done" /\ status'[r] = 204

ObserveDeletes ==
    /\ deletedAcked' = deletedAcked \cup
          {req[r].id : r \in {q \in Requests : Acknowledged(q)}}
    /\ deletedFirst' = [r \in Requests |->
          IF pc[r] = "done" /\ pc'[r] # "done"
          THEN req'[r].id \in deletedAcked ELSE deletedFirst[r]]

NextDeletes == Next /\ ObserveDeletes

SpecDeletes == InitDeletes /\ [][NextDeletes]_dvars

-----------------------------------------------------------------------------

\* A GET that comes after a DELETE of its category was answered with 204 is not
\* answered with 200 (category_service.go:91: "NotFound if not found or
\* soft-deleted"; FEATURES.md:53).
AcknowledgedDeleteHides ==
    \A r \in Requests :
        status[r] = 200 /\ req[r].method = "GET" => ~deletedFirst[r]

=============================================================================
