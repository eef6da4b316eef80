-------------------------- MODULE CategoryHistory --------------------------
(***************************************************************************)
(* CategoryService with a record of its past, for what a client may expect *)
(* of an answer given what was stored and acknowledged before.  The        *)
(* history variables observe each step and never restrict one.             *)
(***************************************************************************)
EXTENDS CategoryService

VARIABLES
    committed,    \* every version a row has had: pairs of id and entity
    liveSince     \* for a request: was its row live in every state since it came

history == <<committed, liveSince>>
hvars == <<vars, history>>

InitHistory ==
    /\ Init
    /\ committed = {}
    /\ liveSince = [r \in Requests |-> FALSE]

Comes(r) == pc[r] = "done" /\ pc'[r] # "done"
RowLive(r) == LET id == req'[r].id IN Live(rows'[id])

Observe ==
    /\ committed' = committed \cup
          {<<id, rows'[id]>> : id \in {i \in Ids : rows'[i] # None}}
    /\ liveSince' = [r \in Requests |->
          IF Comes(r) THEN RowLive(r)
          ELSE IF pc'[r] # "done" THEN liveSince[r] /\ RowLive(r)
          ELSE liveSince[r]]

NextHistory == Next /\ Observe

SpecHistory == InitHistory /\ [][NextHistory]_hvars

-----------------------------------------------------------------------------

\* Whatever is cached, about to be cached, or answered with 200 or 201 was once
\* the committed row of its id: a write that was refused, failed or lost is
\* never seen, not even through the cache, and an acknowledged one did happen
\* (category_service.go:76-88, 126-135; CONFIGURATION.md:116).
OnlyCommittedIsSeen ==
    /\ \A id \in Ids : cache[id] # None => <<id, cache[id]>> \in committed
    /\ \A r \in Requests :
          /\ fill[r] # None => <<req[r].id, fill[r]>> \in committed
          /\ pc[r] = "done" /\ held[r] # None =>
                 <<req[r].id, held[r]>> \in committed

\* A request is answered with 404 only if its category was missing or
\* soft-deleted at some moment while the request ran: neither a concurrent
\* update nor a cache miss makes a live category disappear
\* (category_service.go:92-101, 126-129, 141-144).
NotFoundIsTrue == \A r \in Requests : status[r] = 404 => ~liveSince[r]

=============================================================================
