--------------------------- MODULE CategoryStore ---------------------------
(***************************************************************************)
(* What the category API promises its clients: a table of categories on    *)
(* which every request acts at one instant between its arrival and its     *)
(* answer.  There is no cache here, no copy of a row and no clock.         *)
(***************************************************************************)
EXTENDS EventCategories

CONSTANTS Requests, Inputs

VARIABLES
    table,   \* category or None, by id
    phase,   \* "ready" for a request, "called", or "applied" but unanswered
    call,    \* the request, with the id that a POST was given
    code,    \* its status, None until it is answered
    body     \* the category it was answered with, or None

vars == <<table, phase, call, code, body>>

Init ==
    /\ table = [id \in Ids |-> None]
    /\ phase = [r \in Requests |-> "ready"]
    /\ call  = [r \in Requests |-> None]
    /\ code  = [r \in Requests |-> None]
    /\ body  = [r \in Requests |-> None]

Begin(r, in, next, answer) ==
    /\ phase[r] = "ready"
    /\ phase' = [phase EXCEPT ![r] = next]
    /\ call' = [call EXCEPT ![r] = in]
    /\ code' = [code EXCEPT ![r] = answer]
    /\ body' = [body EXCEPT ![r] = None]
    /\ UNCHANGED table

Return(r, answer, category) ==
    /\ phase' = [phase EXCEPT ![r] = "ready"]
    /\ code' = [code EXCEPT ![r] = answer]
    /\ body' = [body EXCEPT ![r] = category]
    /\ UNCHANGED call

Refuse(r) ==
    \E in \in Inputs :
        /\ \/ ~WellFormed(in)
           \/ in.method = "POST" /\ ~SourceRule(in)
        /\ Begin(r, in, "ready", 400)

Call(r) ==
    \E in \in Inputs :
        /\ WellFormed(in)
        /\ IF in.method = "POST"
           THEN /\ SourceRule(in)
                /\ \E id \in Ids : /\ table[id] = None
                                   /\ Begin(r, [in EXCEPT !.id = id], "called", None)
           ELSE Begin(r, in, "called", None)

\* A write takes effect at once; its answer, which shows what it stored, may
\* come later.
Shown(r, category) == IF call[r].method = "DELETE" THEN None ELSE category

Apply(r, category) ==
    /\ phase[r] = "called"
    /\ SourceRule(category)
    /\ table' = [table EXCEPT ![call[r].id] = category]
    /\ \/ /\ phase' = [phase EXCEPT ![r] = "applied"]
          /\ UNCHANGED <<call, code, body>>
       \/ Return(r, Success(call[r].method), Shown(r, category))

Create(r) ==
    /\ call[r] # None /\ call[r].method = "POST"
    /\ table[call[r].id] = None
    /\ \E now \in Stamps : Apply(r, Created(call[r], now))

\* updated_at never goes back, and only what the request provides changes.
Update(r) ==
    /\ call[r] # None /\ call[r].method = "PUT"
    /\ Live(table[call[r].id])
    /\ \E now \in Stamps :
          /\ now >= table[call[r].id].updated_at
          /\ Apply(r, Updated(table[call[r].id], call[r], now))

Delete(r) ==
    /\ call[r] # None /\ call[r].method = "DELETE"
    /\ Live(table[call[r].id])
    /\ \E now \in Stamps :
          /\ now >= table[call[r].id].updated_at
          /\ Apply(r, Deleted(table[call[r].id], now))

Finish(r) ==
    /\ phase[r] = "applied"
    /\ Return(r, Success(call[r].method), Shown(r, table[call[r].id]))
    /\ UNCHANGED table

Find(r) ==
    /\ phase[r] = "called"
    /\ call[r].method = "GET"
    /\ Live(table[call[r].id])
    /\ Return(r, 200, table[call[r].id])
    /\ UNCHANGED table

NotFound(r) ==
    /\ phase[r] = "called"
    /\ call[r].method # "POST"
    /\ ~Live(table[call[r].id])
    /\ Return(r, 404, None)
    /\ UNCHANGED table

\* A request may fail, but then it has no effect.
Fail(r) ==
    /\ phase[r] = "called"
    /\ \/ Return(r, 500, None)
       \/ call[r].method = "POST" /\ Return(r, 422, None)
    /\ UNCHANGED table

Next ==
    \E r \in Requests :
        \/ Refuse(r) \/ Call(r)
        \/ Create(r) \/ Update(r) \/ Delete(r) \/ Finish(r)
        \/ Find(r) \/ NotFound(r) \/ Fail(r)

Spec == Init /\ [][Next]_vars

=============================================================================
