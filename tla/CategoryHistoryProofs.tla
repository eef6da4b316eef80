----------------------- MODULE CategoryHistoryProofs -----------------------
(***************************************************************************)
(* What answers show of the past, proved for any number of ids, tenants,   *)
(* names and request slots, any clients' inputs and any set of faults.     *)
(* What CategoryHistory states is proved for either cache strategy and for *)
(* no cache; what CategoryDeletes states, where deletions meet neither     *)
(* updates nor a cache.                                                    *)
(***************************************************************************)
EXTENDS CategoryHistory, CategoryDeletes, CategoryServiceProofs

\* A step with its record is a step of the service, and the record follows it.
LEMMA HistoryStep ==
    [NextHistory]_hvars =>
        [Next]_vars /\ (Observe \/ UNCHANGED hvars)
  BY DEF NextHistory, hvars

\* The service with its record is the service.
LEMMA HistoryIsService == SpecHistory => Spec
<1>1. InitHistory => Init
  BY DEF InitHistory
<1> QED
  BY <1>1, HistoryStep, PTL DEF SpecHistory, Spec

\* The types, with the history.
LEMMA HistoryTypes == SpecHistory => []TypeInv
  BY HistoryIsService, TypeInit, TypeStep, PTL DEF Spec

-----------------------------------------------------------------------------
(* What is seen was committed.  An entity is in somebody's hands without   *)
(* having been committed only between the stamp and the write.             *)

CommittedInv ==
    /\ \A id \in Ids :
          /\ rows[id] # None => <<id, rows[id]>> \in committed
          /\ cache[id] # None => <<id, cache[id]>> \in committed
    /\ \A r \in Requests :
          /\ fill[r] # None => <<req[r].id, fill[r]>> \in committed
          /\ held[r] # None /\ pc[r] # "write" =>
                 <<req[r].id, held[r]>> \in committed

\* Every step takes what it stores, caches or answers from a committed version.
LEMMA CommittedStep ==
    TypeInv /\ CommittedInv /\ [NextHistory]_hvars => CommittedInv'
<1> SUFFICES ASSUME TypeInv, CommittedInv, NextHistory
             PROVE  CommittedInv'
  BY DEF CommittedInv, hvars, vars, history
<1>1. Flow /\ Observe
  BY StepFlows DEF NextHistory
<1>2. ASSUME NEW r \in Requests, pc[r] # "done" PROVE req[r].id \in Ids
  BY <1>2 DEF TypeInv, Control, StepOK
<1>3. /\ committed \subseteq committed'
      /\ \A id \in Ids : rows'[id] # None => <<id, rows'[id]>> \in committed'
  BY <1>1 DEF Observe
<1>4. ASSUME NEW id \in Ids, cache'[id] # None
      PROVE  <<id, cache'[id]>> \in committed'
  BY <1>1, <1>3, <1>4 DEF Flow, CacheFlow, CommittedInv
<1>5. ASSUME NEW r \in Requests, fill'[r] # None
      PROVE  <<req'[r].id, fill'[r]>> \in committed'
  BY <1>1, <1>2, <1>3, <1>5 DEF Flow, FillFlow, Live, CommittedInv
<1>6. ASSUME NEW r \in Requests, held'[r] # None, pc'[r] # "write"
      PROVE  <<req'[r].id, held'[r]>> \in committed'
  <2>1. HeldFlow(r)
    BY <1>1 DEF Flow
  <2>2. CASE rows'[req[r].id] = held[r] /\ held'[r] = held[r]
             /\ req'[r] = req[r] /\ pc[r] = "write"
    BY <1>2, <1>3, <1>6, <2>2
  <2> QED
    BY <1>2, <1>3, <1>6, <2>1, <2>2 DEF HeldFlow, Live, CommittedInv
<1> QED
  BY <1>3, <1>4, <1>5, <1>6 DEF CommittedInv

\* Nothing that was not once the committed row of its id is cached, on its way
\* to the cache or answered, whatever is refused, fails or is lost.
THEOREM OnlyCommittedSeen == SpecHistory => []OnlyCommittedIsSeen
<1>1. InitHistory => CommittedInv
  BY DEF InitHistory, Init, CommittedInv
<1>2. CommittedInv => OnlyCommittedIsSeen
  BY DEF CommittedInv, OnlyCommittedIsSeen
<1> QED
  BY <1>1, <1>2, HistoryTypes, CommittedStep, PTL DEF SpecHistory

-----------------------------------------------------------------------------
(* What is not found was not there.                                        *)

LiveInv ==
    \A r \in Requests :
        /\ pc[r] # "done" /\ liveSince[r] => Live(rows[req[r].id])
        /\ status[r] = 404 => ~liveSince[r]

\* Every step keeps the record of a request in line with its row, and answers
\* 404 only to a request whose row is missing or deleted at that moment.
LEMMA LiveStep == TypeInv /\ LiveInv /\ [NextHistory]_hvars => LiveInv'
<1> SUFFICES ASSUME TypeInv, LiveInv, NextHistory, NEW r \in Requests
             PROVE  /\ pc'[r] # "done" /\ liveSince'[r] => Live(rows'[req'[r].id])
                    /\ status'[r] = 404 => ~liveSince'[r]
  BY DEF LiveInv, Live, hvars, vars, history
<1>1. AnswerFlow /\ Observe
  BY StepAnswers DEF NextHistory
<1>2. ~Comes(r) /\ liveSince'[r] => liveSince[r]
  BY <1>1 DEF Observe
<1>3. pc'[r] # "done" /\ liveSince'[r] => Live(rows'[req'[r].id])
  BY <1>1 DEF Observe, RowLive
<1>4. ASSUME status'[r] = 404 PROVE ~liveSince'[r]
  <2>1. Rests(r) \/ Arrives(r) \/ GoesOn(r) \/ Answered(r)
    BY <1>1 DEF AnswerFlow
  <2>0. 404 # None /\ 404 \notin {200, 201, 204, 400, 422, 500}
    BY NoneAssumption
  <2>2. CASE Rests(r)
    BY <1>2, <1>4, <2>2 DEF Comes, Rests, LiveInv
  <2>3. CASE Arrives(r)
    BY <1>4, <2>0, <2>3 DEF Arrives
  <2>4. CASE GoesOn(r)
    BY <1>2, <1>4, <2>4 DEF Comes, GoesOn, LiveInv
  <2>5. CASE Answered(r)
    BY <1>2, <1>4, <2>0, <2>5 DEF Comes, Answered, Success, LiveInv
  <2> QED
    BY <2>1, <2>2, <2>3, <2>4, <2>5
<1> QED
  BY <1>3, <1>4

\* A request is answered with 404 only if its category was missing or deleted
\* at some moment while the request ran, whatever overlaps it.
THEOREM NotFoundIsTrueHolds == SpecHistory => []NotFoundIsTrue
<1>1. InitHistory => LiveInv
  BY DEF InitHistory, Init, LiveInv
<1>2. LiveInv => NotFoundIsTrue
  BY DEF LiveInv, NotFoundIsTrue
<1> QED
  BY <1>1, <1>2, HistoryTypes, LiveStep, PTL DEF SpecHistory

-----------------------------------------------------------------------------
(* Deletion alone is final.  Without the cache and without updates, what   *)
(* was acknowledged as deleted is not shown again.  Both hypotheses are    *)
(* needed: an update or the cache shows it again.                          *)

\* No cache decorator, and nobody sends a PUT.
DeletionAlone == ~CacheEnabled /\ \A in \in Inputs : in.method # "PUT"

\* A step with its record is a step of the service, and the record follows it.
LEMMA DeletesStep ==
    [NextDeletes]_dvars =>
        [Next]_vars /\ (ObserveDeletes \/ UNCHANGED dvars)
  BY DEF NextDeletes, dvars

\* The service with its record is the service.
LEMMA DeletesIsService == SpecDeletes => Spec
<1>1. InitDeletes => Init
  BY DEF InitDeletes
<1> QED
  BY <1>1, DeletesStep, PTL DEF SpecDeletes, Spec

\* The types and the identity of rows, with the record.
LEMMA DeletesTypes == SpecDeletes => [](TypeInv /\ BirthInv)
<1>1. Init => BirthInv
  BY DEF Init, BirthInv, Precommit, About
<1> QED
  BY <1>1, DeletesIsService, TypeInit, TypeStep, BirthStep, PTL DEF Spec

(* A row that was deleted for good has been inserted, so no POST can bring  *)
(* it back, and whoever still writes it writes a tombstone.                 *)
Deleting(r) ==
    /\ pc[r] \in {"done", "read", "stamp", "write"}
    /\ pc[r] # "done" => req[r].method # "PUT" /\ status[r] = None
    /\ pc[r] = "write" /\ req[r].method = "DELETE" => held[r].deleted_at # None

DeletedFor(r) ==
    /\ pc[r] # "done" /\ deletedFirst[r] => req[r].id \in deletedAcked
    /\ status[r] = 200 /\ req[r].method = "GET" => ~deletedFirst[r]

DeleteInv ==
    /\ \A id \in deletedAcked : id \in Ids /\ ~Unborn(id) /\ ~Live(rows[id])
    /\ \A r \in Requests : Deleting(r) /\ DeletedFor(r)

\* Without cache and updates a request is where Deleting says.
LEMMA DeletingStep ==
    ASSUME DeletionAlone, TypeInv, TypeInv', [Next]_vars,
           NEW r \in Requests, Deleting(r)
    PROVE  Deleting(r)'
<1>1. AnswerFlow /\ Flow
  BY StepAnswers, StepFlows
<1>2. Rests(r) \/ Arrives(r) \/ GoesOn(r) \/ Answered(r)
  BY <1>1 DEF AnswerFlow
<1>3. pc'[r] \in {"done", "read", "stamp", "write"}
  <2>1. pc'[r] \in {"done", "lookup", "read", "fill", "stamp", "write",
                    "refetch", "refresh"}
    BY DEF TypeInv, TypeOK
  <2> QED
    BY <1>2, <2>1 DEF Rests, Arrives, GoesOn, Answered, Deleting, DeletionAlone
<1>4. pc'[r] # "done" => req'[r].method # "PUT" /\ status'[r] = None
  BY <1>2 DEF Rests, Arrives, GoesOn, Answered, Deleting, DeletionAlone
<1>5. ASSUME pc'[r] = "write", req'[r].method = "DELETE"
      PROVE  held'[r].deleted_at # None
  <2>1. HeldFlow(r)
    BY <1>1 DEF Flow
  <2>2. held'[r] # None
    BY <1>5 DEF TypeInv, Control, StepOK
  <2>3. CASE req'[r] = req[r] /\ held'[r] = held[r] /\ pc[r] = "write"
    BY <1>5, <2>3 DEF Deleting
  <2>4. CASE req'[r] = req[r] /\ TimeNow(clock') /\ Stamped(r, held'[r], clock')
    <3>1. held'[r].deleted_at = clock'
      BY <1>5, <2>4 DEF Stamped
    <3>2. clock' \in Stamps
      BY DEF TypeInv, TypeOK
    <3> QED
      BY <3>1, <3>2, NoneAssumption
  <2> QED
    BY <1>5, <2>1, <2>2, <2>3, <2>4 DEF HeldFlow
<1> QED
  BY <1>3, <1>4, <1>5 DEF Deleting

\* What was acknowledged as deleted has a row that is gone or a tombstone, and
\* every step leaves it so.
LEMMA DeletedStep ==
    ASSUME DeletionAlone, TypeInv, TypeInv', BirthInv, DeleteInv, NextDeletes,
           NEW id \in deletedAcked'
    PROVE  id \in Ids /\ ~Unborn(id)' /\ ~Live(rows'[id])
<1>1. AnswerFlow /\ Flow /\ IssueFlow /\ ObserveDeletes
  BY StepAnswers, StepFlows, StepIssues DEF NextDeletes
<1>2. ASSUME NEW i \in Ids, Unborn(i)' PROVE Unborn(i)
  BY <1>1, <1>2 DEF IssueFlow, Unborn
<1>3. CASE id \in deletedAcked
  <2>1. id \in Ids /\ ~Unborn(id) /\ ~Live(rows[id])
    BY <1>3 DEF DeleteInv
  <2>2. RowFlow(id)
    BY <1>1, <2>1 DEF Flow
  <2>3. ASSUME NEW w \in Requests, pc[w] = "write", req[w].id = id
        PROVE  held[w].deleted_at # None
    <3>1. /\ req[w] \in Input /\ req[w].method \notin {"GET", "PUT"}
          /\ req[w].method = "DELETE" => held[w].deleted_at # None
      BY <2>3 DEF TypeInv, TypeOK, Control, StepOK, DeleteInv, Deleting
    <3>2. req[w].method # "POST"
      BY <2>1, <2>3 DEF Unborn, Precommit
    <3> QED
      BY <3>1, <3>2 DEF Input
  <2> QED
    BY <1>2, <2>1, <2>2, <2>3 DEF RowFlow, Live, isSoftDeleted
<1>4. CASE id \notin deletedAcked
  <2>1. PICK q \in Requests : Acknowledged(q) /\ req[q].id = id
    BY <1>1, <1>4 DEF ObserveDeletes
  <2>2. id \in Ids /\ Deleting(q)
    BY <2>1 DEF Acknowledged, TypeInv, Control, StepOK, DeleteInv
  <2>3. /\ pc[q] = "write" /\ rows'[id] = held[q] /\ rows[id] # None
    <3>1. Rests(q) \/ Arrives(q) \/ GoesOn(q) \/ Answered(q)
      BY <1>1 DEF AnswerFlow
    <3>2. Answered(q) /\ status[q] = None /\ 204 # None
      BY <2>1, <2>2, <3>1, NoneAssumption
         DEF Acknowledged, Rests, Arrives, GoesOn, Deleting
    <3>3. 204 \notin {200, 201, 404, 422, 500}
      OBVIOUS
    <3> QED
      BY <2>1, <2>2, <3>2, <3>3 DEF Acknowledged, Answered, Deleting
  <2>4. held[q].deleted_at # None
    BY <2>1, <2>2, <2>3 DEF Acknowledged, Deleting
  <2>5. ~Unborn(id)
    BY <2>2, <2>3 DEF BirthInv
  <2> QED
    BY <1>2, <2>2, <2>3, <2>4, <2>5 DEF Live, isSoftDeleted
<1> QED
  BY <1>3, <1>4

\* A request that came after the deletion is not answered with the category.
LEMMA DeletedForStep ==
    ASSUME DeletionAlone, TypeInv, DeleteInv, NextDeletes, NEW r \in Requests
    PROVE  DeletedFor(r)'
<1>1. AnswerFlow /\ ObserveDeletes /\ Deleting(r) /\ DeletedFor(r)
  BY StepAnswers DEF NextDeletes, DeleteInv
<1>2. deletedAcked \subseteq deletedAcked'
  BY <1>1 DEF ObserveDeletes
<1>3. Rests(r) \/ Arrives(r) \/ GoesOn(r) \/ Answered(r)
  BY <1>1 DEF AnswerFlow
<1>4. /\ pc[r] = "done" /\ pc'[r] # "done" /\ deletedFirst'[r] =>
             req'[r].id \in deletedAcked
      /\ ~(pc[r] = "done" /\ pc'[r] # "done") => deletedFirst'[r] = deletedFirst[r]
  BY <1>1 DEF ObserveDeletes
<1>5. pc'[r] # "done" /\ deletedFirst'[r] => req'[r].id \in deletedAcked'
  BY <1>1, <1>2, <1>3, <1>4 DEF Rests, Arrives, GoesOn, Answered, DeletedFor
<1>6. ASSUME status'[r] = 200, req'[r].method = "GET" PROVE ~deletedFirst'[r]
  <2>0. 200 # None /\ 200 \notin {201, 204, 400, 404, 422, 500}
    BY NoneAssumption
  <2>1. CASE Rests(r)
    BY <1>1, <1>4, <1>6, <2>1 DEF Rests, DeletedFor
  <2>2. CASE Arrives(r)
    BY <1>6, <2>0, <2>2 DEF Arrives
  <2>3. CASE GoesOn(r)
    BY <1>1, <1>6, <2>0, <2>3 DEF GoesOn, Deleting
  <2>4. CASE Answered(r)
    <3>1. deletedFirst'[r] = deletedFirst[r]
      BY <1>4, <2>4 DEF Answered
    <3>2. pc[r] = "read" /\ Live(rows[req[r].id])
      <4>1. pc[r] # "write"
        BY <1>6, <2>4 DEF Answered, TypeInv, Control, StepOK
      <4> QED
        BY <1>1, <1>6, <2>0, <2>4, <4>1 DEF Answered, Deleting
    <3> QED
      BY <1>1, <3>1, <3>2 DEF DeletedFor, DeleteInv
  <2> QED
    BY <1>3, <2>1, <2>2, <2>3, <2>4
<1> QED
  BY <1>5, <1>6 DEF DeletedFor

\* A GET that comes after a DELETE of its category was answered with 204 is not
\* answered with 200, where deletions meet neither updates nor a cache.
THEOREM DeletionIsFinal ==
    ASSUME DeletionAlone
    PROVE  SpecDeletes => []AcknowledgedDeleteHides
<1>1. InitDeletes => DeleteInv
  BY NoneAssumption DEF InitDeletes, Init, DeleteInv, Deleting, DeletedFor
<1>2. TypeInv /\ TypeInv' /\ BirthInv /\ DeleteInv /\ [NextDeletes]_dvars
        => DeleteInv'
  <2> SUFFICES ASSUME TypeInv, TypeInv', BirthInv, DeleteInv, [NextDeletes]_dvars
               PROVE  DeleteInv'
    OBVIOUS
  <2>1. CASE NextDeletes
    BY <2>1, DeletedStep, DeletingStep, DeletedForStep DEF DeleteInv, NextDeletes
  <2>2. CASE UNCHANGED dvars
    BY <2>2 DEF DeleteInv, Deleting, DeletedFor, Unborn, Precommit, Live, dvars, vars
  <2> QED
    BY <2>1, <2>2
<1>3. DeleteInv => AcknowledgedDeleteHides
  BY DEF DeleteInv, DeletedFor, AcknowledgedDeleteHides
<1> QED
  BY <1>1, <1>2, <1>3, DeletesTypes, PTL DEF SpecDeletes

=============================================================================
