---------------------- MODULE CategoryRefinementProofs ----------------------
(***************************************************************************)
(* The service implements the atomic store when requests follow one        *)
(* another and only the database fails, for any number of ids, tenants and *)
(* names, any clients' inputs, and either cache strategy or no cache.      *)
(***************************************************************************)
EXTENDS CategoryRefinement, CategoryServiceProofs

\* One request at a time, and no fault but database errors.
Sequential ==
    /\ \A q, r \in Requests : q = r
    /\ Faults \subseteq {"db_error"}

(* What the request in flight knows is what the table has: between the     *)
(* commit and the refresh only the cache is behind, and the service holds  *)
(* what the table has, or what it is about to make of that.                *)
Row(r) == rows[req[r].id]

\* What a write is about to store in place of the row.
Proposed(r) ==
    \/ /\ req[r].method = "POST"
       /\ \E now \in Stamps : held[r] = Created(req[r], now)
    \/ /\ req[r].method = "PUT"
       /\ Live(Row(r))
       /\ \E now \in Stamps : /\ now >= Row(r).updated_at
                              /\ held[r] = Updated(Row(r), req[r], now)
    \/ /\ req[r].method = "DELETE"
       /\ Live(Row(r))
       /\ \E now \in Stamps : /\ now >= Row(r).updated_at
                              /\ held[r] = Deleted(Row(r), now)

UpToDate(r) ==
    /\ pc[r] \in {"lookup", "fill", "refetch", "refresh"} => CacheEnabled
    /\ pc[r] = "fill" => Live(Row(r)) /\ held[r] = Row(r) /\ fill[r] = Row(r)
    /\ pc[r] = "stamp" /\ req[r].method # "POST" => Live(Row(r)) /\ held[r] = Row(r)
    /\ pc[r] = "write" => Proposed(r)
    /\ pc[r] \in {"refetch", "refresh"} => held[r] = Row(r)
    /\ pc[r] \in {"stamp", "write", "refetch"} => fill[r] = None
    /\ pc[r] = "refresh" => fill[r] \in {None, Row(r)}

CacheBehind(id) ==
    \E r \in Requests : pc[r] \in {"refetch", "refresh"} /\ req[r].id = id

SeqInv ==
    /\ \A id \in Ids : /\ cache[id] # None => CacheEnabled
                       /\ cache[id] \in {None, rows[id]} \/ CacheBehind(id)
    /\ \A r \in Requests : UpToDate(r)

Inv == TypeInv /\ BirthInv /\ TombstonesStayHidden /\ AuditTrail /\ SeqInv

\* SeqInv, told from the only slot there is.
Alone(r) ==
    /\ \A id \in Ids :
          /\ cache[id] # None => CacheEnabled
          /\ \/ cache[id] \in {None, rows[id]}
             \/ pc[r] \in {"refetch", "refresh"} /\ req[r].id = id
    /\ UpToDate(r)

\* With one slot, what holds of it holds of all.
LEMMA AloneIsAll ==
    ASSUME Sequential, NEW r \in Requests
    PROVE  (SeqInv <=> Alone(r)) /\ (SeqInv' <=> Alone(r)')
<1>1. \A q \in Requests : q = r
  BY DEF Sequential
<1> QED
  BY <1>1, Zenon DEF SeqInv, Alone, CacheBehind

\* What a step of the service may rely on where a request is in flight.
LEMMA InFlight ==
    ASSUME TypeInv, NEW r \in Requests, pc[r] # "done"
    PROVE  /\ req[r] \in Input /\ req[r] # None /\ req[r].id \in Ids
           /\ StepOK(r)
           /\ Row(r) \in EventCategory \cup {None}
  BY DEF TypeInv, TypeOK, Control, StepOK, Row

\* A stamp is no earlier than the last one in the row.
LEMMA StampsGrow ==
    ASSUME TypeInv, AuditTrail, NEW id \in Ids, rows[id] # None,
           NEW now \in Stamps, TimeNow(now)
    PROVE  now >= rows[id].updated_at
<1>1. /\ clock \in Nat /\ now \in Nat /\ now >= clock
      /\ rows[id] \in EventCategory
  BY DEF TypeInv, TypeOK, TimeNow, Stamps
<1>2. rows[id].updated_at \in Nat /\ rows[id].updated_at <= clock
  BY <1>1 DEF AuditTrail, AuditColumnsAgree, EventCategory, Stamps
<1> QED
  BY <1>1, <1>2

\* The steps that read leave what the request knows in line with the table.
LEMMA ReadsAlone ==
    ASSUME Inv, NEW r \in Requests, Alone(r),
           \/ Reject(r) \/ Accept(r) \/ AcceptCreate(r)
           \/ CacheHit(r) \/ CacheMiss(r)
           \/ ReadMissing(r) \/ ReadUncached(r) \/ ReadThrough(r) \/ Fill(r)
    PROVE  Alone(r)'
<1> USE DEF Inv, TypeInv, TypeOK, Alone, UpToDate, Row
<1>1. CASE Reject(r)
  BY <1>1 DEF Reject, Arrive, Goto
<1>2. CASE Accept(r)
  BY <1>2 DEF Accept, Arrive, Goto, FirstStep
<1>3. CASE AcceptCreate(r)
  <2>1. PICK in \in Inputs, id \in Ids \ issued :
            /\ in.method = "POST"
            /\ Arrive(r, [in EXCEPT !.id = id], "stamp", None)
    BY <1>3 DEF AcceptCreate
  <2>2. [in EXCEPT !.id = id].method = "POST"
    BY <2>1, InputsFact DEF Input
  <2> QED
    BY <2>1, <2>2 DEF Arrive, Goto
<1>4. CASE CacheHit(r)
  <2>1. StepOK(r) /\ req[r].id \in Ids
    BY <1>4, InFlight DEF CacheHit
  <2>2. cache[req[r].id] = rows[req[r].id] /\ Live(rows[req[r].id])
    BY <1>4, <2>1 DEF CacheHit, TombstonesStayHidden, Live, isSoftDeleted
  <2> QED
    BY <1>4, <2>1, <2>2 DEF CacheHit, Obtain, Reply, Goto, store
<1>5. CASE CacheMiss(r)
  BY <1>5 DEF CacheMiss, Goto, store
<1>6. CASE ReadMissing(r)
  BY <1>6 DEF ReadMissing, Reply, Goto, store
<1>7. CASE ReadUncached(r)
  BY <1>7, InFlight DEF ReadUncached, Obtain, Reply, Goto, Live, store
<1>8. CASE ReadThrough(r)
  BY <1>8, InFlight DEF ReadThrough, Goto, Live, store
<1>9. CASE Fill(r)
  <2>1. StepOK(r) /\ req[r].id \in Ids
    BY <1>9, InFlight DEF Fill
  <2> QED
    BY <1>9, <2>1 DEF Fill, Obtain, Reply, Goto, Live
<1> QED
  BY <1>1, <1>2, <1>3, <1>4, <1>5, <1>6, <1>7, <1>8, <1>9

\* Stamping proposes what the request asks for on top of the row as it is.
LEMMA StampsAlone ==
    ASSUME Inv, NEW r \in Requests, Alone(r),
           StampCreate(r) \/ StampUpdate(r) \/ StampDelete(r)
    PROVE  Alone(r)'
<1> USE DEF Inv
<1>1. PICK now \in Stamps, e \in EventCategory :
          /\ TimeNow(now) /\ Stamp(r, e)
          /\ \/ req[r].method = "POST" /\ e = Created(req[r], now)
             \/ req[r].method = "PUT" /\ e = Updated(held[r], req[r], now)
             \/ req[r].method = "DELETE" /\ e = Deleted(held[r], now)
  <2>1. /\ pc[r] = "stamp" /\ req[r] \in Input /\ WellFormed(req[r])
        /\ req[r].method # "POST" => held[r] # None
        /\ held[r] \in EventCategory \cup {None}
    BY DEF StampCreate, StampUpdate, StampDelete, Stamp, TypeInv, TypeOK,
           Control, StepOK
  <2>2. CASE StampCreate(r)
    BY <2>1, <2>2, CreatedType DEF StampCreate
  <2>3. CASE StampUpdate(r)
    BY <2>1, <2>3, UpdatedType DEF StampUpdate
  <2>4. CASE StampDelete(r)
    BY <2>1, <2>4, DeletedType DEF StampDelete
  <2> QED
    BY <2>2, <2>3, <2>4
<1>2. /\ pc[r] = "stamp" /\ StepOK(r) /\ fill[r] = None
      /\ req[r].method # "POST" => Live(Row(r)) /\ held[r] = Row(r)
  BY <1>1, InFlight DEF Stamp, Alone, UpToDate
<1>3. /\ pc'[r] = "write" /\ req'[r] = req[r] /\ rows' = rows /\ cache' = cache
      /\ fill' = fill /\ held'[r] = e /\ Row(r)' = Row(r)
  BY <1>1 DEF Stamp, Goto, TypeInv, TypeOK, Row
<1>4. Proposed(r)'
  <2>1. req[r].method # "POST" => now >= Row(r).updated_at
    BY <1>1, <1>2, StampsGrow DEF Row, Live, StepOK
  <2> QED
    BY <1>1, <1>2, <1>3, <2>1 DEF Proposed, Live, isSoftDeleted
<1> QED
  BY <1>2, <1>3, <1>4 DEF Alone, UpToDate

\* A write stores what the request holds; the cache may be behind only until
\* the same request has refreshed it.
LEMMA WritesAlone ==
    ASSUME Inv, NEW r \in Requests, Alone(r),
           \/ Insert(r) \/ InsertRefused(r)
           \/ WriteBack(r) \/ WriteMissing(r) \/ WriteRefused(r)
           \/ Refetch(r) \/ Refresh(r) \/ DbError(r)
    PROVE  Alone(r)'
<1> USE DEF Inv, TypeInv, TypeOK, Alone, UpToDate
<1>0. /\ pc[r] # "done" => req[r].id \in Ids
      /\ pc[r] = "write" => held[r] # None
      /\ pc[r] = "write" /\ req[r].method = "POST" => cache[req[r].id] = None
  BY DEF Control, StepOK, BirthInv, Unborn, Precommit
<1>1. CASE Insert(r) \/ WriteBack(r)
  <2>1. /\ pc[r] = "write" /\ rows' = [rows EXCEPT ![req[r].id] = held[r]]
        /\ req' = req /\ cache' = cache /\ Written(r)
    BY <1>1 DEF Insert, WriteBack, Written, Succeed, Reply
  <2>2. ASSUME NEW id \in Ids, id # req[r].id PROVE cache'[id] \in {None, rows'[id]}
    BY <1>0, <2>1, <2>2
  <2>3. CASE CacheEnabled
    BY <1>0, <2>1, <2>2, <2>3 DEF Written, Goto, Row
  <2>4. CASE ~CacheEnabled
    <3>1. cache[req[r].id] = None
      BY <1>0, <2>1, <2>4 DEF Row
    <3> QED
      BY <1>0, <2>1, <2>2, <2>4, <3>1 DEF Written, Succeed, Reply, Goto
  <2> QED
    BY <2>3, <2>4
<1>2. CASE InsertRefused(r) \/ WriteMissing(r) \/ WriteRefused(r) \/ DbError(r)
  BY <1>2 DEF InsertRefused, WriteMissing, WriteRefused, DbError, Reply, Goto, store
<1>3. CASE Refetch(r)
  BY <1>0, <1>3 DEF Refetch, Goto, Row, store
<1>4. CASE Refresh(r)
  BY <1>0, <1>4 DEF Refresh, Succeed, Reply, Goto, Row
<1> QED
  BY <1>1, <1>2, <1>3, <1>4

\* With one request at a time, SeqInv lasts.
LEMMA SeqStep ==
    ASSUME Sequential, Inv, [Next]_vars
    PROVE  SeqInv'
<1>1. ASSUME NEW r \in Requests,
             \/ Reject(r) \/ Accept(r) \/ AcceptCreate(r) \/ Serve(r) \/ DbError(r)
      PROVE  SeqInv'
  <2>1. Alone(r)
    BY AloneIsAll DEF Inv
  <2>2. Alone(r)'
    BY <1>1, <2>1, ReadsAlone, StampsAlone, WritesAlone DEF Serve
  <2> QED
    BY <2>2, AloneIsAll
<1>2. \A f \in AllFaults \ {"db_error"} : f \notin Faults
  BY DEF Sequential
<1>3. /\ ~Crash
      /\ \A r \in Requests : ~LostReply(r) /\ ~CacheError(r)
      /\ \A t \in Tenants : ~DropTenant(t)
  BY <1>2 DEF AllFaults, Crash, LostReply, CacheError, DropTenant
<1>4. ASSUME NEW id \in Ids, Expire(id) PROVE SeqInv'
  BY <1>4 DEF Expire, local, SeqInv, CacheBehind, UpToDate, Proposed, Row,
              Live, Inv, TypeInv, TypeOK
<1>5. CASE UNCHANGED vars
  BY <1>5 DEF vars, SeqInv, CacheBehind, UpToDate, Proposed, Row, Live, Inv
<1> QED
  BY <1>1, <1>3, <1>4, <1>5 DEF Next

\* The whole invariant lasts.
LEMMA InvStep == ASSUME Sequential PROVE Inv /\ [Next]_vars => Inv'
  BY SeqStep, TypeStep, BirthStep, TombstonesStep, AuditStep DEF Inv

-----------------------------------------------------------------------------
(* The step mapping.                                                       *)

\* The store and the service speak of the same categories and inputs.
LEMMA SameData ==
    /\ \A in : Store!WellFormed(in) <=> WellFormed(in)
    /\ \A e : Store!SourceRule(e) <=> SourceRule(e)
    /\ \A e : Store!Live(e) <=> Live(e)
    /\ \A in, now : Store!Created(in, now) = Created(in, now)
    /\ \A e, in, now : Store!Updated(e, in, now) = Updated(e, in, now)
    /\ \A e, now : Store!Deleted(e, now) = Deleted(e, now)
    /\ \A method : Store!Success(method) = Success(method)
    /\ Store!Stamps = Stamps
<1> QED
  BY DEF Store!WellFormed, WellFormed, Store!Sources, Sources,
         Store!SourceApp, SourceApp, Store!SourceTenant, SourceTenant,
         Store!SourceRule, SourceRule, Store!Live, Live,
         Store!isSoftDeleted, isSoftDeleted, Store!Created, Created,
         Store!Updated, Updated, Store!Merge, Merge, Store!Provided, Provided,
         Store!Deleted, Deleted, Store!Success, Success, Store!Stamps, Stamps

\* A slot's label decides its phase in the store.
LEMMA MovesPhase ==
    ASSUME TypeOK, NEW r \in Requests, NEW label, Goto(r, label)
    PROVE  StorePhase' = [StorePhase EXCEPT ![r] = Phase(label)]
  BY DEF TypeOK, Goto, StorePhase

\* While a request has not been answered the store shows no body for it.
LEMMA KeepsBody ==
    ASSUME TypeOK, NEW r \in Requests, NEW label, pc[r] # "done",
           label # "done", Goto(r, label),
           \A q \in Requests \ {r} : held'[q] = held[q]
    PROVE  StoreBody' = StoreBody
  BY DEF TypeOK, Goto, StoreBody

\* An answer of the service is an answer of the store.
LEMMA ReplyReturns ==
    ASSUME TypeOK, NEW r \in Requests, NEW code, NEW body, Reply(r, code, body)
    PROVE  Store!Return(r, code, body)
<1>1. StorePhase' = [StorePhase EXCEPT ![r] = "ready"]
  BY MovesPhase DEF Reply, Phase
<1>2. StoreBody' = [StoreBody EXCEPT ![r] = body]
  BY DEF TypeOK, Reply, Goto, StoreBody
<1> QED
  BY <1>1, <1>2 DEF Reply, Store!Return

\* An arrival at the service is an arrival at the store.
LEMMA ArriveBegins ==
    ASSUME TypeOK, NEW r \in Requests, NEW in, NEW label, NEW code,
           Arrive(r, in, label, code)
    PROVE  Store!Begin(r, in, Phase(label), code)
<1>1. StorePhase' = [StorePhase EXCEPT ![r] = Phase(label)]
  BY MovesPhase DEF Arrive
<1>2. StorePhase[r] = "ready"
  BY DEF Arrive, StorePhase, Phase
<1>3. StoreBody' = [StoreBody EXCEPT ![r] = None]
  BY DEF TypeOK, Arrive, Goto, StoreBody
<1> QED
  BY <1>1, <1>2, <1>3 DEF Arrive, Store!Begin

\* A step between two calls, at which the store stutters.
LEMMA StepsStutter ==
    ASSUME TypeOK, NEW r \in Requests, NEW label,
           pc[r] # "done", label # "done", Phase(label) = Phase(pc[r]),
           Goto(r, label), \A q \in Requests \ {r} : held'[q] = held[q],
           UNCHANGED <<rows, req, status>>
    PROVE  UNCHANGED Store!vars
<1>1. StorePhase' = StorePhase
  BY MovesPhase DEF StorePhase
<1> QED
  BY <1>1, KeepsBody DEF Store!vars

\* What GetByID obtained answers a GET as the store does, and nobody else.
LEMMA ObtainFinds ==
    ASSUME TypeInv, NEW r \in Requests, pc[r] \in {"lookup", "read", "fill"},
           Live(Row(r)), Obtain(r, Row(r)), UNCHANGED rows
    PROVE  Store!Find(r) \/ UNCHANGED Store!vars
<1>0. TypeOK
  BY DEF TypeInv
<1>1. CASE req[r].method = "GET"
  <2>1. Store!Return(r, 200, Row(r))
    BY <1>0, <1>1, ReplyReturns DEF Obtain
  <2>2. StorePhase[r] = "called"
    BY DEF StorePhase, Phase
  <2> QED
    BY <1>1, <2>1, <2>2, SameData DEF Row, Store!Find
<1>2. CASE req[r].method # "GET"
  <2>1. /\ Goto(r, "stamp") /\ UNCHANGED <<req, status>>
        /\ \A q \in Requests \ {r} : held'[q] = held[q]
    BY <1>0, <1>2 DEF Obtain, TypeOK
  <2> QED
    BY <1>0, <2>1, StepsStutter DEF Phase
<1> QED
  BY <1>1, <1>2

\* Arrivals and reads are steps of the store, or stutter.
LEMMA ReadsRefine ==
    ASSUME Inv, NEW r \in Requests, Alone(r),
           \/ Reject(r) \/ Accept(r) \/ AcceptCreate(r)
           \/ CacheHit(r) \/ CacheMiss(r)
           \/ ReadMissing(r) \/ ReadUncached(r) \/ ReadThrough(r) \/ Fill(r)
    PROVE  Store!Next \/ UNCHANGED Store!vars
<1>0. TypeInv /\ TypeOK
  BY DEF Inv, TypeInv
<1>1. CASE Reject(r)
  <2>1. PICK in \in Inputs :
            /\ ~WellFormed(in) \/ (in.method = "POST" /\ ~SourceRule(in))
            /\ Arrive(r, in, "done", 400)
    BY <1>1 DEF Reject
  <2>2. Store!Begin(r, in, "ready", 400)
    BY <1>0, <2>1, ArriveBegins DEF Phase
  <2> QED
    BY <2>1, <2>2, SameData DEF Store!Refuse, Store!Next
<1>2. CASE Accept(r)
  <2>1. PICK in \in Inputs :
            /\ in.method # "POST" /\ WellFormed(in)
            /\ Arrive(r, in, FirstStep(in.method), None)
    BY <1>2 DEF Accept
  <2>2. Store!Begin(r, in, "called", None)
    BY <1>0, <2>1, ArriveBegins DEF Phase, FirstStep
  <2> QED
    BY <2>1, <2>2, SameData DEF Store!Call, Store!Next
<1>3. CASE AcceptCreate(r)
  <2>1. PICK in \in Inputs, id \in Ids \ issued :
            /\ in.method = "POST" /\ WellFormed(in) /\ SourceRule(in)
            /\ Arrive(r, [in EXCEPT !.id = id], "stamp", None)
    BY <1>3 DEF AcceptCreate
  <2>2. Store!Begin(r, [in EXCEPT !.id = id], "called", None)
    BY <1>0, <2>1, ArriveBegins DEF Phase
  <2>3. rows[id] = None
    BY <2>1 DEF Inv, BirthInv, Unborn
  <2> QED
    BY <2>1, <2>2, <2>3, SameData DEF Store!Call, Store!Next
<1>4. CASE CacheHit(r)
  <2>1. StepOK(r) /\ req[r].id \in Ids
    BY <1>0, <1>4, InFlight DEF CacheHit
  <2>2. cache[req[r].id] = Row(r) /\ Live(Row(r))
    BY <1>4, <2>1 DEF CacheHit, Inv, TombstonesStayHidden, Live, isSoftDeleted,
                      Alone, Row
  <2>3. Store!Find(r) \/ UNCHANGED Store!vars
    BY <1>0, <1>4, <2>2, ObtainFinds DEF CacheHit, store
  <2> QED
    BY <2>3 DEF Store!Next
<1>5. CASE CacheMiss(r)
  BY <1>0, <1>5, StepsStutter DEF CacheMiss, Phase, store
<1>6. CASE ReadMissing(r)
  <2>1. Store!Return(r, 404, None) /\ StorePhase[r] = "called"
    BY <1>0, <1>6, ReplyReturns DEF ReadMissing, StorePhase, Phase
  <2>2. req[r].method # "POST"
    BY <1>0, <1>6, InFlight DEF ReadMissing, StepOK
  <2> QED
    BY <1>6, <2>1, <2>2, SameData DEF ReadMissing, store, Store!NotFound, Store!Next
<1>7. CASE ReadUncached(r)
  BY <1>0, <1>7, ObtainFinds DEF ReadUncached, Row, store, Store!Next
<1>8. CASE ReadThrough(r)
  <2>1. \A q \in Requests \ {r} : held'[q] = held[q]
    BY <1>0, <1>8 DEF ReadThrough, TypeOK
  <2> QED
    BY <1>0, <1>8, <2>1, StepsStutter DEF ReadThrough, Phase, store
<1>9. CASE Fill(r)
  <2>1. held[r] = Row(r) /\ Live(Row(r))
    BY <1>9 DEF Fill, Alone, UpToDate
  <2> QED
    BY <1>0, <1>9, <2>1, ObtainFinds DEF Fill, Store!Next
<1> QED
  BY <1>1, <1>2, <1>3, <1>4, <1>5, <1>6, <1>7, <1>8, <1>9

\* Stamping is invisible in the store.
LEMMA StampsRefine ==
    ASSUME TypeInv, NEW r \in Requests,
           StampCreate(r) \/ StampUpdate(r) \/ StampDelete(r)
    PROVE  UNCHANGED Store!vars
<1>1. PICK e \in EventCategory : Stamp(r, e)
  BY StampFacts
<1>2. \A q \in Requests \ {r} : held'[q] = held[q]
  BY <1>1 DEF Stamp, TypeInv, TypeOK
<1> QED
  BY <1>1, <1>2, StepsStutter DEF Stamp, Phase, TypeInv

\* A commit is where the store applies the write.
LEMMA WrittenApplies ==
    ASSUME TypeInv, NEW r \in Requests, pc[r] = "write", SourceRule(held[r]),
           rows' = [rows EXCEPT ![req[r].id] = held[r]], Written(r)
    PROVE  Store!Apply(r, held[r])
<1>0. TypeOK /\ StorePhase[r] = "called"
  BY DEF TypeInv, StorePhase, Phase
<1>1. CASE CacheEnabled
  <2>1. PICK label \in {"refetch", "refresh"} :
            Goto(r, label) /\ UNCHANGED <<req, held, fill, status>>
    BY <1>1 DEF Written
  <2>2. StorePhase' = [StorePhase EXCEPT ![r] = "applied"]
    BY <1>0, <2>1, MovesPhase DEF Phase
  <2>3. StoreBody' = StoreBody
    BY <1>0, <2>1, KeepsBody
  <2> QED
    BY <1>0, <2>1, <2>2, <2>3, SameData DEF Store!Apply
<1>2. CASE ~CacheEnabled
  <2>1. Store!Return(r, Success(req[r].method), Store!Shown(r, held[r]))
    BY <1>0, <1>2, ReplyReturns DEF Written, Succeed, Store!Shown
  <2> QED
    BY <1>0, <2>1, SameData DEF Store!Apply
<1> QED
  BY <1>1, <1>2

\* Writes, their refusals and what follows a commit are steps of the store.
LEMMA WritesRefine ==
    ASSUME Inv, NEW r \in Requests, Alone(r),
           \/ Insert(r) \/ InsertRefused(r)
           \/ WriteBack(r) \/ WriteMissing(r) \/ WriteRefused(r)
           \/ Refetch(r) \/ Refresh(r) \/ DbError(r)
    PROVE  Store!Next \/ UNCHANGED Store!vars
<1>0. TypeInv /\ TypeOK
  BY DEF Inv, TypeInv
<1>1. pc[r] # "done" => req[r] # None /\ StepOK(r)
  BY <1>0, InFlight DEF StepOK
<1>2. CASE Insert(r)
  <2>1. Store!Apply(r, held[r])
    BY <1>0, <1>2, WrittenApplies DEF Insert, Constraints
  <2>2. PICK now \in Stamps : held[r] = Created(req[r], now)
    BY <1>2 DEF Insert, Alone, UpToDate, Proposed
  <2>3. rows[req[r].id] = None
    BY <1>1, <1>2 DEF Insert, Inv, BirthInv, Unborn, Precommit, StepOK
  <2> QED
    BY <1>1, <1>2, <2>1, <2>2, <2>3, SameData DEF Insert, Store!Create, Store!Next
<1>3. CASE WriteBack(r)
  <2>1. Store!Apply(r, held[r])
    BY <1>0, <1>3, WrittenApplies DEF WriteBack, Constraints
  <2>2. Proposed(r) /\ req[r].method # "POST" /\ req[r] # None
    BY <1>1, <1>3 DEF WriteBack, Alone, UpToDate
  <2>3. CASE req[r].method = "PUT"
    BY <2>1, <2>2, <2>3, SameData DEF Proposed, Row, Store!Update, Store!Next
  <2>4. CASE req[r].method = "DELETE"
    BY <2>1, <2>2, <2>4, SameData DEF Proposed, Row, Store!Delete, Store!Next
  <2> QED
    BY <2>2, <2>3, <2>4 DEF Proposed
<1>4. ~WriteMissing(r)
  BY DEF WriteMissing, Alone, UpToDate, Proposed, Row, Live
<1>5. CASE InsertRefused(r) \/ WriteRefused(r) \/ DbError(r)
  <2>1. PICK code \in {422, 500} :
            Reply(r, code, None) /\ (code = 422 => req[r].method = "POST")
    BY <1>5 DEF InsertRefused, WriteRefused, DbError
  <2>2. Store!Return(r, code, None)
    BY <1>0, <2>1, ReplyReturns
  <2>3. StorePhase[r] = "called" /\ rows' = rows
    BY <1>5 DEF InsertRefused, WriteRefused, DbError, StorePhase, Phase, store
  <2> QED
    BY <2>1, <2>2, <2>3 DEF Store!Fail, Store!Next
<1>6. CASE Refetch(r)
  BY <1>0, <1>6, StepsStutter DEF Refetch, Phase, store
<1>7. CASE Refresh(r)
  <2>1. held[r] = Row(r) /\ StorePhase[r] = "applied"
    BY <1>7 DEF Refresh, Alone, UpToDate, StorePhase, Phase
  <2>2. Store!Return(r, Success(req[r].method), Store!Shown(r, Row(r)))
    BY <1>0, <1>7, <2>1, ReplyReturns DEF Refresh, Succeed, Store!Shown
  <2> QED
    BY <1>7, <2>1, <2>2, SameData DEF Refresh, Row, Store!Finish, Store!Next
<1> QED
  BY <1>2, <1>3, <1>4, <1>5, <1>6, <1>7

\* Every step of the service is a step of the store, or stutters there.
LEMMA StoreStep ==
    ASSUME Sequential, Inv, [Next]_vars
    PROVE  [Store!Next]_Store!vars
<1>1. ASSUME NEW r \in Requests,
             \/ Reject(r) \/ Accept(r) \/ AcceptCreate(r) \/ Serve(r) \/ DbError(r)
      PROVE  Store!Next \/ UNCHANGED Store!vars
  <2>1. Alone(r) /\ TypeInv
    BY AloneIsAll DEF Inv
  <2> QED
    BY <1>1, <2>1, ReadsRefine, StampsRefine, WritesRefine DEF Serve
<1>2. \A f \in AllFaults \ {"db_error"} : f \notin Faults
  BY DEF Sequential
<1>3. /\ ~Crash
      /\ \A r \in Requests : ~LostReply(r) /\ ~CacheError(r)
      /\ \A t \in Tenants : ~DropTenant(t)
  BY <1>2 DEF AllFaults, Crash, LostReply, CacheError, DropTenant
<1>4. ASSUME NEW id \in Ids, Expire(id) PROVE UNCHANGED Store!vars
  BY <1>4 DEF Expire, local, Store!vars, StorePhase, StoreBody
<1>5. CASE UNCHANGED vars
  BY <1>5 DEF vars, Store!vars, StorePhase, StoreBody
<1> QED
  BY <1>1, <1>3, <1>4, <1>5 DEF Next

\* One request at a time, with no fault but database errors, is served as the
\* atomic store would serve it: the cache cannot be noticed.
THEOREM ServiceImplementsStore ==
    ASSUME Sequential
    PROVE  Spec => ServesAtomicStore
<1>1. Init => Inv
  BY TypeInit DEF Init, Inv, BirthInv, Precommit, About, TombstonesStayHidden,
                  AuditTrail, SeqInv, UpToDate
<1>2. Init => Store!Init
  BY DEF Init, Store!Init, StorePhase, StoreBody, Phase
<1> QED
  BY <1>1, <1>2, InvStep, StoreStep, PTL DEF Spec, ServesAtomicStore, Store!Spec

=============================================================================
