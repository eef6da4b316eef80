----------------------- MODULE CategoryServiceProofs -----------------------
(***************************************************************************)
(* Invariants of CategoryService, proved for any number of ids, tenants,   *)
(* names and request slots, any clients' inputs, either cache strategy or  *)
(* no cache, and any set of faults.                                        *)
(***************************************************************************)
EXTENDS CategoryService, EventCategoriesProofs, TLAPS

(* What the step a request has reached says about the request: it has an   *)
(* id, only the methods that take the step are there, and the service      *)
(* holds an entity wherever it is about to use one.                        *)
StepOK(r) ==
    /\ req[r] # None
    /\ req[r].id \in Ids
    /\ WellFormed(req[r])
    /\ pc[r] \in {"lookup", "fill"} => req[r].method \in {"GET", "PUT"}
    /\ pc[r] = "read" => req[r].method # "POST"
    /\ pc[r] \in {"stamp", "write", "refetch", "refresh"} => req[r].method # "GET"
    /\ pc[r] = "stamp" /\ req[r].method # "POST" => held[r] # None
    /\ pc[r] \in {"fill", "write", "refetch", "refresh"} => held[r] # None

Control == \A r \in Requests : pc[r] # "done" => StepOK(r)

TypeInv == TypeOK /\ Control

\* What the assumption on the constants says of one request's input.
LEMMA InputsFact ==
    \A in \in Inputs : in \in Input /\ (in.method # "POST" => in.id \in Ids)
<1>1. ASSUME NEW in \in Inputs
      PROVE  in \in Input /\ (in.method # "POST" => in.id # None)
  BY <1>1, ConstantsAssumption
<1>2. ASSUME NEW in \in Input PROVE in.id \in Ids \cup {None}
  BY <1>2 DEF Input
<1> QED
  BY <1>1, <1>2

\* A POST gets its id from uuid.New when it arrives and stays well-formed.
LEMMA WithIdFact ==
    ASSUME NEW in \in Input, WellFormed(in), NEW id \in Ids
    PROVE  /\ [in EXCEPT !.id = id] \in Input
           /\ [in EXCEPT !.id = id].id = id
           /\ [in EXCEPT !.id = id].method = in.method
           /\ WellFormed([in EXCEPT !.id = id])
  BY DEF Input, WellFormed

\* The service starts with no request in flight and typed data.
LEMMA TypeInit == Init => TypeInv
  BY MaxClockAssumption DEF Init, TypeInv, TypeOK, Control, Stamps

(* What the three stamping steps leave in the service's hands.              *)
Stamped(r, e, now) ==
    \/ /\ req[r].method = "POST"
       /\ e.created_at = now /\ e.updated_at = now /\ e.deleted_at = None
    \/ /\ req[r].method = "PUT"
       /\ held[r] # None
       /\ e.created_at = held[r].created_at
       /\ e.updated_at = now /\ e.deleted_at = held[r].deleted_at
    \/ /\ req[r].method = "DELETE"
       /\ held[r] # None
       /\ e.created_at = held[r].created_at
       /\ e.updated_at = now /\ e.deleted_at = now

\* Each stamping step hands on a typed entity made from the one it held.
LEMMA StampFacts ==
    ASSUME TypeInv, NEW r \in Requests,
           StampCreate(r) \/ StampUpdate(r) \/ StampDelete(r)
    PROVE  \E now \in Stamps, e \in EventCategory :
               TimeNow(now) /\ Stamp(r, e) /\ Stamped(r, e, now)
<1> USE DEF TypeInv, Control
<1>1. pc[r] = "stamp" /\ req[r] \in Input /\ WellFormed(req[r])
  BY DEF StampCreate, StampUpdate, StampDelete, Stamp, TypeOK, StepOK
<1>2. CASE StampCreate(r)
  BY <1>1, <1>2, CreatedType DEF StampCreate, Stamped
<1>3. CASE StampUpdate(r)
  <2>1. req[r].method = "PUT" /\ held[r] # None /\ held[r] \in EventCategory
    BY <1>1, <1>3 DEF StampUpdate, TypeOK, StepOK
  <2> QED
    BY <1>1, <1>3, <2>1, UpdatedType DEF StampUpdate, Stamped
<1>4. CASE StampDelete(r)
  <2>1. req[r].method = "DELETE" /\ held[r] # None /\ held[r] \in EventCategory
    BY <1>1, <1>4 DEF StampDelete, TypeOK, StepOK
  <2> QED
    BY <1>4, <2>1, DeletedType DEF StampDelete, Stamped
<1> QED
  BY <1>2, <1>3, <1>4

\* Every step of a request and every fault keeps TypeInv.
LEMMA TypeStep == TypeInv /\ [Next]_vars => TypeInv'
<1> SUFFICES ASSUME TypeInv, [Next]_vars
             PROVE  TypeInv'
  OBVIOUS
<1> USE NoneAssumption DEF TypeInv, Control
<1>1. ASSUME NEW r \in Requests, Reject(r) PROVE TypeInv'
  <2>1. PICK in \in Inputs : Arrive(r, in, "done", 400) /\ UNCHANGED issued
    BY <1>1 DEF Reject
  <2>2. in \in Input
    BY InputsFact
  <2>3. TypeOK'
    BY <2>1, <2>2 DEF TypeOK, Arrive, Goto
  <2>4. ASSUME NEW q \in Requests, pc'[q] # "done" PROVE StepOK(q)'
    BY <2>1, <2>2, <2>4 DEF TypeOK, StepOK, Arrive, Goto
  <2> QED
    BY <2>3, <2>4
<1>2. ASSUME NEW r \in Requests, Accept(r) PROVE TypeInv'
  <2>1. PICK in \in Inputs :
            /\ in.method # "POST" /\ WellFormed(in)
            /\ Arrive(r, in, FirstStep(in.method), None) /\ UNCHANGED issued
    BY <1>2 DEF Accept
  <2>2. in \in Input /\ in.id \in Ids /\ in # None
    BY <2>1, InputsFact
  <2>3. /\ FirstStep(in.method) \in {"lookup", "read"}
        /\ FirstStep(in.method) = "lookup" => in.method \in {"GET", "PUT"}
    BY <2>1, <2>2 DEF FirstStep, Input
  <2>4. TypeOK'
    BY <2>1, <2>2, <2>3 DEF TypeOK, Arrive, Goto
  <2>5. ASSUME NEW q \in Requests, pc'[q] # "done" PROVE StepOK(q)'
    BY <2>1, <2>2, <2>3, <2>5 DEF TypeOK, StepOK, Arrive, Goto
  <2> QED
    BY <2>4, <2>5
<1>3. ASSUME NEW r \in Requests, AcceptCreate(r) PROVE TypeInv'
  <2>1. PICK in \in Inputs, id \in Ids \ issued :
            /\ in.method = "POST" /\ WellFormed(in)
            /\ Arrive(r, [in EXCEPT !.id = id], "stamp", None)
            /\ issued' = issued \cup {id}
    BY <1>3 DEF AcceptCreate
  <2> DEFINE post == [in EXCEPT !.id = id]
  <2>2. /\ post \in Input /\ post # None
        /\ post.id \in Ids /\ post.method = "POST" /\ WellFormed(post)
    BY <2>1, InputsFact, WithIdFact
  <2> HIDE DEF post
  <2>3. Arrive(r, post, "stamp", None)
    BY <2>1 DEF post
  <2>4. TypeOK'
    BY <2>1, <2>2, <2>3 DEF TypeOK, Arrive, Goto
  <2>5. ASSUME NEW q \in Requests, pc'[q] # "done" PROVE StepOK(q)'
    BY <2>2, <2>3, <2>5 DEF TypeOK, StepOK, Arrive, Goto
  <2> QED
    BY <2>4, <2>5
<1>4. ASSUME NEW r \in Requests, CacheHit(r) PROVE TypeInv'
  <2>1. TypeOK'
    BY <1>4 DEF TypeOK, StepOK, CacheHit, Obtain, Reply, Goto, store
  <2>2. ASSUME NEW q \in Requests, pc'[q] # "done" PROVE StepOK(q)'
    BY <1>4, <2>2 DEF TypeOK, StepOK, CacheHit, Obtain, Reply, Goto, store
  <2> QED
    BY <2>1, <2>2
<1>5. ASSUME NEW r \in Requests, CacheMiss(r) PROVE TypeInv'
  <2>1. TypeOK'
    BY <1>5 DEF TypeOK, StepOK, CacheMiss, Goto, store
  <2>2. ASSUME NEW q \in Requests, pc'[q] # "done" PROVE StepOK(q)'
    BY <1>5, <2>2 DEF TypeOK, StepOK, CacheMiss, Goto, store
  <2> QED
    BY <2>1, <2>2
<1>6. ASSUME NEW r \in Requests, ReadMissing(r) PROVE TypeInv'
  <2>1. TypeOK'
    BY <1>6 DEF TypeOK, StepOK, ReadMissing, Reply, Goto, store
  <2>2. ASSUME NEW q \in Requests, pc'[q] # "done" PROVE StepOK(q)'
    BY <1>6, <2>2 DEF TypeOK, StepOK, ReadMissing, Reply, Goto, store
  <2> QED
    BY <2>1, <2>2
<1>7. ASSUME NEW r \in Requests, ReadUncached(r) PROVE TypeInv'
  <2>1. TypeOK'
    BY <1>7 DEF TypeOK, StepOK, ReadUncached, Obtain, Reply, Goto, Live, store
  <2>2. ASSUME NEW q \in Requests, pc'[q] # "done" PROVE StepOK(q)'
    BY <1>7, <2>2 DEF TypeOK, StepOK, ReadUncached, Obtain, Reply, Goto, Live, store
  <2> QED
    BY <2>1, <2>2
<1>8. ASSUME NEW r \in Requests, ReadThrough(r) PROVE TypeInv'
  <2>1. TypeOK'
    BY <1>8 DEF TypeOK, StepOK, ReadThrough, Goto, Live, store
  <2>2. ASSUME NEW q \in Requests, pc'[q] # "done" PROVE StepOK(q)'
    BY <1>8, <2>2 DEF TypeOK, StepOK, Input, ReadThrough, Goto, Live, store
  <2> QED
    BY <2>1, <2>2
<1>9. ASSUME NEW r \in Requests, Fill(r) PROVE TypeInv'
  <2>1. TypeOK'
    BY <1>9 DEF TypeOK, StepOK, Fill, Obtain, Reply, Goto, store
  <2>2. ASSUME NEW q \in Requests, pc'[q] # "done" PROVE StepOK(q)'
    BY <1>9, <2>2 DEF TypeOK, StepOK, Fill, Obtain, Reply, Goto, store
  <2> QED
    BY <2>1, <2>2
<1>10. ASSUME NEW r \in Requests,
            StampCreate(r) \/ StampUpdate(r) \/ StampDelete(r)
     PROVE  TypeInv'
  <2>1. PICK now \in Stamps, e \in EventCategory : TimeNow(now) /\ Stamp(r, e)
    BY <1>10, StampFacts
  <2>2. TypeOK'
    BY <2>1 DEF Stamp, TimeNow, Goto, TypeOK
  <2>3. ASSUME NEW q \in Requests, pc'[q] # "done" PROVE StepOK(q)'
    BY <2>1, <2>3 DEF Stamp, Goto, TypeOK, StepOK
  <2> QED
    BY <2>2, <2>3
<1>11. ASSUME NEW r \in Requests, Insert(r) PROVE TypeInv'
  <2>1. TypeOK'
    BY <1>11 DEF TypeOK, StepOK, Insert, Written, Succeed, Success, Reply, Goto, store
  <2>2. ASSUME NEW q \in Requests, pc'[q] # "done" PROVE StepOK(q)'
    BY <1>11, <2>2 DEF TypeOK, StepOK, Insert, Written, Succeed, Success, Reply, Goto, store
  <2> QED
    BY <2>1, <2>2
<1>12. ASSUME NEW r \in Requests, InsertRefused(r) PROVE TypeInv'
  <2>1. TypeOK'
    BY <1>12 DEF TypeOK, StepOK, InsertRefused, Reply, Goto, store
  <2>2. ASSUME NEW q \in Requests, pc'[q] # "done" PROVE StepOK(q)'
    BY <1>12, <2>2 DEF TypeOK, StepOK, InsertRefused, Reply, Goto, store
  <2> QED
    BY <2>1, <2>2
<1>13. ASSUME NEW r \in Requests, WriteBack(r) PROVE TypeInv'
  <2>1. TypeOK'
    BY <1>13 DEF TypeOK, StepOK, WriteBack, Written, Succeed, Success, Reply, Goto, store
  <2>2. ASSUME NEW q \in Requests, pc'[q] # "done" PROVE StepOK(q)'
    BY <1>13, <2>2 DEF TypeOK, StepOK, WriteBack, Written, Succeed, Success, Reply, Goto, store
  <2> QED
    BY <2>1, <2>2
<1>14. ASSUME NEW r \in Requests, WriteMissing(r) PROVE TypeInv'
  <2>1. TypeOK'
    BY <1>14 DEF TypeOK, StepOK, WriteMissing, Reply, Goto, store
  <2>2. ASSUME NEW q \in Requests, pc'[q] # "done" PROVE StepOK(q)'
    BY <1>14, <2>2 DEF TypeOK, StepOK, WriteMissing, Reply, Goto, store
  <2> QED
    BY <2>1, <2>2
<1>15. ASSUME NEW r \in Requests, WriteRefused(r) PROVE TypeInv'
  <2>1. TypeOK'
    BY <1>15 DEF TypeOK, StepOK, WriteRefused, Reply, Goto, store
  <2>2. ASSUME NEW q \in Requests, pc'[q] # "done" PROVE StepOK(q)'
    BY <1>15, <2>2 DEF TypeOK, StepOK, WriteRefused, Reply, Goto, store
  <2> QED
    BY <2>1, <2>2
<1>16. ASSUME NEW r \in Requests, Refetch(r) PROVE TypeInv'
  <2>1. TypeOK'
    BY <1>16 DEF TypeOK, StepOK, Refetch, Goto, Live, store
  <2>2. ASSUME NEW q \in Requests, pc'[q] # "done" PROVE StepOK(q)'
    BY <1>16, <2>2 DEF TypeOK, StepOK, Refetch, Goto, Live, store
  <2> QED
    BY <2>1, <2>2
<1>17. ASSUME NEW r \in Requests, Refresh(r) PROVE TypeInv'
  <2>1. TypeOK'
    BY <1>17 DEF TypeOK, StepOK, Refresh, Succeed, Success, Reply, Goto, store
  <2>2. ASSUME NEW q \in Requests, pc'[q] # "done" PROVE StepOK(q)'
    BY <1>17, <2>2 DEF TypeOK, StepOK, Refresh, Succeed, Success, Reply, Goto, store
  <2> QED
    BY <2>1, <2>2
<1>18. ASSUME NEW r \in Requests, DbError(r) PROVE TypeInv'
  <2>1. TypeOK'
    BY <1>18 DEF TypeOK, StepOK, DbError, Reply, Goto, store
  <2>2. ASSUME NEW q \in Requests, pc'[q] # "done" PROVE StepOK(q)'
    BY <1>18, <2>2 DEF TypeOK, StepOK, DbError, Reply, Goto, store
  <2> QED
    BY <2>1, <2>2
<1>19. ASSUME NEW r \in Requests, CacheError(r) PROVE TypeInv'
  <2>1. TypeOK'
    BY <1>19 DEF TypeOK, StepOK, CacheError, Obtain, Succeed, Success, Reply, Goto, store
  <2>2. ASSUME NEW q \in Requests, pc'[q] # "done" PROVE StepOK(q)'
    BY <1>19, <2>2 DEF TypeOK, StepOK, CacheError, Obtain, Succeed, Success, Reply, Goto, store
  <2> QED
    BY <2>1, <2>2
<1>20. ASSUME NEW r \in Requests, LostReply(r) PROVE TypeInv'
  <2>1. TypeOK'
    BY <1>20 DEF TypeOK, StepOK, LostReply, Reply, Goto, store
  <2>2. ASSUME NEW q \in Requests, pc'[q] # "done" PROVE StepOK(q)'
    BY <1>20, <2>2 DEF TypeOK, StepOK, LostReply, Reply, Goto, store
  <2> QED
    BY <2>1, <2>2
<1>21. ASSUME Crash PROVE TypeInv'
  BY <1>21 DEF TypeOK, StepOK, Crash, store
<1>22. ASSUME NEW id \in Ids, Expire(id) PROVE TypeInv'
  BY <1>22 DEF TypeOK, StepOK, Expire, local
<1>23. ASSUME NEW t \in Tenants, DropTenant(t) PROVE TypeInv'
  BY <1>23 DEF TypeOK, StepOK, DropTenant, local
<1>24. CASE UNCHANGED vars
  BY <1>24 DEF vars, TypeOK, StepOK
<1> QED
  BY <1>1, <1>2, <1>3, <1>4, <1>5, <1>6, <1>7, <1>8, <1>9, <1>10, <1>11,
     <1>12, <1>13, <1>14, <1>15, <1>16, <1>17, <1>18, <1>19, <1>20, <1>21,
     <1>22, <1>23, <1>24
     DEF Next, Serve

\* Every variable keeps its type, for every value of the constants: a request
\* that stamps or writes holds a whole category.
THEOREM TypeCorrect == Spec => []TypeOK
<1>1. TypeInv => TypeOK
  BY DEF TypeInv
<1> QED
  BY <1>1, TypeInit, TypeStep, PTL DEF Spec

-----------------------------------------------------------------------------
(* Where values come from.  A step changes a row, a cache entry or a copy  *)
(* that a request has only in these ways; every invariant below follows    *)
(* from them.                                                              *)

RowFlow(id) ==
    \/ rows'[id] = rows[id]
    \/ rows'[id] = None
    \/ \E r \in Requests :
          /\ pc[r] = "write" /\ req[r].id = id
          /\ pc'[r] \notin {"stamp", "write"}
          /\ rows[id] = None => req[r].method = "POST"
          /\ SourceRule(held[r])
          /\ rows'[id] = held[r]

CacheFlow(id) ==
    \/ cache'[id] = cache[id]
    \/ cache'[id] = None
    \/ \E r \in Requests : /\ pc[r] # "done" /\ req[r].id = id
                           /\ cache'[id] = fill[r]

FillFlow(r) ==
    \/ fill'[r] = None
    \/ req'[r] = req[r] /\ fill'[r] = fill[r]
    \/ /\ req'[r] = req[r] /\ pc[r] # "done"
       /\ Live(rows[req[r].id]) /\ fill'[r] = rows[req[r].id]

HeldFlow(r) ==
    \/ held'[r] = None
    \/ /\ req'[r] = req[r] /\ held'[r] = held[r]
       /\ pc'[r] = "write" => pc[r] = "write"
       /\ pc[r] = "write" =>
             \/ pc'[r] = "write"
             \/ SourceRule(held[r]) /\ rows'[req[r].id] = held[r]
    \/ /\ req'[r] = req[r] /\ pc[r] # "done" /\ pc'[r] # "write"
       /\ \/ cache[req[r].id] # None /\ held'[r] = cache[req[r].id]
          \/ Live(rows[req[r].id]) /\ held'[r] = rows[req[r].id]
    \/ /\ req'[r] = req[r] /\ pc[r] = "stamp" /\ pc'[r] = "write"
       /\ TimeNow(clock') /\ Stamped(r, held'[r], clock')

Flow ==
    /\ clock <= clock'
    /\ \A id \in Ids : RowFlow(id) /\ CacheFlow(id)
    /\ \A r \in Requests : FillFlow(r) /\ HeldFlow(r)

\* In every step each new value comes from where Flow says.
LEMMA StepFlows == TypeInv /\ [Next]_vars => Flow
<1> SUFFICES ASSUME TypeInv, [Next]_vars
             PROVE  Flow
  OBVIOUS
<1> USE NoneAssumption DEF TypeInv, Control
<1>t. clock \in Nat /\ clock <= clock
  BY MaxClockAssumption DEF TypeOK, Stamps
<1>1. ASSUME NEW r \in Requests, Reject(r) PROVE Flow
  <2>1. ASSUME NEW id \in Ids PROVE RowFlow(id) /\ CacheFlow(id)
    BY <1>1 DEF RowFlow, CacheFlow, TypeOK, StepOK, Reject, Arrive, Goto, store
  <2>2. ASSUME NEW q \in Requests PROVE FillFlow(q) /\ HeldFlow(q)
    BY <1>1 DEF FillFlow, HeldFlow, TypeOK, StepOK, Reject, Arrive, Goto, store
  <2> QED
    BY <1>t, <1>1, <2>1, <2>2 DEF Flow, Reject, Arrive, store
<1>2. ASSUME NEW r \in Requests, Accept(r) PROVE Flow
  <2>1. ASSUME NEW id \in Ids PROVE RowFlow(id) /\ CacheFlow(id)
    BY <1>2 DEF RowFlow, CacheFlow, TypeOK, StepOK, Accept, Arrive, Goto, FirstStep, store
  <2>2. ASSUME NEW q \in Requests PROVE FillFlow(q) /\ HeldFlow(q)
    BY <1>2 DEF FillFlow, HeldFlow, TypeOK, StepOK, Accept, Arrive, Goto, FirstStep, store
  <2> QED
    BY <1>t, <1>2, <2>1, <2>2 DEF Flow, Accept, Arrive, store
<1>3. ASSUME NEW r \in Requests, AcceptCreate(r) PROVE Flow
  <2>1. ASSUME NEW id \in Ids PROVE RowFlow(id) /\ CacheFlow(id)
    BY <1>3 DEF RowFlow, CacheFlow, TypeOK, StepOK, AcceptCreate, Arrive, Goto, store
  <2>2. ASSUME NEW q \in Requests PROVE FillFlow(q) /\ HeldFlow(q)
    BY <1>3 DEF FillFlow, HeldFlow, TypeOK, StepOK, AcceptCreate, Arrive, Goto, store
  <2> QED
    BY <1>t, <1>3, <2>1, <2>2 DEF Flow, AcceptCreate, Arrive, store
<1>4. ASSUME NEW r \in Requests, CacheHit(r) PROVE Flow
  <2>1. ASSUME NEW id \in Ids PROVE RowFlow(id) /\ CacheFlow(id)
    BY <1>4 DEF RowFlow, CacheFlow, TypeOK, StepOK, CacheHit, Obtain, Reply, Goto, store
  <2>2. ASSUME NEW q \in Requests PROVE FillFlow(q) /\ HeldFlow(q)
    BY <1>4 DEF FillFlow, HeldFlow, TypeOK, StepOK, CacheHit, Obtain, Reply, Goto, store
  <2> QED
    BY <1>t, <1>4, <2>1, <2>2 DEF Flow, CacheHit, store
<1>5. ASSUME NEW r \in Requests, CacheMiss(r) PROVE Flow
  <2>1. ASSUME NEW id \in Ids PROVE RowFlow(id) /\ CacheFlow(id)
    BY <1>5 DEF RowFlow, CacheFlow, TypeOK, StepOK, CacheMiss, Goto, store
  <2>2. ASSUME NEW q \in Requests PROVE FillFlow(q) /\ HeldFlow(q)
    BY <1>5 DEF FillFlow, HeldFlow, TypeOK, StepOK, CacheMiss, Goto, store
  <2> QED
    BY <1>t, <1>5, <2>1, <2>2 DEF Flow, CacheMiss, store
<1>6. ASSUME NEW r \in Requests, ReadMissing(r) PROVE Flow
  <2>1. ASSUME NEW id \in Ids PROVE RowFlow(id) /\ CacheFlow(id)
    BY <1>6 DEF RowFlow, CacheFlow, TypeOK, StepOK, ReadMissing, Reply, Goto, store
  <2>2. ASSUME NEW q \in Requests PROVE FillFlow(q) /\ HeldFlow(q)
    BY <1>6 DEF FillFlow, HeldFlow, TypeOK, StepOK, ReadMissing, Reply, Goto, store
  <2> QED
    BY <1>t, <1>6, <2>1, <2>2 DEF Flow, ReadMissing, store
<1>7. ASSUME NEW r \in Requests, ReadUncached(r) PROVE Flow
  <2>1. ASSUME NEW id \in Ids PROVE RowFlow(id) /\ CacheFlow(id)
    BY <1>7 DEF RowFlow, CacheFlow, TypeOK, StepOK, ReadUncached, Obtain, Reply, Goto, store
  <2>2. ASSUME NEW q \in Requests PROVE FillFlow(q) /\ HeldFlow(q)
    BY <1>7 DEF FillFlow, HeldFlow, TypeOK, StepOK, ReadUncached, Obtain, Reply, Goto, store
  <2> QED
    BY <1>t, <1>7, <2>1, <2>2 DEF Flow, ReadUncached, store
<1>8. ASSUME NEW r \in Requests, ReadThrough(r) PROVE Flow
  <2>1. ASSUME NEW id \in Ids PROVE RowFlow(id) /\ CacheFlow(id)
    BY <1>8 DEF RowFlow, CacheFlow, TypeOK, StepOK, ReadThrough, Goto, store
  <2>2. ASSUME NEW q \in Requests PROVE FillFlow(q) /\ HeldFlow(q)
    BY <1>8 DEF FillFlow, HeldFlow, TypeOK, StepOK, ReadThrough, Goto, store
  <2> QED
    BY <1>t, <1>8, <2>1, <2>2 DEF Flow, ReadThrough, store
<1>9. ASSUME NEW r \in Requests, Fill(r) PROVE Flow
  <2>1. ASSUME NEW id \in Ids PROVE RowFlow(id) /\ CacheFlow(id)
    BY <1>9 DEF RowFlow, CacheFlow, TypeOK, StepOK, Fill, Obtain, Reply, Goto, store
  <2>2. ASSUME NEW q \in Requests PROVE FillFlow(q) /\ HeldFlow(q)
    BY <1>9 DEF FillFlow, HeldFlow, TypeOK, StepOK, Fill, Obtain, Reply, Goto, store
  <2> QED
    BY <1>t, <1>9, <2>1, <2>2 DEF Flow, Fill, store
<1>10. ASSUME NEW r \in Requests,
            StampCreate(r) \/ StampUpdate(r) \/ StampDelete(r)
     PROVE  Flow
  <2>1. PICK now \in Stamps, e \in EventCategory :
            TimeNow(now) /\ Stamp(r, e) /\ Stamped(r, e, now)
    BY <1>10, StampFacts
  <2>2. clock <= clock' /\ clock' = now /\ TimeNow(clock')
    BY <1>t, <2>1 DEF TimeNow
  <2>3. ASSUME NEW id \in Ids PROVE RowFlow(id) /\ CacheFlow(id)
    BY <2>1 DEF RowFlow, CacheFlow, Stamp
  <2>4. ASSUME NEW q \in Requests PROVE FillFlow(q) /\ HeldFlow(q)
    BY <2>1, <2>2 DEF FillFlow, HeldFlow, TypeOK, Stamp, Goto
  <2> QED
    BY <2>2, <2>3, <2>4 DEF Flow
<1>11. ASSUME NEW r \in Requests, Insert(r) PROVE Flow
  <2>1. ASSUME NEW id \in Ids PROVE RowFlow(id) /\ CacheFlow(id)
    BY <1>11 DEF RowFlow, CacheFlow, TypeOK, StepOK, Insert, Constraints, Written, Succeed, Reply, Goto, store
  <2>2. ASSUME NEW q \in Requests PROVE FillFlow(q) /\ HeldFlow(q)
    BY <1>11 DEF FillFlow, HeldFlow, TypeOK, StepOK, Insert, Constraints, Written, Succeed, Reply, Goto, store
  <2> QED
    BY <1>t, <1>11, <2>1, <2>2 DEF Flow, Insert, store
<1>12. ASSUME NEW r \in Requests, InsertRefused(r) PROVE Flow
  <2>1. ASSUME NEW id \in Ids PROVE RowFlow(id) /\ CacheFlow(id)
    BY <1>12 DEF RowFlow, CacheFlow, TypeOK, StepOK, InsertRefused, Reply, Goto, store
  <2>2. ASSUME NEW q \in Requests PROVE FillFlow(q) /\ HeldFlow(q)
    BY <1>12 DEF FillFlow, HeldFlow, TypeOK, StepOK, InsertRefused, Reply, Goto, store
  <2> QED
    BY <1>t, <1>12, <2>1, <2>2 DEF Flow, InsertRefused, store
<1>13. ASSUME NEW r \in Requests, WriteBack(r) PROVE Flow
  <2>1. ASSUME NEW id \in Ids PROVE RowFlow(id) /\ CacheFlow(id)
    BY <1>13 DEF RowFlow, CacheFlow, TypeOK, StepOK, WriteBack, Constraints, Written, Succeed, Reply, Goto, store
  <2>2. ASSUME NEW q \in Requests PROVE FillFlow(q) /\ HeldFlow(q)
    BY <1>13 DEF FillFlow, HeldFlow, TypeOK, StepOK, WriteBack, Constraints, Written, Succeed, Reply, Goto, store
  <2> QED
    BY <1>t, <1>13, <2>1, <2>2 DEF Flow, WriteBack, store
<1>14. ASSUME NEW r \in Requests, WriteMissing(r) PROVE Flow
  <2>1. ASSUME NEW id \in Ids PROVE RowFlow(id) /\ CacheFlow(id)
    BY <1>14 DEF RowFlow, CacheFlow, TypeOK, StepOK, WriteMissing, Reply, Goto, store
  <2>2. ASSUME NEW q \in Requests PROVE FillFlow(q) /\ HeldFlow(q)
    BY <1>14 DEF FillFlow, HeldFlow, TypeOK, StepOK, WriteMissing, Reply, Goto, store
  <2> QED
    BY <1>t, <1>14, <2>1, <2>2 DEF Flow, WriteMissing, store
<1>15. ASSUME NEW r \in Requests, WriteRefused(r) PROVE Flow
  <2>1. ASSUME NEW id \in Ids PROVE RowFlow(id) /\ CacheFlow(id)
    BY <1>15 DEF RowFlow, CacheFlow, TypeOK, StepOK, WriteRefused, Reply, Goto, store
  <2>2. ASSUME NEW q \in Requests PROVE FillFlow(q) /\ HeldFlow(q)
    BY <1>15 DEF FillFlow, HeldFlow, TypeOK, StepOK, WriteRefused, Reply, Goto, store
  <2> QED
    BY <1>t, <1>15, <2>1, <2>2 DEF Flow, WriteRefused, store
<1>16. ASSUME NEW r \in Requests, Refetch(r) PROVE Flow
  <2>1. ASSUME NEW id \in Ids PROVE RowFlow(id) /\ CacheFlow(id)
    BY <1>16 DEF RowFlow, CacheFlow, TypeOK, StepOK, Refetch, Goto, store
  <2>2. ASSUME NEW q \in Requests PROVE FillFlow(q) /\ HeldFlow(q)
    BY <1>16 DEF FillFlow, HeldFlow, TypeOK, StepOK, Refetch, Goto, store
  <2> QED
    BY <1>t, <1>16, <2>1, <2>2 DEF Flow, Refetch, store
<1>17. ASSUME NEW r \in Requests, Refresh(r) PROVE Flow
  <2>1. ASSUME NEW id \in Ids PROVE RowFlow(id) /\ CacheFlow(id)
    BY <1>17 DEF RowFlow, CacheFlow, TypeOK, StepOK, Refresh, Succeed, Reply, Goto, store
  <2>2. ASSUME NEW q \in Requests PROVE FillFlow(q) /\ HeldFlow(q)
    BY <1>17 DEF FillFlow, HeldFlow, TypeOK, StepOK, Refresh, Succeed, Reply, Goto, store
  <2> QED
    BY <1>t, <1>17, <2>1, <2>2 DEF Flow, Refresh, store
<1>18. ASSUME NEW r \in Requests, DbError(r) PROVE Flow
  <2>1. ASSUME NEW id \in Ids PROVE RowFlow(id) /\ CacheFlow(id)
    BY <1>18 DEF RowFlow, CacheFlow, TypeOK, StepOK, DbError, Reply, Goto, store
  <2>2. ASSUME NEW q \in Requests PROVE FillFlow(q) /\ HeldFlow(q)
    BY <1>18 DEF FillFlow, HeldFlow, TypeOK, StepOK, DbError, Reply, Goto, store
  <2> QED
    BY <1>t, <1>18, <2>1, <2>2 DEF Flow, DbError, store
<1>19. ASSUME NEW r \in Requests, CacheError(r) PROVE Flow
  <2>1. ASSUME NEW id \in Ids PROVE RowFlow(id) /\ CacheFlow(id)
    BY <1>19 DEF RowFlow, CacheFlow, TypeOK, StepOK, CacheError, Obtain, Succeed, Reply, Goto, store
  <2>2. ASSUME NEW q \in Requests PROVE FillFlow(q) /\ HeldFlow(q)
    BY <1>19 DEF FillFlow, HeldFlow, TypeOK, StepOK, CacheError, Obtain, Succeed, Reply, Goto, store
  <2> QED
    BY <1>t, <1>19, <2>1, <2>2 DEF Flow, CacheError, store
<1>20. ASSUME NEW r \in Requests, LostReply(r) PROVE Flow
  <2>1. ASSUME NEW id \in Ids PROVE RowFlow(id) /\ CacheFlow(id)
    BY <1>20 DEF RowFlow, CacheFlow, TypeOK, StepOK, LostReply, Constraints, Reply, Goto, store
  <2>2. ASSUME NEW q \in Requests PROVE FillFlow(q) /\ HeldFlow(q)
    BY <1>20 DEF FillFlow, HeldFlow, TypeOK, StepOK, LostReply, Constraints, Reply, Goto, store
  <2> QED
    BY <1>t, <1>20, <2>1, <2>2 DEF Flow, LostReply, store
<1>21. ASSUME Crash PROVE Flow
  BY <1>t, <1>21 DEF Flow, RowFlow, CacheFlow, FillFlow, HeldFlow, TypeOK, Crash, store
<1>22. ASSUME NEW id \in Ids, Expire(id) PROVE Flow
  BY <1>t, <1>22 DEF Flow, RowFlow, CacheFlow, FillFlow, HeldFlow, TypeOK, Expire, local
<1>23. ASSUME NEW t \in Tenants, DropTenant(t) PROVE Flow
  BY <1>t, <1>23 DEF Flow, RowFlow, CacheFlow, FillFlow, HeldFlow, TypeOK, DropTenant, local
<1>24. CASE UNCHANGED vars
  BY <1>t, <1>24 DEF Flow, RowFlow, CacheFlow, FillFlow, HeldFlow, vars
<1> QED
  BY <1>1, <1>2, <1>3, <1>4, <1>5, <1>6, <1>7, <1>8, <1>9, <1>10, <1>11,
     <1>12, <1>13, <1>14, <1>15, <1>16, <1>17, <1>18, <1>19, <1>20, <1>21,
     <1>22, <1>23, <1>24
     DEF Next, Serve

-----------------------------------------------------------------------------
(* Soft-deleted categories stay out of the cache and of every answer.      *)

\* What reaches the cache or an answer in a step is live.
LEMMA TombstonesStep ==
    TypeInv /\ TombstonesStayHidden /\ [Next]_vars => TombstonesStayHidden'
<1> SUFFICES ASSUME TypeInv, TombstonesStayHidden, [Next]_vars
             PROVE  TombstonesStayHidden'
  OBVIOUS
<1>1. Flow
  BY StepFlows
<1>2. ASSUME NEW id \in Ids, cache'[id] # None PROVE cache'[id].deleted_at = None
  BY <1>1, <1>2 DEF Flow, CacheFlow, TombstonesStayHidden
<1>3. ASSUME NEW r \in Requests, fill'[r] # None PROVE fill'[r].deleted_at = None
  BY <1>1, <1>3 DEF Flow, FillFlow, Live, isSoftDeleted, TombstonesStayHidden
<1>4. ASSUME NEW r \in Requests, held'[r] # None, req'[r].method # "DELETE"
      PROVE  held'[r].deleted_at = None
  <2>1. HeldFlow(r)
    BY <1>1 DEF Flow
  <2>2. pc[r] # "done" => req[r].id \in Ids
    BY DEF TypeInv, Control, StepOK
  <2> QED
    BY <1>4, <2>1, <2>2
       DEF HeldFlow, Live, isSoftDeleted, Stamped, TombstonesStayHidden
<1> QED
  BY <1>2, <1>3, <1>4 DEF TombstonesStayHidden

\* No copy of a soft-deleted category is cached or served, whatever overlaps,
\* fails or crashes.
THEOREM TombstonesHidden == Spec => []TombstonesStayHidden
<1>1. Init => TombstonesStayHidden
  BY DEF Init, TombstonesStayHidden
<1> QED
  BY <1>1, TypeInit, TypeStep, TombstonesStep, PTL DEF Spec

-----------------------------------------------------------------------------
(* The source/tenant rule.  Only an entity that is being written may break *)
(* it: the merge of an update is checked by the database alone.            *)

RuleInv ==
    /\ \A id \in Ids : /\ rows[id]  # None => SourceRule(rows[id])
                       /\ cache[id] # None => SourceRule(cache[id])
    /\ \A r \in Requests :
          /\ fill[r] # None => SourceRule(fill[r])
          /\ held[r] # None /\ pc[r] # "write" => SourceRule(held[r])

\* Only the entity at the step before the write may break the rule.
LEMMA RuleStep == TypeInv /\ RuleInv /\ [Next]_vars => RuleInv'
<1> SUFFICES ASSUME TypeInv, RuleInv, [Next]_vars
             PROVE  RuleInv'
  OBVIOUS
<1>1. Flow
  BY StepFlows
<1>2. ASSUME NEW r \in Requests, pc[r] # "done" PROVE req[r].id \in Ids
  BY <1>2 DEF TypeInv, Control, StepOK
<1>3. ASSUME NEW id \in Ids, rows'[id] # None PROVE SourceRule(rows'[id])
  BY <1>1, <1>3 DEF Flow, RowFlow, RuleInv
<1>4. ASSUME NEW id \in Ids, cache'[id] # None PROVE SourceRule(cache'[id])
  BY <1>1, <1>4 DEF Flow, CacheFlow, RuleInv
<1>5. ASSUME NEW r \in Requests, fill'[r] # None PROVE SourceRule(fill'[r])
  BY <1>1, <1>2, <1>5 DEF Flow, FillFlow, Live, RuleInv
<1>6. ASSUME NEW r \in Requests, held'[r] # None, pc'[r] # "write"
      PROVE  SourceRule(held'[r])
  BY <1>1, <1>2, <1>6 DEF Flow, HeldFlow, Live, RuleInv
<1> QED
  BY <1>3, <1>4, <1>5, <1>6 DEF RuleInv

\* Every category that is stored, cached or answered obeys the rule, although
\* Update never checks it.
THEOREM RuleHolds == Spec => []RuleHoldsWhereVisible
<1>1. Init => RuleInv
  BY DEF Init, RuleInv
<1>2. RuleInv => RuleHoldsWhereVisible
  BY DEF RuleInv, RuleHoldsWhereVisible
<1> QED
  BY <1>1, <1>2, TypeInit, TypeStep, RuleStep, PTL DEF Spec

-----------------------------------------------------------------------------
(* The audit columns.  An update restamps updated_at alone, so it keeps    *)
(* them in agreement only because what it holds is not a tombstone.        *)

\* The columns of an entity that does not change agree at later times too.
LEMMA AgreeLater ==
    ASSUME TypeInv, TypeInv', clock <= clock', NEW e \in EventCategory,
           AuditColumnsAgree(e)
    PROVE  AuditColumnsAgree(e)'
  BY DEF TypeInv, TypeOK, AuditColumnsAgree, EventCategory, Stamps

\* Every step keeps the audit columns of all copies in agreement.
LEMMA AuditStep ==
    TypeInv /\ TypeInv' /\ TombstonesStayHidden /\ AuditTrail /\ [Next]_vars
        => AuditTrail'
<1> SUFFICES ASSUME TypeInv, TypeInv', TombstonesStayHidden, AuditTrail, [Next]_vars
             PROVE  AuditTrail'
  OBVIOUS
<1>1. Flow
  BY StepFlows
<1>2. ASSUME NEW r \in Requests, pc[r] # "done" PROVE req[r].id \in Ids
  BY <1>2 DEF TypeInv, Control, StepOK
<1> DEFINE Agree(e) == e \in EventCategory /\ AuditColumnsAgree(e)
<1>3. /\ \A id \in Ids : /\ rows[id]  # None => Agree(rows[id])
                         /\ cache[id] # None => Agree(cache[id])
      /\ \A r \in Requests : /\ held[r] # None => Agree(held[r])
                             /\ fill[r] # None => Agree(fill[r])
  BY DEF TypeInv, TypeOK, AuditTrail
<1>4. \A e : Agree(e) => AuditColumnsAgree(e)'
  BY <1>1, AgreeLater DEF Flow
<1> HIDE DEF Agree
<1>5. ASSUME NEW id \in Ids, rows'[id] # None PROVE AuditColumnsAgree(rows[id])'
  BY <1>1, <1>3, <1>4, <1>5 DEF Flow, RowFlow
<1>6. ASSUME NEW id \in Ids, cache'[id] # None PROVE AuditColumnsAgree(cache[id])'
  BY <1>1, <1>3, <1>4, <1>6 DEF Flow, CacheFlow
<1>7. ASSUME NEW r \in Requests, fill'[r] # None PROVE AuditColumnsAgree(fill[r])'
  BY <1>1, <1>2, <1>3, <1>4, <1>7 DEF Flow, FillFlow, Live
<1>8. ASSUME NEW r \in Requests, held'[r] # None PROVE AuditColumnsAgree(held[r])'
  <2>1. HeldFlow(r)
    BY <1>1 DEF Flow
  <2>2. CASE Agree(held'[r])
    BY <1>4, <2>2
  <2>3. CASE TimeNow(clock') /\ Stamped(r, held'[r], clock')
    <3>1. /\ clock \in Nat /\ clock' \in Nat /\ clock <= clock'
          /\ held[r] # None =>
                /\ held[r].created_at \in Nat /\ held[r].updated_at \in Nat
                /\ held[r].created_at <= held[r].updated_at
                /\ held[r].updated_at <= clock
      BY <1>1, <1>3
         DEF Flow, Agree, AuditColumnsAgree, EventCategory, TypeInv, TypeOK, Stamps
    <3>2. held[r] # None /\ req[r].method = "PUT" => held[r].deleted_at = None
      BY DEF TombstonesStayHidden
    <3> QED
      BY <2>3, <3>1, <3>2 DEF Stamped, AuditColumnsAgree
  <2> QED
    BY <1>2, <1>3, <1>8, <2>1, <2>2, <2>3 DEF HeldFlow, Live
<1> QED
  BY <1>5, <1>6, <1>7, <1>8 DEF AuditTrail

\* The audit columns of every row, cached entry and copy agree.
THEOREM AuditTrailHolds == Spec => []AuditTrail
<1>1. Init => TombstonesStayHidden /\ AuditTrail
  BY DEF Init, TombstonesStayHidden, AuditTrail
<1> QED
  BY <1>1, TypeInit, TypeStep, TombstonesStep, AuditStep, PTL DEF Spec

-----------------------------------------------------------------------------
(* Identity.  Until the POST that drew an id has committed, nothing is     *)
(* known of that id anywhere; afterwards every copy of its row was born    *)
(* when the row was.                                                       *)

Precommit(r) ==
    pc[r] \in {"stamp", "write"} /\ req[r].method = "POST"

Unborn(id) ==
    \/ id \notin issued
    \/ \E r \in Requests : Precommit(r) /\ req[r].id = id

\* Slot r serves, or served last, a request about id.
About(r, id) == req[r] # None /\ req[r].id = id

BirthInv ==
    /\ \A r \in Requests :
          Precommit(r) =>
             /\ req[r].id \in issued
             /\ \A q \in Requests :
                   Precommit(q) /\ req[q].id = req[r].id => q = r
    /\ \A r \in Requests : Precommit(r) => fill[r] = None
    /\ \A r \in Requests : req[r] = None => held[r] = None /\ fill[r] = None
    /\ \A id \in Ids : Unborn(id) =>
          /\ rows[id] = None
          /\ cache[id] = None
          /\ \A r \in Requests :
                About(r, id) /\ ~Precommit(r) => held[r] = None /\ fill[r] = None
    /\ \A id \in Ids : rows[id] # None =>
          /\ cache[id] # None => cache[id].created_at = rows[id].created_at
          /\ \A r \in Requests : About(r, id) =>
                /\ held[r] # None => held[r].created_at = rows[id].created_at
                /\ fill[r] # None => fill[r].created_at = rows[id].created_at

IssueFlow ==
    /\ issued \subseteq issued'
    /\ \A r \in Requests : Precommit(r)' =>
          \/ Precommit(r) /\ req'[r] = req[r]
          \/ /\ req'[r].id \in issued' \ issued
             /\ fill'[r] = None
             /\ \A q \in Requests \ {r} : pc'[q] = pc[q] /\ req'[q] = req[q]

\* Ids are drawn fresh, by one POST each, and stay drawn.
LEMMA StepIssues == TypeInv /\ [Next]_vars => IssueFlow
<1> SUFFICES ASSUME TypeInv, [Next]_vars
             PROVE  IssueFlow
  OBVIOUS
<1> USE NoneAssumption DEF TypeInv, Control, TypeOK, StepOK, IssueFlow, Precommit
<1>0. ASSUME NEW r \in Requests, AcceptCreate(r) PROVE IssueFlow
  <2>1. PICK in \in Inputs, id \in Ids \ issued :
            /\ Arrive(r, [in EXCEPT !.id = id], "stamp", None)
            /\ issued' = issued \cup {id}
    BY <1>0 DEF AcceptCreate
  <2>2. in \in Input
    BY InputsFact
  <2>3. [in EXCEPT !.id = id].id = id
    BY <2>2 DEF Input
  <2> QED
    BY <2>1, <2>3 DEF Arrive, Goto
<1>1. ASSUME NEW r \in Requests, Reject(r) PROVE IssueFlow
  BY <1>1 DEF Reject, Arrive, Goto, store
<1>2. ASSUME NEW r \in Requests, Accept(r) PROVE IssueFlow
  BY <1>2 DEF Accept, Arrive, Goto, FirstStep, store
<1>3. ASSUME NEW r \in Requests, CacheHit(r) PROVE IssueFlow
  BY <1>3 DEF CacheHit, Obtain, Reply, Goto, store
<1>4. ASSUME NEW r \in Requests, CacheMiss(r) PROVE IssueFlow
  BY <1>4 DEF CacheMiss, Goto, store
<1>5. ASSUME NEW r \in Requests, ReadMissing(r) PROVE IssueFlow
  BY <1>5 DEF ReadMissing, Reply, Goto, store
<1>6. ASSUME NEW r \in Requests, ReadUncached(r) PROVE IssueFlow
  BY <1>6 DEF ReadUncached, Obtain, Reply, Goto, store
<1>7. ASSUME NEW r \in Requests, ReadThrough(r) PROVE IssueFlow
  BY <1>7 DEF ReadThrough, Goto, store
<1>8. ASSUME NEW r \in Requests, Fill(r) PROVE IssueFlow
  BY <1>8 DEF Fill, Obtain, Reply, Goto, store
<1>9. ASSUME NEW r \in Requests, StampCreate(r) PROVE IssueFlow
  BY <1>9 DEF StampCreate, Stamp, Goto, store
<1>10. ASSUME NEW r \in Requests, StampUpdate(r) PROVE IssueFlow
  BY <1>10 DEF StampUpdate, Stamp, Goto, store
<1>11. ASSUME NEW r \in Requests, StampDelete(r) PROVE IssueFlow
  BY <1>11 DEF StampDelete, Stamp, Goto, store
<1>12. ASSUME NEW r \in Requests, Insert(r) PROVE IssueFlow
  BY <1>12 DEF Insert, Written, Succeed, Reply, Goto, store
<1>13. ASSUME NEW r \in Requests, InsertRefused(r) PROVE IssueFlow
  BY <1>13 DEF InsertRefused, Reply, Goto, store
<1>14. ASSUME NEW r \in Requests, WriteBack(r) PROVE IssueFlow
  BY <1>14 DEF WriteBack, Written, Succeed, Reply, Goto, store
<1>15. ASSUME NEW r \in Requests, WriteMissing(r) PROVE IssueFlow
  BY <1>15 DEF WriteMissing, Reply, Goto, store
<1>16. ASSUME NEW r \in Requests, WriteRefused(r) PROVE IssueFlow
  BY <1>16 DEF WriteRefused, Reply, Goto, store
<1>17. ASSUME NEW r \in Requests, Refetch(r) PROVE IssueFlow
  BY <1>17 DEF Refetch, Goto, store
<1>18. ASSUME NEW r \in Requests, Refresh(r) PROVE IssueFlow
  BY <1>18 DEF Refresh, Succeed, Reply, Goto, store
<1>19. ASSUME NEW r \in Requests, DbError(r) PROVE IssueFlow
  BY <1>19 DEF DbError, Reply, Goto, store
<1>20. ASSUME NEW r \in Requests, CacheError(r) PROVE IssueFlow
  BY <1>20 DEF CacheError, Obtain, Succeed, Reply, Goto, store
<1>21. ASSUME NEW r \in Requests, LostReply(r) PROVE IssueFlow
  BY <1>21 DEF LostReply, Reply, Goto, store
<1>22. ASSUME Crash PROVE IssueFlow
  BY <1>22 DEF Crash, store
<1>23. ASSUME NEW id \in Ids, Expire(id) PROVE IssueFlow
  BY <1>23 DEF Expire, local
<1>24. ASSUME NEW t \in Tenants, DropTenant(t) PROVE IssueFlow
  BY <1>24 DEF DropTenant, local
<1>25. CASE UNCHANGED vars
  BY <1>25 DEF vars
<1> QED
  BY <1>0, <1>1, <1>2, <1>3, <1>4, <1>5, <1>6, <1>7, <1>8, <1>9, <1>10,
     <1>11, <1>12, <1>13, <1>14, <1>15, <1>16, <1>17, <1>18, <1>19, <1>20,
     <1>21, <1>22, <1>23, <1>24, <1>25
     DEF Next, Serve

\* Every step keeps the copies of a row as old as the row itself.
LEMMA BirthStep == TypeInv /\ BirthInv /\ [Next]_vars => BirthInv'
<1> SUFFICES ASSUME TypeInv, BirthInv, [Next]_vars
             PROVE  BirthInv'
  OBVIOUS
<1>1. Flow /\ IssueFlow
  BY StepFlows, StepIssues
<1>2. ASSUME NEW r \in Requests, pc[r] # "done"
      PROVE  req[r] # None /\ req[r].id \in Ids /\ About(r, req[r].id)
  BY <1>2 DEF TypeInv, Control, StepOK, About
<1>3. ASSUME NEW r \in Requests, Precommit(r)
      PROVE  /\ req[r].id \in Ids /\ Unborn(req[r].id)
             /\ rows[req[r].id] = None /\ cache[req[r].id] = None
             /\ fill[r] = None
  BY <1>2, <1>3 DEF Precommit, Unborn, BirthInv
<1>4. ASSUME NEW id \in Ids, Unborn(id)' PROVE Unborn(id)
  BY <1>1, <1>4 DEF IssueFlow, Unborn
<1>5. ASSUME NEW id \in Ids, rows[id] = None, rows'[id] # None
      PROVE  \E w \in Requests : /\ Precommit(w) /\ req[w].id = id
                                 /\ ~Precommit(w)' /\ rows'[id] = held[w]
  BY <1>1, <1>5 DEF Flow, RowFlow, Precommit
<1>6. ASSUME NEW id \in Ids, NEW w \in Requests,
             Precommit(w), req[w].id = id, ~Precommit(w)'
      PROVE  ~Unborn(id)'
  BY <1>1, <1>6 DEF IssueFlow, Unborn, BirthInv
<1>7. ASSUME NEW r \in Requests, Precommit(r)'
      PROVE  /\ req'[r].id \in issued'
             /\ \A q \in Requests :
                   Precommit(q)' /\ req'[q].id = req'[r].id => q = r
  BY <1>1, <1>7 DEF IssueFlow, BirthInv, Precommit
<1>8. ASSUME NEW r \in Requests, Precommit(r)' PROVE fill'[r] = None
  BY <1>1, <1>3, <1>8 DEF Flow, FillFlow, IssueFlow, Live
<1>9. ASSUME NEW r \in Requests, req'[r] = None
      PROVE  held'[r] = None /\ fill'[r] = None
  BY <1>1, <1>2, <1>9 DEF Flow, FillFlow, HeldFlow, BirthInv
<1>10. ASSUME NEW id \in Ids, Unborn(id)'
       PROVE  /\ rows'[id] = None
              /\ cache'[id] = None
              /\ \A r \in Requests : About(r, id)' /\ ~Precommit(r)' =>
                    held'[r] = None /\ fill'[r] = None
  <2>1. /\ Unborn(id) /\ rows[id] = None /\ cache[id] = None
        /\ \A r \in Requests :
              About(r, id) /\ ~Precommit(r) => held[r] = None /\ fill[r] = None
    BY <1>4, <1>10 DEF BirthInv
  <2>2. rows'[id] = None
    BY <1>5, <1>6, <1>10, <2>1
  <2>3. \A r \in Requests : About(r, id) => fill[r] = None
    BY <1>3, <2>1
  <2>4. cache'[id] = None
    BY <1>1, <1>2, <2>1, <2>3 DEF Flow, CacheFlow
  <2>5. ASSUME NEW r \in Requests, About(r, id)', ~Precommit(r)'
        PROVE  fill'[r] = None
    BY <1>1, <2>1, <2>3, <2>5 DEF Flow, FillFlow, About, Live
  <2>6. ASSUME NEW r \in Requests, About(r, id)', ~Precommit(r)'
        PROVE  held'[r] = None
    <3>1. HeldFlow(r)
      BY <1>1 DEF Flow
    <3>2. req'[r] = req[r] => About(r, id) /\ ~Precommit(r) /\ held[r] = None
      BY <1>6, <1>10, <2>1, <2>6 DEF About
    <3> QED
      BY <2>1, <2>6, <3>1, <3>2 DEF HeldFlow, Stamped, About, Precommit, Live
  <2> QED
    BY <2>2, <2>4, <2>5, <2>6
<1>11. ASSUME NEW id \in Ids, rows'[id] # None
       PROVE  /\ cache'[id] # None => cache'[id].created_at = rows'[id].created_at
              /\ \A r \in Requests : About(r, id)' =>
                    /\ held'[r] # None => held'[r].created_at = rows'[id].created_at
                    /\ fill'[r] # None => fill'[r].created_at = rows'[id].created_at
  <2>1. CASE rows[id] = None
    <3>1. PICK w \in Requests : /\ Precommit(w) /\ req[w].id = id
                                /\ ~Precommit(w)' /\ rows'[id] = held[w]
      BY <1>5, <1>11, <2>1
    <3>2. /\ cache[id] = None
          /\ \A r \in Requests : About(r, id) => fill[r] = None
          /\ \A r \in Requests \ {w} : About(r, id) => held[r] = None
      BY <1>3, <3>1 DEF BirthInv, About
    <3>3. cache'[id] = None
      BY <1>1, <1>2, <3>2 DEF Flow, CacheFlow
    <3>4. ASSUME NEW r \in Requests, About(r, id)' PROVE fill'[r] = None
      BY <1>1, <2>1, <3>2, <3>4 DEF Flow, FillFlow, About, Live
    <3>5. ASSUME NEW r \in Requests, About(r, id)', held'[r] # None
          PROVE  held'[r] = held[w]
      <4>1. HeldFlow(r)
        BY <1>1 DEF Flow
      <4>2. req'[r] = req[r] => About(r, id)
        BY <3>5 DEF About
      <4>3. CASE r = w
        BY <2>1, <3>1, <3>2, <3>5, <4>1, <4>2, <4>3
           DEF HeldFlow, About, Live, Precommit
      <4>4. CASE r # w
        <5>1. ~(About(r, id) /\ Precommit(r))
          BY <3>1, <4>4 DEF About, BirthInv
        <5> QED
          BY <2>1, <3>2, <3>5, <4>1, <4>2, <4>4, <5>1
             DEF HeldFlow, Stamped, About, Live, Precommit
      <4> QED
        BY <4>3, <4>4
    <3> QED
      BY <3>1, <3>3, <3>4, <3>5
  <2>2. CASE rows[id] # None
    <3>1. /\ cache[id] # None => cache[id].created_at = rows[id].created_at
          /\ \A r \in Requests : About(r, id) =>
                /\ held[r] # None => held[r].created_at = rows[id].created_at
                /\ fill[r] # None => fill[r].created_at = rows[id].created_at
      BY <2>2 DEF BirthInv
    <3>2. rows'[id].created_at = rows[id].created_at
      <4>1. ASSUME NEW r \in Requests, pc[r] = "write"
            PROVE  held[r] # None
        BY <4>1 DEF TypeInv, Control, StepOK
      <4> QED
        BY <1>1, <1>2, <1>11, <3>1, <4>1 DEF Flow, RowFlow
    <3>3. cache'[id] # None => cache'[id].created_at = rows[id].created_at
      BY <1>1, <1>2, <3>1 DEF Flow, CacheFlow
    <3>4. ASSUME NEW r \in Requests, About(r, id)', fill'[r] # None
          PROVE  fill'[r].created_at = rows[id].created_at
      BY <1>1, <3>1, <3>4 DEF Flow, FillFlow, About
    <3>5. ASSUME NEW r \in Requests, About(r, id)', held'[r] # None
          PROVE  held'[r].created_at = rows[id].created_at
      <4>1. HeldFlow(r)
        BY <1>1 DEF Flow
      <4>2. ~(About(r, id) /\ Precommit(r))
        BY <1>3, <2>2 DEF About
      <4> QED
        BY <3>1, <3>5, <4>1, <4>2 DEF HeldFlow, Stamped, About, Precommit
    <3> QED
      BY <3>2, <3>3, <3>4, <3>5
  <2> QED
    BY <2>1, <2>2
<1> QED
  BY <1>7, <1>8, <1>9, <1>10, <1>11 DEF BirthInv, About

\* Only the POST that drew an id inserts its row, created_at never changes, and
\* a row that a tenant's deletion took away never comes back.
THEOREM RowIdentityHolds == Spec => RowIdentity
<1>1. Init => BirthInv
  BY DEF Init, BirthInv, Precommit, About
<1>2. TypeInv /\ BirthInv /\ [Next]_vars =>
        [\A id \in Ids :
          /\ rows[id] = None /\ rows'[id] # None =>
                 \E r \in Requests : /\ pc[r] = "write"
                                     /\ req[r].method = "POST"
                                     /\ req[r].id = id
          /\ rows[id] # None /\ rows'[id] # None =>
                 rows'[id].created_at = rows[id].created_at]_vars
  <2> SUFFICES ASSUME TypeInv, BirthInv, [Next]_vars, NEW id \in Ids
               PROVE
          /\ rows[id] = None /\ rows'[id] # None =>
                 \E r \in Requests : /\ pc[r] = "write"
                                     /\ req[r].method = "POST"
                                     /\ req[r].id = id
          /\ rows[id] # None /\ rows'[id] # None =>
                 rows'[id].created_at = rows[id].created_at
    OBVIOUS
  <2>1. RowFlow(id)
    BY StepFlows DEF Flow
  <2>2. ASSUME NEW r \in Requests, pc[r] = "write"
        PROVE  req[r] # None /\ held[r] # None
    BY <2>2 DEF TypeInv, Control, StepOK
  <2> QED
    BY <2>1, <2>2 DEF RowFlow, BirthInv, About
<1> QED
  BY <1>1, <1>2, TypeInit, TypeStep, BirthStep, PTL DEF Spec, RowIdentity

-----------------------------------------------------------------------------
(* What becomes of a request in a step: it waits, arrives, goes on, or is  *)
(* answered, and then with a status that the table justifies.              *)

Rests(r) == pc'[r] = pc[r] /\ req'[r] = req[r] /\ status'[r] = status[r]

Arrives(r) ==
    /\ pc[r] = "done"
    /\ \/ pc'[r] = "done" /\ status'[r] = 400
       \/ pc'[r] \in {"lookup", "read", "stamp"} /\ status'[r] = None
    /\ pc'[r] = "lookup" => CacheEnabled
    /\ \E in \in Inputs : req'[r].method = in.method

GoesOn(r) ==
    /\ pc[r] # "done" /\ pc'[r] \notin {"done", "lookup"}
    /\ req'[r] = req[r] /\ status'[r] = status[r]
    /\ pc'[r] \in {"fill", "refetch", "refresh"} => CacheEnabled \/ pc[r] = "refetch"
    /\ pc'[r] = "write" => pc[r] = "stamp"

Answered(r) ==
    /\ pc[r] # "done" /\ pc'[r] = "done" /\ req'[r] = req[r]
    /\ \/ status'[r] = status[r]
       \/ status'[r] \in {422, 500}
       \/ status'[r] = 404 /\ ~Live(rows[req[r].id])
       \/ status'[r] = 200 /\ pc[r] \in {"lookup", "fill"}
       \/ status'[r] = 200 /\ pc[r] = "read" /\ Live(rows[req[r].id])
       \/ status'[r] = Success(req[r].method) /\ pc[r] \in {"refetch", "refresh"}
       \/ /\ status'[r] = Success(req[r].method) /\ pc[r] = "write"
          /\ rows'[req[r].id] = held[r]
          /\ req[r].method # "POST" => rows[req[r].id] # None

AnswerFlow ==
    \A r \in Requests : Rests(r) \/ Arrives(r) \/ GoesOn(r) \/ Answered(r)

\* In every step each request fares in one of these ways.
LEMMA StepAnswers == TypeInv /\ [Next]_vars => AnswerFlow
<1> SUFFICES ASSUME TypeInv, [Next]_vars
             PROVE  AnswerFlow
  OBVIOUS
<1> USE NoneAssumption
    DEF TypeInv, Control, TypeOK, StepOK, AnswerFlow, Rests, Arrives, GoesOn, Answered
<1>1. ASSUME NEW r \in Requests, Reject(r) PROVE AnswerFlow
  BY <1>1 DEF Reject, Arrive, Goto, store
<1>2. ASSUME NEW r \in Requests, Accept(r) PROVE AnswerFlow
  BY <1>2 DEF Accept, Arrive, Goto, FirstStep, store
<1>3. ASSUME NEW r \in Requests, AcceptCreate(r) PROVE AnswerFlow
  <2>1. PICK in \in Inputs, id \in Ids \ issued :
            Arrive(r, [in EXCEPT !.id = id], "stamp", None)
    BY <1>3 DEF AcceptCreate
  <2>2. [in EXCEPT !.id = id].method = in.method
    BY InputsFact DEF Input
  <2> QED
    BY <2>1, <2>2 DEF Arrive, Goto
<1>4. ASSUME NEW r \in Requests, CacheHit(r) PROVE AnswerFlow
  BY <1>4 DEF CacheHit, Obtain, Reply, Goto, store
<1>5. ASSUME NEW r \in Requests, CacheMiss(r) PROVE AnswerFlow
  BY <1>5 DEF CacheMiss, Goto, store
<1>6. ASSUME NEW r \in Requests, ReadMissing(r) PROVE AnswerFlow
  BY <1>6 DEF ReadMissing, Reply, Goto, store
<1>7. ASSUME NEW r \in Requests, ReadUncached(r) PROVE AnswerFlow
  BY <1>7 DEF ReadUncached, Obtain, Reply, Goto, store
<1>8. ASSUME NEW r \in Requests, ReadThrough(r) PROVE AnswerFlow
  BY <1>8 DEF ReadThrough, Goto, store
<1>9. ASSUME NEW r \in Requests, Fill(r) PROVE AnswerFlow
  BY <1>9 DEF Fill, Obtain, Reply, Goto, store
<1>10. ASSUME NEW r \in Requests, StampCreate(r) PROVE AnswerFlow
  BY <1>10 DEF StampCreate, Stamp, Goto, store
<1>11. ASSUME NEW r \in Requests, StampUpdate(r) PROVE AnswerFlow
  BY <1>11 DEF StampUpdate, Stamp, Goto, store
<1>12. ASSUME NEW r \in Requests, StampDelete(r) PROVE AnswerFlow
  BY <1>12 DEF StampDelete, Stamp, Goto, store
<1>13. ASSUME NEW r \in Requests, Insert(r) PROVE AnswerFlow
  BY <1>13 DEF Insert, Written, Succeed, Reply, Goto, store
<1>14. ASSUME NEW r \in Requests, InsertRefused(r) PROVE AnswerFlow
  BY <1>14 DEF InsertRefused, Reply, Goto, store
<1>15. ASSUME NEW r \in Requests, WriteBack(r) PROVE AnswerFlow
  BY <1>15 DEF WriteBack, Written, Succeed, Reply, Goto, store
<1>16. ASSUME NEW r \in Requests, WriteMissing(r) PROVE AnswerFlow
  BY <1>16 DEF WriteMissing, Reply, Goto, Live, store
<1>17. ASSUME NEW r \in Requests, WriteRefused(r) PROVE AnswerFlow
  BY <1>17 DEF WriteRefused, Reply, Goto, store
<1>18. ASSUME NEW r \in Requests, Refetch(r) PROVE AnswerFlow
  BY <1>18 DEF Refetch, Goto, store
<1>19. ASSUME NEW r \in Requests, Refresh(r) PROVE AnswerFlow
  BY <1>19 DEF Refresh, Succeed, Reply, Goto, store
<1>20. ASSUME NEW r \in Requests, DbError(r) PROVE AnswerFlow
  BY <1>20 DEF DbError, Reply, Goto, store
<1>21. ASSUME NEW r \in Requests, CacheError(r) PROVE AnswerFlow
  BY <1>21 DEF CacheError, Obtain, Succeed, Reply, Goto, store
<1>22. ASSUME NEW r \in Requests, LostReply(r) PROVE AnswerFlow
  BY <1>22 DEF LostReply, Reply, Goto, store
<1>23. ASSUME Crash PROVE AnswerFlow
  BY <1>23 DEF Crash, store
<1>24. ASSUME NEW id \in Ids, Expire(id) PROVE AnswerFlow
  BY <1>24 DEF Expire, local
<1>25. ASSUME NEW t \in Tenants, DropTenant(t) PROVE AnswerFlow
  BY <1>25 DEF DropTenant, local
<1>26. CASE UNCHANGED vars
  BY <1>26 DEF vars
<1> HIDE DEF TypeInv, Control, TypeOK, StepOK, AnswerFlow, Rests, Arrives, GoesOn, Answered
<1> QED
  BY <1>1, <1>2, <1>3, <1>4, <1>5, <1>6, <1>7, <1>8, <1>9, <1>10, <1>11,
     <1>12, <1>13, <1>14, <1>15, <1>16, <1>17, <1>18, <1>19, <1>20, <1>21,
     <1>22, <1>23, <1>24, <1>25, <1>26
     DEF Next, Serve

=============================================================================
