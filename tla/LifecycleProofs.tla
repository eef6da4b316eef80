-------------------------- MODULE LifecycleProofs --------------------------
(***************************************************************************)
(* The safety of Lifecycle, proved for any number of connections.          *)
(***************************************************************************)
EXTENDS Lifecycle, SequenceTheorems, TLAPS

\* What running the last closer leaves of the stack.
LEMMA FrontFacts ==
  ASSUME NEW S, NEW s \in Seq(S), s # <<>>
  PROVE  /\ Front(s) \in Seq(S)
         /\ Len(Front(s)) = Len(s) - 1
         /\ \A i \in 1..(Len(s) - 1) : Front(s)[i] = s[i]
         /\ Len(s) \in Nat \ {0}
<1>1. Len(s) \in Nat \ {0}
  BY EmptySeq
<1>2. \A i \in 1..(Len(s) - 1) : s[i] \in S
  BY <1>1, ElementOfSeq
<1> DEFINE n == Len(s) - 1
<1>3. n \in Int /\ n >= 0
  BY <1>1
<1>4. /\ SubSeq(s, 1, n) \in Seq(S)
      /\ Len(SubSeq(s, 1, n)) = IF 1 <= n THEN n - 1 + 1 ELSE 0
      /\ \A i \in 1..(n - 1 + 1) : SubSeq(s, 1, n)[i] = s[1 + i - 1]
  <2> HIDE DEF n
  <2> QED
    BY <1>2, <1>3, SubSeqProperties DEF n
<1>5. Front(s) = SubSeq(s, 1, n)
  BY DEF Front
<1>6. Len(Front(s)) = n
  <2>1. (IF 1 <= n THEN n - 1 + 1 ELSE 0) = n
    <3> HIDE DEF n
    <3> QED
      BY <1>3
  <2> QED
    BY <2>1, <1>4, <1>5
<1>7. ASSUME NEW i \in 1..n PROVE Front(s)[i] = s[i]
  <2>1. i \in 1..(n - 1 + 1) /\ 1 + i - 1 = i
    BY <1>3, <1>7
  <2> QED
    BY <2>1, <1>4, <1>5
<1> QED
  BY <1>1, <1>4, <1>5, <1>6, <1>7

\* The process starts with every variable in its type.
LEMMA TypeInit == Init => TypeOK
<1> SUFFICES ASSUME Init PROVE TypeOK
  OBVIOUS
<1>1. deferred \in Seq(Resources)
  BY EmptySeq DEF Init
<1>2. serverErr \in 0..1
  BY DEF Init
<1>3. /\ resource \in [Resources -> {"none", "open", "closed"}]
      /\ conn \in [Conns -> {"closed", "new", "active", "idle"}]
  BY DEF Init
<1> QED
  BY <1>1, <1>2, <1>3, Zenon DEF Init, TypeOK

\* Each step of main, the server goroutine and the environment keeps the types.
LEMMA TypeStep == TypeOK /\ [Next]_vars => TypeOK'
<1> SUFFICES ASSUME TypeOK, [Next]_vars
             PROVE  TypeOK'
  OBVIOUS
<1> USE DEF TypeOK, server
<1>1. CASE LoadConfig \/ OpenTracer \/ OpenDatabase \/ OpenRedis
  <2>1. ASSUME NEW r \in Resources, Opened(r)
        PROVE  /\ resource' \in [Resources -> {"none", "open", "closed"}]
               /\ deferred' \in Seq(Resources)
    BY <2>1, AppendProperties DEF Opened
  <2>2. {"tracer", "db", "redis"} \subseteq Resources
    BY DEF Resources
  <2> QED
    BY <1>1, <2>1, <2>2 DEF LoadConfig, OpenTracer, OpenDatabase, OpenRedis, Advance
<1>2. CASE Initialize \/ StartupFails \/ StartFails \/ Started
  BY <1>2 DEF Initialize, StartupFails, StartFails, Started, Advance
<1>3. CASE OnSignal \/ OnServerError \/ Drained \/ DrainTimeout
  <2>1. ASSUME NEW states, ConnsClosed(states)
        PROVE  conn' \in [Conns -> {"closed", "new", "active", "idle"}]
    BY <2>1 DEF ConnsClosed
  <2>2. CASE OnServerError
    BY <2>1, <2>2 DEF OnServerError, Shutdown
  <2>3. CASE OnSignal
    BY <2>1, <2>3 DEF OnSignal, Shutdown
  <2>4. CASE DrainTimeout
    BY <2>1, <2>4 DEF DrainTimeout
  <2> QED
    BY <1>3, <2>2, <2>3, <2>4 DEF Drained, Advance
<1>4. CASE Return \/ Exit \/ Interrupt \/ Kill
  BY <1>4 DEF Return, Exit, Interrupt, Kill, Advance
<1>5. CASE Close
  <2>1. deferred' \in Seq(Resources)
    BY <1>5, FrontFacts DEF Close
  <2> QED
    BY <1>5, <2>1 DEF Close
<1>6. CASE Listen \/ AcceptFails \/ ServerClosed \/ ReportError
  <2>1. CASE ReportError
    <3>1. serverErr' \in 0..1
      BY <2>1 DEF ReportError, CanSend
    <3> QED
      BY <2>1, <3>1, Zenon DEF ReportError, RestOfServer
  <2>2. CASE Listen
    BY <2>2, Zenon DEF Listen, RestOfServer
  <2> QED
    BY <1>6, <2>1, <2>2 DEF AcceptFails, ServerClosed, RestOfServer
<1>7. ASSUME NEW c \in Conns, Connect(c) \/ Request(c) \/ Answer(c) \/ Hangup(c)
      PROVE  TypeOK'
  BY <1>7 DEF Connect, Request, Answer, Hangup, Moves
<1>8. CASE UNCHANGED vars
  BY <1>8 DEF vars
<1> QED
  BY <1>1, <1>2, <1>3, <1>4, <1>5, <1>6, <1>7, <1>8
     DEF Next, MainStep, Running, ServeStep, Environment

\* Every variable keeps its type, and serverErr never holds two errors.
THEOREM TypeCorrect == Spec => []TypeOK
  BY TypeInit, TypeStep, PTL DEF Spec

-----------------------------------------------------------------------------
(* Quiet: no connection can come any more, none is left that may send a    *)
(* request, and none has a request that is given time.                     *)

Quiet ==
    /\ inShutdown \/ serve = "none"
    /\ \A c \in Conns : conn[c] \notin {"new", "idle"}
    /\ (\A c \in Conns : conn[c] # "active") \/ forced

Ending == {"unwind", "exited"}

\* Nothing is closed, nor about to be, unless the process is quiet.
CloseInv ==
    /\ serve = "none" => ~bound /\ \A c \in Conns : conn[c] = "closed"
    /\ main \in {"config", "tracer", "db", "redis", "init"} => serve = "none"
    /\ main = "draining" => inShutdown
    /\ main \in {"waiting", "unwind"} => Quiet
    /\ \A r \in Resources : resource[r] = "closed" => main \in Ending /\ Quiet

\* Each step keeps CloseInv: the drain stands before the unwinding.
LEMMA CloseStep == TypeOK /\ CloseInv /\ [Next]_vars => CloseInv'
<1> SUFFICES ASSUME TypeOK, CloseInv, [Next]_vars
             PROVE  CloseInv'
  OBVIOUS
<1> USE DEF TypeOK, CloseInv, Quiet, Ending, server
<1>1. CASE LoadConfig \/ OpenTracer \/ OpenDatabase \/ OpenRedis
  BY <1>1 DEF LoadConfig, OpenTracer, OpenDatabase, OpenRedis, Advance, Opened
<1>2. CASE Initialize \/ StartupFails \/ StartFails \/ Started
  BY <1>2 DEF Initialize, StartupFails, StartFails, Started, Advance
<1>3. CASE OnSignal \/ OnServerError \/ Drained \/ DrainTimeout
  <2>1. ASSUME NEW states, ConnsClosed(states), NEW c \in Conns
        PROVE  conn'[c] = IF conn[c] \in states THEN "closed" ELSE conn[c]
    BY <2>1 DEF ConnsClosed
  <2>2. CASE OnSignal \/ OnServerError
    <3>1. ConnsClosed({"idle"}) /\ Shutdown /\ main = "serving"
      BY <2>2 DEF OnSignal, OnServerError, Shutdown
    <3> QED
      BY <2>1, <3>1 DEF Shutdown
  <2>3. CASE Drained
    BY <2>3 DEF Drained, Advance
  <2>4. CASE DrainTimeout
    <3>1. \A c \in Conns : conn'[c] \in {"closed", "active"}
      BY <2>1, <2>4 DEF DrainTimeout
    <3>2. \A c \in Conns : conn[c] = "closed" => conn'[c] = "closed"
      BY <2>1, <2>4 DEF DrainTimeout
    <3> QED
      BY <2>4, <3>1, <3>2 DEF DrainTimeout
  <2> QED
    BY <1>3, <2>2, <2>3, <2>4
<1>4. CASE Return \/ Exit \/ Interrupt \/ Kill
  BY <1>4 DEF Return, Exit, Interrupt, Kill, Alive, Advance
<1>5. CASE Close
  BY <1>5 DEF Close
<1>6. CASE Listen \/ AcceptFails \/ ServerClosed \/ ReportError
  BY <1>6 DEF Listen, AcceptFails, ServerClosed, ReportError, RestOfServer, Alive
<1>7. ASSUME NEW c \in Conns, Connect(c) \/ Request(c) \/ Answer(c) \/ Hangup(c)
      PROVE  CloseInv'
  BY <1>7 DEF Connect, Request, Answer, Hangup, Moves, Alive
<1>8. CASE UNCHANGED vars
  BY <1>8 DEF vars
<1> QED
  BY <1>1, <1>2, <1>3, <1>4, <1>5, <1>6, <1>7, <1>8
     DEF Next, MainStep, Running, ServeStep, Environment

\* No request loses a resource under its feet unless the drain was given up.
THEOREM ClosedOnlyWhenDrainedHolds == Spec => []ClosedOnlyWhenDrained
<1>1. Init => CloseInv
  BY DEF Init, CloseInv
<1>2. CloseInv => ClosedOnlyWhenDrained
  BY DEF CloseInv, Quiet, ClosedOnlyWhenDrained
<1> QED
  BY <1>1, <1>2, TypeInit, TypeStep, CloseStep, PTL DEF Spec

-----------------------------------------------------------------------------
(* What is open has a deferred closer, and main does not end by itself     *)
(* before the last one has run.                                            *)

LeakInv ==
    /\ \A r \in Resources :
          resource[r] = "open" => \E i \in 1..Len(deferred) : deferred[i] = r
    /\ main \notin Ending => outcome = "none"
    /\ main = "exited" /\ outcome \in {"returned", "panicked"} => deferred = <<>>

\* Each step keeps LeakInv: opening pushes a closer, closing pops its own.
LEMMA LeakStep == TypeOK /\ LeakInv /\ [Next]_vars => LeakInv'
<1> SUFFICES ASSUME TypeOK, LeakInv, [Next]_vars
             PROVE  LeakInv'
  OBVIOUS
<1> USE DEF TypeOK, LeakInv, Ending, server
<1>1. CASE LoadConfig
  BY <1>1 DEF LoadConfig, Advance
<1>2. ASSUME NEW r \in Resources, NEW step, NEW next,
             main # "exited", next \notin Ending, step \notin Ending,
             Advance(step, next), Opened(r)
      PROVE  LeakInv'
  <2>1. ASSUME NEW s \in Resources, resource'[s] = "open"
        PROVE  \E i \in 1..Len(deferred') : deferred'[i] = s
    <3>1. /\ Len(deferred') = Len(deferred) + 1
          /\ deferred'[Len(deferred')] = r
          /\ \A i \in 1..Len(deferred) : deferred'[i] = deferred[i]
          /\ Len(deferred) \in Nat
      BY <1>2 DEF Opened
    <3>2. s = r \/ \E i \in 1..Len(deferred) : deferred[i] = s
      BY <1>2, <2>1 DEF Opened
    <3> QED
      BY <3>1, <3>2
  <2> QED
    BY <1>2, <2>1 DEF Advance
<1>3. CASE OpenTracer \/ OpenDatabase \/ OpenRedis
  <2>1. CASE OpenTracer
    BY <1>2, <2>1 DEF OpenTracer, Advance, Resources
  <2>2. CASE OpenDatabase
    BY <1>2, <2>2 DEF OpenDatabase, Advance, Resources
  <2>3. CASE OpenRedis
    BY <1>2, <2>3 DEF OpenRedis, Advance, Resources
  <2> QED
    BY <1>3, <2>1, <2>2, <2>3
<1>4. CASE Initialize \/ StartupFails \/ StartFails \/ Started
  BY <1>4 DEF Initialize, StartupFails, StartFails, Started, Advance
<1>5. CASE OnSignal \/ OnServerError \/ Drained \/ DrainTimeout
  BY <1>5 DEF OnSignal, OnServerError, Shutdown, Drained, DrainTimeout, Advance
<1>6. CASE Return \/ Exit \/ Interrupt \/ Kill
  BY <1>6 DEF Return, Exit, Interrupt, Kill, Advance
<1>7. CASE Close
  <2>1. ASSUME NEW r \in Resources, resource'[r] = "open"
        PROVE  \E i \in 1..Len(deferred') : deferred'[i] = r
    <3>1. PICK i \in 1..Len(deferred) : deferred[i] = r
      BY <1>7, <2>1 DEF Close
    <3>2. i # Len(deferred)
      BY <1>7, <2>1, <3>1 DEF Close, Last
    <3>3. /\ Len(deferred') = Len(deferred) - 1
          /\ i \in 1..Len(deferred') => deferred'[i] = deferred[i]
      BY <1>7, <3>2, FrontFacts DEF Close
    <3> QED
      BY <3>1, <3>2, <3>3
  <2> QED
    BY <1>7, <2>1 DEF Close
<1>8. CASE Listen \/ AcceptFails \/ ServerClosed \/ ReportError
  BY <1>8 DEF Listen, AcceptFails, ServerClosed, ReportError, RestOfServer
<1>9. ASSUME NEW c \in Conns, Connect(c) \/ Request(c) \/ Answer(c) \/ Hangup(c)
      PROVE  LeakInv'
  BY <1>9 DEF Connect, Request, Answer, Hangup, Moves
<1>10. CASE UNCHANGED vars
  BY <1>10 DEF vars
<1> QED
  BY <1>1, <1>3, <1>4, <1>5, <1>6, <1>7, <1>8, <1>9, <1>10
     DEF Next, MainStep, Running, ServeStep, Environment

\* main leaves nothing open, whether it returns or panics.
THEOREM NothingLeaksHolds == Spec => []NothingLeaks
<1>1. Init => LeakInv
  BY DEF Init, LeakInv, Ending
<1>2. LeakInv => NothingLeaks
  BY DEF LeakInv, NothingLeaks
<1> QED
  BY <1>1, <1>2, TypeInit, TypeStep, LeakStep, PTL DEF Spec

=============================================================================
