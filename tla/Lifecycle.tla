----------------------------- MODULE Lifecycle -----------------------------
(***************************************************************************)
(* The life of the process (cmd/api/main.go): main opens the tracer, the   *)
(* database and Redis, deferring a closer for each, starts the HTTP server *)
(* in a goroutine, waits for a signal or a server error, drains the        *)
(* requests in flight for at most ShutdownTimeout, waits for the goroutine *)
(* and lets the closers run, last one first.                               *)
(*                                                                         *)
(* os.Interrupt is caught between signal.NotifyContext and stop, that is   *)
(* while main is serving or draining; at other times it kills the process, *)
(* as SIGTERM and SIGKILL do at any time.                                  *)
(***************************************************************************)
EXTENDS Integers, SequencesExt

CONSTANT Conns   \* client connections, each with one request at a time

VARIABLES
    main,        \* what main does next
    outcome,     \* how the process ends, "none" while main runs normally
    resource,    \* each resource: "none", "open" or "closed"
    deferred,    \* stack of the resources whose closers are deferred
    serve,       \* the goroutine of startServer: "none", "idle" before it
                 \* listens, "listening", "failed" with an error, "done"
    serverErr,   \* number of errors in the channel serverErr
    bound,       \* the address was bound: clients have connections
    inShutdown,  \* server.Shutdown was called
    conn,        \* each connection: "new" before its first request, "active"
                 \* while a handler runs, "idle" between two, "closed"
    signalled,   \* the context of signal.NotifyContext is done
    forced       \* server.Close was called: the drain was given up

server == <<serve, serverErr, bound, inShutdown, conn>>
vars == <<main, outcome, resource, deferred, serve, serverErr, bound,
          inShutdown, conn, signalled, forced>>

Resources == {"tracer", "db", "redis"}

Init ==
    /\ main = "config" /\ outcome = "none"
    /\ resource = [r \in Resources |-> "none"] /\ deferred = <<>>
    /\ serve = "none" /\ serverErr = 0
    /\ bound = FALSE /\ inShutdown = FALSE
    /\ conn = [c \in Conns |-> "closed"]
    /\ signalled = FALSE /\ forced = FALSE

-----------------------------------------------------------------------------
(* Startup.  Whatever fails panics, and main unwinds.                      *)

\* Mutant: no closer for Redis.
OpenedNotDeferred(r) ==
    /\ resource' = [resource EXCEPT ![r] = "open"]
    /\ deferred' = IF r = "redis" THEN deferred ELSE Append(deferred, r)

Opened(r) ==
    /\ resource' = [resource EXCEPT ![r] = "open"]
    /\ deferred' = Append(deferred, r)

StartupFails ==
    /\ main \in {"config", "tracer", "db", "redis", "init"}
    /\ main' = "unwind" /\ outcome' = "panicked"
    /\ UNCHANGED <<resource, deferred, server, signalled, forced>>

Advance(step, next) ==
    main = step /\ main' = next /\ UNCHANGED <<outcome, server, signalled, forced>>

LoadConfig == Advance("config", "tracer") /\ UNCHANGED <<resource, deferred>>

OpenTracer == Advance("tracer", "db") /\ Opened("tracer")

\* main allows for no database at all: then nothing is deferred.
OpenDatabase ==
    /\ Advance("db", "redis")
    /\ Opened("db") \/ UNCHANGED <<resource, deferred>>

OpenRedis == Advance("redis", "init") /\ Opened("redis")

\* application.Initialize, and the goroutine of startServer is created.
Initialize ==
    /\ main = "init" /\ main' = "starting" /\ serve' = "idle"
    /\ UNCHANGED <<outcome, resource, deferred, serverErr, bound, inShutdown,
                   conn, signalled, forced>>

\* log.Fatalf exits the process: no deferred closer runs.
StartFails ==
    /\ main = "starting" /\ serverErr > 0
    /\ main' = "exited" /\ outcome' = "fatal" /\ serverErr' = serverErr - 1
    /\ UNCHANGED <<resource, deferred, serve, bound, inShutdown, conn,
                   signalled, forced>>

\* 100 ms have passed; the select may prefer this to an error that is there.
Started == Advance("starting", "serving") /\ UNCHANGED <<resource, deferred>>

-----------------------------------------------------------------------------
(* The server goroutine and the requests it accepts.                       *)

RestOfServer ==
    UNCHANGED <<main, outcome, resource, deferred, inShutdown, conn,
                signalled, forced>>

Alive == main # "exited"

\* ListenAndServe binds the address or fails to, or finds the server shut down.
Listen ==
    /\ Alive /\ serve = "idle"
    /\ \/ serve' = "failed" /\ UNCHANGED bound
       \/ inShutdown /\ serve' = "done" /\ UNCHANGED bound
       \/ ~inShutdown /\ serve' = "listening" /\ bound' = TRUE
    /\ UNCHANGED serverErr /\ RestOfServer

AcceptFails ==
    /\ Alive /\ serve = "listening" /\ ~inShutdown /\ serve' = "failed"
    /\ UNCHANGED <<serverErr, bound>> /\ RestOfServer

\* http.ErrServerClosed is not an error to report.
ServerClosed ==
    /\ Alive /\ serve = "listening" /\ inShutdown /\ serve' = "done"
    /\ UNCHANGED <<serverErr, bound>> /\ RestOfServer

\* Mutant: an unbuffered channel, which takes an error while main receives.
CanSendUnbuffered == serverErr < 1 /\ main \in {"starting", "serving"}

\* The channel has room for one error, received or not.
CanSend == serverErr < 1

\* The error is sent before wg.Done.
ReportError ==
    /\ Alive /\ serve = "failed" /\ CanSend
    /\ serverErr' = serverErr + 1 /\ serve' = "done"
    /\ UNCHANGED bound /\ RestOfServer

\* The states of a connection are those of http.ConnState.
Moves(c, from, to) ==
    /\ Alive /\ conn[c] \in from
    /\ conn' = [conn EXCEPT ![c] = to]
    /\ UNCHANGED <<main, outcome, resource, deferred, serve, serverErr, bound,
                   inShutdown, signalled, forced>>

Connect(c) == serve = "listening" /\ ~inShutdown /\ Moves(c, {"closed"}, "new")

\* A connection accepted before Shutdown may send its request during the drain.
Request(c) == Moves(c, {"new", "idle"}, "active")

\* The connection is kept for another request, unless the server shuts down.
Answer(c) ==
    \/ ~inShutdown /\ Moves(c, {"active"}, "idle")
    \/ Moves(c, {"active"}, "closed")

\* The client leaves, or ReadHeaderTimeout ends, or a drain finds a connection
\* that has sent nothing for five seconds.
Hangup(c) == Moves(c, {"new", "idle"}, "closed")

-----------------------------------------------------------------------------
(* Shutdown.                                                               *)

\* The connections in one of these states are closed, the others stay.
ConnsClosed(states) ==
    conn' = [c \in Conns |-> IF conn[c] \in states THEN "closed" ELSE conn[c]]

\* server.Shutdown: no more connections, and the idle ones are closed.
Shutdown ==
    /\ main' = "draining" /\ inShutdown' = TRUE
    /\ ConnsClosed({"idle"})
    /\ UNCHANGED <<outcome, resource, deferred, serve, bound, signalled, forced>>

OnSignal == main = "serving" /\ signalled /\ UNCHANGED serverErr /\ Shutdown

\* Mutant: a receive that does not wait for an error.
OnServerErrorEarly == main = "serving" /\ serverErr' = serverErr - 1 /\ Shutdown

OnServerError ==
    main = "serving" /\ serverErr > 0 /\ serverErr' = serverErr - 1 /\ Shutdown

\* Mutant: server.Close instead of server.Shutdown.
DrainedAtOnce == Advance("draining", "waiting") /\ UNCHANGED <<resource, deferred>>

\* server.Shutdown returns once every connection is closed.
Drained ==
    /\ \A c \in Conns : conn[c] = "closed"
    /\ Advance("draining", "waiting") /\ UNCHANGED <<resource, deferred>>

\* ShutdownTimeout: server.Close drops the connections, their handlers go on.
DrainTimeout ==
    /\ main = "draining" /\ main' = "waiting" /\ forced' = TRUE
    /\ ConnsClosed({"new", "idle"})
    /\ UNCHANGED <<outcome, resource, deferred, serve, serverErr, bound,
                   inShutdown, signalled>>

\* wg.Wait, and main returns.
Return ==
    /\ main = "waiting" /\ serve = "done"
    /\ main' = "unwind" /\ outcome' = "returned"
    /\ UNCHANGED <<resource, deferred, server, signalled, forced>>

Close ==
    /\ main = "unwind" /\ deferred # <<>>
    /\ resource' = [resource EXCEPT ![Last(deferred)] = "closed"]
    /\ deferred' = Front(deferred)
    /\ UNCHANGED <<main, outcome, server, signalled, forced>>

Exit ==
    /\ deferred = <<>>
    /\ Advance("unwind", "exited") /\ UNCHANGED <<resource, deferred>>

Interrupt ==
    /\ main \in {"serving", "draining"} /\ ~signalled /\ signalled' = TRUE
    /\ UNCHANGED <<main, outcome, resource, deferred, server, forced>>

\* SIGTERM or SIGKILL, or an interrupt while nobody listens for one.
Kill ==
    /\ Alive
    /\ main' = "exited" /\ outcome' = "killed"
    /\ UNCHANGED <<resource, deferred, server, signalled, forced>>

-----------------------------------------------------------------------------

\* main once the server has its goroutine, or a panic unwinds it.
Running ==
    \/ StartFails \/ Started
    \/ OnSignal \/ OnServerError \/ Drained \/ DrainTimeout
    \/ Return \/ Close \/ Exit

MainStep ==
    \/ LoadConfig \/ OpenTracer \/ OpenDatabase \/ OpenRedis \/ Initialize
    \/ StartupFails \/ Running

\* What the server goroutine does by itself; it need not fail.
ServeStep == Listen \/ ServerClosed \/ ReportError

Environment ==
    \/ AcceptFails \/ Interrupt \/ Kill
    \/ \E c \in Conns : Connect(c) \/ Request(c) \/ Answer(c) \/ Hangup(c)

Next == MainStep \/ ServeStep \/ Environment

Spec == Init /\ [][Next]_vars

\* A closer is left to run.  None has a deadline: tr.Shutdown has a context
\* without one, and db.Close may wait for a query.
Closing == main = "unwind" /\ deferred # <<>>

\* Both goroutines are scheduled, and the two timers of main fire.  Nothing
\* makes a handler answer, a closer return, a client call or an operator send a
\* signal.
FairSpec == Spec /\ WF_vars(MainStep /\ ~Closing) /\ WF_vars(ServeStep)

-----------------------------------------------------------------------------

\* The type of every variable; serverErr holds at most one error.
TypeOK ==
    /\ main \in {"config", "tracer", "db", "redis", "init", "starting",
                 "serving", "draining", "waiting", "unwind", "exited"}
    /\ outcome \in {"none", "returned", "panicked", "fatal", "killed"}
    /\ resource \in [Resources -> {"none", "open", "closed"}]
    /\ deferred \in Seq(Resources)
    /\ serve \in {"none", "idle", "listening", "failed", "done"}
    /\ serverErr \in 0..1
    /\ conn \in [Conns -> {"closed", "new", "active", "idle"}]
    /\ bound \in BOOLEAN /\ inShutdown \in BOOLEAN
    /\ signalled \in BOOLEAN /\ forced \in BOOLEAN

\* No request in flight loses the database, Redis or the tracer under its feet,
\* unless the drain was given up after ShutdownTimeout: the order of Shutdown,
\* wg.Wait and the deferred closers.
ClosedOnlyWhenDrained ==
    /\ \E c \in Conns : conn[c] = "active"
    /\ \E r \in Resources : resource[r] = "closed"
    => forced

\* main leaves nothing open, whether it returns or a step of the startup panics.
\* A kill and log.Fatalf leave everything open.
NothingLeaks ==
    main = "exited" /\ outcome \in {"returned", "panicked"} =>
        \A r \in Resources : resource[r] # "open"

\* A process that got a signal or whose server failed comes to its deferred
\* closers, and to its end if they return, however many requests hang and
\* whenever the error comes: the goroutine is never stuck on serverErr while
\* main waits for it in wg.Wait (main.go:118, 171-177, 201-207).
ShutdownCompletes == (signalled \/ serve = "failed") ~> (Closing \/ main = "exited")

=============================================================================
