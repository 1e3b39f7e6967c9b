------------------------------ MODULE Lifecycle ------------------------------
(***************************************************************************)
(* Start and graceful shutdown of the ForgeOps Console process             *)
(* (apps/forgeops-console/internal/server/lifecycle.go), with the session  *)
(* it closes and the HTTP handlers that are running meanwhile.             *)
(*                                                                         *)
(* serve runs in the main goroutine:                                       *)
(*   listening  in net.Listen                                              *)
(*   serving    in the select on done and ctx.Done                         *)
(*   closing    session closed, Shutdown not called yet                    *)
(*   draining   in httpServer.Shutdown                                     *)
(*   joining    receiving from done                                        *)
(*   leaving    result decided, deferred state.Close still to run          *)
(*   returned                                                              *)
(*                                                                         *)
(* http.Server is a library: Serve, Shutdown and Close are modelled from   *)
(* how serve uses them.  A handler is reduced to the scope it is bound to  *)
(* and to whether it has ended; ResourceService and DiagnosticService say  *)
(* what happens in between.                                                *)
(***************************************************************************)
EXTENDS Session, Sequences

CONSTANTS Handlers   \* identities of HTTP requests

VARIABLES
    main,       \* where serve stands
    signalled,  \* ctx of main has ended: SIGINT or SIGTERM
    accepting,  \* the goroutine in httpServer.Serve accepts connections
    done,       \* the buffered channel that goroutine sends its error to
    drainErr,   \* error of Shutdown
    result,     \* what serve returns
    handler,    \* new, running or ended
    handlerCtx  \* scope context a running handler is bound to, 0 for none

lifecycleVars == <<main, signalled, accepting, done, drainErr, result, handler, handlerCtx>>

processVars == <<sessionVars, lifecycleVars>>

LifecycleTypeOK ==
    /\ SessionTypeOK
    /\ main \in {"listening", "serving", "closing", "draining", "joining", "leaving", "returned"}
    /\ signalled \in BOOLEAN
    /\ accepting \in BOOLEAN
    /\ done \in Seq({"ErrServerClosed", "AcceptError"}) /\ Len(done) <= 1
    /\ drainErr \in {"none", "DeadlineExceeded"}
    /\ result \in {"none", "nil", "ListenError", "AcceptError", "DeadlineExceeded"}
    /\ handler \in [Handlers -> {"new", "running", "ended"}]
    /\ handlerCtx \in [Handlers -> Nat]

LifecycleInit ==
    /\ SessionInit
    /\ main = "listening"
    /\ signalled = FALSE
    /\ accepting = FALSE
    /\ done = << >>
    /\ drainErr = "none"
    /\ result = "none"
    /\ handler = [h \in Handlers |-> "new"]
    /\ handlerCtx = [h \in Handlers |-> 0]

-----------------------------------------------------------------------------

Running == {h \in Handlers : handler[h] = "running"}

handlerVars == <<handler, handlerCtx>>

\* A connection is accepted and its handler starts.
Accept(h) ==
    /\ accepting
    /\ handler[h] = "new"
    /\ handler' = [handler EXCEPT ![h] = "running"]
    /\ UNCHANGED <<sessionVars, main, signalled, accepting, done, drainErr, result, handlerCtx>>

\* The handler calls RequestContext.
HandlerBinds(h) ==
    /\ handler[h] = "running"
    /\ handlerCtx[h] = 0
    /\ MayBind(scope.generation)
    /\ handlerCtx' = [handlerCtx EXCEPT ![h] = scopeContext]
    /\ UNCHANGED <<sessionVars, main, signalled, accepting, done, drainErr, result, handler>>

\* The handler answers.
HandlerEnds(h) ==
    /\ handler[h] = "running"
    /\ handler' = [handler EXCEPT ![h] = "ended"]
    /\ UNCHANGED <<sessionVars, main, signalled, accepting, done, drainErr, result, handlerCtx>>

\* The accept loop fails by itself, and the goroutine sends its error.
AcceptFails ==
    /\ accepting
    /\ accepting' = FALSE
    /\ done' = Append(done, "AcceptError")
    /\ UNCHANGED <<sessionVars, main, signalled, drainErr, result, handlerVars>>

Signal ==
    /\ ~signalled
    /\ signalled' = TRUE
    /\ UNCHANGED <<sessionVars, main, accepting, done, drainErr, result, handlerVars>>

-----------------------------------------------------------------------------

Return(err) ==
    /\ result' = err
    /\ main' = "leaving"

\* listenAndServe: a listener that cannot be opened closes the session.
ListenFails ==
    /\ main = "listening"
    /\ Return("ListenError")
    /\ UNCHANGED <<sessionVars, signalled, accepting, done, drainErr, handlerVars>>

Listen ==
    /\ main = "listening"
    /\ main' = "serving"
    /\ accepting' = TRUE
    /\ UNCHANGED <<sessionVars, signalled, done, drainErr, result, handlerVars>>

\* First branch of the select.
ServeEnds ==
    /\ main = "serving"
    /\ done # << >>
    /\ done' = Tail(done)
    /\ Return(IF Head(done) = "ErrServerClosed" THEN "nil" ELSE Head(done))
    /\ UNCHANGED <<sessionVars, signalled, accepting, drainErr, handlerVars>>

\* Mutant: only the deferred call closes the session.
CloseSessionLater ==
    /\ main = "serving"
    /\ signalled
    /\ main' = "closing"
    /\ UNCHANGED <<sessionVars, signalled, accepting, done, drainErr, result, handlerVars>>

\* Second branch: the session is closed first.  With both branches ready the
\* select may take either.
CloseSession ==
    /\ main = "serving"
    /\ signalled
    /\ IF closed THEN UNCHANGED sessionVars ELSE Close
    /\ main' = "closing"
    /\ UNCHANGED <<signalled, accepting, done, drainErr, result, handlerVars>>

\* Shutdown closes the listener, which ends the accept loop if it still runs;
\* then it waits.
BeginShutdown ==
    /\ main = "closing"
    /\ main' = "draining"
    /\ accepting' = FALSE
    /\ done' = IF accepting THEN Append(done, "ErrServerClosed") ELSE done
    /\ UNCHANGED <<sessionVars, signalled, drainErr, result, handlerVars>>

\* Shutdown returns nil once no handler is running ...
Drained ==
    /\ main = "draining"
    /\ Running = {}
    /\ main' = "joining"
    /\ UNCHANGED <<sessionVars, signalled, accepting, done, drainErr, result, handlerVars>>

\* Mutant: Shutdown is given a context without a timeout.
DrainUnbounded == FALSE /\ UNCHANGED processVars

\* ... or the drain timeout passes; Close then gives up the connections, not
\* the handlers.
DrainTimesOut ==
    /\ main = "draining"
    /\ drainErr' = "DeadlineExceeded"
    /\ main' = "joining"
    /\ UNCHANGED <<sessionVars, signalled, accepting, done, result, handlerVars>>

\* serveErr := <-done; an error of Shutdown goes before one of Serve.
Join ==
    /\ main = "joining"
    /\ done # << >>
    /\ done' = Tail(done)
    /\ Return(CASE drainErr # "none" -> drainErr
                [] drainErr = "none" /\ Head(done) # "ErrServerClosed" -> Head(done)
                [] OTHER -> "nil")
    /\ UNCHANGED <<sessionVars, signalled, accepting, drainErr, handlerVars>>

\* The deferred state.Close.
Leave ==
    /\ main = "leaving"
    /\ IF closed THEN UNCHANGED sessionVars ELSE Close
    /\ main' = "returned"
    /\ UNCHANGED <<signalled, accepting, done, drainErr, result, handlerVars>>

-----------------------------------------------------------------------------

MainStep ==
    \/ ListenFails
    \/ Listen
    \/ ServeEnds
    \/ CloseSession
    \/ BeginShutdown
    \/ Drained
    \/ DrainTimesOut
    \/ Join
    \/ Leave

\* The operator's requests change the scope.  Their handlers were accepted like
\* any other and may outlive the accept loop.
Operate ==
    /\ main # "listening"
    /\ \/ \E name \in Contexts : SelectContext(name)
       \/ /\ MayAllowNamespaces(scope.generation)
          /\ AllowNamespaces(scope.generation, NamespacesOf[scope.context])
       \/ \E name \in Namespaces : SelectNamespaceAt(name, scope.generation)
    /\ UNCHANGED lifecycleVars

\* Nothing runs after main has returned.
LifecycleNext ==
    /\ main # "returned"
    /\ \/ MainStep
       \/ Operate
       \/ AcceptFails
       \/ Signal
       \/ \E h \in Handlers : Accept(h) \/ HandlerBinds(h) \/ HandlerEnds(h)

\* The scheduler runs the main goroutine and the drain timer fires.
LifecycleSpec ==
    /\ LifecycleInit
    /\ [][LifecycleNext]_processVars
    /\ WF_processVars(MainStep)

-----------------------------------------------------------------------------

\* serve returns nil only after a complete drain: no handler is left running,
\* the accept loop has ended and Shutdown reported no error ("joins graceful
\* shutdown before returning", lifecycle.go:13).
CleanReturnIsDrained ==
    result = "nil" => /\ Running = {}
                      /\ ~accepting /\ done = << >>
                      /\ drainErr = "none"

\* Whatever ends the process, a listen error, a failed accept loop or a signal,
\* the session is closed by then, and every handler that is still running was
\* cancelled.
ReturnLeavesNothingOpen ==
    main = "returned" =>
        /\ closed
        /\ \A h \in Running : handlerCtx[h] \in cancelledContexts \cup {0}

\* From before Shutdown waits for them, every handler bound to a scope is
\* cancelled and none gets bound any more, so that the drain does not wait for
\* work nobody told to stop.
DrainWaitsForCancelledWork ==
    main \in {"closing", "draining", "joining"} =>
        \A h \in Running : handlerCtx[h] \in cancelledContexts \cup {0}

\* The way from serving to the return: the work is cancelled before it is waited
\* for, a clean return is a drained one and no return leaves anything open.
\* Beside it the types; the result channel never holds more than its one.
ShutdownIsOrderly ==
    /\ LifecycleTypeOK
    /\ DrainWaitsForCancelledWork
    /\ CleanReturnIsDrained
    /\ ReturnLeavesNothingOpen

\* A signal ends the process although handlers may never end.
SignalEndsProcess == signalled ~> main = "returned"

=============================================================================
