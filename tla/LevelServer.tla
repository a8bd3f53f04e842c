---------------------------- MODULE LevelServer -----------------------------
(***************************************************************************)
(* ListenLevelHTTP (control.go) around the requests of LevelControl: the   *)
(* goroutine in srv.Serve, the goroutine that waits for ctx, and the       *)
(* shutdown function the caller got, which is srv.Shutdown.                *)
(*                                                                         *)
(* http.Server is external.  Shutdown closes the listeners Serve has       *)
(* registered, waits for Serve to return and for the open requests to end, *)
(* or for its context; Serve refuses to start after a Shutdown and closes  *)
(* its listener when it returns.  A handler may wait for its body for      *)
(* ever: ReadHeaderTimeout is the only limit set.                          *)
(***************************************************************************)
EXTENDS LevelControl

Callers == {"user", "ctx"}

VARIABLES
    serve,        \* the Serve goroutine: starting, serving, returned
    listening,    \* the listener is open
    closing,      \* srv.inShutdown
    conn,         \* requests whose headers have been read
    call,         \* the Shutdown call of each caller
    ctxDone       \* the ctx given to ListenLevelHTTP is done

serverVars == <<serve, listening, closing, conn, call, ctxDone>>

\* net.Listen has succeeded; both goroutines are about to run.
ServerInit ==
    /\ LevelInit
    /\ serve = "starting"
    /\ listening = TRUE
    /\ closing = FALSE
    /\ conn = {}
    /\ call = [c \in Callers |-> "idle"]
    /\ ctxDone = FALSE

-----------------------------------------------------------------------------

\* go srv.Serve(ln), which may be scheduled after a Shutdown.
ServeStart ==
    /\ serve = "starting"
    /\ serve' = IF closing THEN "returned" ELSE "serving"
    /\ listening' = (listening /\ ~closing)
    /\ UNCHANGED <<levelVars, closing, conn, call, ctxDone>>

\* A connection is accepted and the headers of its request have come.
Accept(r) ==
    /\ serve = "serving"
    /\ listening
    /\ r \notin conn
    /\ conn' = conn \cup {r}
    /\ UNCHANGED <<levelVars, serve, listening, closing, call, ctxDone>>

\* The handler of an accepted request runs.
Handler(r) ==
    /\ r \in conn
    /\ Serve(r)
    /\ UNCHANGED serverVars

ServeReturn ==
    /\ serve = "serving"
    /\ ~listening
    /\ serve' = "returned"
    /\ UNCHANGED <<levelVars, listening, closing, conn, call, ctxDone>>

\* ctx is cancelled, at any time or never.
CtxDone ==
    /\ ~ctxDone
    /\ ctxDone' = TRUE
    /\ UNCHANGED <<levelVars, serve, listening, closing, conn, call>>

\* srv.Shutdown, by whoever holds the returned function or, once <-ctx.Done()
\* is over, by the goroutine of ListenLevelHTTP.
Shutdown(c) ==
    /\ call[c] = "idle"
    /\ c = "ctx" => ctxDone
    /\ call' = [call EXCEPT ![c] = "waiting"]
    /\ closing' = TRUE
    /\ listening' = (listening /\ serve # "serving")
    /\ UNCHANGED <<levelVars, serve, conn, ctxDone>>

\* Mutant: shutdown is ln.Close, which leaves open requests alone.
NoneActiveUnasked == TRUE

NoneActive == \A r \in conn : at[r] = "done"

ShutdownDone(c) ==
    /\ call[c] = "waiting"
    /\ serve # "serving"
    /\ NoneActive
    /\ call' = [call EXCEPT ![c] = "stopped"]
    /\ UNCHANGED <<levelVars, serve, listening, closing, conn, ctxDone>>

\* Mutant: context.WithoutCancel(ctx) without the timeout around it.
HasDeadlineUser(c) == c = "user"

\* The goroutine of ctx waits controlShutdownTimeout; the user's context may
\* have a deadline.
HasDeadline(c) == TRUE

ShutdownTimeout(c) ==
    /\ call[c] = "waiting"
    /\ HasDeadline(c)
    /\ call' = [call EXCEPT ![c] = "timedout"]
    /\ UNCHANGED <<levelVars, serve, listening, closing, conn, ctxDone>>

\* Code that holds the logger but does not use the server.
Elsewhere == (\E p \in Others : OtherUpdate(p)) /\ UNCHANGED serverVars

ServerNext ==
    \/ \E r \in Requests : Accept(r) \/ Handler(r)
    \/ ServeStart
    \/ ServeReturn
    \/ CtxDone
    \/ Elsewhere
    \/ \E c \in Callers : Shutdown(c) \/ ShutdownDone(c) \/ ShutdownTimeout(c)

allServerVars == <<levelVars, serverVars>>

ServerSpec == ServerInit /\ [][ServerNext]_allServerVars

\* Both goroutines are scheduled and the timer of the second one fires.  No
\* fairness for handlers, whose body may never come, nor for the user.
ServerFairness ==
    /\ WF_allServerVars(ServeStart)
    /\ WF_allServerVars(ServeReturn)
    /\ WF_allServerVars(Shutdown("ctx"))
    /\ WF_allServerVars(ShutdownTimeout("ctx"))

FairServerSpec == ServerSpec /\ ServerFairness

-----------------------------------------------------------------------------

ServerTypeOK ==
    /\ LevelTypeOK
    /\ serve \in {"starting", "serving", "returned"}
    /\ conn \subseteq Requests
    /\ call \in [Callers -> {"idle", "waiting", "stopped", "timedout"}]
    /\ listening \in BOOLEAN /\ closing \in BOOLEAN /\ ctxDone \in BOOLEAN
    /\ \A r \in Requests \ conn : at[r] = "new"

Stopped == \E c \in Callers : call[c] = "stopped"

(***************************************************************************)
(* When either Shutdown has returned without an error the endpoint is      *)
(* quiet: no request is accepted or answered any more, and what comes into *)
(* force is other code's update, also when Shutdown ran before Serve did   *)
(* (control.go ListenLevelHTTP).                                           *)
(***************************************************************************)
QuietAfterShutdown ==
    [][Stopped => /\ UNCHANGED <<status, conn>>
                  /\ cfgPtr' # cfgPtr => \E p \in Others : cfgPtr' = new[p]]_allServerVars

(***************************************************************************)
(* "The server also shuts down when ctx is canceled" (control.go           *)
(* ListenLevelHTTP): Serve returns and the port is free, and the Shutdown  *)
(* of the ctx goroutine returns although a handler waits for its body for  *)
(* ever (controlShutdownTimeout), whether or not Serve had started.        *)
(***************************************************************************)
CancelStopsServer ==
    ctxDone ~> (serve = "returned" /\ ~listening /\ call["ctx"] \in {"stopped", "timedout"})

=============================================================================
