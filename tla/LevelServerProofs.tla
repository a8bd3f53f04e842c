-------------------------- MODULE LevelServerProofs --------------------------
(***************************************************************************)
(* What holds of LevelServer for any requests and levels: its requests are *)
(* requests of LevelControl, whose theorems therefore hold behind the      *)
(* server, and a shutdown that succeeds leaves the endpoint quiet.         *)
(***************************************************************************)
EXTENDS LevelServer, LevelControlProofs

\* A step of the server is one of level control or none.
LEMMA ServerStepIsLevelStep == [ServerNext]_allServerVars => [LevelNext]_levelVars
<1> SUFFICES ASSUME [ServerNext]_allServerVars PROVE [LevelNext]_levelVars
  OBVIOUS
<1>1. ASSUME NEW r \in Requests, Handler(r) PROVE LevelNext
  BY <1>1, Zenon DEF Handler, LevelNext
<1>2. ASSUME NEW r \in Requests, Accept(r) PROVE UNCHANGED levelVars
  BY <1>2, Zenon DEF Accept
<1>3. ASSUME NEW c \in Callers, Shutdown(c) \/ ShutdownDone(c) \/ ShutdownTimeout(c)
      PROVE  UNCHANGED levelVars
  BY <1>3, Zenon DEF Shutdown, ShutdownDone, ShutdownTimeout
<1>4. CASE ServeStart \/ ServeReturn \/ CtxDone
  BY <1>4, Zenon DEF ServeStart, ServeReturn, CtxDone
<1>5. CASE Elsewhere
  BY <1>5, Zenon DEF Elsewhere, LevelNext
<1>6. CASE UNCHANGED allServerVars
  BY <1>6, Zenon DEF allServerVars
<1> QED
  BY <1>1, <1>2, <1>3, <1>4, <1>5, <1>6, Zenon DEF ServerNext

(***************************************************************************)
(* Every behaviour of the server is one of LevelControl (control.go): what *)
(* is proved of the requests there holds when they come over the server,   *)
(* also while it is shut down.                                             *)
(***************************************************************************)
THEOREM ServerImplementsControl == ServerSpec => LevelSpec
<1>1. ServerInit => LevelInit
  BY DEF ServerInit
<1> QED
  BY <1>1, ServerStepIsLevelStep, PTL DEF ServerSpec, LevelSpec

-----------------------------------------------------------------------------

(***************************************************************************)
(* The inductive invariant: a Shutdown that was called has set closing, so *)
(* a Serve that starts later returns; once one has succeeded no goroutine  *)
(* accepts and every accepted request is done.                             *)
(***************************************************************************)
ServerInv ==
    /\ serve \in {"starting", "serving", "returned"}
    /\ conn \subseteq Requests
    /\ call \in [Callers -> {"idle", "waiting", "stopped", "timedout"}]
    /\ listening \in BOOLEAN /\ closing \in BOOLEAN /\ ctxDone \in BOOLEAN
    /\ \A r \in Requests \ conn : at[r] = "new"
    /\ \A c \in Callers : call[c] # "idle" => closing
    /\ Stopped => serve # "serving" /\ NoneActive

\* A request that is done takes no step, and a step moves one request only.
LEMMA ServeMoves ==
    ASSUME LevelTypeOK, NEW r \in Requests, Serve(r)
    PROVE  /\ at[r] # "done"
           /\ \A q \in Requests : q # r => at'[q] = at[q]
<1>1. \/ at[r] \in {"new", "set", "read", "name"} /\ \E s : at' = [at EXCEPT ![r] = s]
      \/ at[r] = "update" /\ \E s : at' = [at EXCEPT ![r] = s]
      \/ at[r] = "update" /\ at' = at
  <2>1. CASE BeginGet(r)
    BY <2>1 DEF BeginGet
  <2>2. CASE \E query, body \in Strings \cup {Empty} : BeginPut(r, query, body)
    BY <2>2 DEF BeginPut
  <2>3. CASE RefuseMethod(r)
    BY <2>3 DEF RefuseMethod
  <2>4. CASE ServeStep(r)
    BY <2>4 DEF ServeStep, SetLevelLoad, SetLevelApply, PutStore, ReadLevel, Answer, controlVars
  <2> QED
    BY <2>1, <2>2, <2>3, <2>4 DEF Serve
<1> QED
  BY <1>1 DEF LevelTypeOK, Actors

LEMMA ServerInitially == ServerInit => ServerInv
<1> SUFFICES ASSUME ServerInit PROVE ServerInv
  OBVIOUS
<1>1. \A r \in Requests : at[r] = "new"
  BY DEF ServerInit, LevelInit, Actors
<1> QED
  BY <1>1 DEF ServerInit, ServerInv, Stopped

LEMMA HandlerKeepsInv ==
    ASSUME LevelTypeOK, ServerInv, NEW r \in Requests, Handler(r)
    PROVE  ServerInv'
<1>1. r \in conn /\ at[r] # "done" /\ \A q \in Requests : q # r => at'[q] = at[q]
  BY ServeMoves DEF Handler
<1>2. ~Stopped
  BY <1>1 DEF ServerInv, NoneActive
<1>3. UNCHANGED serverVars
  BY DEF Handler
<1> QED
  BY <1>1, <1>2, <1>3 DEF ServerInv, Stopped, serverVars

\* What leaves levelVars alone leaves at alone.
LEMMA LevelVarsAt == UNCHANGED levelVars => at' = at /\ cfgPtr' = cfgPtr /\ status' = status
  BY DEF levelVars, controlVars, answerVars, storeVars

LEMMA ServerStep ==
    ASSUME LevelTypeOK, ServerInv, [ServerNext]_allServerVars
    PROVE  ServerInv'
<1>1. ASSUME NEW r \in Requests, Accept(r) PROVE ServerInv'
  <2>1. ~Stopped /\ at' = at
    BY <1>1, LevelVarsAt DEF Accept, ServerInv
  <2> QED
    BY <1>1, <2>1 DEF Accept, ServerInv, Stopped
<1>2. CASE ServeStart
  <2>1. at' = at
    BY <1>2, LevelVarsAt DEF ServeStart
  <2>2. Stopped => closing
    BY DEF ServerInv, Stopped
  <2> QED
    BY <1>2, <2>1, <2>2 DEF ServeStart, ServerInv, Stopped, NoneActive
<1>3. CASE ServeReturn
  <2>1. at' = at
    BY <1>3, LevelVarsAt DEF ServeReturn
  <2> QED
    BY <1>3, <2>1 DEF ServeReturn, ServerInv, Stopped, NoneActive
<1>4. CASE CtxDone
  <2>1. at' = at
    BY <1>4, LevelVarsAt DEF CtxDone
  <2> QED
    BY <1>4, <2>1 DEF CtxDone, ServerInv, Stopped, NoneActive
<1>5. ASSUME NEW c \in Callers, Shutdown(c) PROVE ServerInv'
  <2>1. at' = at
    BY <1>5, LevelVarsAt DEF Shutdown
  <2>2. Stopped' => Stopped
    BY <1>5 DEF Shutdown, ServerInv, Stopped
  <2> QED
    BY <1>5, <2>1, <2>2 DEF Shutdown, ServerInv, NoneActive
<1>6. ASSUME NEW c \in Callers, ShutdownDone(c) PROVE ServerInv'
  <2>1. at' = at
    BY <1>6, LevelVarsAt DEF ShutdownDone
  <2> QED
    BY <1>6, <2>1 DEF ShutdownDone, ServerInv, NoneActive
<1>7. ASSUME NEW c \in Callers, ShutdownTimeout(c) PROVE ServerInv'
  <2>1. at' = at
    BY <1>7, LevelVarsAt DEF ShutdownTimeout
  <2>2. Stopped' => Stopped
    BY <1>7 DEF ShutdownTimeout, ServerInv, Stopped
  <2> QED
    BY <1>7, <2>1, <2>2 DEF ShutdownTimeout, ServerInv, NoneActive
<1>8. CASE Elsewhere
  <2>1. at' = at /\ UNCHANGED serverVars
    BY <1>8 DEF Elsewhere, OtherUpdate
  <2> QED
    BY <2>1 DEF serverVars, ServerInv, Stopped, NoneActive
<1>9. CASE UNCHANGED allServerVars
  <2>1. at' = at /\ UNCHANGED serverVars
    BY <1>9, LevelVarsAt DEF allServerVars
  <2> QED
    BY <2>1 DEF serverVars, ServerInv, Stopped, NoneActive
<1> QED
  BY <1>1, <1>2, <1>3, <1>4, <1>5, <1>6, <1>7, <1>8, <1>9, HandlerKeepsInv DEF ServerNext

\* The inductive invariant holds in every state.
LEMMA ServerInvariant == ServerSpec => [](LevelTypeOK /\ ServerInv)
<1>1. ServerInit => ServerInv
  BY ServerInitially
<1>2. LevelTypeOK /\ ServerInv /\ [ServerNext]_allServerVars => ServerInv'
  BY ServerStep
<1> QED
  BY <1>1, <1>2, ServerImplementsControl, LevelTypeCorrect, PTL DEF ServerSpec

(***************************************************************************)
(* The server, its goroutines and its requests are well typed, and no      *)
(* request is served before it was accepted (control.go ListenLevelHTTP).  *)
(***************************************************************************)
THEOREM ServerTypeCorrect == ServerSpec => []ServerTypeOK
<1>1. LevelTypeOK /\ ServerInv => ServerTypeOK
  BY DEF ServerInv, ServerTypeOK
<1> QED
  BY <1>1, ServerInvariant, PTL

(***************************************************************************)
(* After a Shutdown that returned without an error no request changes the  *)
(* configuration or is answered, whatever other code does, for any number  *)
(* of requests (control.go ListenLevelHTTP).                               *)
(***************************************************************************)
THEOREM ShutdownIsQuiet == ServerSpec => QuietAfterShutdown
<1> DEFINE Quiet == /\ UNCHANGED <<status, conn>>
                    /\ cfgPtr' # cfgPtr => \E p \in Others : cfgPtr' = new[p]
<1>1. ServerInv /\ [ServerNext]_allServerVars => [Stopped => Quiet]_allServerVars
  <2> SUFFICES ASSUME ServerInv, ServerNext, Stopped PROVE Quiet
    OBVIOUS
  <2>1. ASSUME NEW r \in Requests, Handler(r) PROVE FALSE
    <3>1. at[r] = "done"
      BY <2>1 DEF Handler, ServerInv, NoneActive
    <3> QED
      BY <2>1, <3>1 DEF Handler, Serve, ServeStep, BeginGet, BeginPut, RefuseMethod,
         SetLevelLoad, SetLevelApply, PutStore, ReadLevel, Answer
  <2>2. ASSUME NEW r \in Requests, Accept(r) PROVE FALSE
    BY <2>2 DEF Accept, ServerInv
  <2>3. CASE ServeStart \/ ServeReturn \/ CtxDone
    BY <2>3, LevelVarsAt DEF ServeStart, ServeReturn, CtxDone
  <2>4. ASSUME NEW c \in Callers, Shutdown(c) \/ ShutdownDone(c) \/ ShutdownTimeout(c)
        PROVE  Quiet
    BY <2>4, LevelVarsAt DEF Shutdown, ShutdownDone, ShutdownTimeout
  <2>5. CASE Elsewhere
    <3>1. PICK p \in Others : OtherUpdate(p) /\ UNCHANGED serverVars
      BY <2>5 DEF Elsewhere
    <3>2. cfgPtr' = cfgPtr \/ cfgPtr' = new[p]
      BY <3>1 DEF OtherUpdate, Update, UpdateLoad, UpdateApply, UpdatePanic, UpdateStore
    <3> QED
      BY <3>1, <3>2 DEF OtherUpdate, answerVars, serverVars
  <2> QED
    BY <2>1, <2>2, <2>3, <2>4, <2>5 DEF ServerNext
<1> QED
  BY <1>1, ServerInvariant, PTL DEF ServerSpec, QuietAfterShutdown

=============================================================================
