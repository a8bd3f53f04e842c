---------------------------- MODULE LevelControl -----------------------------
(***************************************************************************)
(* Runtime control of the threshold (control.go): LevelHTTPHandler, each   *)
(* request served by a goroutine of its own, and WatchLevelEnv, which      *)
(* polls an environment variable.  Both end in SetLevelString, that is in  *)
(* an UpdateConfig of ConfigStore, and race with each other and with       *)
(* whoever else calls UpdateConfig.                                        *)
(*                                                                         *)
(* A level string is a record: what it spells and whether white space      *)
(* surrounds it, which ParseLevel forgives a name but not a number.        *)
(***************************************************************************)
EXTENDS ConfigStore

CONSTANTS
    Requests,       \* HTTP requests; each is served once
    Watchers,       \* goroutines in WatchLevelEnv on the same variable
    Others,         \* goroutines that call UpdateConfig with any edit
    SetLevel(_),    \* SetLevel(l): the edit that SetLevel(l) passes
    LevelInfo,      \* slog.LevelInfo
    ParseError,     \* what ParseLevel answers to no level
    Strings,        \* level strings in the environment, queries and bodies
    MaxEnvChanges   \* bound: how often the environment changes

ASSUME UpdatersAreTheCallers ==
    /\ Updaters = Requests \cup Watchers \cup Others
    /\ Requests \cap Watchers = {} /\ Requests \cap Others = {}
    /\ Watchers \cap Others = {}
ASSUME SetLevelEdits ==
    \A l \in Levels : /\ SetLevel(l) \in Edits
                      /\ \A c \in Config : Apply(SetLevel(l), c) = [c EXCEPT !.level = l]
ASSUME MaxEnvChangesIsNat == MaxEnvChanges \in Nat
ASSUME LevelInfoIsLevel == LevelInfo \in Levels /\ ParseError \notin Levels

Actors == Requests \cup Watchers

\* A string spells a name (info, Warn...), a number, nothing, or something
\* else; level is what a name or number stands for.
String == [spells : {"name", "number", "nothing", "else"},
           level : Levels, padded : BOOLEAN]

ASSUME StringsAreStrings == Strings \subseteq String

\* The empty string; its level is not used.
Empty == [spells |-> "nothing", level |-> LevelInfo, padded |-> FALSE]

TrimSpace(s) == [s EXCEPT !.padded = FALSE]

\* The switch works on the trimmed, lower-cased string and takes "" for
\* info; strconv.Atoi gets the string as it came.
ParseLevel(s) ==
    CASE s.spells = "name" -> s.level
      [] s.spells = "nothing" -> LevelInfo
      [] s.spells = "number" /\ ~s.padded -> s.level
      [] OTHER -> ParseError

VARIABLES
    at,           \* where each request and watcher stands
    lvlStr,       \* the string each works on (a watcher's v)
    status,       \* HTTP status of each answer, 0 before
    read,         \* address behind the Config() whose level is answered
    named,        \* address behind the Config() whose names are used
    since,        \* history: addresses in force since the request began,
                  \* or since its own store
    env,          \* the environment variable
    envChanges,   \* how often it has changed
    last,         \* the watchers' local last
    cancelled     \* the watchers' ctx is done

answerVars == <<status, read, named>>
watchVars == <<env, envChanges, last, cancelled>>
controlVars == <<at, lvlStr, answerVars, since, watchVars>>
levelVars == <<storeVars, controlVars>>

-----------------------------------------------------------------------------

LevelInit ==
    /\ Init
    /\ at = [a \in Actors |-> IF a \in Requests THEN "new" ELSE "apply"]
    /\ lvlStr = [a \in Actors |-> Empty]
    /\ status = [r \in Requests |-> 0]
    /\ read = [r \in Requests |-> 0]
    /\ named = [r \in Requests |-> 0]
    /\ since = [r \in Requests |-> {}]
    /\ env \in Strings
    /\ envChanges = 0
    /\ last = [w \in Watchers |-> Empty]
    /\ cancelled = FALSE

\* History: what came into force in this step is noted for every request.
NoteStore ==
    since' = [r \in Requests |->
                 IF cfgPtr' # cfgPtr THEN since[r] \cup {cfgPtr'} ELSE since[r]]

\* GET and HEAD go straight to the answer.
BeginGet(r) ==
    /\ at[r] = "new"
    /\ at' = [at EXCEPT ![r] = "read"]
    /\ since' = [since EXCEPT ![r] = {cfgPtr}]
    /\ UNCHANGED <<storeVars, lvlStr, answerVars, watchVars>>

\* The level string of a PUT: the query if it has one, else the body, which
\* is "" when it cannot be decoded.
LevelString(query, body) == IF query = Empty THEN body ELSE query

\* PUT, POST and PATCH: find the string and parse it; no level is a 400.
BeginPut(r, query, body) ==
    /\ at[r] = "new"
    /\ lvlStr' = [lvlStr EXCEPT ![r] = LevelString(query, body)]
    /\ since' = [since EXCEPT ![r] = {cfgPtr}]
    /\ \/ /\ ParseLevel(lvlStr'[r]) = ParseError
          /\ at' = [at EXCEPT ![r] = "done"]
          /\ status' = [status EXCEPT ![r] = 400]
       \/ /\ ParseLevel(lvlStr'[r]) # ParseError
          /\ at' = [at EXCEPT ![r] = "set"]
          /\ UNCHANGED status
    /\ UNCHANGED <<storeVars, read, named, watchVars>>

\* Any other method.
RefuseMethod(r) ==
    /\ at[r] = "new"
    /\ at' = [at EXCEPT ![r] = "done"]
    /\ status' = [status EXCEPT ![r] = 405]
    /\ UNCHANGED <<storeVars, lvlStr, read, named, since, watchVars>>

\* SetLevel of the parsed level: UpdateConfig up to its store.
SetLevelLoad(a) ==
    /\ at[a] = "set"
    /\ at' = [at EXCEPT ![a] = "update"]
    /\ UpdateLoad(a, SetLevel(ParseLevel(lvlStr[a])))
    /\ UNCHANGED <<lvlStr, answerVars, since, watchVars>>

SetLevelApply(a) ==
    /\ at[a] = "update"
    /\ UpdateApply(a)
    /\ UNCHANGED controlVars

\* Mutant: compare-and-swap without a retry; the loser answers all the same.
PutStoreGivesUp(r) ==
    /\ at[r] = "update"
    /\ pc[r] = "applied"
    /\ IF cfgPtr = old[r]
       THEN UpdateStore(r)
       ELSE /\ pc' = [pc EXCEPT ![r] = "idle"]
            /\ UNCHANGED <<cfgPtr, heap, maps, allocated, published, edit, old, new, snap>>
    /\ at' = [at EXCEPT ![r] = "read"]
    /\ since' = [q \in Requests |->
                    IF q = r THEN {cfgPtr'} ELSE since[q] \cup {cfgPtr'}]
    /\ UNCHANGED <<lvlStr, answerVars, watchVars>>

\* Mutant: compare-and-swap retried without loading again.
PutStoreSpins(r) ==
    /\ at[r] = "update"
    /\ cfgPtr = old[r]
    /\ UpdateStore(r)
    /\ at' = [at EXCEPT ![r] = "read"]
    /\ since' = [q \in Requests |->
                    IF q = r THEN {cfgPtr'} ELSE since[q] \cup {cfgPtr'}]
    /\ UNCHANGED <<lvlStr, answerVars, watchVars>>

\* The store of a PUT; the answer is still to be read.
PutStore(r) ==
    /\ at[r] = "update"
    /\ UpdateStore(r)
    /\ at' = [at EXCEPT ![r] = "read"]
    /\ since' = [q \in Requests |->
                    IF q = r THEN {cfgPtr'} ELSE since[q] \cup {cfgPtr'}]
    /\ UNCHANGED <<lvlStr, answerVars, watchVars>>

\* Mutant: a PUT answers from the Config it loaded before its update.
ReadLevelBeforeUpdate(r) ==
    /\ at[r] = "read"
    /\ read' = [read EXCEPT ![r] = IF new[r] # 0 THEN old[r] ELSE cfgPtr]
    /\ at' = [at EXCEPT ![r] = "name"]
    /\ UNCHANGED <<storeVars, lvlStr, status, named, since, watchVars>>

\* cur := l.Config().Level
ReadLevel(r) ==
    /\ at[r] = "read"
    /\ read' = [read EXCEPT ![r] = cfgPtr]
    /\ at' = [at EXCEPT ![r] = "name"]
    /\ UNCHANGED <<storeVars, lvlStr, status, named, since, watchVars>>

\* getLevelName(cur, l.Config().LevelNames), a second load; then answer.
Answer(r) ==
    /\ at[r] = "name"
    /\ named' = [named EXCEPT ![r] = cfgPtr]
    /\ status' = [status EXCEPT ![r] = 200]
    /\ at' = [at EXCEPT ![r] = "done"]
    /\ UNCHANGED <<storeVars, lvlStr, read, since, watchVars>>

\* Mutant: the value is used as it stands in the environment.
WatchReadNoTrim(w) ==
    /\ at[w] = "apply"
    /\ LET v == env
       IN  /\ lvlStr' = [lvlStr EXCEPT ![w] = v]
           /\ \/ /\ v = Empty \/ v = last[w] \/ ParseLevel(v) = ParseError
                 /\ at' = [at EXCEPT ![w] = "select"]
              \/ /\ v # Empty /\ v # last[w] /\ ParseLevel(v) # ParseError
                 /\ at' = [at EXCEPT ![w] = "set"]
    /\ UNCHANGED <<storeVars, answerVars, since, watchVars>>

\* The start of apply: v is "", is last, is no level, or is set.
WatchRead(w) ==
    /\ at[w] = "apply"
    /\ LET v == TrimSpace(env)
       IN  /\ lvlStr' = [lvlStr EXCEPT ![w] = v]
           /\ \/ /\ v = Empty \/ v = last[w] \/ ParseLevel(v) = ParseError
                 /\ at' = [at EXCEPT ![w] = "select"]
              \/ /\ v # Empty /\ v # last[w] /\ ParseLevel(v) # ParseError
                 /\ at' = [at EXCEPT ![w] = "set"]
    /\ UNCHANGED <<storeVars, answerVars, since, watchVars>>

\* The store of a watcher; last = v.
WatchStore(w) ==
    /\ at[w] = "update"
    /\ UpdateStore(w)
    /\ NoteStore
    /\ last' = [last EXCEPT ![w] = lvlStr[w]]
    /\ at' = [at EXCEPT ![w] = "select"]
    /\ UNCHANGED <<lvlStr, answerVars, env, envChanges, cancelled>>

\* case <-t.C
Tick(w) ==
    /\ at[w] = "select"
    /\ at' = [at EXCEPT ![w] = "apply"]
    /\ UNCHANGED <<storeVars, lvlStr, answerVars, since, watchVars>>

\* Mutant: the watch ends only when the last value read was applied.
WatchReturnApplied(w) ==
    /\ at[w] = "select"
    /\ cancelled
    /\ lvlStr[w] = last[w]
    /\ at' = [at EXCEPT ![w] = "returned"]
    /\ UNCHANGED <<storeVars, lvlStr, answerVars, since, watchVars>>

\* case <-ctx.Done()
WatchReturn(w) ==
    /\ at[w] = "select"
    /\ cancelled
    /\ at' = [at EXCEPT ![w] = "returned"]
    /\ UNCHANGED <<storeVars, lvlStr, answerVars, since, watchVars>>

-----------------------------------------------------------------------------

\* The surroundings: the operator edits the environment, ctx is cancelled,
\* other code updates the configuration.
SetEnv(s) ==
    /\ envChanges < MaxEnvChanges
    /\ s # env
    /\ env' = s
    /\ envChanges' = envChanges + 1
    /\ UNCHANGED <<storeVars, at, lvlStr, answerVars, since, last, cancelled>>

Cancel ==
    /\ ~cancelled
    /\ Watchers # {}
    /\ cancelled' = TRUE
    /\ UNCHANGED <<storeVars, at, lvlStr, answerVars, since, env, envChanges, last>>

\* Bound: each of them starts one update.
OtherUpdate(p) ==
    /\ pc[p] # "idle" \/ new[p] = 0
    /\ Update(p)
    /\ NoteStore
    /\ UNCHANGED <<at, lvlStr, answerVars, watchVars>>

ServeStep(r) ==
    \/ SetLevelLoad(r)
    \/ SetLevelApply(r)
    \/ PutStore(r)
    \/ ReadLevel(r)
    \/ Answer(r)

Serve(r) ==
    \/ BeginGet(r)
    \/ \E query, body \in Strings \cup {Empty} : BeginPut(r, query, body)
    \/ RefuseMethod(r)
    \/ ServeStep(r)

WatchStep(w) ==
    \/ WatchRead(w)
    \/ SetLevelLoad(w)
    \/ SetLevelApply(w)
    \/ WatchStore(w)
    \/ Tick(w)

LevelNext ==
    \/ \E r \in Requests : Serve(r)
    \/ \E w \in Watchers : WatchStep(w) \/ WatchReturn(w)
    \/ \E p \in Others : OtherUpdate(p)
    \/ \E s \in Strings : SetEnv(s)
    \/ Cancel

LevelSpec == LevelInit /\ [][LevelNext]_levelVars

\* A request or watcher that can go on does; the ticker keeps ticking.  A
\* select with both cases ready picks one at random, so it does not refuse
\* ctx.Done() for ever: strong fairness.
LevelFairness ==
    /\ \A r \in Requests : WF_levelVars(ServeStep(r))
    /\ \A w \in Watchers : WF_levelVars(WatchStep(w)) /\ SF_levelVars(WatchReturn(w))

FairLevelSpec == LevelSpec /\ LevelFairness

-----------------------------------------------------------------------------

LevelTypeOK ==
    /\ TypeOK
    /\ at \in [Actors -> {"new", "apply", "set", "update", "read", "name",
                          "done", "select", "returned"}]
    /\ lvlStr \in [Actors -> String]
    /\ status \in [Requests -> {0, 200, 400, 405}]
    /\ read \in [Requests -> Addr]
    /\ named \in [Requests -> Addr]
    /\ since \in [Requests -> SUBSET Addr]
    /\ env \in Strings
    /\ envChanges \in 0 .. MaxEnvChanges
    /\ last \in [Watchers -> String]
    /\ cancelled \in BOOLEAN

\* Request r has called UpdateConfig: it has been given a clone.
IsPut(r) == new[r] # 0

(***************************************************************************)
(* An answer is not stale: the level and the level names it shows were     *)
(* both in force after the request began and, for a PUT, not before its    *)
(* own level was (control.go LevelHTTPHandler).                            *)
(***************************************************************************)
AnswersFresh ==
    \A r \in Requests :
        status[r] = 200 => {read[r], named[r]} \subseteq since[r]

(***************************************************************************)
(* A PUT that is answered with 200 has put the level it asked for in       *)
(* force, and shows another one only when another update came after it.    *)
(***************************************************************************)
PutsTakeEffect ==
    \A r \in Requests :
        (status[r] = 200 /\ IsPut(r)) =>
            /\ new[r] \in published
            /\ Content(new[r]).level = ParseLevel(lvlStr[r])
            /\ Content(read[r]).level # ParseLevel(lvlStr[r]) => cfgPtr # new[r]

(***************************************************************************)
(* Every request is answered, whatever updates race with it.               *)
(***************************************************************************)
RequestsAnswered ==
    \A r \in Requests : (at[r] # "new") ~> (at[r] = "done")

(***************************************************************************)
(* "polls an environment variable and applies level changes" (control.go   *)
(* WatchLevelEnv): when the environment settles on a level, the watcher    *)
(* applies it, and it stays in force unless a later update replaces it or  *)
(* the watch is cancelled.                                                 *)
(***************************************************************************)
EnvLevelTakesEffect ==
    \A w \in Watchers :
        <>[](\/ cancelled
             \/ TrimSpace(env) = Empty
             \/ ParseLevel(TrimSpace(env)) = ParseError
             \/ /\ last[w] = TrimSpace(env)
                /\ Current.level = ParseLevel(last[w]) \/ cfgPtr # new[w])

(***************************************************************************)
(* "Stops when ctx is canceled" (control.go WatchLevelEnv), also when a    *)
(* tick is always pending.                                                 *)
(***************************************************************************)
WatchStops == \A w \in Watchers : cancelled ~> (at[w] = "returned")

=============================================================================
