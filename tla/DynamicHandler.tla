--------------------------- MODULE DynamicHandler ---------------------------
(***************************************************************************)
(* The slog.Handler of a slogx logger (handler.go).  Log calls read the    *)
(* configuration pointer of ConfigStore twice, once in Enabled and once in *)
(* Handle, and render the record with a static handler chain that is       *)
(* rebuilt when the configuration changes and cached in two atomics:       *)
(* cachedHandler and cachedConfigVersion.                                  *)
(*                                                                         *)
(* With and WithGroup derive handlers that share the pointer and start     *)
(* with an empty cache of their own, so Handlers is a fixed set here: one  *)
(* that has not been derived yet is one nobody logs through yet.           *)
(*                                                                         *)
(* A built chain is named by the address of the Config it was built from;  *)
(* attributes and groups are fixed per handler and play no part.           *)
(***************************************************************************)
EXTENDS ConfigStore

CONSTANTS
    Callers,      \* goroutines that log
    Handlers,     \* the DynamicHandlers of one logger and its derivations
    Uses,         \* Uses[c]: the handlers goroutine c logs through
    RecordLevels  \* levels of the records logged

ASSUME UsesAreHandlers == Uses \in [Callers -> SUBSET Handlers]
ASSUME HandlersExist == Handlers # {}
ASSUME RecordLevelsAreInts == RecordLevels # {} /\ RecordLevels \subseteq Int

Nil == -1

VARIABLES
    cachedHandler,  \* address of the Config the cached chain came from
    cachedVersion,  \* h.cachedConfigVersion
    at,             \* where each caller stands in its log call
    via,            \* the handler it logs through
    level,          \* the level of its record
    cfg,            \* the cfg local of Handle
    base            \* the chain getOrBuildCachedHandler returns to it

cacheVars == <<cachedHandler, cachedVersion>>
callerVars == <<at, via, level, cfg, base>>
vars == <<storeVars, cacheVars, callerVars>>

-----------------------------------------------------------------------------

HandlerInit ==
    /\ Init
    /\ cachedHandler = [h \in Handlers |-> Nil]
    /\ cachedVersion = [h \in Handlers |-> Nil]
    /\ at = [c \in Callers |-> "idle"]
    /\ via = [c \in Callers |-> CHOOSE h \in Handlers : TRUE]
    /\ level = [c \in Callers |-> CHOOSE l \in RecordLevels : TRUE]
    /\ cfg = [c \in Callers |-> 0]
    /\ base = [c \in Callers |-> 0]

\* Mutant: the threshold is the one the logger was created with.
PassesAtCreation(l) == l >= heap[0].level

\* The threshold test of Enabled, against the configuration in force.
Passes(l) == l >= heap[cfgPtr].level

\* slog.Logger asks Enabled first; a record below the threshold ends here.
Enabled(c, h, l) ==
    /\ at[c] = "idle"
    /\ h \in Uses[c]
    /\ Passes(l)
    /\ at' = [at EXCEPT ![c] = "enabled"]
    /\ via' = [via EXCEPT ![c] = h]
    /\ level' = [level EXCEPT ![c] = l]
    /\ UNCHANGED <<storeVars, cacheVars, cfg, base>>

\* Handle: cfg := h.cfg.Load().  Stack, context and trace attributes are
\* taken from this cfg too.
HandleLoad(c) ==
    /\ at[c] = "enabled"
    /\ cfg' = [cfg EXCEPT ![c] = cfgPtr]
    /\ at' = [at EXCEPT ![c] = "lookup"]
    /\ UNCHANGED <<storeVars, cacheVars, via, level, base>>

\* Mutant: a cached chain is reused whatever Config it was built from.
CheckVersionIgnored(c) ==
    /\ at[c] = "lookup"
    /\ at' = [at EXCEPT ![c] = "hit"]
    /\ UNCHANGED <<storeVars, cacheVars, via, level, cfg, base>>

\* Mutant: the cached chain is returned without the test for nil.
CheckVersionNoNilTest(c) ==
    /\ at[c] = "lookup"
    /\ base' = [base EXCEPT ![c] = cachedHandler[via[c]]]
    /\ at' = [at EXCEPT ![c] = "render"]
    /\ UNCHANGED <<storeVars, cacheVars, via, level, cfg>>

\* if h.cachedConfigVersion.Load() == cfg
CheckVersion(c) ==
    /\ at[c] = "lookup"
    /\ at' = [at EXCEPT ![c] =
                IF cachedVersion[via[c]] = cfg[c] THEN "hit" ELSE "miss"]
    /\ UNCHANGED <<storeVars, cacheVars, via, level, cfg, base>>

\* cached := h.cachedHandler.Load(), a second read: nil falls through to
\* the build, anything else is returned.
TakeCached(c) ==
    /\ at[c] = "hit"
    /\ LET cached == cachedHandler[via[c]]
       IN  IF cached # Nil
           THEN /\ base' = [base EXCEPT ![c] = cached]
                /\ at' = [at EXCEPT ![c] = "render"]
           ELSE /\ at' = [at EXCEPT ![c] = "miss"]
                /\ UNCHANGED base
    /\ UNCHANGED <<storeVars, cacheVars, via, level, cfg>>

\* Build the chain from cfg and h.cachedHandler.Store(&base).
StoreHandler(c) ==
    /\ at[c] = "miss"
    /\ base' = [base EXCEPT ![c] = cfg[c]]
    /\ cachedHandler' = [cachedHandler EXCEPT ![via[c]] = cfg[c]]
    /\ at' = [at EXCEPT ![c] = "stored"]
    /\ UNCHANGED <<storeVars, cachedVersion, via, level, cfg>>

\* Mutant: the version is not stored, so no call ever hits.
StoreVersionForgotten(c) ==
    /\ at[c] = "stored"
    /\ at' = [at EXCEPT ![c] = "render"]
    /\ UNCHANGED <<storeVars, cacheVars, via, level, cfg, base>>

\* h.cachedConfigVersion.Store(cfg)
StoreVersion(c) ==
    /\ at[c] = "stored"
    /\ cachedVersion' = [cachedVersion EXCEPT ![via[c]] = cfg[c]]
    /\ at' = [at EXCEPT ![c] = "render"]
    /\ UNCHANGED <<storeVars, cachedHandler, via, level, cfg, base>>

\* base.Handle(ctx, r): the record leaves with the attributes chosen by cfg
\* and the format, output, masks and names of base.  The locals are gone.
Render(c) ==
    /\ at[c] = "render"
    /\ at' = [at EXCEPT ![c] = "idle"]
    /\ cfg' = [cfg EXCEPT ![c] = 0]
    /\ base' = [base EXCEPT ![c] = 0]
    /\ UNCHANGED <<storeVars, cacheVars, via, level>>

\* The steps of a log call once it has begun.
Handle(c) ==
    \/ HandleLoad(c)
    \/ CheckVersion(c)
    \/ TakeCached(c)
    \/ StoreHandler(c)
    \/ StoreVersion(c)
    \/ Render(c)

Log(c) ==
    \/ \E h \in Handlers, l \in RecordLevels : Enabled(c, h, l)
    \/ Handle(c)

ConfigNext ==
    /\ Next
    /\ UNCHANGED <<cacheVars, callerVars>>

HandlerNext ==
    \/ ConfigNext
    \/ \E c \in Callers : Log(c)

HandlerSpec == HandlerInit /\ [][HandlerNext]_vars

\* Nobody has to log or to update, but the scheduler runs every goroutine
\* that has begun a call to its end: no step of a call waits for another.
Fairness ==
    /\ \A c \in Callers : WF_vars(Handle(c))
    /\ \A p \in Updaters : WF_vars(UpdateApply(p) /\ UNCHANGED <<cacheVars, callerVars>>)
    /\ \A p \in Updaters : WF_vars(UpdateStore(p) /\ UNCHANGED <<cacheVars, callerVars>>)

FairHandlerSpec == HandlerSpec /\ Fairness

-----------------------------------------------------------------------------

HandlerTypeOK ==
    /\ TypeOK
    /\ cachedHandler \in [Handlers -> Addr \cup {Nil}]
    /\ cachedVersion \in [Handlers -> Addr \cup {Nil}]
    /\ at \in [Callers -> {"idle", "enabled", "lookup", "hit", "miss", "stored", "render"}]
    /\ via \in [Callers -> Handlers]
    /\ level \in [Callers -> RecordLevels]
    /\ cfg \in [Callers -> Addr]
    /\ base \in [Callers -> Addr]

\* One goroutine at most logs through h.
Private(h) == \A c, d \in Callers : (h \in Uses[c] /\ h \in Uses[d]) => c = d

(***************************************************************************)
(* One record, one configuration: the record leaves through a chain built  *)
(* from the very configuration that chose its stack, context and trace     *)
(* attributes (handler.go Handle).                                         *)
(***************************************************************************)
Coherent(c) == at[c] = "render" => base[c] = cfg[c]

(***************************************************************************)
(* A handler only one goroutine logs through renders every record with one *)
(* configuration, however many updates and other handlers run meanwhile.   *)
(***************************************************************************)
PrivateHandlersCoherent ==
    \A c \in Callers : Private(via[c]) => Coherent(c)

\* Every call in progress through h works for the configuration in force,
\* and the cache does not answer to it with a chain of another one.
Settled(h) ==
    /\ cachedVersion[h] = cfgPtr => cachedHandler[h] \in {cfgPtr, Nil}
    /\ \A c \in Callers :
          via[c] = h =>
            /\ at[c] \in {"lookup", "hit", "miss", "stored", "render"} => cfg[c] = cfgPtr
            /\ at[c] = "hit" => cachedHandler[h] \in {cfgPtr, Nil}
            /\ at[c] \in {"stored", "render"} => base[c] = cfgPtr
            /\ at[c] = "stored" => cachedHandler[h] = cfgPtr

(***************************************************************************)
(* The cache goes wrong only around an update: once a handler is settled   *)
(* on the configuration in force, no interleaving of log calls through it  *)
(* unsettles it until the next store to the pointer, and a settled handler *)
(* renders coherently (handler.go getOrBuildCachedHandler).                *)
(***************************************************************************)
SettledUntilUpdate ==
    [][\A h \in Handlers : (Settled(h) /\ UNCHANGED cfgPtr) => Settled(h)']_vars

(***************************************************************************)
(* Once updates stop, log calls eventually stop rebuilding the chain: the  *)
(* cache converges on hits, also under racing calls.                       *)
(***************************************************************************)
RebuildingStops == <>[](\A c \in Callers : at[c] # "miss")

(***************************************************************************)
(* Once updates stop, every record that still leaves passes the threshold  *)
(* in force: SetLevel takes effect for all loggers sharing the pointer.    *)
(***************************************************************************)
LevelTakesEffect ==
    <>[](\A c \in Callers : at[c] = "render" => level[c] >= Current.level)

(***************************************************************************)
(* Once updates stop, every record that leaves through a handler only one  *)
(* goroutine uses is rendered by a chain of the configuration in force:    *)
(* its format, output, masks and removals.                                 *)
(***************************************************************************)
UpdateTakesEffectOnPrivate ==
    <>[](\A c \in Callers :
            (at[c] = "render" /\ Private(via[c])) => base[c] = cfgPtr)

(***************************************************************************)
(* "Runtime configuration: change level, format (JSON/Text), masking, and  *)
(* removal without restart" (README.md): once updates stop, every record   *)
(* is masked and pruned by the entries in force, whoever shares a handler. *)
(***************************************************************************)
UpdateTakesEffect ==
    <>[](\A c \in Callers :
            at[c] = "render" => Content(base[c]).rules = Current.rules)

=============================================================================
