--------------------------- MODULE ContextLogger ----------------------------
(***************************************************************************)
(* How a program gets hold of a logger: SetupDefault, With, ToContext and  *)
(* FromContext with its fallbacks (context.go, logger.go), by goroutines   *)
(* that run while slog's default logger is replaced.                       *)
(*                                                                         *)
(* A Logger is a record of the handler that writes its records, named by   *)
(* the configuration pointer that handler reads, of the pointer its own    *)
(* SetLevel and UpdateConfig act on, and of what its exitFunc does.        *)
(***************************************************************************)
EXTENDS Naturals

CONSTANTS
    Callers,      \* goroutines with a context each
    Plain,        \* no configuration: a handler that is not a DynamicHandler
    MaxSetups     \* bound: how often SetupDefault is called

ASSUME MaxSetupsNat == MaxSetups \in Nat

VARIABLES
    default,      \* the handler of slog.Default()
    setups,       \* configurations made by SetupDefault are 1 .. setups
    at,           \* where each caller stands
    seen,         \* the handler its FromContext has type-asserted
    got,          \* the Logger each caller holds
    ctx,          \* the Logger in each caller's context, None if none
    fatal,        \* what FatalContext did to each caller, after logging
    replaced      \* history: default was set since a caller's type assertion

contextVars == <<default, setups, at, seen, got, ctx, fatal, replaced>>

Logger(handler, cfg, exit, raced) ==
    [handler |-> handler, cfg |-> cfg, exit |-> exit, raced |-> raced]

None == Logger(Plain, Plain, "none", FALSE)

ContextInit ==
    /\ default = Plain
    /\ setups = 0
    /\ at = [c \in Callers |-> "idle"]
    /\ seen = [c \in Callers |-> Plain]
    /\ got = [c \in Callers |-> None]
    /\ ctx = [c \in Callers |-> None]
    /\ fatal = [c \in Callers |-> "no"]
    /\ replaced = [c \in Callers |-> FALSE]

-----------------------------------------------------------------------------

\* slog.SetDefault(h): whoever is between the two loads of FromContext is
\* overtaken, whichever handler it is.
SetDefault(h) ==
    /\ default' = h
    /\ replaced' = [c \in Callers |-> replaced[c] \/ at[c] = "wrap"]

\* SetupDefault and MustDefault: New, then slog.SetDefault.
SetupDefault(c) ==
    /\ at[c] = "idle"
    /\ setups < MaxSetups
    /\ setups' = setups + 1
    /\ SetDefault(setups + 1)
    /\ got' = [got EXCEPT ![c] = Logger(setups + 1, setups + 1, "exits", FALSE)]
    /\ UNCHANGED <<at, seen, ctx, fatal>>

\* Other code installs a slog logger of its own, or one of slogx's once more.
SetDefaultElsewhere ==
    /\ \E h \in {Plain} \cup 1 .. setups : SetDefault(h)
    /\ UNCHANGED <<setups, at, seen, got, ctx, fatal>>

ToContext(c) ==
    /\ at[c] = "idle"
    /\ got[c] # None
    /\ ctx' = [ctx EXCEPT ![c] = got[c]]
    /\ UNCHANGED <<default, setups, at, seen, got, fatal, replaced>>

\* The context comes with the call: another goroutine's, or one with nothing.
ReceiveContext(c, l) ==
    /\ at[c] = "idle"
    /\ ctx' = [ctx EXCEPT ![c] = l]
    /\ UNCHANGED <<default, setups, at, seen, got, fatal, replaced>>

FromContextHit(c) ==
    /\ at[c] = "idle"
    /\ ctx[c] # None
    /\ got' = [got EXCEPT ![c] = ctx[c]]
    /\ UNCHANGED <<default, setups, at, seen, ctx, fatal, replaced>>

\* slog.Default().Handler().(*DynamicHandler)
FromContextAssert(c) ==
    /\ at[c] = "idle"
    /\ ctx[c] = None
    /\ at' = [at EXCEPT ![c] = "wrap"]
    /\ seen' = [seen EXCEPT ![c] = default]
    /\ UNCHANGED <<default, setups, got, ctx, fatal, replaced>>

\* exitFunc is func(int) {} when slogx's handler was found, else nil.
FallbackExit(handler) == IF handler = Plain THEN "panics" ELSE "returns"

\* The wrapper, around a second slog.Default().  FromContext then returns, and
\* what it has seen is forgotten with it.
FromContextWrap(c) ==
    /\ at[c] = "wrap"
    /\ at' = [at EXCEPT ![c] = "idle"]
    /\ got' = [got EXCEPT ![c] =
                  Logger(default, seen[c], FallbackExit(seen[c]), replaced[c])]
    /\ seen' = [seen EXCEPT ![c] = Plain]
    /\ replaced' = [replaced EXCEPT ![c] = FALSE]
    /\ UNCHANGED <<default, setups, ctx, fatal>>

\* Mutant: With copies the slog logger and forgets the configuration.
DerivedUncontrolled(l) == Logger(l.handler, Plain, l.exit, l.raced)

\* Mutant: With copies the slog logger and the configuration only.
DerivedUnexiting(l) == Logger(l.handler, l.cfg, "panics", l.raced)

\* What With and WithGroup keep of a logger.
Derived(l) == l

With(c) ==
    /\ at[c] = "idle"
    /\ got[c] # None
    /\ got' = [got EXCEPT ![c] = Derived(got[c])]
    /\ UNCHANGED <<default, setups, at, seen, ctx, fatal, replaced>>

\* FatalContext; the process, or the goroutine at least, ends or goes on.
FatalContext(c) ==
    /\ at[c] = "idle"
    /\ got[c] # None
    /\ at' = [at EXCEPT ![c] = IF got[c].exit = "returns" THEN "idle" ELSE "ended"]
    /\ fatal' = [fatal EXCEPT ![c] = got[c].exit]
    /\ UNCHANGED <<default, setups, seen, got, ctx, replaced>>

ContextNext ==
    \/ SetDefaultElsewhere
    \/ \E c \in Callers :
          \/ SetupDefault(c)
          \/ ToContext(c)
          \/ \E l \in {None} \cup {ctx[d] : d \in Callers} : ReceiveContext(c, l)
          \/ FromContextHit(c)
          \/ FromContextAssert(c)
          \/ FromContextWrap(c)
          \/ With(c)
          \/ FatalContext(c)

ContextSpec == ContextInit /\ [][ContextNext]_contextVars

-----------------------------------------------------------------------------

Configurations == {Plain} \cup 1 .. MaxSetups
Loggers == [handler : Configurations, cfg : Configurations,
            exit : {"none", "exits", "returns", "panics"}, raced : BOOLEAN]

ContextTypeOK ==
    /\ default \in Configurations
    /\ setups \in 0 .. MaxSetups
    /\ at \in [Callers -> {"idle", "wrap", "ended"}]
    /\ seen \in [Callers -> Configurations]
    /\ got \in [Callers -> Loggers]
    /\ ctx \in [Callers -> Loggers]
    /\ replaced \in [Callers -> BOOLEAN]
    /\ fatal \in [Callers -> {"no", "exits", "returns", "panics"}]
    /\ \A c \in Callers : fatal[c] \in {"exits", "panics"} => at[c] = "ended"

(***************************************************************************)
(* SetLevel and UpdateConfig of a logger act on the configuration its own  *)
(* records are written with, or on none, through every chain of With,      *)
(* ToContext and FromContext, unless slog's default was replaced between   *)
(* the two loads of a FromContext (context.go, logger.go With).            *)
(***************************************************************************)
ControlsItselfUnlessRaced ==
    \A c \in Callers : got[c].raced \/ got[c].cfg = got[c].handler

(***************************************************************************)
(* FatalContext ends in a panic, its exitFunc being nil, only for a logger *)
(* whose records go to a handler that is not slogx's, through every chain  *)
(* of With, ToContext and FromContext; or for one made by a FromContext    *)
(* between the two loads of which slog's default was replaced, which then  *)
(* writes with slogx's handler and panics all the same (context.go         *)
(* FromContext, logger.go FatalContext).                                   *)
(***************************************************************************)
FatalPanicsOnlyForeign ==
    \A c \in Callers : fatal[c] = "panics" => got[c].handler = Plain \/ got[c].raced

=============================================================================
