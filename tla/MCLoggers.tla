------------------------------ MODULE MCLoggers ------------------------------
(***************************************************************************)
(* How loggers come about: LoggerOptions, DerivedLoggers and ContextLogger *)
(* side by side.  They share no state here, so a behaviour is one of one   *)
(* of them, named by part, in which the other two stay as they are.        *)
(*                                                                         *)
(* "options": two keys and two strategies, the corporate rules covering    *)
(* one key, a level that has a name by default, one RemovalSet with one    *)
(* key.  "removal": RemovalSets alone, three of up to four keys.           *)
(* "derived": trees of up to four handlers.  An error logged with Error    *)
(* has two frames of slog above the program, one logged with FatalContext  *)
(* two of slog and one of slogx, one handed to Handle by a handler of the  *)
(* program none.                                                           *)
(* "context": two goroutines that exchange contexts while slog's default   *)
(* is replaced by two set-ups and by a logger of other code.               *)
(***************************************************************************)
EXTENDS LoggerOptions, DerivedLoggers, ContextLogger

VARIABLE part   \* the module this behaviour is one of

loggersVars == <<part, optionVars, derivedVars, contextVars>>

MCNames == {"password", "user"}
MCLevelNames == "FATAL" :> "FATAL"
MCCorporateRules == "password" :> "secret"
MCLimits == {-1, 0, 7}

MCConfigs ==
    {[traceContext |-> FALSE, contextKeys |-> {}, stackOnError |-> TRUE, stackDepth |-> 1],
     [traceContext |-> TRUE, contextKeys |-> {"request_id"}, stackOnError |-> TRUE, stackDepth |-> 4],
     [traceContext |-> FALSE, contextKeys |-> {"request_id"}, stackOnError |-> FALSE, stackDepth |-> 32]}

MCContexts == {[values |-> {"request_id"}, span |-> "none"],
               [values |-> {"request_id"}, span |-> "unsampled"],
               [values |-> {}, span |-> "sampled"]}

MCFrames == {"runtime", "slog", "slogx", "main.Handle", "main.work", "main.main"}

Call(level, frames) == [level |-> level, attrs |-> {"record"}, frames |-> frames]

MCCalls == {Call(0, <<"slog", "slog", "main.work">>),
            Call(8, <<"slog", "slog", "main.work", "main.main", "runtime">>),
            Call(12, <<"slog", "slog", "slogx", "main.work", "main.main", "runtime">>),
            Call(8, <<"main.Handle", "slog", "slog", "main.work", "runtime">>)}

\* What the parts that do not run look like.
OptionsRest ==
    /\ heap = <<defaultLevelNames, <<>>>>
    /\ arrays = << <<"user", NoKey>> >>
    /\ sets = <<>> /\ given = <<>> /\ loggers = <<>>
DerivedRest ==
    /\ cfg = CHOOSE c \in Configs : TRUE
    /\ mem = << <<>> >>
    /\ handlers = << [attrs |-> Slice(1, 0), groups |-> Slice(1, 0)] >>
    /\ ops = << <<>> >>
    /\ logged = NoRecord
ContextRest == ContextInit

MCInit ==
    \/ part \in {"options", "removal"} /\ OptionsInit /\ DerivedRest /\ ContextRest
    \/ part = "derived" /\ OptionsRest /\ DerivedInit /\ ContextRest
    \/ part = "context" /\ OptionsRest /\ DerivedRest /\ ContextInit

MCNext ==
    /\ UNCHANGED part
    /\ \/ /\ part = "options" /\ OptionsNext
          /\ Len(sets') <= 1 /\ \A i \in DOMAIN sets' : sets'[i].len <= 1
          /\ UNCHANGED <<derivedVars, contextVars>>
       \/ /\ part = "removal" /\ RemovalSetNext
          /\ UNCHANGED <<derivedVars, contextVars>>
       \/ /\ part = "derived" /\ DerivedNext
          /\ UNCHANGED <<optionVars, contextVars>>
       \/ /\ part = "context" /\ ContextNext
          /\ UNCHANGED <<optionVars, derivedVars>>

MCSpec == MCInit /\ [][MCNext]_loggersVars

=============================================================================
