--------------------------- MODULE ConfigRegister ---------------------------
(***************************************************************************)
(* What a slogx logger promises about its configuration, without saying    *)
(* how: one configuration is in force, and updates replace it.             *)
(*                                                                         *)
(* Two promises are stated.  AtomicSpec is the strong one: every update is *)
(* its function applied to the configuration in force.  LastWriterSpec is  *)
(* the weak one: an update may start from a configuration that has since   *)
(* been replaced, and then silently undoes what replaced it.               *)
(***************************************************************************)
EXTENDS Integers

CONSTANTS
    Levels,   \* the slog.Level thresholds in use
    Rules     \* what the maps of a Config hold: mask, removal, name entries

\* options.go Config, as far as the properties tell configurations apart: a
\* field copied by value and the contents of the fields held by reference.
Config == [level : Levels, rules : SUBSET Rules]

CONSTANTS
    Edits,         \* the functions callers hand to UpdateConfig
    Apply(_, _)    \* Apply(e, c): what function e makes of configuration c

VARIABLES
    config,       \* the configuration in force
    past          \* every configuration that has been in force

registerVars == <<config, past>>

Init ==
    /\ config \in Config
    /\ past = {config}

\* Replace the configuration in force by edit e of configuration c.
Replace(e, c) ==
    /\ config' = Apply(e, c)
    /\ past' = past \cup {config'}

AtomicUpdate == \E e \in Edits : Replace(e, config)

LastWriterUpdate == \E e \in Edits : \E c \in past : Replace(e, c)

AtomicSpec == Init /\ [][AtomicUpdate]_registerVars

LastWriterSpec == Init /\ [][LastWriterUpdate]_registerVars

=============================================================================
