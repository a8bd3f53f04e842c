--------------------------- MODULE MCDumpOptions ----------------------------
(***************************************************************************)
(* Instance of DumpOptions: one updater, dumps whose options give one key  *)
(* two different masks, or a key the configuration does not have.          *)
(***************************************************************************)
EXTENDS DumpOptions

Rule(k, t) == [key |-> k, type |-> t]

MCLevels == {0}
MCRules == {Rule("token", "full"), Rule("token", "partial"), Rule("note", "remove")}
MCOptionSets == {{Rule("token", "partial"), Rule("note", "remove")}, {Rule("token", "full")}}

\* The function given to UpdateConfig registers the token rule.
MCEdits == {"maskToken"}
MCApply(e, c) ==
    [c EXCEPT !.rules = {r \in @ : r.key # "token"} \cup {Rule("token", "full")}]

=============================================================================
