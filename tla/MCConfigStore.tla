--------------------------- MODULE MCConfigStore ----------------------------
(***************************************************************************)
(* ConfigStore on a small instance: two thresholds, two map entries, and   *)
(* callers that set the level, add an entry, or do both at once as         *)
(* examples/runtime_config does.                                           *)
(***************************************************************************)
EXTENDS ConfigStore

CONSTANTS r1, r2

MCLevels == {0, 4}
MCRules == {r1, r2}
MCEdits == {"verbose", "mask r1", "mask r2", "quiet and mask r1"}

MCApply(e, c) ==
    CASE e = "verbose" -> [c EXCEPT !.level = 0]
      [] e = "mask r1" -> [c EXCEPT !.rules = @ \cup {r1}]
      [] e = "mask r2" -> [c EXCEPT !.rules = @ \cup {r2}]
      [] e = "quiet and mask r1" -> [level |-> 4, rules |-> c.rules \cup {r1}]

=============================================================================
