--------------------------- MODULE MCLevelServer ----------------------------
(***************************************************************************)
(* LevelServer with a request that may set a level while other code calls  *)
(* UpdateConfig.                                                           *)
(***************************************************************************)
EXTENDS LevelServer

MCLevels == {0, 4}
MCEdits == {"level 0", "level 4"}
MCSetLevel(l) == IF l = 0 THEN "level 0" ELSE "level 4"
MCApply(e, c) == [c EXCEPT !.level = IF e = "level 0" THEN 0 ELSE 4]
MCParseError == 1000
MCStrings == {[spells |-> "name", level |-> 4, padded |-> FALSE], Empty}

=============================================================================
