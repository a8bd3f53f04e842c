--------------------------- MODULE MCLevelControl ----------------------------
(***************************************************************************)
(* LevelControl with a request that races with a watcher of an environment *)
(* variable.                                                               *)
(***************************************************************************)
EXTENDS LevelControl

MCLevels == {0, 4}
MCEdits == {"level 0", "level 4"}
MCSetLevel(l) == IF l = 0 THEN "level 0" ELSE "level 4"
MCApply(e, c) == [c EXCEPT !.level = IF e = "level 0" THEN 0 ELSE 4]

Word(l) == [spells |-> "name", level |-> l, padded |-> FALSE]
PaddedNumber(l) == [spells |-> "number", level |-> l, padded |-> TRUE]
MCParseError == 1000

MCStrings == {Word(0), PaddedNumber(4), Empty}

=============================================================================
