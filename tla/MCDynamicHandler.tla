-------------------------- MODULE MCDynamicHandler --------------------------
(***************************************************************************)
(* DynamicHandler with two goroutines that log through one handler, the    *)
(* second also through a handler it has derived for itself (With).         *)
(* Records are either at the lowest threshold or above every threshold.    *)
(***************************************************************************)
EXTENDS DynamicHandler, TLC

CONSTANTS c1, c2, hShared, hOwn, r1

MCLevels == {0, 4}
MCEdits == {"quiet", "mask r1"}
MCApply(e, c) ==
    IF e = "quiet" THEN [c EXCEPT !.level = 4] ELSE [c EXCEPT !.rules = {r1}]

MCRecordLevels == {0, 8}
MCUses == (c1 :> {hShared}) @@ (c2 :> {hShared, hOwn})

=============================================================================
