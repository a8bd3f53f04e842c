------------------------------ MODULE MCDumps -------------------------------
(***************************************************************************)
(* What becomes of a dumped value: MCDumpOptions, where dumps share maps   *)
(* with a logger, and MCDumpSerialize, the walk of one of them, side by    *)
(* side.  They share no state, so a behaviour is one of one of them, named *)
(* by part, in which the other stays as it is.                             *)
(***************************************************************************)
EXTENDS MCDumpOptions, MCDumpSerialize

VARIABLE part   \* the module this behaviour is one of

dumpsVars == <<part, storeVars, dumpVars, serializeVars>>

\* What the part that does not run looks like; the walk is over.
OptionsRest == DumpInit /\ \A a \in Addr : maps[a] = {}
WalkRest ==
    /\ graph = Addressed(<<Leaf, Leaf, Leaf>>, <<1, 2, 3>>) /\ limits = Limit(0, 1)
    /\ todo = <<>> /\ fields = 1 /\ visited = {} /\ out = {[path |-> <<>>, mark |-> "type"]}

MCInit ==
    \/ part = "options" /\ DumpInit /\ WalkRest
    \/ part = "walk" /\ OptionsRest /\ SerializeInit

MCNext ==
    /\ UNCHANGED part
    /\ \/ part = "options" /\ DumpNext /\ UNCHANGED serializeVars
       \/ part = "walk" /\ SerializeNext /\ UNCHANGED <<storeVars, dumpVars>>

\* The walk goes on while it can, as in FairSerializeSpec.
MCSpec ==
    /\ MCInit /\ [][MCNext]_dumpsVars
    /\ WF_serializeVars(part = "walk" /\ SerializeNext)

=============================================================================
