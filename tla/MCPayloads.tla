----------------------------- MODULE MCPayloads ------------------------------
(***************************************************************************)
(* What is done to the values of a record and to the bodies of messages:   *)
(* MaskRules, MaskShapes and HttpPayload side by side.  They share no      *)
(* state, so a behaviour is one of one of them, named by part, in which    *)
(* the other two stay as they are.                                         *)
(*                                                                         *)
(* "rules": a handful of rules on the words "my", "api" and "key", for a   *)
(* name, for its suffixes, for a name in a group, rules stored by hand in  *)
(* other spellings, and names in every spelling.                           *)
(* "shapes": card numbers of three and four digits in place of 13 to 19,   *)
(* which the Luhn test treats alike, values of up to 36 characters, JWTs   *)
(* with parts of up to 10 bytes, and ints of eleven bits.                  *)
(* "bodies": limits of 2 and 4 bytes or the default of 3, bodies around    *)
(* each of them, up to two middlewares, and dumps that have fields for all *)
(* of the payload, for some of it or for none, or hide a part of it.       *)
(***************************************************************************)
EXTENDS MaskRules, MaskShapes, HttpPayload

VARIABLE part   \* the module this behaviour is one of

payloadsVars == <<part, ruleVars, shapeVars, payloadVars>>

MaskRule(path, mask, spelling) == [path |-> path, mask |-> mask, spelling |-> spelling]
RemoveRule(path, spelling) == [path |-> path, spelling |-> spelling]

MCWords == {"my", "api", "key", "auth", "note"}
ApiKey == <<"api", "key">>
MaskSets ==
    {{}, {MaskRule(<<ApiKey>>, "hash", "normal")},
     {MaskRule(<<ApiKey>>, "secret", "normal"), MaskRule(<< <<"key">> >>, "partial", "normal")},
     {MaskRule(<< <<"key">> >>, "token", "normal"), MaskRule(<< <<"auth">>, ApiKey>>, "hash", "normal")},
     {MaskRule(<<ApiKey>>, "token", "dashed"), MaskRule(<< <<"key">> >>, "partial", "upper")}}

RemoveSets == {{}, {RemoveRule(<<ApiKey>>, "normal")}, {RemoveRule(<<ApiKey>>, "dashed")},
               {RemoveRule(<< <<"auth">>, ApiKey>>, "normal")}}

MCConfigs == [mask : MaskSets, remove : RemoveSets, masker : {"default", "corporate", "nil"}]

MCNames == [words : {ApiKey, <<"my", "api", "key">>, <<"note">>},
            spelling : {"normal", "dashed", "upper"}, padded : BOOLEAN]
MCGroupPaths == {<<>>, << <<"auth">> >>}
MCValues == {"plain", "jwt"}
MCDetects(v) == IF v = "jwt" THEN "jwt" ELSE "none"
MCSensitive == {[words |-> <<"x", "api", "key">>, spelling |-> "dashed"],
                [words |-> ApiKey, spelling |-> "dashed"]}

MCDigits == 0 .. 9
MCIntMin == -1024

MCLengths == 0 .. 6
Setting(f, b, d, hidden) == [fields |-> f, budget |-> b, depth |-> d, hidden |-> hidden]
MCSettings ==
    {Setting(-1, -1, 3, {}), Setting(1, 1, 3, {}), Setting(2, 2, 3, {}), Setting(1, 4, 3, {}),
     Setting(2, 6, 3, {}), Setting(1, 4, 1, {}), Setting(1, 6, 0, {}),
     Setting(1, 6, 3, {"body_truncated", "headers"}), Setting(2, 6, 3, {"body"})}
MCHeaderFields == {0, 2}

\* What the parts that do not run look like.
RulesRest ==
    /\ cfg = [mask |-> {}, remove |-> {}, masker |-> "default"]
    /\ name = [words |-> ApiKey, spelling |-> "normal", padded |-> FALSE]
    /\ groups = <<>>
    /\ value = "plain"
    /\ shown = [s \in Sites |-> Unseen]
ShapesRest == call = [fn |-> "none"] /\ result = Pending
BodiesRest ==
    kind = "request" /\ sent = NoBody /\ body = NoBody /\ logs = <<>> /\ received = -1

MCInit ==
    \/ part = "rules" /\ RulesInit /\ ShapesRest /\ BodiesRest
    \/ part = "shapes" /\ RulesRest /\ ShapesInit /\ BodiesRest
    \/ part = "bodies" /\ RulesRest /\ ShapesRest /\ PayloadInit

MCNext ==
    /\ UNCHANGED part
    /\ \/ part = "rules" /\ RulesNext /\ UNCHANGED <<shapeVars, payloadVars>>
       \/ part = "shapes" /\ Return /\ UNCHANGED <<ruleVars, payloadVars>>
       \/ part = "bodies" /\ PayloadNext /\ UNCHANGED <<ruleVars, shapeVars>>

MCSpec == MCInit /\ [][MCNext]_payloadsVars

=============================================================================
