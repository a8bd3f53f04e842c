----------------------------- MODULE MaskRules ------------------------------
(***************************************************************************)
(* Which rule applies to a key, and what the four places that apply rules  *)
(* make of it: log attributes (handler.go getReplaceAttr), entries of a    *)
(* dump (dump.go), HTTP headers (payload_http.go) and gRPC metadata        *)
(* (payload_grpc.go).                                                      *)
(*                                                                         *)
(* A key is a path, the groups and then the name, each a sequence of       *)
(* words: "Auth.My-Token" is << <<"auth">>, <<"my", "token">> >> with the  *)
(* spelling "dashed".  Lower case and "_" are the normal spelling; any     *)
(* other use of upper case is "upper".  A padded name starts with a blank. *)
(***************************************************************************)
EXTENDS Naturals, Sequences, SequencesExt

CONSTANTS
    Words,        \* the words keys are made of
    Configs,      \* [mask, remove, masker]: rules and the Masker in use
    Names,        \* [words, spelling, padded]: names of attributes, entries...
    GroupPaths,   \* groups open when the attribute is logged
    MaskValues,   \* the values; one of them may be the like of a secret
    Sensitive,    \* defaultSensitiveHeaders, as [words, spelling]
    Detects(_)    \* Detects(v): what detectSecret sees in v, "none" if nothing

Path == Seq(Seq(Words))

\* Rules are entries of a map: one for a key in a spelling.
ASSUME RulesAreMaps ==
    /\ \A c \in Configs :
          /\ c = [mask |-> c.mask, remove |-> c.remove, masker |-> c.masker]
          /\ \A r \in c.mask : r.path \in Path /\ r.path # << >>
          /\ \A q, r \in c.mask : (q.path = r.path /\ q.spelling = r.spelling) => q.mask = r.mask
    /\ \A n \in Names : n.words \in Seq(Words) /\ n.padded \in BOOLEAN
    /\ GroupPaths \subseteq Path

Sites == {"log", "dump", "header", "metadata"}
Unseen == [removed |-> FALSE, masks |-> <<"unseen">>, panics |-> FALSE]

VARIABLES
    cfg,          \* the configuration
    name,         \* the name under which the value appears at every site
    groups,       \* the groups around it in the log
    value,        \* the value
    shown         \* what each site made of it

ruleVars == <<cfg, name, groups, value, shown>>

RulesInit ==
    /\ cfg \in Configs
    /\ name \in Names
    /\ groups \in GroupPaths
    /\ value \in MaskValues
    /\ shown = [s \in Sites |-> Unseen]

-----------------------------------------------------------------------------

\* A key as normalizeKey and ToLower(TrimSpace) leave it: the spelling with
\* the case gone, and a blank only where it is not at an end.
Key(before, n) ==
    [path |-> Append(before, n.words), blank |-> n.padded /\ before # <<>>,
     dashed |-> n.spelling = "dashed"]

\* keys[nk] holds rule: it was stored under its normal spelling.
IsNormalized(rule, key, path) ==
    /\ rule.spelling = "normal"
    /\ rule.path = path

\* keys[lower] holds rule: lower case, and dashes where the key has them.
IsLower(rule, key, path) ==
    /\ rule.spelling = IF key.dashed THEN "dashed" ELSE "normal"
    /\ rule.path = path

\* Mutant: only the parts between dots count as suffixes.
IsSuffixAfterDot(rule, key) == ~key.blank /\ IsSuffix(rule.path, key.path)

\* The loop over all rules: equal, or a suffix after a dot or an underscore.
IsSuffixOf(rule, key) ==
    LET start == Len(key.path) - Len(rule.path) + 1
    IN  /\ start >= 1
        /\ Tail(rule.path) = SubSeq(key.path, start + 1, Len(key.path))
        /\ IsSuffix(rule.path[1], key.path[start])
        /\ key.blank => start = Len(key.path) /\ rule.path[1] # key.path[start]

\* Mutant: the rules are ranged over before the map is asked.
lookupMaskRangeFirst(rules, key) ==
    {r.mask : r \in {q \in rules : IsSuffixOf(q, key)}}

\* The masks lookupMask may answer, none if there is no match: the lookups
\* find one rule each, the loop ends at whichever rule the map yields first.
lookupMask(rules, key) ==
    LET name1 == <<Last(key.path)>>
        exact == {q \in rules : ~key.blank /\ IsNormalized(q, key, key.path)}
        lower == {q \in rules : ~key.blank /\ IsLower(q, key, key.path)}
        dotted == {q \in rules : ~key.blank /\ IsNormalized(q, key, name1)}
        dottedLower == {q \in rules : ~key.blank /\ IsLower(q, key, name1)}
    IN  {r.mask : r \in IF exact # {} THEN exact
                        ELSE IF lower # {} THEN lower
                        ELSE IF dotted # {} THEN dotted
                        ELSE IF dottedLower # {} THEN dottedLower
                        ELSE {q \in rules : IsSuffixOf(q, key)}}

\* CorporateMasker.Mask retypes the generic masks when it detects a secret.
Mask(v, mask) ==
    IF cfg.masker = "corporate" /\ mask \in {"default", "secret", "token"} /\ Detects(v) # "none"
    THEN Detects(v) ELSE mask

Kept == [removed |-> FALSE, masks |-> <<>>, panics |-> FALSE]

RemovedOutcome == [Kept EXCEPT !.removed = TRUE]
MaskedAs(masks) == [Kept EXCEPT !.masks = masks]

Detection(v) == cfg.masker = "corporate" /\ Detects(v) # "none"

\* Mutant: the whole path is asked for, not the name in a group.
removesInLogWholeKey ==
    \E r \in cfg.remove : r.spelling = "normal" /\ r.path = Append(groups, name.words)

\* getReplaceAttr asks for the normal spelling of the path and of the name.
removesInLog ==
    \E r \in cfg.remove :
        /\ r.spelling = "normal"
        /\ \/ r.path = <<name.words>>
           \/ r.path = Append(groups, name.words) /\ ~Key(groups, name).blank

\* Elsewhere the normal spelling of the name, and the name as it is, blanks
\* included, in its own case (a dump) or in lower case (a payload).
removesName(spelling) ==
    \E r \in cfg.remove :
        /\ r.path = <<name.words>>
        /\ r.spelling = "normal" \/ (r.spelling = spelling /\ ~name.padded)

\* A log attribute: removal, mask, detection.  cfg.Masker is not tested.
LogAttr ==
    LET masks == lookupMask(cfg.mask, Key(groups, name))
    IN  \/ /\ removesInLog
           /\ shown' = [shown EXCEPT !["log"] = RemovedOutcome]
        \/ /\ ~removesInLog
           /\ \E m \in masks :
                 shown' = [shown EXCEPT !["log"] =
                              IF cfg.masker = "nil" THEN [Kept EXCEPT !.panics = TRUE]
                              ELSE MaskedAs(<<Mask(value, m)>>)]
        \/ /\ ~removesInLog /\ masks = {}
           /\ shown' = [shown EXCEPT !["log"] =
                           IF Detection(value) THEN MaskedAs(<<Detects(value)>>) ELSE Kept]

\* An entry of a dump, for the value v, which may hold masks already.
DumpOutcomes(v, before) ==
    LET masks == lookupMask(cfg.mask, Key(<<>>, name))
    IN  IF removesName(name.spelling) THEN {RemovedOutcome}
        ELSE IF masks # {} THEN {MaskedAs(before \o <<Mask(v, m)>>) : m \in masks}
        ELSE IF Detection(v) THEN {MaskedAs(before \o <<Detects(v)>>)}
        ELSE {MaskedAs(before)}

DumpEntry == \E o \in DumpOutcomes(value, <<>>) : shown' = [shown EXCEPT !["dump"] = o]

lowerSpelling == IF name.spelling = "upper" THEN "normal" ELSE name.spelling

IsSensitive ==
    /\ ~name.padded
    /\ \E h \in Sensitive : h.words = name.words /\ h.spelling = lowerSpelling

\* What sanitizeHeaders and sanitizeMetadata have in common: sensitive names,
\* masks, removal.
Sanitized(restOutcome) ==
    LET masks == lookupMask(cfg.mask, Key(<<>>, name))
    IN  IF IsSensitive THEN {MaskedAs(<<Mask(value, "secret")>>)}
        ELSE IF masks # {} THEN {MaskedAs(<<Mask(value, m)>>) : m \in masks}
        ELSE IF removesName(lowerSpelling) THEN {RemovedOutcome}
        ELSE {restOutcome}

\* sanitizeHeaders detects, and its result is dumped like any other map: the
\* key meets removal and the masks a second time, on the masked value.
HTTPHeader ==
    \E o \in Sanitized(IF Detection(value) THEN MaskedAs(<<Detects(value)>>) ELSE Kept) :
        \/ /\ o.removed
           /\ shown' = [shown EXCEPT !["header"] = o]
        \/ /\ ~o.removed
           /\ \E p \in DumpOutcomes(IF o.masks = <<>> THEN value ELSE "masked", o.masks) :
                 shown' = [shown EXCEPT !["header"] = p]

\* sanitizeMetadata detects nothing and its result is logged as it is.
GRPCMetadata == \E o \in Sanitized(Kept) : shown' = [shown EXCEPT !["metadata"] = o]

RulesNext ==
    /\ LogAttr \/ DumpEntry \/ HTTPHeader \/ GRPCMetadata
    /\ UNCHANGED <<cfg, name, groups, value>>

RulesSpec == RulesInit /\ [][RulesNext]_ruleVars

-----------------------------------------------------------------------------

Seen(site) == shown[site] # Unseen

\* Rules as the options register them.
Registered(rules) == {r \in rules : r.spelling = "normal"}

\* What a reader of masker.go expects a rule to cover: the name itself or one
\* that ends in it, however it is spelled.
Covers(rule, path) ==
    \/ rule.path = path
    \/ Len(rule.path) = 1 /\ IsSuffix(rule.path[1], Last(path))

PathAt(site) == IF site = "log" THEN Append(groups, name.words) ELSE <<name.words>>

Secret(s) == s # "metadata" /\ cfg.masker = "corporate" /\ Detects(value) # "none"

(***************************************************************************)
(* "case-insensitive match at apply time" (masker.go Add) and              *)
(* "auto-detection ... even when keys are not pre-registered" (masker.go   *)
(* CorporateMasker): a value under a key that a registered rule covers, or *)
(* one like a secret, never appears as it is, at any site, in any group,   *)
(* in any spelling.  A blank before a name that is in a group hides the    *)
(* name from the rules, and metadata is not examined for secrets.          *)
(***************************************************************************)
NeverPlain ==
    \A s \in Sites :
        ( /\ Seen(s)
          /\ \/ Secret(s)
             \/ /\ \E r \in Registered(cfg.mask) : Covers(r, PathAt(s))
                /\ ~(s = "log" /\ name.padded /\ groups # <<>>) )
            => shown[s].removed \/ shown[s].panics \/ shown[s].masks # <<>>

(***************************************************************************)
(* A rule registered for exactly this name decides, although rules for     *)
(* suffixes of it exist; only among suffixes is the mask up to the order   *)
(* of a map (masker.go lookupMask).                                        *)
(***************************************************************************)
ExactRuleDecides ==
    \A s \in Sites, r \in Registered(cfg.mask) :
        (Seen(s) /\ r.path = PathAt(s) /\ shown[s].masks # <<>> /\ ~(s = "log" /\ name.padded))
            => \/ Head(shown[s].masks) = Mask(value, r.mask)
               \/ IsSensitive /\ s \in {"header", "metadata"}

(***************************************************************************)
(* A removal rule for a name wins over masks in log attributes, dumps and  *)
(* headers, whichever of the two the site applies first.                   *)
(***************************************************************************)
RemovalWins ==
    \A s \in Sites \ {"metadata"} :
        (Seen(s) /\ \E r \in Registered(cfg.remove) : r.path = <<name.words>>) => shown[s].removed

=============================================================================
