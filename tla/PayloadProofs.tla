--------------------------- MODULE PayloadProofs ---------------------------
(***************************************************************************)
(* What holds of a masked payload for any rules, values and lengths: the   *)
(* rule that decides about a value (MaskRules), what a mask keeps of it    *)
(* and what the loops over digits compute (MaskShapes), and the bodies     *)
(* that middlewares read (HttpPayload).                                    *)
(***************************************************************************)
EXTENDS MaskRules, MaskShapes, HttpPayload, SequenceLemmas, FiniteSetTheorems

-----------------------------------------------------------------------------
(***************************************************************************)
(* Which rule applies (MaskRules), for any rules, names, groups and        *)
(* detection of secrets.                                                   *)
(***************************************************************************)
Covered(s) ==
    /\ \E r \in Registered(cfg.mask) : Covers(r, PathAt(s))
    /\ ~(s = "log" /\ name.padded /\ groups # <<>>)

\* What the three invariants say of the outcome o at site s.
Hidden(s, o) == (Secret(s) \/ Covered(s)) => o.removed \/ o.panics \/ o.masks # <<>>
Decided(s, o) ==
    \A r \in Registered(cfg.mask) :
        (r.path = PathAt(s) /\ o.masks # <<>> /\ ~(s = "log" /\ name.padded))
            => \/ Head(o.masks) = Mask(value, r.mask)
               \/ IsSensitive /\ s \in {"header", "metadata"}
RemovedOK(s, o) ==
    (s # "metadata" /\ \E r \in Registered(cfg.remove) : r.path = <<name.words>>) => o.removed
OutcomeOK(s, o) == Hidden(s, o) /\ Decided(s, o) /\ RemovedOK(s, o)

(***************************************************************************)
(* The inductive invariant: what a site shows does not depend on what the  *)
(* others have shown, and the rules do not change.                         *)
(***************************************************************************)
RulesInv ==
    /\ cfg \in Configs /\ name \in Names /\ groups \in GroupPaths
    /\ DOMAIN shown = Sites
    /\ \A s \in Sites : Seen(s) => OutcomeOK(s, shown[s])

LEMMA RulesTyped ==
    ASSUME RulesInv
    PROVE  /\ \A r \in cfg.mask : r.path \in Path /\ r.path # << >>
           /\ \A q, r \in cfg.mask : (q.path = r.path /\ q.spelling = r.spelling) => q.mask = r.mask
           /\ name.words \in Seq(Words) /\ name.padded \in BOOLEAN
           /\ groups \in Path /\ << >> \in Path
           /\ \A before \in Path : Append(before, name.words) \in Path
BY RulesAreMaps DEF RulesInv, Path

\* The key under which the rules are asked: its name is its last part.
LEMMA KeyFacts ==
    ASSUME RulesInv, NEW before \in Path
    PROVE  /\ Key(before, name).path = Append(before, name.words)
           /\ Key(before, name).path \in Path
           /\ Len(Key(before, name).path) = Len(before) + 1 /\ Len(before) \in Nat
           /\ Last(Key(before, name).path) = name.words
           /\ Key(before, name).path[Len(before) + 1] = name.words
           /\ Key(before, name).blank <=> name.padded /\ before # << >>
<1>1. Key(before, name).path = Append(before, name.words)
      /\ (Key(before, name).blank <=> name.padded /\ before # << >>)
  BY DEF Key
<1>2. name.words \in Seq(Words) /\ Append(before, name.words) \in Path
  BY RulesTyped
<1>3. PICK p : p = Append(before, name.words)
  OBVIOUS
<1>4. Len(p) = Len(before) + 1 /\ Len(before) \in Nat /\ p[Len(before) + 1] = name.words
  BY <1>2, <1>3 DEF Path
<1>5. Last(p) = name.words
  BY <1>4 DEF Last
<1> QED
  BY <1>1, <1>2, <1>3, <1>4, <1>5

\* A registered rule for the key, or for a suffix of its name, is found.
LEMMA CoveredIsFound ==
    ASSUME RulesInv, NEW before \in Path, ~(name.padded /\ before # << >>),
           NEW r \in Registered(cfg.mask), Covers(r, Append(before, name.words))
    PROVE  lookupMask(cfg.mask, Key(before, name)) # {}
<1> DEFINE key == Key(before, name)
           exact == {q \in cfg.mask : ~key.blank /\ IsNormalized(q, key, key.path)}
           suffixes == {q \in cfg.mask : IsSuffixOf(q, key)}
<1>1. /\ key.path = Append(before, name.words) /\ ~key.blank
      /\ Last(key.path) = name.words
      /\ Len(key.path) = Len(before) + 1 /\ Len(before) \in Nat
      /\ key.path[Len(before) + 1] = name.words /\ key.path \in Path
  BY KeyFacts
<1>2. r \in cfg.mask /\ r.spelling = "normal" /\ r.path \in Path /\ r.path # << >>
  BY RulesTyped DEF Registered
<1> HIDE DEF key
<1>3. CASE r.path = key.path
  <2>1. r \in exact
    BY <1>1, <1>2, <1>3 DEF IsNormalized
  <2> QED BY <2>1 DEF lookupMask, key
<1>4. CASE Len(r.path) = 1 /\ IsSuffix(r.path[1], name.words)
  <2>1. PICK n \in Nat : n = Len(key.path) /\ n = Len(before) + 1
    BY <1>1
  <2>2. n - 1 + 1 = n /\ n >= 1
    BY <1>1, <2>1
  <2>3. Tail(r.path) = << >>
    <3>1. PICK p \in Path : p = r.path /\ p # << >> /\ Len(p) = 1
      BY <1>2, <1>4
    <3>2. Tail(p) \in Path /\ Len(Tail(p)) = 0
      BY <3>1, HeadTailProperties DEF Path
    <3>3. Tail(p) = << >>
      BY <3>2, EmptySeq DEF Path
    <3> QED BY <3>1, <3>3
  <2>4. SubSeq(key.path, n + 1, n) = << >>
    BY <1>1, <2>1
  <2>5. r \in suffixes
    BY <1>1, <1>2, <1>4, <2>1, <2>2, <2>3, <2>4 DEF IsSuffixOf
  <2> QED BY <2>5 DEF lookupMask, key
<1> QED
  BY <1>1, <1>3, <1>4 DEF Covers

\* A rule registered for exactly this key decides.
LEMMA ExactIsFound ==
    ASSUME RulesInv, NEW before \in Path, ~(name.padded /\ before # << >>),
           NEW r \in Registered(cfg.mask), r.path = Append(before, name.words)
    PROVE  lookupMask(cfg.mask, Key(before, name)) = {r.mask}
<1> DEFINE key == Key(before, name)
           exact == {q \in cfg.mask : ~key.blank /\ IsNormalized(q, key, key.path)}
<1>1. key.path = Append(before, name.words) /\ ~key.blank
  BY KeyFacts
<1>2. r \in cfg.mask /\ r.spelling = "normal"
  BY DEF Registered
<1> HIDE DEF key
<1>3. r \in exact /\ \A q \in exact : q.mask = r.mask
  BY <1>1, <1>2, RulesTyped DEF IsNormalized
<1>4. lookupMask(cfg.mask, key) = {q.mask : q \in exact}
  BY <1>3 DEF lookupMask
<1> QED
  BY <1>3, <1>4 DEF key

\* What one site makes of the name does not touch what another has shown.
LEMMA SiteShows ==
    ASSUME RulesInv, UNCHANGED <<cfg, name, groups, value>>, NEW site \in Sites, NEW o,
           shown' = [shown EXCEPT ![site] = o], OutcomeOK(site, o)
    PROVE  RulesInv'
<1>1. DOMAIN shown' = Sites /\ shown'[site] = o
      /\ \A s \in Sites : s # site => shown'[s] = shown[s]
  BY DEF RulesInv
<1>2. \A s \in Sites : (shown'[s] # Unseen) => OutcomeOK(s, shown'[s])
  BY <1>1 DEF RulesInv, Seen
<1>3. \A s \in Sites : OutcomeOK(s, shown'[s]) => OutcomeOK(s, shown[s])'
  BY DEF OutcomeOK, Hidden, Decided, RemovedOK, Secret, Covered, PathAt, Mask, IsSensitive,
         lowerSpelling
<1> QED
  BY <1>1, <1>2, <1>3 DEF RulesInv, Seen

\* An outcome that is removed, and one whose only mask is the one looked up.
LEMMA RemovedIsOK ==
    ASSUME NEW s \in Sites
    PROVE  OutcomeOK(s, RemovedOutcome)
<1>1. RemovedOutcome.removed /\ RemovedOutcome.masks = << >>
  BY DEF RemovedOutcome, Kept
<1> QED
  BY <1>1 DEF OutcomeOK, Hidden, Decided, RemovedOK

LEMMA LogAttrPreserves ==
    ASSUME RulesInv, LogAttr, UNCHANGED <<cfg, name, groups, value>>
    PROVE  RulesInv'
<1> DEFINE masks == lookupMask(cfg.mask, Key(groups, name))
<1> SUFFICES ASSUME NEW o, shown' = [shown EXCEPT !["log"] = o],
                    \/ removesInLog /\ o = RemovedOutcome
                    \/ /\ ~removesInLog
                       /\ \E m \in masks :
                             \/ cfg.masker = "nil" /\ o = [Kept EXCEPT !.panics = TRUE]
                             \/ cfg.masker # "nil" /\ o = MaskedAs(<<Mask(value, m)>>)
                    \/ /\ ~removesInLog /\ masks = {}
                       /\ o = IF Detection(value) THEN MaskedAs(<<Detects(value)>>) ELSE Kept
             PROVE  OutcomeOK("log", o)
  BY SiteShows DEF LogAttr, Sites
<1>1. groups \in Path /\ PathAt("log") = Append(groups, name.words)
  BY RulesTyped DEF PathAt
<1>2. CASE removesInLog /\ o = RemovedOutcome
  BY <1>2, RemovedIsOK DEF Sites
<1>3. ASSUME ~removesInLog PROVE RemovedOK("log", o)
  BY <1>3 DEF RemovedOK, removesInLog, Registered
<1>4. ASSUME NEW m \in masks, ~removesInLog, o = [Kept EXCEPT !.panics = TRUE]
      PROVE  OutcomeOK("log", o)
  <2>1. o.panics /\ o.masks = << >>
    BY <1>4 DEF Kept
  <2> QED BY <1>3, <1>4, <2>1 DEF OutcomeOK, Hidden, Decided
<1>5. ASSUME NEW m \in masks, ~removesInLog, o = MaskedAs(<<Mask(value, m)>>)
      PROVE  OutcomeOK("log", o)
  <2>1. o.masks = <<Mask(value, m)>>
    BY <1>5 DEF MaskedAs, Kept
  <2>2. o.masks # << >> /\ Head(o.masks) = Mask(value, m)
    BY <2>1
  <2>3. \A r \in Registered(cfg.mask) :
            (r.path = PathAt("log") /\ ~name.padded) => m = r.mask
    BY <1>1, <1>5, ExactIsFound
  <2> QED BY <1>3, <1>5, <2>2, <2>3 DEF OutcomeOK, Hidden, Decided
<1>6. ASSUME ~removesInLog, masks = {},
             o = IF Detection(value) THEN MaskedAs(<<Detects(value)>>) ELSE Kept
      PROVE  OutcomeOK("log", o)
  <2>1. ~Covered("log")
    BY <1>1, <1>6, CoveredIsFound DEF Covered
  <2>2. Detection(value) => o.masks = <<Detects(value)>>
    BY <1>6 DEF MaskedAs, Kept
  <2>3. Hidden("log", o)
    BY <2>1, <2>2 DEF Hidden, Secret, Detection
  <2>4. Decided("log", o)
    BY <1>1, <1>6, ExactIsFound DEF Decided
  <2> QED BY <1>3, <1>6, <2>3, <2>4 DEF OutcomeOK
<1> QED
  BY <1>2, <1>4, <1>5, <1>6

\* An entry of a dump, of a value that may carry masks already.
LEMMA DumpOutcomeOK ==
    ASSUME RulesInv, NEW v, NEW before, before = << >> \/ \E m : before = <<m>>,
           NEW o \in DumpOutcomes(v, before)
    PROVE  /\ o = RemovedOutcome \/ ~o.removed
           /\ removesName(name.spelling) => o = RemovedOutcome
           /\ ~o.removed =>
                 /\ before # << >> => o.masks # << >> /\ Head(o.masks) = Head(before)
                 /\ (before = << >> /\ (Covered("dump") \/ Detection(v))) => o.masks # << >>
                 /\ before = << >> =>
                       \A r \in Registered(cfg.mask) :
                           r.path = <<name.words>> => o.masks = <<Mask(v, r.mask)>>
<1> DEFINE masks == lookupMask(cfg.mask, Key(<< >>, name))
<1>1. << >> \in Path /\ Append(<< >>, name.words) = <<name.words>>
      /\ PathAt("dump") = <<name.words>> /\ ~(name.padded /\ << >> # << >>)
  BY RulesTyped DEF PathAt
<1>2. \A x : before \o <<x>> # << >> /\ (before # << >> => Head(before \o <<x>>) = Head(before))
             /\ (before = << >> => before \o <<x>> = <<x>>)
  <2> SUFFICES ASSUME NEW x
               PROVE  /\ before \o <<x>> # << >>
                      /\ (before # << >> => Head(before \o <<x>>) = Head(before))
                      /\ (before = << >> => before \o <<x>> = <<x>>)
    OBVIOUS
  <2>1. CASE before = << >>
    <3>1. <<x>> \in Seq({x}) /\ << >> \o <<x>> = <<x>>
      OBVIOUS
    <3> QED BY <2>1, <3>1
  <2>2. ASSUME NEW m, before = <<m>>
        PROVE  before \o <<x>> # << >> /\ Head(before \o <<x>>) = Head(before)
    <3>1. <<m>> \in Seq({m, x}) /\ <<x>> \in Seq({m, x})
      OBVIOUS
    <3>2. PICK s \in Seq({m, x}), u \in Seq({m, x}) : s = <<m>> /\ u = <<x>>
      BY <3>1
    <3>3. Len(s) = 1 /\ s[1] = m /\ Len(u) = 1
      BY <3>2
    <3>4. /\ s \o u \in Seq({m, x}) /\ Len(s \o u) = 2 /\ (s \o u)[1] = m
      BY <3>3, ConcatProperties
    <3>5. s \o u # << >> /\ Head(s \o u) = m
      BY <3>4
    <3>6. Head(before) = m
      BY <2>2
    <3> QED BY <2>2, <3>2, <3>5, <3>6
  <2> QED BY <2>1, <2>2
<1>3. \A x : MaskedAs(x).masks = x /\ ~MaskedAs(x).removed
  BY DEF MaskedAs, Kept
<1>4. Covered("dump") => masks # {}
  BY <1>1, CoveredIsFound DEF Covered
<1>5. \A r \in Registered(cfg.mask) : r.path = <<name.words>> => masks = {r.mask}
  BY <1>1, ExactIsFound
<1> HIDE DEF masks
<1>6. CASE removesName(name.spelling)
  BY <1>6 DEF DumpOutcomes, RemovedOutcome, Kept
<1>7. CASE ~removesName(name.spelling) /\ masks # {}
  <2>1. PICK m \in masks : o = MaskedAs(before \o <<Mask(v, m)>>)
    BY <1>7 DEF DumpOutcomes, masks
  <2> QED BY <1>2, <1>3, <1>5, <1>7, <2>1
<1>8. CASE ~removesName(name.spelling) /\ masks = {}
  <2>1. o = IF Detection(v) THEN MaskedAs(before \o <<Detects(v)>>) ELSE MaskedAs(before)
    BY <1>8 DEF DumpOutcomes, masks
  <2> QED BY <1>2, <1>3, <1>4, <1>5, <1>8, <2>1
<1> QED
  BY <1>6, <1>7, <1>8

LEMMA DumpEntryPreserves ==
    ASSUME RulesInv, DumpEntry, UNCHANGED <<cfg, name, groups, value>>
    PROVE  RulesInv'
<1>1. PICK o \in DumpOutcomes(value, << >>) : shown' = [shown EXCEPT !["dump"] = o]
  BY DEF DumpEntry
<1>2. OutcomeOK("dump", o)
  <2>1. CASE o = RemovedOutcome
    BY <2>1, RemovedIsOK DEF Sites
  <2>2. CASE o # RemovedOutcome
    <3>1. ~o.removed /\ ~removesName(name.spelling)
      BY <2>2, DumpOutcomeOK
    <3>2. (Covered("dump") \/ Detection(value)) => o.masks # << >>
      BY <3>1, DumpOutcomeOK
    <3>3. \A r \in Registered(cfg.mask) : r.path = <<name.words>> => o.masks = <<Mask(value, r.mask)>>
      BY <3>1, DumpOutcomeOK
    <3>4. Hidden("dump", o)
      BY <3>2 DEF Hidden, Secret, Detection
    <3>5. Decided("dump", o)
      <4>1. PathAt("dump") = <<name.words>> /\ \A x : Head(<<x>>) = x
        BY DEF PathAt
      <4> QED BY <3>3, <4>1 DEF Decided
    <3>6. RemovedOK("dump", o)
      BY <3>1 DEF RemovedOK, removesName, Registered
    <3> QED BY <3>4, <3>5, <3>6 DEF OutcomeOK
  <2> QED BY <2>1, <2>2
<1> QED
  BY <1>1, <1>2, SiteShows DEF Sites

\* A header or a metadata entry before what is done to it for lack of a mask.
LEMMA SanitizedOK ==
    ASSUME RulesInv, NEW rest, ~rest.removed, NEW o \in Sanitized(rest)
    PROVE  /\ o.removed => o = RemovedOutcome
           /\ ~o.removed => o = rest \/ \E m : o.masks = <<m>>
           /\ o.removed => ~IsSensitive
           /\ ~o.removed =>
                 /\ ((\E r \in Registered(cfg.mask) : Covers(r, <<name.words>>)) => o.masks # << >>)
                 /\ o.masks = << >> => o = rest /\ ~removesName(lowerSpelling)
                 /\ \A r \in Registered(cfg.mask) :
                       (r.path = <<name.words>> /\ ~IsSensitive) => o.masks = <<Mask(value, r.mask)>>
<1> DEFINE masks == lookupMask(cfg.mask, Key(<< >>, name))
<1>1. << >> \in Path /\ Append(<< >>, name.words) = <<name.words>>
      /\ ~(name.padded /\ << >> # << >>)
  BY RulesTyped
<1>2. (\E r \in Registered(cfg.mask) : Covers(r, <<name.words>>)) => masks # {}
  BY <1>1, CoveredIsFound
<1>3. \A r \in Registered(cfg.mask) : r.path = <<name.words>> => masks = {r.mask}
  BY <1>1, ExactIsFound
<1>4. \A x : MaskedAs(x).masks = x /\ ~MaskedAs(x).removed
  BY DEF MaskedAs, Kept
<1>5. RemovedOutcome.removed
  BY DEF RemovedOutcome, Kept
<1> HIDE DEF masks
<1>6. CASE IsSensitive
  <2>1. o = MaskedAs(<<Mask(value, "secret")>>)
    BY <1>6 DEF Sanitized
  <2> QED BY <1>4, <1>6, <2>1
<1>7. CASE ~IsSensitive /\ masks # {}
  <2>1. PICK m \in masks : o = MaskedAs(<<Mask(value, m)>>)
    BY <1>7 DEF Sanitized, masks
  <2> QED BY <1>3, <1>4, <1>7, <2>1
<1>8. CASE ~IsSensitive /\ masks = {}
  <2>1. o = IF removesName(lowerSpelling) THEN RemovedOutcome ELSE rest
    BY <1>8 DEF Sanitized, masks
  <2> QED BY <1>2, <1>3, <1>5, <1>8, <2>1
<1> QED
  BY <1>6, <1>7, <1>8

LEMMA GRPCMetadataPreserves ==
    ASSUME RulesInv, GRPCMetadata, UNCHANGED <<cfg, name, groups, value>>
    PROVE  RulesInv'
<1>1. PICK o \in Sanitized(Kept) : shown' = [shown EXCEPT !["metadata"] = o]
  BY DEF GRPCMetadata
<1>2. OutcomeOK("metadata", o)
  <2>1. CASE o = RemovedOutcome
    BY <2>1, RemovedIsOK DEF Sites
  <2>2. CASE o # RemovedOutcome
    <3>1. ~Kept.removed
      BY DEF Kept
    <3>2. ~o.removed
      BY <2>2, <3>1, SanitizedOK
    <3>3. PathAt("metadata") = <<name.words>> /\ \A x : Head(<<x>>) = x
      BY DEF PathAt
    <3>4. Hidden("metadata", o)
      BY <3>1, <3>2, <3>3, SanitizedOK DEF Hidden, Secret, Covered
    <3>5. \A r \in Registered(cfg.mask) :
              (r.path = <<name.words>> /\ ~IsSensitive) => o.masks = <<Mask(value, r.mask)>>
      BY <3>1, <3>2, SanitizedOK
    <3>6. Decided("metadata", o)
      BY <3>3, <3>5 DEF Decided
    <3> QED BY <3>4, <3>6 DEF OutcomeOK, RemovedOK
  <2> QED BY <2>1, <2>2
<1> QED
  BY <1>1, <1>2, SiteShows DEF Sites

\* A header meets the rules twice; the second time on what the first left.
LEMMA HTTPHeaderPreserves ==
    ASSUME RulesInv, HTTPHeader, UNCHANGED <<cfg, name, groups, value>>
    PROVE  RulesInv'
<1> DEFINE kept == IF Detection(value) THEN MaskedAs(<<Detects(value)>>) ELSE Kept
<1>1. PICK o \in Sanitized(kept) :
          \/ o.removed /\ shown' = [shown EXCEPT !["header"] = o]
          \/ /\ ~o.removed
             /\ \E p \in DumpOutcomes(IF o.masks = << >> THEN value ELSE "masked", o.masks) :
                   shown' = [shown EXCEPT !["header"] = p]
  BY DEF HTTPHeader
<1>2. ~kept.removed /\ (kept.masks = << >> \/ \E m : kept.masks = <<m>>)
      /\ (Detection(value) => kept.masks # << >>)
  BY DEF MaskedAs, Kept
<1>3. PathAt("header") = <<name.words>> /\ PathAt("dump") = <<name.words>>
      /\ \A x : Head(<<x>>) = x
  BY DEF PathAt
<1> HIDE DEF kept
<1>4. CASE o.removed
  <2>1. o = RemovedOutcome
    BY <1>2, <1>4, SanitizedOK
  <2> QED BY <1>1, <1>4, <2>1, RemovedIsOK, SiteShows DEF Sites
<1>5. ASSUME ~o.removed,
             NEW p \in DumpOutcomes(IF o.masks = << >> THEN value ELSE "masked", o.masks),
             shown' = [shown EXCEPT !["header"] = p]
      PROVE  RulesInv'
  <2> DEFINE v == IF o.masks = << >> THEN value ELSE "masked"
             before == o.masks
  <2>1. before = << >> \/ \E m : before = <<m>>
    BY <1>2, <1>5, SanitizedOK
  <2>2. p \in DumpOutcomes(v, before)
    BY <1>5
  <2>3. /\ (\E r \in Registered(cfg.mask) : Covers(r, <<name.words>>)) => before # << >>
        /\ Detection(value) => before # << >>
        /\ \A r \in Registered(cfg.mask) :
              (r.path = <<name.words>> /\ ~IsSensitive) => before = <<Mask(value, r.mask)>>
    BY <1>2, <1>5, SanitizedOK
  <2> HIDE DEF v, before
  <2>4. CASE p = RemovedOutcome
    BY <1>5, <2>4, RemovedIsOK, SiteShows DEF Sites
  <2>5. CASE p # RemovedOutcome
    <3>1. ~p.removed /\ ~removesName(name.spelling)
      BY <2>1, <2>2, <2>5, DumpOutcomeOK
    <3>2. before # << >> => p.masks # << >> /\ Head(p.masks) = Head(before)
      BY <2>1, <2>2, <3>1, DumpOutcomeOK
    <3>3. Hidden("header", p)
      BY <1>3, <2>3, <3>2 DEF Hidden, Secret, Covered, Detection
    <3>4. Decided("header", p)
      <4> SUFFICES ASSUME NEW r \in Registered(cfg.mask), r.path = <<name.words>>, ~IsSensitive
                   PROVE  Head(p.masks) = Mask(value, r.mask)
        BY <1>3 DEF Decided
      <4>1. before = <<Mask(value, r.mask)>>
        BY <2>3
      <4> QED BY <1>3, <3>2, <4>1
    <3>5. RemovedOK("header", p)
      BY <3>1 DEF RemovedOK, removesName, Registered
    <3> QED BY <1>5, <3>3, <3>4, <3>5, SiteShows DEF OutcomeOK, Sites
  <2> QED BY <2>4, <2>5
<1> QED
  BY <1>1, <1>4, <1>5

THEOREM RulesInvariance == RulesSpec => []RulesInv
<1>1. RulesInit => RulesInv
  BY DEF RulesInit, RulesInv, Seen
<1>2. RulesInv /\ [RulesNext]_ruleVars => RulesInv'
  <2> SUFFICES ASSUME RulesInv, [RulesNext]_ruleVars PROVE RulesInv'
    OBVIOUS
  <2>1. CASE UNCHANGED ruleVars
    <3>1. UNCHANGED <<cfg, name, groups, value, shown>>
      BY <2>1 DEF ruleVars
    <3>2. \A s \in Sites : OutcomeOK(s, shown[s]) => OutcomeOK(s, shown[s])'
      BY <3>1 DEF OutcomeOK, Hidden, Decided, RemovedOK, Secret, Covered, PathAt, Mask,
             IsSensitive, lowerSpelling
    <3> QED BY <3>1, <3>2 DEF RulesInv, Seen
  <2> QED BY <2>1, LogAttrPreserves, DumpEntryPreserves, HTTPHeaderPreserves,
             GRPCMetadataPreserves DEF RulesNext
<1> QED
  BY <1>1, <1>2, PTL DEF RulesSpec

(***************************************************************************)
(* A value under a key that a registered rule covers, or one like a        *)
(* secret, never appears as it is, at any site, in any group, in any       *)
(* spelling, but for a padded name in a group (masker.go Add,              *)
(* CorporateMasker).                                                       *)
(***************************************************************************)
THEOREM ValuesNeverPlain == RulesSpec => []NeverPlain
<1>1. RulesInv => NeverPlain
  BY DEF RulesInv, NeverPlain, OutcomeOK, Hidden, Covered
<1> QED
  BY <1>1, RulesInvariance, PTL

(***************************************************************************)
(* A rule registered for exactly this name decides, although rules for     *)
(* suffixes of it exist (masker.go lookupMask).                            *)
(***************************************************************************)
THEOREM ExactRulesDecide == RulesSpec => []ExactRuleDecides
<1>1. RulesInv => ExactRuleDecides
  BY DEF RulesInv, ExactRuleDecides, OutcomeOK, Decided
<1> QED
  BY <1>1, RulesInvariance, PTL

(***************************************************************************)
(* A removal rule for a name wins over masks in log attributes, dumps and  *)
(* headers, whichever of the two the site applies first (removal.go).      *)
(***************************************************************************)
THEOREM RemovalsWin == RulesSpec => []RemovalWins
<1>1. RulesInv => RemovalWins
  BY DEF RulesInv, RemovalWins, OutcomeOK, RemovedOK
<1> QED
  BY <1>1, RulesInvariance, PTL

-----------------------------------------------------------------------------
(***************************************************************************)
(* What masks keep (MaskShapes), for values of any length.                 *)
(***************************************************************************)
LEMMA MinOfTwo ==
    ASSUME NEW x \in Int, NEW y \in Int
    PROVE  Min({x, y}) = IF x <= y THEN x ELSE y
BY DEF Min

\* The b characters from f + 1 on; the first a of n, k stars, and such a slice.
Slice(n, f, b) == SubSeq(Whole(n), f + 1, f + b)
Parts(n, a, k, f, b) == Slice(n, 0, a) \o Stars(k) \o Slice(n, f, b)

LEMMA SliceFacts ==
    ASSUME NEW n \in Nat, NEW f \in Nat, NEW b \in Nat, f + b <= n
    PROVE  /\ Slice(n, f, b) \in Seq(Int)
           /\ Len(Slice(n, f, b)) = b
           /\ \A i \in 1 .. b : Slice(n, f, b)[i] = f + i
<1>1. \A i \in f + 1 .. f + b : Whole(n)[i] = i
  BY DEF Whole
<1>2. PICK w : w = Whole(n)
  OBVIOUS
<1>3. PICK p, q \in Int : p = f + 1 /\ q = f + b
  OBVIOUS
<1>4. \A i \in p .. q : w[i] \in Int
  BY <1>1, <1>2, <1>3
<1>5. /\ SubSeq(w, p, q) \in Seq(Int)
      /\ Len(SubSeq(w, p, q)) = IF p <= q THEN q - p + 1 ELSE 0
      /\ \A i \in 1 .. q - p + 1 : SubSeq(w, p, q)[i] = w[p + i - 1]
  BY <1>4, SubSeqProperties
<1>6. q - p + 1 = b /\ \A i \in 1 .. b : p + i - 1 = f + i /\ f + i \in f + 1 .. f + b
  BY <1>3
<1>7. Slice(n, f, b) = SubSeq(w, p, q)
  BY <1>2, <1>3 DEF Slice
<1> HIDE DEF Slice
<1> QED
  BY <1>1, <1>2, <1>3, <1>5, <1>6, <1>7

LEMMA ThreeJoined ==
    ASSUME NEW u \in Seq(Int), NEW v \in Seq(Int), NEW w \in Seq(Int)
    PROVE  /\ (u \o v) \o w \in Seq(Int)
           /\ DOMAIN ((u \o v) \o w) = 1 .. Len(u) + Len(v) + Len(w)
           /\ \A i \in 1 .. Len(u) + Len(v) + Len(w) : ((u \o v) \o w)[i] =
                 IF i <= Len(u) THEN u[i]
                 ELSE IF i <= Len(u) + Len(v) THEN v[i - Len(u)]
                 ELSE w[i - (Len(u) + Len(v))]
<1>1. PICK a, k, b \in Nat : a = Len(u) /\ k = Len(v) /\ b = Len(w)
  OBVIOUS
<1>2. PICK x : x = u \o v
  OBVIOUS
<1>3. /\ x \in Seq(Int) /\ Len(x) = a + k
      /\ \A i \in 1 .. a + k : x[i] = IF i <= a THEN u[i] ELSE v[i - a]
  BY <1>1, <1>2, ConcatProperties
<1>4. PICK y : y = x \o w
  OBVIOUS
<1>5. /\ y \in Seq(Int) /\ Len(y) = a + k + b
      /\ \A i \in 1 .. a + k + b : y[i] = IF i <= a + k THEN x[i] ELSE w[i - (a + k)]
  <2>1. /\ y \in Seq(Int) /\ Len(y) = Len(x) + Len(w)
        /\ \A i \in 1 .. Len(x) + Len(w) : y[i] = IF i <= Len(x) THEN x[i] ELSE w[i - Len(x)]
    BY <1>3, <1>4, ConcatProperties
  <2>2. PICK m \in Nat : m = a + k
    OBVIOUS
  <2>3. Len(x) = m /\ Len(w) = b
    BY <1>1, <1>3, <2>2
  <2>4. Len(y) = m + b /\ \A i \in 1 .. m + b : y[i] = IF i <= m THEN x[i] ELSE w[i - m]
    BY <2>1, <2>3
  <2> QED BY <2>1, <2>2, <2>4
<1>6. DOMAIN y = 1 .. a + k + b
  BY <1>5
<1>7. \A i \in 1 .. a + k + b :
          y[i] = IF i <= a THEN u[i] ELSE IF i <= a + k THEN v[i - a] ELSE w[i - (a + k)]
  BY <1>3, <1>5
<1> QED
  BY <1>1, <1>2, <1>4, <1>5, <1>6, <1>7

LEMMA PartsShown ==
    ASSUME NEW n \in Nat, NEW a \in Nat, NEW k \in Nat, NEW f \in Nat, NEW b \in Nat,
           a <= f, f + b <= n
    PROVE  /\ \A x : x \in ShownIn(Parts(n, a, k, f, b)) <=> x \in 1 .. a \/ x \in f + 1 .. f + b
           /\ Cardinality(ShownIn(Parts(n, a, k, f, b))) = a + b
           /\ a + b < n => ShownIn(Parts(n, a, k, f, b)) # 1 .. n
           /\ \A i, j \in DOMAIN Parts(n, a, k, f, b) :
                 (i < j /\ Parts(n, a, k, f, b)[i] # 0 /\ Parts(n, a, k, f, b)[j] # 0) =>
                     Parts(n, a, k, f, b)[i] < Parts(n, a, k, f, b)[j]
<1> DEFINE s == Parts(n, a, k, f, b)
           at(i) == IF i <= a THEN i ELSE IF i <= a + k THEN 0 ELSE f + (i - a - k)
<1>1. PICK u : u = Slice(n, 0, a)
  OBVIOUS
<1>2. PICK v : v = Stars(k)
  OBVIOUS
<1>3. PICK w : w = Slice(n, f, b)
  OBVIOUS
<1>4. s = (u \o v) \o w
  BY <1>1, <1>2, <1>3 DEF Parts
<1> HIDE DEF s
<1>5. u \in Seq(Int) /\ Len(u) = a /\ \A i \in 1 .. a : u[i] = i
  <2>1. PICK z \in Nat : z = 0
    OBVIOUS
  <2>2. z + a <= n /\ \A i \in 1 .. a : z + i = i
    BY <2>1
  <2>3. u = Slice(n, z, a)
    BY <1>1, <2>1
  <2>4. u \in Seq(Int) /\ Len(u) = a /\ \A i \in 1 .. a : u[i] = z + i
    BY <2>2, <2>3, SliceFacts
  <2> QED BY <2>2, <2>4
<1>6. w \in Seq(Int) /\ Len(w) = b /\ \A i \in 1 .. b : w[i] = f + i
  BY <1>3, SliceFacts
<1>7. v \in Seq(Int) /\ Len(v) = k /\ \A i \in 1 .. k : v[i] = 0
  BY <1>2 DEF Stars
<1>8. /\ s \in Seq(Int) /\ DOMAIN s = 1 .. a + k + b
      /\ \A i \in 1 .. a + k + b :
            s[i] = IF i <= a THEN u[i] ELSE IF i <= a + k THEN v[i - a] ELSE w[i - (a + k)]
  BY <1>4, <1>5, <1>6, <1>7, ThreeJoined
<1>9. \A i \in 1 .. a + k + b : s[i] = at(i)
  <2>1. ASSUME NEW i \in 1 .. a + k + b PROVE s[i] = at(i)
    <3>1. CASE i <= a
      BY <1>5, <1>8, <3>1
    <3>2. CASE ~(i <= a) /\ i <= a + k
      <4>1. i - a \in 1 .. k
        BY <3>2
      <4> QED BY <1>7, <1>8, <3>2, <4>1
    <3>3. CASE ~(i <= a) /\ ~(i <= a + k)
      <4>1. i - (a + k) \in 1 .. b /\ i - (a + k) = i - a - k
        BY <3>3
      <4> QED BY <1>6, <1>8, <3>3, <4>1
    <3> QED BY <3>1, <3>2, <3>3
  <2> QED BY <2>1
<1>10. ShownIn(s) = (1 .. a) \cup (f + 1 .. f + b)
  <2>1. ASSUME NEW x \in ShownIn(s) PROVE x \in (1 .. a) \cup (f + 1 .. f + b)
    <3>1. PICK i \in 1 .. a + k + b : x = s[i] /\ x # 0
      BY <1>8, <1>9 DEF ShownIn, ToSet
    <3> QED BY <1>8, <1>9, <3>1
  <2>2. ASSUME NEW x \in 1 .. a PROVE x \in ShownIn(s)
    <3>1. x \in 1 .. a + k + b /\ s[x] = x /\ x # 0
      BY <1>8, <1>9
    <3> QED BY <1>8, <1>9, <3>1 DEF ShownIn, ToSet
  <2>3. ASSUME NEW x \in f + 1 .. f + b PROVE x \in ShownIn(s)
    <3>1. PICK i \in 1 .. a + k + b : i = x - f + a + k
      OBVIOUS
    <3>2. s[i] = x /\ x # 0
      BY <1>8, <1>9, <3>1
    <3> QED BY <1>8, <1>9, <3>2 DEF ShownIn, ToSet
  <2> QED BY <2>1, <2>2, <2>3
<1>11. Cardinality(ShownIn(s)) = a + b
  <2>1. PICK A, B : A = 1 .. a /\ B = f + 1 .. f + b
    OBVIOUS
  <2>2. PICK p, q \in Int : p = f + 1 /\ q = f + b
    OBVIOUS
  <2>3. B = p .. q /\ A = 1 .. a /\ (IF p > q THEN 0 ELSE q - p + 1) = b
    BY <2>1, <2>2
  <2>4. IsFiniteSet(A) /\ Cardinality(A) = a
    BY <2>3, FS_Interval
  <2>5. IsFiniteSet(B) /\ Cardinality(B) = b
    BY <2>3, FS_Interval
  <2>6. A \cap B = {}
    BY <2>1
  <2>7. Cardinality(A \cup B) = Cardinality(A) + Cardinality(B) - Cardinality(A \cap B)
    BY <2>4, <2>5, FS_Union
  <2>8. Cardinality(A \cap B) = 0
    BY <2>6, FS_EmptySet
  <2>9. ShownIn(s) = A \cup B
    BY <1>10, <2>1
  <2> QED BY <2>4, <2>5, <2>7, <2>8, <2>9
<1>12. ASSUME a + b < n PROVE ShownIn(s) # 1 .. n
  <2>1. CASE a < f
    <3>1. a + 1 \in 1 .. n /\ a + 1 \notin 1 .. a /\ a + 1 \notin f + 1 .. f + b
      BY <2>1
    <3> QED BY <1>10, <3>1
  <2>2. CASE a = f
    <3>1. a + b + 1 \in 1 .. n /\ a + b + 1 \notin 1 .. a /\ a + b + 1 \notin f + 1 .. f + b
      BY <1>12, <2>2
    <3> QED BY <1>10, <3>1
  <2> QED BY <2>1, <2>2
<1>13. ASSUME NEW i \in DOMAIN s, NEW j \in DOMAIN s, i < j, s[i] # 0, s[j] # 0
       PROVE  s[i] < s[j]
  BY <1>8, <1>9, <1>13
<1> QED
  BY <1>10, <1>11, <1>12, <1>13 DEF s

\* What the masks keep, as parts of the value.
LEMMA MasksAreParts ==
    ASSUME NEW n \in Nat
    PROVE  /\ n >= 8 => maskPhone(n) = Parts(n, 3, n - 6, n - 3, 3)
           /\ n >= 12 => maskCard(n) = Parts(n, 4, 8, n - 4, 4)
           /\ n >= 8 => maskIBAN(n) = Parts(n, 4, n - 8, n - 4, 4)
           /\ n > 12 => maskPartial(n) = Parts(n, 3, n - 6, n - 3, 3)
           /\ (n > 4 /\ n <= 12) => maskPartial(n) = Parts(n, 2, n - 4, n - 2, 2)
<1>1. ASSUME NEW k \in Nat PROVE First(n, k) = Slice(n, 0, k) /\ Last_(n, k) = Slice(n, n - k, k)
  <2>1. 0 + 1 = 1 /\ 0 + k = k /\ (n - k) + k = n
    OBVIOUS
  <2>2. Slice(n, 0, k) = SubSeq(Whole(n), 1, k)
    BY <2>1 DEF Slice
  <2>3. Slice(n, n - k, k) = SubSeq(Whole(n), n - k + 1, n)
    BY <2>1 DEF Slice
  <2> QED BY <2>2, <2>3 DEF First, Last_
<1>2. PICK k2, k3, k4 \in Nat : k2 = 2 /\ k3 = 3 /\ k4 = 4
  OBVIOUS
<1>3. /\ First(n, k2) = Slice(n, 0, k2) /\ Last_(n, k2) = Slice(n, n - k2, k2)
      /\ First(n, k3) = Slice(n, 0, k3) /\ Last_(n, k3) = Slice(n, n - k3, k3)
      /\ First(n, k4) = Slice(n, 0, k4) /\ Last_(n, k4) = Slice(n, n - k4, k4)
  BY <1>1
<1>4. /\ First(n, 2) = Slice(n, 0, 2) /\ Last_(n, 2) = Slice(n, n - 2, 2)
      /\ First(n, 3) = Slice(n, 0, 3) /\ Last_(n, 3) = Slice(n, n - 3, 3)
      /\ First(n, 4) = Slice(n, 0, 4) /\ Last_(n, 4) = Slice(n, n - 4, 4)
  BY <1>2, <1>3
<1>5. ASSUME n >= 8 PROVE maskPhone(n) = Parts(n, 3, n - 6, n - 3, 3)
  <2>1. maskPhone(n) = First(n, 3) \o Stars(n - 6) \o Last_(n, 3)
    BY <1>5 DEF maskPhone
  <2> QED BY <1>4, <2>1 DEF Parts
<1>6. ASSUME n >= 12 PROVE maskCard(n) = Parts(n, 4, 8, n - 4, 4)
  <2>1. maskCard(n) = First(n, 4) \o Stars(8) \o Last_(n, 4)
    BY <1>6 DEF maskCard
  <2> QED BY <1>4, <2>1 DEF Parts
<1>7. ASSUME n >= 8 PROVE maskIBAN(n) = Parts(n, 4, n - 8, n - 4, 4)
  <2>1. maskIBAN(n) = First(n, 4) \o Stars(n - 8) \o Last_(n, 4)
    BY <1>7 DEF maskIBAN
  <2> QED BY <1>4, <2>1 DEF Parts
<1>8. ASSUME n > 12 PROVE maskPartial(n) = Parts(n, 3, n - 6, n - 3, 3)
  <2>1. ~(n <= 4) /\ n - 2 * 3 = n - 6
    BY <1>8
  <2>2. maskPartial(n) = First(n, 3) \o Stars(n - 2 * 3) \o Last_(n, 3)
    BY <1>8, <2>1 DEF maskPartial
  <2> QED BY <1>4, <2>1, <2>2 DEF Parts
<1>9. ASSUME n > 4, n <= 12 PROVE maskPartial(n) = Parts(n, 2, n - 4, n - 2, 2)
  <2>1. ~(n <= 4) /\ ~(n > 12) /\ n - 2 * 2 = n - 4
    BY <1>9
  <2>2. maskPartial(n) = First(n, 2) \o Stars(n - 2 * 2) \o Last_(n, 2)
    BY <2>1 DEF maskPartial
  <2> QED BY <1>4, <2>1, <2>2 DEF Parts
<1> QED
  BY <1>5, <1>6, <1>7, <1>8, <1>9

\* Labels and stars show nothing.
LEMMA NothingShown ==
    ASSUME NEW n \in Nat
    PROVE  /\ ShownIn(<<>>) = {} /\ ShownIn(Stars(n)) = {}
           /\ \A i \in DOMAIN Stars(n) : Stars(n)[i] = 0
BY DEF ShownIn, ToSet, Stars

LEMMA EmptyHides ==
    ASSUME NEW s, ShownIn(s) = {}, NEW n \in Nat, n > 0
    PROVE  HidesSome(s, n)
<1>1. 1 \in 1 .. n /\ Cardinality({}) = 0
  BY FS_EmptySet
<1> QED
  BY <1>1 DEF HidesSome

LEMMA PartsHide ==
    ASSUME NEW n \in Nat, NEW a \in Nat, NEW k \in Nat, NEW f \in Nat, NEW b \in Nat,
           a <= f, f + b <= n, a + b < n, a + b <= 8
    PROVE  HidesSome(Parts(n, a, k, f, b), n)
<1> HIDE DEF Parts
<1>1. PICK s : s = Parts(n, a, k, f, b)
  OBVIOUS
<1>2. /\ Cardinality(ShownIn(s)) = a + b /\ ShownIn(s) # 1 .. n
      /\ \A i, j \in DOMAIN s : (i < j /\ s[i] # 0 /\ s[j] # 0) => s[i] < s[j]
  <2>1. /\ Cardinality(ShownIn(Parts(n, a, k, f, b))) = a + b
        /\ a + b < n => ShownIn(Parts(n, a, k, f, b)) # 1 .. n
    BY PartsShown
  <2>2. \A i, j \in DOMAIN Parts(n, a, k, f, b) :
           (i < j /\ Parts(n, a, k, f, b)[i] # 0 /\ Parts(n, a, k, f, b)[j] # 0) =>
               Parts(n, a, k, f, b)[i] < Parts(n, a, k, f, b)[j]
    BY PartsShown
  <2> QED BY <1>1, <2>1, <2>2
<1>3. \A x \in ShownIn(s) : x # 0
  BY DEF ShownIn
<1>4. HidesSome(s, n)
  BY <1>2, <1>3 DEF HidesSome
<1> QED
  BY <1>1, <1>4

LEMMA PlainMasksHide ==
    ASSUME NEW n \in Nat, n > 0
    PROVE  /\ HidesSome(maskPhone(n), n) /\ HidesSome(maskCard(n), n)
           /\ HidesSome(maskPartial(n), n) /\ (n # 8 => HidesSome(maskIBAN(n), n))
<1>1. HidesSome(maskPhone(n), n)
  <2>1. CASE n < 8
    BY <2>1, NothingShown, EmptyHides DEF maskPhone
  <2>2. CASE n >= 8
    <3>1. PICK k, f \in Nat : k = n - 6 /\ f = n - 3
      BY <2>2
    <3>2. maskPhone(n) = Parts(n, 3, k, f, 3)
      BY <2>2, <3>1, MasksAreParts
    <3> QED BY <2>2, <3>1, <3>2, PartsHide
  <2> QED BY <2>1, <2>2
<1>2. HidesSome(maskCard(n), n)
  <2>1. CASE n < 12
    BY <2>1, NothingShown, EmptyHides DEF maskCard
  <2>2. CASE n >= 12
    <3>1. PICK k, f \in Nat : k = 8 /\ f = n - 4
      BY <2>2
    <3>2. maskCard(n) = Parts(n, 4, k, f, 4)
      BY <2>2, <3>1, MasksAreParts
    <3> QED BY <2>2, <3>1, <3>2, PartsHide
  <2> QED BY <2>1, <2>2
<1>3. HidesSome(maskPartial(n), n)
  <2>1. CASE n <= 4
    <3>1. maskPartial(n) = Stars(n)
      BY <2>1 DEF maskPartial
    <3> QED BY <3>1, NothingShown, EmptyHides
  <2>2. CASE n > 12
    <3>1. PICK k, f \in Nat : k = n - 6 /\ f = n - 3
      BY <2>2
    <3>2. maskPartial(n) = Parts(n, 3, k, f, 3)
      BY <2>2, <3>1, MasksAreParts
    <3> QED BY <2>2, <3>1, <3>2, PartsHide
  <2>3. CASE n > 4 /\ n <= 12
    <3>1. PICK k, f \in Nat : k = n - 4 /\ f = n - 2
      BY <2>3
    <3>2. maskPartial(n) = Parts(n, 2, k, f, 2)
      BY <2>3, <3>1, MasksAreParts
    <3> QED BY <2>3, <3>1, <3>2, PartsHide
  <2> QED BY <2>1, <2>2, <2>3
<1>4. ASSUME n # 8 PROVE HidesSome(maskIBAN(n), n)
  <2>1. CASE n < 8
    BY <2>1, NothingShown, EmptyHides DEF maskIBAN
  <2>2. CASE n >= 8
    <3>1. PICK k, f \in Nat : k = n - 8 /\ f = n - 4
      BY <2>2
    <3>2. maskIBAN(n) = Parts(n, 4, k, f, 4)
      BY <2>2, <3>1, MasksAreParts
    <3> QED BY <1>4, <2>2, <3>1, <3>2, PartsHide
  <2> QED BY <2>1, <2>2
<1> QED
  BY <1>1, <1>2, <1>3, <1>4

LEMMA JWTHides ==
    ASSUME NEW p \in [1 .. 3 -> Nat]
    PROVE  HidesParts(maskJWT(p), p)
<1>1. PICK x, y, z \in Nat : x = p[1] /\ y = p[2] /\ z = p[3]
  OBVIOUS
<1>2. PICK a, b \in Nat : /\ a = Min({x, 8}) /\ b = Min({z, 6})
                          /\ a <= x /\ a <= 8 /\ b <= z /\ b <= 6
  BY MinOfTwo
<1>3. PICK n, f \in Nat : n = x + y + z /\ f = x + y
  OBVIOUS
<1>4. maskJWT(p) = Parts(n, a, 3, f, b)
  <2>1. 0 + 1 = 1 /\ 0 + a = a
    OBVIOUS
  <2>2. Slice(n, 0, a) = SubSeq(Whole(n), 1, a)
    BY <2>1 DEF Slice
  <2>3. maskJWT(p) = SubSeq(Whole(n), 1, a) \o Stars(3) \o SubSeq(Whole(n), f + 1, f + b)
    BY <1>1, <1>2, <1>3 DEF maskJWT
  <2> QED BY <2>2, <2>3 DEF Parts, Slice
<1>5. ShownIn(maskJWT(p)) = (1 .. a) \cup (f + 1 .. f + b)
  <2>1. PICK k \in Nat : k = 3
    OBVIOUS
  <2>2. a <= f /\ f + b <= n
    BY <1>2, <1>3
  <2>3. \A c : c \in ShownIn(Parts(n, a, k, f, b)) <=> c \in 1 .. a \/ c \in f + 1 .. f + b
    BY <2>2, PartsShown
  <2> QED BY <1>4, <2>1, <2>3
<1>6. {i \in ShownIn(maskJWT(p)) : i > f} = f + 1 .. f + b
  BY <1>2, <1>3, <1>5
<1>7. PICK q, r \in Int : q = f + 1 /\ r = f + b
  OBVIOUS
<1>8. IsFiniteSet(q .. r) /\ Cardinality(q .. r) = IF q > r THEN 0 ELSE r - q + 1
  BY FS_Interval
<1>9. IsFiniteSet(f + 1 .. f + b) /\ Cardinality(f + 1 .. f + b) <= 6
  <2>1. (IF q > r THEN 0 ELSE r - q + 1) <= 6
    BY <1>2, <1>7
  <2>2. q .. r = f + 1 .. f + b
    BY <1>7
  <2> QED BY <1>8, <2>1, <2>2
<1>10. /\ ShownIn(maskJWT(p)) \cap (x + 1 .. x + y) = {}
       /\ ShownIn(maskJWT(p)) \cap (1 .. x) \subseteq 1 .. 8
  BY <1>2, <1>3, <1>5
<1> QED
  BY <1>1, <1>3, <1>6, <1>9, <1>10 DEF HidesParts

ShapesInv == call \in Calls /\ MasksHide

LEMMA CallTypes ==
    ASSUME call \in Calls
    PROVE  /\ call.fn \in {"phone", "card", "partial", "IBAN"} => call.n \in Nat
           /\ call.fn = "JWT" => call.p \in [1 .. 3 -> Nat]
<1>1. 0 .. MaxLength \subseteq Nat /\ 0 .. MaxPart \subseteq Nat
  BY ShapeConstants
<1>2. CASE call \in [fn : {"phone", "card", "IBAN", "partial", "email", "secretIBAN"},
                     n : 0 .. MaxLength]
  <2>1. call.n \in 0 .. MaxLength /\ call.fn # "JWT"
    BY <1>2
  <2> QED BY <1>1, <2>1
<1>3. CASE call \in [fn : {"JWT", "secretJWT"}, p : [1 .. 3 -> 0 .. MaxPart]]
  <2>1. call.p \in [1 .. 3 -> 0 .. MaxPart]
    BY <1>3
  <2>2. call.p \in [1 .. 3 -> Nat]
    BY <1>1, <2>1
  <2>3. call.fn \notin {"phone", "card", "partial", "IBAN"}
    BY <1>3
  <2> QED BY <2>2, <2>3
<1>4. CASE call \in [fn : {"luhn"}, d : Numbers]
  BY <1>4
<1>5. CASE call \in [fn : {"itoa"}, i : IntMin .. -IntMin - 1]
  BY <1>5
<1> QED
  BY <1>2, <1>3, <1>4, <1>5 DEF Calls

LEMMA WhatReturns ==
    ASSUME Return
    PROVE  /\ call' = call
           /\ call.fn = "phone" => result' = Shape(maskPhone(call.n))
           /\ call.fn = "card" => result' = Shape(maskCard(call.n))
           /\ call.fn = "IBAN" => result' = Shape(maskIBAN(call.n))
           /\ call.fn = "partial" => result' = Shape(maskPartial(call.n))
           /\ call.fn = "JWT" => result' = Shape(maskJWT(call.p))
BY DEF Return

LEMMA ReturnHides ==
    ASSUME call \in Calls, Return
    PROVE  MasksHide'
<1>1. \A s : Shape(s).shape = s
  BY DEF Shape
<1>2. (call.fn \in {"phone", "card", "partial"} /\ call.n > 0) => HidesSome(result'.shape, call.n)
  BY <1>1, CallTypes, WhatReturns, PlainMasksHide
<1>3. (call.fn = "IBAN" /\ call.n \notin {0, 8}) => HidesSome(result'.shape, call.n)
  <2>1. ASSUME call.fn = "IBAN", call.n \notin {0, 8} PROVE HidesSome(maskIBAN(call.n), call.n)
    <3>1. call.n \in Nat /\ call.n > 0 /\ call.n # 8
      BY <2>1, CallTypes
    <3> QED BY <3>1, PlainMasksHide
  <2> QED BY <1>1, <2>1, WhatReturns
<1>4. call.fn = "JWT" => HidesParts(result'.shape, call.p)
  BY <1>1, CallTypes, WhatReturns, JWTHides
<1> QED
  BY <1>2, <1>3, <1>4, WhatReturns DEF MasksHide, HidesSome, HidesParts

(***************************************************************************)
(* Asked for by its name, the mask of a phone or card number, of part of a *)
(* value and of an IBAN hides some character of every value, and all but   *)
(* eight, except that an IBAN's leaves eight bytes whole; the mask of a    *)
(* JWT shows nothing of the second part, whatever its length (masker.go).  *)
(***************************************************************************)
THEOREM MasksAlwaysHide == ShapesSpec => []MasksHide
<1>1. ShapesInit => ShapesInv
  BY DEF ShapesInit, ShapesInv, MasksHide, Pending
<1>2. ShapesInv /\ [Return]_shapeVars => ShapesInv'
  <2> SUFFICES ASSUME ShapesInv, [Return]_shapeVars PROVE ShapesInv'
    OBVIOUS
  <2>1. CASE Return
    <3>1. MasksHide'
      BY <2>1, ReturnHides DEF ShapesInv
    <3> QED BY <2>1, <3>1, WhatReturns DEF ShapesInv, Calls, Numbers
  <2>2. CASE UNCHANGED shapeVars
    BY <2>2 DEF ShapesInv, MasksHide, Calls, Numbers, shapeVars
  <2> QED BY <2>1, <2>2
<1>3. ShapesInv => MasksHide
  BY DEF ShapesInv
<1> QED
  BY <1>1, <1>2, <1>3, PTL DEF ShapesSpec

-----------------------------------------------------------------------------
(***************************************************************************)
(* What the loops over digits compute (luhnOK, itoa), for any number of    *)
(* digits.                                                                 *)
(***************************************************************************)
\* What the digit v adds as the k-th from the right.
Weight(k, v) == IF k % 2 = 0 THEN Doubled(v) ELSE v

IsLuhnSum(f, d) ==
    f = [k \in 0 .. Len(d) |->
            IF k = 0 THEN 0
            ELSE LET n == d[Len(d) - k + 1]
                 IN  f[k - 1] + (IF k % 2 = 0 THEN Doubled(n) ELSE n)]

LEMMA LuhnSumExists ==
    ASSUME NEW d, Len(d) \in Nat
    PROVE  \E f : IsLuhnSum(f, d)
<1> DEFINE s(f, k) == IF k = 0 THEN 0
                      ELSE LET n == d[Len(d) - k + 1]
                           IN  f[k - 1] + (IF k % 2 = 0 THEN Doubled(n) ELSE n)
           Upto(f, m) == f = [k \in 0 .. m |-> s(f, k)]
           T == {m \in Nat : \E f : Upto(f, m)}
<1>1. 0 \in T
  <2>1. Upto([k \in 0 .. 0 |-> 0], 0)
    OBVIOUS
  <2> QED BY <2>1
<1>2. ASSUME NEW m \in Nat, m \in T PROVE m + 1 \in T
  <2>1. PICK f : Upto(f, m)
    BY <1>2
  <2> DEFINE h == [k \in 0 .. m + 1 |-> IF k \in 0 .. m THEN f[k] ELSE s(f, k)]
  <2>2. \A k \in 0 .. m + 1 : k # 0 => k - 1 \in 0 .. m /\ h[k - 1] = f[k - 1]
    OBVIOUS
  <2>3. \A k \in 0 .. m : f[k] = s(f, k)
    <3> HIDE DEF s
    <3> QED BY <2>1
  <2>4. \A k \in 0 .. m + 1 : h[k] = s(f, k)
    <3> HIDE DEF s
    <3> QED BY <2>3
  <2>5. h = [k \in 0 .. m + 1 |-> h[k]]
    OBVIOUS
  <2> HIDE DEF h
  <2>6. \A k \in 0 .. m + 1 : s(h, k) = s(f, k)
    BY <2>2
  <2> HIDE DEF s
  <2>7. h = [k \in 0 .. m + 1 |-> s(h, k)]
    BY <2>4, <2>5, <2>6
  <2>8. Upto(h, m + 1)
    BY <2>7
  <2> HIDE DEF Upto
  <2> QED BY <2>8
<1> HIDE DEF T
<1>3. Len(d) \in T
  BY <1>1, <1>2, NatSetInduction
<1> QED
  BY <1>3 DEF T, IsLuhnSum

LEMMA LuhnSumSteps ==
    ASSUME NEW d \in Seq(0 .. 9), NEW f, IsLuhnSum(f, d)
    PROVE  /\ f[0] = 0
           /\ \A k \in 1 .. Len(d) : f[k] = f[k - 1] + Weight(k, d[Len(d) - k + 1])
<1> DEFINE s(k) == IF k = 0 THEN 0
                   ELSE LET n == d[Len(d) - k + 1]
                        IN  f[k - 1] + (IF k % 2 = 0 THEN Doubled(n) ELSE n)
<1>1. f = [k \in 0 .. Len(d) |-> s(k)]
  BY DEF IsLuhnSum
<1> HIDE DEF s
<1>2. \A k \in 0 .. Len(d) : f[k] = s(k)
  BY <1>1
<1>3. \A k \in 1 .. Len(d) : k \in 0 .. Len(d) /\ k # 0
  OBVIOUS
<1> QED
  BY <1>2, <1>3 DEF s, Weight

\* luhnOK asks of the sum, whichever way it is reckoned, that ten divides it.
LEMMA LuhnBySum ==
    ASSUME NEW d \in Seq(0 .. 9)
    PROVE  \E f : /\ IsLuhnSum(f, d)
                  /\ luhnOK(d) <=> Len(d) \in CardMin .. CardMax /\ f[Len(d)] % 10 = 0
<1> DEFINE g == CHOOSE f : f = [k \in 0 .. Len(d) |->
            IF k = 0 THEN 0
            ELSE LET n == d[Len(d) - k + 1]
                 IN  f[k - 1] + (IF k % 2 = 0 THEN Doubled(n) ELSE n)]
<1>1. IsLuhnSum(g, d)
  BY LuhnSumExists, LenProperties, Zenon DEF IsLuhnSum
<1>2. luhnOK(d) <=> Len(d) \in CardMin .. CardMax /\ g[Len(d)] % 10 = 0
  BY Zenon DEF luhnOK
<1> QED
  BY <1>1, <1>2, Zenon

LEMMA WeightDigit ==
    ASSUME NEW k \in Nat, NEW v \in 0 .. 9
    PROVE  Weight(k, v) \in Int /\ Weight(k, v) \in 0 .. 9
BY DEF Weight, Doubled

LEMMA LuhnSumInt ==
    ASSUME NEW d \in Seq(0 .. 9), NEW f, IsLuhnSum(f, d)
    PROVE  \A k \in 0 .. Len(d) : f[k] \in Int
<1> DEFINE T == {k \in Nat : k \in 0 .. Len(d) => f[k] \in Int}
<1>1. 0 \in T
  BY LuhnSumSteps
<1>2. ASSUME NEW k \in Nat, k \in T PROVE k + 1 \in T
  <2> SUFFICES ASSUME k + 1 \in 0 .. Len(d) PROVE f[k + 1] \in Int
    OBVIOUS
  <2>1. k + 1 \in 1 .. Len(d) /\ (k + 1) - 1 = k /\ k \in 0 .. Len(d)
    OBVIOUS
  <2>2. d[Len(d) - (k + 1) + 1] \in 0 .. 9
    <3>1. Len(d) - (k + 1) + 1 \in 1 .. Len(d)
      BY <2>1
    <3> QED BY <3>1, ElementOfSeq
  <2>3. Weight(k + 1, d[Len(d) - (k + 1) + 1]) \in Int
    <3>1. k + 1 \in Nat
      OBVIOUS
    <3>2. \A v \in 0 .. 9 : Weight(k + 1, v) \in Int
      BY <3>1, WeightDigit
    <3> QED BY <2>2, <3>2
  <2>4. f[k + 1] = f[k] + Weight(k + 1, d[Len(d) - (k + 1) + 1])
    BY <2>1, LuhnSumSteps
  <2> QED BY <1>2, <2>1, <2>3, <2>4
<1> HIDE DEF T
<1>3. Nat \subseteq T
  BY <1>1, <1>2, NatSetInduction
<1> QED
  BY <1>3 DEF T

\* e is d, both of n digits, but for the i-th, which is the m-th from the right.
OneChanged(d, e, n, i, m) ==
    /\ n = Len(d) /\ n = Len(e) /\ m = n - i + 1
    /\ \A j \in 1 .. n : j # i => e[j] = d[j]

\* One digit changed changes the sum by what that digit adds.
LEMMA LuhnChange ==
    ASSUME NEW d \in Seq(0 .. 9), NEW e \in Seq(0 .. 9), NEW n \in Nat, NEW i \in 1 .. n,
           NEW m \in 1 .. n, OneChanged(d, e, n, i, m),
           NEW f, IsLuhnSum(f, d), NEW g, IsLuhnSum(g, e)
    PROVE  /\ f[n] \in Int /\ g[n] \in Int
           /\ g[n] = f[n] + Weight(m, e[i]) - Weight(m, d[i])
<1>1. n = Len(d) /\ n = Len(e)
  BY DEF OneChanged
<1>2. /\ m = n - i + 1
      /\ \A j \in 1 .. n : j # i => e[j] = d[j]
  BY DEF OneChanged
<1>3. PICK a \in Int : a = Weight(m, e[i]) - Weight(m, d[i])
  <2>1. e[i] \in 0 .. 9 /\ d[i] \in 0 .. 9 /\ m \in Nat
    <3>1. i \in 1 .. Len(d) /\ i \in 1 .. Len(e)
      BY <1>1
    <3> QED BY <3>1, ElementOfSeq
  <2>2. Weight(m, e[i]) \in Int /\ Weight(m, d[i]) \in Int
    BY <2>1, WeightDigit
  <2> QED BY <2>2
<1>4. \A k \in 0 .. n : f[k] \in Int /\ g[k] \in Int
  BY <1>1, LuhnSumInt
<1> DEFINE T == {k \in Nat : k \in 0 .. n => g[k] = f[k] + (IF k < m THEN 0 ELSE a)}
<1>5. 0 \in T
  BY <1>1, <1>2, LuhnSumSteps
<1>6. ASSUME NEW k \in Nat, k \in T PROVE k + 1 \in T
  <2> SUFFICES ASSUME k + 1 \in 0 .. n PROVE g[k + 1] = f[k + 1] + (IF k + 1 < m THEN 0 ELSE a)
    OBVIOUS
  <2>1. PICK c \in 1 .. n : c = k + 1 /\ c - 1 = k /\ k \in 0 .. n
    BY <1>1
  <2>2. PICK j \in 1 .. n : j = n - c + 1
    OBVIOUS
  <2>3. d[j] \in 0 .. 9 /\ e[j] \in 0 .. 9
    BY <1>1, ElementOfSeq
  <2>4. /\ f[c] = f[k] + Weight(c, d[j])
        /\ g[c] = g[k] + Weight(c, e[j])
    <3>1. \A b \in 1 .. Len(d) : f[b] = f[b - 1] + Weight(b, d[Len(d) - b + 1])
      BY <1>1, LuhnSumSteps
    <3>2. \A b \in 1 .. Len(e) : g[b] = g[b - 1] + Weight(b, e[Len(e) - b + 1])
      BY <1>1, LuhnSumSteps
    <3>3. c \in 1 .. Len(d) /\ c \in 1 .. Len(e) /\ Len(d) - c + 1 = j /\ Len(e) - c + 1 = j
      BY <1>1, <2>2
    <3> QED BY <2>1, <3>1, <3>2, <3>3
  <2>5. Weight(c, d[j]) \in Int /\ Weight(c, e[j]) \in Int
    <3>1. c \in Nat
      OBVIOUS
    <3> QED BY <2>3, <3>1, WeightDigit
  <2>6. g[k] = f[k] + (IF k < m THEN 0 ELSE a)
    BY <1>6, <2>1
  <2>7. CASE j = i
    <3>1. c = m /\ k < m
      BY <1>2, <2>1, <2>2, <2>7
    <3>2. Weight(c, e[j]) = Weight(c, d[j]) + a
      <4>1. a = Weight(c, e[j]) - Weight(c, d[j])
        BY <1>3, <2>7, <3>1
      <4> QED BY <2>5, <4>1
    <3>3. g[c] = f[c] + a
      BY <1>4, <2>1, <2>4, <2>5, <2>6, <3>1, <3>2
    <3> QED BY <2>1, <3>1, <3>3
  <2>8. CASE j # i
    <3>1. c # m /\ (k < m <=> c < m)
      BY <1>2, <2>1, <2>2, <2>8
    <3>2. e[j] = d[j]
      BY <1>2, <2>8
    <3>3. g[c] = f[c] + (IF c < m THEN 0 ELSE a)
      BY <1>4, <2>1, <2>4, <2>5, <2>6, <3>1, <3>2
    <3> QED BY <2>1, <3>3
  <2> QED BY <2>7, <2>8
<1> HIDE DEF T
<1>7. Nat \subseteq T
  BY <1>5, <1>6, NatSetInduction
<1>8. g[n] = f[n] + a
  BY <1>2, <1>7 DEF T
<1>9. f[n] \in Int /\ Weight(m, e[i]) \in Int /\ Weight(m, d[i]) \in Int
  <2>1. e[i] \in 0 .. 9 /\ d[i] \in 0 .. 9 /\ m \in Nat /\ n \in 0 .. n
    <3>1. i \in 1 .. Len(d) /\ i \in 1 .. Len(e)
      BY <1>1
    <3> QED BY <3>1, ElementOfSeq
  <2>2. Weight(m, e[i]) \in Int /\ Weight(m, d[i]) \in Int
    BY <2>1, WeightDigit
  <2> QED BY <1>4, <2>1, <2>2
<1>10. g[n] = f[n] + Weight(m, e[i]) - Weight(m, d[i])
  BY <1>3, <1>8, <1>9
<1> QED
  BY <1>4, <1>10

\* No two digits add the same; two that may be swapped add up to different sums.
LEMMA WeightsDiffer ==
    ASSUME NEW k \in Nat, NEW u \in 0 .. 9, NEW v \in 0 .. 9, u # v
    PROVE  Weight(k, u) # Weight(k, v)
BY DEF Weight, Doubled

LEMMA SwapsDiffer ==
    ASSUME NEW k \in Nat, NEW u \in 0 .. 9, NEW v \in 0 .. 9, u # v, {u, v} # {0, 9}
    PROVE  (Weight(k + 1, v) + Weight(k, u)) - (Weight(k + 1, u) + Weight(k, v)) \in (-9 .. 9) \ {0}
<1>1. ~(u = 0 /\ v = 9) /\ ~(u = 9 /\ v = 0)
  OBVIOUS
<1>2. (k % 2 = 0 /\ (k + 1) % 2 = 1) \/ (k % 2 = 1 /\ (k + 1) % 2 = 0)
  OBVIOUS
<1>3. CASE k % 2 = 0 /\ (k + 1) % 2 = 1
  BY <1>1, <1>3 DEF Weight, Doubled
<1>4. CASE k % 2 = 1 /\ (k + 1) % 2 = 0
  BY <1>1, <1>4 DEF Weight, Doubled
<1> QED
  BY <1>2, <1>3, <1>4

LEMMA DigitsApart ==
    ASSUME NEW u \in 0 .. 9, NEW v \in 0 .. 9, u # v
    PROVE  u - v \in (-9 .. 9) \ {0}
OBVIOUS

LEMMA TensApart ==
    ASSUME NEW x \in Int, NEW y \in Int, y - x \in (-9 .. 9) \ {0}, x % 10 = 0
    PROVE  y % 10 # 0
OBVIOUS

LEMMA ChangeDetected ==
    ASSUME NEW d \in Seq(0 .. 9), luhnOK(d), NEW i \in DOMAIN d, NEW x \in (0 .. 9) \ {d[i]}
    PROVE  ~luhnOK([d EXCEPT ![i] = x])
<1>1. PICK n \in Nat : n = Len(d)
  BY LenProperties
<1>2. PICK e : e = [d EXCEPT ![i] = x]
  OBVIOUS
<1>3. /\ e \in Seq(0 .. 9) /\ Len(e) = n /\ e[i] = x /\ i \in 1 .. n
      /\ \A j \in 1 .. n : j # i => e[j] = d[j]
  BY <1>1, <1>2
<1>4. PICK f : IsLuhnSum(f, d) /\ f[n] % 10 = 0
  BY <1>1, LuhnBySum
<1>5. PICK g : IsLuhnSum(g, e) /\ (luhnOK(e) => g[n] % 10 = 0)
  BY <1>3, LuhnBySum
<1>6. PICK m \in 1 .. n : m = n - i + 1
  BY <1>3
<1>7. f[n] \in Int /\ g[n] \in Int /\ g[n] = f[n] + Weight(m, e[i]) - Weight(m, d[i])
  <2>1. OneChanged(d, e, n, i, m)
    BY <1>1, <1>3, <1>6 DEF OneChanged
  <2> QED BY <1>3, <1>4, <1>5, <2>1, LuhnChange
<1>8. d[i] \in 0 .. 9 /\ x \in 0 .. 9 /\ x # d[i] /\ m \in Nat
  BY <1>1, <1>3, ElementOfSeq
<1>9. PICK u, v \in 0 .. 9 : u = Weight(m, x) /\ v = Weight(m, d[i]) /\ u # v
  BY <1>8, WeightDigit, WeightsDiffer
<1>10. PICK p, q \in Int : p = f[n] /\ q = g[n]
  BY <1>7
<1>11. q = p + u - v
  BY <1>3, <1>7, <1>9, <1>10
<1>12. q - p \in (-9 .. 9) \ {0}
  <2>1. q - p = u - v
    BY <1>11
  <2>2. u - v \in (-9 .. 9) \ {0}
    BY <1>9, DigitsApart
  <2> QED BY <2>1, <2>2
<1>13. q % 10 # 0
  BY <1>4, <1>10, <1>12, TensApart
<1> QED
  BY <1>2, <1>5, <1>10, <1>13

LEMMA SwapDetected ==
    ASSUME NEW d \in Seq(0 .. 9), luhnOK(d), NEW i \in 1 .. Len(d) - 1,
           d[i] # d[i + 1], {d[i], d[i + 1]} # {0, 9}
    PROVE  ~luhnOK([d EXCEPT ![i] = d[i + 1], ![i + 1] = d[i]])
<1>1. PICK n \in Nat : n = Len(d)
  BY LenProperties
<1>2. PICK j \in 1 .. n : j = i + 1
  BY <1>1
<1>3. i \in 1 .. n /\ i # j
  BY <1>1, <1>2
<1>4. PICK u, v \in 0 .. 9 : u = d[i] /\ v = d[j] /\ u # v /\ {u, v} # {0, 9}
  BY <1>1, <1>2, <1>3, ElementOfSeq
<1>5. PICK b : b = [d EXCEPT ![i] = v]
  OBVIOUS
<1>6. PICK e : e = [b EXCEPT ![j] = u]
  OBVIOUS
<1>7. /\ b \in Seq(0 .. 9) /\ Len(b) = n /\ b[i] = v /\ b[j] = v
      /\ \A c \in 1 .. n : c # i => b[c] = d[c]
  BY <1>1, <1>3, <1>4, <1>5
<1>8. /\ e \in Seq(0 .. 9) /\ Len(e) = n /\ e[j] = u
      /\ \A c \in 1 .. n : c # j => e[c] = b[c]
  BY <1>3, <1>6, <1>7
<1>9. e = [d EXCEPT ![i] = d[i + 1], ![i + 1] = d[i]]
  BY <1>2, <1>3, <1>4, <1>5, <1>6
<1>10. PICK f : IsLuhnSum(f, d) /\ f[n] % 10 = 0
  BY <1>1, LuhnBySum
<1>11. PICK h : IsLuhnSum(h, b)
  BY <1>7, LuhnBySum
<1>12. PICK g : IsLuhnSum(g, e) /\ (luhnOK(e) => g[n] % 10 = 0)
  BY <1>8, LuhnBySum
<1>13. PICK k, m \in 1 .. n : k = n - j + 1 /\ m = n - i + 1
  BY <1>3
<1>14. f[n] \in Int /\ h[n] \in Int /\ h[n] = f[n] + Weight(m, b[i]) - Weight(m, d[i])
  <2>1. OneChanged(d, b, n, i, m)
    BY <1>1, <1>3, <1>7, <1>13 DEF OneChanged
  <2> QED BY <1>3, <1>7, <1>10, <1>11, <2>1, LuhnChange
<1>15. g[n] \in Int /\ g[n] = h[n] + Weight(k, e[j]) - Weight(k, b[j])
  <2>1. OneChanged(b, e, n, j, k)
    BY <1>7, <1>8, <1>13 DEF OneChanged
  <2> QED BY <1>7, <1>8, <1>11, <1>12, <2>1, LuhnChange
<1>16. k \in Nat /\ k + 1 = m /\ m \in Nat
  BY <1>2, <1>3, <1>13
<1>17. /\ Weight(k, u) \in Int /\ Weight(k, v) \in Int
       /\ Weight(m, u) \in Int /\ Weight(m, v) \in Int
  BY <1>16, WeightDigit
<1>18. PICK ku, kv, mu, mv \in Int :
          ku = Weight(k, u) /\ kv = Weight(k, v) /\ mu = Weight(m, u) /\ mv = Weight(m, v)
  BY <1>17
<1>19. (mv + ku) - (mu + kv) \in (-9 .. 9) \ {0}
  <2>1. (Weight(k + 1, v) + Weight(k, u)) - (Weight(k + 1, u) + Weight(k, v)) \in (-9 .. 9) \ {0}
    BY <1>4, <1>16, SwapsDiffer
  <2> QED BY <1>16, <1>18, <2>1
<1>20. PICK p, q, r \in Int : p = f[n] /\ q = g[n] /\ r = h[n]
  BY <1>14, <1>15
<1>21. r = p + mv - mu /\ q = r + ku - kv
  BY <1>4, <1>7, <1>8, <1>14, <1>15, <1>18, <1>20
<1>22. q - p = (mv + ku) - (mu + kv)
  BY <1>21
<1>23. q % 10 # 0
  BY <1>10, <1>19, <1>20, <1>22, TensApart
<1> QED
  BY <1>9, <1>12, <1>20, <1>23

IsValue(f, s) == f = [k \in 0 .. Len(s) |-> IF k = 0 THEN 0 ELSE 10 * f[k - 1] + s[k]]

LEMMA ValueExists ==
    ASSUME NEW s, Len(s) \in Nat
    PROVE  \E f : IsValue(f, s)
<1> DEFINE v(f, k) == IF k = 0 THEN 0 ELSE 10 * f[k - 1] + s[k]
           Upto(f, m) == f = [k \in 0 .. m |-> v(f, k)]
           T == {m \in Nat : \E f : Upto(f, m)}
<1>1. 0 \in T
  <2>1. Upto([k \in 0 .. 0 |-> 0], 0)
    OBVIOUS
  <2> QED BY <2>1
<1>2. ASSUME NEW m \in Nat, m \in T PROVE m + 1 \in T
  <2>1. PICK f : Upto(f, m)
    BY <1>2
  <2> DEFINE h == [k \in 0 .. m + 1 |-> IF k \in 0 .. m THEN f[k] ELSE v(f, k)]
  <2>2. \A k \in 0 .. m + 1 : k # 0 => k - 1 \in 0 .. m /\ h[k - 1] = f[k - 1]
    OBVIOUS
  <2>3. \A k \in 0 .. m : f[k] = v(f, k)
    <3> HIDE DEF v
    <3> QED BY <2>1
  <2>4. \A k \in 0 .. m + 1 : h[k] = v(f, k)
    <3> HIDE DEF v
    <3> QED BY <2>3
  <2>5. h = [k \in 0 .. m + 1 |-> h[k]]
    OBVIOUS
  <2> HIDE DEF h
  <2>6. \A k \in 0 .. m + 1 : v(h, k) = v(f, k)
    BY <2>2
  <2> HIDE DEF v
  <2>7. h = [k \in 0 .. m + 1 |-> v(h, k)]
    BY <2>4, <2>5, <2>6
  <2>8. Upto(h, m + 1)
    BY <2>7
  <2> HIDE DEF Upto
  <2> QED BY <2>8
<1> HIDE DEF T
<1>3. Len(s) \in T
  BY <1>1, <1>2, NatSetInduction
<1> QED
  BY <1>3 DEF T, IsValue

LEMMA ValueSteps ==
    ASSUME NEW s \in Seq(0 .. 9), NEW f, IsValue(f, s)
    PROVE  f[0] = 0 /\ \A k \in 1 .. Len(s) : f[k] = 10 * f[k - 1] + s[k]
<1> DEFINE v(k) == IF k = 0 THEN 0 ELSE 10 * f[k - 1] + s[k]
<1>1. f = [k \in 0 .. Len(s) |-> v(k)]
  BY DEF IsValue
<1> HIDE DEF v
<1>2. \A k \in 0 .. Len(s) : f[k] = v(k)
  BY <1>1
<1>3. \A k \in 1 .. Len(s) : k \in 0 .. Len(s) /\ k # 0
  OBVIOUS
<1> QED
  BY <1>2, <1>3 DEF v

LEMMA ValueByFunction ==
    ASSUME NEW s \in Seq(0 .. 9)
    PROVE  \E f : IsValue(f, s) /\ ValueOf(s) = f[Len(s)]
<1> DEFINE g == CHOOSE f : f = [k \in 0 .. Len(s) |-> IF k = 0 THEN 0 ELSE 10 * f[k - 1] + s[k]]
<1>1. IsValue(g, s)
  BY ValueExists, LenProperties, Zenon DEF IsValue
<1>2. ValueOf(s) = g[Len(s)]
  BY Zenon DEF ValueOf
<1> QED
  BY <1>1, <1>2, Zenon

LEMMA ValueOfNone == ValueOf(<< >>) = 0
<1>1. PICK f : IsValue(f, << >>) /\ ValueOf(<< >>) = f[Len(<< >>)]
  BY ValueByFunction, EmptySeq
<1>2. f[0] = 0
  BY <1>1, ValueSteps, EmptySeq
<1> QED
  BY <1>1, <1>2

\* One digit more.
LEMMA ValueOfAppend ==
    ASSUME NEW s \in Seq(0 .. 9), NEW x \in 0 .. 9
    PROVE  ValueOf(Append(s, x)) = 10 * ValueOf(s) + x
<1>1. PICK n \in Nat : n = Len(s)
  BY LenProperties
<1>2. PICK r : r = Append(s, x)
  OBVIOUS
<1>3. r \in Seq(0 .. 9) /\ Len(r) = n + 1 /\ r[n + 1] = x /\ \A k \in 1 .. n : r[k] = s[k]
  BY <1>1, <1>2, AppendProperties
<1>4. PICK f : IsValue(f, s) /\ ValueOf(s) = f[n]
  BY <1>1, ValueByFunction
<1>5. PICK g : IsValue(g, r) /\ ValueOf(r) = g[n + 1]
  BY <1>3, ValueByFunction
<1>6. f[0] = 0 /\ \A k \in 1 .. n : f[k] = 10 * f[k - 1] + s[k]
  BY <1>1, <1>4, ValueSteps
<1>7. g[0] = 0 /\ \A k \in 1 .. n + 1 : g[k] = 10 * g[k - 1] + r[k]
  BY <1>3, <1>5, ValueSteps
<1> DEFINE T == {k \in Nat : k \in 0 .. n => g[k] = f[k]}
<1>8. 0 \in T
  BY <1>6, <1>7
<1>9. ASSUME NEW k \in Nat, k \in T PROVE k + 1 \in T
  <2> SUFFICES ASSUME k + 1 \in 0 .. n PROVE g[k + 1] = f[k + 1]
    OBVIOUS
  <2>1. PICK c \in 1 .. n : c = k + 1 /\ c - 1 = k /\ k \in 0 .. n /\ c \in 1 .. n + 1
    OBVIOUS
  <2>2. f[c] = 10 * f[c - 1] + s[c] /\ g[c] = 10 * g[c - 1] + r[c] /\ r[c] = s[c]
    BY <1>3, <1>6, <1>7, <2>1
  <2>3. g[k] = f[k]
    BY <1>9, <2>1
  <2>4. f[c] = 10 * f[k] + s[c] /\ g[c] = 10 * g[k] + s[c]
    BY <2>1, <2>2, Zenon
  <2>5. g[c] = f[c]
    BY <2>3, <2>4, Zenon
  <2> QED BY <2>1, <2>5
<1> HIDE DEF T
<1>10. g[n] = f[n]
  <2>1. n \in T
    BY <1>8, <1>9, NatSetInduction
  <2> QED BY <2>1 DEF T
<1>11. g[n + 1] = 10 * g[n] + r[n + 1]
  <2>1. n + 1 \in 1 .. n + 1 /\ (n + 1) - 1 = n
    OBVIOUS
  <2> QED BY <1>7, <2>1
<1> QED
  BY <1>2, <1>3, <1>4, <1>5, <1>10, <1>11

\* The function the loop of itoa computes.
IsDigits(f) ==
    f = [k \in 0 .. -IntMin |-> IF k = 0 THEN << >> ELSE Append(f[k \div 10], k % 10)]

LEMMA DivideByTen ==
    ASSUME NEW k \in Nat, k # 0
    PROVE  /\ k \div 10 \in Nat /\ k \div 10 < k /\ k % 10 \in 0 .. 9
           /\ k = 10 * (k \div 10) + (k % 10)
OBVIOUS

LEMMA DigitsExist == \E f : IsDigits(f)
<1> DEFINE v(f, k) == IF k = 0 THEN << >> ELSE Append(f[k \div 10], k % 10)
           Upto(f, m) == f = [k \in 0 .. m |-> v(f, k)]
           T == {m \in Nat : \E f : Upto(f, m)}
<1>1. 0 \in T
  <2>1. Upto([k \in 0 .. 0 |-> << >>], 0)
    OBVIOUS
  <2> QED BY <2>1
<1>2. ASSUME NEW m \in Nat, m \in T PROVE m + 1 \in T
  <2>1. PICK f : Upto(f, m)
    BY <1>2
  <2> DEFINE h == [k \in 0 .. m + 1 |-> IF k \in 0 .. m THEN f[k] ELSE v(f, k)]
  <2>2. \A k \in 0 .. m + 1 : k # 0 => k \div 10 \in 0 .. m /\ h[k \div 10] = f[k \div 10]
    <3> SUFFICES ASSUME NEW k \in 0 .. m + 1, k # 0
                 PROVE  k \div 10 \in 0 .. m /\ h[k \div 10] = f[k \div 10]
      OBVIOUS
    <3>1. PICK q \in Nat : q = k \div 10 /\ q < k
      BY DivideByTen
    <3>2. q \in 0 .. m /\ q \in 0 .. m + 1
      BY <3>1
    <3>3. h[q] = f[q]
      BY <3>2
    <3> HIDE DEF h
    <3> QED BY <3>1, <3>2, <3>3
  <2>3. \A k \in 0 .. m : f[k] = v(f, k)
    <3> HIDE DEF v
    <3> QED BY <2>1
  <2>4. \A k \in 0 .. m + 1 : h[k] = v(f, k)
    <3> HIDE DEF v
    <3> QED BY <2>3
  <2>5. h = [k \in 0 .. m + 1 |-> h[k]]
    OBVIOUS
  <2> HIDE DEF h
  <2>6. \A k \in 0 .. m + 1 : v(h, k) = v(f, k)
    BY <2>2
  <2> HIDE DEF v
  <2>7. h = [k \in 0 .. m + 1 |-> v(h, k)]
    BY <2>4, <2>5, <2>6
  <2>8. Upto(h, m + 1)
    BY <2>7
  <2> HIDE DEF Upto
  <2> QED BY <2>8
<1> HIDE DEF T
<1>3. -IntMin \in T
  <2>1. -IntMin \in Nat
    BY ShapeConstants
  <2> QED BY <1>1, <1>2, <2>1, NatSetInduction
<1> QED
  BY <1>3 DEF T, IsDigits

LEMMA DigitsByFunction == \E f : IsDigits(f) /\ \A n : DigitsOf(n) = f[n]
<1> DEFINE g == CHOOSE f : f = [k \in 0 .. -IntMin |->
                                   IF k = 0 THEN << >> ELSE Append(f[k \div 10], k % 10)]
<1>1. IsDigits(g)
  BY DigitsExist, Zenon DEF IsDigits
<1>2. \A n : DigitsOf(n) = g[n]
  BY Zenon DEF DigitsOf
<1> QED
  BY <1>1, <1>2, Zenon

LEMMA DigitsOfSteps ==
    /\ DigitsOf(0) = << >>
    /\ \A k \in 0 .. -IntMin : k # 0 => DigitsOf(k) = Append(DigitsOf(k \div 10), k % 10)
<1> DEFINE v(f, k) == IF k = 0 THEN << >> ELSE Append(f[k \div 10], k % 10)
<1>1. PICK f : IsDigits(f) /\ \A n : DigitsOf(n) = f[n]
  BY DigitsByFunction
<1>2. f = [k \in 0 .. -IntMin |-> v(f, k)]
  BY <1>1 DEF IsDigits
<1> HIDE DEF v
<1>3. \A k \in 0 .. -IntMin : f[k] = v(f, k)
  BY <1>2
<1>4. 0 \in 0 .. -IntMin
  BY ShapeConstants
<1> QED
  BY <1>1, <1>3, <1>4 DEF v

\* What the digits of n are: of the value n, the first of them not 0.
DigitsGood(n) ==
    /\ DigitsOf(n) \in Seq(0 .. 9)
    /\ ValueOf(DigitsOf(n)) = n
    /\ n # 0 => DigitsOf(n) # << >> /\ DigitsOf(n)[1] # 0

LEMMA DigitsAreGood == \A n \in 0 .. -IntMin : DigitsGood(n)
<1>1. PICK m \in Nat : m = -IntMin
  BY ShapeConstants
<1> DEFINE T == {k \in Nat : \A n \in 0 .. k : n <= m => DigitsGood(n)}
<1>2. DigitsGood(0)
  BY DigitsOfSteps, ValueOfNone, EmptySeq DEF DigitsGood
<1>3. 0 \in T
  BY <1>2
<1>4. ASSUME NEW k \in Nat, k \in T PROVE k + 1 \in T
  <2> SUFFICES ASSUME k + 1 <= m PROVE DigitsGood(k + 1)
    BY <1>4
  <2>1. PICK n \in Nat : n = k + 1 /\ n # 0
    OBVIOUS
  <2>2. PICK q \in Nat, x \in 0 .. 9 : q = n \div 10 /\ x = n % 10 /\ q < n /\ n = 10 * q + x
    BY <2>1, DivideByTen
  <2>3. DigitsGood(q)
    <3>1. q \in 0 .. k /\ q <= m
      BY <2>1, <2>2
    <3> QED BY <1>4, <3>1
  <2>4. PICK s \in Seq(0 .. 9) : s = DigitsOf(q) /\ ValueOf(s) = q /\ (q # 0 => s # << >> /\ s[1] # 0)
    BY <2>3 DEF DigitsGood
  <2>5. DigitsOf(n) = Append(s, x)
    <3>1. n \in 0 .. -IntMin
      BY <1>1, <2>1
    <3> QED BY <2>1, <2>2, <2>4, <3>1, DigitsOfSteps
  <2>6. PICK r : r = Append(s, x)
    OBVIOUS
  <2>7. r \in Seq(0 .. 9) /\ r # << >>
    BY <2>6, AppendProperties
  <2>8. ValueOf(r) = n
    BY <2>2, <2>4, <2>6, ValueOfAppend
  <2>9. r[1] # 0
    <3>1. CASE q = 0
      <4>1. s = << >>
        BY <2>4, <3>1, DigitsOfSteps
      <4>2. r[1] = x /\ x = n
        BY <2>2, <2>6, <3>1, <4>1
      <4> QED BY <2>1, <4>2
    <3>2. CASE q # 0
      <4>1. 1 \in 1 .. Len(s)
        BY <2>4, <3>2, EmptySeq
      <4>2. r[1] = s[1]
        BY <2>6, <4>1, AppendProperties
      <4> QED BY <2>4, <3>2, <4>2
    <3> QED BY <3>1, <3>2
  <2> QED BY <2>1, <2>5, <2>6, <2>7, <2>8, <2>9 DEF DigitsGood
<1> HIDE DEF T
<1>5. m \in T
  BY <1>3, <1>4, NatSetInduction
<1> QED
  BY <1>1, <1>5 DEF T

\* A greater number has no fewer digits.
LEMMA DigitsGrow ==
    \A n \in 0 .. -IntMin : \A j \in 0 .. n : Len(DigitsOf(j)) <= Len(DigitsOf(n))
<1>1. PICK m \in Nat : m = -IntMin
  BY ShapeConstants
<1> DEFINE Below(n) == \A j \in 0 .. n : Len(DigitsOf(j)) <= Len(DigitsOf(n))
           T == {k \in Nat : \A n \in 0 .. k : n <= m => Below(n)}
<1>2. \A n \in 0 .. m : DigitsOf(n) \in Seq(0 .. 9) /\ Len(DigitsOf(n)) \in Nat
  BY <1>1, DigitsAreGood, LenProperties DEF DigitsGood
<1>3. 0 \in T
  BY <1>2
<1>4. ASSUME NEW k \in Nat, k \in T PROVE k + 1 \in T
  <2> SUFFICES ASSUME k + 1 <= m PROVE Below(k + 1)
    BY <1>4
  <2>1. PICK n \in Nat : n = k + 1 /\ n # 0 /\ n \in 0 .. m
    OBVIOUS
  <2>2. ASSUME NEW c \in 1 .. n
        PROVE  /\ c \div 10 \in 0 .. k /\ c \div 10 <= n \div 10
               /\ Len(DigitsOf(c)) = Len(DigitsOf(c \div 10)) + 1
    <3>1. PICK q \in Nat, x \in 0 .. 9 : q = c \div 10 /\ x = c % 10 /\ q < c
      BY DivideByTen
    <3>2. q \in 0 .. m /\ q \in 0 .. k /\ c \in 0 .. -IntMin /\ c # 0
      BY <1>1, <2>1, <3>1
    <3>3. DigitsOf(c) = Append(DigitsOf(q), x)
      BY <3>1, <3>2, DigitsOfSteps
    <3>4. Len(DigitsOf(c)) = Len(DigitsOf(q)) + 1
      BY <1>2, <3>2, <3>3, AppendProperties
    <3>5. c \div 10 <= n \div 10
      BY <2>1
    <3> QED BY <3>1, <3>2, <3>4, <3>5
  <2>3. ASSUME NEW j \in 0 .. n PROVE Len(DigitsOf(j)) <= Len(DigitsOf(n))
    <3>1. CASE j = 0
      <4>1. Len(DigitsOf(j)) = 0
        BY <3>1, DigitsOfSteps, EmptySeq
      <4> QED BY <1>2, <2>1, <4>1
    <3>2. CASE j # 0
      <4>1. PICK p, q \in Nat : /\ p = j \div 10 /\ q = n \div 10 /\ p \in 0 .. k /\ q \in 0 .. k /\ p <= q
                                /\ Len(DigitsOf(j)) = Len(DigitsOf(p)) + 1
                                /\ Len(DigitsOf(n)) = Len(DigitsOf(q)) + 1
        <5>1. j \in 1 .. n /\ n \in 1 .. n
          BY <2>1, <3>2
        <5>2. /\ j \div 10 \in 0 .. k /\ n \div 10 \in 0 .. k /\ j \div 10 <= n \div 10
              /\ Len(DigitsOf(j)) = Len(DigitsOf(j \div 10)) + 1
              /\ Len(DigitsOf(n)) = Len(DigitsOf(n \div 10)) + 1
          BY <2>2, <5>1
        <5> QED BY <5>2
      <4>2. p \in 0 .. q /\ q <= m /\ q \in 0 .. k /\ p \in 0 .. m /\ q \in 0 .. m
        BY <2>1, <4>1
      <4>3. Len(DigitsOf(p)) <= Len(DigitsOf(q))
        BY <1>4, <4>2
      <4> QED BY <1>2, <4>1, <4>2, <4>3
    <3> QED BY <3>1, <3>2
  <2> QED BY <2>1, <2>3
<1> HIDE DEF T
<1>5. m \in T
  BY <1>3, <1>4, NatSetInduction
<1> QED
  BY <1>1, <1>5 DEF T

LEMMA NumbersAreDigits ==
    ASSUME NEW d \in Numbers
    PROVE  d \in Seq(0 .. 9) /\ DOMAIN d = 1 .. Len(d)
<1>1. PICK n \in CardMin - 1 .. CardMax + 1 : d \in [1 .. n -> Digits]
  BY DEF Numbers
<1>2. n \in Nat /\ d \in [1 .. n -> 0 .. 9]
  <2>1. n \in Nat
    BY ShapeConstants
  <2>2. d \in [1 .. n -> 0 .. 9]
    BY <1>1, ShapeConstants
  <2> QED BY <2>1, <2>2
<1>3. d \in Seq(0 .. 9)
  BY <1>2, SeqDef
<1> QED
  BY <1>3, LenProperties

\* Which calls answer, or return digits.
LEMMA WhoReckons ==
    ASSUME call \in Calls, Return
    PROVE  /\ result'.kind = "answer" => /\ call.d \in Numbers
                                         /\ result'.ok = luhnOK(call.d)
           /\ result'.kind = "digits" => /\ call.i \in IntMin .. -IntMin - 1
                                         /\ result' = itoa(call.i)
<1>1. call.fn \in {"phone", "card", "IBAN", "partial", "email", "secretIBAN", "JWT", "secretJWT",
                   "luhn", "itoa"}
  BY DEF Calls
<1>2. call.fn = "luhn" => call.d \in Numbers
  BY DEF Calls
<1>3. call.fn = "itoa" => call.i \in IntMin .. -IntMin - 1
  BY DEF Calls
<1>4. \A s : Shape(s).kind = "shape"
  BY DEF Shape
<1>5. \A n : maskEmail(n).kind \in {"panic", "shape"}
  BY <1>4 DEF maskEmail
<1>6. \A n : itoa(n).kind = "digits"
  BY DEF itoa
<1>7. call.fn \in {"phone", "card", "IBAN", "partial", "JWT", "secretJWT", "secretIBAN"}
          => result'.kind = "shape"
  BY <1>4 DEF Return
<1>8. call.fn = "email" => result'.kind \in {"panic", "shape"}
  BY <1>5 DEF Return
<1>9. call.fn = "luhn" => result' = [kind |-> "answer", ok |-> luhnOK(call.d)]
  BY DEF Return
<1>10. call.fn = "itoa" => result' = itoa(call.i)
  BY DEF Return
<1> QED
  BY <1>1, <1>2, <1>3, <1>6, <1>7, <1>8, <1>9, <1>10

LEMMA ItoaRight ==
    ASSUME NEW i \in IntMin .. -IntMin - 1, i # IntMin
    PROVE  /\ ValueOf(itoa(i).digits) = IF i < 0 THEN -i ELSE i
           /\ itoa(i).minus = (i < 0)
           /\ Len(itoa(i).digits) > 1 => itoa(i).digits[1] # 0
           /\ Len(itoa(i).digits) <= Len(DigitsOf(-IntMin))
<1>1. PICK m \in Nat : m = -IntMin /\ m # 0
  BY ShapeConstants
<1>2. CASE i = 0
  <2>1. itoa(i) = [kind |-> "digits", minus |-> FALSE, digits |-> <<0>>]
    BY <1>2 DEF itoa
  <2>2. ValueOf(<<0>>) = 0
    <3>1. <<0>> = Append(<< >>, 0) /\ << >> \in Seq(0 .. 9) /\ 0 \in 0 .. 9
      OBVIOUS
    <3>2. ValueOf(Append(<< >>, 0)) = 10 * ValueOf(<< >>) + 0
      BY <3>1, ValueOfAppend
    <3> QED BY <3>1, <3>2, ValueOfNone
  <2>3. Len(DigitsOf(m)) >= 1
    <3>1. DigitsOf(m) \in Seq(0 .. 9) /\ DigitsOf(m) # << >>
      BY <1>1, DigitsAreGood DEF DigitsGood
    <3> QED BY <3>1, EmptySeq, LenProperties
  <2>4. PICK s : s = itoa(i).digits /\ s = <<0>> /\ itoa(i).minus = FALSE
    BY <2>1
  <2>5. Len(s) = 1 /\ Len(s) <= Len(DigitsOf(-IntMin))
    <3>1. Len(DigitsOf(m)) \in Nat
      BY <1>1, DigitsAreGood, LenProperties DEF DigitsGood
    <3> QED BY <1>1, <2>3, <2>4, <3>1
  <2>6. ValueOf(s) = 0 /\ (i < 0) = FALSE /\ i = 0
    BY <1>2, <2>2, <2>4
  <2>7. itoa(i).minus = (i < 0)
    BY <2>4, <2>6, Zenon
  <2>8. ValueOf(s) = (IF i < 0 THEN -i ELSE i) /\ ~(Len(s) > 1)
    BY <1>2, <2>5, <2>6
  <2> QED BY <2>4, <2>5, <2>7, <2>8, Zenon
<1>3. CASE i # 0
  <2>1. PICK n \in 0 .. m : n = (IF i < 0 THEN -i ELSE i) /\ n # 0
    BY <1>1, <1>3, ShapeConstants
  <2>2. itoa(i) = [kind |-> "digits", minus |-> i < 0, digits |-> DigitsOf(n)]
    BY <1>3, <2>1 DEF itoa
  <2>3. DigitsGood(n) /\ Len(DigitsOf(n)) <= Len(DigitsOf(m))
    <3>1. m \in 0 .. -IntMin /\ n \in 0 .. -IntMin
      BY <1>1
    <3> QED BY <3>1, DigitsAreGood, DigitsGrow
  <2> QED BY <1>1, <2>1, <2>2, <2>3 DEF DigitsGood
<1> QED
  BY <1>2, <1>3

LEMMA ReturnReckons ==
    ASSUME call \in Calls, Return
    PROVE  DigitsRight'
<1>1. ASSUME result'.kind = "answer", result'.ok
      PROVE  /\ \A i \in DOMAIN call.d : \A x \in Digits \ {call.d[i]} :
                   ~luhnOK([call.d EXCEPT ![i] = x])
             /\ \A i \in 1 .. Len(call.d) - 1 :
                   (call.d[i] # call.d[i + 1] /\ {call.d[i], call.d[i + 1]} # {0, 9})
                       => ~luhnOK([call.d EXCEPT ![i] = call.d[i + 1], ![i + 1] = call.d[i]])
  <2>1. PICK d : d = call.d
    OBVIOUS
  <2>2. d \in Seq(0 .. 9) /\ luhnOK(d)
    BY <1>1, <2>1, WhoReckons, NumbersAreDigits
  <2>3. \A i \in DOMAIN d : \A x \in Digits \ {d[i]} : ~luhnOK([d EXCEPT ![i] = x])
    BY <2>2, ChangeDetected, ShapeConstants
  <2>4. \A i \in 1 .. Len(d) - 1 :
            (d[i] # d[i + 1] /\ {d[i], d[i + 1]} # {0, 9})
                => ~luhnOK([d EXCEPT ![i] = d[i + 1], ![i + 1] = d[i]])
    BY <2>2, SwapDetected
  <2> QED BY <2>1, <2>3, <2>4
<1>2. ASSUME result'.kind = "digits", call.i # IntMin
      PROVE  /\ ValueOf(result'.digits) = IF call.i < 0 THEN -call.i ELSE call.i
             /\ result'.minus = (call.i < 0)
             /\ Len(result'.digits) > 1 => result'.digits[1] # 0
             /\ Len(result'.digits) <= Len(DigitsOf(-IntMin))
  <2>1. PICK i \in IntMin .. -IntMin - 1 : i = call.i /\ i # IntMin /\ result' = itoa(i)
    BY <1>2, WhoReckons
  <2> QED BY <2>1, ItoaRight
<1>3. call' = call
  BY DEF Return
<1> QED
  BY <1>1, <1>2, <1>3 DEF DigitsRight

(***************************************************************************)
(* Card numbers of any length, and ints of any width: luhnOK (masker.go)   *)
(* detects a changed digit and swapped neighbours, and itoa (stack.go)     *)
(* writes the decimal digits, as DigitsRight says.                         *)
(***************************************************************************)
THEOREM DigitsAlwaysRight == ShapesSpec => []DigitsRight
<1> DEFINE Inv == call \in Calls /\ DigitsRight
<1>1. ShapesInit => Inv
  BY DEF ShapesInit, DigitsRight, Pending
<1>2. Inv /\ [Return]_shapeVars => Inv'
  <2> SUFFICES ASSUME Inv, [Return]_shapeVars PROVE Inv'
    OBVIOUS
  <2>1. CASE Return
    <3>1. DigitsRight' /\ call' = call
      BY <2>1, ReturnReckons DEF Return
    <3> QED BY <3>1 DEF Calls, Numbers
  <2>2. CASE UNCHANGED shapeVars
    BY <2>2 DEF DigitsRight, Calls, Numbers, shapeVars
  <2> QED BY <2>1, <2>2
<1>3. Inv => DigitsRight
  OBVIOUS
<1> QED
  BY <1>1, <1>2, <1>3, PTL DEF ShapesSpec

-----------------------------------------------------------------------------
(***************************************************************************)
(* The bodies of requests and responses (HttpPayload), for any lengths,    *)
(* any limits and any number of middlewares.                               *)
(***************************************************************************)
LogEntries == [limit : Nat, data : Nat, hides : SUBSET PayloadKeys, shown : SUBSET PayloadKeys,
               more : BOOLEAN]

\* The body of a request is whole while it fits the limits it was logged under.
WholeSoFar == (\A i \in DOMAIN logs : sent.length <= logs[i].limit) => body.length = sent.length

\* What the log says of a body of n bytes is true.
Honest(log, n) ==
    /\ "body_truncated" \in log.shown => n > log.data
    /\ (n > log.data /\ "body" \in log.shown /\ "body_truncated" \notin log.hides) =>
           "body_truncated" \in log.shown \/ log.more
    /\ (n > 0 /\ "body" \notin log.hides) => "body" \in log.shown \/ log.more

(***************************************************************************)
(* The inductive invariant.                                                *)
(***************************************************************************)
PayloadInv ==
    /\ PayloadTypeOK
    /\ sent.length \in Nat /\ body.length \in Nat
    /\ logs \in Seq(LogEntries)
    /\ logs = <<>> => body = sent
    /\ received \in {-1, body.length}
    /\ (kind = "request" /\ ~sent.fails) => WholeSoFar
    /\ (kind = "request" /\ logs # <<>>) => body.length = logs[Len(logs)].data
    /\ (logs # <<>> /\ ~sent.fails) => Honest(logs[1], sent.length)

LEMMA LimitIsPositive == \A f \in Int : limitOf(f) \in Nat \ {0}
<1> SUFFICES ASSUME NEW f \in Int PROVE limitOf(f) \in Nat \ {0}
  OBVIOUS
<1>1. f * BytesPerField \in Int
  BY PayloadConstants
<1> QED
  BY <1>1, PayloadConstants DEF limitOf

\* What readBody returns: nothing when reading fails, or the body up to the limit.
LEMMA ReadBodyFacts ==
    ASSUME body.length \in Nat, body.fails \in BOOLEAN, NEW limit \in Nat
    PROVE  /\ readBody(limit).data \in 0 .. body.length
           /\ readBody(limit).truncated \in BOOLEAN
           /\ ~body.fails =>
                 /\ readBody(limit).truncated <=> body.length > limit
                 /\ body.length > limit => readBody(limit).data = limit
                 /\ body.length <= limit => readBody(limit).data = body.length
<1>1. CASE body.length < limit + 1 /\ body.fails
  <2>1. readBody(limit) = [data |-> 0, truncated |-> FALSE]
    BY <1>1 DEF readBody
  <2> QED
    BY <1>1, <2>1
<1>2. CASE body.length < limit + 1 /\ ~body.fails
  <2>1. ~(body.length > limit)
    BY <1>2
  <2>2. readBody(limit).data = body.length
    BY <1>2, <2>1 DEF readBody
  <2>3. readBody(limit).truncated = (body.length > limit)
    BY <1>2, <2>1 DEF readBody
  <2> QED
    BY <2>1, <2>2, <2>3
<1>3. CASE ~(body.length < limit + 1)
  <2>1. body.length > limit /\ limit + 1 > limit /\ limit \in 0 .. body.length
    BY <1>3
  <2>2. readBody(limit) = [data |-> limit, truncated |-> TRUE]
    BY <1>3, <2>1, Zenon DEF readBody
  <2> QED
    BY <1>3, <2>1, <2>2
<1> QED
  BY <1>1, <1>2, <1>3

\* A dump leaves entries out, never others in; what hides them is Hides.
LEMMA VisitedFacts ==
    ASSUME NEW s, NEW h, NEW keys, NEW v \in Visited(s, keys, h)
    PROVE  v \subseteq keys
BY DEF Visited

\* What Log adds of a body it reads unharmed is honest about that body.
LEMMA LogHonest ==
    ASSUME NEW n \in Nat, NEW limit \in Nat \ {0}, NEW read, NEW s \in Settings, NEW v, NEW log,
           read.data \in Nat, read.truncated <=> n > limit,
           n > limit => read.data = limit, n <= limit => read.data = n,
           v \subseteq payload(read),
           log.data = read.data, log.hides = Hides(s), log.shown = v \ Hides(s),
           log.more = (s.depth > 0 /\ v # payload(read))
    PROVE  Honest(log, n)
<1>1. n > read.data <=> read.truncated
  OBVIOUS
<1>2. "body_truncated" \in payload(read) <=> read.truncated
  BY DEF payload
<1>3. n > 0 => "body" \in payload(read)
  BY DEF payload
<1>4. ASSUME NEW k \in PayloadKeys, k \notin Hides(s) PROVE s.depth > 0
  BY <1>4, PayloadConstants DEF Hides
<1>5. ASSUME NEW k \in PayloadKeys, k \in payload(read), k \notin Hides(s), k \notin log.shown
      PROVE  log.more
  <2>1. k \notin v
    BY <1>5
  <2>2. v # payload(read)
    BY <1>5, <2>1
  <2> QED BY <1>4, <1>5, <2>2
<1>6. "body" \in PayloadKeys /\ "body_truncated" \in PayloadKeys
  BY DEF PayloadKeys
<1> HIDE DEF payload
<1>7. "body_truncated" \in log.shown => n > read.data
  BY <1>1, <1>2
<1>8. (n > read.data /\ "body_truncated" \notin log.hides) => "body_truncated" \in log.shown \/ log.more
  BY <1>1, <1>2, <1>5, <1>6
<1>9. (n > 0 /\ "body" \notin log.hides) => "body" \in log.shown \/ log.more
  BY <1>3, <1>5, <1>6
<1> QED
  BY <1>7, <1>8, <1>9 DEF Honest

LEMMA PayloadInitially == PayloadInit => PayloadInv
<1> SUFFICES ASSUME PayloadInit PROVE PayloadInv
  OBVIOUS
<1>1. sent.length \in Nat /\ sent.fails \in BOOLEAN /\ body = sent /\ logs = <<>>
  BY PayloadConstants DEF PayloadInit, Body
<1>2. PayloadTypeOK
  BY <1>1 DEF PayloadInit, PayloadTypeOK
<1> QED
  BY <1>1, <1>2 DEF PayloadInit, PayloadInv, WholeSoFar

LEMMA LogPreserves ==
    ASSUME PayloadInv, NEW s \in Settings, NEW h \in HeaderFields, Log(s, h)
    PROVE  PayloadInv'
<1>1. PICK limit \in Nat \ {0} : limit = limitOf(s.fields)
  BY LimitIsPositive, PayloadConstants
<1>2. PICK read : read = readBody(limit)
  OBVIOUS
<1>3. /\ body.length \in Nat /\ sent.length \in Nat
      /\ sent.fails \in BOOLEAN /\ body.fails \in BOOLEAN
      /\ body.length \in 0 .. sent.length /\ body.fails \in {FALSE, sent.fails}
  BY DEF PayloadInv, PayloadTypeOK, Body
<1>4. /\ read.data \in 0 .. body.length /\ read.data \in Nat
      /\ ~body.fails => /\ read.truncated <=> body.length > limit
                        /\ body.length > limit => read.data = limit
                        /\ body.length <= limit => read.data = body.length
  BY <1>2, <1>3, ReadBodyFacts
<1>5. PICK v \in Visited(s, payload(read), h) :
          logs' = Append(logs, [limit |-> limit, data |-> read.data, hides |-> Hides(s),
                                shown |-> v \ Hides(s),
                                more |-> s.depth > 0 /\ v # payload(read)])
  BY <1>1, <1>2 DEF Log
<1>6. v \subseteq payload(read)
  BY VisitedFacts
<1>7. PICK entry : entry = [limit |-> limit, data |-> read.data, hides |-> Hides(s),
                            shown |-> v \ Hides(s),
                            more |-> s.depth > 0 /\ v # payload(read)]
  OBVIOUS
<1>8. entry \in LogEntries
  <2>1. Hides(s) \in SUBSET PayloadKeys
    BY PayloadConstants DEF Hides
  <2>2. payload(read) \subseteq PayloadKeys
    BY DEF payload, PayloadKeys
  <2>3. v \ Hides(s) \in SUBSET PayloadKeys /\ (s.depth > 0 /\ v # payload(read)) \in BOOLEAN
    BY <1>6, <2>2
  <2> QED BY <1>4, <1>7, <2>1, <2>3 DEF LogEntries
<1>9. /\ entry.limit = limit /\ entry.data = read.data /\ entry.hides = Hides(s)
      /\ entry.shown = v \ Hides(s) /\ entry.more = (s.depth > 0 /\ v # payload(read))
  BY <1>7
<1>10. /\ logs' \in Seq(LogEntries) /\ Len(logs') = Len(logs) + 1 /\ logs' # <<>>
       /\ DOMAIN logs' = DOMAIN logs \cup {Len(logs) + 1}
       /\ \A i \in DOMAIN logs : logs'[i] = logs[i]
       /\ logs'[Len(logs) + 1] = entry
  <2>1. logs' = Append(logs, entry) /\ logs \in Seq(LogEntries)
    BY <1>5, <1>7 DEF PayloadInv
  <2> QED BY <1>8, <2>1
<1>11. /\ body'.length = IF kind = "request" THEN read.data ELSE 0
       /\ body'.fails = FALSE
       /\ received' = -1 /\ received = -1 /\ sent' = sent /\ kind' = kind
  <2>1. body' = IF kind = "request" THEN [length |-> read.data, fails |-> FALSE]
                ELSE [length |-> 0, fails |-> FALSE]
    BY <1>1, <1>2 DEF Log, RestoreBody, NoBody
  <2> QED BY <2>1 DEF Log
<1>12. body'.length \in Nat /\ body'.length \in 0 .. sent.length
  BY <1>3, <1>4, <1>11
<1>13. PayloadTypeOK'
  <2>1. \A i \in DOMAIN logs' : logs'[i].data \in 0 .. sent.length
    BY <1>3, <1>4, <1>9, <1>10 DEF PayloadInv, PayloadTypeOK
  <2>2. received' \in -1 .. sent.length
    BY <1>3, <1>11
  <2>3. body'.fails \in {FALSE, sent'.fails}
    BY <1>11, Zenon
  <2> QED
    BY <1>11, <1>12, <2>1, <2>2, <2>3, Zenon DEF PayloadInv, PayloadTypeOK
<1>14. ASSUME kind = "request", ~sent.fails PROVE WholeSoFar'
  <2> SUFFICES ASSUME \A i \in DOMAIN logs' : sent.length <= logs'[i].limit
               PROVE  body'.length = sent.length
    BY <1>11 DEF WholeSoFar
  <2>1. sent.length <= limit /\ \A i \in DOMAIN logs : sent.length <= logs[i].limit
    BY <1>9, <1>10
  <2>2. body.length = sent.length /\ ~body.fails
    BY <1>3, <1>14, <2>1 DEF PayloadInv, WholeSoFar
  <2> QED
    BY <1>4, <1>11, <1>14, <2>1, <2>2
<1>15. ASSUME ~sent.fails PROVE Honest(logs'[1], sent.length)
  <2>1. CASE logs = <<>>
    <3>1. logs'[1] = entry /\ body = sent
      BY <1>10, <2>1 DEF PayloadInv
    <3>2. PICK n \in Nat : n = sent.length
      BY <1>3
    <3>3. /\ read.truncated <=> n > limit
          /\ n > limit => read.data = limit
          /\ n <= limit => read.data = n
      BY <1>4, <1>15, <3>1, <3>2
    <3>4. Honest(entry, n)
      BY <1>4, <1>6, <1>9, <3>3, LogHonest
    <3> QED BY <3>1, <3>2, <3>4
  <2>2. CASE logs # <<>>
    <3>1. 1 \in DOMAIN logs
      BY <2>2 DEF PayloadInv
    <3>2. logs'[1] = logs[1]
      BY <1>10, <3>1
    <3> QED
      BY <1>15, <2>2, <3>2 DEF PayloadInv
  <2> QED
    BY <2>1, <2>2
<1>16. kind = "request" => body'.length = logs'[Len(logs')].data
  BY <1>9, <1>10, <1>11
<1>17. received' \in {-1, body'.length} /\ sent'.length \in Nat
  BY <1>3, <1>11
<1>18. logs' \in Seq(LogEntries) /\ logs' # <<>>
  BY <1>10
<1> QED
  BY <1>11, <1>12, <1>13, <1>14, <1>15, <1>16, <1>17, <1>18, Zenon DEF PayloadInv

LEMMA PayloadStep == PayloadInv /\ [PayloadNext]_payloadVars => PayloadInv'
<1> SUFFICES ASSUME PayloadInv, [PayloadNext]_payloadVars PROVE PayloadInv'
  OBVIOUS
<1>1. CASE Receive
  <2>1. received' = body.length /\ received' \in -1 .. sent.length
    BY <1>1 DEF Receive, PayloadInv, PayloadTypeOK
  <2>2. kind' = kind /\ sent' = sent /\ body' = body /\ logs' = logs
    BY <1>1 DEF Receive
  <2>3. PayloadTypeOK'
    BY <2>1, <2>2, Zenon DEF PayloadInv, PayloadTypeOK
  <2>4. WholeSoFar' = WholeSoFar
    BY <2>2, Zenon DEF WholeSoFar
  <2> QED
    BY <2>1, <2>2, <2>3, <2>4, Zenon DEF PayloadInv
<1>2. CASE UNCHANGED payloadVars
  BY <1>2 DEF payloadVars, PayloadInv, PayloadTypeOK, WholeSoFar
<1> QED
  BY <1>1, <1>2, LogPreserves DEF PayloadNext

LEMMA PayloadInvariant == PayloadSpec => []PayloadInv
  BY PayloadInitially, PayloadStep, PTL DEF PayloadSpec

(***************************************************************************)
(* Bodies only ever get shorter, whoever logs them (payload_http.go).      *)
(***************************************************************************)
THEOREM PayloadTypeCorrect == PayloadSpec => []PayloadTypeOK
<1>1. PayloadInv => PayloadTypeOK
  BY DEF PayloadInv
<1> QED
  BY <1>1, PayloadInvariant, PTL

(***************************************************************************)
(* However many middlewares log a request, a body that fits all their      *)
(* limits reaches the handler whole (payload_http.go HTTPRequestWith).     *)
(***************************************************************************)
THEOREM FittingBodiesArrive == PayloadSpec => []FittingBodyArrives
<1>1. PayloadInv => FittingBodyArrives
  BY DEF PayloadInv, FittingBodyArrives, WholeSoFar, Received
<1> QED
  BY <1>1, PayloadInvariant, PTL

(***************************************************************************)
(* Whatever entries a dump has fields for, and in whichever order a Go map *)
(* gives them, the first log of a message shows no part of a body for the  *)
(* whole unless a rule hides body_truncated, and what the last one shows   *)
(* of a request's body is what the handler gets (payload_http.go, dump.go).*)
(***************************************************************************)
THEOREM LogsAreHonest == PayloadSpec => []LogsHonest
<1>1. PayloadInv => LogsHonest
  BY DEF PayloadInv, LogsHonest, Honest, Received, Last
<1> QED
  BY <1>1, PayloadInvariant, PTL

=============================================================================
