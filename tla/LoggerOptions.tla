---------------------------- MODULE LoggerOptions ----------------------------
(***************************************************************************)
(* How New of logger.go puts a Config together: the options of options.go, *)
(* applied in the order given to the defaults, the builders they read      *)
(* (MaskRules of masker.go, RemovalSet of removal.go), and the presets.    *)
(*                                                                         *)
(* Maps are objects of a heap, since a Config or a builder may come to     *)
(* share one.  A RemovalSet is a Go slice: an array and a length, and      *)
(* append writes into the array while it has room.                         *)
(***************************************************************************)
EXTENDS Integers, FiniteSets, Sequences, SequencesExt

CONSTANTS
    Names,           \* attribute keys, normalized
    MaskTypes,       \* strategies of masker.go
    Levels,          \* levels with a name of their own
    Labels,          \* level names
    defaultLevelNames,   \* [a subset of Levels -> Labels], of levels.go
    CorporateMaskRules,  \* [a subset of Names -> MaskTypes]
    Limits,          \* arguments of WithDumpLimits and WithStackDepth
    MaxLoggers,      \* bound: loggers made
    MaxSets,         \* bound: RemovalSets made
    MaxKeys,         \* bound: keys of a RemovalSet
    MaxOptions       \* bound: options given to one New

ASSUME OptionsAssumption ==
    /\ DOMAIN defaultLevelNames \subseteq Levels
    /\ defaultLevelNames \in [DOMAIN defaultLevelNames -> Labels]
    /\ DOMAIN CorporateMaskRules \subseteq Names
    /\ CorporateMaskRules \in [DOMAIN CorporateMaskRules -> MaskTypes]
    /\ Limits \subseteq Int
    /\ MaxOptions \in Nat

VARIABLES
    heap,       \* maps: 1 is the package's defaultLevelNames, 2 a MaskRules
    arrays,     \* backing arrays; 1 is that of a slice of the caller's
    sets,       \* RemovalSets: array and length
    given,      \* of each RemovalSet the keys it was given, and whether it never
                \* shared its array with another one (history)
    loggers     \* the Config of each logger, and what its options said (history)

optionVars == <<heap, arrays, sets, given, loggers>>

NoKey == "unused"
Builder == 2

\* A map of one entry, and map old with the entries of map new written into it.
Entry(key, value) == [k \in {key} |-> value]
Over(new, old) ==
    [k \in DOMAIN new \cup DOMAIN old |-> IF k \in DOMAIN new THEN new[k] ELSE old[k]]

\* A slice of the caller's with one key and room for another.
CallerKeys == [array |-> 1, len |-> 1]
Keys(s) == SubSeq(arrays[s.array], 1, s.len)

OptionsInit ==
    /\ heap = <<defaultLevelNames, <<>>>>
    /\ \E n \in Names : arrays = << <<n, NoKey>> >>
    /\ sets = <<>> /\ given = <<>> /\ loggers = <<>>

-----------------------------------------------------------------------------

\* NewRemovalSet(s...): the new set keeps the slice it is given.
NewRemovalSet(s) ==
    /\ Len(sets) < MaxSets
    /\ sets' = Append(sets, s)
    /\ LET sharing(i) == sets[i].array = s.array
       IN  given' = Append([i \in DOMAIN given |->
                               [given[i] EXCEPT !.alone = @ /\ ~sharing(i)]],
                           [keys |-> ToSet(Keys(s)), alone |-> \A i \in DOMAIN sets : ~sharing(i)])
    /\ UNCHANGED <<heap, arrays, loggers>>

\* Mutant: the grown array starts empty.
GrownEmpty(keys, name) == [i \in 1 .. Len(keys) |-> NoKey] \o <<name, NoKey>>

\* append beyond the array's end: a new array, with room to spare.
Grown(keys, name) == keys \o <<name, NoKey>>

Add(i, name) ==
    LET s == sets[i]
        room == s.len < Len(arrays[s.array])
    IN  /\ s.len < MaxKeys
        /\ given' = [given EXCEPT ![i].keys = @ \cup {name}]
        /\ arrays' = IF room THEN [arrays EXCEPT ![s.array][s.len + 1] = name]
                     ELSE Append(arrays, Grown(Keys(s), name))
        /\ sets' = [sets EXCEPT ![i] =
                      [array |-> IF room THEN s.array ELSE Len(arrays) + 1, len |-> s.len + 1]]
        /\ UNCHANGED <<heap, loggers>>

\* rules[normalizeKey(key)] = mType
AddRule(name, type) ==
    /\ heap' = [heap EXCEPT ![Builder] = Over(Entry(name, type), @)]
    /\ UNCHANGED <<arrays, sets, given, loggers>>

-----------------------------------------------------------------------------
(***************************************************************************)
(* The options.  b is what New is building: the heap and the Config.       *)
(***************************************************************************)

Options ==
    [opt : {"maskKey"}, name : Names, type : MaskTypes]
    \cup [opt : {"maskRules", "corporateMasking", "nilMasker"}]
    \cup [opt : {"corporateMasker"}, fingerprint : BOOLEAN]
    \cup [opt : {"removal"}, set : 1 .. Len(sets)]
    \cup [opt : {"levelName"}, level : Levels, label : Labels]
    \cup [opt : {"dumpLimits", "stackDepth"}, n : Limits]

DefaultMasker == [kind |-> "default", fingerprint |-> FALSE]
CorporateMasker(fingerprint) == [kind |-> "corporate", fingerprint |-> fingerprint]

defaultOptions(h) ==
    [heap |-> h \o <<<<>>, h[1]>>,
     cfg |-> [maskKeys |-> Len(h) + 1, levelNames |-> Len(h) + 2, removeKeys |-> {},
              masker |-> DefaultMasker,
             dumpDepth |-> 5, dumpFields |-> 64, stackDepth |-> 32]]

CopyInto(b, map, from) == [b EXCEPT !.heap[map] = Over(from, @)]

\* Mutant: the Config takes the map of the builder.
WithMaskRulesShared(b) == [b EXCEPT !.cfg.maskKeys = Builder]

WithMaskRules(b) == CopyInto(b, b.cfg.maskKeys, b.heap[Builder])

WithCorporateMasking(b) ==
    CopyInto([b EXCEPT !.cfg.masker = CorporateMasker(FALSE)],
             b.cfg.maskKeys, CorporateMaskRules)

\* Limits that are not positive, and a nil masker, are ignored.
positive(n, old) == IF n > 0 THEN n ELSE old

\* One number stands for both limits, each of which has the guard.
WithDumpLimits(b, n) ==
    [b EXCEPT !.cfg.dumpDepth = positive(n, @), !.cfg.dumpFields = positive(n, @)]

apply(b, o) ==
    CASE o.opt = "maskKey" -> CopyInto(b, b.cfg.maskKeys, Entry(o.name, o.type))
      [] o.opt = "maskRules" -> WithMaskRules(b)
      [] o.opt = "corporateMasking" -> WithCorporateMasking(b)
      [] o.opt = "corporateMasker" ->
            [b EXCEPT !.cfg.masker = CorporateMasker(o.fingerprint)]
      [] o.opt = "nilMasker" -> b
      [] o.opt = "removal" ->
            [b EXCEPT !.cfg.removeKeys = @ \cup ToSet(Keys(sets[o.set]))]
      [] o.opt = "levelName" -> CopyInto(b, b.cfg.levelNames, Entry(o.level, o.label))
      [] o.opt = "dumpLimits" -> WithDumpLimits(b, o.n)
      [] o.opt = "stackDepth" -> [b EXCEPT !.cfg.stackDepth = positive(o.n, @)]

Built(list) == FoldLeft(apply, defaultOptions(heap), list)

-----------------------------------------------------------------------------
(***************************************************************************)
(* What a list of options says: of the options that name a key, a level or *)
(* a masker, the last decides.                                             *)
(***************************************************************************)

Says(o) ==
    [maskKeys |->
        CASE o.opt = "maskKey" -> Entry(o.name, o.type)
          [] o.opt = "maskRules" -> heap[Builder]
          [] o.opt = "corporateMasking" -> CorporateMaskRules
          [] OTHER -> << >>,
     levelNames |-> IF o.opt = "levelName" THEN Entry(o.level, o.label) ELSE << >>,
     masker |->
        CASE o.opt = "corporateMasking" -> Entry("masker", CorporateMasker(FALSE))
          [] o.opt = "corporateMasker" -> Entry("masker", CorporateMasker(o.fingerprint))
          [] OTHER -> << >>]

\* Of each key, what the last entry of list that says something of it says.
LastSays(list, field) ==
    LET says(i) == Says(list[i])[field]
        who(k) == {i \in DOMAIN list : k \in DOMAIN says(i)}
    IN  [k \in UNION {DOMAIN says(i) : i \in DOMAIN list} |-> says(Max(who(k)))[k]]

Promise(list) ==
    [maskKeys |-> LastSays(list, "maskKeys"),
     levelNames |-> Over(LastSays(list, "levelNames"), heap[1]),
     masker |-> Over(LastSays(list, "masker"), Entry("masker", DefaultMasker))["masker"]]

New(list, preset) ==
    LET b == Built(list)
    IN  /\ Len(loggers) < MaxLoggers
        /\ heap' = b.heap
        /\ loggers' = Append(loggers, [cfg |-> b.cfg, said |-> Promise(list), preset |-> preset])
        /\ UNCHANGED <<arrays, sets, given>>

\* Default, Dev and MustDefault differ in what this module leaves out.
Default == <<[opt |-> "corporateMasking"]>>
Corporate == Default

RemovalSetNext ==
    \/ NewRemovalSet(CallerKeys)
    \/ \E i \in DOMAIN sets :
          \/ NewRemovalSet(sets[i])
          \/ \E n \in Names : Add(i, n)

OptionsNext ==
    \/ RemovalSetNext
    \/ \E n \in Names, t \in MaskTypes : AddRule(n, t)
    \/ \E k \in 0 .. MaxOptions : \E list \in [1 .. k -> Options] : New(list, "none")
    \/ New(Default, "Default")
    \/ New(Corporate, "Corporate")

OptionsSpec == OptionsInit /\ [][OptionsNext]_optionVars

-----------------------------------------------------------------------------

(***************************************************************************)
(* A logger masks, names levels and uses the masker as its own options     *)
(* said when it was made, the last one deciding: no later change of a      *)
(* builder, and no other logger's options, reach it; and whatever they say *)
(* its limits are positive, which dump.go and stack.go rely on (logger.go  *)
(* New, options.go).                                                       *)
(***************************************************************************)
OptionsDecide ==
    \A i \in DOMAIN loggers :
        LET c == loggers[i].cfg
            said == loggers[i].said
        IN  /\ heap[c.maskKeys] = said.maskKeys
            /\ heap[c.levelNames] = said.levelNames
            /\ c.masker = said.masker
            /\ c.dumpDepth > 0 /\ c.dumpFields > 0 /\ c.stackDepth > 0

(***************************************************************************)
(* A RemovalSet loses no key and gains none, however it grows, as long as  *)
(* no other set was ever made over its array (removal.go Add).             *)
(***************************************************************************)
AloneKeepsKeys ==
    \A i \in DOMAIN sets : given[i].alone => ToSet(Keys(sets[i])) = given[i].keys

=============================================================================
