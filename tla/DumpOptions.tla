---------------------------- MODULE DumpOptions -----------------------------
(***************************************************************************)
(* Dump calls beside the updates of ConfigStore (attr.go, dump.go).  A     *)
(* dump takes a Config by value, from a logger, from SetGlobalDumpConfig   *)
(* or from a literal; its options then write into the MaskKeys and         *)
(* RemoveKeys maps that value refers to, which for the first two sources   *)
(* are the maps of a published configuration; the walk reads them back.    *)
(*                                                                         *)
(* A map entry is a record [key, type]: writing a key replaces its type.   *)
(* The two maps stand as one, a removal rule having a key of its own.      *)
(***************************************************************************)
EXTENDS ConfigStore

CONSTANTS
    Dumpers,      \* goroutines that call Dump, DumpWith or SerializeDefault
    OptionSets,   \* what one call's mask and removal options may hold
    GlobalMap     \* the maps of the Config that init() stores in dumpCfg

ASSUME RulesAreEntries == Rules \subseteq [key : STRING, type : STRING]
ASSUME OptionsAreRules == OptionSets \subseteq SUBSET Rules
ASSUME SideMapsApart ==
    /\ ({GlobalMap} \cup Dumpers) \cap Addr = {}
    /\ GlobalMap \notin Dumpers

VARIABLES
    dumpMaps,     \* the maps the Config in dumpCfg refers to
    side,         \* contents of the maps that belong to no logger
    at,           \* where each dumper stands
    ref,          \* the maps its dumpOptions refer to
    pending,      \* option entries it has still to write
    given         \* the option entries of its call

dumperVars == <<at, ref, pending, given>>
dumpVars == <<dumpMaps, side, dumperVars>>

SideMap == {GlobalMap} \cup Dumpers
MapRef == Addr \cup SideMap

Entries(m) == IF m \in Addr THEN maps[m] ELSE side[m]
KeysOf(entries) == {e.key : e \in entries}

DumpInit ==
    /\ Init
    /\ dumpMaps = GlobalMap
    /\ side = [m \in SideMap |-> {}]
    /\ at = [d \in Dumpers |-> "idle"]
    /\ ref = [d \in Dumpers |-> d]
    /\ pending = [d \in Dumpers |-> {}]
    /\ given = [d \in Dumpers |-> {}]

-----------------------------------------------------------------------------

\* newDumpState: the options start from the maps of the Config value.
Begin(d, m, opts) ==
    /\ at[d] = "idle"
    /\ at' = [at EXCEPT ![d] = "options"]
    /\ ref' = [ref EXCEPT ![d] = m]
    /\ pending' = [pending EXCEPT ![d] = opts]
    /\ given' = [given EXCEPT ![d] = opts]
    /\ UNCHANGED <<storeVars, dumpMaps>>

\* DumpWith(l, ...): the snapshot l.Config() shares the maps of the Config.
DumpWithLogger(d, opts) ==
    /\ Begin(d, heap[cfgPtr].maps, opts)
    /\ UNCHANGED side

\* Dump(...): no logger, the Config in dumpCfg, which is never nil.
DumpWithGlobal(d, opts) ==
    /\ Begin(d, dumpMaps, opts)
    /\ UNCHANGED side

\* SerializeDefault, or a Config whose maps are nil: maps made for this call.
DumpWithDefaults(d, opts) ==
    /\ Begin(d, d, opts)
    /\ side' = [side EXCEPT ![d] = {}]

\* Mutant: the option starts a new map when it writes a key.
PutReplacing(entries, e) == {e}

\* o.maskKeys[normalizeKey(k)] = v
Put(entries, e) == {f \in entries : f.key # e.key} \cup {e}

\* One write of an option, in the order the ranged map happens to have.
WriteOption(d) ==
    /\ at[d] = "options"
    /\ \E e \in pending[d] :
          /\ pending' = [pending EXCEPT ![d] = @ \ {e}]
          /\ IF ref[d] \in Addr
                THEN /\ maps' = [maps EXCEPT ![ref[d]] = Put(@, e)]
                     /\ UNCHANGED side
                ELSE /\ side' = [side EXCEPT ![ref[d]] = Put(@, e)]
                     /\ UNCHANGED maps
    /\ UNCHANGED <<cfgPtr, heap, allocated, published, updaterVars, snap,
                   dumpMaps, at, ref, given>>

\* All options applied: st.value(v) walks, reading the maps at every key.
Walk(d) ==
    /\ at[d] = "options"
    /\ pending[d] = {}
    /\ at' = [at EXCEPT ![d] = "walk"]
    /\ UNCHANGED <<storeVars, dumpMaps, side, ref, pending, given>>

\* Mutant: the dump takes its keys out of the map again when it is done.
FinishCleaning(d) ==
    /\ at[d] = "walk"
    /\ at' = [at EXCEPT ![d] = "idle"]
    /\ maps' = IF ref[d] \in Addr THEN [maps EXCEPT ![ref[d]] = @ \ given[d]] ELSE maps
    /\ given' = [given EXCEPT ![d] = {}]
    /\ UNCHANGED <<cfgPtr, heap, allocated, published, updaterVars, snap,
                   dumpMaps, side, ref, pending>>

\* The dump returns and its locals are gone; no shared map is restored.
Finish(d) ==
    /\ at[d] = "walk"
    /\ at' = [at EXCEPT ![d] = "idle"]
    /\ ref' = [ref EXCEPT ![d] = d]
    /\ side' = [side EXCEPT ![d] = {}]
    /\ given' = [given EXCEPT ![d] = {}]
    /\ UNCHANGED <<storeVars, dumpMaps, pending>>

\* SetGlobalDumpConfig(&cfg) with cfg := l.Config().
SetGlobalDumpConfig ==
    /\ dumpMaps' = heap[cfgPtr].maps
    /\ UNCHANGED <<storeVars, side, dumperVars>>

DumpStep(d) ==
    \/ \E opts \in OptionSets : \/ DumpWithLogger(d, opts)
                                \/ DumpWithGlobal(d, opts)
                                \/ DumpWithDefaults(d, opts)
    \/ WriteOption(d)
    \/ Walk(d)
    \/ Finish(d)

DumpNext ==
    \/ Next /\ UNCHANGED dumpVars
    \/ \E d \in Dumpers : DumpStep(d)
    \/ SetGlobalDumpConfig

DumpSpec == DumpInit /\ [][DumpNext]_<<storeVars, dumpVars>>

-----------------------------------------------------------------------------

DumpTypeOK ==
    /\ TypeOK
    /\ dumpMaps \in Addr \cup {GlobalMap}
    /\ side \in [SideMap -> SUBSET Rules]
    /\ at \in [Dumpers -> {"idle", "options", "walk"}]
    /\ ref \in [Dumpers -> MapRef]
    /\ pending \in [Dumpers -> SUBSET Rules]
    /\ given \in [Dumpers -> SUBSET Rules]

(***************************************************************************)
(* While a dump walks, every key its options named has a rule in the maps  *)
(* it reads, although other dumps and updates write those maps or their    *)
(* copies meanwhile (dump.go WithDumpMaskKeys, WithDumpRemoval).  The rule *)
(* may be another dump's: only the key is certain.                         *)
(***************************************************************************)
OwnKeysMasked ==
    \A d \in Dumpers : at[d] = "walk" => KeysOf(given[d]) \subseteq KeysOf(Entries(ref[d]))

(***************************************************************************)
(* Sharing the maps never unmasks: no step of a dump or an update removes  *)
(* a key from the maps of a configuration that has been published.         *)
(***************************************************************************)
KeysOnlyGrow ==
    [][\A i \in published : KeysOf(maps[i]) \subseteq KeysOf(maps[i])']_<<storeVars, dumpVars>>

=============================================================================
