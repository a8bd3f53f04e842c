----------------------------- MODULE DumpProofs -----------------------------
(***************************************************************************)
(* What holds of dumps for any dumpers, updaters, rules, options, graphs   *)
(* and limits.  Of the options of a dump beside updates (DumpOptions): the *)
(* maps of published configurations only gain keys, and a dump finds those *)
(* it named.  Of its walk (DumpSerialize): what it shows is within the     *)
(* limits and under no key that is hidden; it loses nothing without saying *)
(* so; and what it reports as a cycle it shows elsewhere.                  *)
(***************************************************************************)
EXTENDS DumpOptions, DumpSerialize, ConfigStoreProofs, SequenceLemmas, FiniteSetTheorems

-----------------------------------------------------------------------------
\* The options of dumps (DumpOptions).

(***************************************************************************)
(* The part of StoreInv that survives dump options: who owns which         *)
(* address.  What clones and snapshots contain does not, as the maps they  *)
(* were made from may have grown meanwhile.                                *)
(***************************************************************************)
Ownership == TypeOK /\ OwnMaps /\ PublishedAllocated /\ ClonesOwned

\* Where the maps a dump refers to come from: never from a clone in the making.
RefsShared ==
    /\ dumpMaps \in published \cup {GlobalMap}
    /\ \A d \in Dumpers : ref[d] \in published \cup {GlobalMap, d}

\* What the options of a running dump named is written or still to be written.
KeysAccounted ==
    \A d \in Dumpers :
        at[d] # "idle" => KeysOf(given[d]) \subseteq KeysOf(Entries(ref[d])) \cup KeysOf(pending[d])

DumpInv ==
    /\ DumpTypeOK
    /\ Ownership
    /\ RefsShared
    /\ KeysAccounted
    /\ \A d \in Dumpers : at[d] = "walk" => pending[d] = {}

\* Writing a key adds it and loses none.
LEMMA PutAddsKey ==
    ASSUME NEW entries, NEW e
    PROVE  KeysOf(Put(entries, e)) = KeysOf(entries) \cup {e.key}
BY DEF KeysOf, Put

\* No dump has started and nothing is published beside the first configuration.
LEMMA DumpInitially == DumpInit => DumpInv
<1> SUFFICES ASSUME DumpInit PROVE DumpInv
  OBVIOUS
<1>1. StoreInv
  BY InitInv DEF DumpInit
<1>2. Ownership
  BY <1>1 DEF StoreInv, Ownership
<1>3. DumpTypeOK
  BY <1>2 DEF DumpInit, DumpTypeOK, Ownership, SideMap, MapRef
<1>4. RefsShared /\ KeysAccounted
  BY DEF DumpInit, RefsShared, KeysAccounted
<1> QED
  BY <1>2, <1>3, <1>4 DEF DumpInv, DumpInit

-----------------------------------------------------------------------------

\* The clone of a call is written, the maps of every other struct are not.
LEMMA CloneWritten ==
    ASSUME Ownership, NEW p \in Updaters, pc[p] = "loaded",
           UpdateApply(p) \/ UpdatePanic(p)
    PROVE  /\ heap' \in [Addr -> Object]
           /\ maps' \in [Addr -> SUBSET Rules]
           /\ OwnMaps'
           /\ \A i \in Addr : i # new[p] => maps'[i] = maps[i]
<1> DEFINE before == Content(old[p])
           result == Apply(edit[p], before)
<1>1. TypeOK /\ OwnMaps /\ old[p] \in Addr /\ new[p] \in Addr /\ edit[p] \in Edits
  BY DEF Ownership, TypeOK
<1>2. before \in Config /\ result \in Config
  BY <1>1, ContentInConfig, EditsAreTotal
<1>3. before.level \in Levels /\ result.level \in Levels
      /\ before.rules \in SUBSET Rules /\ result.rules \in SUBSET Rules
  BY <1>2 DEF Config
<1>4. \E l \in Levels, m \in SUBSET Rules :
         /\ heap' = [heap EXCEPT ![new[p]] = [level |-> l, maps |-> new[p]]]
         /\ maps' = [maps EXCEPT ![new[p]] = m]
  <2>1. CASE UpdateApply(p)
    <3>1. /\ heap' = [heap EXCEPT ![new[p]] = [level |-> result.level, maps |-> new[p]]]
          /\ maps' = [maps EXCEPT ![new[p]] = result.rules]
      <4> DEFINE obj == Clone(old[p], new[p])
      <4>1. obj.maps = new[p] /\ [obj EXCEPT !.level = result.level] = [level |-> result.level, maps |-> new[p]]
        BY DEF Clone
      <4> QED
        BY <2>1, <4>1 DEF UpdateApply
    <3> QED
      BY <1>3, <3>1
  <2>2. CASE UpdatePanic(p)
    <3>1. PICK l \in {before.level, result.level} :
             heap' = [heap EXCEPT ![new[p]] = [level |-> l, maps |-> new[p]]]
      BY <2>2 DEF UpdatePanic, Clone
    <3>2. PICK m \in {before.rules, result.rules} :
             maps' = [maps EXCEPT ![new[p]] = m]
      BY <2>2 DEF UpdatePanic, Clone
    <3> QED
      BY <1>3, <3>1, <3>2
  <2> QED
    BY <2>1, <2>2
<1>5. PICK l \in Levels, m \in SUBSET Rules :
         /\ heap' = [heap EXCEPT ![new[p]] = [level |-> l, maps |-> new[p]]]
         /\ maps' = [maps EXCEPT ![new[p]] = m]
  BY <1>4
<1>6. [level |-> l, maps |-> new[p]] \in Object /\ [level |-> l, maps |-> new[p]].maps = new[p]
  BY <1>1 DEF Object
<1> QED
  BY <1>1, <1>5, <1>6, WriteElsewhere

\* An update moves ownership as it does without dumps, and writes the maps of
\* nothing that is published.
LEMMA UpdateKeepsOwnership ==
    ASSUME Ownership, [Next]_storeVars
    PROVE  /\ Ownership'
           /\ published \subseteq published'
           /\ \A i \in published : maps'[i] = maps[i]
<1> USE DEF Ownership
<1>1. ASSUME NEW p \in Updaters, NEW e \in Edits, UpdateLoad(p, e)
      PROVE  Ownership' /\ published' = published /\ maps' = maps
  <2>1. allocated \in Addr /\ allocated' = allocated + 1
    BY <1>1, MaxUpdatesIsNat DEF UpdateLoad, TypeOK, Addr
  <2>2. TypeOK'
    BY <1>1, <2>1, MaxUpdatesIsNat DEF UpdateLoad, TypeOK, Addr
  <2>3. OwnMaps' /\ PublishedAllocated'
    BY <1>1, <2>1 DEF UpdateLoad, OwnMaps, PublishedAllocated, TypeOK, Addr
  <2>4. /\ new' = [new EXCEPT ![p] = allocated]
        /\ old' = [old EXCEPT ![p] = cfgPtr]
        /\ pc' = [pc EXCEPT ![p] = "loaded"]
        /\ published' = published /\ maps' = maps
        /\ allocated \notin published /\ cfgPtr \in published
    BY <1>1, <2>1 DEF UpdateLoad, PublishedAllocated, Addr
  <2>5. \A q \in Updaters :
           pc'[q] # "idle" => /\ old'[q] \in published'
                              /\ new'[q] < allocated'
                              /\ new'[q] \notin published'
    BY <2>1, <2>4 DEF ClonesOwned, TypeOK, Addr
  <2>6. \A q \in Updaters : pc[q] # "idle" => new[q] < allocated
    BY DEF ClonesOwned
  <2>7. \A q, r \in Updaters :
           (pc'[q] # "idle" /\ pc'[r] # "idle" /\ q # r) => new'[q] # new'[r]
    BY <1>1, <2>1, <2>4, <2>6 DEF UpdateLoad, ClonesOwned, TypeOK, Addr
  <2> QED
    BY <2>2, <2>3, <2>4, <2>5, <2>7 DEF ClonesOwned
<1>2. ASSUME NEW p \in Updaters, UpdateApply(p) \/ UpdatePanic(p)
      PROVE  Ownership' /\ published' = published /\ \A i \in published : maps'[i] = maps[i]
  <2>1. /\ pc[p] = "loaded" /\ \E s \in {"idle", "applied"} : pc' = [pc EXCEPT ![p] = s]
        /\ UNCHANGED <<cfgPtr, allocated, published, edit, old, new, snap>>
    BY <1>2 DEF UpdateApply, UpdatePanic
  <2>2. /\ heap' \in [Addr -> Object] /\ maps' \in [Addr -> SUBSET Rules] /\ OwnMaps'
        /\ \A i \in Addr : i # new[p] => maps'[i] = maps[i]
    BY <1>2, <2>1, CloneWritten
  <2>3. TypeOK'
    BY <2>1, <2>2 DEF TypeOK
  <2>4. PublishedAllocated' /\ ClonesOwned'
    BY <2>1 DEF PublishedAllocated, ClonesOwned, TypeOK
  <2>5. \A i \in published : i \in Addr /\ i # new[p]
    BY <2>1 DEF ClonesOwned, TypeOK
  <2> QED
    BY <2>1, <2>2, <2>3, <2>4, <2>5
<1>3. ASSUME NEW p \in Updaters, UpdateStore(p)
      PROVE  Ownership' /\ published \subseteq published' /\ maps' = maps
  <2>1. /\ cfgPtr' = new[p] /\ published' = published \cup {new[p]}
        /\ pc[p] = "applied" /\ pc' = [pc EXCEPT ![p] = "idle"]
        /\ UNCHANGED <<heap, maps, allocated, edit, old, new, snap>>
    BY <1>3 DEF UpdateStore
  <2>2. TypeOK' /\ OwnMaps' /\ PublishedAllocated' /\ ClonesOwned'
    BY <2>1 DEF TypeOK, OwnMaps, PublishedAllocated, ClonesOwned
  <2> QED
    BY <2>1, <2>2
<1>4. ASSUME NEW r \in Readers, ReadConfig(r)
      PROVE  Ownership' /\ published' = published /\ maps' = maps
  BY <1>4 DEF ReadConfig, updaterVars, TypeOK, OwnMaps, PublishedAllocated, ClonesOwned
<1>5. CASE UNCHANGED storeVars
  BY <1>5 DEF storeVars, updaterVars, TypeOK, OwnMaps, PublishedAllocated, ClonesOwned
<1> QED
  BY <1>1, <1>2, <1>3, <1>4, <1>5 DEF Next, Update

-----------------------------------------------------------------------------

\* What a step means for the maps dumps may refer to: of a published
\* configuration or of the global Config they keep their keys.
KeepsKeys ==
    \A m \in published \cup {GlobalMap} : KeysOf(Entries(m)) \subseteq KeysOf(Entries(m)')

\* A configuration's maps are not among those that belong to no logger.
LEMMA RefsApart ==
    ASSUME DumpInv, NEW m \in published \cup SideMap
    PROVE  /\ m \in Addr <=> m \in published
           /\ m \in SideMap <=> m \notin published
           /\ Entries(m) = IF m \in published THEN maps[m] ELSE side[m]
BY SideMapsApart DEF DumpInv, Ownership, TypeOK, SideMap, Entries

\* Updates write no maps a dump refers to.
LEMMA UpdateKeepsDumpInv ==
    ASSUME DumpInv, [Next]_storeVars, UNCHANGED dumpVars
    PROVE  DumpInv' /\ KeepsKeys
<1>1. /\ Ownership' /\ published \subseteq published'
      /\ \A i \in published : maps'[i] = maps[i]
  BY UpdateKeepsOwnership DEF DumpInv
<1>2. UNCHANGED <<dumpMaps, side, at, ref, pending, given>>
  BY DEF dumpVars, dumperVars
<1>3. \A m \in published \cup SideMap : Entries(m)' = Entries(m)
  <2> SUFFICES ASSUME NEW m \in published \cup SideMap PROVE Entries(m)' = Entries(m)
    OBVIOUS
  <2> QED
    BY <1>1, <1>2, RefsApart DEF Entries
<1>4. DumpTypeOK'
  BY <1>1, <1>2 DEF Ownership, DumpInv, DumpTypeOK
<1>5. RefsShared'
  BY <1>1, <1>2 DEF DumpInv, RefsShared
<1>6. KeysAccounted'
  <2> SUFFICES ASSUME NEW d \in Dumpers, at[d] # "idle"
               PROVE  KeysOf(given[d]) \subseteq KeysOf(Entries(ref[d])') \cup KeysOf(pending[d])
    BY <1>2 DEF KeysAccounted, KeysOf, Entries
  <2>1. ref[d] \in published \cup SideMap
    BY DEF DumpInv, RefsShared, SideMap
  <2>2. Entries(ref[d])' = Entries(ref[d])
    BY <1>2, <1>3, <2>1 DEF Entries
  <2> QED
    BY <2>2 DEF DumpInv, KeysAccounted
<1>7. KeepsKeys
  BY <1>3 DEF KeepsKeys, SideMap
<1> QED
  BY <1>1, <1>2, <1>4, <1>5, <1>6, <1>7 DEF DumpInv

\* A dump starts from maps that are shared already, or from its own.
LEMMA BeginKeepsDumpInv ==
    ASSUME DumpInv, NEW d \in Dumpers, NEW opts \in OptionSets,
           DumpWithLogger(d, opts) \/ DumpWithGlobal(d, opts) \/ DumpWithDefaults(d, opts)
    PROVE  DumpInv' /\ KeepsKeys
<1>1. PICK m \in published \cup {GlobalMap, d} :
         /\ Begin(d, m, opts)
         /\ side' = side \/ (m = d /\ side' = [side EXCEPT ![d] = {}])
  <2>1. heap[cfgPtr].maps = cfgPtr /\ cfgPtr \in published
    BY DEF DumpInv, Ownership, TypeOK, OwnMaps, PublishedAllocated
  <2> QED
    BY <2>1 DEF DumpInv, RefsShared, DumpWithLogger, DumpWithGlobal, DumpWithDefaults
<1>2. /\ at[d] = "idle" /\ at' = [at EXCEPT ![d] = "options"]
      /\ ref' = [ref EXCEPT ![d] = m]
      /\ pending' = [pending EXCEPT ![d] = opts]
      /\ given' = [given EXCEPT ![d] = opts]
      /\ UNCHANGED storeVars /\ UNCHANGED dumpMaps
  BY <1>1 DEF Begin
<1>3. Ownership' /\ published' = published /\ maps' = maps
  BY <1>2 DEF DumpInv, Ownership, storeVars, updaterVars, TypeOK, OwnMaps,
              PublishedAllocated, ClonesOwned
<1>4. opts \in SUBSET Rules /\ m \in MapRef /\ d \in SideMap
  BY OptionsAreRules DEF DumpInv, Ownership, TypeOK, MapRef, SideMap
<1>5. DumpTypeOK'
  BY <1>1, <1>2, <1>3, <1>4 DEF DumpInv, Ownership, DumpTypeOK
<1>6. RefsShared'
  BY <1>1, <1>2, <1>3 DEF DumpInv, RefsShared, DumpTypeOK
<1>7. \A n \in published \cup SideMap : n # d => Entries(n)' = Entries(n)
  BY <1>1, <1>3, RefsApart DEF Entries, DumpInv, DumpTypeOK
<1>8. KeysAccounted'
  <2> SUFFICES ASSUME NEW e \in Dumpers, at'[e] # "idle"
               PROVE  KeysOf(given'[e]) \subseteq KeysOf(Entries(ref[e])') \cup KeysOf(pending'[e])
    BY DEF KeysAccounted, KeysOf
  <2>1. CASE e = d
    BY <1>2, <2>1 DEF DumpInv, DumpTypeOK
  <2>2. CASE e # d
    <3>1. at[e] # "idle" /\ ref'[e] = ref[e] /\ given'[e] = given[e] /\ pending'[e] = pending[e]
      BY <1>2, <2>2 DEF DumpInv, DumpTypeOK
    <3>2. ref[e] \in published \cup SideMap /\ ref[e] # d
      BY <2>2, SideMapsApart DEF DumpInv, RefsShared, SideMap, Ownership, TypeOK
    <3>3. Entries(ref[e])' = Entries(ref[e])
      BY <1>7, <3>1, <3>2 DEF Entries
    <3> QED
      BY <3>1, <3>3 DEF DumpInv, KeysAccounted
  <2> QED
    BY <2>1, <2>2
<1>9. KeepsKeys
  <2>1. \A n \in published \cup {GlobalMap} : n # d
    BY SideMapsApart DEF DumpInv, Ownership, TypeOK
  <2> QED
    BY <1>7, <2>1 DEF KeepsKeys, SideMap
<1>10. \A e \in Dumpers : at'[e] = "walk" => pending'[e] = {}
  BY <1>2 DEF DumpInv, DumpTypeOK
<1> QED
  BY <1>3, <1>5, <1>6, <1>8, <1>9, <1>10 DEF DumpInv

\* One write of an option adds a key to the maps all of their users share.
LEMMA WriteKeepsDumpInv ==
    ASSUME DumpInv, NEW d \in Dumpers, WriteOption(d)
    PROVE  DumpInv' /\ KeepsKeys
<1>1. PICK e \in pending[d] :
         /\ pending' = [pending EXCEPT ![d] = @ \ {e}]
         /\ IF ref[d] \in Addr
               THEN /\ maps' = [maps EXCEPT ![ref[d]] = Put(@, e)]
                    /\ side' = side
               ELSE /\ side' = [side EXCEPT ![ref[d]] = Put(@, e)]
                    /\ maps' = maps
  BY DEF WriteOption
<1>2. /\ at[d] = "options"
      /\ UNCHANGED <<cfgPtr, heap, allocated, published, pc, edit, old, new, snap>>
      /\ UNCHANGED <<dumpMaps, at, ref, given>>
  BY DEF WriteOption, updaterVars
<1>3. e \in Rules /\ ref[d] \in published \cup SideMap /\ ref[d] \in MapRef
  BY DEF DumpInv, DumpTypeOK, RefsShared, SideMap
<1>4. \A es \in SUBSET Rules : Put(es, e) \in SUBSET Rules
  BY <1>3 DEF Put
<1>5. maps' \in [Addr -> SUBSET Rules] /\ side' \in [SideMap -> SUBSET Rules]
  BY <1>1, <1>3, <1>4 DEF DumpInv, DumpTypeOK, Ownership, TypeOK, MapRef
<1>6. Ownership'
  BY <1>2, <1>5 DEF DumpInv, Ownership, TypeOK, OwnMaps, PublishedAllocated, ClonesOwned
<1>7. pending' \in [Dumpers -> SUBSET Rules]
  BY <1>1 DEF DumpInv, DumpTypeOK
<1>8. DumpTypeOK'
  BY <1>2, <1>5, <1>6, <1>7 DEF DumpInv, DumpTypeOK, Ownership
<1>9. RefsShared'
  BY <1>2 DEF DumpInv, RefsShared
<1>10. \A n \in published \cup SideMap :
          Entries(n)' = IF n = ref[d] THEN Put(Entries(n), e) ELSE Entries(n)
  BY <1>1, <1>3, SideMapsApart DEF Entries, DumpInv, DumpTypeOK, Ownership, TypeOK, SideMap
<1>11. \A n \in published \cup SideMap :
          /\ KeysOf(Entries(n)) \subseteq KeysOf(Entries(n)')
          /\ n = ref[d] => e.key \in KeysOf(Entries(n)')
  BY <1>10, PutAddsKey
<1>12. KeysAccounted'
  <2> SUFFICES ASSUME NEW c \in Dumpers, at[c] # "idle", NEW k \in KeysOf(given[c])
               PROVE  k \in KeysOf(Entries(ref[c])') \cup KeysOf(pending'[c])
    BY <1>2 DEF KeysAccounted, KeysOf
  <2>1. ref[c] \in published \cup SideMap
    BY DEF DumpInv, RefsShared, SideMap
  <2>2. ref'[c] = ref[c]
    BY <1>2
  <2>3. /\ KeysOf(Entries(ref[c])) \subseteq KeysOf(Entries(ref[c])')
        /\ c = d => e.key \in KeysOf(Entries(ref[c])')
    BY <1>11, <2>1, <2>2 DEF Entries
  <2>4. k \in KeysOf(Entries(ref[c])) \cup KeysOf(pending[c])
    BY DEF DumpInv, KeysAccounted
  <2>5. c # d => pending'[c] = pending[c]
    BY <1>1 DEF DumpInv, DumpTypeOK
  <2>6. c = d => \A f \in pending[c] : f = e \/ f \in pending'[c]
    BY <1>1 DEF DumpInv, DumpTypeOK
  <2> QED
    BY <2>3, <2>4, <2>5, <2>6 DEF KeysOf
<1>13. KeepsKeys
  BY <1>11 DEF KeepsKeys, SideMap
<1>14. \A c \in Dumpers : at'[c] = "walk" => pending'[c] = {}
  BY <1>1, <1>2 DEF DumpInv, DumpTypeOK
<1> QED
  BY <1>2, <1>6, <1>8, <1>9, <1>12, <1>13, <1>14 DEF DumpInv

\* The walk reads only; the end of a dump clears what nobody else refers to.
LEMMA WalkAndFinishKeepDumpInv ==
    ASSUME DumpInv, NEW d \in Dumpers, Walk(d) \/ Finish(d)
    PROVE  DumpInv' /\ KeepsKeys
<1>1. Ownership' /\ published' = published /\ maps' = maps /\ UNCHANGED <<dumpMaps, pending>>
  BY DEF Walk, Finish, DumpInv, Ownership, storeVars, updaterVars, TypeOK,
         OwnMaps, PublishedAllocated, ClonesOwned
<1>2. \/ /\ at' = [at EXCEPT ![d] = "walk"] /\ pending[d] = {} /\ at[d] = "options"
         /\ UNCHANGED <<side, ref, given>>
      \/ /\ at' = [at EXCEPT ![d] = "idle"]
         /\ ref' = [ref EXCEPT ![d] = d]
         /\ side' = [side EXCEPT ![d] = {}]
         /\ given' = [given EXCEPT ![d] = {}]
  BY DEF Walk, Finish
<1>3. d \in SideMap /\ d \in MapRef
  BY DEF SideMap, MapRef
<1>4. DumpTypeOK'
  BY <1>1, <1>2, <1>3 DEF DumpInv, DumpTypeOK, Ownership
<1>5. RefsShared'
  BY <1>1, <1>2 DEF DumpInv, RefsShared, DumpTypeOK
<1>6. \A n \in published \cup SideMap : n # d => Entries(n)' = Entries(n)
  BY <1>1, <1>2, RefsApart DEF Entries, DumpInv, DumpTypeOK
<1>7. KeysAccounted'
  <2> SUFFICES ASSUME NEW c \in Dumpers, at'[c] # "idle"
               PROVE  KeysOf(given'[c]) \subseteq KeysOf(Entries(ref[c])') \cup KeysOf(pending'[c])
    BY DEF KeysAccounted, KeysOf
  <2>1. at[c] # "idle" /\ ref'[c] = ref[c] /\ given'[c] = given[c] /\ pending'[c] = pending[c]
    BY <1>1, <1>2 DEF DumpInv, DumpTypeOK
  <2>2. Entries(ref[c])' = Entries(ref[c])
    <3>1. CASE side' = side
      BY <1>1, <2>1, <3>1 DEF Entries
    <3>2. CASE side' # side
      <4>1. c # d
        BY <1>2, <3>2 DEF DumpInv, DumpTypeOK
      <4>2. ref[c] \in published \cup SideMap /\ ref[c] # d
        BY <4>1, SideMapsApart DEF DumpInv, RefsShared, SideMap, Ownership, TypeOK
      <4> QED
        BY <1>6, <2>1, <4>2 DEF Entries
    <3> QED
      BY <3>1, <3>2
  <2> QED
    BY <2>1, <2>2 DEF DumpInv, KeysAccounted
<1>8. KeepsKeys
  <2>1. \A n \in published \cup {GlobalMap} : n # d
    BY SideMapsApart DEF DumpInv, Ownership, TypeOK
  <2> QED
    BY <1>6, <2>1 DEF KeepsKeys, SideMap
<1>9. \A c \in Dumpers : at'[c] = "walk" => pending'[c] = {}
  BY <1>1, <1>2 DEF DumpInv, DumpTypeOK
<1> QED
  BY <1>1, <1>4, <1>5, <1>7, <1>8, <1>9 DEF DumpInv

\* SetGlobalDumpConfig shares the maps of the configuration in force.
LEMMA SetGlobalKeepsDumpInv ==
    ASSUME DumpInv, SetGlobalDumpConfig
    PROVE  DumpInv' /\ KeepsKeys
<1>1. /\ Ownership' /\ UNCHANGED storeVars /\ UNCHANGED <<published, maps>>
      /\ UNCHANGED <<side, at, ref, pending, given>>
  BY DEF SetGlobalDumpConfig, dumperVars, DumpInv, Ownership, storeVars,
         updaterVars, TypeOK, OwnMaps, PublishedAllocated, ClonesOwned
<1>2. dumpMaps' = cfgPtr /\ cfgPtr \in published /\ cfgPtr \in Addr
  BY DEF SetGlobalDumpConfig, DumpInv, Ownership, TypeOK, OwnMaps, PublishedAllocated
<1>3. DumpTypeOK' /\ RefsShared'
  BY <1>1, <1>2 DEF DumpInv, DumpTypeOK, Ownership, RefsShared
<1>4. KeysAccounted' /\ KeepsKeys
  BY <1>1 DEF DumpInv, KeysAccounted, KeepsKeys, Entries, KeysOf
<1> QED
  BY <1>1, <1>3, <1>4 DEF DumpInv

\* Every step of a dump or an update keeps the invariant.
LEMMA DumpStepKeeps ==
    DumpInv /\ [DumpNext]_<<storeVars, dumpVars>> => DumpInv' /\ KeepsKeys
<1> SUFFICES ASSUME DumpInv, [DumpNext]_<<storeVars, dumpVars>>
             PROVE  DumpInv' /\ KeepsKeys
  OBVIOUS
<1>1. CASE (Next /\ UNCHANGED dumpVars) \/ UNCHANGED <<storeVars, dumpVars>>
  BY <1>1, UpdateKeepsDumpInv
<1>2. ASSUME NEW d \in Dumpers, DumpStep(d)
      PROVE  DumpInv' /\ KeepsKeys
  BY <1>2, BeginKeepsDumpInv, WriteKeepsDumpInv, WalkAndFinishKeepDumpInv DEF DumpStep
<1>3. CASE SetGlobalDumpConfig
  BY <1>3, SetGlobalKeepsDumpInv
<1> QED
  BY <1>1, <1>2, <1>3 DEF DumpNext

-----------------------------------------------------------------------------

\* The inductive invariant holds in every state.
LEMMA DumpInvariant == DumpSpec => []DumpInv
<1>1. DumpInv /\ [DumpNext]_<<storeVars, dumpVars>> => DumpInv'
  BY DumpStepKeeps
<1> QED
  BY <1>1, DumpInitially, PTL DEF DumpSpec

(***************************************************************************)
(* Dumps and the store they read are well typed (dump.go newDumpState).    *)
(***************************************************************************)
THEOREM DumpTypeCorrect == DumpSpec => []DumpTypeOK
<1>1. DumpInv => DumpTypeOK
  BY DEF DumpInv
<1> QED
  BY <1>1, DumpInvariant, PTL

(***************************************************************************)
(* While a dump walks, the keys its options named are in the maps it       *)
(* reads, whatever other dumps and updates do (dump.go WithDumpMaskKeys,   *)
(* WithDumpRemoval).                                                       *)
(***************************************************************************)
THEOREM DumpsMaskTheirKeys == DumpSpec => []OwnKeysMasked
<1>1. DumpInv => OwnKeysMasked
  <2> SUFFICES ASSUME DumpInv, NEW d \in Dumpers, at[d] = "walk"
               PROVE  KeysOf(given[d]) \subseteq KeysOf(Entries(ref[d]))
    BY DEF OwnKeysMasked
  <2>1. pending[d] = {} /\ at[d] # "idle"
    BY DEF DumpInv
  <2>2. KeysOf(pending[d]) = {}
    BY <2>1 DEF KeysOf
  <2> QED
    BY <2>1, <2>2 DEF DumpInv, KeysAccounted
<1> QED
  BY <1>1, DumpInvariant, PTL

(***************************************************************************)
(* The maps of a published configuration never lose a key, although dumps  *)
(* write them (dump.go) and updates replace the configuration (logger.go). *)
(***************************************************************************)
THEOREM PublishedKeysOnlyGrow == DumpSpec => KeysOnlyGrow
<1>1. DumpInv /\ [DumpNext]_<<storeVars, dumpVars>>
        => [\A i \in published : KeysOf(maps[i]) \subseteq KeysOf(maps[i])']_<<storeVars, dumpVars>>
  <2> SUFFICES ASSUME DumpInv, [DumpNext]_<<storeVars, dumpVars>>, NEW i \in published
               PROVE  KeysOf(maps[i]) \subseteq KeysOf(maps'[i])
    BY DEF KeysOf
  <2>1. KeepsKeys /\ i \in Addr
    BY DumpStepKeeps DEF DumpInv, Ownership, TypeOK
  <2> QED
    BY <2>1 DEF KeepsKeys, Entries
<1> QED
  BY <1>1, DumpInvariant, PTL DEF DumpSpec, KeysOnlyGrow

-----------------------------------------------------------------------------
(***************************************************************************)
(* The walk of a dump (DumpSerialize), for any graph, rules and limits.    *)
(***************************************************************************)
Ruled == Removed \cup Masked \cup Dropped
Items == [key : Keys, node : Values]
Tasks == [doing : {"value", "visit", "indirect", "entries"}, node : Values, path : Seq(Keys),
          depth : Nat, then : {"value", "visit"}, left : Seq(Items)]

\* A path under no key that a rule is for, but for a nil, which may be right
\* under a key that the Masker answers nil for.
FreePath(p, nil) == \A i \in DOMAIN p : p[i] \in Ruled => nil /\ i = Len(p) /\ p[i] \in Dropped \ Removed

\* A task lies within the depth and under no key that a rule is for; where it
\* ranges over entries it is above the depth, so that each of them is within.
TaskOK(t) ==
    /\ Len(t.path) <= t.depth /\ t.depth <= limits.maxDepth
    /\ FreePath(t.path, t.doing = "visit" /\ t.node = Nil)
    /\ t.doing \in {"indirect", "entries"} => t.node # Nil
    /\ t.doing = "entries" => t.depth < limits.maxDepth
    /\ (t.doing = "entries" /\ graph[t.node].kind = "slice") =>
           \A i \in DOMAIN t.left : t.left[i].key \notin Ruled

\* The containers that are being ranged over wait below the task that runs.
TodoOK ==
    /\ todo \in Seq(Tasks)
    /\ \A i \in DOMAIN todo : TaskOK(todo[i])
    /\ \A i \in DOMAIN todo : i > 1 => todo[i].doing = "entries"

EntryOK(o) ==
    /\ o.path \in Seq(Keys \cup {"..."})
    /\ o.mark # "..." => Len(o.path) <= limits.maxDepth
    /\ o.mark \in {"container", "leaf"} => Len(o.path) < limits.maxDepth
    /\ \A i \in DOMAIN o.path :
           /\ o.path[i] \notin Removed
           /\ o.path[i] \in Dropped => i = Len(o.path) /\ o.mark = "nil"
           /\ o.path[i] \in Masked => i = Len(o.path) /\ o.mark \in {"masked", "type"}

OutOK == IsFiniteSet(out) /\ \A o \in out : EntryOK(o)

Counted == out \ Shows({"..."})

\* The field of a value that is visited is spent, its entry is not there yet.
Pending == IF Runs("visit") \/ Runs("indirect") THEN 1 ELSE 0

(***************************************************************************)
(* The inductive invariant: every entry and the value being visited have   *)
(* been paid for out of one budget.                                        *)
(***************************************************************************)
Paid ==
    /\ fields \in Nat
    /\ limits.maxFields > 0 =>
          Cardinality(Counted) + Pending <= fields /\ fields <= limits.maxFields

WalkInv ==
    /\ graph \in Graphs /\ limits \in Limits
    /\ TodoOK
    /\ OutOK
    /\ Paid

\* The values of the graph and of the limits are what their assumptions say.
LEMMA GraphTyped ==
    ASSUME graph \in Graphs, limits \in Limits
    PROVE  /\ 1 \in Nodes /\ Nil \notin Nodes
           /\ limits.maxDepth \in Nat /\ limits.maxFields \in Int
           /\ \A n \in Nodes : /\ graph[n].kind \in Kinds /\ graph[n].to \in Values
                               /\ graph[n].at \in Nodes /\ graph[n].entries \in Seq(Items)
           /\ \A n \in Nodes : graph[n].kind = "slice" =>
                 \A i \in DOMAIN graph[n].entries : graph[n].entries[i].key \notin Ruled
           /\ \A n \in Values : Dynamic(n) \in Values
<1>1. graph \in [Nodes -> [kind : Kinds, to : Values, at : Nodes, entries : Seq(Items)]]
  BY GraphsTyped DEF Items
<1>2. \A n \in Nodes : graph[n] \in [kind : Kinds, to : Values, at : Nodes, entries : Seq(Items)]
  BY <1>1
<1> QED
  BY <1>2, GraphsTyped, DepthsNatural, RulesApart DEF Values, Dynamic, Ruled

-----------------------------------------------------------------------------
\* The running task replaced by the tasks of ts, all but the first of which
\* range over entries.
LEMMA Replaced ==
    ASSUME TodoOK, todo # << >>, UNCHANGED <<graph, limits>>,
           NEW ts \in Seq(Tasks), todo' = ts \o rest,
           \A i \in DOMAIN ts : TaskOK(ts[i]) /\ (i > 1 => ts[i].doing = "entries")
    PROVE  /\ TodoOK'
           /\ todo' # << >> => Head(todo') = (IF ts = << >> THEN todo[2] ELSE ts[1])
           /\ (todo' # << >> /\ ts = << >>) => Head(todo').doing = "entries"
<1>1. /\ rest \in Seq(Tasks) /\ Len(rest) = Len(todo) - 1 /\ Len(todo) \in Nat
      /\ \A i \in 1 .. Len(rest) : i + 1 \in DOMAIN todo /\ rest[i] = todo[i + 1]
  BY DEF TodoOK, rest
<1>2. PICK r \in Seq(Tasks) : r = rest
  BY <1>1
<1>3. /\ todo' \in Seq(Tasks) /\ Len(todo') = Len(ts) + Len(r)
      /\ \A i \in 1 .. Len(ts) + Len(r) :
            todo'[i] = IF i <= Len(ts) THEN ts[i] ELSE r[i - Len(ts)]
  BY <1>2, ConcatProperties
<1>4. \A i : TaskOK(todo[i])' <=> TaskOK(todo'[i])
  BY DEF TaskOK, FreePath
<1>5. ASSUME NEW i \in DOMAIN todo'
      PROVE  TaskOK(todo'[i]) /\ (i > 1 => todo'[i].doing = "entries")
  <2>1. i \in 1 .. Len(ts) + Len(r) /\ Len(ts) \in Nat /\ Len(r) \in Nat /\ DOMAIN ts = 1 .. Len(ts)
    BY <1>3
  <2>2. CASE i <= Len(ts)
    <3>1. i \in DOMAIN ts /\ todo'[i] = ts[i]
      BY <1>3, <2>1, <2>2
    <3> QED BY <3>1
  <2>3. CASE ~(i <= Len(ts))
    <3>1. PICK k \in 1 .. Len(r) : k = i - Len(ts)
      BY <2>1, <2>3
    <3>2. todo'[i] = rest[k] /\ k + 1 \in DOMAIN todo /\ k + 1 > 1
      BY <1>1, <1>2, <1>3, <2>1, <2>3, <3>1
    <3> QED BY <1>1, <1>2, <3>1, <3>2 DEF TodoOK
  <2> QED BY <2>2, <2>3
<1>6. TodoOK'
  <2>1. \A i \in DOMAIN todo' : TaskOK(todo[i])'
    BY <1>4, <1>5
  <2>2. \A i \in DOMAIN todo' : i > 1 => todo'[i].doing = "entries"
    BY <1>5
  <2> QED BY <1>3, <2>1, <2>2 DEF TodoOK
<1>7. ASSUME todo' # << >>
      PROVE  /\ Head(todo') = (IF ts = << >> THEN todo[2] ELSE ts[1])
             /\ ts = << >> => Head(todo').doing = "entries"
  <2>1. 1 \in 1 .. Len(ts) + Len(r) /\ Head(todo') = todo'[1]
    BY <1>3, <1>7
  <2>2. CASE ts = << >>
    <3>1. Len(ts) = 0 /\ todo'[1] = r[1] /\ 1 \in 1 .. Len(r)
      BY <1>3, <2>1, <2>2
    <3>2. r[1] = todo[2] /\ 2 \in DOMAIN todo
      BY <1>1, <1>2, <3>1
    <3> QED BY <2>1, <2>2, <3>1, <3>2 DEF TodoOK
  <2>3. CASE ts # << >>
    <3>1. Len(ts) >= 1
      BY <2>3
    <3> QED BY <1>3, <2>1, <2>3, <3>1
  <2> QED BY <2>2, <2>3
<1> QED
  BY <1>6, <1>7

\* The running task over, or replaced by another one.
LEMMA Popped ==
    ASSUME TodoOK, todo # << >>, UNCHANGED <<graph, limits>>, todo' = rest
    PROVE  TodoOK' /\ Pending' = 0
<1>1. rest \in Seq(Tasks)
  BY DEF TodoOK, rest
<1>2. << >> \in Seq(Tasks) /\ << >> \o rest = rest
  BY <1>1
<1>3. PICK ts \in Seq(Tasks) : ts = << >>
  BY <1>2
<1>4. todo' = ts \o rest /\ DOMAIN ts = {}
  BY <1>2, <1>3
<1>5. TodoOK' /\ (todo' # << >> => Head(todo').doing = "entries")
  BY <1>3, <1>4, Replaced
<1> QED
  BY <1>5 DEF Pending, Runs, task

\* The task that takes the place of the running one keeps to the rules of tasks.
LEMMA Pushed ==
    ASSUME TodoOK, todo # << >>, UNCHANGED <<graph, limits>>,
           NEW t \in Tasks, TaskOK(t), todo' = <<t>> \o rest
    PROVE  /\ TodoOK'
           /\ Pending' = IF t.doing \in {"visit", "indirect"} THEN 1 ELSE 0
<1> DEFINE ts == <<t>>
<1>1. ts \in Seq(Tasks)
  <2> HIDE DEF Tasks
  <2> QED OBVIOUS
<1>2. DOMAIN ts = {1} /\ ts[1] = t /\ ts # << >> /\ todo' = ts \o rest
  OBVIOUS
<1>3. todo' # << >>
  <2>1. rest \in Seq(Tasks)
    BY DEF TodoOK, rest
  <2> QED BY <2>1
<1> HIDE DEF ts
<1>4. \A i \in DOMAIN ts : TaskOK(ts[i]) /\ (i > 1 => ts[i].doing = "entries")
  BY <1>2
<1>5. TodoOK' /\ Head(todo') = t
  <2>1. Head(todo') = (IF ts = << >> THEN todo[2] ELSE ts[1])
    BY <1>1, <1>2, <1>3, <1>4, Replaced
  <2>2. TodoOK'
    BY <1>1, <1>2, <1>4, Replaced
  <2> QED BY <1>2, <2>1, <2>2
<1> QED
  BY <1>3, <1>5 DEF Pending, Runs, task

\* So do the value of an entry and the rest of its container.
LEMMA BothPushed ==
    ASSUME TodoOK, todo # << >>, UNCHANGED <<graph, limits>>,
           NEW t \in Tasks, TaskOK(t), t.doing = "visit",
           NEW u \in Tasks, TaskOK(u), u.doing = "entries",
           todo' = <<t>> \o (<<u>> \o rest)
    PROVE  TodoOK' /\ Pending' = 1
<1> DEFINE ts == <<t, u>>
<1>1. ts \in Seq(Tasks)
  <2> HIDE DEF Tasks
  <2> QED OBVIOUS
<1>2. DOMAIN ts = 1 .. 2 /\ ts[1] = t /\ ts[2] = u /\ ts # << >> /\ ts = <<t>> \o <<u>>
  OBVIOUS
<1>3. todo' = ts \o rest
  <2>1. PICK r \in Seq(Tasks) : r = rest
    <3>1. rest \in Seq(Tasks)
      BY DEF TodoOK, rest
    <3> QED BY <3>1
  <2>2. <<t>> \in Seq(Tasks) /\ <<u>> \in Seq(Tasks)
    <3> HIDE DEF Tasks
    <3> QED OBVIOUS
  <2>3. <<t>> \o (<<u>> \o r) = (<<t>> \o <<u>>) \o r
    <3> HIDE DEF Tasks, ts
    <3> QED BY <2>2, ConcatAssociative
  <2> QED BY <1>2, <2>1, <2>3
<1>4. todo' # << >>
  <2>1. rest \in Seq(Tasks)
    BY DEF TodoOK, rest
  <2> QED BY <1>3, <2>1
<1> HIDE DEF ts
<1>5. \A i \in DOMAIN ts : TaskOK(ts[i]) /\ (i > 1 => ts[i].doing = "entries")
  <2>1. \A i \in DOMAIN ts : i = 1 \/ i = 2
    BY <1>2
  <2> QED BY <1>2, <2>1
<1>6. TodoOK' /\ Head(todo') = t
  <2>1. Head(todo') = (IF ts = << >> THEN todo[2] ELSE ts[1])
    BY <1>1, <1>3, <1>4, <1>5, Replaced
  <2>2. TodoOK'
    BY <1>1, <1>3, <1>5, Replaced
  <2> QED BY <1>2, <2>1, <2>2
<1> QED
  BY <1>4, <1>6 DEF Pending, Runs, task

\* One more entry is one more that is counted, unless it is an ellipsis,
\* whatever it overwrites.
LEMMA Written ==
    ASSUME OutOK, UNCHANGED limits, NEW S, S \subseteq out, NEW path, NEW mark,
           out' = S \cup {[path |-> path, mark |-> mark]},
           EntryOK([path |-> path, mark |-> mark])
    PROVE  /\ OutOK'
           /\ Cardinality(Counted) \in Nat /\ Cardinality(Counted') \in Nat
           /\ Cardinality(Counted') <= Cardinality(Counted) + 1
           /\ mark = "..." => Cardinality(Counted') <= Cardinality(Counted)
<1> DEFINE o == [path |-> path, mark |-> mark]
           K == {p \in S : p.mark # "..."}
<1>1. out' = S \cup {o} /\ o.mark = mark /\ EntryOK(o)
  OBVIOUS
<1> HIDE DEF o
<1>2. /\ IsFiniteSet(out) /\ IsFiniteSet(S) /\ IsFiniteSet(out')
      /\ \A p \in out' : p \in out \/ p = o
  BY <1>1, FS_AddElement, FS_Subset DEF OutOK
<1>3. \A p \in out' : EntryOK(p)
  BY <1>1, <1>2 DEF OutOK
<1>4. OutOK'
  BY <1>2, <1>3 DEF OutOK, EntryOK
<1>5. Counted = {p \in out : p.mark # "..."} /\ Counted' = {p \in out' : p.mark # "..."}
  BY DEF Counted, Shows
<1>6. /\ IsFiniteSet(Counted) /\ Cardinality(Counted) \in Nat
      /\ IsFiniteSet(K) /\ Cardinality(K) \in Nat /\ Cardinality(K) <= Cardinality(Counted)
  <2>1. IsFiniteSet(Counted) /\ Cardinality(Counted) \in Nat
    BY <1>2, FS_Subset, FS_CardinalityType DEF Counted
  <2>2. K \subseteq Counted
    BY <1>5
  <2> QED BY <2>1, <2>2, FS_Subset, FS_CardinalityType
<1>7. CASE mark = "..."
  <2>1. Counted' = K
    BY <1>1, <1>5, <1>7
  <2> QED BY <1>4, <1>6, <2>1
<1>8. CASE mark # "..."
  <2>1. Counted' = K \cup {o}
    BY <1>1, <1>5, <1>8
  <2>2. PICK c : c = K
    OBVIOUS
  <2>3. /\ Cardinality(c \cup {o}) \in Nat
        /\ Cardinality(c \cup {o}) <= Cardinality(c) + 1
    <3>1. IsFiniteSet(c) /\ Cardinality(c) \in Nat
      BY <1>6, <2>2
    <3>2. Cardinality(c \cup {o}) = IF o \in c THEN Cardinality(c) ELSE Cardinality(c) + 1
      BY <3>1, FS_AddElement
    <3> QED BY <3>1, <3>2
  <2> QED BY <1>4, <1>6, <1>8, <2>1, <2>2, <2>3
<1> QED
  BY <1>7, <1>8

\* An entry that overwrites nothing.
LEMMA Emitted ==
    ASSUME OutOK, UNCHANGED limits, NEW path, NEW mark, Emit(path, mark),
           EntryOK([path |-> path, mark |-> mark])
    PROVE  /\ OutOK'
           /\ Cardinality(Counted) \in Nat /\ Cardinality(Counted') \in Nat
           /\ Cardinality(Counted') <= Cardinality(Counted) + 1
           /\ mark = "..." => Cardinality(Counted') <= Cardinality(Counted)
<1>1. out' = out \cup {[path |-> path, mark |-> mark]}
  BY DEF Emit
<1> QED
  BY <1>1, Written

\* What is not shown, or overwritten, is not counted.
LEMMA NothingEmitted ==
    ASSUME OutOK, UNCHANGED limits, out' \subseteq out
    PROVE  /\ OutOK' /\ Cardinality(Counted) \in Nat /\ Cardinality(Counted') \in Nat
           /\ Cardinality(Counted') <= Cardinality(Counted)
<1>1. Counted' \subseteq Counted /\ IsFiniteSet(Counted) /\ IsFiniteSet(out')
  BY FS_Subset DEF OutOK, Counted, Shows
<1>2. OutOK'
  BY <1>1 DEF OutOK, EntryOK
<1> QED
  BY <1>1, <1>2, FS_CardinalityType, FS_Subset

\* What is known of the task that runs.
LEMMA TaskTyped ==
    ASSUME TodoOK, todo # << >>
    PROVE  /\ task \in Tasks /\ TaskOK(task)
           /\ task.doing \in {"value", "visit", "indirect", "entries"}
           /\ task.path \in Seq(Keys) /\ Len(task.path) \in Nat /\ task.depth \in Nat
           /\ Pending = IF task.doing \in {"visit", "indirect"} THEN 1 ELSE 0
<1>1. task = todo[1] /\ 1 \in DOMAIN todo
  BY DEF TodoOK, task
<1>2. task \in Tasks /\ TaskOK(task)
  BY <1>1 DEF TodoOK
<1> QED
  BY <1>2 DEF Tasks, Pending, Runs

\* An entry at the path of a task that lies within the depth.
LEMMA EntryOfTask ==
    ASSUME limits \in Limits, graph \in Graphs, NEW t \in Tasks, TaskOK(t), NEW mark,
           mark \in {"container", "leaf"} => t.depth < limits.maxDepth,
           (t.doing = "visit" /\ t.node = Nil) => mark = "nil"
    PROVE  EntryOK([path |-> t.path, mark |-> mark])
<1>1. /\ t.path \in Seq(Keys) /\ Len(t.path) \in Nat /\ t.depth \in Nat
      /\ Seq(Keys) \subseteq Seq(Keys \cup {"..."}) /\ limits.maxDepth \in Nat
  BY GraphTyped DEF Tasks
<1> DEFINE o == [path |-> t.path, mark |-> mark]
<1>2. ASSUME NEW i \in DOMAIN t.path
      PROVE  /\ t.path[i] \notin Removed \cup Masked
             /\ t.path[i] \in Dropped => i = Len(t.path) /\ mark = "nil"
  <2>1. t.path[i] \in Ruled => mark = "nil" /\ i = Len(t.path) /\ t.path[i] \in Dropped \ Removed
    BY <1>2 DEF TaskOK, FreePath
  <2> QED BY <2>1, RulesApart DEF Ruled
<1>3. o.path = t.path /\ o.mark = mark
  OBVIOUS
<1>4. Len(t.path) <= limits.maxDepth /\ (mark \in {"container", "leaf"} => Len(t.path) < limits.maxDepth)
  BY <1>1 DEF TaskOK
<1> HIDE DEF o
<1>5. EntryOK(o)
  BY <1>1, <1>2, <1>3, <1>4 DEF EntryOK
<1> QED
  BY <1>5 DEF o

\* value spends a field before it shows anything.
LEMMA ValuePreserves == ASSUME WalkInv, Value PROVE WalkInv'
<1>1. todo # << >> /\ task.doing = "value" /\ UNCHANGED <<graph, limits, visited>>
  BY DEF Value, Runs
<1>2. /\ graph \in Graphs /\ limits \in Limits /\ TodoOK /\ OutOK /\ fields \in Nat
      /\ limits.maxFields \in Int
  BY GraphTyped DEF WalkInv, Paid
<1>3. task \in Tasks /\ TaskOK(task) /\ Pending = 0
  BY <1>1, <1>2, TaskTyped
<1>4. CASE Emit(task.path, "...") /\ todo' = rest /\ UNCHANGED fields
  <2>1. TodoOK' /\ Pending' = 0
    BY <1>1, <1>2, <1>4, Popped
  <2>2. EntryOK([path |-> task.path, mark |-> "..."])
    BY <1>1, <1>2, <1>3, EntryOfTask
  <2>3. OutOK' /\ Cardinality(Counted) \in Nat /\ Cardinality(Counted') \in Nat /\ Cardinality(Counted') <= Cardinality(Counted)
    BY <1>1, <1>2, <1>4, <2>2, Emitted
  <2>4. Paid'
    BY <1>1, <1>3, <1>4, <2>1, <2>3 DEF WalkInv, Paid
  <2> QED BY <1>1, <1>2, <2>1, <2>3, <2>4 DEF WalkInv
<1>5. CASE /\ nextField /\ fields' = Spent /\ UNCHANGED out
           /\ todo' = <<[task EXCEPT !.doing = "visit"]>> \o rest
  <2> DEFINE t == [task EXCEPT !.doing = "visit"]
  <2>1. t \in Tasks /\ t.doing = "visit" /\ TaskOK(t)
    BY <1>1, <1>3 DEF Tasks, TaskOK, FreePath
  <2>2. todo' = <<t>> \o rest
    BY <1>5
  <2> HIDE DEF t
  <2>3. TodoOK' /\ Pending' = 1
    BY <1>1, <1>2, <2>1, <2>2, Pushed
  <2>4. OutOK' /\ Cardinality(Counted) \in Nat /\ Cardinality(Counted') \in Nat /\ Cardinality(Counted') <= Cardinality(Counted)
    BY <1>1, <1>2, <1>5, NothingEmitted
  <2>5. Paid'
    BY <1>1, <1>2, <1>3, <1>5, <2>3, <2>4 DEF WalkInv, Paid, nextField, Spent
  <2> QED BY <1>1, <1>2, <2>3, <2>4, <2>5 DEF WalkInv
<1> QED
  BY <1>4, <1>5 DEF Value

\* A value without entries takes the field that was spent for it.
LEMMA VisitPlainPreserves == ASSUME WalkInv, VisitPlain PROVE WalkInv'
<1> DEFINE mark == Shown(task.node, task.depth)
<1>1. /\ todo # << >> /\ task.doing = "visit" /\ UNCHANGED <<graph, limits, fields, visited>>
      /\ todo' = rest /\ Emit(task.path, mark) /\ mark \in {"nil", "type", "[cycle]", "leaf"}
  BY DEF VisitPlain, Runs
<1>2. /\ graph \in Graphs /\ limits \in Limits /\ TodoOK /\ OutOK /\ fields \in Nat
      /\ limits.maxFields \in Int /\ limits.maxDepth \in Nat
  BY GraphTyped DEF WalkInv, Paid
<1>3. task \in Tasks /\ TaskOK(task) /\ Pending = 1 /\ task.depth \in Nat
  BY <1>1, <1>2, TaskTyped
<1>4. (mark = "leaf" => task.depth < limits.maxDepth) /\ (task.node = Nil => mark = "nil")
  BY <1>2, <1>3 DEF Shown
<1> HIDE DEF mark
<1>5. EntryOK([path |-> task.path, mark |-> mark])
  BY <1>1, <1>2, <1>3, <1>4, EntryOfTask
<1>6. /\ OutOK' /\ Cardinality(Counted) \in Nat /\ Cardinality(Counted') \in Nat
      /\ Cardinality(Counted') <= Cardinality(Counted) + 1
  BY <1>1, <1>2, <1>5, Emitted
<1>7. TodoOK' /\ Pending' = 0
  BY <1>1, <1>2, Popped
<1>8. Paid'
  BY <1>1, <1>2, <1>3, <1>6, <1>7 DEF WalkInv, Paid
<1> QED
  BY <1>1, <1>2, <1>6, <1>7, <1>8 DEF WalkInv

\* A pointer is passed on with its field and one level of depth.
LEMMA VisitPointerPreserves == ASSUME WalkInv, VisitPointer PROVE WalkInv'
<1> DEFINE target == graph[task.node].to
           t == [task EXCEPT !.doing = "indirect", !.node = target, !.depth = @ + 1]
<1>1. /\ todo # << >> /\ task.doing = "visit" /\ UNCHANGED <<graph, limits, fields, out>>
      /\ todo' = <<t>> \o rest /\ Shown(task.node, task.depth) = "pointer"
  BY DEF VisitPointer, Runs
<1>2. /\ graph \in Graphs /\ limits \in Limits /\ TodoOK /\ OutOK /\ fields \in Nat
      /\ limits.maxFields \in Int /\ limits.maxDepth \in Nat
  BY GraphTyped DEF WalkInv, Paid
<1>3. task \in Tasks /\ TaskOK(task) /\ Pending = 1 /\ task.depth \in Nat
  BY <1>1, <1>2, TaskTyped
<1>4. task.depth < limits.maxDepth /\ task.node # Nil /\ target # Nil /\ task.node \in Nodes
  BY <1>1, <1>2, <1>3 DEF Shown, Tasks, Values, Kinds
<1>5. target \in Values
  BY <1>2, <1>4, GraphTyped
<1> HIDE DEF target
<1>6. t \in Tasks /\ t.doing = "indirect" /\ t.depth = task.depth + 1 /\ t.path = task.path
      /\ t.node = target
  <2>1. PICK d \in Nat : d = task.depth + 1
    BY <1>3
  <2>2. t = [task EXCEPT !.doing = "indirect", !.node = target, !.depth = d]
    BY <2>1
  <2> HIDE DEF t
  <2> QED BY <1>3, <1>5, <2>1, <2>2 DEF Tasks
<1> HIDE DEF t
<1>7. TaskOK(t)
  BY <1>2, <1>3, <1>4, <1>6 DEF TaskOK, FreePath, Tasks
<1>8. TodoOK' /\ Pending' = 1
  BY <1>1, <1>2, <1>6, <1>7, Pushed
<1>9. OutOK' /\ Cardinality(Counted) \in Nat /\ Cardinality(Counted') \in Nat /\ Cardinality(Counted') <= Cardinality(Counted)
  BY <1>1, <1>2, NothingEmitted
<1>10. Paid'
  BY <1>1, <1>2, <1>3, <1>8, <1>9 DEF WalkInv, Paid
<1> QED
  BY <1>1, <1>2, <1>8, <1>9, <1>10 DEF WalkInv

\* indirect costs nothing and goes no deeper.
LEMMA IndirectPreserves == ASSUME WalkInv, Indirect PROVE WalkInv'
<1> DEFINE next == IndirectNext(task.node)
           t == IF next # Nil THEN [task EXCEPT !.node = next]
                ELSE [task EXCEPT !.doing = task.then, !.node = Dynamic(@)]
<1>1. /\ todo # << >> /\ task.doing = "indirect" /\ UNCHANGED <<graph, limits, fields, out>>
      /\ todo' = <<t>> \o rest
  BY DEF Indirect, Runs
<1>2. /\ graph \in Graphs /\ limits \in Limits /\ TodoOK /\ OutOK /\ fields \in Nat
      /\ limits.maxFields \in Int /\ limits.maxDepth \in Nat
  BY GraphTyped DEF WalkInv, Paid
<1>3. task \in Tasks /\ TaskOK(task) /\ Pending = 1 /\ task.depth \in Nat
  BY <1>1, <1>2, TaskTyped
<1>4. task.node \in Nodes /\ task.then \in {"value", "visit"}
  BY <1>1, <1>3 DEF TaskOK, FreePath, Tasks, Values
<1>5. next \in Values /\ Dynamic(task.node) \in Values
  <2>1. graph[task.node].to \in Values /\ Nil \in Values
    BY <1>2, <1>4, GraphTyped DEF Values
  <2> QED BY <1>2, <1>4, <2>1, GraphTyped DEF IndirectNext, Values
<1> HIDE DEF next
<1>6. /\ t \in Tasks /\ t.doing \in {"value", "visit", "indirect"}
      /\ t.depth = task.depth /\ t.path = task.path
      /\ t.doing = "indirect" => t.node # Nil
  <2>1. CASE next # Nil
    <3>1. t = [task EXCEPT !.node = next]
      BY <2>1
    <3> QED BY <1>1, <1>3, <1>5, <2>1, <3>1 DEF Tasks
  <2>2. CASE next = Nil
    <3>1. t = [task EXCEPT !.doing = task.then, !.node = Dynamic(task.node)]
      BY <2>2
    <3> HIDE DEF t
    <3> QED BY <1>3, <1>4, <1>5, <3>1 DEF Tasks
  <2> QED BY <2>1, <2>2
<1> HIDE DEF t
<1>7. TaskOK(t)
  BY <1>1, <1>3, <1>6 DEF TaskOK, FreePath
<1>8. TodoOK' /\ (Pending' = 0 \/ Pending' = 1)
  BY <1>1, <1>2, <1>6, <1>7, Pushed
<1>9. OutOK' /\ Cardinality(Counted) \in Nat /\ Cardinality(Counted') \in Nat /\ Cardinality(Counted') <= Cardinality(Counted)
  BY <1>1, <1>2, NothingEmitted
<1>10. Paid'
  BY <1>1, <1>2, <1>3, <1>8, <1>9 DEF WalkInv, Paid
<1> QED
  BY <1>1, <1>2, <1>8, <1>9, <1>10 DEF WalkInv

\* A container takes its own field before its entries take theirs.
LEMMA VisitContainerPreserves == ASSUME WalkInv, VisitContainer PROVE WalkInv'
<1> DEFINE entries == graph[task.node].entries
           t == [task EXCEPT !.doing = "entries", !.left = entries]
<1>1. /\ todo # << >> /\ task.doing = "visit" /\ UNCHANGED <<graph, limits, fields, visited>>
      /\ todo' = <<t>> \o rest /\ Shown(task.node, task.depth) \in Containers
      /\ Emit(task.path, "container")
  BY DEF VisitContainer, Runs
<1>2. /\ graph \in Graphs /\ limits \in Limits /\ TodoOK /\ OutOK /\ fields \in Nat
      /\ limits.maxFields \in Int /\ limits.maxDepth \in Nat
  BY GraphTyped DEF WalkInv, Paid
<1>3. task \in Tasks /\ TaskOK(task) /\ Pending = 1 /\ task.depth \in Nat
  BY <1>1, <1>2, TaskTyped
<1>4. task.depth < limits.maxDepth /\ task.node # Nil /\ task.node \in Nodes
  BY <1>1, <1>2, <1>3 DEF Shown, Containers, Tasks, Values
<1>5. entries \in Seq(Items) /\ (graph[task.node].kind = "slice" =>
          \A i \in DOMAIN entries : entries[i].key \notin Ruled)
  BY <1>2, <1>4, GraphTyped
<1> HIDE DEF entries
<1>6. /\ t \in Tasks /\ t.doing = "entries" /\ t.depth = task.depth /\ t.path = task.path
      /\ t.node = task.node /\ t.left = entries
  BY <1>3, <1>5 DEF Tasks
<1> HIDE DEF t
<1>7. TaskOK(t)
  BY <1>3, <1>4, <1>5, <1>6 DEF TaskOK, FreePath
<1>8. TodoOK' /\ Pending' = 0
  BY <1>1, <1>2, <1>6, <1>7, Pushed
<1>9. EntryOK([path |-> task.path, mark |-> "container"])
  BY <1>2, <1>3, <1>4, EntryOfTask
<1>10. /\ OutOK' /\ Cardinality(Counted) \in Nat /\ Cardinality(Counted') \in Nat
       /\ Cardinality(Counted') <= Cardinality(Counted) + 1
  BY <1>1, <1>2, <1>9, Emitted
<1>11. Paid'
  BY <1>1, <1>2, <1>3, <1>8, <1>10 DEF WalkInv, Paid
<1> QED
  BY <1>1, <1>2, <1>8, <1>10, <1>11 DEF WalkInv

\* The end of a range owes nothing.
LEMMA EndEntriesPreserves == ASSUME WalkInv, EndEntries PROVE WalkInv'
<1>1. /\ todo # << >> /\ task.doing = "entries" /\ UNCHANGED <<graph, limits, fields, out>>
      /\ todo' = rest
  BY DEF EndEntries, Runs
<1>2. graph \in Graphs /\ limits \in Limits /\ TodoOK /\ OutOK
  BY DEF WalkInv
<1>3. TodoOK' /\ Pending' = 0 /\ Pending = 0
  BY <1>1, <1>2, Popped, TaskTyped
<1>4. OutOK' /\ Cardinality(Counted) \in Nat /\ Cardinality(Counted') \in Nat /\ Cardinality(Counted') <= Cardinality(Counted)
  BY <1>1, <1>2, NothingEmitted
<1>5. Paid'
  BY <1>1, <1>3, <1>4 DEF WalkInv, Paid
<1> QED
  BY <1>1, <1>2, <1>3, <1>4, <1>5 DEF WalkInv

\* A sequence without its element at i.
LEMMA RemovedAt ==
    ASSUME NEW S, NEW s \in Seq(S), NEW i \in DOMAIN s
    PROVE  /\ RemoveAt(s, i) \in Seq(S) /\ DOMAIN RemoveAt(s, i) = 1 .. Len(s) - 1
           /\ \A k \in 1 .. Len(s) - 1 : /\ k < i => RemoveAt(s, i)[k] = s[k]
                                         /\ ~(k < i) => RemoveAt(s, i)[k] = s[k + 1]
<1> DEFINE a == SubSeq(s, 1, i - 1)
           b == SubSeq(s, i + 1, Len(s))
<1>1. Len(s) \in Nat /\ DOMAIN s = 1 .. Len(s) /\ i \in 1 .. Len(s)
  OBVIOUS
<1>2. /\ a \in Seq(S) /\ Len(a) = i - 1 /\ \A k \in 1 .. i - 1 : a[k] = s[k]
      /\ b \in Seq(S) /\ Len(b) = Len(s) - i /\ \A k \in 1 .. Len(s) - i : b[k] = s[k + i]
  <2>1. a \in Seq(S) /\ Len(a) = i - 1 /\ \A k \in 1 .. i - 1 : a[k] = s[k]
    BY <1>1
  <2>2. b \in Seq(S) /\ Len(b) = Len(s) - i
    BY <1>1
  <2>3. \A k \in 1 .. Len(s) - i : b[k] = s[k + i]
    BY <1>1
  <2> QED BY <2>1, <2>2, <2>3
<1>3. RemoveAt(s, i) = a \o b
  BY DEF RemoveAt
<1> HIDE DEF a, b
<1>4. /\ a \o b \in Seq(S) /\ Len(a \o b) = Len(a) + Len(b)
      /\ \A k \in 1 .. Len(a) + Len(b) : (a \o b)[k] = IF k <= Len(a) THEN a[k] ELSE b[k - Len(a)]
  BY <1>2, ConcatProperties
<1>5. DOMAIN (a \o b) = 1 .. Len(s) - 1
  <2>1. PICK c \in Seq(S) : c = a \o b
    BY <1>4
  <2>2. DOMAIN c = 1 .. Len(c)
    BY <2>1
  <2>3. Len(c) = Len(a) + Len(b)
    BY <1>4, <2>1
  <2>4. Len(a) + Len(b) = Len(s) - 1
    BY <1>1, <1>2
  <2> QED BY <2>1, <2>2, <2>3, <2>4
<1>6. ASSUME NEW k \in 1 .. Len(s) - 1, k < i PROVE (a \o b)[k] = s[k]
  BY <1>1, <1>2, <1>4, <1>6
<1>7. ASSUME NEW k \in 1 .. Len(s) - 1, ~(k < i) PROVE (a \o b)[k] = s[k + 1]
  <2>1. k - (i - 1) \in 1 .. Len(s) - i
    BY <1>1, <1>7
  <2>2. (a \o b)[k] = b[k - (i - 1)]
    <3>1. k \in 1 .. Len(a) + Len(b) /\ ~(k <= Len(a)) /\ Len(a) = i - 1
      BY <1>1, <1>2, <1>7
    <3>2. (a \o b)[k] = b[k - Len(a)]
      BY <1>4, <3>1
    <3> QED BY <3>1, <3>2
  <2>3. b[k - (i - 1)] = s[k + 1]
    <3>1. (k - (i - 1)) + i = k + 1
      BY <1>1
    <3> QED BY <1>2, <2>1, <3>1
  <2> QED BY <2>2, <2>3
<1> QED
  BY <1>3, <1>4, <1>5, <1>6, <1>7

\* Its elements are elements of the sequence.
LEMMA RemoveAtKeeps ==
    ASSUME NEW S, NEW s \in Seq(S), NEW i \in DOMAIN s
    PROVE  /\ RemoveAt(s, i) \in Seq(S)
           /\ \A k \in DOMAIN RemoveAt(s, i) : \E j \in DOMAIN s : RemoveAt(s, i)[k] = s[j]
<1>1. /\ RemoveAt(s, i) \in Seq(S) /\ DOMAIN RemoveAt(s, i) = 1 .. Len(s) - 1
      /\ \A k \in 1 .. Len(s) - 1 : /\ k < i => RemoveAt(s, i)[k] = s[k]
                                    /\ ~(k < i) => RemoveAt(s, i)[k] = s[k + 1]
  BY RemovedAt
<1>2. Len(s) \in Nat /\ \A k \in 1 .. Len(s) - 1 : k \in DOMAIN s /\ k + 1 \in DOMAIN s
  OBVIOUS
<1> QED
  BY <1>1, <1>2

\* An entry is paid for, within the depth, and under no key a rule hides.
LEMMA EntryPreserves == ASSUME WalkInv, Entry PROVE WalkInv'
<1>1. PICK i \in DOMAIN task.left :
        LET e == task.left[i]
            path == Append(task.path, e.key)
            others == <<[task EXCEPT !.left = RemoveAt(@, i)]>> \o rest
        IN  \/ todo' = others /\ UNCHANGED <<fields, out>>
            \/ Truncate /\ UNCHANGED fields
            \/ /\ nextField /\ fields' = Spent
               /\ \/ todo' = others /\ UNCHANGED out
                  \/ /\ ~SkipsPaid(e) /\ MaskedAt(e.key)
                     /\ Overwrite(path, IF task.depth + 1 >= limits.maxDepth THEN "type" ELSE "masked")
                     /\ todo' = others
                  \/ /\ ~SkipsPaid(e) /\ ~MaskedAt(e.key)
                     /\ todo' = <<Task("visit", Dynamic(e.node), path, task.depth + 1)>> \o others
                     /\ out' = Besides(path)
  BY DEF Entry
<1> DEFINE e == task.left[i]
           path == Append(task.path, e.key)
           u == [task EXCEPT !.left = RemoveAt(@, i)]
<1>2. todo # << >> /\ task.doing = "entries" /\ UNCHANGED <<graph, limits, visited>>
  BY DEF Entry, Runs
<1>3. /\ graph \in Graphs /\ limits \in Limits /\ TodoOK /\ OutOK /\ fields \in Nat
      /\ limits.maxFields \in Int /\ limits.maxDepth \in Nat
  BY GraphTyped DEF WalkInv, Paid
<1>4. /\ task \in Tasks /\ TaskOK(task) /\ Pending = 0 /\ task.depth \in Nat
      /\ task.path \in Seq(Keys) /\ Len(task.path) \in Nat
  BY <1>2, <1>3, TaskTyped
<1>5. /\ task.left \in Seq(Items) /\ e \in Items /\ e.key \in Keys /\ e.node \in Values
      /\ Len(task.path) <= task.depth /\ task.depth < limits.maxDepth
      /\ \A k \in DOMAIN task.path : task.path[k] \notin Ruled
      /\ ~Sanitizes => e.key \notin Ruled
  <2>1. task.left \in Seq(Items)
    BY <1>4 DEF Tasks
  <2>2. e \in Items
    BY <2>1
  <2>3. ~Sanitizes => e.key \notin Ruled
    BY <1>2, <1>4 DEF TaskOK, Sanitizes
  <2> QED BY <1>2, <1>4, <2>1, <2>2, <2>3 DEF TaskOK, FreePath, Items
<1>6. u \in Tasks /\ u.doing = "entries" /\ TaskOK(u)
  <2> DEFINE left == RemoveAt(task.left, i)
  <2>1. left \in Seq(Items) /\ \A k \in DOMAIN left : \E j \in DOMAIN task.left : left[k] = task.left[j]
    <3>1. PICK s \in Seq(Items) : s = task.left
      BY <1>5
    <3> QED BY <3>1, RemoveAtKeeps
  <2>2. u = [task EXCEPT !.left = left]
    OBVIOUS
  <2> HIDE DEF left, u
  <2>3. /\ u \in Tasks /\ u.doing = "entries" /\ u.left = left /\ u.node = task.node
        /\ u.path = task.path /\ u.depth = task.depth
    BY <1>2, <1>4, <2>1, <2>2 DEF Tasks
  <2> QED BY <1>2, <1>4, <2>1, <2>3 DEF TaskOK
<1>7. /\ path \in Seq(Keys) /\ path \in Seq(Keys \cup {"..."})
      /\ Len(path) = Len(task.path) + 1 /\ DOMAIN path = 1 .. Len(path)
      /\ path[Len(path)] = e.key
      /\ \A k \in DOMAIN path : k # Len(path) => path[k] \notin Ruled
  <2>1. path \in Seq(Keys) /\ Len(path) = Len(task.path) + 1
        /\ path[Len(task.path) + 1] = e.key
        /\ \A k \in 1 .. Len(task.path) : path[k] = task.path[k]
    <3> HIDE DEF e
    <3> QED BY <1>4, <1>5, AppendProperties
  <2> HIDE DEF path
  <2>2. path \in Seq(Keys \cup {"..."}) /\ DOMAIN path = 1 .. Len(path)
    BY <2>1
  <2>3. \A k \in DOMAIN path : k # Len(path) => k \in DOMAIN task.path /\ path[k] = task.path[k]
    BY <1>4, <2>1, <2>2
  <2> QED BY <1>5, <2>1, <2>2, <2>3
<1> HIDE DEF e, path, u
<1>8. CASE todo' = <<u>> \o rest /\ UNCHANGED <<fields, out>>
  <2>1. TodoOK' /\ Pending' = 0
    BY <1>2, <1>3, <1>6, <1>8, Pushed
  <2>2. OutOK' /\ Cardinality(Counted) \in Nat /\ Cardinality(Counted') \in Nat /\ Cardinality(Counted') <= Cardinality(Counted)
    BY <1>2, <1>3, <1>8, NothingEmitted
  <2>3. Paid'
    BY <1>2, <1>4, <1>8, <2>1, <2>2 DEF WalkInv, Paid
  <2> QED BY <1>2, <1>3, <2>1, <2>2, <2>3 DEF WalkInv
<1>9. CASE Truncate /\ UNCHANGED fields
  <2> DEFINE cut == Append(task.path, "...")
  <2>1. todo' = rest /\ out' = Besides(cut) \cup {[path |-> cut, mark |-> "..."]}
    BY <1>9 DEF Truncate, Overwrite
  <2>2. /\ cut \in Seq(Keys \cup {"..."}) /\ DOMAIN cut = 1 .. Len(task.path) + 1
        /\ cut[Len(task.path) + 1] = "..."
        /\ \A k \in 1 .. Len(task.path) : cut[k] = task.path[k] /\ k \in DOMAIN task.path
    BY <1>4, AppendProperties
  <2> HIDE DEF cut
  <2>3. \A k \in DOMAIN cut : cut[k] \notin Ruled
    <3>1. \A k \in DOMAIN cut : k \in 1 .. Len(task.path) \/ k = Len(task.path) + 1
      BY <1>4, <2>2
    <3> QED BY <1>5, <2>2, <3>1, RulesApart DEF Ruled
  <2>4. EntryOK([path |-> cut, mark |-> "..."])
    BY <2>2, <2>3 DEF EntryOK, Ruled
  <2>5. OutOK' /\ Cardinality(Counted) \in Nat /\ Cardinality(Counted') \in Nat /\ Cardinality(Counted') <= Cardinality(Counted)
    BY <1>2, <1>3, <2>1, <2>4, Written DEF Besides
  <2>6. TodoOK' /\ Pending' = 0
    BY <1>2, <1>3, <2>1, Popped
  <2>7. Paid'
    BY <1>2, <1>4, <1>9, <2>5, <2>6 DEF WalkInv, Paid
  <2> QED BY <1>2, <1>3, <2>5, <2>6, <2>7 DEF WalkInv
<1>10. ASSUME nextField, fields' = Spent, TodoOK', OutOK',
              Cardinality(Counted) \in Nat, Cardinality(Counted') \in Nat,
              \/ Pending' = 0 /\ Cardinality(Counted') <= Cardinality(Counted) + 1
              \/ Pending' = 1 /\ Cardinality(Counted') <= Cardinality(Counted)
       PROVE  WalkInv'
  <2>1. Paid'
    BY <1>2, <1>3, <1>4, <1>10 DEF WalkInv, Paid, nextField, Spent
  <2> QED BY <1>2, <1>3, <1>10, <2>1 DEF WalkInv
<1>11. CASE nextField /\ fields' = Spent /\ todo' = <<u>> \o rest /\ UNCHANGED out
  <2>1. TodoOK' /\ Pending' = 0
    BY <1>2, <1>3, <1>6, <1>11, Pushed
  <2>2. OutOK' /\ Cardinality(Counted) \in Nat /\ Cardinality(Counted') \in Nat /\ Cardinality(Counted') <= Cardinality(Counted)
    BY <1>2, <1>3, <1>11, NothingEmitted
  <2> QED BY <1>10, <1>11, <2>1, <2>2
<1>12. ASSUME nextField, fields' = Spent, ~SkipsPaid(e), MaskedAt(e.key), todo' = <<u>> \o rest,
              NEW mark \in {"type", "masked"}, Overwrite(path, mark)
       PROVE  WalkInv'
  <2>1. TodoOK' /\ Pending' = 0
    BY <1>2, <1>3, <1>6, <1>12, Pushed
  <2>2. e.key \notin Removed \cup Dropped
    BY <1>12, RulesApart DEF SkipsPaid, MaskedAt
  <2>3. EntryOK([path |-> path, mark |-> mark])
    <3>1. \A k \in DOMAIN path : k = Len(path) \/ path[k] \notin Ruled
      BY <1>7
    <3>2. Len(path) <= limits.maxDepth
      BY <1>3, <1>4, <1>5, <1>7
    <3> QED BY <1>7, <1>12, <2>2, <3>1, <3>2 DEF EntryOK, Ruled
  <2>4. /\ OutOK' /\ Cardinality(Counted) \in Nat /\ Cardinality(Counted') \in Nat
        /\ Cardinality(Counted') <= Cardinality(Counted) + 1
    BY <1>2, <1>3, <1>12, <2>3, Written DEF Overwrite, Besides
  <2> QED BY <1>10, <1>12, <2>1, <2>4
<1>13. CASE /\ nextField /\ fields' = Spent /\ ~SkipsPaid(e) /\ ~MaskedAt(e.key)
            /\ todo' = <<Task("visit", Dynamic(e.node), path, task.depth + 1)>> \o (<<u>> \o rest)
            /\ out' = Besides(path)
  <2> DEFINE t == Task("visit", Dynamic(e.node), path, task.depth + 1)
  <2>1. e.key \in Ruled => e.key \in Dropped \ Removed /\ Dynamic(e.node) = Nil
    BY <1>5, <1>13 DEF SkipsPaid, MaskedAt, Ruled
  <2>2. Dynamic(e.node) \in Values
    BY <1>3, <1>5, GraphTyped
  <2>3. << >> \in Seq(Items)
    OBVIOUS
  <2>4. PICK d \in Nat : d = task.depth + 1
    BY <1>4
  <2>5. t = [doing |-> "visit", node |-> Dynamic(e.node), path |-> path, depth |-> d,
             then |-> "visit", left |-> << >>]
    BY <2>4 DEF Task
  <2>6. todo' = <<t>> \o (<<u>> \o rest)
    BY <1>13
  <2> HIDE DEF t
  <2>7. t \in Tasks /\ t.doing = "visit" /\ t.path = path /\ t.depth = d /\ t.node = Dynamic(e.node)
    BY <1>7, <2>2, <2>3, <2>5 DEF Tasks
  <2>8. TaskOK(t)
    <3>1. FreePath(path, Dynamic(e.node) = Nil)
      BY <1>7, <2>1 DEF FreePath
    <3>2. Len(path) <= d /\ d <= limits.maxDepth
      BY <1>3, <1>4, <1>5, <1>7, <2>4
    <3> QED BY <2>7, <3>1, <3>2 DEF TaskOK
  <2>9. TodoOK' /\ Pending' = 1
    BY <1>2, <1>3, <1>6, <2>6, <2>7, <2>8, BothPushed
  <2>10. OutOK' /\ Cardinality(Counted) \in Nat /\ Cardinality(Counted') \in Nat /\ Cardinality(Counted') <= Cardinality(Counted)
    BY <1>2, <1>3, <1>13, NothingEmitted DEF Besides
  <2> QED BY <1>10, <1>13, <2>9, <2>10
<1> QED
  BY <1>1, <1>8, <1>9, <1>11, <1>12, <1>13 DEF e, path, u

\* A dump starts at the root with nothing spent.
LEMMA WalkInitially == SerializeInit => WalkInv
<1> SUFFICES ASSUME SerializeInit PROVE WalkInv
  OBVIOUS
<1> DEFINE t == Task("value", Dynamic(1), << >>, 0)
<1>1. graph \in Graphs /\ limits \in Limits /\ todo = <<t>> /\ fields = 0 /\ out = {}
  BY DEF SerializeInit
<1>2. /\ Dynamic(1) \in Values /\ 1 \in Nodes /\ limits.maxDepth \in Nat
      /\ limits.maxFields \in Int
  BY <1>1, GraphTyped DEF Values
<1>3. << >> \in Seq(Keys) /\ << >> \in Seq(Items)
  OBVIOUS
<1>4. t \in Tasks /\ t.doing = "value" /\ t.depth = 0 /\ t.path = << >>
  BY <1>2, <1>3 DEF Task, Tasks
<1> HIDE DEF t
<1>5. TaskOK(t)
  BY <1>2, <1>4 DEF TaskOK, FreePath
<1>6. TodoOK
  <2>1. DOMAIN <<t>> = {1} /\ <<t>>[1] = t /\ <<t>> \in Seq(Tasks)
    <3> HIDE DEF Tasks
    <3> QED BY <1>4
  <2> QED BY <1>1, <1>5, <2>1 DEF TodoOK
<1>7. OutOK
  BY <1>1, FS_EmptySet DEF OutOK
<1>8. Paid
  <2>1. Counted = {} /\ Cardinality({}) = 0
    BY <1>1, FS_EmptySet DEF Counted
  <2>2. Pending = 0
    BY <1>1, <1>4 DEF Pending, Runs, task
  <2> QED BY <1>1, <1>2, <2>1, <2>2 DEF Paid
<1> QED
  BY <1>1, <1>6, <1>7, <1>8 DEF WalkInv

\* Nothing but the walk changes its state.
LEMMA WalkStutters == ASSUME WalkInv, UNCHANGED serializeVars PROVE WalkInv'
<1>1. UNCHANGED <<graph, limits, todo, fields, visited, out>>
  BY DEF serializeVars
<1>2. TodoOK'
  BY <1>1 DEF WalkInv, TodoOK, TaskOK, FreePath
<1>3. OutOK'
  BY <1>1 DEF WalkInv, OutOK, EntryOK
<1>4. Paid'
  BY <1>1 DEF WalkInv, Paid, Counted, Shows, Pending, Runs, task
<1> QED
  BY <1>1, <1>2, <1>3, <1>4 DEF WalkInv

(***************************************************************************)
(* What the walk has built is within the limits, under no hidden key, and  *)
(* paid for out of one budget (dump.go nextField), in every state.         *)
(***************************************************************************)
THEOREM WalkInvariance == SerializeSpec => []WalkInv
<1>1. WalkInv /\ [SerializeNext]_serializeVars => WalkInv'
  BY ValuePreserves, VisitPlainPreserves, VisitPointerPreserves, VisitContainerPreserves,
     IndirectPreserves, EntryPreserves, EndEntriesPreserves, WalkStutters DEF SerializeNext
<1> QED
  BY <1>1, WalkInitially, PTL DEF SerializeSpec

(***************************************************************************)
(* The limits bound the whole result, not each container: no more entries  *)
(* than maxFields, none deeper than maxDepth, and nothing opened at that   *)
(* depth (dump.go WithDumpMaxFields, WithDumpDepth).                       *)
(***************************************************************************)
THEOREM DumpsWithinLimits == SerializeSpec => []WithinLimits
<1>1. WalkInv => WithinLimits
  <2> SUFFICES ASSUME WalkInv PROVE WithinLimits
    OBVIOUS
  <2>1. limits.maxFields > 0 => Cardinality(Counted) <= limits.maxFields
    <3>1. Cardinality(Counted) \in Nat /\ limits.maxFields \in Int /\ (Pending = 0 \/ Pending = 1)
      BY FS_Subset, FS_CardinalityType, GraphTyped DEF WalkInv, OutOK, Counted, Pending
    <3> QED BY <3>1 DEF WalkInv, Paid
  <2> QED BY <2>1 DEF WalkInv, OutOK, EntryOK, WithinLimits, Counted, Shows
<1> QED
  BY <1>1, WalkInvariance, PTL

(***************************************************************************)
(* What a rule hides stays hidden wherever the walk meets its key, behind  *)
(* pointers, in slices and in nested maps: nothing is shown under a        *)
(* removed key; under one that the Masker answers nil for, nothing but a   *)
(* value that was nil; and of what a masked key holds nothing but the mask *)
(* (dump.go sanitizeKey, sliceValue).                                      *)
(***************************************************************************)
THEOREM DumpsHide == SerializeSpec => []HiddenStaysHidden
<1>1. WalkInv => HiddenStaysHidden
  BY DEF WalkInv, OutOK, EntryOK, HiddenStaysHidden
<1> QED
  BY <1>1, WalkInvariance, PTL

-----------------------------------------------------------------------------
(***************************************************************************)
(* What a value leads to, and the entries it has.                          *)
(***************************************************************************)
GraphNodes == [kind : Kinds, to : Values, at : Nodes, entries : Seq(Items)]

\* The facts about met values: n is one, and so is what one of them points to;
\* there are no others.
LEMMA MetByDefinition ==
    ASSUME NEW g, g \in [Nodes -> GraphNodes], NEW n \in Values
    PROVE  /\ n \in MetFrom(g, n) /\ MetFrom(g, n) \subseteq Values
           /\ \A m \in MetFrom(g, n) : LeadsOn(g, m) => g[m].to \in MetFrom(g, n)
           /\ \A S \in SUBSET Values :
                 (n \in S /\ \A m \in S : LeadsOn(g, m) => g[m].to \in S) => MetFrom(g, n) \subseteq S
<1>1. \A m \in Values : LeadsOn(g, m) => g[m].to \in Values
  BY DEF LeadsOn, Values, GraphNodes
<1> QED
  BY <1>1, Zenon DEF MetFrom

\* What leads nowhere is all that is met from it.
LEMMA MetFromEnd ==
    ASSUME NEW g, g \in [Nodes -> GraphNodes], NEW n \in Values, ~LeadsOn(g, n)
    PROVE  MetFrom(g, n) = {n}
<1> DEFINE S == {n}
<1>1. S \in SUBSET Values /\ n \in S /\ \A m \in S : LeadsOn(g, m) => g[m].to \in S
  OBVIOUS
<1> HIDE DEF S
<1>2. MetFrom(g, n) \subseteq S
  BY <1>1, MetByDefinition
<1> QED
  BY <1>2, MetByDefinition DEF S

\* What is met next and what is met from there.
LEMMA MetFromNext ==
    ASSUME NEW g, g \in [Nodes -> GraphNodes], NEW n \in Values, LeadsOn(g, n)
    PROVE  /\ g[n].to \in Values
           /\ MetFrom(g, n) = {n} \cup MetFrom(g, g[n].to)
<1> DEFINE next == g[n].to
<1>1. next \in Values
  BY DEF LeadsOn, Values, GraphNodes
<1> HIDE DEF next
<1>2. next = g[n].to
  BY DEF next
<1>3. MetFrom(g, n) \subseteq {n} \cup MetFrom(g, next)
  <2>1. /\ next \in MetFrom(g, next) /\ MetFrom(g, next) \subseteq Values
        /\ \A m \in MetFrom(g, next) : LeadsOn(g, m) => g[m].to \in MetFrom(g, next)
    BY <1>1, MetByDefinition
  <2> DEFINE S == {n} \cup MetFrom(g, next)
  <2>2. S \in SUBSET Values /\ n \in S /\ \A m \in S : LeadsOn(g, m) => g[m].to \in S
    BY <1>2, <2>1
  <2> HIDE DEF S
  <2>3. MetFrom(g, n) \subseteq S
    BY <2>2, MetByDefinition
  <2> QED BY <2>3 DEF S
<1>4. n \in MetFrom(g, n)
  BY MetByDefinition
<1>5. MetFrom(g, next) \subseteq MetFrom(g, n)
  <2> DEFINE S == MetFrom(g, n)
  <2>1. S \in SUBSET Values /\ next \in S /\ \A m \in S : LeadsOn(g, m) => g[m].to \in S
    BY <1>2, MetByDefinition
  <2> HIDE DEF S
  <2>2. MetFrom(g, next) \subseteq S
    BY <1>1, <2>1, MetByDefinition
  <2> QED BY <2>2 DEF S
<1> QED
  BY <1>1, <1>2, <1>3, <1>4, <1>5

\* A value that leads nowhere is its own end.
LEMMA BehindEnd ==
    ASSUME NEW g, g \in [Nodes -> GraphNodes], NEW n \in Values, ~LeadsOn(g, n)
    PROVE  Behind(g, n) = n
<1>1. Ends(g, n) = {n}
  BY MetFromEnd DEF Ends
<1> QED
  BY <1>1 DEF Behind

\* A pointer or an interface has the end of what it leads to.
LEMMA BehindNext ==
    ASSUME NEW g, g \in [Nodes -> GraphNodes], NEW n \in Values, LeadsOn(g, n)
    PROVE  Behind(g, n) = Behind(g, g[n].to)
<1>1. Ends(g, n) = Ends(g, g[n].to)
  BY MetFromNext DEF Ends
<1> QED
  BY <1>1 DEF Behind

\* An end leads nowhere.
LEMMA BehindIsEnd ==
    ASSUME NEW g, g \in [Nodes -> GraphNodes], NEW n \in Values
    PROVE  Behind(g, n) \in Values /\ ~LeadsOn(g, Behind(g, n))
<1>1. Ends(g, n) \subseteq Values /\ \A m \in Ends(g, n) : ~LeadsOn(g, m)
  BY MetByDefinition DEF Ends
<1>2. Nil \in Values /\ ~LeadsOn(g, Nil)
  BY DEF Values, LeadsOn
<1>3. Behind(g, n) = Nil \/ Behind(g, n) \in Ends(g, n)
  BY DEF Behind
<1> QED
  BY <1>1, <1>2, <1>3

\* All that is met from a value leads to the same end.
LEMMA BehindMet ==
    ASSUME NEW g, g \in [Nodes -> GraphNodes], NEW n \in Values, NEW m \in MetFrom(g, n)
    PROVE  m \in Values /\ Behind(g, m) = Behind(g, n)
<1> DEFINE S == {x \in Values : Behind(g, x) = Behind(g, n)}
<1>1. n \in S /\ S \in SUBSET Values
  OBVIOUS
<1>2. ASSUME NEW x \in S, LeadsOn(g, x) PROVE g[x].to \in S
  BY <1>2, MetFromNext, BehindNext
<1> HIDE DEF S
<1>3. MetFrom(g, n) \subseteq S
  BY <1>1, <1>2, MetByDefinition
<1> QED
  BY <1>3 DEF S

\* What meets a value that points back to it leads nowhere.
LEMMA BehindLoop ==
    ASSUME NEW g, g \in [Nodes -> GraphNodes], NEW n \in Values, NEW m \in MetFrom(g, n),
           LeadsOn(g, m), g[m].to = n
    PROVE  Behind(g, n) = Nil
<1> DEFINE S == {x \in Values : m \in MetFrom(g, x)}
<1>1. n \in S /\ S \in SUBSET Values
  OBVIOUS
<1>2. ASSUME NEW x \in S, LeadsOn(g, x) PROVE g[x].to \in S
  <2>1. CASE x = m
    BY <1>1, <2>1
  <2>2. CASE x # m
    BY <1>2, <2>2, MetFromNext
  <2> QED BY <2>1, <2>2
<1> HIDE DEF S
<1>3. MetFrom(g, n) \subseteq S
  BY <1>1, <1>2, MetByDefinition
<1>4. ASSUME NEW e \in Ends(g, n) PROVE FALSE
  <2>1. e \in Values /\ ~LeadsOn(g, e) /\ m \in MetFrom(g, e)
    BY <1>3, <1>4 DEF Ends, S
  <2>2. m = e
    BY <2>1, MetFromEnd
  <2> QED BY <2>1, <2>2
<1> QED
  BY <1>4 DEF Behind

\* An interface leads on to the value in it.
LEMMA BehindDynamic ==
    ASSUME graph \in [Nodes -> GraphNodes], NEW n \in Values
    PROVE  Dynamic(n) \in Values /\ Behind(graph, Dynamic(n)) = Behind(graph, n)
<1>1. CASE n # Nil /\ graph[n].kind = "iface"
  <2>1. LeadsOn(graph, n) /\ Dynamic(n) = graph[n].to
    BY <1>1 DEF LeadsOn, Dynamic
  <2> QED BY <2>1, MetFromNext, BehindNext
<1>2. CASE ~(n # Nil /\ graph[n].kind = "iface")
  BY <1>2 DEF Dynamic
<1> QED
  BY <1>1, <1>2

-----------------------------------------------------------------------------
\* The function that Unfolding takes its levels from.
Top(g) == {[path |-> << >>, node |-> Behind(g, 1)]}
NextLevel(g, us) ==
    UNION {{[path |-> Append(u.path, e.key), node |-> Behind(g, e.node)] :
                e \in EntriesOf(g, u.node)} : u \in us}
IsLevels(f, g, depth) == f = [n \in 0 .. depth |-> IF n = 0 THEN Top(g) ELSE NextLevel(g, f[n - 1])]

\* There is such a function, built level by level.
LEMMA LevelsExist ==
    ASSUME NEW g, NEW depth \in Nat
    PROVE  \E f : IsLevels(f, g, depth)
<1> DEFINE T == {d \in Nat : \E f : IsLevels(f, g, d)}
<1>1. 0 \in T
  <2> DEFINE f == [n \in 0 .. 0 |-> Top(g)]
  <2>1. IsLevels(f, g, 0)
    BY DEF IsLevels
  <2> QED BY <2>1
<1>2. ASSUME NEW d \in Nat, d \in T PROVE d + 1 \in T
  <2>1. PICK f : IsLevels(f, g, d)
    BY <1>2
  <2> DEFINE h == [n \in 0 .. d + 1 |-> IF n = d + 1 THEN NextLevel(g, f[d]) ELSE f[n]]
             e(k, n) == IF n = 0 THEN Top(g) ELSE NextLevel(g, k[n - 1])
  <2>2. \A n \in 0 .. d : f[n] = e(f, n)
    BY <2>1 DEF IsLevels
  <2>3. \A n \in 0 .. d : h[n] = f[n]
    OBVIOUS
  <2>4. h[d + 1] = NextLevel(g, f[d])
    OBVIOUS
  <2> HIDE DEF h
  <2>5. ASSUME NEW n \in 0 .. d + 1 PROVE h[n] = e(h, n)
    <3>1. CASE n = 0
      BY <2>2, <2>3, <3>1
    <3>2. CASE n # 0 /\ n # d + 1
      <4>1. n \in 0 .. d /\ n - 1 \in 0 .. d
        BY <3>2
      <4> QED BY <2>2, <2>3, <3>2, <4>1
    <3>3. CASE n = d + 1
      <4>1. n - 1 = d /\ d \in 0 .. d /\ n # 0
        BY <3>3
      <4> QED BY <2>3, <2>4, <3>3, <4>1
    <3> QED BY <3>1, <3>2, <3>3
  <2> HIDE DEF e
  <2>6. h = [n \in 0 .. d + 1 |-> e(h, n)]
    BY <2>5 DEF h
  <2>7. IsLevels(h, g, d + 1)
    BY <2>6 DEF IsLevels, e
  <2> QED BY <2>7
<1>3. Nat \subseteq T
  <2> HIDE DEF T
  <2> QED BY <1>1, <1>2, NatSetInduction
<1> QED
  BY <1>3

\* It is what Unfolding chooses.
LEMMA UnfoldingLevels ==
    ASSUME NEW g, NEW depth \in Nat
    PROVE  \E f : /\ Unfolding(g, depth) = UNION {f[n] : n \in 0 .. depth}
                  /\ f[0] = Top(g)
                  /\ \A n \in 0 .. depth : n # 0 => f[n] = NextLevel(g, f[n - 1])
<1> DEFINE f == CHOOSE h : h = [n \in 0 .. depth |-> IF n = 0 THEN Top(g) ELSE NextLevel(g, h[n - 1])]
<1>1. IsLevels(f, g, depth)
  BY LevelsExist, Zenon DEF IsLevels
<1>2. Unfolding(g, depth) = UNION {f[n] : n \in 0 .. depth}
  BY Zenon DEF Unfolding, Top, NextLevel
<1> HIDE DEF f
<1> DEFINE e(n) == IF n = 0 THEN Top(g) ELSE NextLevel(g, f[n - 1])
<1>3. f = [n \in 0 .. depth |-> e(n)]
  BY <1>1 DEF IsLevels
<1> HIDE DEF e
<1>4. \A n \in 0 .. depth : f[n] = e(n)
  BY <1>3
<1>5. f[0] = Top(g) /\ \A n \in 0 .. depth : n # 0 => f[n] = NextLevel(g, f[n - 1])
  BY <1>4 DEF e
<1> QED
  BY <1>2, <1>5

-----------------------------------------------------------------------------
\* Paths, and what lies under them.
Labels == Keys \cup {"..."}
Under(p, q) == Len(p) <= Len(q) /\ \A i \in 1 .. Len(p) : p[i] = q[i]

\* A path lies under another that is a prefix of it.
LEMMA UnderIsPrefix ==
    ASSUME NEW S, NEW p \in Seq(S), NEW q \in Seq(S)
    PROVE  IsPrefix(p, q) <=> Under(p, q)
<1>1. Len(p) \in Nat /\ Len(q) \in Nat /\ SubSeq(p, 1, Len(p)) = p
  OBVIOUS
<1>2. ASSUME Len(p) <= Len(q)
      PROVE  /\ SubSeq(q, 1, Len(p)) \in Seq(S) /\ Len(SubSeq(q, 1, Len(p))) = Len(p)
             /\ \A i \in 1 .. Len(p) : SubSeq(q, 1, Len(p))[i] = q[i]
  <2>1. PICK n \in Nat : n = Len(p)
    BY <1>1
  <2>2. /\ SubSeq(q, 1, n) \in Seq(S) /\ Len(SubSeq(q, 1, n)) = n
        /\ \A i \in 1 .. n : SubSeq(q, 1, n)[i] = q[i]
    BY <1>1, <1>2, <2>1
  <2> QED BY <2>1, <2>2
<1>3. ASSUME Len(p) <= Len(q), \A i \in 1 .. Len(p) : p[i] = q[i]
      PROVE  SubSeq(q, 1, Len(p)) = p
  <2>1. PICK r \in Seq(S) : r = SubSeq(q, 1, Len(p))
    BY <1>2, <1>3
  <2>2. Len(r) = Len(p) /\ \A i \in 1 .. Len(p) : r[i] = p[i]
    BY <1>2, <1>3, <2>1
  <2>3. r = p
    BY <2>2, SeqEqual
  <2> QED BY <2>1, <2>3
<1> QED
  BY <1>1, <1>2, <1>3, Zenon DEF IsPrefix, Under

\* What lies under an entry lies under its container and goes on by its key.
LEMMA UnderAppend ==
    ASSUME NEW p \in Seq(Labels), NEW k \in Labels, NEW q \in Seq(Labels)
    PROVE  /\ Append(p, k) \in Seq(Labels) /\ Len(Append(p, k)) = Len(p) + 1
           /\ Append(p, k)[Len(p) + 1] = k
           /\ Under(p, Append(p, k))
           /\ Under(Append(p, k), q) <=> /\ Under(p, q) /\ Len(p) < Len(q)
                                        /\ q[Len(p) + 1] = k
<1>1. PICK r \in Seq(Labels) : r = Append(p, k)
  BY AppendProperties
<1>2. /\ Len(r) = Len(p) + 1 /\ r[Len(p) + 1] = k /\ Len(p) \in Nat /\ Len(q) \in Nat
      /\ \A i \in 1 .. Len(p) : r[i] = p[i]
  BY <1>1, AppendProperties
<1>3. Under(r, q) <=> Under(p, q) /\ Len(p) < Len(q) /\ q[Len(p) + 1] = k
  <2>1. \A i : i \in 1 .. Len(r) <=> i \in 1 .. Len(p) \/ i = Len(p) + 1
    BY <1>2
  <2>2. ASSUME Under(r, q) PROVE Under(p, q) /\ Len(p) < Len(q) /\ q[Len(p) + 1] = k
    BY <1>2, <2>1, <2>2 DEF Under
  <2>3. ASSUME Under(p, q), Len(p) < Len(q), q[Len(p) + 1] = k PROVE Under(r, q)
    BY <1>2, <2>1, <2>3 DEF Under
  <2> QED BY <2>2, <2>3
<1>4. Under(p, r)
  BY <1>2 DEF Under
<1> QED
  BY <1>1, <1>2, <1>3, <1>4

\* Paths are ordered as a tree.
LEMMA UnderOrder ==
    ASSUME NEW p \in Seq(Labels), NEW q \in Seq(Labels), NEW r \in Seq(Labels)
    PROVE  /\ Under(p, p) /\ Under(<< >>, p)
           /\ (Under(p, q) /\ Under(q, r)) => Under(p, r)
           /\ (Under(p, q) /\ Len(q) <= Len(p)) => p = q
           /\ (Under(p, r) /\ Under(q, r) /\ Len(p) <= Len(q)) => Under(p, q)
<1>1. Len(p) \in Nat /\ Len(q) \in Nat /\ Len(r) \in Nat
  OBVIOUS
<1>2. Under(p, p) /\ Under(<< >>, p)
  <2>1. Len(<< >>) = 0 /\ 1 .. 0 = {}
    OBVIOUS
  <2> QED BY <1>1, <2>1 DEF Under
<1>3. ASSUME Under(p, q), Under(q, r) PROVE Under(p, r)
  <2>1. \A i \in 1 .. Len(p) : i \in 1 .. Len(q)
    BY <1>1, <1>3 DEF Under
  <2> QED BY <1>1, <1>3, <2>1 DEF Under
<1>4. ASSUME Under(p, q), Len(q) <= Len(p) PROVE p = q
  <2>1. Len(p) = Len(q) /\ \A i \in 1 .. Len(p) : p[i] = q[i]
    BY <1>1, <1>4 DEF Under
  <2> QED BY <2>1, SeqEqual
<1>5. ASSUME Under(p, r), Under(q, r), Len(p) <= Len(q) PROVE Under(p, q)
  <2>1. \A i \in 1 .. Len(p) : i \in 1 .. Len(q)
    BY <1>1, <1>5
  <2> QED BY <1>1, <1>5, <2>1 DEF Under
<1> QED
  BY <1>2, <1>3, <1>4, <1>5

\* An entry has one container and one key.
LEMMA AppendSame ==
    ASSUME NEW p \in Seq(Keys), NEW j \in Keys, NEW q \in Seq(Keys), NEW k \in Keys,
           Append(p, j) = Append(q, k)
    PROVE  p = q /\ j = k
<1>1. /\ Len(Append(p, j)) = Len(p) + 1 /\ Len(Append(q, k)) = Len(q) + 1
      /\ Len(p) \in Nat /\ Len(q) \in Nat
      /\ Append(p, j)[Len(p) + 1] = j /\ Append(q, k)[Len(q) + 1] = k
      /\ \A i \in 1 .. Len(p) : Append(p, j)[i] = p[i]
      /\ \A i \in 1 .. Len(q) : Append(q, k)[i] = q[i]
  BY AppendProperties
<1>2. Len(p) = Len(q) /\ j = k /\ \A i \in 1 .. Len(p) : p[i] = q[i]
  BY <1>1
<1> QED
  BY <1>2, SeqEqual

\* The path of the container that was cut.
LEMMA FrontOfAppend ==
    ASSUME NEW p \in Seq(Labels), NEW k \in Labels
    PROVE  Front(Append(p, k)) = p /\ Append(p, k) # << >>
<1>1. PICK q \in Seq(Labels) : q = Append(p, k)
  BY AppendProperties
<1>2. /\ Len(q) = Len(p) + 1 /\ Len(p) \in Nat /\ q # << >>
      /\ \A j \in 1 .. Len(p) : q[j] = p[j]
  BY <1>1, AppendProperties
<1>3. PICK n \in Nat : n = Len(p) /\ n = Len(q) - 1 /\ n <= Len(q)
  BY <1>2
<1>4. SubSeq(q, 1, n) \in Seq(Labels) /\ Len(SubSeq(q, 1, n)) = n
      /\ \A j \in 1 .. n : SubSeq(q, 1, n)[j] = q[j]
  BY <1>3
<1>5. PICK r \in Seq(Labels) : r = SubSeq(q, 1, n)
  BY <1>4
<1>6. Len(r) = Len(p) /\ \A j \in 1 .. Len(p) : r[j] = p[j]
  BY <1>2, <1>3, <1>4, <1>5
<1>7. r = p
  BY <1>6, SeqEqual
<1> QED
  BY <1>1, <1>2, <1>3, <1>5, <1>7 DEF Front

-----------------------------------------------------------------------------
\* The entries of a value: above each are those of the containers it is in, and
\* one whose names stand for one entry each has its path to itself.
Places == [path : Seq(Keys), node : Values]

\* The entries of a container are keys with values.
LEMMA EntriesTyped ==
    ASSUME NEW g \in Graphs
    PROVE  /\ g \in [Nodes -> GraphNodes] /\ 1 \in Values
           /\ \A n \in Values : \A e \in EntriesOf(g, n) :
                 n # Nil /\ e \in Items /\ e.key \in Keys /\ e.node \in Values
<1>1. g \in [Nodes -> GraphNodes] /\ 1 \in Values
  BY GraphsTyped DEF GraphNodes, Items, Values
<1>2. \A n \in Nodes : g[n] \in GraphNodes
  BY <1>1
<1>3. ASSUME NEW n \in Values, NEW e \in EntriesOf(g, n)
      PROVE  n \in Nodes /\ \E i \in DOMAIN g[n].entries : e = g[n].entries[i]
  BY <1>3 DEF EntriesOf, Values, ToSet
<1>4. \A n \in Nodes : g[n].entries \in Seq(Items)
  BY <1>2 DEF GraphNodes
<1>5. \A n \in Values : \A e \in EntriesOf(g, n) : e \in Items
  BY <1>3, <1>4
<1>6. \A n \in Values : \A e \in EntriesOf(g, n) : n # Nil
  BY DEF EntriesOf
<1> QED
  BY <1>1, <1>5, <1>6 DEF Items

\* The entries of a value, level by level: what Unfolding defines.
LEMMA Unfolds ==
    ASSUME NEW g \in Graphs, NEW depth \in Nat
    PROVE  LET U == Unfolding(g, depth)
           IN  /\ [path |-> << >>, node |-> Behind(g, 1)] \in U
               /\ \A u \in U : u \in Places /\ Len(u.path) <= depth /\ ~LeadsOn(g, u.node)
               /\ \A u \in U : Len(u.path) < depth => \A e \in EntriesOf(g, u.node) :
                     [path |-> Append(u.path, e.key), node |-> Behind(g, e.node)] \in U
               /\ \A u \in U : Len(u.path) # 0 => \E w \in U : \E e \in EntriesOf(g, w.node) :
                     u = [path |-> Append(w.path, e.key), node |-> Behind(g, e.node)]
               /\ \A u \in U : Len(u.path) = 0 => u = [path |-> << >>, node |-> Behind(g, 1)]
<1> DEFINE U == Unfolding(g, depth)
           below(u, e) == [path |-> Append(u.path, e.key), node |-> Behind(g, e.node)]
           top == [path |-> << >>, node |-> Behind(g, 1)]
<1>1. PICK f : /\ U = UNION {f[n] : n \in 0 .. depth}
               /\ f[0] = Top(g)
               /\ \A n \in 0 .. depth : n # 0 => f[n] = NextLevel(g, f[n - 1])
  BY UnfoldingLevels
<1> HIDE DEF U
<1>2. f[0] = {top}
  BY <1>1 DEF Top
<1>3. \A n \in 0 .. depth : n # 0 => \A u :
          u \in f[n] <=> \E w \in f[n - 1] : \E e \in EntriesOf(g, w.node) : u = below(w, e)
  BY <1>1 DEF NextLevel
<1>4. ASSUME NEW u \in Places, NEW e \in EntriesOf(g, u.node)
      PROVE  /\ below(u, e) \in Places /\ Len(below(u, e).path) = Len(u.path) + 1
             /\ ~LeadsOn(g, below(u, e).node)
  <2>1. u.node \in Values /\ u.path \in Seq(Keys)
    BY DEF Places
  <2>2. e.key \in Keys /\ e.node \in Values
    BY <2>1, EntriesTyped
  <2>3. Behind(g, e.node) \in Values /\ ~LeadsOn(g, Behind(g, e.node))
    BY <2>2, EntriesTyped, BehindIsEnd
  <2>4. Append(u.path, e.key) \in Seq(Keys) /\ Len(Append(u.path, e.key)) = Len(u.path) + 1
    BY <2>1, <2>2, AppendProperties
  <2> QED BY <2>3, <2>4 DEF Places
<1>5. top \in Places /\ Len(top.path) = 0 /\ ~LeadsOn(g, top.node)
  BY EntriesTyped, BehindIsEnd DEF Places
<1> HIDE DEF below, top
<1>6. \A n \in 0 .. depth : \A u \in f[n] : u \in Places /\ Len(u.path) = n /\ ~LeadsOn(g, u.node)
  <2> DEFINE T == {n \in Nat : n <= depth => \A u \in f[n] :
                                    u \in Places /\ Len(u.path) = n /\ ~LeadsOn(g, u.node)}
  <2>1. 0 \in T
    BY <1>2, <1>5
  <2>2. ASSUME NEW n \in Nat, n \in T PROVE n + 1 \in T
    <3> SUFFICES ASSUME n + 1 <= depth, NEW u \in f[n + 1]
                 PROVE  u \in Places /\ Len(u.path) = n + 1 /\ ~LeadsOn(g, u.node)
      OBVIOUS
    <3>1. PICK m \in 0 .. depth : m = n + 1
      OBVIOUS
    <3>2. PICK w \in f[n] : \E e \in EntriesOf(g, w.node) : u = below(w, e)
      <4>1. m # 0 /\ m - 1 = n
        BY <3>1
      <4> QED BY <1>3, <3>1, <4>1
    <3>3. w \in Places /\ Len(w.path) = n
      BY <2>2, <3>2
    <3> QED BY <1>4, <3>2, <3>3
  <2> HIDE DEF T
  <2>3. Nat \subseteq T
    BY <2>1, <2>2, NatSetInduction
  <2> QED BY <2>3 DEF T
<1>7. \A u \in U : \E n \in 0 .. depth : u \in f[n]
  BY <1>1
<1>8. \A n \in 0 .. depth : f[n] \subseteq U
  BY <1>1
<1>9. top \in U
  <2>1. 0 \in 0 .. depth
    OBVIOUS
  <2> QED BY <1>2, <1>8, <2>1
<1>10. ASSUME NEW u \in U, Len(u.path) < depth, NEW e \in EntriesOf(g, u.node)
       PROVE  below(u, e) \in U
  <2>1. PICK n \in 0 .. depth : u \in f[n] /\ Len(u.path) = n
    BY <1>6, <1>7
  <2>2. PICK m \in 0 .. depth : m = n + 1 /\ m # 0 /\ m - 1 = n
    BY <1>10, <2>1
  <2>3. below(u, e) \in f[m]
    BY <1>3, <1>10, <2>1, <2>2
  <2> QED BY <1>8, <2>3
<1>11. ASSUME NEW u \in U
       PROVE  /\ Len(u.path) # 0 => \E w \in U : \E e \in EntriesOf(g, w.node) : u = below(w, e)
              /\ Len(u.path) = 0 => u = top
  <2>1. PICK n \in 0 .. depth : u \in f[n] /\ Len(u.path) = n
    BY <1>6, <1>7
  <2>2. CASE n = 0
    BY <1>2, <2>1, <2>2
  <2>3. CASE n # 0
    <3>1. n - 1 \in 0 .. depth
      BY <2>3
    <3> QED BY <1>3, <1>8, <2>1, <2>3, <3>1
  <2> QED BY <2>2, <2>3
<1>12. \A u \in U : u \in Places /\ Len(u.path) <= depth /\ ~LeadsOn(g, u.node)
  BY <1>6, <1>7
<1> QED
  BY <1>9, <1>10, <1>11, <1>12 DEF U, below, top

\* Above an entry there is one at each prefix of its path, and a next one on the way.
LEMMA UnfoldsAbove ==
    ASSUME NEW g \in Graphs, NEW depth \in Nat, NEW u \in Unfolding(g, depth),
           NEW p \in Seq(Keys), Under(p, u.path)
    PROVE  \E w \in Unfolding(g, depth) :
              /\ w.path = p
              /\ u.path = p \/ \E e \in EntriesOf(g, w.node) : Under(Append(p, e.key), u.path)
<1> DEFINE U == Unfolding(g, depth)
           Found(x) == \E w \in U :
              /\ w.path = p
              /\ x.path = p \/ \E e \in EntriesOf(g, w.node) : Under(Append(p, e.key), x.path)
           T == {n \in Nat : \A x \in U : (Len(x.path) = n /\ Under(p, x.path)) => Found(x)}
<1> HIDE DEF U
<1>1. \A x \in U : x \in Places /\ x.path \in Seq(Keys) /\ x.path \in Seq(Labels)
                    /\ Len(x.path) \in Nat
  <2>1. \A x \in U : x \in Places
    BY Unfolds DEF U
  <2> QED BY <2>1 DEF Places, Labels
<1>2. p \in Seq(Labels) /\ Len(p) \in Nat
  BY DEF Labels
<1>3. \A x \in U : x.path = p => Found(x)
  OBVIOUS
<1>4. 0 \in T
  <2> SUFFICES ASSUME NEW x \in U, Len(x.path) = 0, Under(p, x.path) PROVE x.path = p
    BY <1>3
  <2>1. Len(x.path) <= Len(p)
    BY <1>2
  <2> QED BY <1>1, <1>2, <2>1, UnderOrder
<1>5. ASSUME NEW n \in Nat, n \in T PROVE n + 1 \in T
  <2> SUFFICES ASSUME NEW x \in U, Len(x.path) = n + 1, Under(p, x.path), x.path # p PROVE Found(x)
    BY <1>3
  <2>1. PICK v \in U : \E d \in EntriesOf(g, v.node) :
          x = [path |-> Append(v.path, d.key), node |-> Behind(g, d.node)]
    <3>1. Len(x.path) # 0
      OBVIOUS
    <3> QED BY <3>1, Unfolds DEF U
  <2>1a. PICK d \in EntriesOf(g, v.node) :
          x = [path |-> Append(v.path, d.key), node |-> Behind(g, d.node)]
    BY <2>1
  <2>2. d.key \in Labels /\ v.path \in Seq(Labels) /\ x.path \in Seq(Labels)
    <3>1. v \in Places
      BY Unfolds DEF U
    <3>2. v.node \in Values
      BY <3>1 DEF Places
    <3>3. d.key \in Keys
      BY <3>2, EntriesTyped
    <3> QED BY <1>1, <3>3 DEF Labels
  <2>3. x.path = Append(v.path, d.key)
    BY <2>1a
  <2>4. Len(x.path) = Len(v.path) + 1 /\ Len(v.path) = n /\ Under(v.path, x.path)
    BY <1>1, <2>2, <2>3, UnderAppend
  <2>5. ~(Len(x.path) <= Len(p))
    BY <1>2, <2>2, UnderOrder
  <2>6. Under(p, v.path)
    <3>1. Len(p) <= Len(v.path)
      BY <1>2, <2>4, <2>5
    <3> QED BY <1>2, <2>2, <2>4, <3>1, UnderOrder
  <2>7. Found(v)
    BY <1>5, <2>4, <2>6
  <2>8. PICK w \in U :
            /\ w.path = p
            /\ v.path = p \/ \E e \in EntriesOf(g, w.node) : Under(Append(p, e.key), v.path)
    BY <2>7
  <2>9. CASE v.path = p
    <3>1. Under(Append(p, d.key), x.path)
      BY <2>2, <2>3, <2>9, UnderOrder
    <3> QED BY <2>9, <3>1
  <2>10. ASSUME NEW e \in EntriesOf(g, w.node), Under(Append(p, e.key), v.path)
         PROVE  Found(x)
    <3>1. w.node \in Values
      BY Unfolds DEF U, Places
    <3>2. e.key \in Labels
      BY <3>1, EntriesTyped DEF Labels
    <3>3. PICK q \in Seq(Labels) : q = Append(p, e.key)
      BY <1>2, <3>2, AppendProperties
    <3>4. Under(q, x.path)
      BY <2>2, <2>4, <2>10, <3>3, UnderOrder
    <3>5. w.path = p
      BY <2>8
    <3>6. Under(Append(p, e.key), x.path)
      BY <3>3, <3>4
    <3> QED BY <3>5, <3>6
  <2> QED BY <2>8, <2>9, <2>10
<1>6. Nat \subseteq T
  <2> HIDE DEF T
  <2> QED BY <1>4, <1>5, NatSetInduction
<1>7. u \in U /\ Len(u.path) \in Nat
  BY <1>1 DEF U
<1> QED
  BY <1>6, <1>7 DEF U

\* A name of an entry that stands for one.
LEMMA OnceIsOne ==
    ASSUME graph \in Graphs, NEW n \in Values, NEW d \in EntriesOf(graph, n),
           NEW e \in EntriesOf(graph, n), Once(n, d.key), d.key = e.key
    PROVE  d = e
<1>1. n \in Nodes
  BY EntriesTyped DEF Values
<1>2. /\ \E i \in DOMAIN graph[n].entries : d = graph[n].entries[i]
      /\ \E i \in DOMAIN graph[n].entries : e = graph[n].entries[i]
  BY <1>1 DEF EntriesOf, ToSet, Values
<1> QED
  BY <1>2 DEF Once

\* What Named says of the containers an entry is in.
LEMMA NamedAbove ==
    ASSUME graph \in Graphs, limits \in Limits, NEW u \in Named, NEW w \in Real,
           Under(w.path, u.path), w.node # Nil, NEW k, Len(w.path) < Len(u.path),
           u.path[Len(w.path) + 1] = k
    PROVE  Once(w.node, k)
<1>1. u \in Real /\ \A x \in Real :
          (IsPrefix(x.path, u.path) /\ x.path # u.path /\ x.node # Nil)
              => Once(x.node, u.path[Len(x.path) + 1])
  BY DEF Named
<1>2. u \in Places /\ w \in Places
  BY <1>1, Unfolds, DepthsNatural DEF Real
<1>3. u.path \in Seq(Labels) /\ w.path \in Seq(Labels)
  BY <1>2 DEF Places, Labels
<1>4. IsPrefix(w.path, u.path)
  BY <1>3, UnderIsPrefix
<1> QED
  BY <1>1, <1>4

\* There is one entry at a path to an entry of Named.
LEMMA NamedOnce ==
    ASSUME graph \in Graphs, limits \in Limits, NEW u \in Named,
           NEW v \in Real, NEW w \in Real, v.path = w.path, Under(v.path, u.path)
    PROVE  v = w
<1> DEFINE T == {n \in Nat : \A x, y \in Real :
                    (Len(x.path) = n /\ x.path = y.path /\ Under(x.path, u.path)) => x = y}
<1>0. limits.maxDepth \in Nat
  BY DepthsNatural
<1>0a. u \in Places /\ \A x \in Real : x \in Places
  BY <1>0, Unfolds DEF Real, Named
<1>1. 0 \in T
  <2> SUFFICES ASSUME NEW x \in Real, NEW y \in Real, Len(x.path) = 0, x.path = y.path
               PROVE  x = y
    OBVIOUS
  <2>1. \A z \in Real : Len(z.path) = 0 => z = [path |-> << >>, node |-> Behind(graph, 1)]
    BY <1>0, Unfolds DEF Real
  <2>2. Len(y.path) = 0
    OBVIOUS
  <2> QED BY <2>1, <2>2
<1>2. ASSUME NEW n \in Nat, n \in T PROVE n + 1 \in T
  <2> SUFFICES ASSUME NEW x \in Real, NEW y \in Real, Len(x.path) = n + 1, x.path = y.path,
                      Under(x.path, u.path)
               PROVE  x = y
    OBVIOUS
  <2>1. Len(x.path) # 0 /\ Len(y.path) # 0
    OBVIOUS
  <2>2. PICK a \in Real : \E d \in EntriesOf(graph, a.node) :
          x = [path |-> Append(a.path, d.key), node |-> Behind(graph, d.node)]
    BY <1>0, <2>1, Unfolds DEF Real
  <2>2a. PICK d \in EntriesOf(graph, a.node) :
          x = [path |-> Append(a.path, d.key), node |-> Behind(graph, d.node)]
    BY <2>2
  <2>3. PICK b \in Real : \E e \in EntriesOf(graph, b.node) :
          y = [path |-> Append(b.path, e.key), node |-> Behind(graph, e.node)]
    BY <1>0, <2>1, Unfolds DEF Real
  <2>3a. PICK e \in EntriesOf(graph, b.node) :
          y = [path |-> Append(b.path, e.key), node |-> Behind(graph, e.node)]
    BY <2>3
  <2>4. /\ a.path \in Seq(Keys) /\ b.path \in Seq(Keys) /\ a.node \in Values /\ b.node \in Values
        /\ u.path \in Seq(Labels)
    BY <1>0a DEF Places, Labels
  <2>5. d.key \in Keys /\ e.key \in Keys /\ a.node # Nil
    BY <2>4, EntriesTyped
  <2>6. x.path = Append(a.path, d.key) /\ y.path = Append(b.path, e.key)
    BY <2>2a, <2>3a
  <2>7. a.path = b.path /\ d.key = e.key
    <3>1. PICK p \in Seq(Keys) : p = a.path
      BY <2>4
    <3>2. PICK q \in Seq(Keys) : q = b.path
      BY <2>4
    <3>3. PICK j \in Keys : j = d.key
      BY <2>5
    <3>4. PICK k \in Keys : k = e.key
      BY <2>5
    <3>5. Append(p, j) = Append(q, k)
      BY <2>6, <3>1, <3>2, <3>3, <3>4
    <3>6. p = q /\ j = k
      BY <3>5, AppendSame
    <3> QED BY <3>1, <3>2, <3>3, <3>4, <3>6
  <2>8. Len(a.path) = n /\ Under(a.path, u.path) /\ Len(a.path) < Len(u.path)
        /\ u.path[Len(a.path) + 1] = d.key
    <3>1. PICK p \in Seq(Labels) : p = a.path
      BY <2>4 DEF Labels
    <3>2. PICK k \in Labels : k = d.key
      BY <2>5 DEF Labels
    <3>3. Under(Append(p, k), u.path) /\ Len(Append(p, k)) = n + 1 /\ Len(p) \in Nat
      BY <2>6, <3>1, <3>2
    <3> QED BY <2>4, <3>1, <3>2, <3>3, UnderAppend
  <2>9. a = b
    BY <1>2, <2>7, <2>8
  <2>10. Once(a.node, d.key)
    BY <2>5, <2>8, NamedAbove
  <2>11. d = e
    BY <2>4, <2>7, <2>9, <2>10, OnceIsOne
  <2> QED BY <2>2a, <2>3a, <2>9, <2>11
<1>3. Nat \subseteq T
  <2> HIDE DEF T
  <2> QED BY <1>1, <1>2, NatSetInduction
<1>4. Len(v.path) \in Nat
  BY <1>0a DEF Places
<1> QED
  BY <1>3, <1>4

-----------------------------------------------------------------------------
(***************************************************************************)
(* What the walk still has to do: each task stands for an entry of the     *)
(* value, and for what lies under it or, while a container is ranged over, *)
(* under those of its entries that are left.                               *)
(***************************************************************************)
Place(n, path) == [path |-> path, node |-> Behind(graph, n)]

\* A list of entries in which those that Once names are apart.
KeysApart(s, n) ==
    \A j, k \in DOMAIN s : (s[j].key = s[k].key /\ Once(n, s[j].key)) => j = k

TracedTask(t) ==
    /\ Place(t.node, t.path) \in Real
    /\ t.doing = "value" => t.then = "value"
    /\ (t.doing # "entries" /\ t.then = "value") => t.path = << >>
    /\ t.doing = "entries" =>
          /\ graph[t.node].kind \in Containers
          /\ \A i \in DOMAIN t.left : t.left[i] \in EntriesOf(graph, t.node)
          /\ KeysApart(t.left, t.node)

Traced == \A i \in DOMAIN todo : TracedTask(todo[i])

\* What lies in the zone of a task will be shown by it alone: of a container,
\* what is left of the entries with names of their own.
LeftKeys(t) == {k \in {t.left[i].key : i \in DOMAIN t.left} : Once(t.node, k)}
Zone(t, q) ==
    /\ Under(t.path, q)
    /\ t.doing = "entries" =>
          Len(t.path) < Len(q) /\ q[Len(t.path) + 1] \in LeftKeys(t)

\* An entry of the result that shows entry u of the value, or says that it is
\* not shown.
Above(o) == IF o.mark = "..." /\ o.path # << >> THEN Front(o.path) ELSE o.path
Explains(o, u) ==
    o.path = u.path \/ (o.mark \in {"masked", "type", "[cycle]", "..."} /\ Under(Above(o), u.path))
HiddenPath(p) == \E i \in DOMAIN p : p[i] \in HiddenKeys
Explained(u, shown) == HiddenPath(u.path) \/ \E o \in shown : Explains(o, u)

\* An entry of the result stands for one of the value, or for what was cut off.
Stands(o) ==
    IF o.mark = "..." THEN o.path = << >> \/ \E u \in Real : o.path = Append(u.path, "...")
    ELSE \E u \in Real : u.path = o.path

\* No range over entries has been cut while it is a task.
Uncut(t, shown) ==
    t.doing = "entries" => \A o \in shown : o.mark = "..." => o.path # Append(t.path, "...")

(***************************************************************************)
(* Every entry of the value that has its path to itself is explained by    *)
(* the result or in the zone of a task, what the result shows the value    *)
(* has, and no task will ever show an entry that is in the result or in    *)
(* the zone of another task, but for entries of one name.                  *)
(***************************************************************************)
Accounted ==
    /\ \A u \in Named : Explained(u, out) \/ \E i \in DOMAIN todo : Zone(todo[i], u.path)
    /\ \A o \in out : Stands(o)
    /\ \A o, p \in out : o.path = p.path => o = p
    /\ \A i \in DOMAIN todo : Uncut(todo[i], out) /\ \A o \in out : ~Zone(todo[i], o.path)
    /\ \A i, j \in DOMAIN todo : i < j => /\ Len(todo[i].path) > Len(todo[j].path)
                                          /\ ~Zone(todo[j], todo[i].path)

\* The tasks below the running one stay where they are.
LEMMA Stacked ==
    ASSUME TodoOK, todo # << >>, NEW ts \in Seq(Tasks), todo' = ts \o rest
    PROVE  /\ \A i \in DOMAIN todo' :
                 \/ i \in DOMAIN ts /\ todo'[i] = ts[i]
                 \/ \E k \in DOMAIN todo : k > 1 /\ i = (k - 1) + Len(ts) /\ todo'[i] = todo[k]
           /\ \A i \in DOMAIN ts : i \in DOMAIN todo' /\ i <= Len(ts) /\ todo'[i] = ts[i]
           /\ \A k \in DOMAIN todo : k > 1 =>
                 \E i \in DOMAIN todo' : todo'[i] = todo[k]
           /\ todo' \in Seq(Tasks)
<1>1. /\ rest \in Seq(Tasks) /\ Len(rest) = Len(todo) - 1 /\ Len(todo) \in Nat
      /\ \A i \in 1 .. Len(rest) : i + 1 \in DOMAIN todo /\ rest[i] = todo[i + 1]
  BY DEF TodoOK, rest
<1>2. PICK r \in Seq(Tasks) : r = rest
  BY <1>1
<1>3. /\ todo' \in Seq(Tasks) /\ Len(todo') = Len(ts) + Len(r)
      /\ \A i \in 1 .. Len(ts) + Len(r) :
            todo'[i] = IF i <= Len(ts) THEN ts[i] ELSE r[i - Len(ts)]
  BY <1>2, ConcatProperties
<1>4. /\ Len(ts) \in Nat /\ Len(r) \in Nat /\ DOMAIN ts = 1 .. Len(ts)
      /\ DOMAIN todo' = 1 .. Len(ts) + Len(r) /\ DOMAIN todo = 1 .. Len(todo)
  BY <1>1, <1>3 DEF TodoOK
<1>5. ASSUME NEW i \in DOMAIN todo', i \notin DOMAIN ts
      PROVE  \E k \in DOMAIN todo : k > 1 /\ i = (k - 1) + Len(ts) /\ todo'[i] = todo[k]
  <2>1. i - Len(ts) \in 1 .. Len(r) /\ ~(i <= Len(ts))
    BY <1>4, <1>5
  <2>2. PICK j \in 1 .. Len(r) : j = i - Len(ts)
    BY <2>1
  <2>3. todo'[i] = r[j]
    BY <1>3, <1>4, <2>1, <2>2
  <2>4. r[j] = todo[j + 1] /\ j + 1 \in DOMAIN todo
    BY <1>1, <1>2
  <2>5. i \in Int /\ j \in Int /\ j >= 1 /\ Len(ts) \in Int
    BY <1>4
  <2>6. j + 1 > 1 /\ i = ((j + 1) - 1) + Len(ts)
    BY <2>2, <2>5
  <2> QED BY <2>3, <2>4, <2>6
<1>6. \A i \in DOMAIN ts : i \in DOMAIN todo' /\ i <= Len(ts) /\ todo'[i] = ts[i]
  BY <1>3, <1>4
<1>7. ASSUME NEW k \in DOMAIN todo, k > 1 PROVE \E i \in DOMAIN todo' : todo'[i] = todo[k]
  <2>1. PICK j \in 1 .. Len(r) : j = k - 1 /\ j + 1 = k
    BY <1>1, <1>2, <1>4, <1>7
  <2>2. PICK i \in DOMAIN todo' : i = j + Len(ts) /\ ~(i <= Len(ts)) /\ i - Len(ts) = j
    BY <1>4
  <2>3. todo'[i] = r[j] /\ r[j] = todo[k]
    BY <1>1, <1>2, <1>3, <1>4, <2>1, <2>2
  <2> QED BY <2>3
<1> QED
  BY <1>3, <1>5, <1>6, <1>7

\* A path that leaves a container by an entry does so wherever it goes on.
LEMMA ZoneExtends ==
    ASSUME NEW t \in Tasks, t.doing = "entries", NEW p \in Seq(Labels), NEW q \in Seq(Labels),
           Len(t.path) < Len(p), Under(p, q), Zone(t, q)
    PROVE  Zone(t, p)
<1>1. t.path \in Seq(Labels) /\ Len(t.path) \in Nat /\ Len(p) \in Nat
  BY DEF Tasks, Labels
<1>2. PICK r \in Seq(Labels) : r = t.path
  BY <1>1
<1>3. Under(r, p)
  <2>1. Under(r, q) /\ Len(r) <= Len(p)
    BY <1>1, <1>2 DEF Zone
  <2> QED BY <2>1, UnderOrder
<1>4. p[Len(t.path) + 1] = q[Len(t.path) + 1]
  BY <1>1 DEF Under
<1> QED
  BY <1>2, <1>3, <1>4 DEF Zone

\* Entries that the result does not have yet, at or under the running task.
NewEntries(kept, shown) ==
    /\ \A o \in shown : /\ o.path \in Seq(Labels) /\ Under(task.path, o.path)
                        /\ \A p \in kept : p.path # o.path
                        /\ Stands(o)
                        /\ o.mark = "..." => o.path = << >> \/ Len(o.path) > Len(task.path)
    /\ \A o, p \in shown : o = p

\* What takes the place of the running task: tasks that share out its zone with
\* new entries of the result, beside those that are kept.
SharedOut(ts, kept, shown) ==
    /\ \A i \in DOMAIN ts : TracedTask(ts[i]) /\ Under(task.path, ts[i].path)
    /\ \A i \in DOMAIN ts : Uncut(ts[i], kept \cup shown)
    /\ \A i \in DOMAIN ts : \A o \in kept : Zone(ts[i], o.path) => Zone(task, o.path)
    /\ \A i \in DOMAIN ts : \A o \in shown : ~Zone(ts[i], o.path)
    /\ \A i, j \in DOMAIN ts : i < j => /\ Len(ts[i].path) > Len(ts[j].path)
                                        /\ ~Zone(ts[j], ts[i].path)
    /\ NewEntries(kept, shown)
    /\ \A u \in Named : (Explained(u, out) \/ Zone(task, u.path)) =>
          Explained(u, kept \cup shown) \/ \E i \in DOMAIN ts : Zone(ts[i], u.path)

\* Then all of the value stays accounted for.
LEMMA SharedOutAccounts ==
    ASSUME graph \in Graphs, limits \in Limits, TodoOK, todo # << >>, Traced, Accounted,
           UNCHANGED <<graph, limits>>, NEW ts \in Seq(Tasks), todo' = ts \o rest,
           NEW kept, NEW shown, kept \subseteq out, out' = kept \cup shown,
           SharedOut(ts, kept, shown)
    PROVE  Traced' /\ Accounted'
<1>1. Real' = Real
  BY DEF Real
<1>1a. Named' = Named
  BY <1>1 DEF Named, Once
<1>1b. \A i, q : /\ Zone(todo[i], q)' <=> Zone(todo'[i], q')
                /\ Uncut(todo[i], out)' <=> Uncut(todo'[i], out')
  BY DEF Zone, LeftKeys, Once, Uncut
<1>2. \A t : TracedTask(t) => (Place(t.node, t.path)' = Place(t.node, t.path))
  BY DEF Place
<1>3. task = todo[1] /\ 1 \in DOMAIN todo /\ \A k \in DOMAIN todo : k > 1 => 1 < k
  BY DEF TodoOK, task
<1>4. task \in Tasks /\ task.path \in Seq(Labels) /\ Len(task.path) \in Nat
  BY TaskTyped DEF Labels
<1>5. /\ \A i \in DOMAIN todo' :
            \/ i \in DOMAIN ts /\ todo'[i] = ts[i]
            \/ \E k \in DOMAIN todo : k > 1 /\ i = (k - 1) + Len(ts) /\ todo'[i] = todo[k]
      /\ \A i \in DOMAIN ts : i \in DOMAIN todo' /\ i <= Len(ts) /\ todo'[i] = ts[i]
      /\ \A k \in DOMAIN todo : k > 1 => \E i \in DOMAIN todo' : todo'[i] = todo[k]
  BY Stacked
<1>6. Traced'
  <2>1. \A i \in DOMAIN todo' : TracedTask(todo'[i])
    BY <1>5 DEF SharedOut, Traced
  <2>2. \A i : TracedTask(todo[i])' <=> TracedTask(todo'[i])
    BY <1>1 DEF TracedTask, Place, KeysApart, Once
  <2> QED BY <2>1, <2>2 DEF Traced
<1>7. \A k \in DOMAIN todo :
         /\ todo[k] \in Tasks
         /\ todo[k].path \in Seq(Labels) /\ Len(todo[k].path) \in Nat
         /\ k > 1 => /\ todo[k].doing = "entries"
                     /\ Len(todo[k].path) < Len(task.path)
                     /\ ~Zone(todo[k], task.path)
  <2> SUFFICES ASSUME NEW k \in DOMAIN todo
               PROVE  /\ todo[k] \in Tasks
                      /\ todo[k].path \in Seq(Labels) /\ Len(todo[k].path) \in Nat
                      /\ k > 1 => /\ todo[k].doing = "entries"
                                  /\ Len(todo[k].path) < Len(task.path)
                                  /\ ~Zone(todo[k], task.path)
    OBVIOUS
  <2>1. todo[k] \in Tasks
    BY DEF TodoOK
  <2>2. todo[k].path \in Seq(Labels) /\ Len(todo[k].path) \in Nat
    BY <2>1 DEF Tasks, Labels
  <2>3. k > 1 => todo[k].doing = "entries"
    BY DEF TodoOK
  <2>4. k > 1 => Len(task.path) > Len(todo[k].path) /\ ~Zone(todo[k], task.path)
    BY <1>3 DEF Accounted
  <2> QED BY <1>4, <2>1, <2>2, <2>3, <2>4
<1>8. ASSUME NEW k \in DOMAIN todo, k > 1, NEW q \in Seq(Labels), Under(task.path, q)
      PROVE  ~Zone(todo[k], q)
  <2>1. PICK t \in Tasks : t = todo[k]
    BY <1>7
  <2>2. PICK p \in Seq(Labels) : p = task.path
    BY <1>4
  <2>3. t.doing = "entries" /\ Len(t.path) < Len(p) /\ ~Zone(t, p) /\ Under(p, q)
    BY <1>7, <1>8, <2>1, <2>2
  <2>4. ~Zone(t, q)
    BY <2>3, ZoneExtends
  <2> QED BY <2>1, <2>4
<1>9. \A i \in DOMAIN ts :
         /\ ts[i].path \in Seq(Labels) /\ Len(ts[i].path) \in Nat
         /\ Len(ts[i].path) >= Len(task.path)
  <2> SUFFICES ASSUME NEW i \in DOMAIN ts
               PROVE  /\ ts[i].path \in Seq(Labels) /\ Len(ts[i].path) \in Nat
                      /\ Len(ts[i].path) >= Len(task.path)
    OBVIOUS
  <2>1. ts[i] \in Tasks
    <3> HIDE DEF Tasks
    <3> QED OBVIOUS
  <2>2. ts[i].path \in Seq(Labels) /\ Len(ts[i].path) \in Nat
    BY <2>1 DEF Tasks, Labels
  <2> QED BY <1>4, <2>2 DEF SharedOut, Under
<1>10. \A u \in Named : Explained(u, out') \/ \E i \in DOMAIN todo' : Zone(todo'[i], u.path)
  <2> SUFFICES ASSUME NEW u \in Named, ~Explained(u, out')
               PROVE  \E i \in DOMAIN todo' : Zone(todo'[i], u.path)
    OBVIOUS
  <2>1. (Explained(u, out) \/ Zone(task, u.path)) => \E i \in DOMAIN ts : Zone(ts[i], u.path)
    BY DEF SharedOut
  <2>2. CASE Explained(u, out) \/ Zone(task, u.path)
    <3>1. PICK i \in DOMAIN ts : Zone(ts[i], u.path)
      BY <2>1, <2>2
    <3> QED BY <1>5, <3>1
  <2>3. CASE ~Explained(u, out) /\ ~Zone(task, u.path)
    <3>1. PICK k \in DOMAIN todo : Zone(todo[k], u.path)
      BY <2>3 DEF Accounted
    <3>2. k > 1
      BY <1>3, <2>3, <3>1 DEF TodoOK
    <3> QED BY <1>5, <3>1, <3>2
  <2> QED BY <2>2, <2>3
<1>11. \A o \in out' : Stands(o)' <=> Stands(o)
  BY <1>1 DEF Stands
<1>11a. \A o \in out' : Stands(o)
  BY DEF Accounted, SharedOut, NewEntries
<1>12. \A o \in shown, p \in kept : o.path # p.path
  BY DEF SharedOut, NewEntries
<1>13. \A o, p \in out' : o.path = p.path => o = p
  BY <1>12 DEF Accounted, SharedOut, NewEntries
<1>14. ASSUME NEW i \in DOMAIN todo', NEW o \in out'
       PROVE  ~Zone(todo'[i], o.path)
  <2>1. CASE i \in DOMAIN ts /\ todo'[i] = ts[i]
    <3>1. o \in kept => ~Zone(ts[i], o.path)
      BY <1>3, <2>1 DEF Accounted, SharedOut
    <3> QED BY <2>1, <3>1 DEF SharedOut
  <2>2. ASSUME NEW k \in DOMAIN todo, k > 1, todo'[i] = todo[k] PROVE ~Zone(todo'[i], o.path)
    <3>1. o \in kept => ~Zone(todo[k], o.path)
      BY DEF Accounted
    <3>2. o \in shown => o.path \in Seq(Labels) /\ Under(task.path, o.path)
      BY DEF SharedOut, NewEntries
    <3> QED BY <1>8, <2>2, <3>1, <3>2
  <2> QED BY <1>5, <2>1, <2>2
<1>14a. ASSUME NEW i \in DOMAIN todo' PROVE Uncut(todo'[i], out')
  <2>1. CASE i \in DOMAIN ts /\ todo'[i] = ts[i]
    BY <2>1 DEF SharedOut
  <2>2. ASSUME NEW k \in DOMAIN todo, k > 1, todo'[i] = todo[k] PROVE Uncut(todo'[i], out')
    <3>1. \A o \in kept : o.mark = "..." => o.path # Append(todo[k].path, "...")
      BY <1>7, <2>2 DEF Accounted, Uncut
    <3>2. PICK p \in Seq(Labels) : p = todo[k].path
      BY <1>7
    <3>3. Len(Append(p, "...")) = Len(p) + 1 /\ Len(p) \in Nat /\ Len(p) < Len(task.path)
      <4>1. "..." \in Labels
        BY DEF Labels
      <4> QED BY <1>7, <2>2, <3>2, <4>1, UnderAppend
    <3>4. ASSUME NEW o \in shown, o.mark = "..." PROVE o.path # Append(p, "...")
      <4>1. o.path = << >> \/ Len(o.path) > Len(task.path)
        BY <3>4 DEF SharedOut, NewEntries
      <4>2. o.path = << >> => Len(o.path) = 0
        OBVIOUS
      <4> QED BY <1>4, <3>3, <4>1, <4>2
    <3> QED BY <2>2, <3>1, <3>2, <3>4 DEF Uncut
  <2> QED BY <1>5, <2>1, <2>2
<1>15. ASSUME NEW i \in DOMAIN todo', NEW j \in DOMAIN todo', i < j
       PROVE  Len(todo'[i].path) > Len(todo'[j].path) /\ ~Zone(todo'[j], todo'[i].path)
  <2>1. CASE i \in DOMAIN ts /\ todo'[i] = ts[i] /\ j \in DOMAIN ts /\ todo'[j] = ts[j]
    BY <1>15, <2>1 DEF SharedOut
  <2>2. ASSUME i \in DOMAIN ts, todo'[i] = ts[i], NEW k \in DOMAIN todo, k > 1, todo'[j] = todo[k]
        PROVE  Len(todo'[i].path) > Len(todo'[j].path) /\ ~Zone(todo'[j], todo'[i].path)
    <3>1. Len(ts[i].path) > Len(todo[k].path)
      BY <1>4, <1>7, <1>9, <2>2
    <3>2. ~Zone(todo[k], ts[i].path)
      BY <1>8, <1>9, <2>2 DEF SharedOut
    <3> QED BY <2>2, <3>1, <3>2
  <2>3. ASSUME NEW l \in DOMAIN todo, l > 1, i = (l - 1) + Len(ts), todo'[i] = todo[l],
               NEW k \in DOMAIN todo, k > 1, j = (k - 1) + Len(ts), todo'[j] = todo[k]
        PROVE  Len(todo'[i].path) > Len(todo'[j].path) /\ ~Zone(todo'[j], todo'[i].path)
    <3>1. l < k
      BY <1>15, <2>3 DEF TodoOK
    <3> QED BY <2>3, <3>1 DEF Accounted
  <2>4. ASSUME NEW l \in DOMAIN todo, l > 1, i = (l - 1) + Len(ts), j \in DOMAIN ts PROVE FALSE
    <3>1. j <= Len(ts) /\ Len(ts) \in Nat /\ l \in Nat
      BY <1>5, <2>4 DEF TodoOK
    <3> QED BY <1>15, <2>4, <3>1
  <2> QED BY <1>5, <2>1, <2>2, <2>3, <2>4
<1>16. /\ \A u \in Named' : Explained(u, out)' \/ \E i \in DOMAIN todo' : Zone(todo[i], u.path)'
       /\ \A i \in DOMAIN todo' : Uncut(todo[i], out)' /\ \A o \in out' : ~Zone(todo[i], o.path)'
       /\ \A i, j \in DOMAIN todo' : i < j => /\ Len(todo'[i].path) > Len(todo'[j].path)
                                              /\ ~Zone(todo[j], todo[i].path)'
  BY <1>1a, <1>1b, <1>10, <1>14, <1>14a, <1>15
<1> QED
  BY <1>6, <1>11, <1>11a, <1>13, <1>16 DEF Accounted
-----------------------------------------------------------------------------
TraceInv == WalkInv /\ Traced /\ Accounted

\* What is known of the task that runs, and of what lies under its path.
LEMMA TaskTraced ==
    ASSUME TraceInv, todo # << >>
    PROVE  /\ graph \in Graphs /\ graph \in [Nodes -> GraphNodes]
           /\ limits \in Limits /\ limits.maxDepth \in Nat
           /\ TodoOK /\ task \in Tasks /\ TaskOK(task) /\ TracedTask(task)
           /\ task.path \in Seq(Keys) /\ task.path \in Seq(Labels) /\ Len(task.path) \in Nat
           /\ task.depth \in Nat /\ task.node \in Values
           /\ \A o \in out : o.path \in Seq(Labels)
           /\ \A u \in Real : u \in Places /\ u.path \in Seq(Labels)
           /\ \A u \in Named : u \in Real
           /\ \A u \in Named : Under(task.path, u.path) =>
                 \/ u.path = task.path
                 \/ \E e \in EntriesOf(graph, Behind(graph, task.node)) :
                       /\ Under(Append(task.path, e.key), u.path)
                       /\ Once(Behind(graph, task.node), e.key)
<1>1. graph \in Graphs /\ limits \in Limits /\ TodoOK /\ OutOK
  BY DEF TraceInv, WalkInv
<1>2. graph \in [Nodes -> GraphNodes] /\ limits.maxDepth \in Nat
  BY <1>1, EntriesTyped, DepthsNatural
<1>3. task = todo[1] /\ 1 \in DOMAIN todo
  BY <1>1 DEF TodoOK, task
<1>4. /\ task \in Tasks /\ TaskOK(task) /\ task.path \in Seq(Keys) /\ Len(task.path) \in Nat
      /\ task.depth \in Nat
  BY <1>1, TaskTyped
<1>5. task.path \in Seq(Labels) /\ task.node \in Values
  BY <1>4 DEF Labels, Tasks
<1>6. TracedTask(task)
  BY <1>3 DEF TraceInv, Traced
<1>7. \A o \in out : o.path \in Seq(Labels)
  BY <1>1 DEF OutOK, EntryOK, Labels
<1>8. \A u \in Real : u \in Places
  BY <1>1, <1>2, Unfolds DEF Real
<1>9. \A u \in Real : u.path \in Seq(Labels)
  BY <1>8 DEF Places, Labels
<1>9a. \A u \in Named : u \in Real
  BY DEF Named
<1>10. ASSUME NEW u \in Named, Under(task.path, u.path)
       PROVE  \/ u.path = task.path
              \/ \E e \in EntriesOf(graph, Behind(graph, task.node)) :
                    /\ Under(Append(task.path, e.key), u.path)
                    /\ Once(Behind(graph, task.node), e.key)
  <2> DEFINE v == Place(task.node, task.path)
  <2>1. v \in Real /\ v.path = task.path /\ v.node = Behind(graph, task.node)
    BY <1>6 DEF TracedTask, Place
  <2> HIDE DEF v
  <2>2. PICK p \in Seq(Keys) : p = task.path
    BY <1>4
  <2>3. PICK w \in Real :
          /\ w.path = p
          /\ u.path = p \/ \E e \in EntriesOf(graph, w.node) : Under(Append(p, e.key), u.path)
    BY <1>1, <1>2, <1>9a, <1>10, <2>2, UnfoldsAbove DEF Real
  <2>4. w.path = v.path /\ Under(v.path, u.path)
    BY <1>10, <2>1, <2>2, <2>3
  <2>5. w = v
    BY <1>1, <2>1, <2>4, NamedOnce
  <2>6. ASSUME NEW e \in EntriesOf(graph, w.node), Under(Append(p, e.key), u.path)
        PROVE  Once(w.node, e.key)
    <3>1. w.node \in Values
      BY <1>8 DEF Places
    <3>2. e.key \in Keys /\ w.node # Nil
      BY <1>1, <3>1, EntriesTyped
    <3>3. PICK k \in Labels : k = e.key
      BY <3>2 DEF Labels
    <3>4. PICK q \in Seq(Labels) : q = p
      BY DEF Labels
    <3>5. u.path \in Seq(Labels) /\ Under(Append(q, k), u.path)
      BY <1>9, <1>9a, <2>6, <3>3, <3>4
    <3>6. Under(q, u.path) /\ Len(q) < Len(u.path) /\ u.path[Len(q) + 1] = k
      BY <3>5, UnderAppend
    <3>7. Under(w.path, u.path) /\ Len(w.path) < Len(u.path) /\ u.path[Len(w.path) + 1] = e.key
      BY <2>3, <3>3, <3>4, <3>6
    <3> QED BY <1>1, <3>2, <3>7, NamedAbove
  <2> QED BY <2>1, <2>2, <2>3, <2>5, <2>6
<1> QED
  BY <1>1, <1>2, <1>4, <1>5, <1>6, <1>7, <1>8, <1>9, <1>9a, <1>10

\* What the running task shows at its own place is new.
LEMMA OneNew ==
    ASSUME TraceInv, todo # << >>, task.doing # "entries",
           NEW o, o.path = task.path, Stands(o), o.mark = "..." => o.path = << >>
    PROVE  NewEntries(out, {o})
<1>1. task = todo[1] /\ 1 \in DOMAIN todo
  BY TaskTraced DEF TodoOK, task
<1>2. o.path \in Seq(Labels) /\ Under(task.path, o.path)
  BY TaskTraced, UnderOrder
<1>3. \A p \in out : p.path # o.path
  <2>1. Zone(task, o.path)
    BY <1>2 DEF Zone
  <2> QED BY <1>1, <2>1 DEF TraceInv, Accounted
<1> QED
  BY <1>2, <1>3 DEF NewEntries

\* The running task is over.
LEMMA OverAccounts ==
    ASSUME TraceInv, todo # << >>, UNCHANGED <<graph, limits>>, todo' = rest,
           NEW kept, NEW shown, kept \subseteq out, out' = kept \cup shown,
           NewEntries(kept, shown),
           \A u \in Named : (Explained(u, out) \/ Zone(task, u.path)) => Explained(u, kept \cup shown)
    PROVE  Traced' /\ Accounted'
<1>1. rest \in Seq(Tasks)
  BY DEF TraceInv, WalkInv, TodoOK, rest
<1>2. << >> \in Seq(Tasks) /\ << >> \o rest = rest
  BY <1>1
<1>3. PICK ts \in Seq(Tasks) : ts = << >>
  BY <1>2
<1>4. todo' = ts \o rest /\ DOMAIN ts = {}
  BY <1>2, <1>3
<1>5. SharedOut(ts, kept, shown)
  BY <1>4 DEF SharedOut
<1> QED
  BY <1>4, <1>5, TaskTraced, SharedOutAccounts DEF TraceInv

\* Another task takes the place of the running one.
LEMMA GoesOnAccounts ==
    ASSUME TraceInv, todo # << >>, UNCHANGED <<graph, limits>>,
           NEW t \in Tasks, todo' = <<t>> \o rest, TracedTask(t), t.path = task.path,
           \A q \in Seq(Labels) : Zone(t, q) => Zone(task, q),
           NEW kept, NEW shown, kept \subseteq out, out' = kept \cup shown,
           NewEntries(kept, shown), Uncut(t, kept \cup shown),
           \A o \in shown : ~Zone(t, o.path),
           \A u \in Named : (Explained(u, out) \/ Zone(task, u.path)) =>
               Explained(u, kept \cup shown) \/ Zone(t, u.path)
    PROVE  Traced' /\ Accounted'
<1> DEFINE ts == <<t>>
<1>1. ts \in Seq(Tasks)
  <2> HIDE DEF Tasks
  <2> QED OBVIOUS
<1>2. DOMAIN ts = {1} /\ ts[1] = t /\ todo' = ts \o rest
  OBVIOUS
<1> HIDE DEF ts
<1>3. Under(task.path, t.path)
  BY TaskTraced, UnderOrder
<1>3a. \A o \in kept : o.path \in Seq(Labels)
  BY TaskTraced
<1>3b. /\ \A i \in DOMAIN ts : ts[i] = t
       /\ \A i, j \in DOMAIN ts : ~(i < j)
  BY <1>2
<1>3c. \A u \in Named : (Explained(u, out) \/ Zone(task, u.path)) =>
           Explained(u, kept \cup shown) \/ \E i \in DOMAIN ts : Zone(ts[i], u.path)
  <2>1. 1 \in DOMAIN ts
    BY <1>2
  <2> QED BY <1>3b, <2>1, Zenon
<1>4. SharedOut(ts, kept, shown)
  BY <1>3, <1>3a, <1>3b, <1>3c, Zenon DEF SharedOut
<1> QED
  BY <1>1, <1>2, <1>4, TaskTraced, SharedOutAccounts DEF TraceInv

\* Another task takes its place and nothing is shown.
LEMMA QuietlyAccounts ==
    ASSUME TraceInv, todo # << >>, UNCHANGED <<graph, limits, out>>,
           NEW t \in Tasks, todo' = <<t>> \o rest, TracedTask(t), t.path = task.path,
           t.doing # "entries", task.doing # "entries"
    PROVE  Traced' /\ Accounted'
<1>1. \A q : Zone(t, q) <=> Zone(task, q)
  BY DEF Zone
<1>2. PICK shown : shown = {}
  OBVIOUS
<1>3. /\ out' = out \cup shown /\ out \subseteq out /\ out \cup shown = out
      /\ NewEntries(out, shown) /\ Uncut(t, out \cup shown)
      /\ \A o \in shown : ~Zone(t, o.path)
  BY <1>2 DEF NewEntries, Uncut
<1>4. \A q \in Seq(Labels) : Zone(t, q) => Zone(task, q)
  BY <1>1
<1>5. UNCHANGED <<graph, limits>>
  OBVIOUS
<1>6. \A u \in Named : (Explained(u, out) \/ Zone(task, u.path)) =>
          Explained(u, out \cup shown) \/ Zone(t, u.path)
  BY <1>1, <1>3
<1> QED
  BY <1>3, <1>4, <1>5, <1>6, GoesOnAccounts

\* More entries explain no less.
LEMMA ExplainedMore ==
    ASSUME NEW u, NEW shown, NEW more, shown \subseteq more, Explained(u, shown)
    PROVE  Explained(u, more)
BY DEF Explained

\* value starts at the root, or says in its place that nothing is shown.
LEMMA ValueTraces == ASSUME TraceInv, Value PROVE Traced' /\ Accounted'
<1>1. todo # << >> /\ task.doing = "value" /\ UNCHANGED <<graph, limits, visited>>
  BY DEF Value, Runs
<1>2. task \in Tasks /\ TracedTask(task) /\ task.path = << >> /\ task.then = "value"
  BY <1>1, TaskTraced DEF TracedTask
<1>3. CASE Emit(task.path, "...") /\ todo' = rest /\ UNCHANGED fields
  <2> DEFINE o == [path |-> task.path, mark |-> "..."]
             shown == {o}
  <2>1. out' = out \cup shown /\ o.path = << >> /\ o.mark = "..." /\ Above(o) = << >>
    BY <1>2, <1>3 DEF Emit, Above
  <2> HIDE DEF o
  <2>2. << >> \in Seq(Labels) /\ \A q \in Seq(Labels) : Under(<< >>, q)
    BY UnderOrder
  <2>3. \A u \in Named : Explained(u, out \cup shown)
    BY <1>1, <2>1, <2>2, TaskTraced DEF Explained, Explains
  <2>4. NewEntries(out, shown)
    BY <1>1, <1>2, <2>1, OneNew DEF Stands
  <2> HIDE DEF shown
  <2> QED BY <1>1, <1>3, <2>1, <2>3, <2>4, OverAccounts
<1>4. CASE UNCHANGED out /\ todo' = <<[task EXCEPT !.doing = "visit"]>> \o rest
  <2> DEFINE t == [task EXCEPT !.doing = "visit"]
  <2>1. /\ t \in Tasks /\ t.doing = "visit" /\ t.then = "value" /\ t.path = task.path
        /\ t.node = task.node /\ todo' = <<t>> \o rest
    BY <1>2, <1>4 DEF Tasks
  <2> HIDE DEF t
  <2>2. TracedTask(t)
    BY <1>2, <2>1 DEF TracedTask
  <2> QED BY <1>1, <1>4, <2>1, <2>2, QuietlyAccounts
<1> QED
  BY <1>3, <1>4 DEF Value

\* A value without entries is shown, and stands for what it hides under it.
LEMMA VisitPlainTraces == ASSUME TraceInv, VisitPlain PROVE Traced' /\ Accounted'
<1> DEFINE mark == Shown(task.node, task.depth)
           o == [path |-> task.path, mark |-> mark]
           shown == {o}
<1>1. /\ todo # << >> /\ task.doing = "visit" /\ UNCHANGED <<graph, limits, fields, visited>>
      /\ todo' = rest /\ out' = out \cup shown /\ mark \in {"nil", "type", "[cycle]", "leaf"}
      /\ o.path = task.path /\ o.mark = mark
  BY DEF VisitPlain, Runs, Emit
<1>2. mark \in {"nil", "leaf"} => EntriesOf(graph, Behind(graph, task.node)) = {}
  <2> DEFINE n == task.node
  <2>1. n \in Values /\ graph \in Graphs /\ graph \in [Nodes -> GraphNodes]
    BY <1>1, TaskTraced
  <2>2. Nil \in Values /\ Behind(graph, Nil) = Nil /\ EntriesOf(graph, Nil) = {}
    BY <2>1, BehindEnd DEF Values, LeadsOn, EntriesOf
  <2>3. CASE n = Nil
    BY <2>2, <2>3
  <2>4. CASE n # Nil /\ mark = "nil"
    <3>1. graph[n].kind = "pointer" /\ graph[n].to = Nil
      <4>1. n \in Nodes
        BY <2>1, <2>4 DEF Values
      <4>2. graph[n].kind \in Kinds
        BY <2>1, <4>1 DEF GraphNodes
      <4> QED BY <2>4, <4>2 DEF Shown, Kinds
    <3>2. LeadsOn(graph, n)
      BY <2>4, <3>1 DEF LeadsOn
    <3>3. Behind(graph, n) = Nil
      BY <2>1, <2>2, <3>1, <3>2, BehindNext
    <3> QED BY <2>2, <3>3
  <2>5. CASE n # Nil /\ mark = "leaf"
    <3>1. graph[n].kind = "leaf" /\ n \in Nodes
      BY <2>1, <2>5 DEF Shown, Values
    <3>2. ~LeadsOn(graph, n)
      BY <3>1 DEF LeadsOn
    <3>3. Behind(graph, n) = n
      BY <2>1, <3>2, BehindEnd
    <3>4. graph[n].entries = << >>
      BY <2>1, <3>1, GraphsTyped
    <3>5. EntriesOf(graph, n) = {}
      BY <3>4 DEF EntriesOf, ToSet
    <3> QED BY <3>3, <3>5
  <2> QED BY <2>3, <2>4, <2>5
<1> HIDE DEF mark, o
<1>3. NewEntries(out, shown)
  <2>1. \E u \in Real : u.path = o.path
    BY <1>1, TaskTraced DEF TracedTask, Place
  <2>2. Stands(o) /\ o.mark # "..."
    BY <1>1, <2>1 DEF Stands
  <2> QED BY <1>1, <2>2, OneNew
<1>4. o \in shown
  OBVIOUS
<1>5. ASSUME NEW u \in Named, Zone(task, u.path) PROVE Explained(u, shown)
  <2>1. Under(task.path, u.path)
    BY <1>5 DEF Zone
  <2>2. CASE mark \in {"nil", "leaf"}
    <3>1. u.path = task.path
      BY <1>1, <1>2, <2>1, <2>2, TaskTraced
    <3> QED BY <1>1, <1>4, <3>1 DEF Explained, Explains
  <2>3. CASE mark \in {"type", "[cycle]"}
    <3>1. Above(o) = task.path
      BY <1>1, <2>3 DEF Above
    <3>2. Explains(o, u)
      BY <1>1, <2>1, <2>3, <3>1 DEF Explains
    <3> QED BY <1>4, <3>2 DEF Explained
  <2> QED BY <1>1, <2>2, <2>3
<1> HIDE DEF shown
<1>6. \A u \in Named : (Explained(u, out) \/ Zone(task, u.path)) => Explained(u, out \cup shown)
  BY <1>5, ExplainedMore
<1> QED
  BY <1>1, <1>3, <1>6, OverAccounts

\* A pointer leads to the same entry of the value.
LEMMA VisitPointerTraces == ASSUME TraceInv, VisitPointer PROVE Traced' /\ Accounted'
<1> DEFINE target == graph[task.node].to
           t == [task EXCEPT !.doing = "indirect", !.node = target, !.depth = @ + 1]
<1>1. /\ todo # << >> /\ task.doing = "visit" /\ UNCHANGED <<graph, limits, out>>
      /\ todo' = <<t>> \o rest /\ Shown(task.node, task.depth) = "pointer"
  BY DEF VisitPointer, Runs
<1>2. /\ task \in Tasks /\ task.node \in Values /\ graph \in [Nodes -> GraphNodes]
      /\ task.depth \in Nat /\ TracedTask(task)
  BY <1>1, TaskTraced
<1>3. LeadsOn(graph, task.node)
  <2>1. task.node # Nil
    BY <1>1 DEF Shown
  <2>2. graph[task.node].kind \in Kinds
    BY <1>2, <2>1 DEF GraphNodes, Values
  <2> QED BY <1>1, <2>1, <2>2 DEF Shown, LeadsOn, Kinds
<1>4. target \in Values /\ Behind(graph, target) = Behind(graph, task.node)
  BY <1>2, <1>3, MetFromNext, BehindNext
<1> HIDE DEF target
<1>5. /\ t \in Tasks /\ t.doing = "indirect" /\ t.path = task.path
      /\ t.node = target /\ t.then = task.then
  <2>1. PICK d \in Nat : d = task.depth + 1
    BY <1>2
  <2>2. t = [task EXCEPT !.doing = "indirect", !.node = target, !.depth = d]
    BY <2>1
  <2> HIDE DEF t
  <2> QED BY <1>2, <1>4, <2>1, <2>2 DEF Tasks
<1> HIDE DEF t
<1>6. TracedTask(t)
  BY <1>1, <1>2, <1>4, <1>5 DEF TracedTask, Place
<1> QED
  BY <1>1, <1>5, <1>6, QuietlyAccounts

\* indirect stays at the same entry of the value.
LEMMA IndirectTraces == ASSUME TraceInv, Indirect PROVE Traced' /\ Accounted'
<1> DEFINE next == IndirectNext(task.node)
           t == IF next # Nil THEN [task EXCEPT !.node = next]
                ELSE [task EXCEPT !.doing = task.then, !.node = Dynamic(@)]
<1>1. /\ todo # << >> /\ task.doing = "indirect" /\ UNCHANGED <<graph, limits, out>>
      /\ todo' = <<t>> \o rest
  BY DEF Indirect, Runs
<1>2. /\ task \in Tasks /\ task.node \in Values /\ graph \in [Nodes -> GraphNodes]
      /\ TracedTask(task) /\ task.node # Nil /\ task.then \in {"value", "visit"}
  BY <1>1, TaskTraced DEF TaskOK, Tasks
<1>3. next # Nil => next \in Values /\ Behind(graph, next) = Behind(graph, task.node)
  <2> SUFFICES ASSUME next # Nil PROVE next \in Values /\ Behind(graph, next) = Behind(graph, task.node)
    OBVIOUS
  <2>1. graph[task.node].kind = "pointer" /\ next = graph[task.node].to
    BY DEF IndirectNext
  <2>2. LeadsOn(graph, task.node)
    BY <1>2, <2>1 DEF LeadsOn
  <2> QED BY <1>2, <2>1, <2>2, MetFromNext, BehindNext
<1>4. Dynamic(task.node) \in Values /\ Behind(graph, Dynamic(task.node)) = Behind(graph, task.node)
  BY <1>2, BehindDynamic
<1> HIDE DEF next
<1>5. /\ t \in Tasks /\ t.doing # "entries" /\ t.path = task.path /\ t.then = task.then
      /\ t.doing = "value" => t.then = "value"
      /\ Behind(graph, t.node) = Behind(graph, task.node)
  <2>1. CASE next # Nil
    <3>1. t = [task EXCEPT !.node = next]
      BY <2>1
    <3> HIDE DEF t
    <3> QED BY <1>1, <1>2, <1>3, <2>1, <3>1 DEF Tasks
  <2>2. CASE next = Nil
    <3>1. t = [task EXCEPT !.doing = task.then, !.node = Dynamic(task.node)]
      BY <2>2
    <3>2. PICK n \in Values : n = Dynamic(task.node)
      BY <1>4
    <3> HIDE DEF t
    <3> QED BY <1>2, <1>4, <3>1, <3>2 DEF Tasks
  <2> QED BY <2>1, <2>2
<1> HIDE DEF t
<1>6. TracedTask(t)
  BY <1>1, <1>2, <1>5 DEF TracedTask, Place
<1> QED
  BY <1>1, <1>5, <1>6, QuietlyAccounts

\* A container is shown, and its entries are left to the range over it.
LEMMA VisitContainerTraces == ASSUME TraceInv, VisitContainer PROVE Traced' /\ Accounted'
<1> DEFINE entries == graph[task.node].entries
           t == [task EXCEPT !.doing = "entries", !.left = entries]
           o == [path |-> task.path, mark |-> "container"]
           shown == {o}
<1>1. /\ todo # << >> /\ task.doing = "visit" /\ UNCHANGED <<graph, limits>>
      /\ todo' = <<t>> \o rest /\ Shown(task.node, task.depth) \in Containers
      /\ out' = out \cup shown /\ o.path = task.path /\ o.mark = "container"
  BY DEF VisitContainer, Runs, Emit
<1>2. /\ task \in Tasks /\ task.node \in Values /\ graph \in [Nodes -> GraphNodes]
      /\ graph \in Graphs /\ TracedTask(task) /\ task.path \in Seq(Labels) /\ Len(task.path) \in Nat
  BY <1>1, TaskTraced
<1>3. task.node \in Nodes /\ task.node # Nil /\ graph[task.node].kind \in Containers
  <2>1. task.node # Nil /\ task.node \in Nodes
    BY <1>1, <1>2 DEF Shown, Containers, Values
  <2>2. graph[task.node].kind \in Kinds
    BY <1>2, <2>1 DEF GraphNodes
  <2> QED BY <1>1, <2>1, <2>2 DEF Shown, Containers, Kinds
<1>4. Behind(graph, task.node) = task.node
  BY <1>2, <1>3, BehindEnd DEF LeadsOn, Containers
<1>5. /\ entries \in Seq(Items) /\ EntriesOf(graph, task.node) = {entries[i] : i \in DOMAIN entries}
      /\ KeysApart(entries, task.node)
  <2>1. graph[task.node] \in GraphNodes
    BY <1>2, <1>3
  <2> QED BY <1>2, <1>3, <2>1 DEF EntriesOf, ToSet, GraphNodes, KeysApart, Once
<1> HIDE DEF entries, o
<1>6. /\ t \in Tasks /\ t.doing = "entries" /\ t.path = task.path /\ t.then = task.then
      /\ t.node = task.node /\ t.left = entries
  BY <1>2, <1>5 DEF Tasks
<1> HIDE DEF t
<1>7. TracedTask(t)
  BY <1>2, <1>3, <1>5, <1>6 DEF TracedTask
<1>8. \A q : Zone(t, q) => Zone(task, q)
  BY <1>1, <1>6 DEF Zone
<1>9. \A p \in shown : ~Zone(t, p.path)
  BY <1>1, <1>2, <1>6 DEF Zone
<1>10. NewEntries(out, shown)
  <2>1. \E u \in Real : u.path = o.path
    BY <1>1, <1>2 DEF TracedTask, Place
  <2>2. Stands(o) /\ o.mark # "..."
    BY <1>1, <2>1 DEF Stands
  <2> QED BY <1>1, <2>2, OneNew
<1>10a. o \in shown
  OBVIOUS
<1>11. ASSUME NEW u \in Named, Zone(task, u.path) PROVE Explained(u, shown) \/ Zone(t, u.path)
  <2>1. Under(task.path, u.path) /\ u.path \in Seq(Labels)
    BY <1>1, <1>11, TaskTraced DEF Zone
  <2>2. CASE u.path = task.path
    BY <1>1, <1>10a, <2>2 DEF Explained, Explains
  <2>3. ASSUME NEW e \in EntriesOf(graph, task.node), Under(Append(task.path, e.key), u.path),
               Once(task.node, e.key)
        PROVE  Zone(t, u.path)
    <3>1. e.key \in Labels
      BY <1>2, EntriesTyped DEF Labels
    <3>2. Len(task.path) < Len(u.path) /\ u.path[Len(task.path) + 1] = e.key
      BY <1>2, <2>1, <2>3, <3>1, UnderAppend
    <3>3. e.key \in LeftKeys(t)
      BY <1>5, <1>6, <2>3 DEF LeftKeys
    <3> QED BY <1>6, <2>1, <3>2, <3>3 DEF Zone
  <2> QED BY <1>1, <1>4, <2>1, <2>2, <2>3, TaskTraced
<1>12. Uncut(t, out \cup shown)
  <2>1. PICK p \in Seq(Labels) : p = task.path
    BY <1>2
  <2>2. "..." \in Labels /\ Under(p, Append(p, "..."))
    BY UnderAppend DEF Labels
  <2>3. Zone(task, Append(task.path, "..."))
    BY <1>1, <2>1, <2>2 DEF Zone
  <2>4. task = todo[1] /\ 1 \in DOMAIN todo
    BY <1>1, TaskTraced DEF TodoOK, task
  <2>4a. \A q \in out : ~Zone(task, q.path)
    BY <2>4 DEF TraceInv, Accounted
  <2>5. \A q \in out : q.path # Append(task.path, "...")
    BY <2>3, <2>4a
  <2>6. \A q \in shown : q.mark # "..."
    BY <1>1
  <2> HIDE DEF shown
  <2> QED BY <1>6, <2>5, <2>6 DEF Uncut
<1> HIDE DEF shown
<1>13. \A u \in Named : (Explained(u, out) \/ Zone(task, u.path)) =>
           Explained(u, out \cup shown) \/ Zone(t, u.path)
  BY <1>11, ExplainedMore
<1> QED
  BY <1>1, <1>6, <1>7, <1>8, <1>9, <1>10, <1>12, <1>13, GoesOnAccounts

\* Where no entry is left none is lost.
LEMMA EndEntriesTraces == ASSUME TraceInv, EndEntries PROVE Traced' /\ Accounted'
<1>1. /\ todo # << >> /\ task.doing = "entries" /\ UNCHANGED <<graph, limits, out>>
      /\ todo' = rest /\ task.left = << >>
  BY DEF EndEntries, Runs
<1>2. PICK shown : shown = {}
  OBVIOUS
<1>3. ASSUME NEW u \in Named, Zone(task, u.path) PROVE FALSE
  BY <1>1, <1>3 DEF Zone, LeftKeys
<1>4. out' = out \cup shown /\ out \subseteq out /\ NewEntries(out, shown) /\ out \cup shown = out
  BY <1>1, <1>2 DEF NewEntries
<1>5. \A u \in Named : (Explained(u, out) \/ Zone(task, u.path)) => Explained(u, out \cup shown)
  BY <1>3, <1>4
<1> QED
  BY <1>1, <1>4, <1>5, OverAccounts
-----------------------------------------------------------------------------
\* r holds the entries of s, the list of a range over n, but for the one at i.
Without(n, s, i, r) ==
    /\ r \in Seq(Items)
    /\ \A k \in DOMAIN r : \E j \in DOMAIN s : j # i /\ r[k] = s[j]
    /\ \A j \in DOMAIN s : j # i => \E k \in DOMAIN r : r[k] = s[j]
    /\ KeysApart(r, n)
    /\ Once(n, s[i].key) => \A k \in DOMAIN r : r[k].key # s[i].key

\* RemoveAt leaves such a list.
LEMMA KeyRemoved ==
    ASSUME NEW n, NEW s \in Seq(Items), NEW i \in DOMAIN s, KeysApart(s, n), NEW r, r = RemoveAt(s, i)
    PROVE  Without(n, s, i, r)
<1> DEFINE from(k) == IF k < i THEN k ELSE k + 1
<1>1. Len(s) \in Nat /\ DOMAIN s = 1 .. Len(s) /\ i \in 1 .. Len(s)
  OBVIOUS
<1>2. r \in Seq(Items) /\ DOMAIN r = 1 .. Len(s) - 1
  BY RemovedAt
<1>3. \A k \in 1 .. Len(s) - 1 : r[k] = s[from(k)] /\ from(k) \in DOMAIN s /\ from(k) # i
  <2> SUFFICES ASSUME NEW k \in 1 .. Len(s) - 1
               PROVE  r[k] = s[from(k)] /\ from(k) \in DOMAIN s /\ from(k) # i
    OBVIOUS
  <2>1. /\ k < i => r[k] = s[k]
        /\ ~(k < i) => r[k] = s[k + 1]
    BY RemovedAt
  <2> QED BY <1>1, <2>1
<1>4. \A j, k \in 1 .. Len(s) - 1 : from(j) = from(k) => j = k
  BY <1>1
<1>5. ASSUME NEW j \in DOMAIN s, j # i PROVE \E k \in 1 .. Len(s) - 1 : from(k) = j
  <2>1. CASE j < i
    <3>1. j \in 1 .. Len(s) - 1 /\ from(j) = j
      BY <1>1, <2>1
    <3> QED BY <3>1
  <2>2. CASE ~(j < i)
    <3>1. j - 1 \in 1 .. Len(s) - 1 /\ from(j - 1) = j
      BY <1>1, <1>5, <2>2
    <3> QED BY <3>1
  <2> QED BY <2>1, <2>2
<1> HIDE DEF from
<1>6. \A k \in DOMAIN r : \E j \in DOMAIN s : j # i /\ r[k] = s[j]
  BY <1>2, <1>3
<1>7. ASSUME NEW j \in DOMAIN s, j # i PROVE \E k \in DOMAIN r : r[k] = s[j]
  <2>1. PICK k \in 1 .. Len(s) - 1 : from(k) = j
    BY <1>5, <1>7
  <2>2. r[k] = s[j] /\ k \in DOMAIN r
    BY <1>2, <1>3, <2>1
  <2> QED BY <2>2
<1>8. KeysApart(r, n)
  BY <1>2, <1>3, <1>4 DEF KeysApart
<1>9. Once(n, s[i].key) => \A k \in DOMAIN r : r[k].key # s[i].key
  BY <1>6 DEF KeysApart
<1> QED
  BY <1>2, <1>6, <1>7, <1>8, <1>9 DEF Without

\* What is known of an entry the running task has left, and of the task without it.
LEMMA EntryTraced ==
    ASSUME TraceInv, todo # << >>, task.doing = "entries", NEW i \in DOMAIN task.left
    PROVE  LET e == task.left[i]
               path == Append(task.path, e.key)
               u == [task EXCEPT !.left = RemoveAt(@, i)]
           IN  /\ e.key \in Keys /\ e.node \in Values
               /\ path \in Seq(Keys) /\ path \in Seq(Labels) /\ Len(path) = Len(task.path) + 1
               /\ path[Len(task.path) + 1] = e.key /\ Under(task.path, path)
               /\ Place(e.node, path) \in Real
               /\ u \in Tasks /\ u.doing = "entries" /\ u.path = task.path /\ TracedTask(u)
               /\ \A k : k \in LeftKeys(task) <=>
                            (k = e.key /\ Once(task.node, e.key)) \/ k \in LeftKeys(u)
               /\ e.key \notin LeftKeys(u)
               /\ Place(task.node, task.path).node = task.node /\ task.node # Nil
<1> DEFINE e == task.left[i]
           path == Append(task.path, e.key)
           left == RemoveAt(task.left, i)
           u == [task EXCEPT !.left = RemoveAt(@, i)]
<1>1. /\ task \in Tasks /\ task.node \in Values /\ graph \in [Nodes -> GraphNodes]
      /\ graph \in Graphs /\ limits.maxDepth \in Nat /\ TracedTask(task) /\ TaskOK(task)
      /\ task.path \in Seq(Keys) /\ task.path \in Seq(Labels) /\ Len(task.path) \in Nat
      /\ task.depth \in Nat
  BY TaskTraced
<1>2. /\ graph[task.node].kind \in Containers /\ Place(task.node, task.path) \in Real
      /\ \A j \in DOMAIN task.left : task.left[j] \in EntriesOf(graph, task.node)
      /\ KeysApart(task.left, task.node)
  BY <1>1 DEF TracedTask
<1>3. task.left \in Seq(Items) /\ e \in EntriesOf(graph, task.node)
  BY <1>1, <1>2 DEF Tasks
<1>4. e.key \in Keys /\ e.node \in Values /\ e.key \in Labels /\ task.node # Nil
  BY <1>1, <1>3, EntriesTyped DEF Labels
<1>5. /\ left \in Seq(Items)
      /\ \A k \in DOMAIN left : \E j \in DOMAIN task.left : j # i /\ left[k] = task.left[j]
      /\ \A j \in DOMAIN task.left : j # i => \E k \in DOMAIN left : left[k] = task.left[j]
      /\ KeysApart(left, task.node)
      /\ Once(task.node, e.key) => \A k \in DOMAIN left : left[k].key # e.key
  <2>1. PICK s \in Seq(Items) : s = task.left
    BY <1>3
  <2>1a. PICK n \in Values : n = task.node
    BY <1>1
  <2>2. KeysApart(s, n)
    BY <1>2, <2>1, <2>1a
  <2>3. PICK k0 \in DOMAIN s : k0 = i
    BY <2>1
  <2>3a. PICK r : r = RemoveAt(s, k0)
    OBVIOUS
  <2> HIDE DEF left, e
  <2>4. Without(n, s, k0, r)
    BY <2>2, <2>3a, KeyRemoved
  <2>5. left = r /\ e = s[i]
    BY <2>1, <2>3, <2>3a DEF left, e
  <2> QED BY <2>1, <2>1a, <2>3, <2>4, <2>5 DEF Without
<1> HIDE DEF left
<1>6. /\ u \in Tasks /\ u.doing = "entries" /\ u.path = task.path /\ u.node = task.node
      /\ u.left = left
  <2>1. u = [task EXCEPT !.left = left]
    BY DEF left
  <2> HIDE DEF u
  <2> QED BY <1>1, <1>5, <2>1 DEF Tasks
<1> HIDE DEF u
<1>7. TracedTask(u)
  <2>1. \A k \in DOMAIN left : left[k] \in EntriesOf(graph, task.node)
    BY <1>2, <1>5
  <2> QED BY <1>2, <1>5, <1>6, <2>1 DEF TracedTask
<1>8. \A k : k \in LeftKeys(task) <=> (k = e.key /\ Once(task.node, e.key)) \/ k \in LeftKeys(u)
  BY <1>5, <1>6 DEF LeftKeys
<1>9. e.key \notin LeftKeys(u)
  BY <1>5, <1>6 DEF LeftKeys
<1>10. path \in Seq(Keys) /\ path \in Seq(Labels) /\ Len(path) = Len(task.path) + 1
       /\ path[Len(task.path) + 1] = e.key /\ Under(task.path, path)
  <2> HIDE DEF e
  <2> QED BY <1>1, <1>4, UnderAppend, AppendProperties
<1>10a. Behind(graph, task.node) = task.node
  BY <1>1, <1>2, BehindEnd DEF LeadsOn, Containers
<1>11. Place(e.node, path) \in Real
  <2>1. Behind(graph, task.node) = task.node
    BY <1>10a
  <2> DEFINE v == Place(task.node, task.path)
  <2>2. v \in Real /\ v.path = task.path /\ v.node = task.node
    BY <1>2, <2>1 DEF Place
  <2> HIDE DEF v, e
  <2>3. Len(v.path) < limits.maxDepth
    BY <1>1, <2>2 DEF TaskOK
  <2>4. [path |-> Append(v.path, e.key), node |-> Behind(graph, e.node)] \in Real
    BY <1>1, <1>3, <2>2, <2>3, Unfolds DEF Real
  <2> QED BY <2>2, <2>4 DEF Place
<1> QED
  BY <1>4, <1>6, <1>7, <1>8, <1>9, <1>10, <1>10a, <1>11 DEF u, Place
-----------------------------------------------------------------------------
\* What an entry takes the place of explained no entry with a path to itself.
LEMMA KeptExplains ==
    ASSUME TraceInv, todo # << >>, task.doing = "entries", NEW i \in DOMAIN task.left,
           NEW path, path = Append(task.path, task.left[i].key),
           NEW u \in Named, Explained(u, out)
    PROVE  Explained(u, Besides(path))
<1> DEFINE e == task.left[i]
<1>1. /\ graph \in Graphs /\ limits \in Limits
      /\ task.path \in Seq(Labels) /\ Len(task.path) \in Nat /\ TracedTask(task)
      /\ \A o \in out : o.path \in Seq(Labels)
      /\ u \in Real /\ u.path \in Seq(Labels)
      /\ \A x \in Real : x.path \in Seq(Labels)
  BY TaskTraced
<1>2. /\ e.key \in Keys /\ path \in Seq(Labels) /\ Len(path) = Len(task.path) + 1
      /\ path[Len(task.path) + 1] = e.key
      /\ Place(task.node, task.path).node = task.node /\ task.node # Nil
  BY EntryTraced
<1>3. e.key \in Labels /\ "..." \in Labels
  BY <1>2 DEF Labels
<1>4. \A q \in Seq(Labels) :
         Under(path, q) <=> Under(task.path, q) /\ Len(task.path) < Len(q) /\ q[Len(task.path) + 1] = e.key
  <2>1. path = Append(task.path, e.key)
    OBVIOUS
  <2> HIDE DEF e
  <2> QED BY <1>1, <1>3, <2>1, UnderAppend
<1>5. task = todo[1] /\ 1 \in DOMAIN todo
  BY TaskTraced DEF TodoOK, task
<1>6. ASSUME NEW o \in out, Explains(o, u), Under(path, o.path) PROVE FALSE
  <2>1. o.path \in Seq(Labels) /\ Stands(o)
    BY <1>1 DEF TraceInv, Accounted
  <2>2. ~Zone(task, o.path) /\ Uncut(task, out)
    BY <1>5 DEF TraceInv, Accounted
  <2>3. ~Once(task.node, e.key)
    BY <1>4, <1>6, <2>1, <2>2 DEF Zone, LeftKeys
  <2>4. ASSUME o.mark = "...", o.path # << >> PROVE Under(path, Above(o))
    <3>1. PICK x \in Real : o.path = Append(x.path, "...")
      BY <2>1, <2>4 DEF Stands
    <3>2. PICK p \in Seq(Labels) : p = x.path
      BY <1>1
    <3>3. /\ Len(o.path) = Len(p) + 1 /\ o.path[Len(p) + 1] = "..." /\ Len(p) \in Nat
          /\ Front(o.path) = p /\ Under(p, o.path)
      BY <1>3, <3>1, <3>2, UnderAppend, FrontOfAppend
    <3>4. Above(o) = p
      BY <2>4, <3>3 DEF Above
    <3>5. CASE Len(path) <= Len(p)
      <4>1. PICK q \in Seq(Labels) : q = o.path
        BY <2>1
      <4>2. PICK a \in Seq(Labels) : a = path
        BY <1>2
      <4>3. Under(a, q) /\ Under(p, q) /\ Len(a) <= Len(p)
        BY <1>6, <3>3, <3>5, <4>1, <4>2
      <4>4. Under(a, p)
        BY <4>3, UnderOrder
      <4> QED BY <3>4, <4>2, <4>4
    <3>6. CASE ~(Len(path) <= Len(p))
      <4>1. Len(o.path) <= Len(path) /\ Len(path) \in Nat
        BY <1>2, <3>3, <3>6
      <4>2. path = o.path
        BY <1>2, <1>6, <2>1, <4>1, UnderOrder
      <4>3. e.key = "..."
        BY <1>1, <1>2, <3>3, <4>2
      <4>4. o.path = Append(task.path, "...")
        BY <4>2, <4>3
      <4> QED BY <2>2, <2>4, <4>4 DEF Uncut
    <3> QED BY <3>5, <3>6
  <2>5. Under(path, u.path)
    <3>1. CASE o.path = u.path
      BY <1>6, <3>1
    <3>2. CASE Under(Above(o), u.path)
      <4>1. Under(path, Above(o)) /\ Above(o) \in Seq(Labels)
        <5>1. CASE o.mark = "..." /\ o.path # << >>
          <6>1. PICK x \in Real : o.path = Append(x.path, "...")
            BY <2>1, <5>1 DEF Stands
          <6>2. x.path \in Seq(Labels)
            BY <1>1
          <6>3. Above(o) = x.path
            BY <1>3, <5>1, <6>1, <6>2, FrontOfAppend DEF Above
          <6> QED BY <2>4, <5>1, <6>2, <6>3
        <5>2. CASE ~(o.mark = "..." /\ o.path # << >>)
          BY <1>6, <2>1, <5>2 DEF Above
        <5> QED BY <5>1, <5>2
      <4> QED BY <1>1, <1>2, <3>2, <4>1, UnderOrder
    <3> QED BY <1>6, <3>1, <3>2 DEF Explains
  <2>6. Under(task.path, u.path) /\ Len(task.path) < Len(u.path) /\ u.path[Len(task.path) + 1] = e.key
    BY <1>1, <1>4, <2>5
  <2>7. PICK w \in Real : w.path = task.path /\ w.node = task.node
    BY <1>1, <1>2 DEF TracedTask, Place
  <2>8. Once(w.node, e.key)
    BY <1>1, <1>2, <2>6, <2>7, NamedAbove
  <2> QED BY <2>3, <2>7, <2>8
<1>7. \A o \in out : Explains(o, u) => o \in Besides(path)
  <2>1. \A o \in out : IsPrefix(path, o.path) <=> Under(path, o.path)
    BY <1>1, <1>2, UnderIsPrefix
  <2> QED BY <1>6, <2>1 DEF Besides
<1> QED
  BY <1>7 DEF Explained

\* An entry is hidden, shown, cut off with all that are left, or visited next.
LEMMA EntryTraces == ASSUME TraceInv, Entry PROVE Traced' /\ Accounted'
<1>1. PICK i \in DOMAIN task.left :
        LET e == task.left[i]
            path == Append(task.path, e.key)
            others == <<[task EXCEPT !.left = RemoveAt(@, i)]>> \o rest
        IN  \/ SkipsUnpaid(e.key) /\ todo' = others /\ UNCHANGED out
            \/ Truncate
            \/ SkipsPaid(e) /\ todo' = others /\ UNCHANGED out
            \/ /\ Overwrite(path, IF task.depth + 1 >= limits.maxDepth THEN "type" ELSE "masked")
               /\ todo' = others
            \/ /\ todo' = <<Task("visit", Dynamic(e.node), path, task.depth + 1)>> \o others
               /\ out' = Besides(path)
  BY DEF Entry
<1> DEFINE e == task.left[i]
           path == Append(task.path, e.key)
           u == [task EXCEPT !.left = RemoveAt(@, i)]
<1>2. todo # << >> /\ task.doing = "entries" /\ UNCHANGED <<graph, limits, visited>>
  BY DEF Entry, Runs
<1>3. /\ task \in Tasks /\ task.path \in Seq(Labels) /\ Len(task.path) \in Nat
      /\ task.depth \in Nat /\ TodoOK /\ graph \in [Nodes -> GraphNodes]
      /\ Place(task.node, task.path) \in Real
      /\ \A o \in out : o.path \in Seq(Labels)
      /\ \A x \in Named : x.path \in Seq(Labels)
  BY <1>2, TaskTraced DEF TracedTask
<1>4. /\ e.key \in Keys /\ e.node \in Values
      /\ path \in Seq(Keys) /\ path \in Seq(Labels) /\ Len(path) = Len(task.path) + 1
      /\ path[Len(task.path) + 1] = e.key /\ Under(task.path, path)
      /\ Place(e.node, path) \in Real
      /\ u \in Tasks /\ u.doing = "entries" /\ u.path = task.path /\ TracedTask(u)
      /\ \A k : k \in LeftKeys(task) <=> (k = e.key /\ Once(task.node, e.key)) \/ k \in LeftKeys(u)
      /\ e.key \notin LeftKeys(u)
  BY <1>2, EntryTraced
<1>5. e.key \in Labels /\ "..." \in Labels
  BY <1>4 DEF Labels
<1>6. \A q \in Seq(Labels) :
         Under(path, q) <=> Under(task.path, q) /\ Len(task.path) < Len(q) /\ q[Len(task.path) + 1] = e.key
  <2> HIDE DEF e
  <2> QED BY <1>3, <1>5, UnderAppend
<1>6a. \A x \in Named : Explained(x, out) => Explained(x, Besides(path))
  BY <1>2, KeptExplains
<1> HIDE DEF e, path, u
<1>7. \A q \in Seq(Labels) :
         /\ Zone(u, q) => Zone(task, q)
         /\ Zone(task, q) => (Zone(u, q) \/ Under(path, q))
  BY <1>2, <1>4, <1>6 DEF Zone
<1>8. ~Zone(u, path)
  BY <1>4 DEF Zone
<1>8a. \A shown : (\A o \in shown : o \in out \/ o.mark # "...") => Uncut(u, shown)
  <2>1. Uncut(task, out)
    <3>1. task = todo[1] /\ 1 \in DOMAIN todo
      BY <1>2, <1>3 DEF TodoOK, task
    <3> QED BY <3>1 DEF TraceInv, Accounted
  <2> QED BY <1>2, <1>4, <2>1 DEF Uncut
<1>8b. Besides(path) \subseteq out /\ \A o \in Besides(path) : ~Under(path, o.path) /\ o.path # path
  <2>1. \A o \in out : IsPrefix(path, o.path) <=> Under(path, o.path)
    BY <1>3, <1>4, UnderIsPrefix
  <2>2. Under(path, path)
    BY <1>4, UnderOrder
  <2> QED BY <2>1, <2>2 DEF Besides
<1>9. CASE e.key \in HiddenKeys /\ todo' = <<u>> \o rest /\ UNCHANGED out
  <2>1. PICK shown : shown = {}
    OBVIOUS
  <2>2. /\ out' = out \cup shown /\ out \subseteq out /\ out \cup shown = out
        /\ NewEntries(out, shown) /\ \A o \in shown : ~Zone(u, o.path)
    BY <1>9, <2>1 DEF NewEntries
  <2>3. Uncut(u, out \cup shown)
    BY <1>8a, <2>2
  <2>4. ASSUME NEW x \in Named, Zone(task, x.path), ~Zone(u, x.path) PROVE Explained(x, out)
    <3>1. x.path \in Seq(Labels)
      BY <1>3
    <3>2. Under(path, x.path)
      BY <1>7, <2>4, <3>1
    <3>3. Len(task.path) + 1 \in DOMAIN x.path /\ x.path[Len(task.path) + 1] = e.key
      BY <1>3, <1>6, <3>1, <3>2
    <3> QED BY <1>9, <3>3 DEF Explained, HiddenPath
  <2>5. \A x \in Named : (Explained(x, out) \/ Zone(task, x.path)) =>
            Explained(x, out \cup shown) \/ Zone(u, x.path)
    BY <2>2, <2>4
  <2> QED BY <1>2, <1>4, <1>7, <1>9, <2>2, <2>3, <2>5, GoesOnAccounts
<1>10. CASE Truncate
  <2> DEFINE cut == Append(task.path, "...")
             o == [path |-> cut, mark |-> "..."]
             shown == {o}
             kept == Besides(cut)
  <2>1. todo' = rest /\ out' = kept \cup shown /\ o.path = cut /\ o.mark = "..."
    BY <1>10 DEF Truncate, Overwrite
  <2>2. /\ cut \in Seq(Labels) /\ Len(cut) = Len(task.path) + 1 /\ cut[Len(task.path) + 1] = "..."
        /\ Under(task.path, cut) /\ Front(cut) = task.path /\ cut # << >>
    BY <1>3, <1>5, UnderAppend, FrontOfAppend
  <2>2a. kept \subseteq out /\ \A p \in out : p \in kept <=> ~IsPrefix(cut, p.path)
    BY DEF Besides
  <2>2b. Stands(o)
    <3>1. PICK x \in Real : x.path = task.path
      BY <1>3 DEF Place
    <3> QED BY <2>1, <3>1 DEF Stands
  <2> HIDE DEF cut, o, kept
  <2>3. Above(o) = task.path
    BY <2>1, <2>2 DEF Above
  <2>4. ASSUME NEW x \in Named, Under(task.path, x.path) PROVE Explained(x, shown)
    <3>1. Explains(o, x)
      BY <2>1, <2>3, <2>4 DEF Explains
    <3> QED BY <3>1 DEF Explained
  <2>5. \A p \in out : IsPrefix(cut, p.path) <=> Under(cut, p.path)
    BY <1>3, <2>2, UnderIsPrefix
  <2>6. ASSUME NEW x \in Named, NEW p \in out, Explains(p, x), Under(cut, p.path)
        PROVE  Under(task.path, x.path)
    <3>1. p.path \in Seq(Labels) /\ x.path \in Seq(Labels) /\ Stands(p)
      BY <1>3 DEF TraceInv, Accounted
    <3>2. Under(task.path, p.path)
      BY <1>3, <2>2, <2>6, <3>1, UnderOrder
    <3>3. CASE p.mark = "..." /\ p.path # << >>
      <4>1. PICK y \in Real : p.path = Append(y.path, "...")
        BY <3>1, <3>3 DEF Stands
      <4>2. PICK q \in Seq(Labels) : q = y.path
        BY <1>2, TaskTraced
      <4>3. /\ Len(p.path) = Len(q) + 1 /\ Len(q) \in Nat /\ Front(p.path) = q /\ Under(q, p.path)
        BY <1>5, <4>1, <4>2, UnderAppend, FrontOfAppend
      <4>4. Above(p) = q
        BY <3>3, <4>3 DEF Above
      <4>5. Len(task.path) <= Len(q)
        BY <1>3, <2>2, <2>6, <4>3 DEF Under
      <4>6. Under(task.path, q)
        BY <1>3, <3>1, <3>2, <4>3, <4>5, UnderOrder
      <4>7. x.path = p.path \/ Under(q, x.path)
        BY <2>6, <4>4 DEF Explains
      <4> QED BY <1>3, <3>1, <3>2, <4>6, <4>7, UnderOrder
    <3>4. CASE ~(p.mark = "..." /\ p.path # << >>)
      <4>1. x.path = p.path \/ Under(p.path, x.path)
        BY <2>6, <3>4 DEF Explains, Above
      <4> QED BY <1>3, <3>1, <3>2, <4>1, UnderOrder
    <3> QED BY <3>3, <3>4
  <2>7. ASSUME NEW x \in Named, Explained(x, out) \/ Zone(task, x.path)
        PROVE  Explained(x, kept \cup shown)
    <3>1. CASE Under(task.path, x.path)
      BY <2>4, <3>1, ExplainedMore
    <3>2. CASE ~Under(task.path, x.path)
      <4>1. Explained(x, out)
        BY <2>7, <3>2 DEF Zone
      <4>2. Explained(x, kept)
        BY <2>2a, <2>5, <2>6, <3>2, <4>1 DEF Explained
      <4> QED BY <4>2, ExplainedMore
    <3> QED BY <3>1, <3>2
  <2>8. NewEntries(kept, shown)
    <3>1. Under(cut, cut) /\ Len(o.path) > Len(task.path)
      BY <1>3, <2>1, <2>2, UnderOrder
    <3>2. \A p \in kept : p.path # cut
      BY <2>2a, <2>5, <3>1
    <3> QED BY <2>1, <2>2, <2>2b, <3>1, <3>2 DEF NewEntries
  <2> HIDE DEF shown
  <2> QED BY <1>2, <2>1, <2>2a, <2>7, <2>8, OverAccounts
<1>11. ASSUME NEW mark \in {"type", "masked"}, Overwrite(path, mark), todo' = <<u>> \o rest
       PROVE  Traced' /\ Accounted'
  <2> DEFINE o == [path |-> path, mark |-> mark]
             shown == {o}
             kept == Besides(path)
  <2>1. out' = kept \cup shown /\ o.path = path /\ o.mark = mark /\ Above(o) = path /\ o.mark # "..."
    BY <1>11 DEF Overwrite, Above
  <2> HIDE DEF o
  <2>2. ASSUME NEW x \in Named, Zone(task, x.path) PROVE Explained(x, shown) \/ Zone(u, x.path)
    <3>1. x.path \in Seq(Labels)
      BY <1>3
    <3>2. CASE Under(path, x.path)
      <4>1. Explains(o, x)
        BY <1>11, <2>1, <3>2 DEF Explains
      <4> QED BY <4>1 DEF Explained
    <3> QED BY <1>7, <2>2, <3>1, <3>2
  <2>3. NewEntries(kept, shown)
    <3>1. \E x \in Real : x.path = path
      BY <1>4 DEF Place
    <3>2. Stands(o)
      BY <2>1, <3>1 DEF Stands
    <3> QED BY <1>4, <1>8b, <2>1, <3>2 DEF NewEntries
  <2>4. \A p \in shown : ~Zone(u, p.path)
    BY <1>8, <2>1
  <2>5. Uncut(u, kept \cup shown)
    BY <1>8a, <1>8b, <2>1
  <2> HIDE DEF shown, kept
  <2>6. kept \subseteq out /\ \A x \in Named : Explained(x, out) => Explained(x, kept)
    BY <1>6a, <1>8b DEF kept
  <2>7. \A x \in Named : (Explained(x, out) \/ Zone(task, x.path)) =>
            Explained(x, kept \cup shown) \/ Zone(u, x.path)
    BY <2>2, <2>6, ExplainedMore
  <2> QED BY <1>2, <1>4, <1>7, <1>11, <2>1, <2>3, <2>4, <2>5, <2>6, <2>7, GoesOnAccounts
<1>12. CASE /\ todo' = <<Task("visit", Dynamic(e.node), path, task.depth + 1)>> \o (<<u>> \o rest)
            /\ out' = Besides(path)
  <2> DEFINE t == Task("visit", Dynamic(e.node), path, task.depth + 1)
             ts == <<t, u>>
  <2>1. Dynamic(e.node) \in Values /\ Behind(graph, Dynamic(e.node)) = Behind(graph, e.node)
    BY <1>3, <1>4, BehindDynamic
  <2>2. PICK d \in Nat : d = task.depth + 1
    BY <1>3
  <2>3. << >> \in Seq(Items)
    OBVIOUS
  <2>4. t = [doing |-> "visit", node |-> Dynamic(e.node), path |-> path, depth |-> d,
             then |-> "visit", left |-> << >>]
    BY <2>2 DEF Task
  <2>5. todo' = <<t>> \o (<<u>> \o rest)
    BY <1>12
  <2> HIDE DEF t
  <2>6. t \in Tasks /\ t.doing = "visit" /\ t.then = "visit" /\ t.path = path /\ t.node = Dynamic(e.node)
    BY <1>4, <2>1, <2>3, <2>4 DEF Tasks
  <2>7. TracedTask(t)
    BY <1>4, <2>1, <2>6 DEF TracedTask, Place
  <2>8. ts \in Seq(Tasks)
    <3> HIDE DEF Tasks
    <3> QED BY <1>4, <2>6
  <2>9. DOMAIN ts = 1 .. 2 /\ ts[1] = t /\ ts[2] = u /\ ts = <<t>> \o <<u>>
    OBVIOUS
  <2>10. todo' = ts \o rest
    <3>1. PICK r \in Seq(Tasks) : r = rest
      <4>1. rest \in Seq(Tasks)
        BY <1>2, <1>3 DEF TodoOK, rest
      <4> QED BY <4>1
    <3>2. <<t>> \in Seq(Tasks) /\ <<u>> \in Seq(Tasks)
      <4> HIDE DEF Tasks
      <4> QED BY <1>4, <2>6
    <3>3. <<t>> \o (<<u>> \o r) = (<<t>> \o <<u>>) \o r
      <4> HIDE DEF Tasks, ts
      <4> QED BY <3>2, ConcatAssociative
    <3> QED BY <2>5, <2>9, <3>1, <3>3
  <2> HIDE DEF ts
  <2>11. \A j \in DOMAIN ts : (j = 1 /\ ts[j] = t) \/ (j = 2 /\ ts[j] = u)
    BY <2>9
  <2>12. \A q : Zone(t, q) <=> Under(path, q)
    BY <2>6 DEF Zone
  <2>13. \A j \in DOMAIN ts : TracedTask(ts[j]) /\ Under(task.path, ts[j].path)
    <3>1. Under(task.path, task.path)
      BY <1>3, UnderOrder
    <3> QED BY <1>4, <2>6, <2>7, <2>11, <3>1
  <2> DEFINE kept == Besides(path)
  <2>13a. /\ kept \subseteq out /\ \A o \in kept : ~Under(path, o.path)
          /\ \A x \in Named : Explained(x, out) => Explained(x, kept)
    BY <1>6a, <1>8b
  <2>13b. out' = kept
    BY <1>12
  <2> HIDE DEF kept
  <2>14. \A j \in DOMAIN ts : \A o \in kept : Zone(ts[j], o.path) => Zone(task, o.path)
    <3>1. \A o \in kept : o.path \in Seq(Labels)
      BY <1>3, <2>13a
    <3> QED BY <1>7, <2>11, <2>12, <2>13a, <3>1
  <2>15. ASSUME NEW j \in DOMAIN ts, NEW k \in DOMAIN ts, j < k
         PROVE  Len(ts[j].path) > Len(ts[k].path) /\ ~Zone(ts[k], ts[j].path)
    <3>1. ts[j] = t /\ ts[k] = u
      BY <2>11, <2>15
    <3>2. Len(path) > Len(task.path)
      BY <1>3, <1>4
    <3> QED BY <1>4, <1>8, <2>6, <3>1, <3>2
  <2>16. PICK shown : shown = {}
    OBVIOUS
  <2>16a. kept \cup shown = kept /\ NewEntries(kept, shown)
    BY <2>16 DEF NewEntries
  <2>16b. \A j \in DOMAIN ts : Uncut(ts[j], kept)
    <3>1. Uncut(u, kept)
      BY <1>8a, <2>13a
    <3>2. Uncut(t, kept)
      BY <2>6 DEF Uncut
    <3> QED BY <2>11, <3>1, <3>2
  <2>17. ASSUME NEW x \in Named, Zone(task, x.path)
         PROVE  \E j \in DOMAIN ts : Zone(ts[j], x.path)
    <3>1. x.path \in Seq(Labels)
      BY <1>3
    <3>2. Zone(t, x.path) \/ Zone(u, x.path)
      BY <1>7, <2>12, <2>17, <3>1
    <3> QED BY <2>9, <3>2
  <2>18. SharedOut(ts, kept, shown)
    <3>1. \A x \in Named : (Explained(x, out) \/ Zone(task, x.path)) =>
              Explained(x, kept \cup shown) \/ \E j \in DOMAIN ts : Zone(ts[j], x.path)
      BY <2>13a, <2>16a, <2>17
    <3>2. /\ \A j \in DOMAIN ts : Uncut(ts[j], kept \cup shown)
          /\ \A j \in DOMAIN ts : \A o \in shown : ~Zone(ts[j], o.path)
      BY <2>16, <2>16a, <2>16b
    <3> QED BY <2>13, <2>14, <2>15, <2>16a, <3>1, <3>2, Zenon DEF SharedOut
  <2>19. /\ out' = kept \cup shown /\ UNCHANGED <<graph, limits>> /\ graph \in Graphs
         /\ limits \in Limits /\ Traced /\ Accounted
    BY <1>2, <2>13b, <2>16a, TaskTraced DEF TraceInv
  <2> QED BY <1>2, <1>3, <2>8, <2>10, <2>13a, <2>18, <2>19, SharedOutAccounts
<1> QED
  BY <1>1, <1>9, <1>10, <1>11, <1>12 DEF e, path, u, SkipsUnpaid, SkipsPaid, HiddenKeys

-----------------------------------------------------------------------------
\* The first task stands for the whole value.
LEMMA TraceInitially == SerializeInit => Traced /\ Accounted
<1> SUFFICES ASSUME SerializeInit PROVE Traced /\ Accounted
  OBVIOUS
<1> DEFINE t == Task("value", Dynamic(1), << >>, 0)
<1>1. graph \in Graphs /\ limits \in Limits /\ todo = <<t>> /\ out = {}
  BY DEF SerializeInit
<1>2. graph \in [Nodes -> GraphNodes] /\ 1 \in Values /\ limits.maxDepth \in Nat
  BY <1>1, EntriesTyped, DepthsNatural
<1>3. Behind(graph, Dynamic(1)) = Behind(graph, 1)
  BY <1>2, BehindDynamic
<1>4. /\ t.doing = "value" /\ t.path = << >> /\ t.then = "value" /\ t.node = Dynamic(1)
      /\ DOMAIN todo = {1} /\ todo[1] = t
  BY <1>1 DEF Task
<1> HIDE DEF t
<1>5. [path |-> << >>, node |-> Behind(graph, 1)] \in Real
  BY <1>1, <1>2, Unfolds DEF Real
<1>6. Traced
  BY <1>3, <1>4, <1>5 DEF Traced, TracedTask, Place
<1>7. \A u \in Named : Zone(t, u.path)
  <2>1. \A u \in Named : u \in Real
    BY DEF Named
  <2>2. \A u \in Real : u \in Places
    BY <1>1, <1>2, Unfolds DEF Real
  <2>3. \A u \in Named : u.path \in Seq(Labels)
    BY <2>1, <2>2 DEF Places, Labels
  <2> QED BY <1>4, <2>3, UnderOrder DEF Zone
<1>8. Accounted
  BY <1>1, <1>4, <1>7 DEF Accounted, Uncut
<1> QED
  BY <1>6, <1>8

\* Nothing but the walk changes what is accounted for.
LEMMA TraceStutters == ASSUME TraceInv, UNCHANGED serializeVars PROVE Traced' /\ Accounted'
<1>1. UNCHANGED <<graph, limits, todo, out>>
  BY DEF serializeVars
<1>2. Real' = Real
  BY <1>1 DEF Real
<1>3. Traced'
  BY <1>1, <1>2 DEF TraceInv, Traced, TracedTask, Place, KeysApart, Once
<1>4. Accounted'
  <2>1. Named' = Named
    BY <1>1, <1>2 DEF Named, Once
  <2>2. /\ \A i, q : Zone(todo[i], q)' <=> Zone(todo'[i], q')
        /\ \A i : Uncut(todo[i], out)' <=> Uncut(todo'[i], out')
        /\ \A o \in out' : Stands(o)' <=> Stands(o)
    BY <1>1, <1>2 DEF Zone, LeftKeys, Once, Uncut, Stands
  <2> QED BY <1>1, <2>1, <2>2 DEF TraceInv, Accounted
<1> QED
  BY <1>3, <1>4

(***************************************************************************)
(* The inductive invariant of the walk: in every state each entry of the   *)
(* value whose names stand for one entry each is shown, spoken for by an   *)
(* entry above it, or left to exactly one task of the walk (dump.go value, *)
(* fieldValue, structValue, mapValue, sliceValue).                         *)
(***************************************************************************)
THEOREM TraceInvariance == SerializeSpec => [](WalkInv /\ Traced /\ Accounted)
<1>1. TraceInv /\ [SerializeNext]_serializeVars => TraceInv'
  <2>1. WalkInv /\ [SerializeNext]_serializeVars => WalkInv'
    BY ValuePreserves, VisitPlainPreserves, VisitPointerPreserves, VisitContainerPreserves,
       IndirectPreserves, EntryPreserves, EndEntriesPreserves, WalkStutters DEF SerializeNext
  <2>2. TraceInv /\ [SerializeNext]_serializeVars => Traced' /\ Accounted'
    BY ValueTraces, VisitPlainTraces, VisitPointerTraces, VisitContainerTraces,
       IndirectTraces, EntryTraces, EndEntriesTraces, TraceStutters DEF SerializeNext
  <2> QED BY <2>1, <2>2 DEF TraceInv
<1>2. SerializeInit => TraceInv
  BY WalkInitially, TraceInitially DEF TraceInv
<1>3. TraceInv => WalkInv /\ Traced /\ Accounted
  BY DEF TraceInv
<1> QED
  BY <1>1, <1>2, <1>3, PTL DEF SerializeSpec

(***************************************************************************)
(* A finished dump loses no entry with names of its own without saying so: *)
(* every such entry that the value has within the depth limit and no rule  *)
(* removes is in the result, or something above it is a mask, a type name, *)
(* a cycle or an ellipsis; and the result has no entry twice and none the  *)
(* value does not have (dump.go nextField, structValue, mapValue,          *)
(* sliceValue).  Entries of a map with keys that are not strings may share *)
(* a name, and of those the code shows the last.                           *)
(***************************************************************************)
THEOREM DumpsLoseNothing == SerializeSpec => []NothingLostSilently
<1>1. WalkInv /\ Traced /\ Accounted => NothingLostSilently
  <2> SUFFICES ASSUME WalkInv, Accounted, Done PROVE NothingLostSilently
    BY DEF NothingLostSilently
  <2>1. DOMAIN todo = {}
    BY DEF Done
  <2>2. \A u \in Named : Explained(u, out) /\ u \in Real
    BY <2>1 DEF Accounted, Named
  <2>3. /\ \A o \in out : o.path \in Seq(Labels)
        /\ \A u \in Real : u.path \in Seq(Labels)
    <3>1. graph \in Graphs /\ limits.maxDepth \in Nat
      BY DepthsNatural DEF WalkInv
    <3>2. \A u \in Real : u \in Places
      BY <3>1, Unfolds DEF Real
    <3> QED BY <3>2 DEF WalkInv, OutOK, EntryOK, Labels, Places
  <2>4. ASSUME NEW u \in Named
        PROVE  \/ ToSet(u.path) \cap HiddenKeys # {}
               \/ \E o \in out : o.path = u.path
               \/ \E o \in Shows({"masked", "type", "[cycle]", "..."}) :
                     IF o.mark = "..." /\ o.path # << >>
                     THEN IsPrefix(Front(o.path), u.path)
                     ELSE IsPrefix(o.path, u.path)
    <3>1. CASE HiddenPath(u.path)
      BY <3>1 DEF HiddenPath, ToSet
    <3>2. ASSUME NEW o \in out, o.mark \in {"masked", "type", "[cycle]", "..."},
                 Under(Above(o), u.path)
          PROVE  IF o.mark = "..." /\ o.path # << >>
                 THEN IsPrefix(Front(o.path), u.path)
                 ELSE IsPrefix(o.path, u.path)
      <4>1. PICK p \in Seq(Labels) : p = o.path
        BY <2>3
      <4>2. p # << >> => Front(p) \in Seq(Labels)
        <5> SUFFICES ASSUME p # << >> PROVE Front(p) \in Seq(Labels)
          OBVIOUS
        <5>1. Len(p) - 1 \in 0 .. Len(p)
          OBVIOUS
        <5>2. PICK n \in 0 .. Len(p) : n = Len(p) - 1
          BY <5>1
        <5>3. SubSeq(p, 1, n) \in Seq(Labels)
          OBVIOUS
        <5> QED BY <5>2, <5>3 DEF Front
      <4>3. Above(o) \in Seq(Labels)
        BY <4>1, <4>2 DEF Above
      <4>4. PICK a \in Seq(Labels) : a = Above(o)
        BY <4>3
      <4>5. IsPrefix(a, u.path)
        BY <2>2, <2>3, <3>2, <4>4, UnderIsPrefix
      <4> QED BY <4>4, <4>5 DEF Above
    <3> QED BY <2>2, <3>1, <3>2 DEF Explained, Explains, Shows
  <2>5. \A o \in out \ Shows({"..."}) : \E u \in Real : u.path = o.path
    BY DEF Accounted, Shows, Stands
  <2>6. \A o, p \in out : o.path = p.path => o = p
    BY DEF Accounted
  <2> QED BY <2>4, <2>5, <2>6, Zenon DEF NothingLostSilently
<1> QED
  BY <1>1, TraceInvariance, PTL
-----------------------------------------------------------------------------
(***************************************************************************)
(* What the walk has met through a pointer it has shown, or is on its way  *)
(* to: the running task is at a value met from there.                      *)
(***************************************************************************)
\* What the pointers followed lead to: it has an address that was met.
Met ==
    {n \in Nodes : /\ graph[n].at \in visited
                   /\ \E p \in Nodes : graph[p].kind = "pointer" /\ graph[p].to = n}
ShownFor(n) ==
    \E v \in Real, p \in Shows({"container", "leaf", "type"}) :
        v.node = Behind(graph, n) /\ p.path = v.path
Leading(n) == todo # << >> /\ task.doing # "entries" /\ task.node \in MetFrom(graph, n)
\* The budget was spent before anything was shown.
Cut == todo = << >> /\ \A o \in out : o.mark = "..."

Cycled ==
    /\ \A o \in Shows({"[cycle]"}) : \E n \in Met : Place(n, o.path) \in Real
    /\ \A n \in Met : Behind(graph, n) = Nil \/ ShownFor(n) \/ Leading(n) \/ Cut

\* No name and no address stands for two.
Apart == NamesApart /\ AddressesApart

\* Then no entry has the name of what was cut off,
LEMMA RealKeys ==
    ASSUME graph \in Graphs, limits \in Limits, NamesApart, NEW u \in Real, NEW i \in DOMAIN u.path
    PROVE  u.path[i] # "..."
<1> DEFINE T == {n \in Nat : \A x \in Real : Len(x.path) = n => \A j \in DOMAIN x.path : x.path[j] # "..."}
<1>1. /\ limits.maxDepth \in Nat
      /\ \A x \in Real : x.path \in Seq(Keys) /\ Len(x.path) \in Nat /\ x.node \in Values
  <2>1. limits.maxDepth \in Nat
    BY DepthsNatural
  <2>2. \A x \in Real : x \in Places
    BY <2>1, Unfolds DEF Real
  <2> QED BY <2>1, <2>2 DEF Places
<1>2. 0 \in T
  <2> SUFFICES ASSUME NEW x \in Real, Len(x.path) = 0, NEW j \in DOMAIN x.path PROVE FALSE
    OBVIOUS
  <2> QED BY <1>1
<1>3. ASSUME NEW n \in Nat, n \in T PROVE n + 1 \in T
  <2> SUFFICES ASSUME NEW x \in Real, Len(x.path) = n + 1, NEW j \in DOMAIN x.path
               PROVE  x.path[j] # "..."
    OBVIOUS
  <2>1. Len(x.path) # 0
    OBVIOUS
  <2>2. PICK w \in Real : \E d \in EntriesOf(graph, w.node) :
          x = [path |-> Append(w.path, d.key), node |-> Behind(graph, d.node)]
    BY <1>1, <2>1, Unfolds DEF Real
  <2>3. PICK d \in EntriesOf(graph, w.node) :
          x = [path |-> Append(w.path, d.key), node |-> Behind(graph, d.node)]
    BY <2>2
  <2>4. w.node \in Values /\ w.node # Nil /\ d.key \in Keys
    BY <1>1, EntriesTyped
  <2>5. d.key # "..."
    BY <2>4 DEF NamesApart, Once, EntriesOf, ToSet, Values
  <2>6. PICK p \in Seq(Keys) : p = w.path
    BY <1>1
  <2>7. PICK k \in Keys : k = d.key
    BY <2>4
  <2>8. /\ x.path = Append(p, k) /\ Len(Append(p, k)) = Len(p) + 1 /\ Append(p, k)[Len(p) + 1] = k
        /\ \A l \in 1 .. Len(p) : Append(p, k)[l] = p[l]
    BY <2>3, <2>6, <2>7, AppendProperties
  <2>9. Len(w.path) = n /\ Len(p) = n /\ DOMAIN p = 1 .. n /\ DOMAIN x.path = 1 .. n + 1
    BY <1>1, <2>6, <2>8
  <2>10. \A l \in DOMAIN p : p[l] # "..."
    BY <1>3, <2>6, <2>9
  <2> QED BY <2>5, <2>7, <2>8, <2>9, <2>10
<1>4. Nat \subseteq T
  <2> HIDE DEF T
  <2> QED BY <1>2, <1>3, NatSetInduction
<1> QED
  BY <1>1, <1>4

\* every entry has its path to itself,
LEMMA AllNamed ==
    ASSUME graph \in Graphs, limits \in Limits, NamesApart
    PROVE  Named = Real
<1>1. \A x \in Real : x.path \in Seq(Labels) /\ Len(x.path) \in Nat /\ x.node \in Values
  <2>1. limits.maxDepth \in Nat
    BY DepthsNatural
  <2>2. \A x \in Real : x \in Places
    BY <2>1, Unfolds DEF Real
  <2> QED BY <2>2 DEF Places, Labels
<1>2. \A n \in Nodes : \A k : k # "..." => Once(n, k)
  BY DEF NamesApart, Once
<1>3. ASSUME NEW u \in Real, NEW w \in Real, IsPrefix(w.path, u.path), w.path # u.path, w.node # Nil
      PROVE  Once(w.node, u.path[Len(w.path) + 1])
  <2>1. Under(w.path, u.path)
    BY <1>1, <1>3, UnderIsPrefix
  <2>2. ~(Len(u.path) <= Len(w.path))
    BY <1>1, <1>3, <2>1, UnderOrder
  <2>3. Len(w.path) + 1 \in DOMAIN u.path
    BY <1>1, <2>2
  <2>4. u.path[Len(w.path) + 1] # "..."
    BY <2>3, RealKeys
  <2>5. w.node \in Nodes
    BY <1>1, <1>3 DEF Values
  <2> QED BY <1>2, <2>4, <2>5
<1> QED
  BY <1>3 DEF Named

\* and no entry takes the place of another.
LEMMA NothingOverwritten ==
    ASSUME TraceInv, NamesApart, Entry
    PROVE  out \subseteq out' /\ \A o \in out' \ out : o.mark # "[cycle]"
<1>1. todo # << >> /\ task.doing = "entries"
  BY DEF Entry, Runs
<1>2. /\ graph \in Graphs /\ limits \in Limits
      /\ task.path \in Seq(Labels) /\ Len(task.path) \in Nat /\ TracedTask(task)
      /\ task.node \in Values
      /\ \A o \in out : o.path \in Seq(Labels)
      /\ \A x \in Real : x.path \in Seq(Labels)
  BY <1>1, TaskTraced
<1>3. /\ task = todo[1] /\ 1 \in DOMAIN todo
      /\ \A o \in out : ~Zone(task, o.path) /\ Stands(o)
      /\ Uncut(task, out)
  <2>1. task = todo[1] /\ 1 \in DOMAIN todo
    BY <1>1, TaskTraced DEF TodoOK, task
  <2> QED BY <2>1 DEF TraceInv, Accounted
<1>4. ASSUME NEW i \in DOMAIN task.left PROVE Besides(Append(task.path, task.left[i].key)) = out
  <2> DEFINE e == task.left[i]
             path == Append(task.path, e.key)
  <2>1. /\ e.key \in Keys /\ path \in Seq(Labels) /\ task.node # Nil
        /\ e \in EntriesOf(graph, task.node)
    BY <1>1, <1>2, EntryTraced DEF TracedTask
  <2>2. e.key \in Labels
    BY <2>1 DEF Labels
  <2>3. Once(task.node, e.key)
    BY <1>2, <2>1 DEF NamesApart, EntriesOf, ToSet, Values
  <2>4. e.key \in LeftKeys(task)
    BY <2>3 DEF LeftKeys
  <2> HIDE DEF e
  <2>5. ASSUME NEW o \in out, Under(path, o.path) PROVE FALSE
    <3>1. Under(task.path, o.path) /\ Len(task.path) < Len(o.path) /\ o.path[Len(task.path) + 1] = e.key
      BY <1>2, <2>2, <2>5, UnderAppend
    <3> QED BY <1>3, <2>4, <3>1 DEF Zone
  <2> HIDE DEF path
  <2>6. \A o \in out : ~IsPrefix(path, o.path)
    BY <1>2, <2>1, <2>5, UnderIsPrefix
  <2>7. Besides(path) = out
    BY <2>6 DEF Besides
  <2> QED BY <2>7 DEF path, e
<1>5. Besides(Append(task.path, "...")) = out
  <2> DEFINE cut == Append(task.path, "...")
  <2>1. /\ "..." \in Labels /\ cut \in Seq(Labels) /\ Len(cut) = Len(task.path) + 1
        /\ cut[Len(task.path) + 1] = "..."
    BY <1>2, UnderAppend DEF Labels
  <2>2. \A o \in out : o.mark = "..." => o.path # cut
    BY <1>1, <1>3 DEF Uncut
  <2> HIDE DEF cut
  <2>3. ASSUME NEW o \in out, Under(cut, o.path) PROVE FALSE
    <3>1. o.path \in Seq(Labels) /\ Stands(o)
      BY <1>2, <1>3
    <3>2. Len(cut) <= Len(o.path) /\ o.path[Len(cut)] = "..." /\ Len(cut) \in Nat \ {0}
      BY <1>2, <2>1, <2>3 DEF Under
    <3>3. ASSUME NEW x \in Real, Len(cut) \in 1 .. Len(x.path) PROVE x.path[Len(cut)] # "..."
      BY <1>2, <3>3, RealKeys
    <3>4. CASE o.mark # "..."
      <4>1. PICK x \in Real : x.path = o.path
        BY <3>1, <3>4 DEF Stands
      <4> QED BY <3>1, <3>2, <3>3, <4>1
    <3>5. CASE o.mark = "..."
      <4>1. o.path # << >>
        BY <3>1, <3>2
      <4>2. PICK x \in Real : o.path = Append(x.path, "...")
        BY <3>1, <3>5, <4>1 DEF Stands
      <4>3. PICK p \in Seq(Labels) : p = x.path
        BY <1>2
      <4>4. /\ Len(o.path) = Len(p) + 1 /\ Len(p) \in Nat
            /\ \A j \in 1 .. Len(p) : o.path[j] = p[j]
        BY <2>1, <4>2, <4>3, AppendProperties
      <4>5. ~(Len(o.path) <= Len(cut))
        BY <2>1, <2>2, <2>3, <3>1, <3>5, UnderOrder
      <4>6. Len(cut) \in 1 .. Len(p)
        BY <3>2, <4>4, <4>5
      <4> QED BY <3>2, <3>3, <4>3, <4>4, <4>6
    <3> QED BY <3>4, <3>5
  <2>4. \A o \in out : ~IsPrefix(cut, o.path)
    BY <1>2, <2>1, <2>3, UnderIsPrefix
  <2>5. Besides(cut) = out
    BY <2>4 DEF Besides
  <2> QED BY <2>5 DEF cut
<1>6. \/ UNCHANGED out
      \/ \E p, m : m # "[cycle]" /\ Besides(p) = out /\ Overwrite(p, m)
  <2>1. \A deep : (IF deep THEN "type" ELSE "masked") # "[cycle]"
    OBVIOUS
  <2> HIDE DEF task, rest
  <2> QED BY <1>4, <1>5, <2>1, Zenon DEF Entry, Truncate
<1> QED
  BY <1>6 DEF Overwrite

\* What is shown stays shown.
LEMMA ShownStays ==
    ASSUME UNCHANGED <<graph, limits>>, out \subseteq out'
    PROVE  /\ \A n : ShownFor(n) => ShownFor(n)'
           /\ \A n : Behind(graph, n)' = Behind(graph, n)
           /\ \A n, p : (Place(n, p) \in Real) => (Place(n, p) \in Real)'
<1>1. Real' = Real /\ \A n : Behind(graph, n)' = Behind(graph, n)
  BY DEF Real
<1>2. \A marks : Shows(marks) \subseteq Shows(marks)'
  BY DEF Shows
<1>3. ASSUME NEW n, ShownFor(n) PROVE ShownFor(n)'
  BY <1>1, <1>2, <1>3 DEF ShownFor
<1> QED
  BY <1>1, <1>3 DEF Place

\* The running task goes on at a value met from where it is, and shows no cycle.
LEMMA LeadingOn ==
    ASSUME TraceInv, Cycled, todo # << >>, UNCHANGED <<graph, limits, out>>,
           todo' # << >>, task'.doing # "entries",
           \A n \in Met : Leading(n) => task'.node \in MetFrom(graph, n),
           Met \subseteq Met',
           \A n \in Met' \ Met : task'.node \in MetFrom(graph, n)
    PROVE  Cycled'
<1>1. /\ \A n : ShownFor(n) => ShownFor(n)'
      /\ \A n : Behind(graph, n)' = Behind(graph, n)
      /\ \A n, p : (Place(n, p) \in Real) => (Place(n, p) \in Real)'
  BY ShownStays
<1>2. \A n : task'.node \in MetFrom(graph, n) => Leading(n)'
  BY DEF Leading
<1>3. \A n \in Met : Behind(graph, n) = Nil \/ ShownFor(n) \/ Leading(n)
  BY DEF Cycled, Cut
<1>4. \A n \in Met' : Behind(graph, n)' = Nil \/ ShownFor(n)' \/ Leading(n)'
  BY <1>1, <1>2, <1>3
<1>5. \A o \in Shows({"[cycle]"})' : o \in Shows({"[cycle]"})
  BY DEF Shows
<1>6. \A o \in Shows({"[cycle]"})' : \E n \in Met' : (Place(n, o.path) \in Real)'
  BY <1>1, <1>5 DEF Cycled
<1> QED
  BY <1>4, <1>6 DEF Cycled

\* The running task leaves the way it was on, and all it was leading to is shown.
LEMMA LeadingEnds ==
    ASSUME TraceInv, Cycled, todo # << >>, UNCHANGED <<graph, limits, Met>>,
           out \subseteq out',
           \A n \in Met : Leading(n) =>
               Behind(graph, n) = Nil \/ ShownFor(n)' \/ Leading(n)' \/ Cut',
           \A o \in out' \ out : o.mark = "[cycle]" => \E n \in Met : Place(n, o.path) \in Real
    PROVE  Cycled'
<1>1. /\ \A n : ShownFor(n) => ShownFor(n)'
      /\ \A n : Behind(graph, n)' = Behind(graph, n)
      /\ \A n, p : (Place(n, p) \in Real) => (Place(n, p) \in Real)'
  BY ShownStays
<1>3. \A n \in Met : Behind(graph, n) = Nil \/ ShownFor(n) \/ Leading(n)
  BY DEF Cycled, Cut
<1>4. \A n \in Met' : Behind(graph, n)' = Nil \/ ShownFor(n)' \/ Leading(n)' \/ Cut'
  BY <1>1, <1>3
<1>5. \A o \in Shows({"[cycle]"})' : \E n \in Met : Place(n, o.path) \in Real
  BY DEF Cycled, Shows
<1>6. \A o \in Shows({"[cycle]"})' : \E n \in Met' : (Place(n, o.path) \in Real)'
  BY <1>1, <1>5
<1> QED
  BY <1>4, <1>6 DEF Cycled

\* The task put in place of the running one.
LEMMA NextTask ==
    ASSUME TraceInv, todo # << >>, NEW t, NEW below, todo' = <<t>> \o below, 
           below \in Seq(Tasks), t \in Tasks
    PROVE  todo' # << >> /\ task' = t
<1>1. /\ <<t>> \in Seq(Tasks) /\ Len(<<t>>) = 1 /\ <<t>>[1] = t
  <2> HIDE DEF Tasks
  <2> QED OBVIOUS
<1>2. /\ todo' \in Seq(Tasks) /\ Len(todo') = 1 + Len(below) /\ todo'[1] = t
  BY <1>1, ConcatProperties
<1>3. todo' # << >> /\ Head(todo') = todo'[1]
  BY <1>2
<1> QED
  BY <1>2, <1>3 DEF task

\* value runs at the root: where it shows an ellipsis there is nothing else.
LEMMA ValueCycles == ASSUME TraceInv, Cycled, Value PROVE Cycled'
<1>1. todo # << >> /\ task.doing = "value" /\ UNCHANGED <<graph, limits, Met>>
  BY DEF Value, Runs, Met
<1>2. /\ task \in Tasks /\ TracedTask(task) /\ task.path = << >> /\ task.then = "value"
      /\ rest \in Seq(Tasks)
  BY <1>1, TaskTraced DEF TracedTask, TodoOK, rest
<1>3. CASE Emit(task.path, "...") /\ todo' = rest
  <2>1. /\ TodoOK /\ task = todo[1] /\ 1 \in DOMAIN todo /\ Len(todo) \in Nat
        /\ \A o \in out : o.path \in Seq(Labels)
    BY <1>1, TaskTraced DEF TodoOK, task
  <2>2. \A o \in out : Zone(task, o.path)
    BY <1>1, <1>2, <2>1, UnderOrder DEF Zone
  <2>3. out = {}
    BY <2>1, <2>2 DEF TraceInv, Accounted
  <2>4. Len(todo) = 1
    <3> SUFFICES ASSUME Len(todo) # 1 PROVE FALSE
      OBVIOUS
    <3>1. 2 \in DOMAIN todo /\ 1 < 2
      <4>1. DOMAIN todo = 1 .. Len(todo)
        BY <2>1 DEF TodoOK
      <4>2. Len(todo) >= 1
        BY <2>1, <4>1
      <4> QED BY <2>1, <4>1, <4>2
    <3>2. PICK k \in DOMAIN todo : k = 2 /\ 1 < k
      BY <3>1
    <3>3. Len(todo[1].path) > Len(todo[k].path)
      BY <2>1, <3>2 DEF TraceInv, Accounted
    <3>4. todo[k].path \in Seq(Keys)
      <4>1. todo[k] \in Tasks
        BY <2>1, <3>2 DEF TodoOK
      <4> QED BY <4>1 DEF Tasks
    <3>5. Len(todo[k].path) \in Nat /\ Len(<< >>) = 0
      BY <3>4
    <3> QED BY <1>2, <2>1, <3>3, <3>5
  <2>5. todo' = << >>
    BY <1>3, <2>1, <2>4 DEF TodoOK, rest
  <2>6. Cut'
    BY <1>3, <2>3, <2>5 DEF Cut, Emit
  <2>7. out \subseteq out' /\ \A o \in out' \ out : o.mark # "[cycle]"
    BY <1>3 DEF Emit
  <2> QED BY <1>1, <2>6, <2>7, LeadingEnds
<1>4. CASE UNCHANGED out /\ todo' = <<[task EXCEPT !.doing = "visit"]>> \o rest
  <2> DEFINE t == [task EXCEPT !.doing = "visit"]
  <2>1. t \in Tasks /\ t.doing = "visit" /\ t.node = task.node /\ todo' = <<t>> \o rest
    BY <1>2, <1>4 DEF Tasks
  <2> HIDE DEF t
  <2>2. todo' # << >> /\ task' = t
    BY <1>1, <1>2, <2>1, NextTask
  <2>3. \A n \in Met : Leading(n) => task'.node \in MetFrom(graph, n)
    BY <2>1, <2>2 DEF Leading
  <2>4. Met \subseteq Met' /\ Met' \ Met = {}
    BY <1>1
  <2> QED BY <1>1, <1>4, <2>1, <2>2, <2>3, <2>4, LeadingOn
<1> QED
  BY <1>3, <1>4 DEF Value

\* A second pointer to a value that is still being led to leads round in a loop.
LEMMA VisitPlainCycles == ASSUME TraceInv, Cycled, VisitPlain PROVE Cycled'
<1> DEFINE mark == Shown(task.node, task.depth)
           o == [path |-> task.path, mark |-> mark]
<1>1. /\ todo # << >> /\ task.doing = "visit" /\ UNCHANGED <<graph, limits, fields, Met>>
      /\ out' = out \cup {o} /\ mark \in {"nil", "type", "[cycle]", "leaf"}
      /\ o.path = task.path /\ o.mark = mark
  BY DEF VisitPlain, Runs, Emit, Met
<1> DEFINE n == task.node
<1>2. /\ n \in Values /\ graph \in [Nodes -> GraphNodes] /\ Place(n, task.path) \in Real
      /\ Met \subseteq Values /\ Nil \in Values
  BY <1>1, TaskTraced DEF TracedTask, Met, Values
<1>3. mark = "nil" => Behind(graph, n) = Nil
  <2>1. CASE n = Nil
    BY <1>2, <2>1, BehindEnd DEF LeadsOn
  <2>2. CASE n # Nil /\ mark = "nil"
    <3>1. graph[n].kind \in Kinds
      BY <1>2, <2>2 DEF Values, GraphNodes
    <3>2. graph[n].kind = "pointer" /\ graph[n].to = Nil
      BY <2>2, <3>1 DEF Shown, Kinds
    <3>3. LeadsOn(graph, n)
      BY <2>2, <3>2 DEF LeadsOn
    <3> QED BY <1>2, <3>2, <3>3, BehindNext, BehindEnd DEF LeadsOn
  <2> QED BY <2>1, <2>2
<1>4. mark = "[cycle]" => LeadsOn(graph, n) /\ graph[n].to \in Met
                          /\ Behind(graph, n) = Behind(graph, graph[n].to)
  <2> SUFFICES ASSUME mark = "[cycle]"
               PROVE  LeadsOn(graph, n) /\ graph[n].to \in Met
                      /\ Behind(graph, n) = Behind(graph, graph[n].to)
    OBVIOUS
  <2>1. n # Nil
    BY DEF Shown
  <2>2. graph[n].kind \in Kinds
    BY <1>2, <2>1 DEF Values, GraphNodes
  <2>3. graph[n].kind = "pointer" /\ graph[n].to \in Met
    <3>1. n \in Nodes
      BY <1>2, <2>1 DEF Values
    <3>2. graph[n].to \in Values
      BY <1>2, <3>1 DEF GraphNodes
    <3>3. graph[n].kind = "pointer" /\ graph[n].to # Nil /\ graph[graph[n].to].at \in visited
      BY <2>1, <2>2 DEF Shown, Kinds
    <3> QED BY <3>1, <3>2, <3>3 DEF Met, Values
  <2>4. LeadsOn(graph, n)
    BY <2>1, <2>3 DEF LeadsOn
  <2> QED BY <1>2, <2>3, <2>4, BehindNext
<1> HIDE DEF mark, o, n
<1>5. out \subseteq out' /\ \A p \in out' \ out : p = o
  BY <1>1
<1>6. /\ \A m : ShownFor(m) => ShownFor(m)'
      /\ \A m : Behind(graph, m)' = Behind(graph, m)
  BY <1>1, <1>5, ShownStays
<1>7. ASSUME NEW m \in Met, Leading(m)
      PROVE  Behind(graph, m) = Nil \/ ShownFor(m)'
  <2>1. n \in MetFrom(graph, m) /\ m \in Values
    BY <1>2, <1>7 DEF Leading, n
  <2>2. Behind(graph, n) = Behind(graph, m)
    BY <1>2, <2>1, BehindMet
  <2>3. CASE mark \in {"type", "leaf"}
    <3>1. o \in Shows({"container", "leaf", "type"})'
      BY <1>1, <2>3 DEF Shows
    <3>2. Place(n, task.path).node = Behind(graph, m) /\ Place(n, task.path).path = o.path
      BY <1>1, <2>2 DEF Place
    <3>3. Real' = Real
      BY <1>1 DEF Real
    <3> QED BY <1>2, <1>6, <3>1, <3>2, <3>3 DEF ShownFor
  <2>4. CASE mark = "[cycle]"
    <3> DEFINE to == graph[n].to
    <3>1. to \in Met /\ Behind(graph, to) = Behind(graph, m) /\ LeadsOn(graph, n)
      BY <1>4, <2>2, <2>4
    <3>2. Behind(graph, to) = Nil \/ ShownFor(to) \/ Leading(to)
      BY <1>1, <3>1 DEF Cycled, Cut
    <3>3. CASE ShownFor(to)
      <4>1. ShownFor(m)
        BY <3>1, <3>3 DEF ShownFor
      <4> QED BY <1>6, <4>1
    <3>4. CASE Leading(to)
      <4>1. n \in MetFrom(graph, to) /\ to \in Values
        BY <1>2, <3>1, <3>4 DEF Leading, n
      <4>2. Behind(graph, to) = Nil
        <5>1. PICK x \in Values : x = to
          BY <4>1
        <5> QED BY <1>2, <3>1, <4>1, <5>1, BehindLoop
      <4> QED BY <3>1, <4>2
    <3> QED BY <3>1, <3>2, <3>3, <3>4
  <2> QED BY <1>1, <1>3, <2>2, <2>3, <2>4
<1>8. ASSUME NEW p \in out' \ out, p.mark = "[cycle]"
      PROVE  \E m \in Met : Place(m, p.path) \in Real
  <2>1. p.path = task.path /\ mark = "[cycle]"
    BY <1>1, <1>5, <1>8
  <2>2. Place(graph[n].to, p.path) = Place(n, task.path)
    BY <1>4, <2>1 DEF Place
  <2> QED BY <1>2, <1>4, <2>1, <2>2
<1> QED
  BY <1>1, <1>5, <1>7, <1>8, LeadingEnds

\* A pointer leads on from what is met, and to its own target.
LEMMA VisitPointerCycles == ASSUME TraceInv, AddressesApart, Cycled, VisitPointer PROVE Cycled'
<1> DEFINE target == graph[task.node].to
           t == [task EXCEPT !.doing = "indirect", !.node = target, !.depth = @ + 1]
<1>1. /\ todo # << >> /\ task.doing = "visit" /\ UNCHANGED <<graph, limits, out>>
      /\ todo' = <<t>> \o rest /\ Shown(task.node, task.depth) = "pointer"
      /\ visited' = visited \cup {graph[target].at}
  BY DEF VisitPointer, Runs
<1>2. /\ task \in Tasks /\ task.node \in Values /\ graph \in [Nodes -> GraphNodes]
      /\ task.depth \in Nat /\ rest \in Seq(Tasks) /\ Met \subseteq Values
  BY <1>1, TaskTraced DEF TodoOK, rest, Met, Values
<1>3. LeadsOn(graph, task.node)
  <2>1. task.node # Nil
    BY <1>1 DEF Shown
  <2>2. graph[task.node].kind \in Kinds
    BY <1>2, <2>1 DEF GraphNodes, Values
  <2> QED BY <1>1, <2>1, <2>2 DEF Shown, LeadsOn, Kinds
<1>4. target \in Values
  BY <1>2, <1>3, MetFromNext
<1>4a. Met \subseteq Met' /\ \A n \in Met' \ Met : n = target
  <2>1. task.node \in Nodes /\ graph[task.node].kind = "pointer" /\ target # Nil
    <3>1. task.node # Nil
      BY <1>1 DEF Shown
    <3>2. graph[task.node].kind \in Kinds
      BY <1>2, <3>1 DEF GraphNodes, Values
    <3> QED BY <1>1, <1>2, <3>1, <3>2 DEF Shown, Kinds, Values
  <2>2. Met \subseteq Met'
    BY <1>1 DEF Met
  <2>3. ASSUME NEW n \in Met', n \notin Met PROVE n = target
    <3>1. n \in Nodes /\ graph[n].at = graph[target].at
      BY <1>1, <2>3 DEF Met
    <3>2. PICK p \in Nodes : graph[p].kind = "pointer" /\ graph[p].to = n
      BY <1>1, <2>3 DEF Met
    <3>3. n # Nil
      BY <3>1, GraphsTyped
    <3> QED BY <2>1, <3>1, <3>2, <3>3 DEF AddressesApart
  <2> QED BY <2>2, <2>3
<1>5. \A n \in Met : Leading(n) => target \in MetFrom(graph, n)
  BY <1>2, <1>3, MetByDefinition DEF Leading
<1>6. target \in MetFrom(graph, target)
  <2>1. PICK x \in Values : x = target
    BY <1>4
  <2> QED BY <1>2, <2>1, MetByDefinition
<1> HIDE DEF target
<1>7. t \in Tasks /\ t.doing = "indirect" /\ t.node = target
  <2>1. PICK d \in Nat : d = task.depth + 1
    BY <1>2
  <2>2. t = [task EXCEPT !.doing = "indirect", !.node = target, !.depth = d]
    BY <2>1
  <2> HIDE DEF t
  <2> QED BY <1>2, <1>4, <2>1, <2>2 DEF Tasks
<1> HIDE DEF t
<1>8. todo' # << >> /\ task' = t
  BY <1>1, <1>2, <1>7, NextTask
<1>9. /\ task'.doing # "entries"
      /\ \A n \in Met : Leading(n) => task'.node \in MetFrom(graph, n)
      /\ Met \subseteq Met'
      /\ \A n \in Met' \ Met : task'.node \in MetFrom(graph, n)
  BY <1>1, <1>2, <1>4a, <1>5, <1>6, <1>7, <1>8
<1> QED
  BY <1>1, <1>8, <1>9, LeadingOn

\* indirect only leads on.
LEMMA IndirectCycles == ASSUME TraceInv, Cycled, Indirect PROVE Cycled'
<1> DEFINE next == IndirectNext(task.node)
           t == IF next # Nil THEN [task EXCEPT !.node = next]
                ELSE [task EXCEPT !.doing = task.then, !.node = Dynamic(@)]
<1>1. /\ todo # << >> /\ task.doing = "indirect" /\ UNCHANGED <<graph, limits, out, Met>>
      /\ todo' = <<t>> \o rest
  BY DEF Indirect, Runs, Met
<1>2. /\ task \in Tasks /\ task.node \in Values /\ graph \in [Nodes -> GraphNodes]
      /\ task.node # Nil /\ task.then \in {"value", "visit"}
      /\ rest \in Seq(Tasks) /\ Met \subseteq Values
  BY <1>1, TaskTraced DEF TaskOK, Tasks, TodoOK, rest, Met, Values
<1>3. \A n \in Met : Leading(n) =>
          task.node \in MetFrom(graph, n)
          /\ (LeadsOn(graph, task.node) => graph[task.node].to \in MetFrom(graph, n))
  BY <1>2, MetByDefinition DEF Leading
<1>4. next # Nil => LeadsOn(graph, task.node) /\ next = graph[task.node].to /\ next \in Values
  <2> SUFFICES ASSUME next # Nil
               PROVE  LeadsOn(graph, task.node) /\ next = graph[task.node].to /\ next \in Values
    OBVIOUS
  <2>1. LeadsOn(graph, task.node) /\ next = graph[task.node].to
    BY <1>2 DEF IndirectNext, LeadsOn
  <2> QED BY <1>2, <2>1, MetFromNext
<1>5. /\ Dynamic(task.node) \in Values
      /\ \/ Dynamic(task.node) = task.node
         \/ LeadsOn(graph, task.node) /\ Dynamic(task.node) = graph[task.node].to
  BY <1>2, BehindDynamic DEF Dynamic, LeadsOn
<1> HIDE DEF next
<1>6. /\ t \in Tasks /\ t.doing # "entries"
      /\ \A n \in Met : Leading(n) => t.node \in MetFrom(graph, n)
  <2>1. CASE next # Nil
    <3>1. t = [task EXCEPT !.node = next]
      BY <2>1
    <3> HIDE DEF t
    <3>2. t \in Tasks /\ t.doing # "entries" /\ t.node = next
      BY <1>1, <1>2, <1>4, <2>1, <3>1 DEF Tasks
    <3> QED BY <1>3, <1>4, <2>1, <3>2
  <2>2. CASE next = Nil
    <3>1. t = [task EXCEPT !.doing = task.then, !.node = Dynamic(task.node)]
      BY <2>2
    <3>2. PICK m \in Values : m = Dynamic(task.node)
      BY <1>5
    <3> HIDE DEF t
    <3>3. t \in Tasks /\ t.doing # "entries" /\ t.node = Dynamic(task.node)
      BY <1>2, <3>1, <3>2 DEF Tasks
    <3> QED BY <1>3, <1>5, <3>3
  <2> QED BY <2>1, <2>2
<1> HIDE DEF t
<1>7. todo' # << >> /\ task' = t
  BY <1>1, <1>2, <1>6, NextTask
<1>8. /\ task'.doing # "entries"
      /\ \A n \in Met : Leading(n) => task'.node \in MetFrom(graph, n)
      /\ Met \subseteq Met'
      /\ \A n \in Met' \ Met : task'.node \in MetFrom(graph, n)
  BY <1>1, <1>2, <1>6, <1>7
<1> QED
  BY <1>1, <1>7, <1>8, LeadingOn

\* A container is shown for all that led to it.
LEMMA VisitContainerCycles == ASSUME TraceInv, Cycled, VisitContainer PROVE Cycled'
<1> DEFINE o == [path |-> task.path, mark |-> "container"]
<1>1. /\ todo # << >> /\ UNCHANGED <<graph, limits, Met>>
      /\ out' = out \cup {o} /\ o.path = task.path /\ o.mark = "container"
  BY DEF VisitContainer, Runs, Emit, Met
<1> HIDE DEF o
<1>2. /\ graph \in [Nodes -> GraphNodes] /\ Place(task.node, task.path) \in Real
      /\ Met \subseteq Values
  BY <1>1, TaskTraced DEF TracedTask, Met, Values
<1>3. o \in Shows({"container", "leaf", "type"})' /\ Real' = Real
  BY <1>1 DEF Shows, Real
<1>4. ASSUME NEW n \in Met, Leading(n) PROVE ShownFor(n)'
  <2>1. Behind(graph, task.node) = Behind(graph, n)
    BY <1>2, <1>4, BehindMet DEF Leading
  <2>2. Place(task.node, task.path).node = Behind(graph, n)' /\ o.path = Place(task.node, task.path).path
    BY <1>1, <2>1 DEF Place
  <2> QED BY <1>2, <1>3, <2>2 DEF ShownFor
<1>5. out \subseteq out' /\ \A p \in out' \ out : p.mark # "[cycle]"
  BY <1>1
<1> QED
  BY <1>1, <1>4, <1>5, LeadingEnds

\* Between entries nothing is being led to.
LEMMA EntriesCycle == ASSUME TraceInv, NamesApart, Cycled, Entry \/ EndEntries PROVE Cycled'
<1>1. /\ todo # << >> /\ task.doing = "entries" /\ UNCHANGED <<graph, limits, Met>>
      /\ out \subseteq out' /\ \A o \in out' \ out : o.mark # "[cycle]"
  <2>1. CASE EndEntries
    BY <2>1 DEF EndEntries, Runs, Met
  <2>2. CASE Entry
    <3>1. todo # << >> /\ task.doing = "entries" /\ UNCHANGED <<graph, limits, Met>>
      BY <2>2 DEF Entry, Runs, Met
    <3> QED BY <2>2, <3>1, NothingOverwritten
  <2> QED BY <2>1, <2>2
<1>2. \A n \in Met : ~Leading(n)
  BY <1>1 DEF Leading
<1> QED
  BY <1>1, <1>2, LeadingEnds

\* A dump starts with no pointer met.
LEMMA CycledInitially == SerializeInit => Cycled
<1> SUFFICES ASSUME SerializeInit PROVE Cycled
  OBVIOUS
<1> QED
  BY DEF SerializeInit, Cycled, Shows, Met

\* Nothing but the walk changes what has been met.
LEMMA CycledStutters == ASSUME Cycled, UNCHANGED serializeVars PROVE Cycled'
<1>1. UNCHANGED <<graph, limits, todo, Met, out>>
  BY DEF serializeVars, Met
<1>2. Real' = Real /\ \A marks : Shows(marks)' = Shows(marks)
  BY <1>1 DEF Real, Shows
<1>3. \A n : /\ ShownFor(n)' <=> ShownFor(n)
             /\ Leading(n)' <=> Leading(n)
             /\ Behind(graph, n)' = Behind(graph, n)
  BY <1>1, <1>2 DEF ShownFor, Leading, task
<1>4. Cut' <=> Cut
  BY <1>1 DEF Cut
<1>5. \A n, p : (Place(n, p) \in Real)' <=> Place(n, p) \in Real
  BY <1>1, <1>2 DEF Place
<1> QED
  BY <1>1, <1>2, <1>3, <1>4, <1>5 DEF Cycled

(***************************************************************************)
(* Where no name and no address stands for two values: of what the walk    *)
(* has met through pointers, it is shown, or the running task is on its    *)
(* way to it, or it leads to no value (dump.go pointerKey, indirect).      *)
(***************************************************************************)
THEOREM CycleInvariance == SerializeSpec => [](WalkInv /\ Traced /\ Accounted /\ (Apart => Cycled))
<1>1. ASSUME TraceInv, Apart, Cycled, [SerializeNext]_serializeVars PROVE Cycled'
  <2>1. NamesApart /\ AddressesApart
    BY <1>1 DEF Apart
  <2> QED BY <1>1, <2>1, ValueCycles, VisitPlainCycles, VisitPointerCycles, VisitContainerCycles,
             IndirectCycles, EntriesCycle, CycledStutters DEF SerializeNext
<1>2. ASSUME [SerializeNext]_serializeVars, Apart' PROVE Apart
  <2>1. UNCHANGED graph
    BY <1>2 DEF SerializeNext, Value, VisitPlain, VisitPointer, VisitContainer, Indirect, Entry,
                EndEntries, serializeVars
  <2> QED BY <1>2, <2>1 DEF Apart, NamesApart, AddressesApart, Once
<1>3. TraceInv /\ (Apart => Cycled) /\ [SerializeNext]_serializeVars => (Apart => Cycled)'
  BY <1>1, <1>2
<1>4. TraceInv <=> WalkInv /\ Traced /\ Accounted
  BY DEF TraceInv
<1> QED
  BY <1>3, <1>4, CycledInitially, TraceInvariance, PTL DEF SerializeSpec

(***************************************************************************)
(* What a finished dump reports as [cycle], also where it is only a second *)
(* pointer to the same value, it shows at another place: the value itself, *)
(* or its type when that place is at the depth limit (dump.go value,       *)
(* fieldValue) -- of a value in which no entries of a map share a name and *)
(* no two values pointed to share an address.                              *)
(***************************************************************************)
THEOREM CyclesAreShown == SerializeSpec => []CyclesShownElsewhere
<1>1. WalkInv /\ Traced /\ Accounted /\ (Apart => Cycled) => CyclesShownElsewhere
  <2> SUFFICES ASSUME WalkInv, Cycled, Done, NamesApart, NEW o \in Shows({"[cycle]"}),
                      NEW u \in Real, u.path = o.path, u.node # Nil
               PROVE  \E v \in Real, p \in Shows({"container", "leaf", "type"}) :
                          v.node = u.node /\ p.path = v.path
    BY DEF CyclesShownElsewhere, Apart
  <2>1. PICK n \in Met : Place(n, o.path) \in Real
    BY DEF Cycled
  <2>2. u.node = Behind(graph, n)
    <3>1. graph \in Graphs /\ limits \in Limits /\ limits.maxDepth \in Nat
      BY DepthsNatural DEF WalkInv
    <3>2. PICK w \in Real : w = Place(n, o.path)
      BY <2>1
    <3>3. w.path = u.path /\ w.node = Behind(graph, n)
      BY <3>2 DEF Place
    <3>4. u \in Named
      BY <3>1, AllNamed
    <3>5. Under(w.path, u.path)
      <4>1. u \in Places
        BY <3>1, Unfolds DEF Real
      <4> QED BY <3>3, <4>1, UnderOrder DEF Places, Labels
    <3>6. w = u
      BY <3>1, <3>3, <3>4, <3>5, NamedOnce
    <3> QED BY <3>3, <3>6
  <2>3. ~Leading(n) /\ ~Cut
    BY DEF Done, Leading, Cut, Shows
  <2>4. ShownFor(n)
    BY <2>1, <2>2, <2>3 DEF Cycled
  <2> QED BY <2>2, <2>4 DEF ShownFor
<1> QED
  BY <1>1, CycleInvariance, PTL

=============================================================================
