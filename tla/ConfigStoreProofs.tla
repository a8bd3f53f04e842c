-------------------------- MODULE ConfigStoreProofs --------------------------
(***************************************************************************)
(* Proofs about ConfigStore, for any sets of levels, rules, edits, updaters *)
(* and readers and any bound on updates.                                   *)
(*                                                                         *)
(* The argument is one of ownership.  Between UpdateLoad and UpdateStore a  *)
(* call owns the address in its new: it is allocated, not published, and   *)
(* no other call in progress has it.  UpdateApply and UpdatePanic write    *)
(* only there, so nothing published is ever written.                       *)
(***************************************************************************)
EXTENDS ConfigStore, TLAPS

\* Every struct has the maps that were allocated with it.
OwnMaps == \A i \in Addr : heap[i].maps = i

\* What is or was in force has been allocated.
PublishedAllocated ==
    /\ cfgPtr \in published
    /\ \A i \in published : i < allocated

\* A call in progress started from a published Config and owns its clone.
ClonesOwned ==
    /\ \A p \in Updaters :
          pc[p] # "idle" => /\ old[p] \in published
                            /\ new[p] < allocated
                            /\ new[p] \notin published
    /\ \A p, q \in Updaters :
          (pc[p] # "idle" /\ pc[q] # "idle" /\ p # q) => new[p] # new[q]

\* Once fn has run, the clone is fn of what the call loaded.
ClonesApplied ==
    \A p \in Updaters :
        pc[p] = "applied" => Content(new[p]) = Apply(edit[p], Content(old[p]))

\* A snapshot is still the struct it was copied from.
SnapshotsPublished ==
    \A r \in Readers :
        /\ snap[r].maps \in published
        /\ snap[r] = heap[snap[r].maps]

StoreInv ==
    /\ TypeOK
    /\ OwnMaps
    /\ PublishedAllocated
    /\ ClonesOwned
    /\ ClonesApplied
    /\ SnapshotsPublished

\* The contents of struct i are a configuration.
LEMMA ContentInConfig ==
    ASSUME TypeOK, NEW i \in Addr
    PROVE  Content(i) \in Config
BY DEF TypeOK, Content, View, Config, Object

\* A fact about every step that writes no struct but one outside published.
LEMMA WriteElsewhere ==
    ASSUME TypeOK, OwnMaps, NEW a \in Addr,
           NEW o \in Object, o.maps = a, NEW m \in SUBSET Rules,
           heap' = [heap EXCEPT ![a] = o],
           maps' = [maps EXCEPT ![a] = m]
    PROVE  /\ heap' \in [Addr -> Object]
           /\ maps' \in [Addr -> SUBSET Rules]
           /\ OwnMaps'
           /\ heap'[a] = o
           /\ maps'[a] = m
           /\ \A i \in Addr : i # a => /\ heap'[i] = heap[i]
                                       /\ maps'[i] = maps[i]
                                       /\ Content(i)' = Content(i)
<1>1. /\ heap' \in [Addr -> Object]
      /\ maps' \in [Addr -> SUBSET Rules]
      /\ heap'[a] = o
      /\ maps'[a] = m
  BY DEF TypeOK
<1>2. \A i \in Addr : i # a => heap'[i] = heap[i] /\ maps'[i] = maps[i]
  BY DEF TypeOK
<1>3. OwnMaps'
  BY <1>1, <1>2 DEF OwnMaps, Addr
<1>4. \A i \in Addr : i # a => Content(i)' = Content(i)
  BY <1>2 DEF OwnMaps, Content, View
<1> QED
  BY <1>1, <1>2, <1>3, <1>4

\* The invariant holds of what New sets up.
LEMMA InitInv == Init => StoreInv
<1> SUFFICES ASSUME NEW c \in Config,
                    cfgPtr = 0,
                    heap = [i \in Addr |-> [level |-> c.level, maps |-> i]],
                    maps = [i \in Addr |-> c.rules],
                    allocated = 1,
                    published = {0},
                    pc = [p \in Updaters |-> "idle"],
                    edit = [p \in Updaters |-> CHOOSE e \in Edits : TRUE],
                    old = [p \in Updaters |-> 0],
                    new = [p \in Updaters |-> 0],
                    snap = [r \in Readers |-> [level |-> c.level, maps |-> 0]]
             PROVE  StoreInv
  BY DEF Init
<1>1. 0 \in Addr
  BY MaxUpdatesIsNat DEF Addr
<1>2. edit \in [Updaters -> Edits]
  BY EditsExist
<1>3. c.level \in Levels /\ c.rules \in SUBSET Rules
  BY DEF Config
<1>4. TypeOK
  BY <1>1, <1>2, <1>3, MaxUpdatesIsNat DEF TypeOK, Object
<1>5. OwnMaps /\ PublishedAllocated /\ ClonesOwned /\ ClonesApplied
  BY DEF OwnMaps, PublishedAllocated, ClonesOwned, ClonesApplied
<1>6. SnapshotsPublished
  BY <1>1 DEF SnapshotsPublished
<1> QED
  BY <1>4, <1>5, <1>6 DEF StoreInv

(***************************************************************************)
(* UpdateApply and UpdatePanic write only the clone of their own call.     *)
(***************************************************************************)
WritesClone(p) ==
    \E o \in Object, m \in SUBSET Rules :
        /\ o.maps = new[p]
        /\ heap' = [heap EXCEPT ![new[p]] = o]
        /\ maps' = [maps EXCEPT ![new[p]] = m]

\* Clone and fn write the clone's address and nothing else, and leave the
\* edit of what was loaded there.
LEMMA ApplyWritesClone ==
    ASSUME StoreInv, NEW p \in Updaters, UpdateApply(p)
    PROVE  /\ WritesClone(p)
           /\ Content(new[p])' = Apply(edit[p], Content(old[p]))
<1> DEFINE result == Apply(edit[p], Content(old[p]))
           o == [level |-> result.level, maps |-> new[p]]
<1>1. old[p] \in Addr /\ new[p] \in Addr /\ edit[p] \in Edits
  BY DEF StoreInv, TypeOK
<1>2. result \in Config
  BY <1>1, ContentInConfig, EditsAreTotal DEF StoreInv
<1>3. o \in Object /\ result.rules \in SUBSET Rules
  BY <1>1, <1>2 DEF Object, Config
<1>4. /\ heap' = [heap EXCEPT ![new[p]] = o]
      /\ maps' = [maps EXCEPT ![new[p]] = result.rules]
  <2> DEFINE obj == Clone(old[p], new[p])
  <2>1. obj.maps = new[p] /\ [obj EXCEPT !.level = result.level] = o
    BY DEF Clone
  <2> QED
    BY <2>1 DEF UpdateApply
<1>5. WritesClone(p)
  BY <1>3, <1>4 DEF WritesClone
<1>6. heap'[new[p]] = o /\ maps'[new[p]] = result.rules
  BY <1>1, <1>4 DEF StoreInv, TypeOK
<1>7. new'[p] = new[p]
  BY DEF UpdateApply
<1>8. Content(new[p])' = [level |-> result.level, rules |-> result.rules]
  BY <1>6, <1>7 DEF Content, View
<1> QED
  BY <1>2, <1>5, <1>8 DEF Config

\* A panic of fn may leave the clone half edited, and nothing else.
LEMMA PanicWritesClone ==
    ASSUME StoreInv, NEW p \in Updaters, UpdatePanic(p)
    PROVE  WritesClone(p)
<1> DEFINE before == Content(old[p])
           result == Apply(edit[p], before)
<1>1. old[p] \in Addr /\ new[p] \in Addr /\ edit[p] \in Edits
  BY DEF StoreInv, TypeOK
<1>2. before \in Config /\ result \in Config
  BY <1>1, ContentInConfig, EditsAreTotal DEF StoreInv
<1>3. PICK l \in {before.level, result.level} :
         heap' = [heap EXCEPT ![new[p]] = [level |-> l, maps |-> new[p]]]
  BY DEF UpdatePanic, Clone
<1>4. PICK m \in {before.rules, result.rules} :
         maps' = [maps EXCEPT ![new[p]] = m]
  BY DEF UpdatePanic, Clone
<1>5. [level |-> l, maps |-> new[p]] \in Object /\ m \in SUBSET Rules
  BY <1>1, <1>2 DEF Object, Config
<1> QED
  BY <1>3, <1>4, <1>5 DEF WritesClone

\* Writing an owned clone leaves every other struct as it is, in particular
\* the published ones and the clones of other calls.
LEMMA CloneWriteIsPrivate ==
    ASSUME StoreInv, NEW p \in Updaters, pc[p] # "idle", WritesClone(p)
    PROVE  /\ heap' \in [Addr -> Object]
           /\ maps' \in [Addr -> SUBSET Rules]
           /\ OwnMaps'
           /\ \A i \in Addr : i # new[p] => /\ heap'[i] = heap[i]
                                           /\ Content(i)' = Content(i)
           /\ \A i \in published : i # new[p]
<1>1. PICK o \in Object, m \in SUBSET Rules :
         /\ o.maps = new[p]
         /\ heap' = [heap EXCEPT ![new[p]] = o]
         /\ maps' = [maps EXCEPT ![new[p]] = m]
  BY DEF WritesClone
<1>2. new[p] \in Addr
  BY DEF StoreInv, TypeOK
<1>3. /\ heap' \in [Addr -> Object]
      /\ maps' \in [Addr -> SUBSET Rules]
      /\ OwnMaps'
      /\ \A i \in Addr : i # new[p] => /\ heap'[i] = heap[i]
                                      /\ Content(i)' = Content(i)
  BY <1>1, <1>2, WriteElsewhere DEF StoreInv
<1>4. \A i \in published : i # new[p]
  BY DEF StoreInv, ClonesOwned
<1> QED
  BY <1>3, <1>4

-----------------------------------------------------------------------------

\* The address a load hands out is new: no other call has it.
LEMMA LoadKeepsInv ==
    ASSUME StoreInv, NEW p \in Updaters, NEW e \in Edits, UpdateLoad(p, e)
    PROVE  StoreInv'
<1> USE DEF StoreInv
<1>1. allocated \in Addr /\ allocated' = allocated + 1
  BY MaxUpdatesIsNat DEF UpdateLoad, TypeOK, Addr
<1>2. TypeOK'
  BY <1>1, MaxUpdatesIsNat DEF UpdateLoad, TypeOK, Addr
<1>3. OwnMaps' /\ SnapshotsPublished'
  BY DEF UpdateLoad, OwnMaps, SnapshotsPublished
<1>4. PublishedAllocated'
  BY <1>1 DEF UpdateLoad, PublishedAllocated, TypeOK, Addr
<1>5. \A q \in Updaters : pc[q] # "idle" => new[q] < allocated
  BY DEF ClonesOwned
<1>6. ClonesOwned'
  <2>1. allocated \notin published /\ cfgPtr \in published
    BY <1>1 DEF PublishedAllocated, Addr
  <2>2. /\ new' = [new EXCEPT ![p] = allocated]
        /\ old' = [old EXCEPT ![p] = cfgPtr]
        /\ pc' = [pc EXCEPT ![p] = "loaded"]
        /\ published' = published
        /\ pc[p] = "idle"
    BY DEF UpdateLoad
  <2>3. \A q \in Updaters :
           pc'[q] # "idle" => /\ old'[q] \in published'
                              /\ new'[q] < allocated'
                              /\ new'[q] \notin published'
    BY <1>1, <2>1, <2>2 DEF ClonesOwned, TypeOK, Addr
  <2>4. \A q, r \in Updaters :
           (pc'[q] # "idle" /\ pc'[r] # "idle" /\ q # r) => new'[q] # new'[r]
    BY <1>1, <1>5, <2>2 DEF ClonesOwned, TypeOK, Addr
  <2> QED
    BY <2>3, <2>4 DEF ClonesOwned
<1>7. ClonesApplied'
  <2> SUFFICES ASSUME NEW q \in Updaters, pc'[q] = "applied"
               PROVE  Content(new[q])' = Apply(edit[q], Content(old[q]))'
    BY DEF ClonesApplied
  <2>1. q # p /\ pc[q] = "applied"
    BY DEF UpdateLoad, TypeOK
  <2>2. new'[q] = new[q] /\ old'[q] = old[q] /\ edit'[q] = edit[q]
    BY <2>1 DEF UpdateLoad, TypeOK
  <2>3. heap' = heap /\ maps' = maps
    BY DEF UpdateLoad
  <2> QED
    BY <2>1, <2>2, <2>3 DEF ClonesApplied, Content, View
<1> QED
  BY <1>2, <1>3, <1>4, <1>6, <1>7

\* What UpdateApply and UpdatePanic have in common.
LEMMA CloneWriteKeepsInv ==
    ASSUME StoreInv, NEW p \in Updaters, pc[p] = "loaded", WritesClone(p),
           NEW next \in {"idle", "applied"}, pc' = [pc EXCEPT ![p] = next],
           next = "applied"
               => Content(new[p])' = Apply(edit[p], Content(old[p])),
           UNCHANGED <<cfgPtr, allocated, published, edit, old, new, snap>>
    PROVE  StoreInv'
<1> USE DEF StoreInv
<1>1. /\ heap' \in [Addr -> Object]
      /\ maps' \in [Addr -> SUBSET Rules]
      /\ OwnMaps'
      /\ \A i \in Addr : i # new[p] => /\ heap'[i] = heap[i]
                                      /\ Content(i)' = Content(i)
      /\ \A i \in published : i # new[p]
  BY CloneWriteIsPrivate
<1>2. TypeOK'
  BY <1>1 DEF TypeOK
<1>3. PublishedAllocated' /\ ClonesOwned'
  BY DEF PublishedAllocated, ClonesOwned, TypeOK
<1>4. ClonesApplied'
  <2> SUFFICES ASSUME NEW q \in Updaters, pc'[q] = "applied"
               PROVE  Content(new[q])' = Apply(edit[q], Content(old[q]))'
    BY DEF ClonesApplied
  <2>1. /\ old[q] \in Addr /\ new[q] \in Addr
        /\ old'[q] = old[q] /\ new'[q] = new[q] /\ edit'[q] = edit[q]
    BY DEF TypeOK
  <2>2. old[q] \in published
    BY DEF ClonesOwned, TypeOK
  <2>3. Content(old[q])' = Content(old[q])
    BY <1>1, <2>1, <2>2 DEF Content, View
  <2>4. CASE q = p
    BY <2>1, <2>3, <2>4 DEF TypeOK
  <2>5. CASE q # p
    <3>1. pc[q] = "applied" /\ new[q] # new[p]
      BY <2>5 DEF ClonesOwned, TypeOK
    <3>2. Content(new[q])' = Content(new[q])
      BY <1>1, <2>1, <3>1 DEF Content, View
    <3> QED
      BY <2>1, <2>3, <3>1, <3>2 DEF ClonesApplied
  <2> QED
    BY <2>4, <2>5
<1>5. SnapshotsPublished'
  BY <1>1 DEF SnapshotsPublished, TypeOK
<1> QED
  BY <1>1, <1>2, <1>3, <1>4, <1>5

\* The store publishes the clone and ends its ownership.
LEMMA StoreKeepsInv ==
    ASSUME StoreInv, NEW p \in Updaters, UpdateStore(p)
    PROVE  StoreInv'
<1> USE DEF StoreInv
<1>1. /\ cfgPtr' = new[p] /\ published' = published \cup {new[p]}
      /\ pc[p] = "applied" /\ pc' = [pc EXCEPT ![p] = "idle"]
      /\ UNCHANGED <<heap, maps, allocated, edit, old, new, snap>>
  BY DEF UpdateStore
<1>2. TypeOK'
  BY <1>1 DEF TypeOK
<1>3. OwnMaps'
  BY <1>1 DEF OwnMaps
<1>4. PublishedAllocated'
  BY <1>1 DEF PublishedAllocated, ClonesOwned
<1>5. ClonesOwned'
  BY <1>1 DEF ClonesOwned, TypeOK
<1>6. ClonesApplied'
  BY <1>1 DEF ClonesApplied, TypeOK, Content, View
<1>7. SnapshotsPublished'
  BY <1>1 DEF SnapshotsPublished
<1> QED
  BY <1>2, <1>3, <1>4, <1>5, <1>6, <1>7

\* Config() takes a copy of a published struct.
LEMMA ReadKeepsInv ==
    ASSUME StoreInv, NEW r \in Readers, ReadConfig(r)
    PROVE  StoreInv'
<1> USE DEF StoreInv
<1>1. /\ snap' = [snap EXCEPT ![r] = heap[cfgPtr]]
      /\ UNCHANGED <<cfgPtr, heap, maps, allocated, published, updaterVars>>
  BY DEF ReadConfig
<1>2. TypeOK'
  BY <1>1 DEF TypeOK, updaterVars
<1>3. OwnMaps' /\ PublishedAllocated' /\ ClonesOwned'
  BY <1>1 DEF OwnMaps, PublishedAllocated, ClonesOwned, updaterVars
<1>4. ClonesApplied'
  BY <1>1 DEF ClonesApplied, Content, View, updaterVars
<1>5. SnapshotsPublished'
  BY <1>1 DEF SnapshotsPublished, OwnMaps, PublishedAllocated, TypeOK
<1> QED
  BY <1>2, <1>3, <1>4, <1>5

\* The step cases together.
LEMMA NextKeepsInv == StoreInv /\ [Next]_storeVars => StoreInv'
<1> SUFFICES ASSUME StoreInv, [Next]_storeVars
             PROVE  StoreInv'
  OBVIOUS
<1>1. ASSUME NEW p \in Updaters, NEW e \in Edits, UpdateLoad(p, e)
      PROVE  StoreInv'
  BY <1>1, LoadKeepsInv
<1>2. ASSUME NEW p \in Updaters, UpdateApply(p)
      PROVE  StoreInv'
  <2>1. WritesClone(p) /\ Content(new[p])' = Apply(edit[p], Content(old[p]))
    BY <1>2, ApplyWritesClone
  <2>2. /\ pc[p] = "loaded" /\ pc' = [pc EXCEPT ![p] = "applied"]
        /\ UNCHANGED <<cfgPtr, allocated, published, edit, old, new, snap>>
    BY <1>2 DEF UpdateApply
  <2> QED
    BY <2>1, <2>2, CloneWriteKeepsInv
<1>3. ASSUME NEW p \in Updaters, UpdatePanic(p)
      PROVE  StoreInv'
  <2>1. WritesClone(p)
    BY <1>3, PanicWritesClone
  <2>2. /\ pc[p] = "loaded" /\ pc' = [pc EXCEPT ![p] = "idle"]
        /\ UNCHANGED <<cfgPtr, allocated, published, edit, old, new, snap>>
    BY <1>3 DEF UpdatePanic
  <2> QED
    BY <2>1, <2>2, CloneWriteKeepsInv
<1>4. ASSUME NEW p \in Updaters, UpdateStore(p)
      PROVE  StoreInv'
  BY <1>4, StoreKeepsInv
<1>5. ASSUME NEW r \in Readers, ReadConfig(r)
      PROVE  StoreInv'
  BY <1>5, ReadKeepsInv
<1>6. CASE UNCHANGED storeVars
  BY <1>6 DEF storeVars, updaterVars, StoreInv, TypeOK, OwnMaps,
              PublishedAllocated, ClonesOwned, ClonesApplied,
              SnapshotsPublished, Content, View
<1> QED
  BY <1>1, <1>2, <1>3, <1>4, <1>5, <1>6 DEF Next, Update

(***************************************************************************)
(* Type correctness and the ownership argument hold in every state.        *)
(***************************************************************************)
THEOREM StoreInvariant == Spec => []StoreInv
<1>1. Init => StoreInv
  BY InitInv
<1>2. StoreInv /\ [Next]_storeVars => StoreInv'
  BY NextKeepsInv
<1> QED
  BY <1>1, <1>2, PTL DEF Spec

(***************************************************************************)
(* Every state of the store is well typed, whatever the constants.         *)
(***************************************************************************)
THEOREM TypeCorrect == Spec => []TypeOK
<1>1. StoreInv => TypeOK
  BY DEF StoreInv
<1> QED
  BY <1>1, StoreInvariant, PTL

(***************************************************************************)
(* What Config() returned stays one configuration that has been in force.  *)
(***************************************************************************)
THEOREM SnapshotsAreWhole == Spec => []SnapshotsWhole
<1>1. StoreInv => SnapshotsWhole
  BY DEF StoreInv, SnapshotsPublished, SnapshotsWhole, PublishedContents, Content
<1> QED
  BY <1>1, StoreInvariant, PTL

-----------------------------------------------------------------------------

\* No step changes the contents of a published struct.
LEMMA StepKeepsPublished ==
    ASSUME StoreInv, [Next]_storeVars
    PROVE  /\ \A i \in published : Content(i)' = Content(i)
           /\ \A i \in published : heap'[i] = heap[i]
<1> DEFINE Kept == /\ \A i \in published : Content(i)' = Content(i)
                   /\ \A i \in published : heap'[i] = heap[i]
<1> SUFFICES Kept
  OBVIOUS
<1>1. published \subseteq Addr
  BY DEF StoreInv, TypeOK
<1>2. ASSUME NEW p \in Updaters, pc[p] = "loaded", WritesClone(p)
      PROVE  Kept
  BY <1>1, <1>2, CloneWriteIsPrivate
<1>3. CASE UNCHANGED <<heap, maps>>
  BY <1>3 DEF Content, View
<1>4. ASSUME NEW p \in Updaters, UpdateApply(p)
      PROVE  Kept
  <2>1. pc[p] = "loaded" /\ WritesClone(p)
    BY <1>4, ApplyWritesClone DEF UpdateApply
  <2> QED
    BY <1>2, <2>1
<1>5. ASSUME NEW p \in Updaters, UpdatePanic(p)
      PROVE  Kept
  <2>1. pc[p] = "loaded" /\ WritesClone(p)
    BY <1>5, PanicWritesClone DEF UpdatePanic
  <2> QED
    BY <1>2, <2>1
<1>6. ASSUME NEW p \in Updaters, NEW e \in Edits, UpdateLoad(p, e)
      PROVE  Kept
  BY <1>3, <1>6 DEF UpdateLoad
<1>7. ASSUME NEW p \in Updaters, UpdateStore(p)
      PROVE  Kept
  BY <1>3, <1>7 DEF UpdateStore
<1>8. ASSUME NEW r \in Readers, ReadConfig(r)
      PROVE  Kept
  BY <1>3, <1>8 DEF ReadConfig
<1>9. CASE UNCHANGED storeVars
  BY <1>3, <1>9 DEF storeVars
<1> QED
  BY <1>4, <1>5, <1>6, <1>7, <1>8, <1>9 DEF Next, Update

(***************************************************************************)
(* Copy-on-write: a Config that was ever in force never changes again.     *)
(***************************************************************************)
THEOREM PublishedIsFrozen == Spec => PublishedFrozen
<1>1. StoreInv /\ [Next]_storeVars
        => [\A i \in published : Content(i)' = Content(i)]_storeVars
  BY StepKeepsPublished
<1> QED
  BY <1>1, StoreInvariant, PTL DEF Spec, PublishedFrozen

\* The only step that changes what is in force is a store, and it puts the
\* edit of what its call loaded there.
LEMMA StoreTakesEffect ==
    ASSUME StoreInv, NEW p \in Updaters, UpdateStore(p)
    PROVE  /\ Current' = Apply(edit[p], Content(old[p]))
           /\ PublishedContents' = PublishedContents \cup {Current'}
           /\ old[p] \in published
           /\ edit[p] \in Edits
<1>1. /\ cfgPtr' = new[p] /\ published' = published \cup {new[p]}
      /\ pc[p] = "applied" /\ heap' = heap /\ maps' = maps
  BY DEF UpdateStore
<1>2. Current' = Content(new[p])
  BY <1>1 DEF Current, Content, View
<1>3. Content(new[p]) = Apply(edit[p], Content(old[p]))
  BY <1>1 DEF StoreInv, ClonesApplied
<1>4. PublishedContents' = {Content(i) : i \in published \cup {new[p]}}
  BY <1>1 DEF PublishedContents, Content, View
<1>5. PublishedContents' = PublishedContents \cup {Content(new[p])}
  BY <1>4 DEF PublishedContents
<1>6. old[p] \in published /\ edit[p] \in Edits
  BY <1>1 DEF StoreInv, ClonesOwned, TypeOK
<1> QED
  BY <1>2, <1>3, <1>5, <1>6

\* Every other step leaves what is in force as it is.
LEMMA OtherStepsKeepCurrent ==
    ASSUME StoreInv, [Next]_storeVars,
           \A p \in Updaters : ~UpdateStore(p)
    PROVE  /\ cfgPtr' = cfgPtr
           /\ Current' = Current
           /\ PublishedContents' = PublishedContents
<1>1. cfgPtr' = cfgPtr /\ published' = published
  BY DEF Next, Update, UpdateLoad, UpdateApply, UpdatePanic, ReadConfig, storeVars
<1>2. \A i \in published : Content(i)' = Content(i)
  BY StepKeepsPublished
<1>3. cfgPtr \in published
  BY DEF StoreInv, PublishedAllocated
<1>4. Current' = Current
  BY <1>1, <1>2, <1>3 DEF Current, Content, View
<1>5. PublishedContents' = PublishedContents
  BY <1>1, <1>2 DEF PublishedContents
<1> QED
  BY <1>1, <1>4, <1>5

\* A step that ends a call is the store of that call.
LEMMA OnlyStoreEnds ==
    ASSUME StoreInv, [Next]_storeVars, NEW p \in Updaters,
           pc[p] = "applied", pc'[p] = "idle"
    PROVE  UpdateStore(p)
BY DEF StoreInv, TypeOK, Next, Update, UpdateLoad, UpdateApply, UpdatePanic,
       UpdateStore, ReadConfig, storeVars, updaterVars

(***************************************************************************)
(* An update that no other store overtook replaces the configuration in    *)
(* force by the caller's function of it.                                   *)
(***************************************************************************)
THEOREM UncontendedIsAtomic == Spec => UncontendedUpdateIsAtomic
<1> DEFINE A == \A p \in Updaters :
                   (cfgPtr = old[p] /\ pc[p] = "applied" /\ pc'[p] = "idle")
                       => Current' = Apply(edit[p], Current)
<1>1. StoreInv /\ [Next]_storeVars => A
  <2> SUFFICES ASSUME StoreInv, [Next]_storeVars, NEW p \in Updaters,
                      cfgPtr = old[p], pc[p] = "applied", pc'[p] = "idle"
               PROVE  Current' = Apply(edit[p], Current)
    OBVIOUS
  <2>1. UpdateStore(p)
    BY OnlyStoreEnds
  <2> QED
    BY <2>1, StoreTakesEffect DEF Current
<1> QED
  BY <1>1, StoreInvariant, PTL DEF Spec, UncontendedUpdateIsAtomic

-----------------------------------------------------------------------------

\* The initial configuration is the register's first.
LEMMA RegisterInit == Init => Register!Init
<1> SUFFICES ASSUME Init
             PROVE  Current \in Config /\ PublishedContents = {Current}
  BY DEF Register!Init, Register!Config, Config
<1>1. cfgPtr = 0 /\ published = {0}
  BY DEF Init
<1>2. TypeOK
  BY InitInv DEF StoreInv
<1>3. Current \in Config
  BY <1>1, <1>2, ContentInConfig DEF TypeOK, Current
<1>4. PublishedContents = {Current}
  BY <1>1 DEF PublishedContents, Current
<1> QED
  BY <1>3, <1>4

(***************************************************************************)
(* Refinement, for any updaters: the store implements the last-writer-wins *)
(* register of ConfigRegister.                                             *)
(***************************************************************************)
THEOREM ImplementsLastWriterRegister == Spec => IsLastWriterRegister
<1>1. Init => Register!Init
  BY RegisterInit
<1>2. StoreInv /\ [Next]_storeVars
        => [Register!LastWriterUpdate]_(Register!registerVars)
  <2> SUFFICES ASSUME StoreInv, [Next]_storeVars
               PROVE  [Register!LastWriterUpdate]_(Register!registerVars)
    OBVIOUS
  <2>1. ASSUME NEW p \in Updaters, UpdateStore(p)
        PROVE  Register!LastWriterUpdate
    <3>1. /\ Current' = Apply(edit[p], Content(old[p]))
          /\ PublishedContents' = PublishedContents \cup {Current'}
          /\ edit[p] \in Edits
          /\ Content(old[p]) \in PublishedContents
      BY <2>1, StoreTakesEffect DEF PublishedContents
    <3> QED
      BY <3>1 DEF Register!LastWriterUpdate, Register!Replace
  <2>2. CASE \A p \in Updaters : ~UpdateStore(p)
    BY <2>2, OtherStepsKeepCurrent DEF Register!registerVars
  <2> QED
    BY <2>1, <2>2
<1> QED
  BY <1>1, <1>2, StoreInvariant, PTL
     DEF Spec, IsLastWriterRegister, Register!LastWriterSpec

\* With one updater, what a call in progress loaded is still in force.
LoadedInForce ==
    \A p \in Updaters : pc[p] # "idle" => old[p] = cfgPtr

\* With one updater nothing is stored between its load and its store.
LEMMA LoadedStaysInForce ==
    ASSUME \A p, q \in Updaters : p = q
    PROVE  Spec => []LoadedInForce
<1>1. Init => LoadedInForce
  BY DEF Init, LoadedInForce
<1>2. StoreInv /\ LoadedInForce /\ [Next]_storeVars => LoadedInForce'
  <2> SUFFICES ASSUME StoreInv, LoadedInForce, [Next]_storeVars,
                      NEW p \in Updaters, pc'[p] # "idle"
               PROVE  old'[p] = cfgPtr'
    BY DEF LoadedInForce
  <2> QED
    BY DEF StoreInv, TypeOK, LoadedInForce, Next, Update, UpdateLoad,
           UpdateApply, UpdatePanic, UpdateStore, ReadConfig, storeVars,
           updaterVars
<1> QED
  BY <1>1, <1>2, StoreInvariant, PTL DEF Spec

(***************************************************************************)
(* Refinement, for callers that serialise their updates: the store         *)
(* implements the atomic register of ConfigRegister.                       *)
(***************************************************************************)
THEOREM ImplementsAtomicRegister ==
    ASSUME \A p, q \in Updaters : p = q
    PROVE  Spec => IsAtomicRegister
<1>1. Init => Register!Init
  BY RegisterInit
<1>2. StoreInv /\ LoadedInForce /\ [Next]_storeVars
        => [Register!AtomicUpdate]_(Register!registerVars)
  <2> SUFFICES ASSUME StoreInv, LoadedInForce, [Next]_storeVars
               PROVE  [Register!AtomicUpdate]_(Register!registerVars)
    OBVIOUS
  <2>1. ASSUME NEW p \in Updaters, UpdateStore(p)
        PROVE  Register!AtomicUpdate
    <3>1. /\ Current' = Apply(edit[p], Content(old[p]))
          /\ PublishedContents' = PublishedContents \cup {Current'}
          /\ edit[p] \in Edits
      BY <2>1, StoreTakesEffect
    <3>2. Content(old[p]) = Current
      BY <2>1 DEF LoadedInForce, UpdateStore, Current
    <3> QED
      BY <3>1, <3>2 DEF Register!AtomicUpdate, Register!Replace
  <2>2. CASE \A p \in Updaters : ~UpdateStore(p)
    BY <2>2, OtherStepsKeepCurrent DEF Register!registerVars
  <2> QED
    BY <2>1, <2>2
<1>3. Spec => []LoadedInForce
  BY LoadedStaysInForce
<1> QED
  BY <1>1, <1>2, <1>3, StoreInvariant, PTL
     DEF Spec, IsAtomicRegister, Register!AtomicSpec

=============================================================================
