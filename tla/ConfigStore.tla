---------------------------- MODULE ConfigStore -----------------------------
(***************************************************************************)
(* The configuration of a logger and its copy-on-write update: the         *)
(* atomic.Pointer[Config] that New creates and every derived logger shares *)
(* (logger.go), and Config.Clone (options.go).                             *)
(*                                                                         *)
(* A Config is a struct whose maps are held by reference, so copying the   *)
(* struct (what Config() hands out) shares the maps; only Clone allocates  *)
(* new ones.  Both are kept apart here: heap holds the structs and maps    *)
(* holds the map contents, each indexed by an address.  The four reference *)
(* fields (MaskKeys, RemoveKeys, LevelNames, ContextKeys) are treated      *)
(* alike by Clone and stand as one.                                        *)
(*                                                                         *)
(* UpdateConfig is three steps, because other goroutines run between them: *)
(* load the pointer, clone and run the caller's function, store.           *)
(***************************************************************************)
EXTENDS Integers

CONSTANTS
    Levels,       \* the slog.Level thresholds in use
    Rules,        \* entries the maps of a Config may hold
    Edits,        \* functions passed to UpdateConfig
    Apply(_, _),  \* Apply(e, c): what function e makes of configuration c
    Updaters,     \* goroutines that call UpdateConfig
    Readers,      \* goroutines that call Config() or Level()
    MaxUpdates    \* bound: how many UpdateConfig calls a behaviour makes

Config == [level : Levels, rules : SUBSET Rules]

ASSUME LevelsAreInts == Levels \subseteq Int
ASSUME EditsExist == Edits # {}
ASSUME EditsAreTotal == \A e \in Edits, c \in Config : Apply(e, c) \in Config
ASSUME MaxUpdatesIsNat == MaxUpdates \in Nat

\* Addresses of Config structs, in allocation order; address i also names
\* the maps that Clone allocates together with struct i.
Addr == 0 .. MaxUpdates

Object == [level : Levels, maps : Addr]

VARIABLES
    cfgPtr,       \* address in the atomic pointer l.cfgPtr
    heap,         \* heap[i]: the Config struct at i
    maps,         \* maps[i]: contents of the maps at i
    allocated,    \* addresses handed out so far are 0 .. allocated - 1
    published,    \* history: addresses that cfgPtr has held
    pc,           \* where each updater stands in UpdateConfig
    edit,         \* the function it was called with
    old,          \* its local oldCfg
    new,          \* its local newCfg
    snap          \* the struct the last Config() of each reader returned

updaterVars == <<pc, edit, old, new>>
storeVars == <<cfgPtr, heap, maps, allocated, published, updaterVars, snap>>

\* What a struct shows to whoever reads its fields now.
View(obj) == [level |-> obj.level, rules |-> maps[obj.maps]]

Content(i) == View(heap[i])

Current == Content(cfgPtr)

PublishedContents == {Content(i) : i \in published}

-----------------------------------------------------------------------------

(***************************************************************************)
(* New stores the configuration its options produced before any other      *)
(* goroutine can see the logger.  Addresses not yet handed out hold an     *)
(* arbitrary struct that nothing reads.                                    *)
(***************************************************************************)
Init ==
    \E c \in Config :
        /\ cfgPtr = 0
        /\ heap = [i \in Addr |-> [level |-> c.level, maps |-> i]]
        /\ maps = [i \in Addr |-> c.rules]
        /\ allocated = 1
        /\ published = {0}
        /\ pc = [p \in Updaters |-> "idle"]
        /\ edit = [p \in Updaters |-> CHOOSE e \in Edits : TRUE]
        /\ old = [p \in Updaters |-> 0]
        /\ new = [p \in Updaters |-> 0]
        /\ snap = [r \in Readers |-> [level |-> c.level, maps |-> 0]]

\* Mutant: fn edits the Config in place, without Clone.
UpdateLoadInPlace(p, e) ==
    /\ pc[p] = "idle"
    /\ allocated <= MaxUpdates
    /\ pc' = [pc EXCEPT ![p] = "loaded"]
    /\ edit' = [edit EXCEPT ![p] = e]
    /\ old' = [old EXCEPT ![p] = cfgPtr]
    /\ new' = [new EXCEPT ![p] = cfgPtr]
    /\ allocated' = allocated + 1
    /\ UNCHANGED <<cfgPtr, heap, maps, published, snap>>

\* oldCfg := l.cfgPtr.Load().  The address Clone will get is reserved here.
UpdateLoad(p, e) ==
    /\ pc[p] = "idle"
    /\ allocated <= MaxUpdates
    /\ pc' = [pc EXCEPT ![p] = "loaded"]
    /\ edit' = [edit EXCEPT ![p] = e]
    /\ old' = [old EXCEPT ![p] = cfgPtr]
    /\ new' = [new EXCEPT ![p] = allocated]
    /\ allocated' = allocated + 1
    /\ UNCHANGED <<cfgPtr, heap, maps, published, snap>>

\* Mutant: newCfg := *oldCfg, a struct copy that keeps the old maps.
CloneShallow(i, j) == heap[i]

\* The struct Clone returns: a copy whose maps are the new ones at j.
Clone(i, j) == [level |-> heap[i].level, maps |-> j]

\* Mutant: Clone makes new maps but does not copy the entries.
UpdateApplyEmptyMaps(p) ==
    /\ pc[p] = "loaded"
    /\ LET result == Apply(edit[p], [level |-> heap[old[p]].level, rules |-> {}])
       IN  /\ heap' = [heap EXCEPT ![new[p]] = [level |-> result.level, maps |-> new[p]]]
           /\ maps' = [maps EXCEPT ![new[p]] = result.rules]
    /\ pc' = [pc EXCEPT ![p] = "applied"]
    /\ UNCHANGED <<cfgPtr, allocated, published, edit, old, new, snap>>

\* newCfg := oldCfg.Clone(); fn(newCfg).  Clone copies the old maps into the
\* new ones, fn then writes the level and the maps of newCfg in place.
UpdateApply(p) ==
    /\ pc[p] = "loaded"
    /\ LET obj == Clone(old[p], new[p])
           result == Apply(edit[p], Content(old[p]))
       IN  /\ heap' = [heap EXCEPT ![new[p]] = [obj EXCEPT !.level = result.level]]
           /\ maps' = [maps EXCEPT ![obj.maps] = result.rules]
    /\ pc' = [pc EXCEPT ![p] = "applied"]
    /\ UNCHANGED <<cfgPtr, allocated, published, edit, old, new, snap>>

\* fn panics and its caller recovers, as net/http does for its handlers: the
\* store is never reached and newCfg is dropped with any part of fn's writes.
UpdatePanic(p) ==
    /\ pc[p] = "loaded"
    /\ LET obj == Clone(old[p], new[p])
           before == Content(old[p])
           result == Apply(edit[p], before)
       IN  /\ \E l \in {before.level, result.level} :
                heap' = [heap EXCEPT ![new[p]] = [obj EXCEPT !.level = l]]
           /\ \E m \in {before.rules, result.rules} :
                maps' = [maps EXCEPT ![obj.maps] = m]
    /\ pc' = [pc EXCEPT ![p] = "idle"]
    /\ UNCHANGED <<cfgPtr, allocated, published, edit, old, new, snap>>

\* l.cfgPtr.Store(newCfg), whatever the pointer holds by now.
UpdateStore(p) ==
    /\ pc[p] = "applied"
    /\ cfgPtr' = new[p]
    /\ published' = published \cup {new[p]}
    /\ pc' = [pc EXCEPT ![p] = "idle"]
    /\ UNCHANGED <<heap, maps, allocated, edit, old, new, snap>>

\* Config() copies the struct the pointer leads to, and with it the
\* references to the maps; Level() reads one field of it.
ReadConfig(r) ==
    /\ snap' = [snap EXCEPT ![r] = heap[cfgPtr]]
    /\ UNCHANGED <<cfgPtr, heap, maps, allocated, published, updaterVars>>

Update(p) ==
    \/ \E e \in Edits : UpdateLoad(p, e)
    \/ UpdateApply(p)
    \/ UpdatePanic(p)
    \/ UpdateStore(p)

Next ==
    \/ \E p \in Updaters : Update(p)
    \/ \E r \in Readers : ReadConfig(r)

Spec == Init /\ [][Next]_storeVars

-----------------------------------------------------------------------------

TypeOK ==
    /\ cfgPtr \in Addr
    /\ heap \in [Addr -> Object]
    /\ maps \in [Addr -> SUBSET Rules]
    /\ allocated \in 1 .. MaxUpdates + 1
    /\ published \in SUBSET Addr
    /\ pc \in [Updaters -> {"idle", "loaded", "applied"}]
    /\ edit \in [Updaters -> Edits]
    /\ old \in [Updaters -> Addr]
    /\ new \in [Updaters -> Addr]
    /\ snap \in [Readers -> Object]

(***************************************************************************)
(* Copy-on-write: a Config that has ever been reachable through the        *)
(* pointer never changes again, neither its fields nor what its maps hold. *)
(* Loggers, dump helpers and HTTP handlers read published Configs without  *)
(* a lock and rely on it (logger.go UpdateConfig, options.go Clone).       *)
(***************************************************************************)
PublishedFrozen ==
    [][\A i \in published : Content(i)' = Content(i)]_storeVars

(***************************************************************************)
(* The value Config() returned stays whole while the caller holds it: its  *)
(* fields and the maps it shares with the logger are together one          *)
(* configuration that has been in force, whatever updates run meanwhile.   *)
(***************************************************************************)
SnapshotsWhole ==
    \A r \in Readers : View(snap[r]) \in PublishedContents

(***************************************************************************)
(* An update that no other update overtook is atomic: if the pointer still *)
(* holds what UpdateConfig loaded, the store replaces the configuration in *)
(* force by the caller's function of it.                                   *)
(***************************************************************************)
UncontendedUpdateIsAtomic ==
    [][\A p \in Updaters :
          (cfgPtr = old[p] /\ pc[p] = "applied" /\ pc'[p] = "idle")
              => Current' = Apply(edit[p], Current)]_storeVars

(***************************************************************************)
(* "UpdateConfig atomically updates logger configuration" (logger.go):     *)
(* every store replaces the configuration in force by the caller's         *)
(* function of that very configuration, so no other update is undone.      *)
(***************************************************************************)
UpdateIsAtomic ==
    [][\A p \in Updaters :
          (pc[p] = "applied" /\ pc'[p] = "idle")
              => Current' = Apply(edit[p], Current)]_storeVars

\* The abstract register this store implements.
Register ==
    INSTANCE ConfigRegister WITH config <- Current, past <- PublishedContents

(***************************************************************************)
(* For any number of updaters the store is a last-writer-wins register:    *)
(* each configuration in force is an edit of one that was in force before. *)
(***************************************************************************)
IsLastWriterRegister == Register!LastWriterSpec

(***************************************************************************)
(* With updates serialised by the callers the store is an atomic           *)
(* read-modify-write register.                                             *)
(***************************************************************************)
IsAtomicRegister == Register!AtomicSpec

=============================================================================
