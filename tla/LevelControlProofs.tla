------------------------- MODULE LevelControlProofs --------------------------
(***************************************************************************)
(* Proofs about LevelControl, for any requests, watchers and other callers *)
(* of UpdateConfig, over the invariant of ConfigStore.                     *)
(***************************************************************************)
EXTENDS LevelControl, ConfigStoreProofs

\* Where an actor stands agrees with where its UpdateConfig stands.
CallsInStep ==
    \A a \in Actors :
        /\ at[a] # "update" => pc[a] = "idle"
        /\ at[a] = "update" => /\ pc[a] \in {"loaded", "applied"}
                               /\ edit[a] = SetLevel(ParseLevel(lvlStr[a]))
        /\ at[a] \in {"set", "update"} => ParseLevel(lvlStr[a]) \in Levels

\* A request has a clone only from its update on; what it asked for is a
\* level, and once stored its Config has that level.
PutsStored ==
    \A r \in Requests :
        /\ at[r] \in {"new", "set"} => new[r] = 0
        /\ at[r] = "update" => new[r] # 0
        /\ (new[r] # 0 /\ at[r] # "update") =>
              /\ new[r] \in published
              /\ Content(new[r]).level = ParseLevel(lvlStr[r])

\* What is in force is among what has been since the request began, and so
\* is what the request has read; a PUT has read its own Config or a later one.
ReadsNoted ==
    \A r \in Requests :
        /\ at[r] \in {"set", "update", "read", "name"} => cfgPtr \in since[r]
        /\ at[r] = "name" => read[r] \in since[r]
        /\ status[r] = 200 => at[r] = "done" /\ {read[r], named[r]} \subseteq since[r]
        /\ (new[r] # 0 /\ (at[r] = "name" \/ status[r] = 200)) =>
              read[r] = new[r] \/ cfgPtr # new[r]

LevelInv ==
    /\ LevelTypeOK
    /\ CallsInStep
    /\ PutsStored
    /\ ReadsNoted

\* ParseLevel answers a level or ParseError.
LEMMA ParseLevelResult ==
    ASSUME NEW s \in String
    PROVE  ParseLevel(s) \in Levels \cup {ParseError}
BY LevelInfoIsLevel DEF ParseLevel, String

\* The string of a PUT that carries no level is one ParseLevel can be given.
LEMMA EmptyIsString == Empty \in String
BY LevelInfoIsLevel DEF Empty, String

\* strings.TrimSpace of a string is a string.
LEMMA TrimIsString ==
    ASSUME NEW s \in String
    PROVE  TrimSpace(s) \in String
BY DEF TrimSpace, String

\* Requests and watchers change the level with UpdateConfig.
LEMMA ActorsUpdate == Requests \subseteq Updaters /\ Watchers \subseteq Updaters
BY UpdatersAreTheCallers

-----------------------------------------------------------------------------

\* The invariant holds before any request is served.
LEMMA LevelInitInv ==
    ASSUME LevelInit, TypeOK
    PROVE  LevelInv
<1>1. /\ at = [a \in Actors |-> IF a \in Requests THEN "new" ELSE "apply"]
      /\ new = [p \in Updaters |-> 0]
      /\ pc = [p \in Updaters |-> "idle"]
      /\ status = [r \in Requests |-> 0]
  BY DEF LevelInit, Init
<1>2. 0 \in Addr /\ 0 \in 0 .. MaxEnvChanges
  BY MaxUpdatesIsNat, MaxEnvChangesIsNat DEF Addr
<1>3. LevelTypeOK
  <2>1. at \in [Actors -> {"new", "apply", "set", "update", "read", "name",
                           "done", "select", "returned"}]
    BY <1>1
  <2>2. lvlStr \in [Actors -> String] /\ last \in [Watchers -> String]
    BY EmptyIsString DEF LevelInit
  <2>3. /\ status \in [Requests -> {0, 200, 400, 405}]
        /\ read \in [Requests -> Addr] /\ named \in [Requests -> Addr]
        /\ since \in [Requests -> SUBSET Addr]
    BY <1>2 DEF LevelInit
  <2>4. env \in Strings /\ envChanges \in 0 .. MaxEnvChanges /\ cancelled \in BOOLEAN
    BY <1>2 DEF LevelInit
  <2> QED BY <2>1, <2>2, <2>3, <2>4 DEF LevelTypeOK
<1>4. CallsInStep
  BY <1>1, ActorsUpdate DEF CallsInStep, Actors
<1>5. PutsStored
  BY <1>1, ActorsUpdate DEF PutsStored, Actors
<1>6. ReadsNoted
  BY <1>1, ActorsUpdate DEF ReadsNoted, Actors
<1> QED
  BY <1>3, <1>4, <1>5, <1>6 DEF LevelInv

\* Every step of level control is a step of the store or leaves it alone.
LEMMA StepIsStoreStep ==
    ASSUME LevelInv, [LevelNext]_levelVars
    PROVE  [Next]_storeVars
<1> USE ActorsUpdate
<1>1. ASSUME NEW a \in Actors, SetLevelLoad(a)
      PROVE  Next
  <2>1. ParseLevel(lvlStr[a]) \in Levels
    BY <1>1 DEF SetLevelLoad, LevelInv, CallsInStep
  <2>2. SetLevel(ParseLevel(lvlStr[a])) \in Edits /\ a \in Updaters
    BY <2>1, SetLevelEdits DEF Actors
  <2> QED
    BY <1>1, <2>2 DEF SetLevelLoad, Next, Update
<1>2. ASSUME NEW a \in Actors, SetLevelApply(a)
      PROVE  Next
  BY <1>2 DEF SetLevelApply, Next, Update, Actors
<1>3. ASSUME NEW r \in Requests, PutStore(r)
      PROVE  Next
  BY <1>3 DEF PutStore, Next, Update
<1>4. ASSUME NEW w \in Watchers, WatchStore(w)
      PROVE  Next
  BY <1>4 DEF WatchStore, Next, Update
<1>5. ASSUME NEW p \in Others, OtherUpdate(p)
      PROVE  Next
  BY <1>5, UpdatersAreTheCallers DEF OtherUpdate, Next
<1>6. ASSUME NEW r \in Requests, Serve(r)
      PROVE  Next \/ UNCHANGED storeVars
  BY <1>1, <1>2, <1>3, <1>6 DEF Serve, ServeStep, BeginGet, BeginPut,
     RefuseMethod, ReadLevel, Answer, Actors
<1>7. ASSUME NEW w \in Watchers, WatchStep(w) \/ WatchReturn(w)
      PROVE  Next \/ UNCHANGED storeVars
  BY <1>1, <1>2, <1>4, <1>7 DEF WatchStep, WatchRead, Tick, WatchReturn, Actors
<1>8. ASSUME (\E t \in Strings : SetEnv(t)) \/ Cancel \/ UNCHANGED levelVars
      PROVE  UNCHANGED storeVars
  BY <1>8 DEF SetEnv, Cancel, levelVars
<1> QED
  BY <1>5, <1>6, <1>7, <1>8 DEF LevelNext

-----------------------------------------------------------------------------

\* Steps that leave the store alone.

\* A GET only notes the configuration in force.
LEMMA BeginGetKeepsInv ==
    ASSUME LevelInv, NEW r \in Requests, BeginGet(r)
    PROVE  LevelInv'
<1> USE ActorsUpdate DEF LevelInv, BeginGet, LevelTypeOK, TypeOK, Actors, storeVars,
        updaterVars, answerVars, watchVars
<1>1. LevelTypeOK'
  OBVIOUS
<1>2. CallsInStep'
  BY DEF CallsInStep
<1>3. PutsStored'
  BY DEF PutsStored, Content, View
<1>4. ReadsNoted'
  BY DEF PutsStored, ReadsNoted
<1> QED
  BY <1>1, <1>2, <1>3, <1>4

\* A PUT goes on to SetLevel only with a level.
LEMMA BeginPutKeepsInv ==
    ASSUME LevelInv, NEW r \in Requests, NEW q \in Strings \cup {Empty},
           NEW b \in Strings \cup {Empty}, BeginPut(r, q, b)
    PROVE  LevelInv'
<1> USE ActorsUpdate DEF LevelInv, LevelTypeOK, TypeOK, Actors, storeVars,
        updaterVars, watchVars
<1>1. LevelString(q, b) \in String
  BY StringsAreStrings, EmptyIsString DEF LevelString
<1>2. /\ at[r] = "new"
      /\ lvlStr' = [lvlStr EXCEPT ![r] = LevelString(q, b)]
      /\ since' = [since EXCEPT ![r] = {cfgPtr}]
      /\ UNCHANGED <<storeVars, read, named, watchVars>>
      /\ \/ /\ at' = [at EXCEPT ![r] = "done"]
            /\ status' = [status EXCEPT ![r] = 400]
         \/ /\ ParseLevel(lvlStr'[r]) # ParseError
            /\ at' = [at EXCEPT ![r] = "set"]
            /\ UNCHANGED status
  BY DEF BeginPut
<1>3. LevelTypeOK'
  BY <1>1, <1>2
<1>4. lvlStr'[r] \in String /\ ParseLevel(lvlStr'[r]) \in Levels \cup {ParseError}
  BY <1>3, ParseLevelResult
<1>5. CallsInStep'
  BY <1>2, <1>4 DEF CallsInStep
<1>6. PutsStored'
  BY <1>2 DEF PutsStored, Content, View
<1>7. ReadsNoted'
  BY <1>2 DEF PutsStored, ReadsNoted
<1> QED
  BY <1>3, <1>5, <1>6, <1>7

\* Any other method is answered 405.
LEMMA RefuseKeepsInv ==
    ASSUME LevelInv, NEW r \in Requests, RefuseMethod(r)
    PROVE  LevelInv'
<1> USE ActorsUpdate DEF LevelInv, RefuseMethod, LevelTypeOK, TypeOK, Actors, storeVars,
        updaterVars, answerVars, watchVars
<1>1. LevelTypeOK'
  OBVIOUS
<1>2. CallsInStep'
  BY DEF CallsInStep
<1>3. PutsStored'
  BY DEF PutsStored, Content, View
<1>4. ReadsNoted'
  BY DEF PutsStored, ReadsNoted
<1> QED
  BY <1>1, <1>2, <1>3, <1>4

\* The first Config() of a response.
LEMMA ReadLevelKeepsInv ==
    ASSUME LevelInv, NEW r \in Requests, ReadLevel(r)
    PROVE  LevelInv'
<1> USE ActorsUpdate DEF LevelInv, ReadLevel, LevelTypeOK, TypeOK, Actors, storeVars,
        updaterVars, watchVars
<1>1. LevelTypeOK'
  OBVIOUS
<1>2. CallsInStep'
  BY DEF CallsInStep
<1>3. PutsStored'
  BY DEF PutsStored, Content, View
<1>4. ReadsNoted'
  BY DEF ReadsNoted
<1> QED
  BY <1>1, <1>2, <1>3, <1>4

\* The second Config() of a response, and the response.
LEMMA AnswerKeepsInv ==
    ASSUME LevelInv, NEW r \in Requests, Answer(r)
    PROVE  LevelInv'
<1> USE ActorsUpdate DEF LevelInv, Answer, LevelTypeOK, TypeOK, Actors, storeVars,
        updaterVars, watchVars
<1>1. LevelTypeOK'
  OBVIOUS
<1>2. CallsInStep'
  BY DEF CallsInStep
<1>3. PutsStored'
  BY DEF PutsStored, Content, View
<1>4. ReadsNoted'
  BY DEF ReadsNoted
<1> QED
  BY <1>1, <1>2, <1>3, <1>4

\* A watcher goes on to SetLevel only with a level.
LEMMA WatchReadKeepsInv ==
    ASSUME LevelInv, NEW w \in Watchers, WatchRead(w)
    PROVE  LevelInv'
<1> USE ActorsUpdate DEF LevelInv, LevelTypeOK, TypeOK, Actors, storeVars,
        updaterVars, answerVars, watchVars
<1> DEFINE v == TrimSpace(env)
<1>1. v \in String
  BY StringsAreStrings, TrimIsString
<1>2. /\ at[w] = "apply"
      /\ lvlStr' = [lvlStr EXCEPT ![w] = v]
      /\ UNCHANGED <<storeVars, answerVars, since, watchVars>>
      /\ \/ at' = [at EXCEPT ![w] = "select"]
         \/ at' = [at EXCEPT ![w] = "set"] /\ ParseLevel(v) # ParseError
  BY DEF WatchRead
<1>3. w \notin Requests
  BY UpdatersAreTheCallers
<1> HIDE DEF v
<1>4. LevelTypeOK'
  BY <1>1, <1>2
<1>5. ParseLevel(v) \in Levels \cup {ParseError}
  BY <1>1, ParseLevelResult
<1>6. CallsInStep'
  BY <1>2, <1>5 DEF CallsInStep
<1>7. PutsStored'
  BY <1>2, <1>3 DEF PutsStored, Content, View
<1>8. ReadsNoted'
  BY <1>2, <1>3 DEF ReadsNoted
<1> QED
  BY <1>4, <1>6, <1>7, <1>8

\* Tick and WatchReturn: only the watcher's place changes.
LEMMA WatchMoveKeepsInv ==
    ASSUME LevelInv, NEW w \in Watchers, Tick(w) \/ WatchReturn(w)
    PROVE  LevelInv'
<1> USE ActorsUpdate DEF LevelInv, LevelTypeOK, TypeOK, Actors, storeVars,
        updaterVars, answerVars, watchVars
<1>1. PICK next \in {"apply", "returned"} :
         /\ at[w] = "select"
         /\ at' = [at EXCEPT ![w] = next]
         /\ UNCHANGED <<storeVars, lvlStr, answerVars, since, watchVars>>
  BY DEF Tick, WatchReturn
<1>2. w \notin Requests
  BY UpdatersAreTheCallers
<1>3. LevelTypeOK'
  BY <1>1
<1>4. CallsInStep'
  BY <1>1 DEF CallsInStep
<1>5. PutsStored'
  BY <1>1, <1>2 DEF PutsStored, Content, View
<1>6. ReadsNoted'
  BY <1>1, <1>2 DEF ReadsNoted
<1> QED
  BY <1>3, <1>4, <1>5, <1>6

\* Changes of the environment and the cancellation write no slogx state.
LEMMA SurroundingsKeepInv ==
    ASSUME LevelInv, (\E t \in Strings : SetEnv(t)) \/ Cancel \/ UNCHANGED levelVars
    PROVE  LevelInv'
<1>1. UNCHANGED <<storeVars, at, lvlStr, answerVars, since, last>>
  BY DEF SetEnv, Cancel, levelVars, controlVars, watchVars
<1>2. env' \in Strings
  BY DEF SetEnv, Cancel, levelVars, controlVars, watchVars, LevelInv, LevelTypeOK
<1>3. envChanges' \in 0 .. MaxEnvChanges
  BY MaxEnvChangesIsNat
     DEF SetEnv, Cancel, levelVars, controlVars, watchVars, LevelInv, LevelTypeOK
<1>4. cancelled' \in BOOLEAN
  <2>1. cancelled' = TRUE \/ cancelled' = cancelled
    BY DEF SetEnv, Cancel, levelVars, controlVars, watchVars
  <2> QED
    BY <2>1 DEF LevelInv, LevelTypeOK
<1>5. LevelTypeOK'
  <2>1. TypeOK'
    BY <1>1 DEF LevelInv, LevelTypeOK, TypeOK, storeVars, updaterVars
  <2> QED
    BY <1>1, <1>2, <1>3, <1>4, <2>1 DEF LevelInv, LevelTypeOK, answerVars
<1>6. CallsInStep' /\ ReadsNoted'
  BY <1>1 DEF LevelInv, CallsInStep, ReadsNoted, storeVars, updaterVars, answerVars
<1>7. PutsStored'
  BY <1>1 DEF LevelInv, PutsStored, Content, View, storeVars, updaterVars
<1> QED
  BY <1>5, <1>6, <1>7 DEF LevelInv

-----------------------------------------------------------------------------

\* Steps of an UpdateConfig.  Each is a step of the store, so that StoreInv
\* holds after it and no published Config changes.

\* The Config a PUT has stored still has the level it asked for.
LEMMA StoredPutsKept ==
    ASSUME StoreInv, [Next]_storeVars, LevelInv, NEW q \in Requests,
           new[q] # 0, at[q] # "update", new'[q] = new[q], lvlStr'[q] = lvlStr[q]
    PROVE  /\ new'[q] \in published'
           /\ Content(new[q])'.level = ParseLevel(lvlStr'[q])
<1>1. new[q] \in published /\ Content(new[q]).level = ParseLevel(lvlStr[q])
  BY DEF LevelInv, PutsStored
<1>2. Content(new[q])' = Content(new[q])
  <2>1. \A i \in published : heap'[i] = heap[i] /\ maps'[heap'[i].maps] = maps[heap[i].maps]
    BY StepKeepsPublished DEF Content, View
  <2> QED
    BY <1>1, <2>1 DEF Content, View
<1>3. published \subseteq published'
  BY DEF Next, Update, UpdateLoad, UpdateApply, UpdatePanic, UpdateStore,
         ReadConfig, storeVars
<1> QED
  BY <1>1, <1>2, <1>3

\* The load of an actor's update: it now has a clone.
LEMMA LoadKeepsLevelInv ==
    ASSUME StoreInv, StoreInv', [Next]_storeVars, LevelInv,
           NEW a \in Actors, SetLevelLoad(a)
    PROVE  LevelInv'
<1> USE ActorsUpdate DEF Actors
<1>1. /\ at[a] = "set" /\ pc[a] = "idle"
      /\ at' = [at EXCEPT ![a] = "update"]
      /\ pc' = [pc EXCEPT ![a] = "loaded"]
      /\ edit' = [edit EXCEPT ![a] = SetLevel(ParseLevel(lvlStr[a]))]
      /\ new' = [new EXCEPT ![a] = allocated]
      /\ UNCHANGED <<cfgPtr, heap, maps, published, lvlStr, answerVars, since, watchVars>>
  BY DEF SetLevelLoad, UpdateLoad
<1>2. TypeOK /\ TypeOK' /\ allocated # 0
  BY DEF StoreInv, TypeOK
<1>3. LevelTypeOK'
  BY <1>1, <1>2 DEF LevelInv, LevelTypeOK, answerVars, watchVars
<1>4. CallsInStep'
  BY <1>1, <1>2 DEF LevelInv, LevelTypeOK, TypeOK, CallsInStep
<1>5. PutsStored'
  BY <1>1, <1>2 DEF LevelInv, LevelTypeOK, TypeOK, PutsStored, Content, View
<1>6. ReadsNoted'
  BY <1>1, <1>2 DEF LevelInv, LevelTypeOK, TypeOK, PutsStored, ReadsNoted, answerVars
<1> QED
  BY <1>3, <1>4, <1>5, <1>6 DEF LevelInv

\* Cloning and editing touches no Config a request has stored.
LEMMA ApplyKeepsLevelInv ==
    ASSUME StoreInv, StoreInv', [Next]_storeVars, LevelInv,
           NEW a \in Actors, SetLevelApply(a)
    PROVE  LevelInv'
<1> USE ActorsUpdate DEF Actors
<1>1. /\ at[a] = "update" /\ pc[a] = "loaded"
      /\ pc' = [pc EXCEPT ![a] = "applied"]
      /\ UNCHANGED <<cfgPtr, published, edit, new, controlVars>>
  BY DEF SetLevelApply, UpdateApply
<1>2. TypeOK /\ TypeOK'
  BY DEF StoreInv
<1>3. LevelTypeOK'
  BY <1>1, <1>2 DEF LevelInv, LevelTypeOK, controlVars, answerVars, watchVars
<1>4. CallsInStep'
  BY <1>1, <1>2 DEF LevelInv, TypeOK, CallsInStep, controlVars
<1>5. PutsStored'
  <2>1. \A q \in Requests : (new[q] # 0 /\ at[q] # "update") =>
           /\ new'[q] \in published'
           /\ Content(new[q])'.level = ParseLevel(lvlStr'[q])
    BY <1>1, StoredPutsKept DEF controlVars
  <2> QED
    BY <1>1, <2>1 DEF LevelInv, PutsStored, controlVars
<1>6. ReadsNoted'
  BY <1>1 DEF LevelInv, ReadsNoted, controlVars, answerVars
<1> QED
  BY <1>3, <1>4, <1>5, <1>6 DEF LevelInv

\* What any store by p means for the requests: it puts in force a Config
\* that no other request has stored.
LEMMA StoreIsFresh ==
    ASSUME StoreInv, NEW p \in Updaters, UpdateStore(p)
    PROVE  /\ cfgPtr' = new[p]
           /\ cfgPtr' # cfgPtr
           /\ published' = published \cup {new[p]}
           /\ new[p] \notin published
           /\ pc[p] = "applied" /\ pc' = [pc EXCEPT ![p] = "idle"]
           /\ UNCHANGED <<heap, maps, edit, new, old>>
BY DEF StoreInv, ClonesOwned, PublishedAllocated, UpdateStore

\* The store of a PUT: its Config is published and has the level it parsed.
LEMMA PutStoreKeepsInv ==
    ASSUME StoreInv, StoreInv', [Next]_storeVars, LevelInv,
           NEW r \in Requests, PutStore(r)
    PROVE  LevelInv'
<1> USE ActorsUpdate DEF Actors
<1>1. /\ cfgPtr' = new[r]
      /\ published' = published \cup {new[r]}
      /\ new[r] \notin published
      /\ pc[r] = "applied" /\ pc' = [pc EXCEPT ![r] = "idle"]
      /\ UNCHANGED <<heap, maps, edit, new, old>>
  BY StoreIsFresh DEF PutStore
<1>2. /\ at[r] = "update"
      /\ at' = [at EXCEPT ![r] = "read"]
      /\ since' = [q \in Requests |->
                      IF q = r THEN {cfgPtr'} ELSE since[q] \cup {cfgPtr'}]
      /\ UNCHANGED <<lvlStr, answerVars, watchVars>>
  BY DEF PutStore
<1>3. TypeOK /\ TypeOK'
  BY DEF StoreInv
<1>4. LevelTypeOK'
  BY <1>1, <1>2, <1>3 DEF LevelInv, LevelTypeOK, TypeOK, answerVars, watchVars
<1>5. CallsInStep'
  BY <1>1, <1>2, <1>3 DEF LevelInv, LevelTypeOK, TypeOK, CallsInStep
<1>6. Content(new[r])'.level = ParseLevel(lvlStr'[r])
  <2> DEFINE l == ParseLevel(lvlStr[r])
  <2>1. l \in Levels /\ edit[r] = SetLevel(l)
    BY <1>2 DEF LevelInv, CallsInStep
  <2>2. Content(new[r]) = Apply(edit[r], Content(old[r]))
    BY <1>1 DEF StoreInv, ClonesApplied
  <2>3. Content(old[r]) \in Config
    BY <1>3, ContentInConfig DEF TypeOK
  <2>4. Content(new[r]) = [Content(old[r]) EXCEPT !.level = l]
    BY <2>1, <2>2, <2>3, SetLevelEdits
  <2>5. Content(new[r]).level = l
    BY <2>3, <2>4 DEF Config
  <2>6. Content(new[r])' = Content(new[r])
    BY <1>1 DEF Content, View
  <2> QED
    BY <1>2, <2>5, <2>6
<1>7. PutsStored'
  <2> SUFFICES ASSUME NEW q \in Requests
               PROVE  (/\ at[q] \in {"new", "set"} => new[q] = 0
                       /\ at[q] = "update" => new[q] # 0
                       /\ (new[q] # 0 /\ at[q] # "update") =>
                             /\ new[q] \in published
                             /\ Content(new[q]).level = ParseLevel(lvlStr[q]))'
    BY DEF PutsStored
  <2>1. CASE q = r
    BY <1>1, <1>2, <1>6, <2>1 DEF LevelInv, LevelTypeOK
  <2>2. CASE q # r
    <3>1. at'[q] = at[q] /\ new'[q] = new[q] /\ lvlStr'[q] = lvlStr[q]
      BY <1>1, <1>2, <2>2 DEF LevelInv, LevelTypeOK
    <3> QED
      BY <3>1, StoredPutsKept DEF LevelInv, PutsStored
  <2> QED
    BY <2>1, <2>2
<1>8. ReadsNoted'
  <2>1. \A q \in Requests : (new[q] # 0 /\ at[q] # "update") => new[q] # new[r]
    BY <1>1 DEF LevelInv, PutsStored
  <2> QED
    BY <1>1, <1>2, <2>1 DEF LevelInv, LevelTypeOK, ReadsNoted, answerVars
<1> QED
  BY <1>4, <1>5, <1>7, <1>8 DEF LevelInv

\* A store by a watcher or another caller, as the requests see it.
LEMMA ForeignStoreKeepsReads ==
    ASSUME StoreInv, LevelInv, NEW p \in Updaters \ Requests, UpdateStore(p),
           NoteStore, UNCHANGED answerVars,
           \A q \in Requests : at'[q] = at[q]
    PROVE  ReadsNoted'
<1>1. /\ cfgPtr' = new[p] /\ cfgPtr' # cfgPtr
      /\ new[p] \notin published /\ new' = new
  BY StoreIsFresh
<1>2. \A q \in Requests : since'[q] = since[q] \cup {cfgPtr'}
  BY <1>1 DEF NoteStore
<1>3. \A q \in Requests : (new[q] # 0 /\ at[q] # "update") => new[q] # new[p]
  BY <1>1 DEF LevelInv, PutsStored
<1> QED
  BY <1>1, <1>2, <1>3 DEF LevelInv, ReadsNoted, answerVars

\* The store of a watcher's update.
LEMMA WatchStoreKeepsInv ==
    ASSUME StoreInv, StoreInv', [Next]_storeVars, LevelInv,
           NEW w \in Watchers, WatchStore(w)
    PROVE  LevelInv'
<1> USE ActorsUpdate DEF Actors
<1>1. /\ pc[w] = "applied" /\ pc' = [pc EXCEPT ![w] = "idle"]
      /\ UNCHANGED <<edit, new>>
      /\ cfgPtr' \in Addr
  BY StoreIsFresh DEF WatchStore, StoreInv, TypeOK
<1>2. /\ at[w] = "update"
      /\ at' = [at EXCEPT ![w] = "select"]
      /\ last' = [last EXCEPT ![w] = lvlStr[w]]
      /\ UNCHANGED <<lvlStr, answerVars, env, envChanges, cancelled>>
  BY DEF WatchStore
<1>3. TypeOK /\ TypeOK' /\ w \notin Requests
  BY UpdatersAreTheCallers DEF StoreInv
<1>4. since' \in [Requests -> SUBSET Addr]
  BY <1>1 DEF WatchStore, NoteStore, LevelInv, LevelTypeOK
<1>5. LevelTypeOK'
  BY <1>2, <1>3, <1>4 DEF LevelInv, LevelTypeOK, answerVars
<1>6. CallsInStep'
  BY <1>1, <1>2, <1>3 DEF LevelInv, LevelTypeOK, TypeOK, CallsInStep
<1>7. PutsStored'
  <2>1. \A q \in Requests :
           at'[q] = at[q] /\ new'[q] = new[q] /\ lvlStr'[q] = lvlStr[q]
    BY <1>1, <1>2, <1>3 DEF LevelInv, LevelTypeOK
  <2>2. \A q \in Requests : (new[q] # 0 /\ at[q] # "update") =>
           /\ new'[q] \in published'
           /\ Content(new[q])'.level = ParseLevel(lvlStr'[q])
    BY <2>1, StoredPutsKept
  <2> QED
    BY <2>1, <2>2 DEF LevelInv, PutsStored
<1>8. ReadsNoted'
  <2>1. \A q \in Requests : at'[q] = at[q]
    BY <1>2, <1>3 DEF LevelInv, LevelTypeOK
  <2> QED
    BY <1>2, <1>3, <2>1, ForeignStoreKeepsReads DEF WatchStore
<1> QED
  BY <1>5, <1>6, <1>7, <1>8 DEF LevelInv

\* Any step of an update by another caller.
LEMMA OtherUpdateKeepsInv ==
    ASSUME StoreInv, StoreInv', [Next]_storeVars, LevelInv,
           NEW p \in Others, OtherUpdate(p)
    PROVE  LevelInv'
<1> USE ActorsUpdate DEF Actors
<1>1. UNCHANGED <<at, lvlStr, answerVars, watchVars>> /\ NoteStore /\ Update(p)
  BY DEF OtherUpdate
<1>2. p \in Updaters /\ p \notin Requests /\ p \notin Watchers
  BY UpdatersAreTheCallers
<1>3. TypeOK /\ TypeOK'
  BY DEF StoreInv
<1>4. \A a \in Actors : /\ pc'[a] = pc[a] /\ edit'[a] = edit[a]
                        /\ new'[a] = new[a]
  BY <1>1, <1>2, <1>3 DEF Update, UpdateLoad, UpdateApply, UpdatePanic,
                          UpdateStore, TypeOK
<1>5. since' \in [Requests -> SUBSET Addr]
  BY <1>1, <1>3 DEF NoteStore, LevelInv, LevelTypeOK, TypeOK
<1>6. LevelTypeOK'
  BY <1>1, <1>3, <1>5 DEF LevelInv, LevelTypeOK, answerVars, watchVars
<1>7. CallsInStep'
  BY <1>1, <1>4 DEF LevelInv, CallsInStep
<1>8. PutsStored'
  <2>1. \A q \in Requests : (new[q] # 0 /\ at[q] # "update") =>
           /\ new'[q] \in published'
           /\ Content(new[q])'.level = ParseLevel(lvlStr'[q])
    BY <1>1, <1>4, StoredPutsKept
  <2> QED
    BY <1>1, <1>4, <2>1 DEF LevelInv, PutsStored
<1>9. ReadsNoted'
  <2>1. CASE UpdateStore(p)
    BY <1>1, <1>2, <2>1, ForeignStoreKeepsReads
  <2>2. CASE ~UpdateStore(p)
    <3>1. cfgPtr' = cfgPtr
      BY <1>1, <2>2 DEF Update, UpdateLoad, UpdateApply, UpdatePanic
    <3>2. \A q \in Requests : since'[q] = since[q]
      BY <1>1, <3>1 DEF NoteStore
    <3> QED
      BY <1>1, <1>4, <3>1, <3>2 DEF LevelInv, ReadsNoted, answerVars
  <2> QED
    BY <2>1, <2>2
<1> QED
  BY <1>6, <1>7, <1>8, <1>9 DEF LevelInv

-----------------------------------------------------------------------------

\* The step cases together.
LEMMA LevelNextKeepsInv ==
    ASSUME StoreInv, StoreInv', [Next]_storeVars, LevelInv, [LevelNext]_levelVars
    PROVE  LevelInv'
<1>1. ASSUME NEW r \in Requests, Serve(r)
      PROVE  LevelInv'
  BY <1>1, BeginGetKeepsInv, BeginPutKeepsInv, RefuseKeepsInv, LoadKeepsLevelInv,
     ApplyKeepsLevelInv, PutStoreKeepsInv, ReadLevelKeepsInv, AnswerKeepsInv
     DEF Serve, ServeStep, Actors
<1>2. ASSUME NEW w \in Watchers, WatchStep(w) \/ WatchReturn(w)
      PROVE  LevelInv'
  BY <1>2, WatchReadKeepsInv, LoadKeepsLevelInv, ApplyKeepsLevelInv,
     WatchStoreKeepsInv, WatchMoveKeepsInv DEF WatchStep, Actors
<1>3. ASSUME NEW p \in Others, OtherUpdate(p)
      PROVE  LevelInv'
  BY <1>3, OtherUpdateKeepsInv
<1>4. CASE (\E t \in Strings : SetEnv(t)) \/ Cancel \/ UNCHANGED levelVars
  BY <1>4, SurroundingsKeepInv
<1> QED
  BY <1>1, <1>2, <1>3, <1>4 DEF LevelNext

(***************************************************************************)
(* The invariant of the store and that of its actors hold together in      *)
(* every state: the first gives each call a clone of its own, the second   *)
(* says what a request or a watcher knows at each point of its code.       *)
(***************************************************************************)
THEOREM LevelInvariant == LevelSpec => [](StoreInv /\ LevelInv)
<1>1. LevelInit => StoreInv /\ LevelInv
  BY InitInv, LevelInitInv DEF LevelInit, StoreInv
<1>2. StoreInv /\ LevelInv /\ [LevelNext]_levelVars => (StoreInv /\ LevelInv)'
  <2> SUFFICES ASSUME StoreInv, LevelInv, [LevelNext]_levelVars
               PROVE  StoreInv' /\ LevelInv'
    OBVIOUS
  <2>1. [Next]_storeVars
    BY StepIsStoreStep
  <2>2. StoreInv'
    BY <2>1, NextKeepsInv
  <2> QED
    BY <2>1, <2>2, LevelNextKeepsInv
<1> QED
  BY <1>1, <1>2, PTL DEF LevelSpec

(***************************************************************************)
(* Requests, watchers and other callers together leave the store a         *)
(* ConfigStore: what is proved of it holds under level control.            *)
(***************************************************************************)
THEOREM ControlImplementsStore == LevelSpec => Spec
<1>1. LevelInit => Init
  BY DEF LevelInit
<1>2. LevelInv /\ [LevelNext]_levelVars => [Next]_storeVars
  BY StepIsStoreStep
<1> QED
  BY <1>1, <1>2, LevelInvariant, PTL DEF LevelSpec, Spec

(***************************************************************************)
(* Every state of level control is well typed; in particular what reaches  *)
(* SetLevel is a level.                                                    *)
(***************************************************************************)
THEOREM LevelTypeCorrect == LevelSpec => []LevelTypeOK
<1>1. LevelInv => LevelTypeOK
  BY DEF LevelInv
<1> QED
  BY <1>1, LevelInvariant, PTL

(***************************************************************************)
(* The level and the names in an answer were in force after the request    *)
(* began and, for a PUT, not before its own level was.                     *)
(***************************************************************************)
THEOREM AnswersAreFresh == LevelSpec => []AnswersFresh
<1>1. LevelInv => AnswersFresh
  BY DEF LevelInv, ReadsNoted, AnswersFresh
<1> QED
  BY <1>1, LevelInvariant, PTL

(***************************************************************************)
(* A PUT answered with 200 has put its level in force, and shows another   *)
(* only when a later update replaced it.                                   *)
(***************************************************************************)
THEOREM PutsAreEffective == LevelSpec => []PutsTakeEffect
<1>1. LevelInv => PutsTakeEffect
  BY DEF LevelInv, ReadsNoted, PutsStored, PutsTakeEffect, IsPut
<1> QED
  BY <1>1, LevelInvariant, PTL

=============================================================================
