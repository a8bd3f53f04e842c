------------------------ MODULE DynamicHandlerProofs -------------------------
(***************************************************************************)
(* Proofs about DynamicHandler, for any callers, handlers and assignment   *)
(* of handlers to callers, over a ConfigStore with any updaters.           *)
(***************************************************************************)
EXTENDS DynamicHandler, ConfigStoreProofs

\* A call in progress uses a handler of its goroutine.
CallsUseOwn ==
    \A c \in Callers : at[c] # "idle" => via[c] \in Uses[c]

\* Of two calls in progress through a private handler, both are the same.
LEMMA PrivateCallsAlone ==
    ASSUME CallsUseOwn, NEW c \in Callers, NEW d \in Callers,
           Private(via[c]), at[c] # "idle", at[d] # "idle", via[d] = via[c]
    PROVE  c = d
BY DEF CallsUseOwn, Private

\* The two atomics of a private handler agree, except between their stores.
PrivateCacheWhole ==
    \A h \in Handlers :
        (Private(h) /\ \A c \in Callers : at[c] = "stored" => via[c] # h)
            => cachedVersion[h] = cachedHandler[h]

\* What a call through a private handler knows at each place.
PrivateCallKnows ==
    \A c \in Callers :
        Private(via[c]) =>
            /\ at[c] = "hit" => cachedVersion[via[c]] = cfg[c]
            /\ at[c] = "stored" => /\ cachedHandler[via[c]] = cfg[c]
                                   /\ base[c] = cfg[c]
            /\ at[c] = "render" => base[c] = cfg[c]

HandlerInv ==
    /\ HandlerTypeOK
    /\ CallsUseOwn
    /\ PrivateCacheWhole
    /\ PrivateCallKnows

-----------------------------------------------------------------------------

\* The invariant holds for handlers whose caches are empty.
LEMMA HandlerInitInv == HandlerInit /\ TypeOK => HandlerInv
<1> SUFFICES ASSUME HandlerInit, TypeOK
             PROVE  HandlerInv
  OBVIOUS
<1>1. 0 \in Addr
  BY MaxUpdatesIsNat DEF Addr
<1>2. /\ cachedHandler = [h \in Handlers |-> Nil]
      /\ cachedVersion = [h \in Handlers |-> Nil]
      /\ at = [c \in Callers |-> "idle"]
  BY DEF HandlerInit
<1>3. via \in [Callers -> Handlers]
  BY HandlersExist DEF HandlerInit
<1>4. level \in [Callers -> RecordLevels]
  BY RecordLevelsAreInts DEF HandlerInit
<1>5. HandlerTypeOK
  BY <1>1, <1>2, <1>3, <1>4 DEF HandlerInit, HandlerTypeOK
<1>6. CallsUseOwn /\ PrivateCacheWhole /\ PrivateCallKnows
  BY <1>2 DEF CallsUseOwn, PrivateCacheWhole, PrivateCallKnows
<1> QED
  BY <1>5, <1>6 DEF HandlerInv

\* A step of the store, or none, leaves handlers and log calls alone.
LEMMA ConfigStepKeepsInv ==
    ASSUME HandlerInv, UNCHANGED <<cacheVars, callerVars>>, TypeOK'
    PROVE  HandlerInv'
BY DEF HandlerInv, HandlerTypeOK, CallsUseOwn, PrivateCacheWhole,
       PrivateCallKnows, Private, cacheVars, callerVars

\* A new call knows nothing of the cache yet.
LEMMA EnabledKeepsInv ==
    ASSUME HandlerInv, TypeOK', NEW c \in Callers, NEW h \in Handlers,
           NEW l \in RecordLevels, Enabled(c, h, l)
    PROVE  HandlerInv'
<1> USE DEF HandlerInv
<1>1. HandlerTypeOK'
  BY DEF Enabled, HandlerTypeOK, cacheVars
<1>2. CallsUseOwn'
  BY DEF Enabled, HandlerTypeOK, CallsUseOwn
<1>3. PrivateCacheWhole'
  BY DEF Enabled, HandlerTypeOK, PrivateCacheWhole, Private, cacheVars
<1>4. PrivateCallKnows'
  BY DEF Enabled, HandlerTypeOK, PrivateCallKnows, Private, cacheVars
<1> QED
  BY <1>1, <1>2, <1>3, <1>4

\* Loading the pointer does not touch the cache.
LEMMA HandleLoadKeepsInv ==
    ASSUME HandlerInv, TypeOK', NEW c \in Callers, HandleLoad(c)
    PROVE  HandlerInv'
<1> USE DEF HandlerInv
<1>1. HandlerTypeOK'
  BY DEF HandleLoad, HandlerTypeOK, TypeOK, cacheVars
<1>2. CallsUseOwn'
  BY DEF HandleLoad, HandlerTypeOK, CallsUseOwn
<1>3. PrivateCacheWhole'
  BY DEF HandleLoad, HandlerTypeOK, PrivateCacheWhole, Private, cacheVars
<1>4. PrivateCallKnows'
  BY DEF HandleLoad, HandlerTypeOK, PrivateCallKnows, Private, cacheVars
<1> QED
  BY <1>1, <1>2, <1>3, <1>4

\* A call that found its own Config as the version knows it as such.
LEMMA CheckVersionKeepsInv ==
    ASSUME HandlerInv, TypeOK', NEW c \in Callers, CheckVersion(c)
    PROVE  HandlerInv'
<1> USE DEF HandlerInv
<1>1. HandlerTypeOK'
  BY DEF CheckVersion, HandlerTypeOK, cacheVars
<1>2. CallsUseOwn'
  BY DEF CheckVersion, HandlerTypeOK, CallsUseOwn
<1>3. PrivateCacheWhole'
  BY DEF CheckVersion, HandlerTypeOK, PrivateCacheWhole, Private, cacheVars
<1>4. PrivateCallKnows'
  BY DEF CheckVersion, HandlerTypeOK, PrivateCallKnows, Private, cacheVars
<1> QED
  BY <1>1, <1>2, <1>3, <1>4

\* A hit on a private handler finds the chain of its own configuration: no
\* other call can stand between the two stores.
LEMMA PrivateHitIsWhole ==
    ASSUME HandlerInv, NEW c \in Callers, at[c] = "hit", Private(via[c])
    PROVE  cachedHandler[via[c]] = cfg[c]
<1>1. via[c] \in Handlers
  BY DEF HandlerInv, HandlerTypeOK
<1>2. \A d \in Callers : at[d] = "stored" => via[d] # via[c]
  BY PrivateCallsAlone DEF HandlerInv
<1>3. cachedVersion[via[c]] = cachedHandler[via[c]]
  BY <1>1, <1>2 DEF HandlerInv, PrivateCacheWhole
<1> QED
  BY <1>3 DEF HandlerInv, PrivateCallKnows

\* Taking the cached chain, or going on to build one when there is none.
LEMMA TakeCachedKeepsInv ==
    ASSUME HandlerInv, TypeOK', NEW c \in Callers, TakeCached(c)
    PROVE  HandlerInv'
<1> USE DEF HandlerInv
<1> DEFINE cached == cachedHandler[via[c]]
<1>1. HandlerTypeOK'
  BY DEF TakeCached, HandlerTypeOK, cacheVars
<1>2. CallsUseOwn'
  BY DEF TakeCached, HandlerTypeOK, CallsUseOwn
<1>3. PrivateCacheWhole'
  BY DEF TakeCached, HandlerTypeOK, PrivateCacheWhole, Private, cacheVars
<1>4. PrivateCallKnows'
  <2>1. Private(via[c]) => cached = cfg[c]
    BY PrivateHitIsWhole DEF TakeCached
  <2>2. CASE cached # Nil
    BY <2>1, <2>2 DEF TakeCached, HandlerTypeOK, PrivateCallKnows, Private, cacheVars
  <2>3. CASE cached = Nil
    BY <2>3 DEF TakeCached, HandlerTypeOK, PrivateCallKnows, Private, cacheVars
  <2> QED
    BY <2>2, <2>3
<1> QED
  BY <1>1, <1>2, <1>3, <1>4

\* Between its two stores the call is the only one at a private handler.
LEMMA StoreHandlerKeepsInv ==
    ASSUME HandlerInv, TypeOK', NEW c \in Callers, StoreHandler(c)
    PROVE  HandlerInv'
<1> USE DEF HandlerInv
<1>1. HandlerTypeOK'
  BY DEF StoreHandler, HandlerTypeOK
<1>2. CallsUseOwn'
  BY DEF StoreHandler, HandlerTypeOK, CallsUseOwn
<1>3. PrivateCacheWhole'
  BY DEF StoreHandler, HandlerTypeOK, PrivateCacheWhole, Private
<1>4. PrivateCallKnows'
  <2> SUFFICES ASSUME NEW d \in Callers, Private(via[d])
               PROVE  (/\ at[d] = "hit" => cachedVersion[via[d]] = cfg[d]
                       /\ at[d] = "stored" => /\ cachedHandler[via[d]] = cfg[d]
                                              /\ base[d] = cfg[d]
                       /\ at[d] = "render" => base[d] = cfg[d])'
    BY DEF PrivateCallKnows, Private, StoreHandler
  <2>1. CASE d = c
    BY <2>1 DEF StoreHandler, HandlerTypeOK
  <2>2. CASE d # c
    <3>1. at[d] = "stored" => via[d] # via[c]
      BY <2>2, PrivateCallsAlone DEF StoreHandler
    <3> QED
      BY <2>2, <3>1 DEF StoreHandler, HandlerTypeOK, PrivateCallKnows
  <2> QED
    BY <2>1, <2>2
<1> QED
  BY <1>1, <1>2, <1>3, <1>4

\* The second store makes the two atomics of a private handler agree again.
LEMMA StoreVersionKeepsInv ==
    ASSUME HandlerInv, TypeOK', NEW c \in Callers, StoreVersion(c)
    PROVE  HandlerInv'
<1> USE DEF HandlerInv
<1>1. HandlerTypeOK'
  BY DEF StoreVersion, HandlerTypeOK
<1>2. CallsUseOwn'
  BY DEF StoreVersion, HandlerTypeOK, CallsUseOwn
<1>3. PrivateCacheWhole'
  <2> SUFFICES ASSUME NEW h \in Handlers, Private(h),
                      \A d \in Callers : at'[d] = "stored" => via[d] # h
               PROVE  cachedVersion'[h] = cachedHandler[h]
    BY DEF PrivateCacheWhole, Private, StoreVersion
  <2>1. CASE h = via[c]
    BY <2>1 DEF StoreVersion, HandlerTypeOK, PrivateCallKnows
  <2>2. CASE h # via[c]
    <3>1. \A d \in Callers : at[d] = "stored" => via[d] # h
      BY <2>2 DEF StoreVersion, HandlerTypeOK
    <3> QED
      BY <2>2, <3>1 DEF StoreVersion, HandlerTypeOK, PrivateCacheWhole
  <2> QED
    BY <2>1, <2>2
<1>4. PrivateCallKnows'
  <2> SUFFICES ASSUME NEW d \in Callers, Private(via[d])
               PROVE  (/\ at[d] = "hit" => cachedVersion[via[d]] = cfg[d]
                       /\ at[d] = "stored" => /\ cachedHandler[via[d]] = cfg[d]
                                              /\ base[d] = cfg[d]
                       /\ at[d] = "render" => base[d] = cfg[d])'
    BY DEF PrivateCallKnows, Private, StoreVersion
  <2>1. CASE d = c
    BY <2>1 DEF StoreVersion, HandlerTypeOK, PrivateCallKnows
  <2>2. CASE d # c
    <3>1. at[d] = "hit" => via[d] # via[c]
      BY <2>2, PrivateCallsAlone DEF StoreVersion
    <3> QED
      BY <2>2, <3>1 DEF StoreVersion, HandlerTypeOK, PrivateCallKnows
  <2> QED
    BY <2>1, <2>2
<1> QED
  BY <1>1, <1>2, <1>3, <1>4

\* The end of a call leaves the cache as it is.
LEMMA RenderKeepsInv ==
    ASSUME HandlerInv, TypeOK', NEW c \in Callers, Render(c)
    PROVE  HandlerInv'
<1> USE DEF HandlerInv
<1>0. 0 \in Addr
  BY MaxUpdatesIsNat DEF Addr
<1>1. HandlerTypeOK'
  BY <1>0 DEF Render, HandlerTypeOK, cacheVars
<1>2. CallsUseOwn'
  BY DEF Render, HandlerTypeOK, CallsUseOwn
<1>3. PrivateCacheWhole'
  BY DEF Render, HandlerTypeOK, PrivateCacheWhole, Private, cacheVars
<1>4. PrivateCallKnows'
  BY DEF Render, HandlerTypeOK, PrivateCallKnows, Private, cacheVars
<1> QED
  BY <1>1, <1>2, <1>3, <1>4

-----------------------------------------------------------------------------

\* Log calls never write the store: what they do to it is read.
LEMMA StepIsStoreStep == [HandlerNext]_vars => [Next]_storeVars
BY DEF HandlerNext, ConfigNext, Log, Handle, Enabled, HandleLoad, CheckVersion,
       TakeCached, StoreHandler, StoreVersion, Render, vars

(***************************************************************************)
(* Log calls, however they interleave with updates, leave the store a      *)
(* ConfigStore: all that is proved of it holds while handlers use it.      *)
(***************************************************************************)
THEOREM ImplementsStore == HandlerSpec => Spec
<1>1. HandlerInit => Init
  BY DEF HandlerInit
<1> QED
  BY <1>1, StepIsStoreStep, PTL DEF HandlerSpec, Spec

\* The step cases together.
LEMMA HandlerNextKeepsInv ==
    ASSUME HandlerInv, TypeOK', [HandlerNext]_vars
    PROVE  HandlerInv'
<1>1. CASE UNCHANGED <<cacheVars, callerVars>>
  BY <1>1, ConfigStepKeepsInv
<1>2. ASSUME NEW c \in Callers, Log(c)
      PROVE  HandlerInv'
  BY <1>2, EnabledKeepsInv, HandleLoadKeepsInv, CheckVersionKeepsInv,
     TakeCachedKeepsInv, StoreHandlerKeepsInv, StoreVersionKeepsInv,
     RenderKeepsInv DEF Log, Handle
<1> QED
  BY <1>1, <1>2 DEF HandlerNext, ConfigNext, vars

(***************************************************************************)
(* What a call may conclude from the cache of a private handler holds in   *)
(* every state.                                                            *)
(***************************************************************************)
THEOREM HandlerInvariant == HandlerSpec => []HandlerInv
<1>1. HandlerSpec => []TypeOK
  BY ImplementsStore, TypeCorrect, PTL
<1>2. HandlerInit /\ TypeOK => HandlerInv
  BY HandlerInitInv
<1>3. HandlerInv /\ TypeOK' /\ [HandlerNext]_vars => HandlerInv'
  BY HandlerNextKeepsInv
<1> QED
  BY <1>1, <1>2, <1>3, PTL DEF HandlerSpec

(***************************************************************************)
(* Every state of handlers and log calls is well typed.  In particular     *)
(* TakeCached never returns nil to a call.                                 *)
(***************************************************************************)
THEOREM HandlerTypeCorrect == HandlerSpec => []HandlerTypeOK
<1>1. HandlerInv => HandlerTypeOK
  BY DEF HandlerInv
<1> QED
  BY <1>1, HandlerInvariant, PTL

(***************************************************************************)
(* A handler that one goroutine logs through renders every record with one *)
(* configuration, for any number of goroutines, handlers and updates.      *)
(***************************************************************************)
THEOREM PrivateCoherence == HandlerSpec => []PrivateHandlersCoherent
<1>1. HandlerInv => PrivateHandlersCoherent
  BY DEF HandlerInv, PrivateCallKnows, PrivateHandlersCoherent, Coherent
<1> QED
  BY <1>1, HandlerInvariant, PTL

-----------------------------------------------------------------------------

\* No step of a log call, through h or not, unsettles h.
LEMMA SettledByStep ==
    ASSUME HandlerInv, NEW h \in Handlers, Settled(h), cfgPtr' = cfgPtr,
           NEW c \in Callers, Log(c)
    PROVE  Settled(h)'
<1> USE DEF HandlerInv, HandlerTypeOK, TypeOK
<1>1. ASSUME NEW g \in Handlers, NEW l \in RecordLevels, Enabled(c, g, l)
      PROVE  Settled(h)'
  BY <1>1 DEF Enabled, Settled, cacheVars
<1>2. CASE HandleLoad(c)
  BY <1>2 DEF HandleLoad, Settled, cacheVars
<1>3. CASE CheckVersion(c)
  BY <1>3 DEF CheckVersion, Settled, cacheVars
<1>4. CASE TakeCached(c)
  BY <1>4 DEF TakeCached, Settled, cacheVars
<1>5. CASE StoreHandler(c)
  BY <1>5 DEF StoreHandler, Settled
<1>6. CASE StoreVersion(c)
  BY <1>6 DEF StoreVersion, Settled
<1>7. CASE Render(c)
  BY <1>7 DEF Render, Settled, cacheVars
<1> QED
  BY <1>1, <1>2, <1>3, <1>4, <1>5, <1>6, <1>7 DEF Log, Handle

(***************************************************************************)
(* The cache goes wrong only around an update: a settled handler stays     *)
(* settled until the next store to the pointer.                            *)
(***************************************************************************)
THEOREM SettledStays == HandlerSpec => SettledUntilUpdate
<1>1. ASSUME HandlerInv, [HandlerNext]_vars
      PROVE  [\A h \in Handlers : (Settled(h) /\ UNCHANGED cfgPtr) => Settled(h)']_vars
  <2> SUFFICES ASSUME NEW h \in Handlers, Settled(h), UNCHANGED cfgPtr
               PROVE  Settled(h)'
    OBVIOUS
  <2>1. CASE UNCHANGED <<cacheVars, callerVars>>
    BY <2>1 DEF Settled, cacheVars, callerVars
  <2>2. ASSUME NEW c \in Callers, Log(c)
        PROVE  Settled(h)'
    BY <1>1, <2>2, SettledByStep
  <2> QED
    BY <1>1, <2>1, <2>2 DEF HandlerNext, ConfigNext, vars
<1> QED
  BY <1>1, HandlerInvariant, PTL DEF HandlerSpec, SettledUntilUpdate

=============================================================================
