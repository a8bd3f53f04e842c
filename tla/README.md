# slogx: verification development

TLA+ modules, TLC runs and TLAPS proofs for `slogx`, a Go logging library on top
of `log/slog` whose configuration can be changed while the program runs.

## The system

A `Logger` (`logger.go`) is a `*slog.Logger` and a pointer to an
`atomic.Pointer[Config]`. `New` creates the pointer; `With` and `WithGroup`
derive loggers that share it. Everything else reads the pointer without a lock:

| component | state | operations | talks to |
|---|---|---|---|
| configuration store (`logger.go`, `options.go`) | the atomic pointer; immutable-by-convention `Config` structs and their maps | `New`, `Config`, `Level`, `UpdateConfig`, `SetLevel`, `Clone` | read by all others |
| `DynamicHandler` (`handler.go`) | attributes, groups, two atomics `cachedHandler` and `cachedConfigVersion` | `Enabled`, `Handle`, `getOrBuildCachedHandler`, `WithAttrs`, `WithGroup`, `getReplaceAttr` | loads the pointer twice per record, builds slog handlers |
| level control (`control.go`) | the watcher's `last`; an HTTP server and its goroutines | `ParseLevel`, `SetLevelString`, `LevelHTTPHandler`, `ListenLevelHTTP`, `WatchLevelEnv` | `UpdateConfig`, `Config` |
| options and presets (`options.go`, `logger.go`, `removal.go`) | the initial `Config` | `With...` options, `Development`, `Production`... | run before the logger is shared |
| dump options and serializer (`dump.go`, `attr.go`) | `dumpState`: depth, field budget, visited pointers; the global `dumpCfg` | `Serialize`, `Dump...`, `WithDump...` | write option rules into the maps of the Config they were given |
| masking (`masker.go`) | none | `lookupMask`, `Mask`, `detectSecret`, `RedactAuditText` | called by handler, dump, headers, metadata |
| payloads (`payload_http.go`, `payload_grpc.go`) | the request body being replaced | `HTTPRequestWith`, `readBody`, `RestoreBody`, `sanitizeHeaders`, `sanitizeMetadata` | `Config`, dump, masking |
| context (`context.go`, `logger.go`) | the context value; the process-wide slog default | `ToContext`, `FromContext`, `SetupDefault`, `FatalContext` | builds loggers around a recovered pointer |
| stack, trace, names (`stack.go`, `trace.go`, `levels.go`) | none | attribute formatting | the Config that `Handle` loaded |

What is hard: there are no locks anywhere. Correctness rests on copy-on-write of
`Config` (a published one is never written), on the chain cache of a handler
noticing new configurations, and on updates from the HTTP endpoint, the
environment watcher and the program not undoing each other. Between any two
atomic loads or stores any goroutine may run. The recursive dumper and the
masking rules are sequential, but their budgets, visited sets and rule orders
have edge cases. `PROJECT.json` lists the hazards, each at its line with the
properties aimed at it.

What makes each component correct:

- store: published Configs are frozen; snapshots are whole; an update is its
  function of the configuration in force;
- handler: a record is rendered with one configuration; updates take effect;
  the cache converges;
- level control: an accepted PUT takes effect and is answered truthfully; the
  environment is followed; cancellation stops the watcher; shutdown drains;
- dump: option rules end with the call; it ends, within depth and budget; what
  it leaves out it says or shows elsewhere; removed keys never appear;
- masking: the same key is treated alike wherever it appears; a mask shows no
  more than it promises;
- payloads: logging a request leaves its body to the handlers behind it;
- context and derivation: `With`/`WithGroup` place attributes as slog does;
  a recovered logger controls the same configuration.

## Modules

    ConfigRegister            abstract: one configuration in force
         ^ INSTANCE (refinement)
    ConfigStore               pointer, heap of Configs, UpdateConfig in steps
         ^ EXTENDS            ^ EXTENDS           ^ EXTENDS
    DynamicHandler        LevelControl        DumpOptions
                              ^ EXTENDS
                          LevelServer

    on their own: DerivedLoggers, ContextLogger, LoggerOptions, DumpSerialize,
                  MaskRules, MaskShapes, HttpPayload

The `MC...` modules hold the definitions that give constants their values, one for
each of `ConfigStore`, `DynamicHandler`, `LevelControl`, `LevelServer`,
`DumpOptions` and `DumpSerialize`. The six other modules share no state with
anything: `MCLoggers` (`LoggerOptions`, `DerivedLoggers`, `ContextLogger`) and
`MCPayloads` (`MaskRules`, `MaskShapes`, `HttpPayload`) each put three of them
side by side, and `MCDumps` the two about dumps. There a variable `part` names the module a behaviour is one of and
the variables of the others stay as they are, so the behaviours are the union of
those of the modules, not their interleavings, which would show nothing more.
Every module is proved about: `ConfigStore`,
`DynamicHandler`, `LevelControl` and `LevelServer` in a `...Proofs` module of
their own, `DumpOptions` and `DumpSerialize` in `DumpProofs`, `MaskRules`,
`MaskShapes` and `HttpPayload` in `PayloadProofs`, `DerivedLoggers`,
`LoggerOptions` and `ContextLogger` in `LoggerProofs`. `SequenceLemmas` holds
what these need of sequences and induction. Operators marked *Mutant* in a comment are wrong versions of
the operator that follows them; no specification uses them. Each property of a
passing run has one that breaks it.

### ConfigRegister

What a logger promises of its configuration. `AtomicSpec`: every update is its
function applied to the configuration in force. `LastWriterSpec`: every update
is its function applied to *some* configuration that has been in force, so it
may undo what came in between. `past` remembers what has been in force.

### ConfigStore (`logger.go`, `options.go`)

`heap` maps addresses to `Config` structs and `maps` maps addresses to map
contents, because copying the struct (`Config()`) shares the maps and only
`Clone` makes new ones. `MaskKeys`, `RemoveKeys`, `LevelNames` and `ContextKeys`
are cloned alike and stand as one field, `rules`; `level` stands for the fields
held by value (`Format`, `Output`, limits...), which are copied the same way.

| code | action |
|---|---|
| `New` | `Init` |
| `oldCfg := l.cfgPtr.Load()` | `UpdateLoad` (also hands out the clone's address) |
| `oldCfg.Clone()`; `fn(newCfg)` | `UpdateApply`, with `Clone` |
| `fn` panics, the caller recovers | `UpdatePanic` |
| `l.cfgPtr.Store(newCfg)` | `UpdateStore` |
| `Config()`, `Level()` | `ReadConfig` |

`Clone` and `fn` are one step: they write only memory nobody else can reach
(this is `ClonesOwned` in the proof) and read a frozen Config. `fn` is
`Apply(e, c)` for an edit `e`, an operator constant. `published` is history.
The early returns for a nil logger, pointer or function change nothing and are
left out; a logger without a pointer belongs to ContextLogger below.

### DynamicHandler (`handler.go`)

Extends `ConfigStore` with handlers and log calls. A chain is named by the
address of the Config it was built from; `cachedHandler` and `cachedVersion`
are the two atomics of each handler.

| code | action |
|---|---|
| `Enabled` | `Enabled` (a record below the threshold ends there) |
| `cfg := h.cfg.Load()` | `HandleLoad` |
| `h.cachedConfigVersion.Load() == cfg` | `CheckVersion` |
| `h.cachedHandler.Load()`, nil test | `TakeCached` |
| build, `h.cachedHandler.Store` | `StoreHandler` |
| `h.cachedConfigVersion.Store` | `StoreVersion` |
| `base.Handle` | `Render` |

`Uses[c]` are the handlers goroutine `c` logs through. A handler derived later
has an empty cache that nobody has touched, so the set of handlers is fixed.

### LevelControl (`control.go`)

Extends `ConfigStore` with HTTP requests, watchers of one environment variable
and other callers of `UpdateConfig`. Level strings are records saying what they
spell and whether they are padded, the distinctions `ParseLevel` makes: it trims
for names but hands the untrimmed string to `Atoi`. A request is served once:
`BeginGet`, `BeginPut` (400 when `ParseLevel` fails) or `RefuseMethod` (405),
then the steps of `SetLevel`, then `ReadLevel` and `Answer`, the two `Config()`
calls of the response. A watcher alternates `WatchRead` (trim, compare with
`last`, parse), the steps of `SetLevel`, and the `select` (`Tick`,
`WatchReturn`). `SetEnv`, `Cancel` and `OtherUpdate` are the surroundings.
`since` is history: what has been in force since a request began, or since its
own store.

### LevelServer (`control.go`, `ListenLevelHTTP`)

Extends `LevelControl` with the server around its requests. `ServeStart` and
`ServeReturn` are the goroutine in `srv.Serve`, `Shutdown("ctx")` and what
follows the goroutine that waits for ctx, `Shutdown("user")` the function the
caller got. `http.Server` is external and modelled by what the code relies on:
`Shutdown` closes a listener that `Serve` has registered and marks the server;
`Serve` on a marked server returns at once and closes its listener; `Shutdown`
returns without an error when `Serve` has returned and no request is open, with
one at its deadline. A handler that waits for its body for ever is one that takes
no step. Requests go through `Handler`, which is `Serve` of `LevelControl`
behind an accepted connection; `Elsewhere` is other code that calls
`UpdateConfig` meanwhile.

### DumpOptions (`dump.go`, `attr.go`)

Extends `ConfigStore` with goroutines that dump. `newDumpState` takes the maps of
a Config by reference: those in force (`DumpWithLogger`), those of the global
Config (`DumpWithGlobal`), or new ones (`DumpWithDefaults`). Each option writes
its entries there one at a time (`WriteOption`), then the walk reads them
(`Walk` to `Finish`). `SetGlobalDumpConfig` installs a snapshot. A map entry is a
key and a type, so that writing a key replaces its type.

The properties of `ConfigStore` that rest on frozen maps, `PublishedFrozen`,
`SnapshotsWhole` and `UncontendedUpdateIsAtomic`, do not carry over to programs
that dump with options (`dump_leak`). What carries over is who owns which
address, and that keys are only ever added.

### DerivedLoggers (`handler.go`, `trace.go`, `stack.go`)

A handler is two slices into `mem`, so that sharing a backing array is possible:
`WithAttrs` and `WithGroup` extend them with `Extend`. `Chain(h)` is what
`getOrBuildCachedHandler` builds, attributes with the groups open around them,
and `AsDerived(h)` what slog promises, from the history `ops`. `Handle` adds the
attributes of `addContextAttrs`, `appendTraceAttrs` and `appendStackAttr`; a
stack is a sequence of frames by their origin, cut at the depth and then
filtered, as `stackTrace` does.

### DumpSerialize (`dump.go`)

The recursion of `value` and `fieldValue` over an object graph is a worklist
`todo`; a step is one call (`Value`, `VisitPlain`, `VisitPointer`,
`VisitContainer`), one turn of the loop of `indirect` (`Indirect`), one entry of a
struct, map or slice (`Entry`), or the end of a budget (`Truncate`). `fields` and
`visited` are those of the `dumpState`. `out` collects what the result shows and
under which path.

An entry carries the name it is shown under. `mapValue` names keys that are not
strings by their type (`dump.go:251`), so entries of one map may share a name; an
entry then takes the place of the one before it (`Overwrite`). A value carries the
address `at` that a pointer to it holds and that `pointerKey` asks `visited` for
(`dump.go:299`): a struct shares it with its first field. A `nil` under a key that
the Masker answers nil for is shown, anything else there is not (`SkipsPaid`,
`dump.go:262`).

### MaskRules (`masker.go`, `handler.go`, `dump.go`, `payload_http.go`, `payload_grpc.go`)

`lookupMask` and `lookupRemove` on keys that are paths of words in one of three
spellings, with the normal forms of `normalizeKey`; map iteration order is a
choice. `LogAttr`, `DumpEntry`, `HTTPHeader` and `GRPCMetadata` are the four
sites with their order of removal, sensitive names, rules and detection; the same
name and value go through all four and `shown` records what each made of it, the
masks applied in order.

### MaskShapes (`masker.go`, `stack.go`)

Pure functions, one call per behaviour: what each mask keeps of a value, by
position and length; the length tests of the detection; `luhnOK` as the fold the
loop is; `itoa` at eleven bits in place of 64.

### LoggerOptions (`logger.go`, `options.go`, `masker.go`, `removal.go`, `levels.go`)

`New` folds the options over `defaultOptions`. Maps are objects of a heap, so
that a Config, a `MaskRules` builder and the package's level names may come to
share one, and a `RemovalSet` is an array and a length. `NewRemovalSet`, `Add` and
`AddRule` change the builders between calls of `New`. The presets `Default` and
`Corporate` are the lists of options they are in the code.

### HttpPayload (`payload_http.go`)

A body is what can still be read from it, a length and whether reading fails
then. `Log` is one middleware: `readBody` up to its limit, for a request
`RestoreBody`, and the dump of the payload. Of that dump the module keeps which
entries of the payload it shows: `Visited` are the sets that `mapValue` may get to,
in the order of a Go map, before the fields run out, the fields the headers take
included; `Hides` are those that show no more than a type or nothing, because of
the depth or of a rule. `Settings` sets the limit of the body and that of the dump
apart, as an option of the dump may. The handler or client then reads what is left.

### ContextLogger (`context.go`, `logger.go`)

A `Logger` is a record of the handler it logs through, the pointer its own
updates act on, and what its `exitFunc` does. `FromContext` without a logger in
the context loads slog's default twice (`FromContextAssert`, `FromContextWrap`).
`SetDefault` is slog's, called by `SetupDefault` or by other code with a handler of
its own or with one of slogx's again. `replaced` is history: it is set by every
call of `SetDefault` for whoever stands between the two loads, whichever handler
is installed, and a Logger made there is `raced`.

## Runs

| run | what it asks | result |
|---|---|---|
| `store` | two updaters, a reader, three updates: frozen, whole, atomic when not overtaken, last-writer register | holds |
| `store_overlap` | `UpdateIsAtomic` with two updaters | violated |
| `handler` | two goroutines, a shared and a private handler, one updater with two updates: atomic register, coherence of private handlers, settled caches, and under fairness convergence, threshold, private handlers | holds |
| `handler_shared` | `UpdateTakesEffect` for a shared handler | violated |
| `level_watch` | a watcher, a request, two environment changes, cancellation, under fairness: the request answered, the environment followed, the watch ended | holds |
| `level_server` | a request, other code's update, both shutdowns, cancellation, a late `Serve`: answers fresh, PUTs effective, quiet after a shutdown, the port freed, the shutdown of ctx returns | holds |
| `dumps` | two dumps with contradicting options and an update: keys named are masked, published maps only gain keys; every graph of three values, shared names and addresses included: within the limits, hidden stays hidden, nothing with a name of its own lost silently, a `[cycle]` is shown elsewhere, the walk ends | holds |
| `dump_leak` | `PublishedFrozen` with one dump | violated |
| `payloads` | one name and value at all four sites: registered keys masked, exact rules decide, removal wins, secrets detected; every length of the masks, the Luhn test, `itoa`; bodies around every limit through two middlewares, whose dumps have fields for all of the payload or for a part | holds |
| `secret_hides` | `SecretHidesCompletely` | violated |
| `body_restored` | `BodyRestored` | violated |
| `loggers` | two loggers from any two options, three `RemovalSet`s; every tree of four handlers; two goroutines that exchange contexts while slogx or other code replaces the default | holds |

A property may have several parts that answer one question: `NeverPlain` is about
all four sites, `MasksHide` about all masks, `DigitsRight` about the two places
that reckon with digits. Type invariants are listed in a run only where they say
more than the sort of a variable (`HandlerTypeOK`: a call never holds a nil
chain); the others are proved (see Proofs).

The five violations are disagreements between the code and what it says, with
the lines under `findings` in `PROJECT.json`:

- **`store_overlap`** `UpdateConfig` "atomically updates" (`logger.go:67`) but
  loads and stores without compare-and-swap. Two goroutines load the same
  Config; the later store discards the earlier edit.
- **`handler_shared`** The chain and its version are two atomics
  (`handler.go:77-78`). One call has loaded the new Config and one the old. The
  first stores its chain, the second stores its chain over it and its version,
  the first stores the new version. Every later hit returns a chain of the old
  configuration: masks added by the last update are not applied, until another
  update happens to come.
- **`dump_leak`** The rules of a dump option are written into the maps of the
  published configuration (`dump.go:86`, `dump.go:98`): they stay in force for
  every logger after the dump. Other goroutines read those maps at the same time,
  which the Go runtime answers with a fatal error.
- **`secret_hides`** `MaskSecret` "completely hides the value" (`masker.go:26`), but
  under the corporate masker detection retypes the value first (`masker.go:190`):
  a JWT or an IBAN under a key registered as secret is masked as one, and its ends
  are shown.
- **`body_restored`** `HTTPRequestWith` "restores `http.Request.Body` for downstream
  handlers" (`README.md:120` of the repository). What it restores is what it read
  for the log, so a body longer than the limit reaches the handler cut
  (`payload_http.go:34-35`, `:141`).

The modules also hold disagreements on which no run is spent. Each follows from
the definition named, and the properties of the passing runs are worded so that
they say what holds beside it:

- `Chain`: a chain adds all attributes before it opens any group
  (`handler.go:70`), so attributes given after `WithGroup` leave the group.
- `stackTrace`: the depth counts frames of slog that are then filtered out
  (`stack.go:15`); with a small depth an error carries no stack.
- `Shown`: a pointer reached twice without a cycle is written as `[cycle]`
  (`dump.go:153`). `CyclesShownElsewhere` says what this costs: the value appears
  elsewhere, though perhaps only by its type, at the depth limit.
- `Entry`: keys of a map that are not strings are all shown under the name of their
  type (`dump.go:251`). `map[int]string{1: "a", 2: "b"}` is dumped as one entry,
  the last one walked, without a mark; in `map[int]*T{1: p, 2: p}` the `[cycle]` of
  the second overwrites the only place that showed `p`. `NothingLostSilently`
  speaks of entries whose names are their own, `CyclesShownElsewhere` of values
  without such maps.
- `VisitPointer`: a pointer is known by its address alone (`dump.go:299`). A pointer
  to a struct after one to its first field is `[cycle]`, and the struct is shown
  nowhere; `CyclesShownElsewhere` leaves values that share an address aside.
- `SkipsPaid`: entries of a map that are removed use up the field budget
  (`dump.go:245`), those of a struct do not.
- `Indirect`: the loop does not ask `visited` (`dump.go:290`), so a value of a
  type like `type P *P` that points to itself is followed for ever.
- `GRPCMetadata`: gRPC metadata masks what is to be removed
  (`payload_grpc.go:73`) and has no detection of secrets (`payload_grpc.go:87`).
- `HTTPHeader`: headers are masked twice (`payload_http.go:91`, `:72`), so their
  fingerprint is the hash of a hash.
- `maskEmail`: `@example.com` under an email key makes the log call panic
  (`masker.go:280`).
- `maskIBAN`: the check digits stay beside the country code, and a value of eight
  characters stays whole (`masker.go:323`), the one length that `MasksHide` excepts.
- `maskJWT`: a first part of up to eight bytes and a last one of up to six are shown
  whole (`masker.go:315`); `MasksHide` is about the part between them.
- `Add`: two `RemovalSet`s over one slice with spare capacity overwrite each
  other's keys (`removal.go:15`).
- `Corporate`: the preset described as fingerprinting (`logger.go:165`) is
  `Default`, which turns fingerprints off (`options.go:136`).
- `FromContextWrap`: slog's default is loaded twice (`context.go:27`, `:29`); the
  Logger may log to one handler and control another's configuration.
- `FallbackExit`: a Logger recovered by `FromContext` does not exit on Fatal
  (`context.go:29`), or panics (`context.go:31`); when the default was replaced
  between the two loads, it panics although it logs through slogx's handler.
- `ParseLevel`: `""` is not in the list of what it accepts (`control.go:17`) and is
  taken for INFO (`control.go:25`), which is what a PUT with a missing or
  undecodable level amounts to (`control.go:70`).
- `WatchRead`: `last` is what the watcher itself applied (`control.go:125`). After a
  PUT, exporting the same value again is no change and the PUT's level stays;
  `EnvLevelTakesEffect` lets go once another update replaced the level.
- `Visited`: the dump of a payload may run out of fields before `body` or
  `body_truncated` (`payload_http.go:47`). Its `...` is then all that says so, and
  `LogsHonest` takes it for that.

### Bounds

`MaxUpdates` bounds the `UpdateConfig` calls of a behaviour and with it the
addresses. Two suffice for every two-party race on the store: two that overlap,
and for the handler one call that still has the oldest Config while another has
the newest. `store` takes three, so that an update can also start from a Config
that has been replaced twice. Two thresholds and two rules distinguish a lost
level, a lost rule and a mixture of both. Two callers are what a race on the
cache takes; a third can only repeat one of their roles. In the level runs each
of `Others` makes one update, `MaxEnvChanges` bounds the environment, and
`MaxUpdates` covers every update that can then be asked for (one per request,
one per value of the environment, one per other caller), so the bound never
blocks a call and no liveness property fails or holds because of it. Updates
are finite, so "once updates stop" is the end of every behaviour.
Symmetry is not used.

- `DumpOptions`: one updater with one update gives two published configurations
  and a clone in the making beside them; two dumps with options that give one key
  two types are what a conflict takes.
- `DerivedLoggers`: four handlers contain every chain of three derivations, two
  siblings with a child, and three siblings; a shared array shows with two.
- `DumpSerialize`: three values hold every pair of the kinds in a row, a shared
  value, self-reference and cycles of length two and three, through each kind
  that can close one. Depths 2 to 4 lie below and above what the graphs reach,
  budgets of 3 and 4 are spent by some of them, 0 is none. Maps with two entries of
  one name, one of them named `...`, a `nil` under a key the Masker answers nil for,
  and a struct with the address of its first field are among the roots.
- `MaskRules`: rules on the name, on its suffixes, in a group and in spellings
  that were stored by hand; names in every spelling, padded or not.
- `MaskShapes`: lengths up to 36 pass every length at which a function changes
  (the largest is 34); cards of three and four digits stand for 13 to 19, which
  the doubling treats alike by parity.
- `LoggerOptions`: two options, since what one undoes of another is a matter of
  pairs; two loggers, since sharing is; three `RemovalSet`s, so that two can be
  derived from one.
- `HttpPayload`: limits of two, three (the default) and four bytes with bodies of
  none to six; two middlewares see a body uncut and cut. Dumps have one to six
  fields, which is room for the payload alone to room for all entries, or any
  number; headers take no fields of their own or two; entries are hidden by the
  depth or by a rule for `body` or for `body_truncated`.
- `ContextLogger`: two set-ups and a foreign logger give the default three values,
  so that it can change twice during one `FromContext`.
- `LevelServer`: one request, which can come before, during and after either
  shutdown, and one update of other code; the theorems cover more of them.

Runs of modules whose behaviours end turn off the deadlock check, because the
final state is one in which the system really stops: every request answered and
the watcher returned (`level_...`), dumps and walk done (`dumps`), the value masked
or the body read (`payloads`), as many loggers and sets made as the bounds allow
or every goroutine ended by Fatal (`loggers`). All other runs check it.

### Fairness

`FairHandlerSpec` assumes weak fairness of the steps of a log call and of an
update that have begun. None of these steps waits for another goroutine, and
the Go scheduler runs every runnable goroutine. Starting a log call or an
update is not fair: nobody has to log. `LevelFairness` adds weak fairness of a
watcher's loop, as the ticker keeps firing, and strong fairness of
`WatchReturn`: when a tick and `ctx.Done` are both ready `select` chooses
uniformly at random, so it does not refuse the second for ever.

`ServerFairness` assumes that the goroutine in `Serve` and the one that waits for
ctx are scheduled and that the timer of the latter's shutdown fires. Handlers get
no fairness, as a client may never send its body, and neither does the caller:
`CancelStopsServer` is about a handler that hangs. `FairSerializeSpec` assumes
that a dump, which waits for nobody, goes on.

## Proofs

TLAPS proves what follows for every value of the constants that meets the
assumptions named in the modules:

- the store and what extends it: edits map configurations to configurations, the
  bounds are natural numbers, the callers of `UpdateConfig` are exactly the
  requests, the watchers and the others, `SetLevel` edits the level alone, and
  the maps of dumps are none of a logger's;
- `GraphsTyped`, `DepthsNatural`, `RulesApart`: the fields of a graph hold values of
  it and a leaf has no entries, a depth is not negative (`WithDumpDepth` ignores
  what is not positive, `dump.go:64`), neither the index of a slice's element nor
  the `...` of a truncation is a key that a rule names (the code asks no rule for
  either), and the mask of a key either hides a value or drops it. Names and
  addresses of entries are free;
- `RulesAreMaps`: `MaskKeys` has one type for a spelling of a key, and no rule is
  for the empty path; `ShapeConstants`: lengths are natural numbers, a card has at
  least two digits, the smallest integer is negative;
- `FramesAssumption`, `OptionsAssumption`, `PayloadConstants`: a stack is a
  sequence of frames, the package's tables are maps from levels to labels and from
  names to types, lengths are natural numbers and limits integers.

`Keys`, `Words` and `Attrs` only give types to what is already in the graphs,
the names and the calls.

- `ConfigStoreProofs`: `TypeCorrect`, `PublishedIsFrozen`, `SnapshotsAreWhole`,
  `UncontendedIsAtomic`, `ImplementsLastWriterRegister`, and
  `ImplementsAtomicRegister` when there is at most one updater.
- `DynamicHandlerProofs`: `ImplementsStore` (log calls leave the store a
  `ConfigStore`, which lifts everything above), `HandlerTypeCorrect`,
  `PrivateCoherence`, `SettledStays`.
- `LevelControlProofs`: `ControlImplementsStore`, `LevelTypeCorrect`,
  `AnswersAreFresh`, `PutsAreEffective`.
- `LevelServerProofs`: `ServerImplementsControl` (what is proved of requests holds
  of those that come over the server), `ServerTypeCorrect`, `ShutdownIsQuiet`.
- `DumpProofs`: `DumpTypeCorrect`, `DumpsMaskTheirKeys`, `PublishedKeysOnlyGrow`
  of the options; `DumpsWithinLimits`, `DumpsHide`, `DumpsLoseNothing` and
  `CyclesAreShown` of the walk, for graphs of any size and shape, with the
  invariants `WalkInvariance`, `TraceInvariance` and `CycleInvariance` behind them.
- `PayloadProofs`: `ValuesNeverPlain`, `ExactRulesDecide`, `RemovalsWin` for any
  rules; `MasksAlwaysHide` for values of any length, `DigitsAlwaysRight` for numbers
  and integers of any size; `PayloadTypeCorrect`, `FittingBodiesArrive`,
  `LogsAreHonest` for chains of any length and dumps under any limits.
- `LoggerProofs`: `DerivedSiblings`, `DerivedPlaced`, `DerivedStack` for any tree of
  loggers; `OptionsDecided` for lists of any length, `OptionsRemovalSets` for any
  number of sets; `ContextTypeCorrect`, `LoggersControlThemselves`,
  `PanicsAreForeign`.

The inductive invariant of the store, `StoreInv`, is an ownership argument.
`PublishedFrozen` alone is not inductive: nothing in it says that the address an
update writes is unpublished. `ClonesOwned` says it: between load and store a
call has an address that is allocated, unpublished and its own; `OwnMaps` says
that a struct's maps were allocated with it, so writing them touches no other
struct; `ClonesApplied` carries what the call computed to its store;
`SnapshotsPublished` ties snapshots to published structs. The refinements map
the register to `Current` and `PublishedContents`; only `UpdateStore` changes
them (`StoreTakesEffect`, `OtherStepsKeepCurrent`).

The invariant of the handler, `HandlerInv`, says what a call through a private
handler may conclude: the two atomics agree except between the two stores
(`PrivateCacheWhole`), and a call knows its own progress (`PrivateCallKnows`).
A hit then finds the chain of its own configuration (`PrivateHitIsWhole`), since
no second call can stand between the stores. With a shared handler
`PrivateCacheWhole` is exactly what fails; `SettledStays` says how far the
damage reaches: a settled handler is unsettled only by a new update.

The invariant of level control, `LevelInv`, ties three things together: where
an actor stands and where its `UpdateConfig` stands (`CallsInStep`), what a PUT
has stored (`PutsStored`) and what a request has seen in force since it began
(`ReadsNoted`). It is inductive only together with `StoreInv`: that the Config a
PUT stored still has its level when the answer is written is `PublishedFrozen`
(`StoredPutsKept`), and that an answer which shows another Config was preceded by
a store is the freshness of a clone's address (`StoreIsFresh`). The theorem
`LevelInvariant` therefore proves both by one induction, and
`ControlImplementsStore` follows from it: a step of an actor is an update of the
store only because `CallsInStep` says that what reaches `SetLevel` is a level.

`LevelServerProofs` does not repeat any of this: `ServerSpec` implements
`LevelSpec`, and `ServerInv` adds only the server's part. `QuietAfterShutdown` is
not inductive, because a `Serve` that has not started could still accept;
`ServerInv` says that a `Shutdown` that was called has set `closing`, so that it
will not, and that after one that succeeded every accepted request is done.

`DumpInv` keeps of `StoreInv` the conjuncts about ownership and drops those about
contents, which dump options break. In their place come `RefsShared` (a dump
refers to published maps, the global ones or its own, never to a clone that is
being made, so an update overwrites nothing a dump relies on) and
`KeysAccounted` (each key an option named is in those maps or still to be
written). `KeepsKeys` states of every step what `KeysOnlyGrow` states of
published maps and includes the global ones, which the induction needs.

`PayloadInv` carries `WholeSoFar` along a chain of middlewares: while no limit has
been smaller than what was sent, the body is what was sent. What the first log
shows is `Honest` from the step that writes it on (`LogHonest`), by what `Visited`
may leave out, and behind a log the body of a request is what that log read.
`ContextInv` says of every Logger a program can get hold of that it is `Sound`;
the loggers in contexts are included because they come back through
`FromContext`. For a caller between the two loads it says that what was `seen` is
still the default unless `replaced` is set, which is what makes the Logger it
wraps next sound.

`WalkInv` answers for the walk. `WithinLimits` counts what is in the result, but
a value that is being visited has spent its field and shows nothing yet, so
`Paid` adds it; that nothing else is ever in that position is the shape of the
worklist, whose tasks below the first all range over entries (`TodoOK`). For the
depth, `TaskOK` says that a path is never longer than the depth counted for it
(pointers add to the one, not to the other), and that a container ranged over
lies above the limit, so that its entries are within. `HiddenStaysHidden` needs
no more than that no task is ever under a key with a rule, but for a `nil` under one
that the Masker answers nil for (`FreePath`).

`NothingLostSilently` speaks of a finished dump, so its invariant has to say of
every state where the rest of the value is. `Traced` places each task at an entry
of the value, and `Zone` is what the task answers for: all that lies under its
path or, while a container is ranged over, what lies under those entries left
whose names are their own (`LeftKeys`). An entry that takes the place of one with
its name discards what was under that name, which no zone has. `Accounted` says
that each entry of the value whose names are its own is `Explained` by the result
or in some zone, and that zones hold nothing that is shown and no task above them.
Each step only divides the zone of the running task (`SharedOut`) between the
tasks in its place and the entry it shows, so one lemma, `SharedOutAccounts`,
carries the invariant for all of them. `Unfolding`, which says what entries a
value has, is a recursive function of the depth; `Unfolds` and `UnfoldsAbove` get
from it, by induction on the depth, that every prefix of a path has an entry
above. `Cycled` is about `visited`: a target that is not `ShownFor` yet is met
from where the running task is (`Leading`), leads to no value, or the budget ended
before anything was shown (`Cut`). A `[cycle]` on a target that is still being led
to can only close a loop of pointers and interfaces, behind which there is no
value (`BehindLoop`). Where names and addresses are `Apart` nothing of the result
is ever overwritten (`NothingOverwritten`), so what was shown for a target stays.

`DerivedInv` strengthens `SiblingsIndependent` by saying that every slice `Lies`
in an array that exists: `Extend` only ever appends an array, so no slice of
another handler changes. `RemovalSet`s are where this fails, as `Add` may write
into spare capacity; `SetsInv` therefore speaks of the sets that never shared
their array. That `Chain`, a nested concatenation, has the attributes in place
is `FlattenSeq` of one more item; that a stack cut at its depth keeps the
caller's frames is a filter of the two halves of a cut. `OptionsInv` carries
`OptionsDecide`, the agreement of each logger with the last option of each kind
in its list, and says which maps of the heap belong to which logger. Its core is
that folding one more option over the Config of a list is the Config of the
longer list (`FoldLeft` is defined by recursion over index sets, and has to be
unfolded into that form first).

`RulesInv` says of every site what the three properties say of its outcome.
`lookupMask` tries the spellings of a key in an order and the keys of a path from
the most specific one, so the lemmas are about what a first match excludes.
`ShapesInv` needs only that a call is one of the calls, each function being proved
right for every length. `luhnOK` is a fold over positions: a sum changes by the
difference of one term when one digit changes, so a single wrong digit is found
because doubling is a permutation of the digits, and two neighbours swapped are
found, but for 0 and 9, by the difference of the two terms. `itoa` is a loop that leaves
digits from the right; by strong induction on the number, reading them back gives
it. The smallest integer is the case its negation does not cover.

`SequenceLemmas` states induction with sets: a set that holds zero, and `n + 1` with
every `n`, is all of `Nat`. In this form no operator has to be instantiated, and
what is to be shown is the set of the numbers, or sequences, it is true of.

Model-checked only:

- all liveness, which needs fairness and ENABLED and is outside the prover:
  `RebuildingStops`, `LevelTakesEffect`, `UpdateTakesEffectOnPrivate`,
  `EnvLevelTakesEffect`, `RequestsAnswered`, `WatchStops`, `CancelStopsServer`,
  `DumpEnds`.

## Not modelled

- Text: formatting, the slog handlers and their output, frames of a stack, the
  regular expressions of `detectSecret` and `RedactAuditText`, sha256.
- External: `net/http` (but see `LevelServer`), OpenTelemetry, `saferefl`; values
  `saferefl` cannot read.
- Writes to `Output`: two chains built from different Configs do not share slog's
  mutex, so lines written through them may interleave if the writer does not
  serialise them.
- Options that assign one field of their own (output, format, source, trace
  keys, context keys), the presets that only list them, and the fields they set.
- The gRPC functions around `sanitizeMetadata` and the HTTP ones around
  `readBody` and `sanitizeHeaders`: they put results into a map and keep nothing.
- In dumps: a pointer that leads to itself through pointers alone, as in
  `type P *P`, for which the loop of `indirect` does not end.
- That two unsynchronised map writes, or a write and a read, are a fatal error of
  the Go runtime: a map write of `DumpOptions` is one atomic step.
- In `DumpOptions` the walk is one interval; what it builds is `DumpSerialize`,
  which in turn takes the rules as constants, although a dump option of another
  goroutine may change them during a walk.
- `examples/` and the scripts.

Outside dump options there are no data races in the modelled part: every shared
access is atomic or to frozen memory, which is what `PublishedIsFrozen` proves.

## Plan

1. A composition of `DumpOptions` with `DynamicHandler`, so that a log call
   renders with rules a dump leaves behind.
2. `DumpSerialize` behind `Log` of `HttpPayload`, in place of `Visited` and `Hides`.
