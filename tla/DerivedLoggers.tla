--------------------------- MODULE DerivedLoggers ---------------------------
(***************************************************************************)
(* Loggers derived with With and WithGroup, and what a record logged       *)
(* through one of them carries (logger.go, handler.go, trace.go, stack.go).*)
(*                                                                         *)
(* A handler holds two slices.  A slice is a backing array of mem, by      *)
(* index, and a length, so that two handlers may share an array: whether   *)
(* one derivation can show in another logger is decided by when arrays     *)
(* are allocated.  Handlers are only ever added to the end of the list.    *)
(***************************************************************************)
EXTENDS Integers, Sequences, SequencesExt

CONSTANTS
    Attrs,        \* attributes given to With, and those of records
    Groups,       \* group names
    Frames,       \* functions on a stack
    Configs,      \* the configurations a logger may have
    Contexts,     \* [values, span]: attribute keys with a value, OTel span
    Calls,        \* [level, attrs, frames]: log calls, frames above Handle
    LevelError,   \* slog.LevelError
    MaxHandlers   \* bound: how many handlers a behaviour derives

CONSTANT Unused   \* an array slot no slice covers

ASSUME FramesAssumption ==
    /\ \A c \in Configs : c.stackDepth \in Int
    /\ \A call \in Calls : call.frames \in Seq(Frames)

VARIABLES
    cfg,          \* the configuration of the loggers
    mem,          \* backing arrays
    handlers,     \* the DynamicHandlers, each with its two slices
    ops,          \* history: the With and WithGroup calls behind each
    logged        \* the last record: handler, context, call and output

derivedVars == <<cfg, mem, handlers, ops, logged>>

NoRecord == [handler |-> 0]

Slice(array, len) == [array |-> array, len |-> len]
Items(slice) == SubSeq(mem[slice.array], 1, slice.len)

DerivedInit ==
    /\ cfg \in Configs
    /\ mem = << <<>> >>
    /\ handlers = << [attrs |-> Slice(1, 0), groups |-> Slice(1, 0)] >>
    /\ ops = << <<>> >>
    /\ logged = NoRecord

-----------------------------------------------------------------------------

\* Mutant: append(h.attrs, attrs...), which writes into the old array when it
\* has room and otherwise allocates one with slots to spare.
ExtendAppending(slice, items) ==
    LET need == slice.len + Len(items)
        fits == need <= Len(mem[slice.array])
        full == Items(slice) \o items
    IN  IF fits
        THEN [mem |-> [mem EXCEPT ![slice.array] = full \o SubSeq(@, need + 1, Len(@))],
              slice |-> Slice(slice.array, need)]
        ELSE [mem |-> Append(mem, full \o [i \in 1 .. need |-> Unused]),
              slice |-> Slice(Len(mem) + 1, need)]

\* make([]T, len(old)+len(items)) and two copies: always a new array.
Extend(slice, items) ==
    [mem |-> Append(mem, Items(slice) \o items),
     slice |-> Slice(Len(mem) + 1, slice.len + Len(items))]

Derive(h, op, handler) ==
    /\ Len(handlers) < MaxHandlers
    /\ handlers' = Append(handlers, handler)
    /\ ops' = Append(ops, Append(ops[h], op))
    /\ UNCHANGED <<cfg, logged>>

\* With(args...): the new handler keeps the groups slice of the old one.
WithAttrs(h, attrs) ==
    LET extended == Extend(handlers[h].attrs, attrs)
    IN  /\ mem' = extended.mem
        /\ Derive(h, [kind |-> "attrs", items |-> attrs],
                  [handlers[h] EXCEPT !.attrs = extended.slice])

WithGroup(h, name) ==
    LET extended == Extend(handlers[h].groups, <<name>>)
    IN  /\ mem' = extended.mem
        /\ Derive(h, [kind |-> "group", items |-> <<name>>],
                  [handlers[h] EXCEPT !.groups = extended.slice])

\* Mutant: the groups are opened before the attributes are added.
ChainGroupsFirst(h) ==
    {<<Items(handlers[h].groups), a>> : a \in ToSet(Items(handlers[h].attrs))}

\* The rebuilt chain: base.WithAttrs(h.attrs), then one WithGroup each.
Chain(h) == {<< <<>>, a>> : a \in ToSet(Items(handlers[h].attrs))}

\* Context values under the configured keys, then the trace attributes.
traceAttrs(ctx) ==
    IF ~cfg.traceContext \/ ctx.span = "none" THEN {}
    ELSE {"trace_id", "span_id"} \cup (IF ctx.span = "sampled" THEN {"trace_sampled"} ELSE {})

ctxAttrs(ctx) == (cfg.contextKeys \cap ctx.values) \cup traceAttrs(ctx)

visible(frame) == frame \notin {"runtime", "slog", "slogx"}

\* Frames of runtime, log/slog and slogx are left out.
program(frames) ==
    FlattenSeq([i \in DOMAIN frames |-> IF visible(frames[i]) THEN <<frames[i]>> ELSE << >>])

\* Mutant: stackSkipFrames counts one frame too many.
stackTraceSkipsCaller(depth, frames) ==
    LET n == IF depth <= 0 THEN 32 ELSE depth
    IN  program(SubSeq(frames, 2, IF n < Len(frames) THEN n + 1 ELSE Len(frames)))

\* runtime.Callers fills depth program counters, which are then filtered.
stackTrace(depth, frames) ==
    LET n == IF depth <= 0 THEN 32 ELSE depth
    IN  program(SubSeq(frames, 1, IF n < Len(frames) THEN n ELSE Len(frames)))

\* The stack attribute of a record, empty when none is added.
stackAttr(call) ==
    IF cfg.stackOnError /\ call.level >= LevelError
    THEN stackTrace(cfg.stackDepth, call.frames)
    ELSE <<>>

\* Handle: the chain, the context attributes WithAttrs'ed to it, the record.
Handle(h, ctx, call) ==
    /\ logged' = [handler |-> h, ctx |-> ctx, call |-> call, stack |-> stackAttr(call),
                  out |-> Chain(h) \cup
                          {<<Items(handlers[h].groups), a>> : a \in ctxAttrs(ctx) \cup call.attrs}]
    /\ UNCHANGED <<cfg, mem, handlers, ops>>

DerivedNext ==
    \E h \in DOMAIN handlers :
        \/ \E a \in Attrs : WithAttrs(h, <<a>>)
        \/ \E g \in Groups : WithGroup(h, g)
        \/ \E ctx \in Contexts, call \in Calls : Handle(h, ctx, call)

DerivedSpec == DerivedInit /\ [][DerivedNext]_derivedVars

-----------------------------------------------------------------------------

\* What the calls of one kind among those of list were given, in call order.
GivenBy(list, kind) ==
    FlattenSeq([i \in DOMAIN list |-> IF list[i].kind = kind THEN list[i].items ELSE << >>])

Given(h, kind) == GivenBy(ops[h], kind)

(***************************************************************************)
(* Deriving one logger never changes another: whatever is derived later    *)
(* from it, its parent or its siblings, a handler holds the attributes and *)
(* groups it was given, in that order (handler.go WithAttrs, WithGroup).   *)
(***************************************************************************)
SiblingsIndependent ==
    \A h \in DOMAIN handlers : /\ Items(handlers[h].attrs) = Given(h, "attrs")
                               /\ Items(handlers[h].groups) = Given(h, "group")

\* Where slog's handlers place an attribute: inside the groups opened before.
OpenedBefore(h, i) == GivenBy(SubSeq(ops[h], 1, i - 1), "group")

AsDerived(h) ==
    UNION {{<<OpenedBefore(h, i), a>> : a \in ToSet(ops[h][i].items)} :
              i \in {j \in DOMAIN ops[h] : ops[h][j].kind = "attrs"}}

AttrsFirst(h) ==
    \A i, j \in DOMAIN ops[h] :
        (ops[h][i].kind = "group" /\ ops[h][j].kind = "attrs") => j < i

(***************************************************************************)
(* A logger whose attributes were all given before its groups logs like a  *)
(* slog logger: its attributes outside the groups, the attributes of the   *)
(* context and of the record inside all of them, none lost or added        *)
(* (handler.go Handle, getOrBuildCachedHandler).                           *)
(***************************************************************************)
PlacedWhenAttrsFirst ==
    (logged # NoRecord /\ AttrsFirst(logged.handler)) =>
        logged.out = AsDerived(logged.handler) \cup
                     {<<Given(logged.handler, "group"), a>> :
                          a \in ctxAttrs(logged.ctx) \cup logged.call.attrs}

(***************************************************************************)
(* The stack of an error starts at the innermost frame of the program that *)
(* logged it and leaves out no frame of the program but those further out  *)
(* than the configured depth (stack.go stackTrace).                        *)
(***************************************************************************)
StackFromCaller ==
    (logged # NoRecord /\ cfg.stackOnError /\ logged.call.level >= LevelError) =>
        LET all == program(logged.call.frames)
        IN  /\ IsPrefix(logged.stack, all)
            /\ \/ Len(logged.stack) = Len(all)
               \/ Len(all) - Len(logged.stack) <= Len(logged.call.frames) - cfg.stackDepth

=============================================================================
