---------------------------- MODULE LoggerProofs ----------------------------
(***************************************************************************)
(* What holds of loggers, for any attributes, groups, options and          *)
(* goroutines and any number of them: of those derived with With and       *)
(* WithGroup (DerivedLoggers), of RemovalSets and of loggers made with     *)
(* options (LoggerOptions), and of those carried in contexts               *)
(* (ContextLogger).                                                        *)
(***************************************************************************)
EXTENDS LoggerOptions, DerivedLoggers, ContextLogger, SequenceLemmas, TLAPS

\* What the backing arrays hold, and what With and WithGroup were given.
Item == Attrs \cup Groups
Slices == [array : Nat, len : Nat]
GivenCalls == [kind : {"attrs", "group"}, items : Seq(Item)]

\* Slice s covers slots of one of the arrays m, and what they hold.
Lies(m, s) == s.array \in 1 .. Len(m) /\ s.len <= Len(m[s.array])
ItemsIn(m, s) == SubSeq(m[s.array], 1, s.len)

\* The arrays and the slice Extend(s, items) returns.
Longer(m, s, items) == Append(m, ItemsIn(m, s) \o items)
LongerSlice(m, s, items) == Slice(Len(m) + 1, s.len + Len(items))

DerivedTypeOK ==
    /\ cfg \in Configs
    /\ mem \in Seq(Seq(Item))
    /\ handlers \in Seq([attrs : Slices, groups : Slices])
    /\ ops \in Seq(Seq(GivenCalls))
    /\ Len(ops) = Len(handlers)

\* The last record is what its handler still holds, and its call's stack.
LoggedOK ==
    /\ logged.handler \in DOMAIN handlers
    /\ logged.call \in Calls
    /\ logged.stack = stackAttr(logged.call)
    /\ logged.out = Chain(logged.handler) \cup
                    {<<Items(handlers[logged.handler].groups), a>> :
                         a \in ctxAttrs(logged.ctx) \cup logged.call.attrs}

(***************************************************************************)
(* The inductive invariant.  Nothing is ever written to an array once it   *)
(* is allocated, so what SiblingsIndependent says of a handler stays true  *)
(* of it, and a record goes on saying what its handler holds.              *)
(***************************************************************************)
DerivedInv ==
    /\ DerivedTypeOK
    /\ \A h \in DOMAIN handlers : /\ Lies(mem, handlers[h].attrs)
                                  /\ Lies(mem, handlers[h].groups)
    /\ SiblingsIndependent
    /\ logged = NoRecord \/ LoggedOK

-----------------------------------------------------------------------------
\* Extend leaves every slice as it was and returns one of all the items.
LEMMA ExtendAllocates ==
    ASSUME NEW m \in Seq(Seq(Item)), NEW s \in Slices, Lies(m, s), NEW items \in Seq(Item)
    PROVE  /\ Longer(m, s, items) \in Seq(Seq(Item))
           /\ LongerSlice(m, s, items) \in Slices
           /\ Lies(Longer(m, s, items), LongerSlice(m, s, items))
           /\ ItemsIn(Longer(m, s, items), LongerSlice(m, s, items)) = ItemsIn(m, s) \o items
           /\ \A u \in Slices :
                 Lies(m, u) => /\ Lies(Longer(m, s, items), u)
                               /\ ItemsIn(Longer(m, s, items), u) = ItemsIn(m, u)
<1> DEFINE full == ItemsIn(m, s) \o items
           n == Longer(m, s, items)
           t == LongerSlice(m, s, items)
<1>1. m[s.array] \in Seq(Item) /\ s.len \in 0 .. Len(m[s.array])
  BY DEF Lies, Slices
<1>2. ItemsIn(m, s) \in Seq(Item) /\ Len(ItemsIn(m, s)) = s.len
  BY <1>1 DEF ItemsIn
<1>3. full \in Seq(Item) /\ Len(full) = s.len + Len(items)
  BY <1>2, ConcatProperties
<1> HIDE DEF full
<1>4. n \in Seq(Seq(Item)) /\ Len(n) = Len(m) + 1 /\ n[Len(m) + 1] = full
      /\ \A i \in 1 .. Len(m) : n[i] = m[i]
  BY <1>3, AppendProperties DEF full, Longer
<1>5. t \in Slices /\ t = Slice(Len(m) + 1, s.len + Len(items))
  BY DEF Slices, Slice, LongerSlice
<1> HIDE DEF n, t
<1>6. Lies(n, t)
  BY <1>3, <1>4, <1>5 DEF Lies, Slice
<1>7. ItemsIn(n, t) = full
  <2>1. ItemsIn(n, t) = SubSeq(full, 1, Len(full))
    BY <1>3, <1>4, <1>5 DEF ItemsIn, Slice
  <2> QED BY <2>1, <1>3, SubSeqFull
<1>8. ASSUME NEW u \in Slices, Lies(m, u)
      PROVE  Lies(n, u) /\ ItemsIn(n, u) = ItemsIn(m, u)
  <2>1. u.array \in 1 .. Len(m) /\ u.array \in 1 .. Len(n) /\ n[u.array] = m[u.array]
    BY <1>4, <1>8 DEF Lies
  <2> QED BY <2>1, <1>8 DEF Lies, ItemsIn
<1> QED
  BY <1>4, <1>5, <1>6, <1>7, <1>8 DEF full, n, t

\* GivenBy picks items, and a further call adds its own if it is of the kind.
LEMMA GivenByItems ==
    ASSUME NEW list \in Seq(GivenCalls), NEW kind
    PROVE  [i \in DOMAIN list |-> IF list[i].kind = kind THEN list[i].items ELSE << >>]
               \in Seq(Seq(Item))
<1> DEFINE W == Seq(Item)
           e(i) == IF list[i].kind = kind THEN list[i].items ELSE << >>
<1>1. << >> \in W
  BY EmptySeq
<1>2. ASSUME NEW i \in 1 .. Len(list) PROVE e(i) \in W
  <2>1. list[i] \in GivenCalls
    OBVIOUS
  <2>2. list[i].items \in W
    BY <2>1 DEF GivenCalls
  <2> QED BY <1>1, <2>2
<1> HIDE DEF W, e
<1>3. [i \in 1 .. Len(list) |-> e(i)] \in Seq(W)
  BY <1>2
<1>4. DOMAIN list = 1 .. Len(list)
  OBVIOUS
<1> QED
  BY <1>3, <1>4, Zenon DEF W, e

LEMMA GivenByAppend ==
    ASSUME NEW list \in Seq(GivenCalls), NEW op \in GivenCalls, NEW kind
    PROVE  /\ GivenBy(list, kind) \in Seq(Item)
           /\ GivenBy(Append(list, op), kind) =
                  IF op.kind = kind THEN GivenBy(list, kind) \o op.items ELSE GivenBy(list, kind)
<1> DEFINE pick(l) == [i \in DOMAIN l |-> IF l[i].kind = kind THEN l[i].items ELSE << >>]
           x == IF op.kind = kind THEN op.items ELSE << >>
<1>1. pick(list) \in Seq(Seq(Item)) /\ x \in Seq(Item)
  <2>1. op.items \in Seq(Item) /\ << >> \in Seq(Item)
    BY EmptySeq DEF GivenCalls
  <2> QED BY <2>1, GivenByItems
<1>2. pick(Append(list, op)) = Append(pick(list), x)
  OBVIOUS
<1>3. GivenBy(list, kind) = FlattenSeq(pick(list))
  BY DEF GivenBy
<1>4. GivenBy(Append(list, op), kind) = FlattenSeq(pick(Append(list, op)))
  BY DEF GivenBy
<1> HIDE DEF pick
<1>5. FlattenSeq(Append(pick(list), x)) = FlattenSeq(pick(list)) \o x
  BY <1>1, FlattenAppend
<1>6. FlattenSeq(pick(list)) \in Seq(Item)
  BY <1>1, FlattenInSeq
<1>7. FlattenSeq(pick(list)) \o << >> = FlattenSeq(pick(list))
  BY <1>6, ConcatEmptySeq
<1> QED
  BY <1>2, <1>3, <1>4, <1>5, <1>6, <1>7

LEMMA GivenByToSet ==
    ASSUME NEW list \in Seq(GivenCalls), NEW kind
    PROVE  ToSet(GivenBy(list, kind)) =
               UNION {ToSet(list[i].items) : i \in {j \in DOMAIN list : list[j].kind = kind}}
<1> DEFINE s == [i \in DOMAIN list |-> IF list[i].kind = kind THEN list[i].items ELSE << >>]
<1>1. s \in Seq(Seq(Item)) /\ DOMAIN s = DOMAIN list
  BY GivenByItems
<1>2. ToSet(GivenBy(list, kind)) = UNION {ToSet(s[i]) : i \in DOMAIN s}
  BY <1>1, FlattenToSet DEF GivenBy
<1>3. \A i \in DOMAIN list :
          ToSet(s[i]) = IF list[i].kind = kind THEN ToSet(list[i].items) ELSE {}
  BY DEF ToSet
<1> HIDE DEF s
<1> QED
  BY <1>1, <1>2, <1>3

LEMMA GivenByNone ==
    ASSUME NEW list \in Seq(GivenCalls), NEW kind, \A i \in DOMAIN list : list[i].kind # kind
    PROVE  GivenBy(list, kind) = << >>
<1>1. ToSet(GivenBy(list, kind)) = {}
  BY GivenByToSet
<1>2. GivenBy(list, kind) \in Seq(Item)
  BY GivenByItems, FlattenInSeq DEF GivenBy
<1>3. DOMAIN GivenBy(list, kind) = 1 .. Len(GivenBy(list, kind)) /\ Len(GivenBy(list, kind)) \in Nat
  BY <1>2
<1>4. Len(GivenBy(list, kind)) = 0
  <2> DEFINE w == GivenBy(list, kind)
  <2>1. \A i \in DOMAIN w : w[i] \in {}
    BY <1>1, Zenon DEF ToSet
  <2> HIDE DEF w
  <2>2. 1 \notin DOMAIN w
    BY <2>1
  <2> QED BY <1>3, <2>2 DEF w
<1> QED
  BY <1>2, <1>4

-----------------------------------------------------------------------------
LEMMA DerivedInitially == DerivedInit => DerivedInv
<1> SUFFICES ASSUME DerivedInit PROVE DerivedInv
  OBVIOUS
<1>1. DerivedTypeOK
  BY DEF DerivedInit, DerivedTypeOK, Slice, Slices
<1>2. \A h \in DOMAIN handlers : Lies(mem, handlers[h].attrs) /\ Lies(mem, handlers[h].groups)
  BY DEF DerivedInit, Lies, Slice
<1>3. SiblingsIndependent
  <2>1. ASSUME NEW kind PROVE GivenBy(<< >>, kind) = << >>
    BY FlattenEmpty DEF GivenBy
  <2>2. \A kind : Given(1, kind) = << >>
    BY <2>1 DEF DerivedInit, Given
  <2>3. SubSeq(<< >>, 1, 0) = << >>
    OBVIOUS
  <2>4. DOMAIN handlers = {1} /\ mem[1] = << >>
        /\ handlers[1].attrs = Slice(1, 0) /\ handlers[1].groups = Slice(1, 0)
    BY DEF DerivedInit
  <2>5. Items(Slice(1, 0)) = << >>
    BY <2>3, <2>4 DEF Items, Slice
  <2> QED BY <2>2, <2>4, <2>5 DEF SiblingsIndependent
<1> QED
  BY <1>1, <1>2, <1>3 DEF DerivedInit, DerivedInv

\* A derivation changes nothing about the handlers there were.
LEMMA DerivePreserves ==
    ASSUME DerivedInv, NEW h \in DOMAIN handlers, NEW op \in GivenCalls,
           NEW new \in [attrs : Slices, groups : Slices],
           mem' \in Seq(Seq(Item)),
           \A u \in Slices : Lies(mem, u) => Lies(mem', u) /\ ItemsIn(mem', u) = ItemsIn(mem, u),
           Lies(mem', new.attrs), Lies(mem', new.groups),
           ItemsIn(mem', new.attrs) = GivenBy(Append(ops[h], op), "attrs"),
           ItemsIn(mem', new.groups) = GivenBy(Append(ops[h], op), "group"),
           Derive(h, op, new)
    PROVE  DerivedInv'
<1>1. /\ Len(handlers) \in Nat /\ Len(handlers') = Len(handlers) + 1
      /\ DOMAIN handlers = 1 .. Len(handlers) /\ DOMAIN handlers' = 1 .. Len(handlers) + 1
      /\ handlers'[Len(handlers) + 1] = new
      /\ \A k \in DOMAIN handlers : handlers'[k] = handlers[k]
      /\ handlers' \in Seq([attrs : Slices, groups : Slices])
  BY DEF DerivedInv, DerivedTypeOK, Derive
<1>2. /\ ops' \in Seq(Seq(GivenCalls)) /\ Len(ops') = Len(ops) + 1
      /\ ops'[Len(handlers) + 1] = Append(ops[h], op)
      /\ \A k \in DOMAIN handlers : ops'[k] = ops[k]
  <2>1. Append(ops[h], op) \in Seq(GivenCalls)
    BY <1>1, AppendProperties DEF DerivedInv, DerivedTypeOK
  <2> QED BY <1>1, <2>1, AppendProperties DEF DerivedInv, DerivedTypeOK, Derive
<1>3. DerivedTypeOK'
  BY <1>1, <1>2 DEF DerivedInv, DerivedTypeOK, Derive
<1>4. ASSUME NEW k \in DOMAIN handlers
      PROVE  /\ handlers[k].attrs \in Slices /\ handlers[k].groups \in Slices
             /\ Lies(mem, handlers[k].attrs) /\ Lies(mem, handlers[k].groups)
             /\ handlers'[k] = handlers[k]
             /\ ItemsIn(mem', handlers'[k].attrs) = ItemsIn(mem, handlers[k].attrs)
             /\ ItemsIn(mem', handlers'[k].groups) = ItemsIn(mem, handlers[k].groups)
  <2>1. handlers[k].attrs \in Slices /\ handlers[k].groups \in Slices
    <3>1. handlers[k] \in [attrs : Slices, groups : Slices]
      BY ElementOfSeq, <1>1 DEF DerivedInv, DerivedTypeOK
    <3> QED BY <3>1
  <2>2. Lies(mem, handlers[k].attrs) /\ Lies(mem, handlers[k].groups)
    BY DEF DerivedInv
  <2>3. handlers'[k] = handlers[k]
    BY <1>1
  <2> QED BY <2>1, <2>2, <2>3
<1>5. \A k \in DOMAIN handlers' : Lies(mem', handlers'[k].attrs) /\ Lies(mem', handlers'[k].groups)
  BY <1>1, <1>4
<1>6. SiblingsIndependent'
  <2> SUFFICES ASSUME NEW k \in DOMAIN handlers'
               PROVE  /\ ItemsIn(mem', handlers'[k].attrs) = GivenBy(ops'[k], "attrs")
                      /\ ItemsIn(mem', handlers'[k].groups) = GivenBy(ops'[k], "group")
    BY DEF SiblingsIndependent, Items, ItemsIn, Given
  <2>1. CASE k \in DOMAIN handlers
    <3>1. ItemsIn(mem, handlers[k].attrs) = GivenBy(ops[k], "attrs")
          /\ ItemsIn(mem, handlers[k].groups) = GivenBy(ops[k], "group")
      BY <2>1 DEF DerivedInv, SiblingsIndependent, Items, ItemsIn, Given
    <3> QED BY <2>1, <3>1, <1>2, <1>4
  <2>2. CASE k = Len(handlers) + 1
    BY <2>2, <1>1, <1>2
  <2> QED BY <1>1, <2>1, <2>2
<1>7. (logged = NoRecord \/ LoggedOK)'
  <2>1. logged' = logged /\ cfg' = cfg
    BY DEF Derive
  <2> SUFFICES ASSUME LoggedOK PROVE LoggedOK'
    BY <2>1 DEF DerivedInv
  <2> DEFINE k == logged.handler
  <2>2. k \in DOMAIN handlers /\ k \in DOMAIN handlers'
    BY <1>1 DEF LoggedOK
  <2>3. SubSeq(mem'[handlers'[k].attrs.array], 1, handlers'[k].attrs.len)
            = SubSeq(mem[handlers[k].attrs.array], 1, handlers[k].attrs.len)
        /\ SubSeq(mem'[handlers'[k].groups.array], 1, handlers'[k].groups.len)
            = SubSeq(mem[handlers[k].groups.array], 1, handlers[k].groups.len)
    BY <2>2, <1>4 DEF ItemsIn
  <2>4. Chain(k)' = Chain(k) /\ (Items(handlers[k].groups))' = Items(handlers[k].groups)
    BY <2>1, <2>3 DEF Chain, Items
  <2>5. stackAttr(logged.call)' = stackAttr(logged.call) /\ ctxAttrs(logged.ctx)' = ctxAttrs(logged.ctx)
    BY <2>1 DEF stackAttr, ctxAttrs, traceAttrs
  <2> QED BY <2>1, <2>2, <2>4, <2>5 DEF LoggedOK
<1> QED
  BY <1>3, <1>5, <1>6, <1>7 DEF DerivedInv

LEMMA WithAttrsPreserves ==
    ASSUME DerivedInv, NEW h \in DOMAIN handlers, NEW a \in Attrs, WithAttrs(h, <<a>>)
    PROVE  DerivedInv'
<1> DEFINE op == [kind |-> "attrs", items |-> <<a>>]
           s == handlers[h].attrs
           t == LongerSlice(mem, s, <<a>>)
<1>1. /\ s \in Slices /\ handlers[h].groups \in Slices
      /\ handlers[h] \in [attrs : Slices, groups : Slices]
      /\ Lies(mem, s) /\ Lies(mem, handlers[h].groups)
  <2>1. handlers[h] \in [attrs : Slices, groups : Slices]
    BY LenProperties, ElementOfSeq DEF DerivedInv, DerivedTypeOK
  <2> QED BY <2>1 DEF DerivedInv
<1>2. /\ <<a>> \in Seq(Item) /\ op \in GivenCalls /\ op.kind = "attrs" /\ op.items = <<a>>
  BY DEF Item, GivenCalls
<1>3. mem' = Longer(mem, s, <<a>>)
      /\ Derive(h, op, [handlers[h] EXCEPT !.attrs = t])
  BY DEF WithAttrs, Extend, Items, ItemsIn, Longer, LongerSlice
<1>4. mem \in Seq(Seq(Item))
  BY DEF DerivedInv, DerivedTypeOK
<1> HIDE DEF op
<1>5. /\ mem' \in Seq(Seq(Item))
      /\ t \in Slices
      /\ Lies(mem', t)
      /\ ItemsIn(mem', t) = ItemsIn(mem, s) \o <<a>>
      /\ \A u \in Slices : Lies(mem, u) => Lies(mem', u) /\ ItemsIn(mem', u) = ItemsIn(mem, u)
  BY <1>1, <1>2, <1>3, <1>4, ExtendAllocates
<1>6. PICK new \in [attrs : Slices, groups : Slices] : new = [handlers[h] EXCEPT !.attrs = t]
  BY <1>1, <1>5
<1>7. new.attrs = t /\ new.groups = handlers[h].groups
  BY <1>1, <1>6
<1>8. ops[h] \in Seq(GivenCalls)
  BY DEF DerivedInv, DerivedTypeOK
<1>9. GivenBy(Append(ops[h], op), "attrs") = GivenBy(ops[h], "attrs") \o <<a>>
      /\ GivenBy(Append(ops[h], op), "group") = GivenBy(ops[h], "group")
  BY <1>2, <1>8, GivenByAppend
<1>10. ItemsIn(mem, s) = GivenBy(ops[h], "attrs")
       /\ ItemsIn(mem, handlers[h].groups) = GivenBy(ops[h], "group")
  BY DEF DerivedInv, SiblingsIndependent, Items, ItemsIn, Given
<1> HIDE DEF t
<1> QED
  BY <1>1, <1>2, <1>3, <1>5, <1>6, <1>7, <1>9, <1>10, DerivePreserves

LEMMA WithGroupPreserves ==
    ASSUME DerivedInv, NEW h \in DOMAIN handlers, NEW g \in Groups, WithGroup(h, g)
    PROVE  DerivedInv'
<1> DEFINE op == [kind |-> "group", items |-> <<g>>]
           s == handlers[h].groups
           t == LongerSlice(mem, s, <<g>>)
<1>1. /\ s \in Slices /\ handlers[h].attrs \in Slices
      /\ handlers[h] \in [attrs : Slices, groups : Slices]
      /\ Lies(mem, s) /\ Lies(mem, handlers[h].attrs)
  <2>1. handlers[h] \in [attrs : Slices, groups : Slices]
    BY LenProperties, ElementOfSeq DEF DerivedInv, DerivedTypeOK
  <2> QED BY <2>1 DEF DerivedInv
<1>2. /\ <<g>> \in Seq(Item) /\ op \in GivenCalls /\ op.kind = "group" /\ op.items = <<g>>
  BY DEF Item, GivenCalls
<1>3. mem' = Longer(mem, s, <<g>>)
      /\ Derive(h, op, [handlers[h] EXCEPT !.groups = t])
  BY DEF WithGroup, Extend, Items, ItemsIn, Longer, LongerSlice
<1>4. mem \in Seq(Seq(Item))
  BY DEF DerivedInv, DerivedTypeOK
<1> HIDE DEF op
<1>5. /\ mem' \in Seq(Seq(Item))
      /\ t \in Slices
      /\ Lies(mem', t)
      /\ ItemsIn(mem', t) = ItemsIn(mem, s) \o <<g>>
      /\ \A u \in Slices : Lies(mem, u) => Lies(mem', u) /\ ItemsIn(mem', u) = ItemsIn(mem, u)
  BY <1>1, <1>2, <1>3, <1>4, ExtendAllocates
<1>6. PICK new \in [attrs : Slices, groups : Slices] : new = [handlers[h] EXCEPT !.groups = t]
  BY <1>1, <1>5
<1>7. new.groups = t /\ new.attrs = handlers[h].attrs
  BY <1>1, <1>6
<1>8. ops[h] \in Seq(GivenCalls)
  BY DEF DerivedInv, DerivedTypeOK
<1>9. GivenBy(Append(ops[h], op), "group") = GivenBy(ops[h], "group") \o <<g>>
      /\ GivenBy(Append(ops[h], op), "attrs") = GivenBy(ops[h], "attrs")
  BY <1>2, <1>8, GivenByAppend
<1>10. ItemsIn(mem, s) = GivenBy(ops[h], "group")
       /\ ItemsIn(mem, handlers[h].attrs) = GivenBy(ops[h], "attrs")
  BY DEF DerivedInv, SiblingsIndependent, Items, ItemsIn, Given
<1> HIDE DEF t
<1> QED
  BY <1>1, <1>2, <1>3, <1>5, <1>6, <1>7, <1>9, <1>10, DerivePreserves

LEMMA HandlePreserves ==
    ASSUME DerivedInv, NEW h \in DOMAIN handlers, NEW context \in Contexts, NEW call \in Calls,
           Handle(h, context, call)
    PROVE  DerivedInv'
<1>1. UNCHANGED <<cfg, mem, handlers, ops>>
  BY DEF Handle
<1>2. DerivedTypeOK' /\ SiblingsIndependent'
      /\ \A k \in DOMAIN handlers' : Lies(mem', handlers'[k].attrs) /\ Lies(mem', handlers'[k].groups)
  BY <1>1 DEF DerivedInv, DerivedTypeOK, SiblingsIndependent, Items, Given
<1>3. /\ logged'.handler = h /\ logged'.ctx = context /\ logged'.call = call
      /\ logged'.stack = stackAttr(call)
      /\ logged'.out = Chain(h) \cup {<<Items(handlers[h].groups), a>> :
                                          a \in ctxAttrs(context) \cup call.attrs}
  BY DEF Handle
<1>4. /\ stackAttr(call)' = stackAttr(call) /\ ctxAttrs(context)' = ctxAttrs(context)
      /\ Chain(h)' = Chain(h) /\ Items(handlers[h].groups)' = Items(handlers[h].groups)
  BY <1>1 DEF stackAttr, ctxAttrs, traceAttrs, Chain, Items
<1>5. LoggedOK'
  BY <1>1, <1>3, <1>4 DEF LoggedOK
<1> QED
  BY <1>2, <1>5 DEF DerivedInv

LEMMA DerivedStutters ==
    ASSUME DerivedInv, UNCHANGED derivedVars
    PROVE  DerivedInv'
<1>1. UNCHANGED <<cfg, mem, handlers, ops, logged>>
  BY DEF derivedVars
<1>2. DerivedTypeOK' /\ SiblingsIndependent'
      /\ \A k \in DOMAIN handlers' : Lies(mem', handlers'[k].attrs) /\ Lies(mem', handlers'[k].groups)
  BY <1>1 DEF DerivedInv, DerivedTypeOK, SiblingsIndependent, Items, Given
<1>3. LoggedOK => LoggedOK'
  BY <1>1 DEF LoggedOK, Items, Chain, stackAttr, ctxAttrs, traceAttrs
<1> QED
  BY <1>1, <1>2, <1>3 DEF DerivedInv

THEOREM DerivedInvariance == DerivedSpec => []DerivedInv
<1>1. DerivedInit => DerivedInv
  BY DerivedInitially
<1>2. DerivedInv /\ [DerivedNext]_derivedVars => DerivedInv'
  <2> SUFFICES ASSUME DerivedInv, [DerivedNext]_derivedVars PROVE DerivedInv'
    OBVIOUS
  <2>1. CASE UNCHANGED derivedVars
    BY <2>1, DerivedStutters
  <2>2. CASE DerivedNext
    BY <2>2, WithAttrsPreserves, WithGroupPreserves, HandlePreserves DEF DerivedNext
  <2> QED BY <2>1, <2>2
<1> QED
  BY <1>1, <1>2, PTL DEF DerivedSpec

(***************************************************************************)
(* Deriving a logger never changes another one: a handler holds the        *)
(* attributes and groups it was given, in that order, whatever is derived  *)
(* from it, its parent or its siblings (handler.go WithAttrs, WithGroup).  *)
(***************************************************************************)
THEOREM DerivedSiblings == DerivedSpec => []SiblingsIndependent
  BY DerivedInvariance, PTL DEF DerivedInv

-----------------------------------------------------------------------------
\* Attributes given before any group lie in none.
LEMMA PlacedOutside ==
    ASSUME DerivedInv, NEW h \in DOMAIN handlers, AttrsFirst(h)
    PROVE  AsDerived(h) = Chain(h)
<1> DEFINE list == ops[h]
           I == {j \in DOMAIN list : list[j].kind = "attrs"}
<1>1. list \in Seq(GivenCalls) /\ DOMAIN list = 1 .. Len(list) /\ Len(list) \in Nat
  BY DEF DerivedInv, DerivedTypeOK
<1>2. Items(handlers[h].attrs) = GivenBy(list, "attrs")
  BY DEF DerivedInv, SiblingsIndependent, Given
<1>3. Chain(h) = {<< << >>, a>> : a \in UNION {ToSet(list[i].items) : i \in I}}
  BY <1>1, <1>2, GivenByToSet DEF Chain
<1>4. ASSUME NEW i \in I PROVE OpenedBefore(h, i) = << >>
  <2> DEFINE before == SubSeq(list, 1, i - 1)
  <2>1. before \in Seq(GivenCalls) /\ DOMAIN before = 1 .. i - 1
        /\ \A j \in 1 .. i - 1 : before[j] = list[j] /\ j \in DOMAIN list /\ j < i
    BY <1>1
  <2>2. \A j \in 1 .. i - 1 : list[j].kind # "group"
    <3>1. ASSUME NEW j \in 1 .. i - 1, list[j].kind = "group" PROVE FALSE
      <4>1. j \in DOMAIN list /\ i \in DOMAIN list /\ list[i].kind = "attrs" /\ j < i
        BY <2>1
      <4>2. i < j
        BY <3>1, <4>1 DEF AttrsFirst
      <4> QED BY <4>1, <4>2, <1>1
    <3> QED BY <3>1
  <2> HIDE DEF before
  <2>3. GivenBy(before, "group") = << >>
    BY <2>1, <2>2, GivenByNone
  <2> QED BY <2>3 DEF OpenedBefore, before
<1>5. AsDerived(h) = UNION {{<< << >>, a>> : a \in ToSet(list[i].items)} : i \in I}
  <2>1. AsDerived(h) = UNION {{<<OpenedBefore(h, i), a>> : a \in ToSet(list[i].items)} : i \in I}
    BY DEF AsDerived
  <2> HIDE DEF I, list
  <2> QED BY <2>1, <1>4
<1> HIDE DEF I, list
<1> QED
  BY <1>3, <1>5

(***************************************************************************)
(* A logger whose attributes were all given before its groups logs like a  *)
(* slog logger: its attributes outside the groups, those of the context    *)
(* and of the record inside all of them (handler.go Handle).               *)
(***************************************************************************)
THEOREM DerivedPlaced == DerivedSpec => []PlacedWhenAttrsFirst
<1>1. DerivedInv => PlacedWhenAttrsFirst
  <2> SUFFICES ASSUME DerivedInv, logged # NoRecord, AttrsFirst(logged.handler)
               PROVE  logged.out = AsDerived(logged.handler) \cup
                          {<<Given(logged.handler, "group"), a>> :
                               a \in ctxAttrs(logged.ctx) \cup logged.call.attrs}
    BY DEF PlacedWhenAttrsFirst
  <2>1. LoggedOK
    BY DEF DerivedInv
  <2>2. AsDerived(logged.handler) = Chain(logged.handler)
    BY <2>1, PlacedOutside DEF LoggedOK
  <2>3. Items(handlers[logged.handler].groups) = Given(logged.handler, "group")
    BY <2>1 DEF DerivedInv, SiblingsIndependent, LoggedOK
  <2> QED BY <2>1, <2>2, <2>3 DEF LoggedOK
<1> QED
  BY <1>1, DerivedInvariance, PTL

-----------------------------------------------------------------------------
\* The frames of a program on a stack, and on the upper part of it.
LEMMA ProgramItems ==
    ASSUME NEW frames \in Seq(Frames)
    PROVE  /\ [i \in DOMAIN frames |-> IF visible(frames[i]) THEN <<frames[i]>> ELSE << >>]
                  \in Seq(Seq(Frames))
           /\ program(frames) \in Seq(Frames)
           /\ Len(program(frames)) <= Len(frames)
<1> DEFINE W == Seq(Frames)
           e(i) == IF visible(frames[i]) THEN <<frames[i]>> ELSE << >>
           s == [i \in 1 .. Len(frames) |-> e(i)]
<1>1. \A i \in 1 .. Len(frames) : e(i) \in W /\ Len(e(i)) <= 1
  BY EmptySeq
<1>2. DOMAIN frames = 1 .. Len(frames) /\ Len(frames) \in Nat
  OBVIOUS
<1>3. program(frames) = FlattenSeq(s)
  BY <1>2, Zenon DEF program
<1> HIDE DEF e
<1>4. s \in Seq(W) /\ Len(s) = Len(frames) /\ DOMAIN s = 1 .. Len(frames)
      /\ \A i \in DOMAIN s : Len(s[i]) <= 1
  <2> HIDE DEF W
  <2> QED BY <1>1, <1>2
<1> HIDE DEF s
<1>5. FlattenSeq(s) \in W /\ Len(FlattenSeq(s)) <= Len(s)
  BY <1>4, FlattenInSeq, FlattenShort
<1> QED
  BY <1>2, <1>3, <1>4, <1>5, Zenon DEF s, e

LEMMA ProgramConcat ==
    ASSUME NEW a \in Seq(Frames), NEW b \in Seq(Frames)
    PROVE  program(a \o b) = program(a) \o program(b)
<1> DEFINE one(f) == IF visible(f) THEN <<f>> ELSE << >>
           each(l) == [i \in DOMAIN l |-> one(l[i])]
<1>1. \A l : program(l) = FlattenSeq(each(l))
  BY Zenon DEF program
<1>2. each(a) \in Seq(Seq(Frames)) /\ each(b) \in Seq(Seq(Frames))
  BY ProgramItems
<1> HIDE DEF one
<1>3. each(a \o b) = each(a) \o each(b)
  OBVIOUS
<1> HIDE DEF each
<1> QED
  BY <1>1, <1>2, <1>3, FlattenConcat

(***************************************************************************)
(* The stack of an error starts at the innermost frame of the program that *)
(* logged it and leaves out no frame of the program but those further out  *)
(* than the configured depth (stack.go stackTrace).                        *)
(***************************************************************************)
THEOREM DerivedStack == DerivedSpec => []StackFromCaller
<1>1. DerivedInv => StackFromCaller
  <2> SUFFICES ASSUME DerivedInv, logged # NoRecord, cfg.stackOnError,
                      logged.call.level >= LevelError
               PROVE  LET all == program(logged.call.frames)
                      IN  /\ IsPrefix(logged.stack, all)
                          /\ \/ Len(logged.stack) = Len(all)
                             \/ Len(all) - Len(logged.stack)
                                    <= Len(logged.call.frames) - cfg.stackDepth
    BY DEF StackFromCaller
  <2> DEFINE frames == logged.call.frames
             depth == cfg.stackDepth
             n == IF depth <= 0 THEN 32 ELSE depth
             m == IF n < Len(frames) THEN n ELSE Len(frames)
             inner == SubSeq(frames, 1, m)
             outer == SubSeq(frames, m + 1, Len(frames))
  <2>1. frames \in Seq(Frames) /\ depth \in Int
    BY FramesAssumption DEF DerivedInv, DerivedTypeOK, LoggedOK
  <2>2. logged.stack = program(inner)
    BY DEF DerivedInv, LoggedOK, stackAttr, stackTrace
  <2>3. m \in 0 .. Len(frames) /\ (m = Len(frames) \/ m >= depth)
    BY <2>1
  <2> HIDE DEF m, frames, depth
  <2>4. inner \in Seq(Frames) /\ outer \in Seq(Frames)
        /\ Len(outer) = Len(frames) - m /\ inner \o outer = frames
    <3>1. inner \in Seq(Frames) /\ outer \in Seq(Frames) /\ Len(outer) = Len(frames) - m
      BY <2>1, <2>3
    <3>2. inner \o outer = SubSeq(frames, 1, Len(frames))
      <4>1. 1 \in 1 .. Len(frames) + 1 /\ m \in 1 - 1 .. Len(frames) /\ Len(frames) \in m .. Len(frames)
        BY <2>1, <2>3
      <4> QED BY <2>1, <4>1, ConcatAdjacentSubSeq
    <3> QED BY <2>1, <3>1, <3>2, SubSeqFull
  <2> HIDE DEF inner, outer
  <2>5. program(frames) = program(inner) \o program(outer)
    BY <2>4, ProgramConcat
  <2>6. program(inner) \in Seq(Frames) /\ program(outer) \in Seq(Frames)
        /\ Len(program(outer)) <= Len(frames) - m
    BY <2>4, ProgramItems
  <2>7. IsPrefix(program(inner), program(frames))
    BY <2>5, <2>6 DEF IsPrefix
  <2>8. Len(program(frames)) - Len(program(inner)) <= Len(frames) - m
    BY <2>5, <2>6
  <2>9. \/ Len(program(inner)) = Len(program(frames))
        \/ Len(program(frames)) - Len(program(inner)) <= Len(frames) - depth
    <3>1. Len(program(frames)) = Len(program(inner)) + Len(program(outer))
          /\ Len(program(outer)) \in Nat /\ Len(program(inner)) \in Nat /\ Len(frames) \in Nat
      BY <2>1, <2>5, <2>6
    <3> QED BY <3>1, <2>1, <2>3, <2>8
  <2> QED BY <2>2, <2>7, <2>9 DEF frames, depth
<1> QED
  BY <1>1, DerivedInvariance, PTL

-----------------------------------------------------------------------------
(***************************************************************************)
(* RemovalSets.                                                            *)
(***************************************************************************)
Slots == Names \cup {NoKey}
Histories == [keys : SUBSET Slots, alone : BOOLEAN]

SetsTypeOK ==
    /\ arrays \in Seq(Seq(Slots))
    /\ sets \in Seq(Slices)
    /\ given \in Seq(Histories)
    /\ Len(given) = Len(sets)

(***************************************************************************)
(* The inductive invariant: a set that never shared its array still does   *)
(* not, so what is written into any other array does not reach its keys.   *)
(***************************************************************************)
SetsInv ==
    /\ SetsTypeOK
    /\ Lies(arrays, CallerKeys)
    /\ \A i \in DOMAIN sets : Lies(arrays, sets[i])
    /\ \A i, j \in DOMAIN sets : (given[i].alone /\ i # j) => sets[i].array # sets[j].array
    /\ AloneKeepsKeys

LEMMA SetsInitially == OptionsInit => SetsInv
<1> SUFFICES ASSUME OptionsInit PROVE SetsInv
  OBVIOUS
<1>1. PICK n \in Names : arrays = << <<n, NoKey>> >>
  BY DEF OptionsInit
<1>2. <<n, NoKey>> \in Seq(Slots) /\ Len(<<n, NoKey>>) = 2
  BY DEF Slots
<1>3. arrays \in Seq(Seq(Slots)) /\ Len(arrays) = 1 /\ arrays[1] = <<n, NoKey>>
  BY <1>1, <1>2
<1> QED
  BY <1>2, <1>3, EmptySeq DEF OptionsInit, SetsInv, SetsTypeOK, CallerKeys, Lies, AloneKeepsKeys

\* What a slice covers is a sequence, one longer by what is written behind it.
LEMMA SliceItems ==
    ASSUME NEW m \in Seq(Seq(Slots)), NEW s \in Slices, Lies(m, s)
    PROVE  /\ m[s.array] \in Seq(Slots)
           /\ ItemsIn(m, s) \in Seq(Slots)
           /\ Len(ItemsIn(m, s)) = s.len
           /\ ToSet(ItemsIn(m, s)) = {m[s.array][k] : k \in 1 .. s.len}
<1>1. m[s.array] \in Seq(Slots) /\ s.len \in 0 .. Len(m[s.array])
  BY DEF Lies, Slices
<1>2. /\ ItemsIn(m, s) \in Seq(Slots) /\ Len(ItemsIn(m, s)) = s.len
      /\ \A k \in 1 .. s.len : ItemsIn(m, s)[k] = m[s.array][k]
  BY <1>1 DEF ItemsIn
<1>3. DOMAIN ItemsIn(m, s) = 1 .. s.len
  BY <1>2
<1> HIDE DEF ItemsIn
<1> QED
  BY <1>1, <1>2, <1>3 DEF ToSet

\* NewRemovalSet over a slice that lies in its array.
LEMMA NewRemovalSetPreserves ==
    ASSUME SetsInv, NEW s \in Slices, Lies(arrays, s), NewRemovalSet(s)
    PROVE  SetsInv'
<1> DEFINE sharing(i) == sets[i].array = s.array
           h == [keys |-> ToSet(Keys(s)), alone |-> \A i \in DOMAIN sets : ~sharing(i)]
           old == [i \in DOMAIN given |-> [given[i] EXCEPT !.alone = @ /\ ~sharing(i)]]
           n == Len(sets)
<1>1. n \in Nat /\ Len(given) = n /\ DOMAIN sets = 1 .. n /\ DOMAIN given = 1 .. n
  BY DEF SetsInv, SetsTypeOK
<1>2. sets' = Append(sets, s) /\ given' = Append(old, h) /\ arrays' = arrays
  BY DEF NewRemovalSet
<1>3. h \in Histories
  <2>1. Keys(s) \in Seq(Slots)
    BY SliceItems DEF SetsInv, SetsTypeOK, Keys, ItemsIn
  <2>2. ToSet(Keys(s)) \in SUBSET Slots
    <3> HIDE DEF sharing
    <3> QED BY <2>1 DEF ToSet
  <2>3. (\A i \in DOMAIN sets : ~sharing(i)) \in BOOLEAN
    BY Zenon
  <2> HIDE DEF sharing
  <2> QED BY <2>2, <2>3, Zenon DEF Histories
<1>4. /\ old \in Seq(Histories) /\ Len(old) = n
      /\ \A i \in 1 .. n : /\ old[i].keys = given[i].keys
                           /\ old[i].alone => given[i].alone /\ ~sharing(i)
  <2>1. ASSUME NEW i \in 1 .. n
        PROVE  /\ old[i] \in Histories /\ old[i].keys = given[i].keys
               /\ old[i].alone => given[i].alone /\ ~sharing(i)
    <3>1. given[i] \in Histories
      BY <1>1 DEF SetsInv, SetsTypeOK
    <3> HIDE DEF sharing
    <3>2. old[i] = [given[i] EXCEPT !.alone = given[i].alone /\ ~sharing(i)]
      BY <1>1
    <3> QED BY <3>1, <3>2 DEF Histories
  <2>2. DOMAIN old = 1 .. n /\ old = [i \in 1 .. n |-> old[i]]
    BY <1>1
  <2> HIDE DEF old, sharing
  <2> QED BY <1>1, <2>1, <2>2
<1> HIDE DEF h, old
<1>5. /\ Len(sets') = n + 1 /\ DOMAIN sets' = 1 .. n + 1 /\ sets'[n + 1] = s
      /\ \A i \in 1 .. n : sets'[i] = sets[i]
      /\ sets' \in Seq(Slices)
  BY <1>1, <1>2 DEF SetsInv, SetsTypeOK
<1>6. /\ Len(given') = n + 1 /\ given'[n + 1] = h
      /\ \A i \in 1 .. n : given'[i] = old[i]
      /\ given' \in Seq(Histories)
  BY <1>2, <1>3, <1>4
<1>7. SetsTypeOK'
  BY <1>2, <1>5, <1>6 DEF SetsInv, SetsTypeOK
<1>8. Lies(arrays', CallerKeys) /\ \A i \in DOMAIN sets' : Lies(arrays', sets'[i])
  BY <1>1, <1>2, <1>5 DEF SetsInv
<1>9. ASSUME NEW i \in DOMAIN sets', NEW j \in DOMAIN sets', given'[i].alone, i # j
      PROVE  sets'[i].array # sets'[j].array
  <2>1. CASE i = n + 1
    <3>1. \A k \in 1 .. n : sets[k].array # s.array
      BY <1>1, <1>6, <1>9, <2>1 DEF h
    <3> QED BY <3>1, <2>1, <1>5, <1>9
  <2>2. CASE i # n + 1
    <3>1. i \in 1 .. n /\ given[i].alone /\ sets[i].array # s.array
      BY <1>4, <1>5, <1>6, <1>9, <2>2
    <3> QED BY <3>1, <1>1, <1>5, <1>9 DEF SetsInv
  <2> QED BY <2>1, <2>2
<1>10. AloneKeepsKeys'
  <2> SUFFICES ASSUME NEW i \in DOMAIN sets', given'[i].alone
               PROVE  ToSet(SubSeq(arrays[sets'[i].array], 1, sets'[i].len)) = given'[i].keys
    BY <1>2 DEF AloneKeepsKeys, Keys
  <2>1. CASE i = n + 1
    BY <2>1, <1>5, <1>6 DEF h, Keys
  <2>2. CASE i # n + 1
    <3>1. i \in 1 .. n /\ given[i].alone /\ given'[i].keys = given[i].keys
      BY <1>4, <1>5, <1>6, <2>2
    <3> QED BY <3>1, <1>1, <1>5 DEF SetsInv, AloneKeepsKeys, Keys
  <2> QED BY <2>1, <2>2
<1> QED
  BY <1>7, <1>8, <1>9, <1>10 DEF SetsInv

LEMMA AddPreserves ==
    ASSUME SetsInv, NEW i \in DOMAIN sets, NEW name \in Names, Add(i, name)
    PROVE  SetsInv'
<1> DEFINE s == sets[i]
           room == s.len < Len(arrays[s.array])
           t == [array |-> IF room THEN s.array ELSE Len(arrays) + 1, len |-> s.len + 1]
<1>1. /\ s \in Slices /\ Lies(arrays, s) /\ DOMAIN sets = 1 .. Len(sets) /\ Len(sets) \in Nat
      /\ DOMAIN given = DOMAIN sets /\ arrays \in Seq(Seq(Slots)) /\ Len(arrays) \in Nat
      /\ \A j \in DOMAIN sets : sets[j] \in Slices /\ Lies(arrays, sets[j])
      /\ \A j \in DOMAIN sets : given[j] \in Histories
  BY DEF SetsInv, SetsTypeOK
<1>2. /\ arrays[s.array] \in Seq(Slots) /\ s.len \in Nat /\ s.array \in 1 .. Len(arrays)
      /\ ItemsIn(arrays, s) \in Seq(Slots) /\ Len(ItemsIn(arrays, s)) = s.len
      /\ ToSet(ItemsIn(arrays, s)) = {arrays[s.array][k] : k \in 1 .. s.len}
  BY <1>1, SliceItems DEF Slices, Lies
<1>3. /\ sets' = [sets EXCEPT ![i] = t]
      /\ given' = [given EXCEPT ![i].keys = @ \cup {name}]
      /\ arrays' = IF room THEN [arrays EXCEPT ![s.array] = [@ EXCEPT ![s.len + 1] = name]]
                   ELSE Append(arrays, Grown(Keys(s), name))
  BY DEF Add
\* The array written: its slots up to the length of s, then the new key.
<1>4. /\ arrays' \in Seq(Seq(Slots)) /\ Len(arrays) <= Len(arrays')
      /\ t.array \in 1 .. Len(arrays') /\ t \in Slices
      /\ t.len <= Len(arrays'[t.array])
      /\ arrays'[t.array][s.len + 1] = name
      /\ \A k \in 1 .. s.len : arrays'[t.array][k] = arrays[s.array][k]
      /\ \A a \in 1 .. Len(arrays) : /\ a # t.array => arrays'[a] = arrays[a]
                                     /\ Len(arrays'[a]) = Len(arrays[a])
      /\ t.array = s.array \/ t.array \notin 1 .. Len(arrays)
  <2>1. name \in Slots /\ NoKey \in Slots
    BY DEF Slots
  <2>2. CASE room
    <3> DEFINE x == [arrays[s.array] EXCEPT ![s.len + 1] = name]
    <3>1. /\ x \in Seq(Slots) /\ Len(x) = Len(arrays[s.array]) /\ x[s.len + 1] = name
          /\ s.len + 1 <= Len(x)
          /\ \A k \in 1 .. s.len : x[k] = arrays[s.array][k]
      BY <1>2, <2>1, <2>2
    <3>2. arrays' = [arrays EXCEPT ![s.array] = x]
      BY <1>3, <2>2
    <3> HIDE DEF x
    <3>3. arrays' \in Seq(Seq(Slots)) /\ Len(arrays') = Len(arrays) /\ arrays'[s.array] = x
          /\ \A a \in 1 .. Len(arrays) : a # s.array => arrays'[a] = arrays[a]
      BY <1>1, <1>2, <3>1, <3>2
    <3>4. t.array = s.array /\ t.len = s.len + 1 /\ t \in Slices
      BY <1>2, <2>2, <1>1 DEF Slices
    <3> HIDE DEF t, s
    <3> QED BY <1>2, <3>1, <3>3, <3>4
  <2>3. CASE ~room
    <3> DEFINE x == Grown(Keys(s), name)
               q == ItemsIn(arrays, s)
    <3>1. x = q \o <<name, NoKey>>
      BY DEF Grown, Keys, ItemsIn
    <3>2. \A k \in 1 .. s.len : q[k] = arrays[s.array][k]
      BY <1>1, <1>2 DEF ItemsIn, Lies
    <3>3. <<name, NoKey>> \in Seq(Slots) /\ Len(<<name, NoKey>>) = 2
      BY <2>1
    <3> HIDE DEF x, q
    <3>4. /\ x \in Seq(Slots) /\ Len(x) = s.len + 2 /\ x[s.len + 1] = name
          /\ \A k \in 1 .. s.len : x[k] = arrays[s.array][k]
      <4>1. q \in Seq(Slots) /\ Len(q) = s.len /\ s.len \in Nat
        BY <1>2 DEF q
      <4>2. /\ x \in Seq(Slots) /\ Len(x) = Len(q) + 2
            /\ \A k \in 1 .. Len(q) + 2 :
                  x[k] = IF k <= Len(q) THEN q[k] ELSE <<name, NoKey>>[k - Len(q)]
        BY <4>1, <3>1, <3>3, ConcatProperties
      <4> HIDE DEF s
      <4>3. Len(q) + 1 \in 1 .. Len(q) + 2 /\ ~(Len(q) + 1 <= Len(q)) /\ (Len(q) + 1) - Len(q) = 1
        BY <4>1
      <4>4. x[Len(q) + 1] = name
        BY <4>2, <4>3
      <4>5. \A k \in 1 .. Len(q) : x[k] = q[k]
        BY <4>1, <4>2
      <4> QED BY <4>1, <4>2, <4>4, <4>5, <3>2
    <3>5. arrays' = Append(arrays, x)
      BY <1>3, <2>3 DEF x
    <3>6. arrays' \in Seq(Seq(Slots)) /\ Len(arrays') = Len(arrays) + 1 /\ arrays'[Len(arrays) + 1] = x
          /\ \A a \in 1 .. Len(arrays) : arrays'[a] = arrays[a]
      BY <1>1, <3>4, <3>5, AppendProperties
    <3>7. t.array = Len(arrays) + 1 /\ t.len = s.len + 1 /\ t \in Slices
      BY <1>1, <1>2, <2>3 DEF Slices
    <3> HIDE DEF t, s
    <3>8. /\ t.array \in 1 .. Len(arrays') /\ t.array \notin 1 .. Len(arrays)
          /\ arrays'[t.array] = x /\ t.len <= Len(x)
      <4>1. arrays'[t.array] = x
        BY <3>6, <3>7
      <4>2. Len(arrays) + 1 \in 1 .. Len(arrays') /\ Len(arrays) + 1 \notin 1 .. Len(arrays)
        BY <1>1, <3>6
      <4>3. s.len + 1 <= s.len + 2
        BY <1>2
      <4> QED BY <3>4, <3>7, <4>1, <4>2, <4>3
    <3>9. \A a \in 1 .. Len(arrays) : arrays'[a] = arrays[a] /\ Len(arrays'[a]) = Len(arrays[a])
      BY <3>6
    <3> QED BY <1>1, <3>4, <3>6, <3>7, <3>8, <3>9
  <2> QED BY <2>2, <2>3
<1>5. t.len = s.len + 1
  OBVIOUS
<1> HIDE DEF t, room
<1>6. /\ sets' \in Seq(Slices) /\ Len(sets') = Len(sets) /\ DOMAIN sets' = DOMAIN sets /\ sets'[i] = t
      /\ \A j \in DOMAIN sets : j # i => sets'[j] = sets[j]
  BY <1>1, <1>3, <1>4 DEF SetsInv, SetsTypeOK
<1>7. /\ given' \in Seq(Histories) /\ Len(given') = Len(given)
      /\ \A j \in DOMAIN sets : given'[j].alone = given[j].alone
      /\ given'[i].keys = given[i].keys \cup {name}
      /\ \A j \in DOMAIN sets : j # i => given'[j].keys = given[j].keys
  <2> DEFINE g == [given[i] EXCEPT !.keys = @ \cup {name}]
  <2>1. g \in Histories /\ g.alone = given[i].alone /\ g.keys = given[i].keys \cup {name}
    BY <1>1 DEF Histories, Slots
  <2>2. given' = [given EXCEPT ![i] = g]
    BY <1>3
  <2> HIDE DEF g
  <2> QED BY <1>1, <2>1, <2>2 DEF SetsInv, SetsTypeOK
<1>8. SetsTypeOK'
  BY <1>4, <1>6, <1>7 DEF SetsInv, SetsTypeOK
<1>9. /\ Lies(arrays', CallerKeys)
      /\ \A j \in DOMAIN sets' : Lies(arrays', sets'[j])
  <2>1. ASSUME NEW u, Lies(arrays, u) PROVE Lies(arrays', u)
    BY <1>1, <1>4, <2>1 DEF Lies, SetsTypeOK
  <2>2. Lies(arrays', t)
    BY <1>4, <1>5 DEF Lies
  <2> QED BY <2>1, <2>2, <1>1, <1>6 DEF SetsInv
<1>10. ASSUME NEW j \in DOMAIN sets', NEW k \in DOMAIN sets', given'[j].alone, j # k
       PROVE  sets'[j].array # sets'[k].array
  <2>1. given[j].alone /\ sets[j].array # sets[k].array
    BY <1>6, <1>7, <1>10 DEF SetsInv
  <2>2. sets[j].array \in 1 .. Len(arrays) /\ sets[k].array \in 1 .. Len(arrays)
    BY <1>1, <1>6, <1>10 DEF Lies
  <2> QED BY <2>1, <2>2, <1>4, <1>6, <1>10
<1>11. AloneKeepsKeys'
  <2> SUFFICES ASSUME NEW j \in DOMAIN sets', given'[j].alone
               PROVE  ToSet(ItemsIn(arrays', sets'[j])) = given'[j].keys
    BY DEF AloneKeepsKeys, Keys, ItemsIn
  <2>1. given[j].alone /\ j \in DOMAIN sets
        /\ ToSet(ItemsIn(arrays, sets[j])) = given[j].keys
    BY <1>6, <1>7 DEF SetsInv, AloneKeepsKeys, Keys, ItemsIn
  <2>2. CASE j = i
    <3>1. ToSet(ItemsIn(arrays', t)) = {arrays'[t.array][k] : k \in 1 .. t.len}
      BY <1>4, SliceItems DEF Lies
    <3>2. 1 .. t.len = (1 .. s.len) \cup {s.len + 1}
      BY <1>2, <1>5
    <3>3. {arrays'[t.array][k] : k \in 1 .. t.len} =
              {arrays[s.array][k] : k \in 1 .. s.len} \cup {name}
      <4>1. /\ \A k \in 1 .. s.len : arrays'[t.array][k] = arrays[s.array][k]
            /\ arrays'[t.array][s.len + 1] = name
        BY <1>4
      <4> HIDE DEF s
      <4> QED BY <3>2, <4>1
    <3> QED BY <3>1, <3>3, <2>1, <2>2, <1>2, <1>6, <1>7
  <2>3. CASE j # i
    <3>1. sets'[j] = sets[j] /\ sets[j].array \in 1 .. Len(arrays)
      BY <1>1, <1>6, <2>1, <2>3 DEF Lies
    <3>2. sets[j].array # t.array
      BY <2>1, <2>3, <3>1, <1>4 DEF SetsInv
    <3>3. ItemsIn(arrays', sets'[j]) = ItemsIn(arrays, sets[j])
      BY <3>1, <3>2, <1>4 DEF ItemsIn
    <3> QED BY <3>3, <2>1, <2>3, <1>7
  <2> QED BY <2>2, <2>3
<1> QED
  BY <1>8, <1>9, <1>10, <1>11 DEF SetsInv

LEMMA SetsStep == ASSUME SetsInv, [OptionsNext]_optionVars PROVE SetsInv'
<1>1. CASE UNCHANGED <<arrays, sets, given>>
  BY <1>1 DEF SetsInv, SetsTypeOK, AloneKeepsKeys, Keys
<1>2. CASE NewRemovalSet(CallerKeys)
  <2>1. CallerKeys \in Slices /\ Lies(arrays, CallerKeys)
    BY DEF CallerKeys, Slices, SetsInv
  <2> QED BY <1>2, <2>1, NewRemovalSetPreserves DEF CallerKeys
<1>3. ASSUME NEW i \in DOMAIN sets, NewRemovalSet(sets[i]) PROVE SetsInv'
  <2>1. PICK s : s = sets[i]
    OBVIOUS
  <2>2. s \in Slices /\ Lies(arrays, s)
    BY <2>1 DEF SetsInv, SetsTypeOK
  <2> QED BY <1>3, <2>1, <2>2, NewRemovalSetPreserves
<1>4. ASSUME NEW i \in DOMAIN sets, NEW n \in Names, Add(i, n) PROVE SetsInv'
  BY <1>4, AddPreserves
<1>5. CASE RemovalSetNext
  BY <1>2, <1>3, <1>4, <1>5 DEF RemovalSetNext
<1>6. CASE UNCHANGED optionVars
  BY <1>1, <1>6 DEF optionVars
<1>7. CASE OptionsNext
  <2>1. ASSUME NEW n \in Names, NEW t \in MaskTypes, AddRule(n, t) PROVE SetsInv'
    BY <2>1, <1>1 DEF AddRule
  <2>2. ASSUME NEW list, NEW preset, New(list, preset) PROVE SetsInv'
    BY <2>2, <1>1 DEF New
  <2> QED BY <1>5, <1>7, <2>1, <2>2 DEF OptionsNext
<1> QED
  BY <1>6, <1>7

THEOREM SetsInvariance == OptionsSpec => []SetsInv
  BY SetsInitially, SetsStep, PTL DEF OptionsSpec

(***************************************************************************)
(* A RemovalSet loses no key and gains none, however it grows, as long as  *)
(* no other set was ever made over its array (removal.go Add).             *)
(***************************************************************************)
THEOREM OptionsRemovalSets == OptionsSpec => []AloneKeepsKeys
  BY SetsInvariance, PTL DEF SetsInv

-----------------------------------------------------------------------------
(***************************************************************************)
(* Built: FoldLeft applies one option after the other.                     *)
(***************************************************************************)
\* The function FoldLeft is defined by, of the first n options of list.
IsFolding(g, list, n) ==
    g = [s \in SUBSET (1 .. n) |->
            IF s = {} THEN defaultOptions(heap)
            ELSE apply(g[s \ {Max(s)}], list[Max(s)])]

LEMMA MaxOfUpto ==
    ASSUME NEW n \in Nat, NEW s \in SUBSET (1 .. n + 1), n + 1 \in s
    PROVE  Max(s) = n + 1
<1>1. \A x \in s : x \in Int /\ n + 1 >= x
  OBVIOUS
<1>2. PICK m \in s : m = Max(s) /\ m >= n + 1
  BY <1>1 DEF Max
<1>3. m \in Int /\ n + 1 >= m
  BY <1>1
<1> QED
  BY <1>2, <1>3

LEMMA MaxIsElement ==
    ASSUME NEW n \in Nat, NEW s \in SUBSET (1 .. n), s # {}
    PROVE  Max(s) \in s
<1> DEFINE D == {n - x : x \in s}
<1>1. \A x \in s : x \in 1 .. n
  OBVIOUS
<1>2. D \in SUBSET Nat /\ D # {}
  <2>1. \A x \in s : n - x \in Nat
    BY <1>1
  <2> QED BY <2>1
<1> HIDE DEF D
<1>3. PICK k \in D : \A m \in D : k <= m
  BY <1>2, LeastNat
<1>4. PICK x \in s : k = n - x
  BY DEF D
<1>5. ASSUME NEW y \in s PROVE x >= y
  <2>1. n - y \in D /\ y \in Int /\ x \in Int
    BY <1>1 DEF D
  <2> QED BY <1>3, <1>4, <2>1
<1> QED
  BY <1>5 DEF Max

LEMMA FoldingExists ==
    ASSUME NEW list, NEW n \in Nat
    PROVE  \E g : IsFolding(g, list, n)
<1> DEFINE T == {k \in Nat : \E g : IsFolding(g, list, k)}
<1>1. 0 \in T
  <2> DEFINE g == [s \in SUBSET (1 .. 0) |-> defaultOptions(heap)]
  <2>1. \A s \in SUBSET (1 .. 0) : s = {}
    OBVIOUS
  <2>2. IsFolding(g, list, 0)
    BY <2>1 DEF IsFolding
  <2> QED BY <2>2
<1>2. ASSUME NEW k \in Nat, k \in T PROVE k + 1 \in T
  <2>1. PICK g : IsFolding(g, list, k)
    BY <1>2
  <2> DEFINE e(f, s) == IF s = {} THEN defaultOptions(heap)
                        ELSE apply(f[s \ {Max(s)}], list[Max(s)])
             h == [s \in SUBSET (1 .. k + 1) |->
                      IF k + 1 \notin s THEN g[s] ELSE apply(g[s \ {k + 1}], list[k + 1])]
  <2>2. \A s \in SUBSET (1 .. k) : g[s] = e(g, s)
    BY <2>1 DEF IsFolding
  <2>3. \A s \in SUBSET (1 .. k) : s \in SUBSET (1 .. k + 1) /\ k + 1 \notin s /\ h[s] = g[s]
    OBVIOUS
  <2>4. ASSUME NEW s \in SUBSET (1 .. k + 1) PROVE h[s] = e(h, s)
    <3>1. CASE k + 1 \notin s
      <4>1. s \in SUBSET (1 .. k) /\ s \ {Max(s)} \in SUBSET (1 .. k)
        <5>1. \A x \in s : x \in 1 .. k
          BY <3>1
        <5> QED BY <5>1
      <4> QED BY <4>1, <2>2, <2>3
    <3>2. CASE k + 1 \in s
      <4>1. Max(s) = k + 1 /\ s # {} /\ s \ {Max(s)} \in SUBSET (1 .. k)
        <5>1. \A x \in s : x # k + 1 => x \in 1 .. k
          OBVIOUS
        <5>2. Max(s) = k + 1
          BY <3>2, MaxOfUpto
        <5> QED BY <3>2, <5>1, <5>2
      <4>2. h[s] = apply(g[s \ {k + 1}], list[k + 1])
        BY <3>2
      <4> HIDE DEF h
      <4> QED BY <4>1, <4>2, <2>3
    <3> QED BY <3>1, <3>2
  <2>5. h = [s \in SUBSET (1 .. k + 1) |-> h[s]]
    OBVIOUS
  <2> HIDE DEF h
  <2>6. h = [s \in SUBSET (1 .. k + 1) |-> e(h, s)]
    BY <2>4, <2>5
  <2>7. IsFolding(h, list, k + 1)
    BY <2>6 DEF IsFolding
  <2> QED BY <2>7
<1> HIDE DEF T
<1>3. n \in T
  BY <1>1, <1>2, NatSetInduction
<1> QED
  BY <1>3 DEF T

LEMMA BuiltByFolding ==
    ASSUME NEW list, Len(list) \in Nat, DOMAIN list = 1 .. Len(list)
    PROVE  \E g : IsFolding(g, list, Len(list)) /\ Built(list) = g[1 .. Len(list)]
<1> DEFINE f == CHOOSE g : g = [s \in SUBSET DOMAIN list |->
                    IF s = {} THEN defaultOptions(heap)
                    ELSE apply(g[s \ {Max(s)}], list[Max(s)])]
<1>1. \E g : g = [s \in SUBSET DOMAIN list |->
                    IF s = {} THEN defaultOptions(heap)
                    ELSE apply(g[s \ {Max(s)}], list[Max(s)])]
  <2>1. \E g : IsFolding(g, list, Len(list))
    BY FoldingExists
  <2> QED BY <2>1, Zenon DEF IsFolding
<1>2. f = [s \in SUBSET DOMAIN list |->
                    IF s = {} THEN defaultOptions(heap)
                    ELSE apply(f[s \ {Max(s)}], list[Max(s)])]
  BY <1>1, Zenon
<1>3. Built(list) = f[DOMAIN list]
  BY Zenon DEF Built, FoldLeft, MapThenFoldSet
<1> HIDE DEF f
<1> QED
  BY <1>2, <1>3, Zenon DEF IsFolding

\* A folding, one option at a time.
LEMMA FoldingSteps ==
    ASSUME NEW list, NEW n \in Nat, NEW g, IsFolding(g, list, n)
    PROVE  /\ g[1 .. 0] = defaultOptions(heap)
           /\ \A k \in Nat : k + 1 <= n => g[1 .. k + 1] = apply(g[1 .. k], list[k + 1])
<1> DEFINE e(s) == IF s = {} THEN defaultOptions(heap) ELSE apply(g[s \ {Max(s)}], list[Max(s)])
<1>1. \A s \in SUBSET (1 .. n) : g[s] = e(s)
  <2>1. g = [s \in SUBSET (1 .. n) |-> e(s)]
    BY Zenon DEF IsFolding
  <2> HIDE DEF e
  <2> QED BY <2>1
<1>2. g[1 .. 0] = defaultOptions(heap)
  BY <1>1
<1>3. ASSUME NEW k \in Nat, k + 1 <= n PROVE g[1 .. k + 1] = apply(g[1 .. k], list[k + 1])
  <2>1. 1 .. k + 1 \in SUBSET (1 .. n) /\ 1 .. k + 1 # {} /\ k + 1 \in 1 .. k + 1
    BY <1>3
  <2>2. Max(1 .. k + 1) = k + 1
    BY MaxOfUpto
  <2>3. (1 .. k + 1) \ {k + 1} = 1 .. k
    OBVIOUS
  <2> QED BY <1>1, <2>1, <2>2, <2>3
<1> QED
  BY <1>2, <1>3

LEMMA BuiltEmpty == Built(<< >>) = defaultOptions(heap)
<1>1. Len(<< >>) = 0 /\ DOMAIN << >> = 1 .. Len(<< >>)
  OBVIOUS
<1>2. PICK g : IsFolding(g, << >>, 0) /\ Built(<< >>) = g[1 .. 0]
  BY <1>1, BuiltByFolding
<1> QED
  BY <1>2, FoldingSteps

LEMMA BuiltAppend ==
    ASSUME NEW S, NEW list \in Seq(S), NEW o \in S
    PROVE  Built(Append(list, o)) = apply(Built(list), o)
<1> DEFINE l == Append(list, o)
           n == Len(list)
<1>1. /\ n \in Nat /\ DOMAIN list = 1 .. n /\ Len(l) = n + 1 /\ DOMAIN l = 1 .. Len(l)
      /\ l[n + 1] = o /\ \A i \in 1 .. n : l[i] = list[i]
  OBVIOUS
<1> HIDE DEF l, n
<1>2. PICK f : IsFolding(f, list, n) /\ Built(list) = f[1 .. n]
  BY <1>1, BuiltByFolding DEF n
<1>3. PICK g : IsFolding(g, l, n + 1) /\ Built(l) = g[1 .. n + 1]
  BY <1>1, BuiltByFolding
<1>4. /\ f[1 .. 0] = defaultOptions(heap)
      /\ \A k \in Nat : k + 1 <= n => f[1 .. k + 1] = apply(f[1 .. k], list[k + 1])
  BY <1>1, <1>2, FoldingSteps
<1>5. /\ g[1 .. 0] = defaultOptions(heap)
      /\ \A k \in Nat : k + 1 <= n + 1 => g[1 .. k + 1] = apply(g[1 .. k], l[k + 1])
  BY <1>1, <1>3, FoldingSteps
<1> DEFINE T == {k \in Nat : k <= n => f[1 .. k] = g[1 .. k]}
<1>6. 0 \in T
  BY <1>4, <1>5
<1>7. ASSUME NEW k \in Nat, k \in T PROVE k + 1 \in T
  <2> SUFFICES ASSUME k + 1 <= n PROVE f[1 .. k + 1] = g[1 .. k + 1]
    OBVIOUS
  <2>1. f[1 .. k] = g[1 .. k] /\ list[k + 1] = l[k + 1]
    BY <1>1, <1>7
  <2>2. f[1 .. k + 1] = apply(f[1 .. k], list[k + 1])
    BY <1>4
  <2>3. g[1 .. k + 1] = apply(g[1 .. k], l[k + 1])
    BY <1>1, <1>5
  <2> QED BY <2>1, <2>2, <2>3
<1> HIDE DEF T
<1>8. f[1 .. n] = g[1 .. n]
  <2>1. n \in T
    BY <1>1, <1>6, <1>7, NatSetInduction
  <2> QED BY <2>1, <1>1 DEF T
<1>9. g[1 .. n + 1] = apply(g[1 .. n], o)
  BY <1>1, <1>5
<1> QED
  BY <1>2, <1>3, <1>8, <1>9, Zenon DEF l

-----------------------------------------------------------------------------
(***************************************************************************)
(* What a list of options says, and that Built does it.                    *)
(***************************************************************************)
Maps == UNION {[D -> MaskTypes \cup Labels] : D \in SUBSET (Names \cup Levels)}
Maskers == [kind : {"default", "corporate"}, fingerprint : BOOLEAN]
Cfgs == [maskKeys : Nat, levelNames : Nat, removeKeys : SUBSET Slots, masker : Maskers,
         dumpDepth : Int, dumpFields : Int, stackDepth : Int]
MaskerSaid(list) == Over(LastSays(list, "masker"), Entry("masker", DefaultMasker))["masker"]

\* b is what the options of list make of the defaults.
Building(b, list) ==
    LET n == Len(heap)
    IN  /\ b \in [heap : Seq(Maps), cfg : Cfgs]
        /\ Len(b.heap) = n + 2
        /\ \A i \in 1 .. n : b.heap[i] = heap[i]
        /\ b.cfg.maskKeys = n + 1 /\ b.cfg.levelNames = n + 2
        /\ b.heap[n + 1] = LastSays(list, "maskKeys")
        /\ b.heap[n + 2] = Over(LastSays(list, "levelNames"), heap[1])
        /\ b.cfg.masker = MaskerSaid(list)
        /\ b.cfg.dumpDepth > 0 /\ b.cfg.dumpFields > 0 /\ b.cfg.stackDepth > 0

HeapOK ==
    /\ heap \in Seq(Maps)
    /\ Len(heap) >= 2
    /\ heap[1] = defaultLevelNames

LEMMA MapsClosed ==
    /\ << >> \in Maps
    /\ defaultLevelNames \in Maps /\ CorporateMaskRules \in Maps
    /\ \A n \in Names, t \in MaskTypes : Entry(n, t) \in Maps
    /\ \A l \in Levels, t \in Labels : Entry(l, t) \in Maps
    /\ \A f, g \in Maps : Over(f, g) \in Maps
<1> DEFINE K == Names \cup Levels
           V == MaskTypes \cup Labels
<1>1. ASSUME NEW D \in SUBSET K, NEW f \in [D -> V] PROVE f \in Maps
  BY DEF Maps
<1>2. ASSUME NEW f \in Maps PROVE /\ f = [x \in DOMAIN f |-> f[x]]
                                  /\ DOMAIN f \in SUBSET K
                                  /\ \A x \in DOMAIN f : f[x] \in V
  BY DEF Maps
<1>3. << >> \in [{} -> V]
  OBVIOUS
<1>4. defaultLevelNames \in [DOMAIN defaultLevelNames -> V]
      /\ CorporateMaskRules \in [DOMAIN CorporateMaskRules -> V]
  BY OptionsAssumption
<1>5. DOMAIN defaultLevelNames \in SUBSET K /\ DOMAIN CorporateMaskRules \in SUBSET K
  BY OptionsAssumption
<1>6. \A n \in Names, t \in MaskTypes : Entry(n, t) \in [{n} -> V]
  BY DEF Entry
<1>7. \A l \in Levels, t \in Labels : Entry(l, t) \in [{l} -> V]
  BY DEF Entry
<1>8. ASSUME NEW f \in Maps, NEW g \in Maps
      PROVE  /\ Over(f, g) \in [DOMAIN f \cup DOMAIN g -> V]
             /\ DOMAIN f \cup DOMAIN g \in SUBSET K
  BY <1>2 DEF Over
<1>9. << >> \in Maps /\ defaultLevelNames \in Maps /\ CorporateMaskRules \in Maps
  <2>1. {} \in SUBSET K
    OBVIOUS
  <2> QED BY <2>1, <1>1, <1>3, <1>4, <1>5
<1>10. ASSUME NEW n \in Names, NEW t \in MaskTypes PROVE Entry(n, t) \in Maps
  <2>1. {n} \in SUBSET K /\ Entry(n, t) \in [{n} -> V]
    BY <1>6
  <2> QED BY <2>1, <1>1
<1>11. ASSUME NEW l \in Levels, NEW t \in Labels PROVE Entry(l, t) \in Maps
  <2>1. {l} \in SUBSET K /\ Entry(l, t) \in [{l} -> V]
    BY <1>7
  <2> QED BY <2>1, <1>1
<1>12. ASSUME NEW f \in Maps, NEW g \in Maps PROVE Over(f, g) \in Maps
  BY <1>1, <1>8
<1> QED
  BY <1>9, <1>10, <1>11, <1>12

\* Nothing said, and what is said last overriding what was said before.
LEMMA LastSaysEmpty ==
    ASSUME NEW field
    PROVE  LastSays(<< >>, field) = << >>
  BY DEF LastSays

LEMMA LastSaysAppend ==
    ASSUME NEW S, NEW list \in Seq(S), NEW o, NEW field
    PROVE  LastSays(Append(list, o), field) = Over(Says(o)[field], LastSays(list, field))
<1> DEFINE l == Append(list, o)
           n == Len(list)
           says(i) == Says(list[i])[field]
           new == Says(o)[field]
           who(k) == {i \in 1 .. n : k \in DOMAIN says(i)}
           D == UNION {DOMAIN says(i) : i \in 1 .. n}
           what(k) == says(Max(who(k)))[k]
           old == [k \in D |-> what(k)]
           saysL(i) == Says(l[i])[field]
           whoL(k) == {i \in 1 .. n + 1 : k \in DOMAIN saysL(i)}
           DL == UNION {DOMAIN saysL(i) : i \in 1 .. n + 1}
           whatL(k) == saysL(Max(whoL(k)))[k]
<1>1. /\ n \in Nat /\ DOMAIN list = 1 .. n /\ DOMAIN l = 1 .. n + 1
      /\ l[n + 1] = o /\ \A i \in 1 .. n : l[i] = list[i]
  OBVIOUS
<1>2. LastSays(list, field) = [k \in D |-> what(k)]
  BY <1>1, Zenon DEF LastSays
<1>3. LastSays(l, field) = [k \in DL |-> whatL(k)]
  BY <1>1, Zenon DEF LastSays
<1>4. /\ saysL(n + 1) = new
      /\ \A i \in 1 .. n : saysL(i) = says(i)
  BY <1>1
<1> HIDE DEF l, says, saysL, new
<1>5. DL = DOMAIN new \cup D
  <2>1. 1 .. n + 1 = (1 .. n) \cup {n + 1}
    BY <1>1
  <2> QED BY <1>4, <2>1
<1>6. ASSUME NEW k \in DL
      PROVE  whatL(k) = IF k \in DOMAIN new THEN new[k] ELSE old[k]
  <2>1. CASE k \in DOMAIN new
    <3>1. n + 1 \in whoL(k) /\ whoL(k) \in SUBSET (1 .. n + 1)
      BY <1>1, <1>4, <2>1
    <3>2. Max(whoL(k)) = n + 1
      <4> HIDE DEF whoL
      <4> QED BY <1>1, <3>1, MaxOfUpto
    <3> QED BY <2>1, <3>2, <1>4
  <2>2. CASE k \notin DOMAIN new
    <3>1. whoL(k) = who(k) /\ k \in D
      BY <1>1, <1>4, <1>5, <2>2
    <3>2. Max(who(k)) \in 1 .. n
      <4>1. who(k) \in SUBSET (1 .. n) /\ who(k) # {}
        BY <3>1
      <4> HIDE DEF who
      <4> QED BY <1>1, <4>1, MaxIsElement
    <3> QED BY <2>2, <3>1, <3>2, <1>4
  <2> QED BY <2>1, <2>2
<1>7. DOMAIN old = D
  OBVIOUS
<1> HIDE DEF D, what, old, DL, whatL
<1>8. [k \in DL |-> whatL(k)] = Over(new, old)
  BY <1>5, <1>6, <1>7 DEF Over
<1> QED
  BY <1>2, <1>3, <1>8 DEF l, new, old

\* Over, of a third map as well, and of none.
LEMMA OverOver ==
    ASSUME NEW f, NEW g, NEW h
    PROVE  /\ Over(Over(f, g), h) = Over(f, Over(g, h))
           /\ g = [x \in DOMAIN g |-> g[x]] => Over(<< >>, g) = g
<1>1. \A a, b : DOMAIN Over(a, b) = DOMAIN a \cup DOMAIN b
  BY DEF Over
<1>2. \A a, b : \A x \in DOMAIN a \cup DOMAIN b :
          Over(a, b)[x] = IF x \in DOMAIN a THEN a[x] ELSE b[x]
  BY DEF Over
<1>3. Over(Over(f, g), h) = [x \in DOMAIN f \cup DOMAIN g \cup DOMAIN h |->
                                IF x \in DOMAIN f THEN f[x] ELSE
                                IF x \in DOMAIN g THEN g[x] ELSE h[x]]
  BY <1>1, <1>2 DEF Over
<1>4. Over(f, Over(g, h)) = [x \in DOMAIN f \cup DOMAIN g \cup DOMAIN h |->
                                IF x \in DOMAIN f THEN f[x] ELSE
                                IF x \in DOMAIN g THEN g[x] ELSE h[x]]
  BY <1>1, <1>2 DEF Over
<1>5. ASSUME g = [x \in DOMAIN g |-> g[x]] PROVE Over(<< >>, g) = g
  <2>1. DOMAIN << >> = {}
    OBVIOUS
  <2> QED BY <2>1, <1>5 DEF Over
<1> QED
  BY <1>3, <1>4, <1>5

\* An option that says nothing leaves what was said.
LEMMA SaysNothing ==
    ASSUME NEW S, NEW list \in Seq(S), NEW o, NEW field, Says(o)[field] = << >>
    PROVE  LastSays(Append(list, o), field) = LastSays(list, field)
<1>1. LastSays(list, field) = [x \in DOMAIN LastSays(list, field) |-> LastSays(list, field)[x]]
  BY DEF LastSays
<1>2. LastSays(Append(list, o), field) = Over(<< >>, LastSays(list, field))
  BY LastSaysAppend
<1>3. PICK g : g = LastSays(list, field)
  OBVIOUS
<1>4. Over(<< >>, g) = g
  BY <1>1, <1>3, OverOver
<1> QED
  BY <1>2, <1>3, <1>4

LEMMA OptionShapes ==
    ASSUME NEW o \in Options
    PROVE  /\ o.opt \in {"maskKey", "maskRules", "corporateMasking", "nilMasker", "corporateMasker",
                         "removal", "levelName", "dumpLimits", "stackDepth"}
           /\ o.opt = "maskKey" => o.name \in Names /\ o.type \in MaskTypes
           /\ o.opt = "corporateMasker" => o.fingerprint \in BOOLEAN
           /\ o.opt = "removal" => o.set \in 1 .. Len(sets)
           /\ o.opt = "levelName" => o.level \in Levels /\ o.label \in Labels
           /\ o.opt \in {"dumpLimits", "stackDepth"} => o.n \in Int
  BY OptionsAssumption DEF Options

\* What an option says, case by case.
LEMMA SaysCases ==
    ASSUME NEW o \in Options
    PROVE  /\ o.opt = "maskKey" => Says(o).maskKeys = Entry(o.name, o.type)
           /\ o.opt = "maskRules" => Says(o).maskKeys = heap[Builder]
           /\ o.opt = "corporateMasking" => Says(o).maskKeys = CorporateMaskRules
           /\ o.opt \notin {"maskKey", "maskRules", "corporateMasking"} => Says(o).maskKeys = << >>
           /\ o.opt = "levelName" => Says(o).levelNames = Entry(o.level, o.label)
           /\ o.opt # "levelName" => Says(o).levelNames = << >>
           /\ o.opt = "corporateMasking" => Says(o).masker = Entry("masker", CorporateMasker(FALSE))
           /\ o.opt = "corporateMasker" =>
                 Says(o).masker = Entry("masker", CorporateMasker(o.fingerprint))
           /\ o.opt \notin {"corporateMasking", "corporateMasker"} => Says(o).masker = << >>
  BY OptionShapes DEF Says

\* The masker an option names is the one that counts.
LEMMA MaskerOverridden ==
    ASSUME NEW S, NEW list \in Seq(S), NEW o, NEW m, Says(o).masker = Entry("masker", m)
    PROVE  MaskerSaid(Append(list, o)) = m
<1>1. LastSays(Append(list, o), "masker") = Over(Entry("masker", m), LastSays(list, "masker"))
  BY LastSaysAppend
<1>2. \A f : LET g == Over(Over(Entry("masker", m), f), Entry("masker", DefaultMasker))
             IN  g["masker"] = m
  BY DEF Over, Entry
<1> QED
  BY <1>1, <1>2 DEF MaskerSaid

LEMMA MaskerKept ==
    ASSUME NEW S, NEW list \in Seq(S), NEW o, Says(o).masker = << >>
    PROVE  MaskerSaid(Append(list, o)) = MaskerSaid(list)
  BY SaysNothing DEF MaskerSaid

\* A copy into one of the maps being built changes that map alone.
LEMMA CopyIntoOne ==
    ASSUME NEW b \in [heap : Seq(Maps), cfg : Cfgs], NEW map \in 1 .. Len(b.heap),
           NEW from \in Maps
    PROVE  /\ CopyInto(b, map, from) \in [heap : Seq(Maps), cfg : Cfgs]
           /\ CopyInto(b, map, from).cfg = b.cfg
           /\ Len(CopyInto(b, map, from).heap) = Len(b.heap)
           /\ CopyInto(b, map, from).heap[map] = Over(from, b.heap[map])
           /\ \A i \in 1 .. Len(b.heap) : i # map => CopyInto(b, map, from).heap[i] = b.heap[i]
<1> DEFINE x == Over(from, b.heap[map])
           h == [b.heap EXCEPT ![map] = x]
           c == CopyInto(b, map, from)
<1>1. b.heap \in Seq(Maps) /\ b.cfg \in Cfgs
  OBVIOUS
<1>2. x \in Maps
  BY <1>1, MapsClosed
<1>3. c = [b EXCEPT !.heap = h]
  BY DEF CopyInto
<1> HIDE DEF x, c
<1>4. /\ h \in Seq(Maps) /\ Len(h) = Len(b.heap) /\ h[map] = x
      /\ \A i \in 1 .. Len(b.heap) : i # map => h[i] = b.heap[i]
  BY <1>1, <1>2
<1> HIDE DEF h
<1>5. c \in [heap : Seq(Maps), cfg : Cfgs] /\ c.heap = h /\ c.cfg = b.cfg
  BY <1>1, <1>3, <1>4
<1> QED
  BY <1>4, <1>5 DEF c, x

LEMMA BuildingDefaults ==
    ASSUME HeapOK
    PROVE  Building(defaultOptions(heap), << >>)
<1> DEFINE b == defaultOptions(heap)
           n == Len(heap)
           two == << << >>, heap[1] >>
<1>1. heap \in Seq(Maps) /\ n \in Nat /\ heap[1] \in Maps /\ << >> \in Maps
  BY MapsClosed DEF HeapOK
<1>2. two \in Seq(Maps) /\ Len(two) = 2 /\ two[1] = << >> /\ two[2] = heap[1]
  BY <1>1
<1> HIDE DEF two
<1>3. /\ heap \o two \in Seq(Maps) /\ Len(heap \o two) = n + 2
      /\ \A i \in 1 .. n : (heap \o two)[i] = heap[i]
      /\ (heap \o two)[n + 1] = << >> /\ (heap \o two)[n + 2] = heap[1]
  <2>1. /\ heap \o two \in Seq(Maps) /\ Len(heap \o two) = n + 2
        /\ \A i \in 1 .. n + 2 : (heap \o two)[i] = IF i <= n THEN heap[i] ELSE two[i - n]
    <3> HIDE DEF b, n
    <3>1. PICK h \in Seq(Maps) : h = heap /\ Len(h) = n
      BY <1>1 DEF n
    <3>2. /\ h \o two \in Seq(Maps) /\ Len(h \o two) = Len(h) + Len(two)
          /\ \A i \in 1 .. Len(h) + Len(two) :
                (h \o two)[i] = IF i <= Len(h) THEN h[i] ELSE two[i - Len(h)]
      BY <1>2, ConcatProperties
    <3> QED BY <1>2, <3>1, <3>2
  <2>2. (n + 1) - n = 1 /\ (n + 2) - n = 2 /\ n + 1 \in 1 .. n + 2 /\ n + 2 \in 1 .. n + 2
    BY <1>1
  <2> QED BY <1>1, <1>2, <2>1, <2>2
<1>4. /\ b.heap = heap \o two
      /\ b.cfg = [maskKeys |-> n + 1, levelNames |-> n + 2, removeKeys |-> {},
                  masker |-> DefaultMasker, dumpDepth |-> 5, dumpFields |-> 64, stackDepth |-> 32]
      /\ b = [heap |-> b.heap, cfg |-> b.cfg]
  BY DEF defaultOptions, two
<1>5. DefaultMasker \in Maskers
  BY DEF DefaultMasker, Maskers
<1> HIDE DEF b
<1>6. b.cfg \in Cfgs
  BY <1>1, <1>4, <1>5 DEF Cfgs
<1>7. b \in [heap : Seq(Maps), cfg : Cfgs]
  BY <1>3, <1>4, <1>6
<1>8. LastSays(<< >>, "maskKeys") = << >>
  BY LastSaysEmpty
<1>9. Over(LastSays(<< >>, "levelNames"), heap[1]) = heap[1]
  <2>1. heap[1] = [x \in DOMAIN heap[1] |-> heap[1][x]]
    BY <1>1 DEF Maps
  <2>2. PICK g : g = heap[1]
    OBVIOUS
  <2>3. Over(<< >>, g) = g
    BY <2>1, <2>2, OverOver
  <2> QED BY <2>2, <2>3, LastSaysEmpty
<1>10. MaskerSaid(<< >>) = DefaultMasker
  <2>1. LastSays(<< >>, "masker") = << >>
    BY LastSaysEmpty
  <2>2. Over(<< >>, Entry("masker", DefaultMasker))["masker"] = DefaultMasker
    BY DEF Over, Entry
  <2> QED BY <2>1, <2>2 DEF MaskerSaid
<1>11. /\ b.cfg.maskKeys = n + 1 /\ b.cfg.levelNames = n + 2 /\ b.cfg.masker = DefaultMasker
       /\ b.cfg.dumpDepth = 5 /\ b.cfg.dumpFields = 64 /\ b.cfg.stackDepth = 32
  BY <1>4
<1> QED
  BY <1>3, <1>4, <1>7, <1>8, <1>9, <1>10, <1>11 DEF Building, b

\* Each option does what it says, and leaves alone what it says nothing of.
LEMMA ApplyBuilds ==
    ASSUME HeapOK, SetsInv, NEW list \in Seq(Options), NEW o \in Options,
           NEW b, Building(b, list)
    PROVE  Building(apply(b, o), Append(list, o))
<1> DEFINE n == Len(heap)
           l == Append(list, o)
           Keys1(L) == LastSays(L, "maskKeys")
           Levels1(L) == LastSays(L, "levelNames")
           c == apply(b, o)
<1> SUFFICES Building(c, l)
  OBVIOUS
<1>1. /\ n \in Nat /\ n >= 2 /\ heap \in Seq(Maps) /\ heap[1] \in Maps /\ heap[Builder] \in Maps
      /\ b \in [heap : Seq(Maps), cfg : Cfgs] /\ b.heap \in Seq(Maps) /\ b.cfg \in Cfgs
      /\ Len(b.heap) = n + 2 /\ b.heap[Builder] = heap[Builder]
      /\ \A i \in 1 .. n : b.heap[i] = heap[i]
      /\ b.cfg.maskKeys = n + 1 /\ b.cfg.levelNames = n + 2
      /\ b.heap[n + 1] = Keys1(list) /\ b.heap[n + 2] = Over(Levels1(list), heap[1])
      /\ b.cfg.masker = MaskerSaid(list)
      /\ b.cfg.dumpDepth > 0 /\ b.cfg.dumpFields > 0 /\ b.cfg.stackDepth > 0
  BY DEF HeapOK, Building, Builder
<1>2. /\ Keys1(l) = Over(Says(o).maskKeys, Keys1(list))
      /\ Levels1(l) = Over(Says(o).levelNames, Levels1(list))
      /\ Says(o).maskKeys = << >> => Keys1(l) = Keys1(list)
      /\ Says(o).levelNames = << >> => Levels1(l) = Levels1(list)
      /\ Says(o).masker = << >> => MaskerSaid(l) = MaskerSaid(list)
  BY LastSaysAppend, SaysNothing, MaskerKept
<1> HIDE DEF n, l, Keys1, Levels1, c
<1>3. ASSUME NEW x \in [heap : Seq(Maps), cfg : Cfgs], c = x,
             Len(x.heap) = n + 2, \A i \in 1 .. n : x.heap[i] = heap[i],
             x.cfg.maskKeys = n + 1, x.cfg.levelNames = n + 2,
             x.heap[n + 1] = Keys1(l), x.heap[n + 2] = Over(Levels1(l), heap[1]),
             x.cfg.masker = MaskerSaid(l),
             x.cfg.dumpDepth > 0, x.cfg.dumpFields > 0, x.cfg.stackDepth > 0
      PROVE  Building(c, l)
  BY <1>3 DEF Building, n, Keys1, Levels1
\* A map of rules copied into the map of the Config.
<1>4. ASSUME NEW from \in Maps, Says(o).maskKeys = from, NEW m \in Maskers,
             Says(o).levelNames = << >>, MaskerSaid(l) = m,
             c = CopyInto([b EXCEPT !.cfg.masker = m], n + 1, from)
      PROVE  Building(c, l)
  <2> DEFINE a == [b EXCEPT !.cfg.masker = m]
  <2>1. a \in [heap : Seq(Maps), cfg : Cfgs] /\ a.heap = b.heap /\ n + 1 \in 1 .. Len(a.heap)
    <3> DEFINE k == [b.cfg EXCEPT !.masker = m]
    <3>1. k \in Cfgs /\ a = [b EXCEPT !.cfg = k]
      BY <1>1 DEF Cfgs
    <3> HIDE DEF k, a
    <3>2. a \in [heap : Seq(Maps), cfg : Cfgs] /\ a.heap = b.heap
      BY <1>1, <3>1
    <3> QED BY <1>1, <3>2
  <2>2. /\ a.cfg.masker = m /\ a.cfg.maskKeys = n + 1 /\ a.cfg.levelNames = n + 2
        /\ a.cfg.dumpDepth > 0 /\ a.cfg.dumpFields > 0 /\ a.cfg.stackDepth > 0
    BY <1>1 DEF Cfgs
  <2> HIDE DEF a
  <2>3. /\ c \in [heap : Seq(Maps), cfg : Cfgs] /\ c.cfg = a.cfg /\ Len(c.heap) = Len(a.heap)
        /\ c.heap[n + 1] = Over(from, a.heap[n + 1])
        /\ \A i \in 1 .. Len(a.heap) : i # n + 1 => c.heap[i] = a.heap[i]
    <3>1. c = CopyInto(a, n + 1, from)
      BY <1>4 DEF a
    <3> QED BY <2>1, <3>1, CopyIntoOne
  <2>4. c.heap[n + 1] = Keys1(l) /\ c.heap[n + 2] = Over(Levels1(l), heap[1])
        /\ \A i \in 1 .. n : c.heap[i] = heap[i]
    <3>1. Len(a.heap) = n + 2 /\ a.heap[n + 1] = Keys1(list)
          /\ a.heap[n + 2] = Over(Levels1(list), heap[1])
          /\ \A i \in 1 .. n : a.heap[i] = heap[i]
      BY <1>1, <2>1
    <3>2. n + 2 \in 1 .. n + 2 /\ n + 2 # n + 1
          /\ \A i \in 1 .. n : i \in 1 .. n + 2 /\ i # n + 1
      BY <1>1
    <3>3. Keys1(l) = Over(from, Keys1(list)) /\ Levels1(l) = Levels1(list)
      BY <1>2, <1>4
    <3> QED BY <2>3, <3>1, <3>2, <3>3
  <2>5. /\ Len(c.heap) = n + 2 /\ c.cfg.maskKeys = n + 1 /\ c.cfg.levelNames = n + 2
        /\ c.cfg.masker = MaskerSaid(l)
        /\ c.cfg.dumpDepth > 0 /\ c.cfg.dumpFields > 0 /\ c.cfg.stackDepth > 0
    BY <1>1, <1>4, <2>1, <2>2, <2>3
  <2> QED BY <1>3, <2>3, <2>4, <2>5
\* The masker, or one of the numbers or the keys to remove, replaced.
<1>5. ASSUME NEW k \in Cfgs, c = [b EXCEPT !.cfg = k],
             k.maskKeys = n + 1, k.levelNames = n + 2, k.masker = MaskerSaid(l),
             k.dumpDepth > 0, k.dumpFields > 0, k.stackDepth > 0,
             Says(o).maskKeys = << >>, Says(o).levelNames = << >>
      PROVE  Building(c, l)
  <2>1. c \in [heap : Seq(Maps), cfg : Cfgs] /\ c.heap = b.heap /\ c.cfg = k
    BY <1>1, <1>5
  <2> QED BY <1>1, <1>2, <1>3, <1>5, <2>1
<1>6. /\ CorporateMasker(FALSE) \in Maskers
      /\ o.opt = "corporateMasker" => CorporateMasker(o.fingerprint) \in Maskers
      /\ b.cfg.masker \in Maskers
  BY <1>1, OptionShapes DEF CorporateMasker, Maskers, Cfgs
<1>7. CASE o.opt = "maskKey"
  <2>1. Entry(o.name, o.type) \in Maps /\ Says(o).maskKeys = Entry(o.name, o.type)
        /\ Says(o).levelNames = << >> /\ Says(o).masker = << >>
    BY <1>7, OptionShapes, SaysCases, MapsClosed
  <2>2. b = [b EXCEPT !.cfg.masker = b.cfg.masker]
    BY <1>1 DEF Cfgs
  <2>3. c = CopyInto([b EXCEPT !.cfg.masker = b.cfg.masker], n + 1, Entry(o.name, o.type))
    BY <1>1, <1>7, <2>2 DEF c, apply
  <2> QED BY <1>1, <1>2, <1>4, <1>6, <2>1, <2>3
<1>8. CASE o.opt = "maskRules"
  <2>1. Says(o).maskKeys = heap[Builder] /\ Says(o).levelNames = << >> /\ Says(o).masker = << >>
    BY <1>8, SaysCases
  <2>2. b = [b EXCEPT !.cfg.masker = b.cfg.masker]
    BY <1>1 DEF Cfgs
  <2>3. c = CopyInto([b EXCEPT !.cfg.masker = b.cfg.masker], n + 1, heap[Builder])
    BY <1>1, <1>8, <2>2 DEF c, apply, WithMaskRules
  <2> QED BY <1>1, <1>2, <1>4, <1>6, <2>1, <2>3
<1>9. CASE o.opt = "corporateMasking"
  <2>1. CorporateMaskRules \in Maps /\ Says(o).maskKeys = CorporateMaskRules
        /\ Says(o).levelNames = << >> /\ MaskerSaid(l) = CorporateMasker(FALSE)
    <3>1. Says(o).masker = Entry("masker", CorporateMasker(FALSE))
      BY <1>9, SaysCases
    <3>2. MaskerSaid(l) = CorporateMasker(FALSE)
      BY <3>1, MaskerOverridden DEF l
    <3> QED BY <1>9, <3>2, SaysCases, MapsClosed
  <2>2. c = CopyInto([b EXCEPT !.cfg.masker = CorporateMasker(FALSE)], n + 1, CorporateMaskRules)
    BY <1>1, <1>9 DEF c, apply, WithCorporateMasking
  <2> QED BY <1>4, <1>6, <2>1, <2>2
<1>10. CASE o.opt = "corporateMasker"
  <2> DEFINE m == CorporateMasker(o.fingerprint)
             k == [b.cfg EXCEPT !.masker = m]
  <2>1. Says(o).maskKeys = << >> /\ Says(o).levelNames = << >> /\ MaskerSaid(l) = m
    <3>1. Says(o).masker = Entry("masker", m)
      BY <1>10, SaysCases
    <3> HIDE DEF m
    <3>2. MaskerSaid(l) = m
      BY <3>1, MaskerOverridden DEF l
    <3> QED BY <1>10, <3>2, SaysCases
  <2>2. m \in Maskers /\ c = [b EXCEPT !.cfg = k]
    BY <1>6, <1>10 DEF c, apply
  <2> HIDE DEF m
  <2>3. /\ k \in Cfgs /\ k.maskKeys = n + 1 /\ k.levelNames = n + 2 /\ k.masker = m
        /\ k.dumpDepth > 0 /\ k.dumpFields > 0 /\ k.stackDepth > 0
    BY <1>1, <2>2 DEF Cfgs
  <2> HIDE DEF k
  <2> QED BY <1>5, <2>1, <2>2, <2>3
<1>11. CASE o.opt \in {"nilMasker", "removal", "dumpLimits", "stackDepth"}
  <2>1. Says(o).maskKeys = << >> /\ Says(o).levelNames = << >> /\ MaskerSaid(l) = MaskerSaid(list)
    BY <1>2, <1>11, SaysCases
  <2>2. ASSUME NEW k \in Cfgs, c = [b EXCEPT !.cfg = k],
               k.maskKeys = n + 1, k.levelNames = n + 2, k.masker = b.cfg.masker,
               k.dumpDepth > 0, k.dumpFields > 0, k.stackDepth > 0
        PROVE  Building(c, l)
    BY <1>1, <1>5, <2>1, <2>2
  <2>3. CASE o.opt = "nilMasker"
    <3>1. c = [b EXCEPT !.cfg = b.cfg]
      BY <1>1, <2>3 DEF c, apply
    <3> QED BY <1>1, <2>2, <3>1
  <2>4. CASE o.opt = "removal"
    <3> DEFINE k == [b.cfg EXCEPT !.removeKeys = @ \cup ToSet(Keys(sets[o.set]))]
    <3>1. ToSet(Keys(sets[o.set])) \in SUBSET Slots
      <4>1. PICK s : s = sets[o.set]
        OBVIOUS
      <4>2. arrays \in Seq(Seq(Slots)) /\ s \in Slices /\ Lies(arrays, s)
        BY <2>4, <4>1, OptionShapes DEF SetsInv, SetsTypeOK
      <4>3. ItemsIn(arrays, s) \in Seq(Slots)
        BY <4>2, SliceItems
      <4> QED BY <4>1, <4>3 DEF Keys, ItemsIn, ToSet
    <3>2. c = [b EXCEPT !.cfg = k]
      BY <1>1, <2>4 DEF c, apply
    <3>3. /\ k \in Cfgs /\ k.maskKeys = n + 1 /\ k.levelNames = n + 2 /\ k.masker = b.cfg.masker
          /\ k.dumpDepth > 0 /\ k.dumpFields > 0 /\ k.stackDepth > 0
      BY <1>1, <3>1 DEF Cfgs
    <3> HIDE DEF k
    <3> QED BY <2>2, <3>2, <3>3
  <2>5. CASE o.opt = "dumpLimits"
    <3> DEFINE k == [b.cfg EXCEPT !.dumpDepth = positive(o.n, @), !.dumpFields = positive(o.n, @)]
    <3>1. c = [b EXCEPT !.cfg = k]
      BY <1>1, <2>5 DEF c, apply, WithDumpLimits
    <3>2. /\ k \in Cfgs /\ k.maskKeys = n + 1 /\ k.levelNames = n + 2 /\ k.masker = b.cfg.masker
          /\ k.dumpDepth > 0 /\ k.dumpFields > 0 /\ k.stackDepth > 0
      BY <1>1, <2>5, OptionShapes DEF Cfgs, positive
    <3> HIDE DEF k
    <3> QED BY <2>2, <3>1, <3>2
  <2>6. CASE o.opt = "stackDepth"
    <3> DEFINE k == [b.cfg EXCEPT !.stackDepth = positive(o.n, @)]
    <3>1. c = [b EXCEPT !.cfg = k]
      BY <1>1, <2>6 DEF c, apply
    <3>2. /\ k \in Cfgs /\ k.maskKeys = n + 1 /\ k.levelNames = n + 2 /\ k.masker = b.cfg.masker
          /\ k.dumpDepth > 0 /\ k.dumpFields > 0 /\ k.stackDepth > 0
      BY <1>1, <2>6, OptionShapes DEF Cfgs, positive
    <3> HIDE DEF k
    <3> QED BY <2>2, <3>1, <3>2
  <2> QED BY <1>11, <2>3, <2>4, <2>5, <2>6
<1>12. CASE o.opt = "levelName"
  <2> DEFINE e == Entry(o.level, o.label)
  <2>1. e \in Maps /\ Says(o).maskKeys = << >> /\ Says(o).levelNames = e
        /\ MaskerSaid(l) = MaskerSaid(list)
    BY <1>2, <1>12, OptionShapes, SaysCases, MapsClosed
  <2>2. n + 2 \in 1 .. Len(b.heap) /\ c = CopyInto(b, n + 2, e)
    BY <1>1, <1>12 DEF c, apply
  <2> HIDE DEF e
  <2>3. /\ c \in [heap : Seq(Maps), cfg : Cfgs] /\ c.cfg = b.cfg /\ Len(c.heap) = Len(b.heap)
        /\ c.heap[n + 2] = Over(e, b.heap[n + 2])
        /\ \A i \in 1 .. Len(b.heap) : i # n + 2 => c.heap[i] = b.heap[i]
    BY <1>1, <2>1, <2>2, CopyIntoOne
  <2>4. Over(e, b.heap[n + 2]) = Over(Levels1(l), heap[1])
    BY <1>1, <1>2, <2>1, OverOver
  <2> QED BY <1>1, <1>2, <1>3, <2>1, <2>3, <2>4
<1> QED
  BY <1>7, <1>8, <1>9, <1>10, <1>11, <1>12, OptionShapes

LEMMA BuiltIsPromised ==
    ASSUME HeapOK, SetsInv, NEW list \in Seq(Options)
    PROVE  Building(Built(list), list)
<1> DEFINE T == {l \in Seq(Options) : Building(Built(l), l)}
<1>1. << >> \in T
  BY BuiltEmpty, BuildingDefaults, EmptySeq
<1>2. ASSUME NEW l \in Seq(Options), NEW o \in Options, l \in T PROVE Append(l, o) \in T
  <2>1. Append(l, o) \in Seq(Options)
    BY AppendProperties
  <2>2. PICK b : b = Built(l)
    OBVIOUS
  <2>3. Building(apply(b, o), Append(l, o))
    BY <1>2, <2>2, ApplyBuilds
  <2> QED BY <2>1, <2>2, <2>3, BuiltAppend
<1> HIDE DEF T
<1>3. Seq(Options) \subseteq T
  BY <1>1, <1>2, SeqSetInduction
<1> QED
  BY <1>3 DEF T

-----------------------------------------------------------------------------
(***************************************************************************)
(* The inductive invariant: the maps of a logger were made for it, so they *)
(* are neither the package's nor those of a builder, and no later New or   *)
(* Add writes into them.                                                   *)
(***************************************************************************)
LoggerRecords ==
    [cfg : Cfgs, said : [maskKeys : Maps, levelNames : Maps, masker : Maskers],
     preset : {"none", "Default", "Corporate"}]

OptionsInv ==
    /\ SetsInv
    /\ HeapOK
    /\ loggers \in Seq(LoggerRecords)
    /\ \A i \in DOMAIN loggers : /\ loggers[i].cfg.maskKeys \in 3 .. Len(heap)
                                 /\ loggers[i].cfg.levelNames \in 3 .. Len(heap)
    /\ OptionsDecide

LEMMA OptionsInitially == OptionsInit => OptionsInv
<1> SUFFICES ASSUME OptionsInit PROVE OptionsInv
  OBVIOUS
<1>1. SetsInv
  BY SetsInitially
<1>2. HeapOK
  BY MapsClosed DEF OptionsInit, HeapOK
<1> QED
  BY <1>1, <1>2, EmptySeq DEF OptionsInit, OptionsInv, OptionsDecide

\* Nothing but map Builder, or a map that is new, changes.
LEMMA LoggersKept ==
    ASSUME OptionsInv, heap' \in Seq(Maps), Len(heap') >= Len(heap),
           \A j \in 1 .. Len(heap) : j # Builder => heap'[j] = heap[j]
    PROVE  /\ HeapOK'
           /\ \A i \in DOMAIN loggers :
                 /\ loggers[i].cfg.maskKeys \in 3 .. Len(heap')
                 /\ loggers[i].cfg.levelNames \in 3 .. Len(heap')
                 /\ heap'[loggers[i].cfg.maskKeys] = loggers[i].said.maskKeys
                 /\ heap'[loggers[i].cfg.levelNames] = loggers[i].said.levelNames
                 /\ loggers[i].cfg.masker = loggers[i].said.masker
                 /\ loggers[i].cfg.dumpDepth > 0 /\ loggers[i].cfg.dumpFields > 0
                 /\ loggers[i].cfg.stackDepth > 0
<1>1. Len(heap) \in Nat /\ Len(heap') \in Nat /\ Len(heap) >= 2 /\ Builder = 2
      /\ heap'[1] = heap[1]
  BY DEF OptionsInv, HeapOK, Builder
<1>2. HeapOK'
  BY <1>1 DEF OptionsInv, HeapOK
<1>3. ASSUME NEW j \in 3 .. Len(heap) PROVE j \in 3 .. Len(heap') /\ heap'[j] = heap[j]
  BY <1>1
<1> QED
  BY <1>2, <1>3 DEF OptionsInv, OptionsDecide

LEMMA AddRulePreserves ==
    ASSUME OptionsInv, NEW name \in Names, NEW type \in MaskTypes, AddRule(name, type)
    PROVE  OptionsInv'
<1> DEFINE x == Over(Entry(name, type), heap[Builder])
<1>1. heap \in Seq(Maps) /\ Builder \in 1 .. Len(heap) /\ x \in Maps
  BY MapsClosed DEF OptionsInv, HeapOK, Builder
<1>2. heap' = [heap EXCEPT ![Builder] = x] /\ UNCHANGED <<arrays, sets, given, loggers>>
  BY DEF AddRule
<1> HIDE DEF x
<1>3. heap' \in Seq(Maps) /\ Len(heap') = Len(heap) /\ Len(heap) \in Nat
      /\ \A j \in 1 .. Len(heap) : j # Builder => heap'[j] = heap[j]
  BY <1>1, <1>2
<1>4. SetsInv'
  BY <1>2 DEF OptionsInv, SetsInv, SetsTypeOK, AloneKeepsKeys, Keys
<1> QED
  BY <1>2, <1>3, <1>4, LoggersKept DEF OptionsInv, OptionsDecide

LEMMA NewPreserves ==
    ASSUME OptionsInv, NEW list \in Seq(Options),
           NEW preset \in {"none", "Default", "Corporate"}, New(list, preset)
    PROVE  OptionsInv'
<1> DEFINE b == Built(list)
           n == Len(heap)
           p == Promise(list)
           r == [cfg |-> b.cfg, said |-> p, preset |-> preset]
<1>1. heap' = b.heap /\ loggers' = Append(loggers, r) /\ UNCHANGED <<arrays, sets, given>>
  BY DEF New
<1>2. Building(b, list)
  BY BuiltIsPromised DEF OptionsInv
<1>3. /\ p.maskKeys = LastSays(list, "maskKeys")
      /\ p.levelNames = Over(LastSays(list, "levelNames"), heap[1])
      /\ p.masker = MaskerSaid(list)
      /\ p = [maskKeys |-> p.maskKeys, levelNames |-> p.levelNames, masker |-> p.masker]
  BY DEF Promise, MaskerSaid
<1> HIDE DEF b, p
<1>4. /\ n \in Nat /\ n >= 2 /\ b.heap \in Seq(Maps) /\ b.cfg \in Cfgs
      /\ Len(b.heap) = n + 2 /\ \A i \in 1 .. n : b.heap[i] = heap[i]
      /\ b.cfg.maskKeys = n + 1 /\ b.cfg.levelNames = n + 2
      /\ b.heap[n + 1] = p.maskKeys /\ b.heap[n + 2] = p.levelNames
      /\ b.cfg.masker = p.masker
      /\ b.cfg.dumpDepth > 0 /\ b.cfg.dumpFields > 0 /\ b.cfg.stackDepth > 0
  BY <1>2, <1>3 DEF Building, OptionsInv, HeapOK
<1>5. r \in LoggerRecords /\ r.cfg = b.cfg /\ r.said = p
  <2>1. n + 1 \in 1 .. n + 2 /\ n + 2 \in 1 .. n + 2
    BY <1>4
  <2>2. p.maskKeys \in Maps /\ p.levelNames \in Maps /\ p.masker \in Maskers
    BY <1>4, <2>1 DEF Cfgs
  <2>3. p \in [maskKeys : Maps, levelNames : Maps, masker : Maskers]
    BY <1>3, <2>2
  <2> QED BY <1>4, <2>3 DEF LoggerRecords
<1> HIDE DEF r
<1>6. /\ loggers' \in Seq(LoggerRecords) /\ Len(loggers) \in Nat /\ DOMAIN loggers = 1 .. Len(loggers)
      /\ DOMAIN loggers' = 1 .. Len(loggers) + 1 /\ loggers'[Len(loggers) + 1] = r
      /\ \A i \in 1 .. Len(loggers) : loggers'[i] = loggers[i]
  BY <1>1, <1>5 DEF OptionsInv
<1>7. /\ HeapOK'
      /\ \A i \in DOMAIN loggers :
            /\ loggers[i].cfg.maskKeys \in 3 .. Len(heap')
            /\ loggers[i].cfg.levelNames \in 3 .. Len(heap')
            /\ heap'[loggers[i].cfg.maskKeys] = loggers[i].said.maskKeys
            /\ heap'[loggers[i].cfg.levelNames] = loggers[i].said.levelNames
            /\ loggers[i].cfg.masker = loggers[i].said.masker
            /\ loggers[i].cfg.dumpDepth > 0 /\ loggers[i].cfg.dumpFields > 0
            /\ loggers[i].cfg.stackDepth > 0
  BY <1>1, <1>4, LoggersKept
<1>8. /\ r.cfg.maskKeys \in 3 .. Len(heap') /\ r.cfg.levelNames \in 3 .. Len(heap')
      /\ heap'[r.cfg.maskKeys] = r.said.maskKeys /\ heap'[r.cfg.levelNames] = r.said.levelNames
      /\ r.cfg.masker = r.said.masker
      /\ r.cfg.dumpDepth > 0 /\ r.cfg.dumpFields > 0 /\ r.cfg.stackDepth > 0
  BY <1>1, <1>4, <1>5
<1>9. \A i \in DOMAIN loggers' : i \in DOMAIN loggers \/ i = Len(loggers) + 1
  BY <1>6
<1>10. /\ \A i \in DOMAIN loggers' : /\ loggers'[i].cfg.maskKeys \in 3 .. Len(heap')
                                     /\ loggers'[i].cfg.levelNames \in 3 .. Len(heap')
       /\ OptionsDecide'
  BY <1>6, <1>7, <1>8, <1>9 DEF OptionsDecide
<1>11. SetsInv'
  BY <1>1 DEF OptionsInv, SetsInv, SetsTypeOK, AloneKeepsKeys, Keys
<1> QED
  BY <1>6, <1>7, <1>10, <1>11 DEF OptionsInv

THEOREM OptionsInvariance == OptionsSpec => []OptionsInv
<1>1. OptionsInit => OptionsInv
  BY OptionsInitially
<1>2. OptionsInv /\ [OptionsNext]_optionVars => OptionsInv'
  <2> SUFFICES ASSUME OptionsInv, [OptionsNext]_optionVars PROVE OptionsInv'
    OBVIOUS
  <2>1. SetsInv'
    BY SetsStep DEF OptionsInv
  <2>2. CASE UNCHANGED <<heap, loggers>>
    BY <2>1, <2>2 DEF OptionsInv, HeapOK, OptionsDecide
  <2>3. ASSUME NEW n \in Names, NEW t \in MaskTypes, AddRule(n, t) PROVE OptionsInv'
    BY <2>3, AddRulePreserves
  <2>4. ASSUME NEW k \in 0 .. MaxOptions, NEW list \in [1 .. k -> Options], New(list, "none")
        PROVE  OptionsInv'
    <3>1. list \in Seq(Options)
      BY OptionsAssumption
    <3> QED BY <2>4, <3>1, NewPreserves
  <2>5. CASE New(Default, "Default") \/ New(Corporate, "Corporate")
    <3>1. Default \in Seq(Options) /\ Corporate = Default
      BY DEF Default, Corporate, Options
    <3>2. PICK list : list = Default
      OBVIOUS
    <3> QED BY <2>5, <3>1, <3>2, NewPreserves
  <2>6. CASE RemovalSetNext
    BY <2>2, <2>6 DEF RemovalSetNext, NewRemovalSet, Add
  <2> QED BY <2>2, <2>3, <2>4, <2>5, <2>6 DEF OptionsNext, optionVars
<1> QED
  BY <1>1, <1>2, PTL DEF OptionsSpec

(***************************************************************************)
(* A logger masks, names levels and uses the masker as its own options     *)
(* said when it was made, the last one deciding: no later change of a      *)
(* builder, and no other logger's options, reach it; and its limits are    *)
(* positive (logger.go New, options.go).                                   *)
(***************************************************************************)
THEOREM OptionsDecided == OptionsSpec => []OptionsDecide
  BY OptionsInvariance, PTL DEF OptionsInv

-----------------------------------------------------------------------------
(***************************************************************************)
(* Loggers in contexts.                                                    *)
(***************************************************************************)
(***************************************************************************)
(* What is true of every Logger a program can get hold of, whether it      *)
(* holds it or it lies in a context.                                       *)
(***************************************************************************)
Sound(l) ==
    /\ l.raced \/ l.cfg = l.handler
    /\ l.exit = "panics" => l.cfg = Plain
    /\ l.exit = "none" => l = None

(***************************************************************************)
(* The inductive invariant: the loggers in contexts matter because they    *)
(* come back through FromContext, and a goroutine FatalContext has ended   *)
(* keeps the logger that ended it.  Between the two loads of a FromContext *)
(* the handler it has seen is still the default unless it was replaced.    *)
(***************************************************************************)
ContextInv ==
    /\ ContextTypeOK
    /\ \A c \in Callers :
          /\ Sound(got[c])
          /\ Sound(ctx[c])
          /\ fatal[c] = "panics" => got[c].exit = "panics"
          /\ IF at[c] = "wrap" THEN replaced[c] \/ default = seen[c] ELSE ~replaced[c]

LEMMA NoneIsSound == None \in Loggers /\ Sound(None)
  BY DEF None, Logger, Loggers, Configurations, Sound

LEMMA ContextInitially == ContextInit => ContextInv
  BY NoneIsSound, MaxSetupsNat DEF ContextInit, ContextInv, ContextTypeOK, Configurations

LEMMA SetupDefaultPreserves ==
    ASSUME ContextInv, NEW c \in Callers, SetupDefault(c)
    PROVE  ContextInv'
<1> DEFINE l == Logger(setups + 1, setups + 1, "exits", FALSE)
<1>1. setups + 1 \in 1 .. MaxSetups /\ setups' = setups + 1
  BY MaxSetupsNat DEF ContextInv, ContextTypeOK, SetupDefault
<1>2. l \in Loggers /\ Sound(l)
  BY <1>1 DEF Logger, Loggers, Configurations, Sound
<1>3. got' = [got EXCEPT ![c] = l] /\ at[c] = "idle" /\ default' = setups + 1
      /\ UNCHANGED <<at, seen, ctx, fatal>>
      /\ replaced' = [d \in Callers |-> replaced[d] \/ at[d] = "wrap"]
  BY DEF SetupDefault, SetDefault
<1> HIDE DEF l
<1>4. ContextTypeOK'
  BY <1>1, <1>2, <1>3, MaxSetupsNat DEF ContextInv, ContextTypeOK, Configurations
<1> QED
  BY <1>2, <1>3, <1>4 DEF ContextInv, ContextTypeOK, Sound

LEMMA FromContextWrapPreserves ==
    ASSUME ContextInv, NEW c \in Callers, FromContextWrap(c)
    PROVE  ContextInv'
<1> DEFINE l == Logger(default, seen[c], FallbackExit(seen[c]), replaced[c])
<1>1. l \in Loggers /\ Sound(l)
  BY DEF ContextInv, ContextTypeOK, Logger, Loggers, Sound, FallbackExit, FromContextWrap
<1>2. /\ got' = [got EXCEPT ![c] = l] /\ at' = [at EXCEPT ![c] = "idle"]
      /\ at[c] = "wrap"
      /\ UNCHANGED <<default, setups, ctx, fatal>>
      /\ seen' = [seen EXCEPT ![c] = Plain]
      /\ replaced' = [replaced EXCEPT ![c] = FALSE]
  BY DEF FromContextWrap
<1> HIDE DEF l
<1>3. ContextTypeOK'
  BY <1>1, <1>2 DEF ContextInv, ContextTypeOK, Configurations
<1> QED
  BY <1>1, <1>2, <1>3 DEF ContextInv, ContextTypeOK, Sound

LEMMA FatalContextPreserves ==
    ASSUME ContextInv, NEW c \in Callers, FatalContext(c)
    PROVE  ContextInv'
<1>1. got[c].exit \in {"exits", "returns", "panics"}
  BY DEF ContextInv, ContextTypeOK, Loggers, Sound, FatalContext
<1>2. ContextTypeOK'
  BY <1>1 DEF ContextInv, ContextTypeOK, FatalContext
<1> QED
  BY <1>2 DEF ContextInv, ContextTypeOK, FatalContext, Sound

\* ToContext, With and a FromContext that finds a Logger move sound ones.
LEMMA MovePreserves ==
    ASSUME ContextInv, NEW c \in Callers,
           \/ ToContext(c) \/ FromContextHit(c) \/ With(c)
           \/ \E l \in {None} \cup {ctx[d] : d \in Callers} : ReceiveContext(c, l)
    PROVE  ContextInv'
<1>1. CASE ToContext(c) \/ FromContextHit(c) \/ With(c)
  <2>1. ContextTypeOK'
    BY <1>1 DEF ContextInv, ContextTypeOK, ToContext, FromContextHit, With, Derived
  <2> QED
    BY <1>1, <2>1 DEF ContextInv, ContextTypeOK, ToContext, FromContextHit, With, Derived, Sound
<1>2. CASE \E l \in {None} \cup {ctx[d] : d \in Callers} : ReceiveContext(c, l)
  <2>1. PICK l \in {None} \cup {ctx[d] : d \in Callers} : ReceiveContext(c, l)
    BY <1>2
  <2>2. l \in Loggers /\ Sound(l)
    BY NoneIsSound DEF ContextInv, ContextTypeOK
  <2>3. ContextTypeOK'
    BY <2>1, <2>2 DEF ContextInv, ContextTypeOK, ReceiveContext
  <2> QED
    BY <2>1, <2>2, <2>3 DEF ContextInv, ContextTypeOK, ReceiveContext, Sound
<1> QED
  BY <1>1, <1>2

LEMMA ContextStep == ContextInv /\ [ContextNext]_contextVars => ContextInv'
<1> SUFFICES ASSUME ContextInv, [ContextNext]_contextVars PROVE ContextInv'
  OBVIOUS
<1>1. CASE SetDefaultElsewhere
  <2>1. PICK h \in {Plain} \cup 1 .. setups :
            /\ default' = h
            /\ replaced' = [c \in Callers |-> replaced[c] \/ at[c] = "wrap"]
    BY <1>1 DEF SetDefaultElsewhere, SetDefault
  <2>2. h \in Configurations
    BY MaxSetupsNat DEF ContextInv, ContextTypeOK, Configurations
  <2> QED
    BY <1>1, <2>1, <2>2 DEF ContextInv, ContextTypeOK, SetDefaultElsewhere, Sound
<1>2. ASSUME NEW c \in Callers, FromContextAssert(c) PROVE ContextInv'
  <2>1. ContextTypeOK'
    BY <1>2 DEF ContextInv, ContextTypeOK, FromContextAssert
  <2>2. /\ at' = [at EXCEPT ![c] = "wrap"] /\ seen' = [seen EXCEPT ![c] = default]
        /\ UNCHANGED <<default, setups, got, ctx, fatal, replaced>>
    BY <1>2 DEF FromContextAssert
  <2>3. \A d \in Callers : IF at'[d] = "wrap" THEN replaced'[d] \/ default' = seen'[d]
                           ELSE ~replaced'[d]
    BY <2>2 DEF ContextInv, ContextTypeOK
  <2> QED
    BY <2>1, <2>2, <2>3 DEF ContextInv, Sound
<1>3. CASE UNCHANGED contextVars
  BY <1>3 DEF ContextInv, ContextTypeOK, contextVars, Sound
<1> QED
  BY <1>1, <1>2, <1>3, SetupDefaultPreserves, FromContextWrapPreserves,
     FatalContextPreserves, MovePreserves DEF ContextNext

LEMMA ContextInvariant == ContextSpec => []ContextInv
  BY ContextInitially, ContextStep, PTL DEF ContextSpec

(***************************************************************************)
(* Loggers, callers and what FatalContext did to them are well typed for   *)
(* any goroutines (context.go, logger.go).                                 *)
(***************************************************************************)
THEOREM ContextTypeCorrect == ContextSpec => []ContextTypeOK
<1>1. ContextInv => ContextTypeOK
  BY DEF ContextInv
<1> QED
  BY <1>1, ContextInvariant, PTL

(***************************************************************************)
(* A logger controls the configuration its records are written with unless *)
(* a FromContext was overtaken by a slog.SetDefault between its two loads  *)
(* of the default, through any chain of With, ToContext and FromContext    *)
(* (context.go).                                                           *)
(***************************************************************************)
THEOREM LoggersControlThemselves == ContextSpec => []ControlsItselfUnlessRaced
<1>1. ContextInv => ControlsItselfUnlessRaced
  BY DEF ContextInv, ControlsItselfUnlessRaced, Sound
<1> QED
  BY <1>1, ContextInvariant, PTL

(***************************************************************************)
(* FatalContext panics only on a logger that writes to a handler that is   *)
(* not slogx's, or that a FromContext made while slog's default was being  *)
(* replaced, through any chain of With, ToContext and FromContext          *)
(* (context.go, logger.go).                                                *)
(***************************************************************************)
THEOREM PanicsAreForeign == ContextSpec => []FatalPanicsOnlyForeign
<1>1. ContextInv => FatalPanicsOnlyForeign
  BY DEF ContextInv, FatalPanicsOnlyForeign, Sound
<1> QED
  BY <1>1, ContextInvariant, PTL

=============================================================================
