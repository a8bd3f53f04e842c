--------------------------- MODULE DumpSerialize ----------------------------
(***************************************************************************)
(* The walk of dump.go: value and fieldValue over an object graph, with    *)
(* the depth limit, the field budget shared by the whole walk, and the set *)
(* of pointers met.                                                        *)
(*                                                                         *)
(* The recursion is the worklist todo, whose head runs next.  What the     *)
(* walk builds is a set of entries [path, mark]: the keys that lead to the *)
(* entry and what is shown there.  A pointer adds nothing to the path.     *)
(*                                                                         *)
(* An entry has the name it is shown under: a field's name, an element's   *)
(* index, a map's key if it is a string and else the name of its type, so  *)
(* that entries of one map may share a name.  A value has the address that *)
(* a pointer to it holds, which a struct shares with its first field and   *)
(* values of size zero may share.                                          *)
(***************************************************************************)
EXTENDS Integers, Sequences, FiniteSets, SequencesExt

CONSTANTS
    Nodes,      \* the values of an object graph
    Nil,        \* no value
    Keys,       \* names under which entries are shown
    Graphs,     \* graphs: [Nodes -> [kind, to, at, entries]]
    Limits,     \* [maxDepth, maxFields] of the calls
    Removed,    \* keys with a removal rule
    Masked,     \* keys with a mask
    Dropped     \* keys with a mask for which the Masker answers nil

Kinds == {"leaf", "pointer", "iface", "struct", "map", "slice"}
Values == Nodes \cup {Nil}

ASSUME GraphsTyped ==
    /\ 1 \in Nodes /\ Nil \notin Nodes
    /\ \A g \in Graphs :
          /\ g \in [Nodes -> [kind : Kinds, to : Values, at : Nodes,
                              entries : Seq([key : Keys, node : Values])]]
          /\ \A n \in Nodes : g[n].kind = "leaf" => g[n].entries = <<>>
ASSUME DepthsNatural == \A l \in Limits : l.maxDepth \in Nat /\ l.maxFields \in Int
\* A mask of a key either hides the value or drops it.  The index of an
\* element, and "..." for what a limit cut off, name no rule.
ASSUME RulesApart ==
    /\ Masked \cap Dropped = {}
    /\ "..." \notin Removed \cup Masked \cup Dropped
    /\ \A g \in Graphs : \A n \in Nodes : g[n].kind = "slice" =>
          \A i \in DOMAIN g[n].entries :
              g[n].entries[i].key \notin Removed \cup Masked \cup Dropped

VARIABLES
    graph,      \* the graph dumped, from node 1
    limits,     \* the limits of this call
    todo,       \* what is left to do, next first
    fields,     \* s.fields
    visited,    \* s.visited, the addresses of the pointers followed
    out         \* the entries built so far

serializeVars == <<graph, limits, todo, fields, visited, out>>

\* An interface shows the value in it: Value.Interface() unwraps it.
Dynamic(n) == IF n # Nil /\ graph[n].kind = "iface" THEN graph[n].to ELSE n

\* A call of value ("value") or fieldValue ("visit"), which a pointer passes
\* on to what it points to.
Task(doing, n, path, depth) ==
    [doing |-> doing, node |-> n, path |-> path, depth |-> depth, then |-> doing, left |-> <<>>]

\* Mutant: the state of an earlier dump is used again without clearing visited.
SerializeInitReused ==
    /\ graph \in Graphs
    /\ limits \in Limits
    /\ todo = <<Task("value", Dynamic(1), <<>>, 0)>>
    /\ fields = 0
    /\ visited \in {{}, {2}}
    /\ out = {}

SerializeInit ==
    /\ graph \in Graphs
    /\ limits \in Limits
    /\ todo = <<Task("value", Dynamic(1), <<>>, 0)>>
    /\ fields = 0
    /\ visited = {}
    /\ out = {}

-----------------------------------------------------------------------------

task == Head(todo)
rest == Tail(todo)
Runs(doing) == todo # <<>> /\ task.doing = doing

nextField == limits.maxFields <= 0 \/ fields < limits.maxFields

\* The budget after nextField succeeded.
Spent == IF limits.maxFields <= 0 THEN fields ELSE fields + 1

Emit(path, mark) == out' = out \cup {[path |-> path, mark |-> mark]}

\* value: one field of the budget before anything else.
Value ==
    /\ Runs("value")
    /\ \/ /\ ~nextField
          /\ Emit(task.path, "...")
          /\ todo' = rest
          /\ UNCHANGED fields
       \/ /\ nextField
          /\ fields' = Spent
          /\ todo' = <<[task EXCEPT !.doing = "visit"]>> \o rest
          /\ UNCHANGED out
    /\ UNCHANGED <<graph, limits, visited>>

\* Mutant: the limit allows one level more.
ShownDeeper(n, depth) ==
    IF n = Nil THEN "nil"
    ELSE IF depth > limits.maxDepth THEN "type"
    ELSE IF graph[n].kind # "pointer" THEN graph[n].kind
    ELSE IF graph[n].to = Nil THEN "nil"
    ELSE IF graph[graph[n].to].at \in visited THEN "[cycle]"
    ELSE "pointer"

\* The tests of value and fieldValue, in their order.
Shown(n, depth) ==
    IF n = Nil THEN "nil"
    ELSE IF depth >= limits.maxDepth THEN "type"
    ELSE IF graph[n].kind # "pointer" THEN graph[n].kind
    ELSE IF graph[n].to = Nil THEN "nil"
    ELSE IF graph[graph[n].to].at \in visited THEN "[cycle]"
    ELSE "pointer"

Containers == {"struct", "map", "slice"}

VisitPlain ==
    /\ Runs("visit")
    /\ LET mark == Shown(task.node, task.depth)
       IN  /\ mark \in {"nil", "type", "[cycle]", "leaf"}
           /\ Emit(task.path, mark)
    /\ todo' = rest
    /\ UNCHANGED <<graph, limits, fields, visited>>

VisitPointer ==
    /\ Runs("visit")
    /\ Shown(task.node, task.depth) = "pointer"
    /\ LET target == graph[task.node].to
       IN  /\ visited' = visited \cup {graph[target].at}
           /\ todo' = <<[task EXCEPT !.doing = "indirect", !.node = target, !.depth = @ + 1]>> \o rest
    /\ UNCHANGED <<graph, limits, fields, out>>

\* Mutant: indirect goes through interfaces as well.
IndirectNextThroughInterface(n) ==
    IF graph[n].kind \in {"pointer", "iface"} THEN graph[n].to ELSE Nil

\* Where the loop of indirect goes from n, Nil if it ends at n.
IndirectNext(n) == IF graph[n].kind = "pointer" THEN graph[n].to ELSE Nil

\* indirect, one pointer at a time, without visited.
Indirect ==
    /\ Runs("indirect")
    /\ todo' = <<IF IndirectNext(task.node) # Nil
                 THEN [task EXCEPT !.node = IndirectNext(@)]
                 ELSE [task EXCEPT !.doing = task.then, !.node = Dynamic(@)]>> \o rest
    /\ UNCHANGED <<graph, limits, fields, visited, out>>

VisitContainer ==
    /\ Runs("visit")
    /\ Shown(task.node, task.depth) \in Containers
    /\ Emit(task.path, "container")
    /\ todo' = <<[task EXCEPT !.doing = "entries", !.left = graph[task.node].entries]>> \o rest
    /\ UNCHANGED <<graph, limits, fields, visited>>

\* The range over the entries of the container is over.
EndEntries ==
    /\ Runs("entries")
    /\ task.left = <<>>
    /\ todo' = rest
    /\ UNCHANGED <<graph, limits, fields, visited, out>>

Sanitizes == graph[task.node].kind # "slice"

\* structValue tests for removal before it spends a field; mapValue after.
SkipsUnpaid(key) == graph[task.node].kind = "struct" /\ key \in Removed

\* What sanitizeKey answers nil for, unless it was nil before.
SkipsPaid(e) ==
    Sanitizes /\ (e.key \in Removed \/ (e.key \in Dropped /\ Dynamic(e.node) # Nil))

\* An entry takes the place of one with its name, and all that was under it.
Besides(path) == {o \in out : ~IsPrefix(path, o.path)}
Overwrite(path, mark) == out' = Besides(path) \cup {[path |-> path, mark |-> mark]}

\* Mutant: the range is cut without a word.
TruncateSilently ==
    /\ UNCHANGED out
    /\ todo' = rest

\* The budget is spent: say so in place of the remaining entries.
Truncate ==
    /\ Overwrite(Append(task.path, "..."), "...")
    /\ todo' = rest

\* Mutant: the value behind a masked key is walked like any other.
MaskedAtNever(key) == FALSE

MaskedAt(key) == Sanitizes /\ key \in Masked

\* One entry: structs and slices in order, maps in any order.
Entry ==
    /\ Runs("entries")
    /\ \E i \in IF graph[task.node].kind = "map" THEN DOMAIN task.left ELSE {1} \cap DOMAIN task.left :
          LET e == task.left[i]
              path == Append(task.path, e.key)
              others == <<[task EXCEPT !.left = RemoveAt(@, i)]>> \o rest
          IN  \/ /\ SkipsUnpaid(e.key)
                 /\ todo' = others
                 /\ UNCHANGED <<fields, out>>
              \/ /\ ~SkipsUnpaid(e.key) /\ ~nextField
                 /\ Truncate
                 /\ UNCHANGED fields
              \/ /\ ~SkipsUnpaid(e.key) /\ nextField
                 /\ fields' = Spent
                 /\ \/ /\ SkipsPaid(e)
                       /\ todo' = others
                       /\ UNCHANGED out
                    \/ /\ ~SkipsPaid(e) /\ MaskedAt(e.key)
                       /\ Overwrite(path, IF task.depth + 1 >= limits.maxDepth THEN "type" ELSE "masked")
                       /\ todo' = others
                    \/ /\ ~SkipsPaid(e) /\ ~MaskedAt(e.key)
                       /\ todo' = <<Task("visit", Dynamic(e.node), path, task.depth + 1)>> \o others
                       /\ out' = Besides(path)
    /\ UNCHANGED <<graph, limits, visited>>

SerializeNext ==
    \/ Value \/ VisitPlain \/ VisitPointer \/ VisitContainer
    \/ Indirect \/ Entry \/ EndEntries

SerializeSpec == SerializeInit /\ [][SerializeNext]_serializeVars

\* The walk is one goroutine that goes on while it can.
FairSerializeSpec == SerializeSpec /\ WF_serializeVars(SerializeNext)

Done == todo = <<>>

-----------------------------------------------------------------------------

Shows(marks) == {o \in out : o.mark \in marks}

(***************************************************************************)
(* The limits bound the whole result, not each container: no more entries  *)
(* than maxFields, none deeper than maxDepth, and nothing opened at that   *)
(* depth (dump.go WithDumpMaxFields, WithDumpDepth).                       *)
(***************************************************************************)
WithinLimits ==
    /\ limits.maxFields > 0 => Cardinality(out \ Shows({"..."})) <= limits.maxFields
    /\ \A o \in out \ Shows({"..."}) : Len(o.path) <= limits.maxDepth
    /\ \A o \in Shows({"container", "leaf"}) : Len(o.path) < limits.maxDepth

(***************************************************************************)
(* What a rule hides stays hidden wherever the walk meets its key, behind  *)
(* pointers, in slices and in nested maps: nothing is shown under a        *)
(* removed key; under one that the Masker answers nil for, nothing but a   *)
(* value that was nil; and of what a masked key holds nothing but the      *)
(* mask.  Elements of slices have no keys (dump.go sanitizeKey,            *)
(* sliceValue).                                                            *)
(***************************************************************************)
HiddenStaysHidden ==
    \A o \in out : \A i \in DOMAIN o.path :
        LET key == o.path[i]
        IN  /\ key \notin Removed
            /\ key \in Dropped => i = Len(o.path) /\ o.mark = "nil"
            /\ key \in Masked => /\ i = Len(o.path)
                                 /\ o.mark \in {"masked", "type"}

LeadsOn(g, n) == n # Nil /\ g[n].kind \in {"pointer", "iface"}

\* The values met from n through pointers and interfaces.
MetFrom(g, n) ==
    {m \in Values : \A closed \in SUBSET Values :
        (n \in closed /\ \A c \in closed : LeadsOn(g, c) => g[c].to \in closed) => m \in closed}

\* What n leads to in the end, Nil if there is no end.
Ends(g, n) == {m \in MetFrom(g, n) : ~LeadsOn(g, m)}
Behind(g, n) == IF Ends(g, n) = {} THEN Nil ELSE CHOOSE m \in Ends(g, n) : TRUE

EntriesOf(g, n) == IF n = Nil THEN {} ELSE ToSet(g[n].entries)

\* All entries that value 1 has under paths of up to depth keys, rules and
\* budget aside, as [path, node].
Unfolding(g, depth) ==
    LET level[n \in 0 .. depth] ==
            IF n = 0 THEN {[path |-> <<>>, node |-> Behind(g, 1)]}
            ELSE UNION {{[path |-> Append(u.path, e.key), node |-> Behind(g, e.node)] :
                            e \in EntriesOf(g, u.node)} : u \in level[n - 1]}
    IN  UNION {level[n] : n \in 0 .. depth}

Real == Unfolding(graph, limits.maxDepth)

HiddenKeys == Removed \cup Dropped

\* Whether a name stands for one entry of n, and not for what was cut off.
Once(n, key) ==
    /\ key # "..."
    /\ \A i, j \in DOMAIN graph[n].entries :
          (graph[n].entries[i].key = key /\ graph[n].entries[j].key = key) => i = j

\* Entries whose names, on all the way to them, stand for one entry each.
Named ==
    LET all == Real
    IN  {u \in all : \A w \in all :
            (IsPrefix(w.path, u.path) /\ w.path # u.path /\ w.node # Nil)
                => Once(w.node, u.path[Len(w.path) + 1])}

\* No container has two entries of a name: no map of the value with keys that
\* are not strings has two of a type.
NamesApart ==
    \A n \in Nodes : \A i \in DOMAIN graph[n].entries : Once(n, graph[n].entries[i].key)

\* No two values that pointers point to have one address.
AddressesApart ==
    \A m, n \in Nodes :
        (graph[m].kind = "pointer" /\ graph[n].kind = "pointer" /\ Nil \notin {graph[m].to, graph[n].to}
           /\ graph[graph[m].to].at = graph[graph[n].to].at) => graph[m].to = graph[n].to

(***************************************************************************)
(* A finished dump loses nothing without saying so: every entry the value  *)
(* has within the depth limit and no rule removes is in the result, or     *)
(* something above it is a mask, a type name, a cycle or an ellipsis; and  *)
(* the result has no entry twice and none the value does not have.  What   *)
(* the code does lose silently is left aside: mapValue names keys that are *)
(* not strings by their type, and of entries of one name shows the last,   *)
(* so only entries with names of their own count.                          *)
(***************************************************************************)
NothingLostSilently ==
    Done =>
        LET said == Shows({"masked", "type", "[cycle]", "..."})
        IN  /\ \A u \in Named :
                  \/ ToSet(u.path) \cap HiddenKeys # {}
                  \/ \E o \in out : o.path = u.path
                  \/ \E o \in said : IF o.mark = "..." /\ o.path # <<>>
                                     THEN IsPrefix(Front(o.path), u.path)
                                     ELSE IsPrefix(o.path, u.path)
            /\ \A o \in out \ Shows({"..."}) : \E u \in Real : u.path = o.path
            /\ \A o, p \in out : o.path = p.path => o = p

(***************************************************************************)
(* What a finished dump reports as [cycle], also where it is only a second *)
(* pointer to the same value, it shows at another place: the value itself, *)
(* or its type when that place is at the depth limit (dump.go value,       *)
(* fieldValue).  It is so only of values in which no entries of a map      *)
(* share a name, where [cycle] may overwrite the one place that showed the *)
(* value, and no two values pointed to share an address, where [cycle] may *)
(* stand for a value that was never met (pointerKey).  Pointers that lead  *)
(* to no value are left aside.                                             *)
(***************************************************************************)
CyclesShownElsewhere ==
    (Done /\ NamesApart /\ AddressesApart) =>
        \A o \in Shows({"[cycle]"}) :
            \A u \in {w \in Real : w.path = o.path /\ w.node # Nil} :
                \E v \in Real, p \in Shows({"container", "leaf", "type"}) :
                    v.node = u.node /\ p.path = v.path

(***************************************************************************)
(* Every dump ends, whatever cycles the value has through pointers to      *)
(* structs, maps, slices and interfaces.                                   *)
(***************************************************************************)
DumpEnds == <>Done

=============================================================================
