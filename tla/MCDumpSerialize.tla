-------------------------- MODULE MCDumpSerialize ---------------------------
(***************************************************************************)
(* DumpSerialize over all graphs of three values of the shapes below: a    *)
(* container at the root, anything a Go value of that type can hold behind *)
(* it, cycles through pointers, maps and slices included.                  *)
(***************************************************************************)
EXTENDS DumpSerialize

To(kind, n) == [kind |-> kind, to |-> n, entries |-> <<>>]
Leaf == To("leaf", Nil)
Entry1(k, n) == [key |-> k, node |-> n]
Holding(kind, entries) == [kind |-> kind, to |-> Nil, entries |-> entries]

Keyed(kinds, k1, k2, a, b) == {Holding(kind, <<Entry1(k1, a), Entry1(k2, b)>>) : kind \in kinds}

Roots ==
    UNION {Keyed({"struct", "map"}, k, "b", 2, n) : k \in {"a", "gone", "secret", "void"}, n \in {2, 3}}
    \cup Keyed({"slice"}, "0", "1", 2, 3)
    \cup Keyed({"struct", "map"}, "void", "b", Nil, 2)
    \cup UNION {Keyed({"map"}, k, k, 2, n) : k \in {"int", "..."}, n \in {2, 3}}
    \cup {To("pointer", 2), To("iface", 2)}

Seconds ==
    {Leaf} \cup {To("pointer", n) : n \in {1, 2, 3, Nil}} \cup {To("iface", n) : n \in {1, 3}}
    \cup {Holding(kind, <<Entry1(k, n)>>) :
             kind \in {"struct", "map"}, k \in {"a", "gone", "secret"}, n \in {1, 3}}
    \cup {Holding("slice", <<Entry1("0", n)>>) : n \in {1, 2}}

Thirds ==
    {Leaf, To("pointer", 1), To("pointer", 2), To("iface", Nil), Holding("map", <<Entry1("a", 1)>>)}

\* Where a step through one of these kinds leads.
Leads(g, kinds, n) ==
    IF g[n].kind \notin kinds THEN {}
    ELSE ({g[n].to} \cup {e.node : e \in ToSet(g[n].entries)}) \ {Nil}

Loops(g, kinds) ==
    \E n \in Nodes :
        LET one == Leads(g, kinds, n)
            two == UNION {Leads(g, kinds, m) : m \in one}
            three == UNION {Leads(g, kinds, m) : m \in two}
        IN  n \in one \cup two \cup three

\* A Go struct holds other structs by value, interfaces hold no interface and
\* a value behind a pointer that is an interface is reached like any other.
IsGo(g) ==
    /\ ~Loops(g, {"struct", "iface"})
    /\ \A n \in Nodes : (g[n].kind = "iface" /\ g[n].to # Nil) => g[g[n].to].kind # "iface"

\* A value has an address of its own, but a struct may have that of its first field.
Addressed(g, at) ==
    [n \in Nodes |-> [kind |-> g[n].kind, to |-> g[n].to, entries |-> g[n].entries, at |-> at[n]]]
Addresses(g) ==
    {[n \in Nodes |-> n]}
    \cup {[n \in Nodes |-> IF n = 2 THEN 1 ELSE n] : x \in
              {y \in {1} : g[1].kind = "struct" /\ g[1].entries[1].node = 2}}

\* A pointer that leads to itself through pointers alone is left out: the loop
\* of indirect does not ask visited and would never end.
MCGraphs ==
    UNION {{Addressed(g, at) : at \in Addresses(g)} :
              g \in {h \in {<<r, s, t>> : r \in Roots, s \in Seconds, t \in Thirds} :
                        IsGo(h) /\ ~Loops(h, {"pointer"})}}

Limit(d, f) == [maxDepth |-> d, maxFields |-> f]
MCLimits == {Limit(2, 3), Limit(4, 4), Limit(3, 0)}

=============================================================================
