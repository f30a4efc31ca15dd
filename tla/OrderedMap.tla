----------------------------- MODULE OrderedMap -----------------------------
(***************************************************************************)
(* ordered_map.hpp: an unordered_map and a deque of iterators into it, in  *)
(* the order of insertion.  Here: a function, and a sequence of the keys   *)
(* the iterators point at.  The containers of libstdc++ are assumed, whose *)
(* iterators are pointers to nodes that no rehash moves.                   *)
(***************************************************************************)
EXTENDS SequencesExt

EmptyMap == [map |-> [k \in {} |-> k], it |-> <<>>]

\* find(k) != map_end().
Has(m, k) == k \in DOMAIN m.map

\* insert_or_assign.
Assigned(f, k, v) == [j \in DOMAIN f \cup {k} |-> IF j = k THEN v ELSE f[j]]

\* operator(): only a new key gets an iterator.
Call(m, k, v) ==
    [map |-> Assigned(m.map, k, v),
     it  |-> IF Has(m, k) THEN m.it ELSE Append(m.it, k)]

\* erase: the first iterator to the key goes, then the key.
Erase(m, k) ==
    IF Has(m, k)
    THEN [map |-> [j \in DOMAIN m.map \ {k} |-> m.map[j]], it |-> RemoveFirst(m.it, k)]
    ELSE m

\* clear.
Clear(m) == EmptyMap
=============================================================================
