--------------------------- MODULE MCQueryParams ---------------------------
(***************************************************************************)
(* Requests for checking QueryParams with TLC: programs that set one or    *)
(* two parameters, and queries typed by hand.                              *)
(***************************************************************************)
EXTENDS QueryParams

Path == <<"/", "z">>

\* Those the functions treat differently, and two they leave as they are.
Alphabet == {"z", ".", " ", "?", "&", "=", "%", "+", "/", "2", "3", "5", "6", "B", "D", "F"}

\* What parameters are made of.
Marks == {"z", ".", " ", "?", "&", "=", "%", "+"}
\* Parameters of up to two characters, and longer ones that look like an escape.
Short == BoundedSeq(Marks, 1)
Texts == BoundedSeq(Marks, 2) \cup [1..3 -> {"%", "2", "B"}]

Pairs(keys, values) == {[key |-> k, value |-> v] : k \in keys, v \in values}

Asks(pairs) == [target |-> Path, params |-> pairs]

Programs ==
    {Asks(<<>>)}
    \cup {Asks(<<p>>) : p \in Pairs(Texts, Short) \cup Pairs(Short, Texts)}
    \cup {Asks(<<p, q>>) : p \in Pairs(Short, {<<>>, <<"z">>, <<"&">>}),
                          q \in Pairs(Short, {<<>>, <<"z">>, <<"=">>})}

Typed ==
    {[target |-> p \o <<"?">> \o q, params |-> <<>>] :
        p \in {Path, <<"/">>},
        q \in BoundedSeq({"z", "&", "=", "%", "?"}, 4)
              \cup [1..6 -> {"z", "="}] \cup [1..4 -> {"%", "2", "B", "+"}]}

MCRequests == Programs \cup Typed
=============================================================================
