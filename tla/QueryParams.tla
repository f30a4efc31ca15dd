---------------------------- MODULE QueryParams ----------------------------
(***************************************************************************)
(* The parameters of a request on their way from the client's program to   *)
(* the server's callback (request.hpp, and split of utils.hpp): the client *)
(* writes them into the target each time it sends the request, the server  *)
(* takes the path for the routes and the parameters for the callback out   *)
(* of the target it received.                                              *)
(*                                                                         *)
(* A string is a sequence of characters.  Of the characters there are only *)
(* those the functions treat differently: the reserved ones with a code,   *)
(* the space, and unreserved ones, some of which are hexadecimal digits.   *)
(* Any other code decodes to a character of its own, named by the code.    *)
(* An unordered_multimap is a sequence of its pairs: the client's in the   *)
(* order it is iterated in, the server's in the order they are added.      *)
(***************************************************************************)
EXTENDS Naturals, SequencesExt

CONSTANTS
    Characters,  \* the characters of a string
    Requests,    \* what clients ask for: [target, params]
    Route,       \* the path of the one route, a string
    MaxSends     \* bound: times a request is sent, again after a failure

\* The reserved characters, with the digits "%02X" gives.
Code == [c \in {"?", "&", "=", "%", "+", "/"} |->
            CASE c = "?" -> <<"3", "F">> [] c = "&" -> <<"2", "6">> [] c = "=" -> <<"3", "D">>
              [] c = "%" -> <<"2", "5">> [] c = "+" -> <<"2", "B">> [] c = "/" -> <<"2", "F">>]

HexDigits == {"2", "3", "5", "6", "B", "D", "F"}

ASSUME CharactersAssumption == DOMAIN Code \cup HexDigits \cup {" "} \subseteq Characters

Strings == Seq(Characters)

\* hex_decode of two digits.
Decoded(h) ==
    IF \E c \in DOMAIN Code : Code[c] = h THEN CHOOSE c \in DOMAIN Code : Code[c] = h
    ELSE h[1] \o h[2]

\* What a loop has appended to an empty string or list: its pieces, in their order.
Joined(pieces) ==
    LET upto[i \in 0..Len(pieces)] == IF i = 0 THEN <<>> ELSE upto[i - 1] \o pieces[i]
    IN  upto[Len(pieces)]

\* Faulty variant: the escape character itself is not escaped.
UrlEncodeButPercent(s) ==
    Joined([i \in 1..Len(s) |->
        IF s[i] = " " THEN <<"+">>
        ELSE IF s[i] \in DOMAIN Code \ {"%"} THEN <<"%">> \o Code[s[i]] ELSE <<s[i]>>])

\* url_encode.
UrlEncode(s) ==
    Joined([i \in 1..Len(s) |->
        IF s[i] = " " THEN <<"+">>
        ELSE IF s[i] \in DOMAIN Code THEN <<"%">> \o Code[s[i]] ELSE <<s[i]>>])

\* url_decode, from each place of the string to its end.
UrlDecode(s) ==
    LET Escape(i) == /\ s[i] = "%" /\ i + 2 <= Len(s)
                     /\ s[i + 1] \in HexDigits /\ s[i + 2] \in HexDigits
        from[i \in 1..(Len(s) + 1)] ==
            IF i > Len(s)        THEN <<>>
            ELSE IF s[i] = "+"   THEN <<" ">> \o from[i + 1]
            ELSE IF Escape(i)    THEN <<Decoded(<<s[i + 1], s[i + 2]>>)>> \o from[i + 3]
            ELSE <<s[i]>> \o from[i + 1]
    IN  from[1]

\* split: at every delimiter if times is 0, else at the first ones.  The last piece is
\* substr(start, end), which takes end, the place of the next delimiter counted from
\* the string's beginning, for a length; there is no limit if no delimiter is left.
Split(s, delim, times) ==
    LET After(i) == {j \in i..Len(s) : s[j] = delim}
        Cuts(i)  == Cardinality({j \in 1..(i - 1) : s[j] = delim})
        Rest(i)  == IF After(i) = {} THEN SubSeq(s, i, Len(s))
                    ELSE SubSeq(s, i, Min({Len(s), (i - 1) + (Min(After(i)) - 1)}))
        from[i \in 1..(Len(s) + 1)] ==
            IF After(i) = {} \/ (times # 0 /\ Cuts(i) = times)
            THEN <<Rest(i)>>
            ELSE <<SubSeq(s, i, Min(After(i)) - 1)>> \o from[Min(After(i)) + 1]
    IN  from[1]

\* params_serialize: the target with the parameters appended, the last "&" removed.
ParamsSerialize(target, params) ==
    LET Pair(i) == UrlEncode(params[i].key) \o <<"=">> \o UrlEncode(params[i].value)
    IN  IF params = <<>> THEN target
        ELSE target \o <<"?">> \o
             Front(Joined([i \in 1..Len(params) |-> Pair(i) \o <<"&">>]))

\* Faulty variant: a parameter without "=" is dropped.
ParamsParseStrict(target) ==
    LET parts  == Split(target, "?", 1)
        fields == IF Len(parts) = 2 THEN Split(parts[2], "&", 0) ELSE <<>>
        Parsed(kv) == IF Len(kv) = 1 THEN <<>>
                      ELSE <<[key |-> UrlDecode(kv[1]), value |-> UrlDecode(kv[2])]>>
    IN  Joined([i \in 1..Len(fields) |-> Parsed(Split(fields[i], "=", 1))])

\* What params_parse makes of a field of the query; e is empty between two "&".
ParsedField(e) ==
    LET kv == Split(e, "=", 1)
    IN  IF e = <<>> THEN <<>>
        ELSE <<[key |-> UrlDecode(kv[1]),
                value |-> IF Len(kv) = 1 THEN <<>> ELSE UrlDecode(kv[2])]>>

\* params_parse: what it adds to the parameters.
ParamsParse(target) ==
    LET parts  == Split(target, "?", 1)
        fields == IF Len(parts) = 2 THEN Split(parts[2], "&", 0) ELSE <<>>
    IN  Joined([i \in 1..Len(fields) |-> ParsedField(fields[i])])

\* Two dots in a row.
HasDots(s) == \E i \in 1..(Len(s) - 1) : s[i] = "." /\ s[i + 1] = "."

\* A program's parameters are strings.
ASSUME RequestsAssumption ==
    \A r \in Requests :
        r.target \in Strings /\ r.params \in Seq([key : Strings, value : Strings])

\* The route is a path that the server does not refuse.
ASSUME RouteAssumption ==
    /\ Route \in Strings /\ Route # <<>> /\ Route[1] = "/"
    /\ ~Contains(Route, "?") /\ ~HasDots(Route)
-----------------------------------------------------------------------------
VARIABLES
    given,   \* the program's request
    target,  \* the request's target as the client holds it, and as it is sent
    sends,   \* how often the request was sent
    stage,   \* "client", "sent", or what the server did: "called", "unmatched", "refused"
    path,    \* req.path().at(0) of the server
    params   \* req.params() of the server

paramsVars == <<given, target, sends, stage, path, params>>

ParamsInit ==
    /\ given \in Requests
    /\ target = given.target
    /\ sends = 0 /\ stage = "client"
    /\ path = <<>> /\ params = <<>>

\* prepare_request, again if the request failed after it was sent.
Send ==
    /\ stage \in {"client", "sent"} /\ sends < MaxSends
    /\ target' = ParamsSerialize(target, given.params)
    /\ sends' = sends + 1 /\ stage' = "sent"
    /\ UNCHANGED <<given, path, params>>

\* handle_request: the target is looked at as a whole.
Refuse ==
    /\ stage = "sent" /\ (target[1] # "/" \/ HasDots(target))
    /\ stage' = "refused"
    /\ UNCHANGED <<given, target, sends, path, params>>

\* serve_dynamic: the route is looked up by what comes before the "?".
Handle ==
    /\ stage = "sent" /\ target[1] = "/" /\ ~HasDots(target)
    /\ IF Split(target, "?", 1)[1] = Route
       THEN /\ stage' = "called"
            /\ path' = Split(target, "?", 1)[1]
            /\ params' = params \o ParamsParse(target)
       ELSE stage' = "unmatched" /\ UNCHANGED <<path, params>>
    /\ UNCHANGED <<given, target, sends>>

ParamsNext == Send \/ Refuse \/ Handle

ParamsSpec == ParamsInit /\ [][ParamsNext]_paramsVars
-----------------------------------------------------------------------------
\* The same pairs, each as often.
SamePairs(s, t) ==
    LET Times(u, p) == Cardinality({i \in DOMAIN u : u[i] = p})
    IN  \A p \in ToSet(s) \cup ToSet(t) : Times(s, p) = Times(t, p)

\* What a program put into params() is what the callback finds there, character by
\* character and pair by pair, whatever characters the parameters are made of: the
\* query's own delimiters, the escape character, a space, or nothing.  The request
\* reaches the program's route, also when it is sent again and its parameters with it
\* once more; it is refused only for two dots in a parameter, which url_encode leaves
\* as they are.
RoundTrip ==
    given.target = Route =>
        /\ stage = "called" => path = Route /\ (sends = 1 => SamePairs(params, given.params))
        /\ stage # "unmatched"
        /\ stage = "refused" => \E i \in DOMAIN given.params :
               HasDots(given.params[i].key) \/ HasDots(given.params[i].value)

\* The fields of a query that are not empty: where each begins and ends.
Fields(query) ==
    {b \in (1..Len(query)) \X (1..Len(query)) :
        /\ b[1] <= b[2]
        /\ \A i \in b[1]..b[2] : query[i] # "&"
        /\ b[1] = 1 \/ query[b[1] - 1] = "&"
        /\ b[2] = Len(query) \/ query[b[2] + 1] = "&"}

\* The first place of a character, and what stands behind it.
FirstOf(s, d) == SelectInSeq(s, LAMBDA c : c = d)
Behind(s, d)  == SubSeq(s, FirstOf(s, d) + 1, Len(s))

\* The parameter p has the field's name, and its value: what stands before the first "="
\* of the field and all that follows it.
HasName(p, field) ==
    LET e == FirstOf(field, "=")
    IN  p.key = UrlDecode(IF e = 0 THEN field ELSE SubSeq(field, 1, e - 1))

HasValue(p, field) ==
    p.value = UrlDecode(IF FirstOf(field, "=") = 0 THEN <<>> ELSE Behind(field, "="))

\* A query that the program wrote into the target itself, with one "?", has arrived.
QueryArrived ==
    /\ stage = "called" /\ given.params = <<>>
    /\ FirstOf(given.target, "?") # 0 /\ ~Contains(Behind(given.target, "?"), "?")

\* The place of a field among those of the query.
Place(query, b) == Cardinality({c \in Fields(query) : c[1] <= b[1]})

\* "parse the query parameters from the target" (params_parse), "split a string by a
\* delimiter 'n' times" (split, here once): each field of the query gives one parameter,
\* whose name is the field up to its first "=" and whose value is all that follows.  It is
\* not when the value holds a "=": split may cut it short.
TypedQueryIsRead ==
    LET query == Behind(given.target, "?")
    IN  QueryArrived =>
            /\ Len(params) = Cardinality(Fields(query))
            /\ \A b \in Fields(query) :
                   LET field == SubSeq(query, b[1], b[2])
                   IN  /\ HasName(params[Place(query, b)], field)
                       /\ HasValue(params[Place(query, b)], field)

\* The parameter p has the field's name, and its value if that has no "=" of its own.
Reads(p, field) ==
    /\ HasName(p, field)
    /\ ~Contains(Behind(field, "="), "=") => HasValue(p, field)

\* What holds of such a query: no field is skipped, doubled or moved, but for an empty one,
\* every name is read up to its first "=", and so is every value without a "=".
FieldsAreRead ==
    LET query == Behind(given.target, "?")
    IN  QueryArrived =>
            /\ Len(params) = Cardinality(Fields(query))
            /\ \A b \in Fields(query) :
                   Reads(params[Place(query, b)], SubSeq(query, b[1], b[2]))
=============================================================================
