------------------------- MODULE QueryParamsProofs -------------------------
(***************************************************************************)
(* Proofs about QueryParams, for parameters of any length and any          *)
(* characters: url_decode undoes url_encode, params_parse undoes           *)
(* params_serialize, and so a program's parameters arrive as they were.    *)
(***************************************************************************)
EXTENDS QueryParams, FiniteSetTheorems, SequenceTheorems, WellFoundedInduction, TLAPS

\* A set of natural numbers that is not empty has a least element.
LEMMA LeastNat ==
    ASSUME NEW S, S \subseteq Nat, S # {}
    PROVE  \E i \in S : \A j \in S : i <= j
<1> DEFINE R == OpToRel(<, Nat)
<1>1. IsWellFoundedOn(R, Nat)
  BY NatLessThanWellFounded
<1>2. \A i, j \in Nat : i < j => <<i, j>> \in R
  BY Zenon DEF OpToRel
<1> HIDE DEF R
<1>3. PICK i \in S : \A j \in S : ~(<<j, i>> \in R)
  BY <1>1, WFMin
<1>4. ASSUME NEW j \in S PROVE i <= j
  <2>1. i \in Nat /\ j \in Nat
    OBVIOUS
  <2>2. ~(j < i)
    BY <1>2, <1>3, <2>1, Zenon
  <2> QED BY <2>1, <2>2
<1> QED BY <1>4

-----------------------------------------------------------------------------
(* The loops. *)

\* What a loop that appends one piece after another holds after each of them.
LEMMA JoinedSteps ==
    ASSUME NEW S, NEW pieces \in Seq(Seq(S))
    PROVE  \E u \in [0..Len(pieces) -> Seq(S)] :
               /\ u[0] = <<>>
               /\ \A i \in 1..Len(pieces) : u[i] = u[i - 1] \o pieces[i]
               /\ Joined(pieces) = u[Len(pieces)]
<1> DEFINE Holds(n, f) == f = [i \in 0..n |-> IF i = 0 THEN <<>> ELSE f[i - 1] \o pieces[i]]
           Missing == {n \in Nat : ~ \E f : Holds(n, f)}
           u == CHOOSE f : Holds(Len(pieces), f)
           Wrong == {n \in Nat : n <= Len(pieces) /\ u[n] \notin Seq(S)}
<1>1. Missing = {}
  <2> SUFFICES ASSUME Missing # {} PROVE FALSE
    OBVIOUS
  <2>1. PICK m \in Missing : \A j \in Missing : m <= j
    BY LeastNat
  <2>2. CASE m = 0
    <3>1. Holds(m, [i \in 0..0 |-> <<>>])
      BY <2>2
    <3> QED BY <3>1
  <2>3. CASE m # 0
    <3>1. m \in Nat /\ m - 1 \in Nat /\ ~(m <= m - 1)
      BY <2>3
    <3>2. PICK f : Holds(m - 1, f)
      <4>1. m - 1 \notin Missing
        <5> HIDE DEF Missing
        <5> QED BY <2>1, <3>1
      <4> HIDE DEF Holds
      <4> QED BY <3>1, <4>1
    <3> DEFINE g == [i \in 0..m |-> IF i = m THEN f[m - 1] \o pieces[m] ELSE f[i]]
    <3>3. ASSUME NEW i \in 0..m
          PROVE  g[i] = IF i = 0 THEN <<>> ELSE g[i - 1] \o pieces[i]
      <4>1. CASE i = m
        <5>1. m - 1 \in 0..m /\ m - 1 # m /\ m \in 0..m
          BY <3>1
        <5> QED BY <2>3, <4>1, <5>1
      <4>2. CASE i # m
        <5>1. i \in 0..(m - 1) /\ (i # 0 => i - 1 \in 0..m /\ i - 1 # m)
          BY <4>2
        <5>2. f[i] = IF i = 0 THEN <<>> ELSE f[i - 1] \o pieces[i]
          BY <3>2, <5>1
        <5> QED BY <4>2, <5>1, <5>2
      <4> QED BY <4>1, <4>2
    <3>4. Holds(m, g)
      BY <3>3
    <3> QED BY <3>4
  <2> QED BY <2>2, <2>3
<1>2. Len(pieces) \in Nat
  BY LenProperties
<1>3. Holds(Len(pieces), u)
  <2>1. \E f : Holds(Len(pieces), f)
    <3> HIDE DEF Holds
    <3> QED BY <1>1, <1>2
  <2> HIDE DEF Holds
  <2> QED BY <2>1
<1>4. Joined(pieces) = u[Len(pieces)]
  BY DEF Joined
<1> HIDE DEF u
<1>5. /\ u[0] = <<>> /\ DOMAIN u = 0..Len(pieces)
      /\ \A i \in 1..Len(pieces) : u[i] = u[i - 1] \o pieces[i]
  <2>1. ASSUME NEW i \in 0..Len(pieces)
        PROVE  u[i] = IF i = 0 THEN <<>> ELSE u[i - 1] \o pieces[i]
    BY <1>3
  <2>2. 0 \in 0..Len(pieces) /\ \A i \in 1..Len(pieces) : i \in 0..Len(pieces) /\ i # 0
    BY <1>2
  <2>3. DOMAIN u = 0..Len(pieces)
    BY <1>3
  <2> QED BY <2>1, <2>2, <2>3
<1>6. Wrong = {}
  <2> SUFFICES ASSUME Wrong # {} PROVE FALSE
    OBVIOUS
  <2>1. PICK m \in Wrong : \A j \in Wrong : m <= j
    BY LeastNat
  <2>2. m # 0
    BY <1>5, EmptySeq
  <2>3. m \in 1..Len(pieces) /\ m - 1 \in Nat /\ m - 1 <= Len(pieces) /\ ~(m <= m - 1)
    BY <1>2, <2>2
  <2>4. u[m - 1] \in Seq(S)
    BY <2>1, <2>3
  <2>5. pieces[m] \in Seq(S)
    BY <2>3, ElementOfSeq
  <2>6. u[m] = u[m - 1] \o pieces[m]
    BY <1>5, <2>3
  <2>7. u[m] \in Seq(S)
    BY <2>4, <2>5, <2>6, ConcatProperties
  <2> QED BY <2>7
<1>7. u \in [0..Len(pieces) -> Seq(S)]
  <2>1. u = [i \in 0..Len(pieces) |-> u[i]]
    BY <1>3
  <2>2. \A i \in 0..Len(pieces) : u[i] \in Seq(S)
    BY <1>2, <1>6
  <2> QED BY <2>1, <2>2
<1> QED BY <1>4, <1>5, <1>7

\* Where the pieces stand in the sequence t that was joined: piece i behind place
\* at[i - 1], up to at[i].
PlacedAt(pieces, t, at) ==
    /\ at \in [0..Len(pieces) -> Nat]
    /\ at[0] = 0 /\ at[Len(pieces)] = Len(t)
    /\ \A i \in 0..Len(pieces) : at[i] <= Len(t)
    /\ \A i \in 1..Len(pieces) :
           /\ at[i] = at[i - 1] + Len(pieces[i])
           /\ \A j \in 1..Len(pieces[i]) : t[at[i - 1] + j] = pieces[i][j]

\* What is joined is a sequence, in which the pieces have their places.
LEMMA JoinedPlaces ==
    ASSUME NEW S, NEW pieces \in Seq(Seq(S))
    PROVE  /\ Joined(pieces) \in Seq(S)
           /\ \E at : PlacedAt(pieces, Joined(pieces), at)
<1>1. PICK u \in [0..Len(pieces) -> Seq(S)] :
          /\ u[0] = <<>>
          /\ \A i \in 1..Len(pieces) : u[i] = u[i - 1] \o pieces[i]
          /\ Joined(pieces) = u[Len(pieces)]
  BY JoinedSteps
<1>2. PICK n : n = Len(pieces)
  OBVIOUS
<1>3. n \in Nat /\ \A i \in 1..n : pieces[i] \in Seq(S) /\ Len(pieces[i]) \in Nat
  BY <1>2, LenProperties, ElementOfSeq
<1>4. \A i \in 0..n : u[i] \in Seq(S) /\ Len(u[i]) \in Nat
  BY <1>2, LenProperties
<1>5. ASSUME NEW i \in 1..n
      PROVE  /\ Len(u[i]) = Len(u[i - 1]) + Len(pieces[i])
             /\ \A k \in 1..Len(u[i - 1]) : u[i][k] = u[i - 1][k]
             /\ \A j \in 1..Len(pieces[i]) : u[i][Len(u[i - 1]) + j] = pieces[i][j]
  <2>1. i - 1 \in 0..n
    BY <1>3
  <2>2. PICK a, b : a = u[i - 1] /\ b = pieces[i]
    OBVIOUS
  <2>3. a \in Seq(S) /\ b \in Seq(S) /\ Len(a) \in Nat /\ Len(b) \in Nat
    BY <1>3, <1>4, <2>1, <2>2
  <2>4. u[i] = a \o b
    BY <1>1, <1>2, <2>2
  <2>5. /\ Len(a \o b) = Len(a) + Len(b)
        /\ \A k \in 1..(Len(a) + Len(b)) :
               (a \o b)[k] = IF k <= Len(a) THEN a[k] ELSE b[k - Len(a)]
    BY <2>3, ConcatProperties
  <2>6. \A k \in 1..Len(a) : (a \o b)[k] = a[k]
    BY <2>3, <2>5
  <2>7. ASSUME NEW j \in 1..Len(b) PROVE (a \o b)[Len(a) + j] = b[j]
    <3>1. PICK k : k = Len(a) + j
      OBVIOUS
    <3>2. k \in 1..(Len(a) + Len(b)) /\ ~(k <= Len(a)) /\ k - Len(a) = j
      BY <2>3, <3>1
    <3> QED BY <2>5, <3>1, <3>2
  <2> QED BY <2>2, <2>4, <2>5, <2>6, <2>7
<1>6. PICK at \in [0..n -> Nat] : \A i \in 0..n : at[i] = Len(u[i])
  <2>1. [i \in 0..n |-> Len(u[i])] \in [0..n -> Nat]
    BY <1>4
  <2> QED BY <2>1
<1>7. ASSUME NEW i \in 1..n
      PROVE  /\ i \in 0..n /\ i - 1 \in 0..n /\ at[i] \in Nat /\ at[i - 1] \in Nat
             /\ Len(pieces[i]) \in Nat /\ at[i] = at[i - 1] + Len(pieces[i])
             /\ \A k \in 1..at[i - 1] : u[i][k] = u[i - 1][k]
             /\ \A j \in 1..Len(pieces[i]) : u[i][at[i - 1] + j] = pieces[i][j]
  <2>1. i \in 0..n /\ i - 1 \in 0..n
    BY <1>3
  <2>2. at[i] = Len(u[i]) /\ at[i - 1] = Len(u[i - 1])
    BY <1>6, <2>1
  <2> QED BY <1>3, <1>5, <1>6, <2>1, <2>2
<1> DEFINE Kept(m, i) == /\ at[i] <= at[m]
                         /\ \A k \in 1..at[i] : u[m][k] = u[i][k]
           Lost == {m \in Nat : m <= n /\ \E i \in 0..m : ~Kept(m, i)}
<1>8. Lost = {}
  <2> SUFFICES ASSUME Lost # {} PROVE FALSE
    OBVIOUS
  <2>1. PICK m \in Lost : \A j \in Lost : m <= j
    BY LeastNat
  <2>2. PICK i \in 0..m : ~Kept(m, i)
    OBVIOUS
  <2>3. i # m
    <3> SUFFICES ASSUME i = m PROVE FALSE
      OBVIOUS
    <3>1. m \in 0..n
      OBVIOUS
    <3>2. at[m] \in Nat
      BY <1>6, <3>1
    <3>3. Kept(m, m)
      BY <3>2
    <3> QED BY <2>2, <3>3
  <2>4. m \in 1..n /\ m - 1 \in Nat /\ m - 1 <= n /\ ~(m <= m - 1) /\ i \in 0..(m - 1)
        /\ i \in 0..n
    BY <1>3, <2>3
  <2>5. Kept(m - 1, i)
    <3> HIDE DEF Kept
    <3> QED BY <2>1, <2>4
  <2>6. at[m - 1] <= at[m] /\ \A k \in 1..at[m - 1] : u[m][k] = u[m - 1][k]
    <3>1. PICK i1 \in 1..n : i1 = m
      BY <2>4
    <3>2. /\ at[i1] \in Nat /\ at[i1 - 1] \in Nat /\ Len(pieces[i1]) \in Nat
          /\ at[i1] = at[i1 - 1] + Len(pieces[i1])
      BY <1>7
    <3>3. \A k \in 1..at[i1 - 1] : u[i1][k] = u[i1 - 1][k]
      BY <1>7
    <3>4. at[i1 - 1] <= at[i1]
      BY <3>2
    <3> QED BY <3>1, <3>3, <3>4
  <2>7. at[i] \in Nat /\ at[m] \in Nat /\ at[m - 1] \in Nat
    BY <1>6, <1>7, <2>4
  <2>8. Kept(m, i)
    BY <2>5, <2>6, <2>7
  <2> QED BY <2>2, <2>8
<1>9. ASSUME NEW i \in 0..n
      PROVE  at[i] <= at[n] /\ \A k \in 1..at[i] : u[n][k] = u[i][k]
  <2>1. n \notin Lost
    BY <1>8
  <2>2. Kept(n, i)
    <3> HIDE DEF Kept
    <3> QED BY <1>3, <2>1
  <2> QED BY <2>2
<1>10. at[0] = 0 /\ at[n] = Len(u[n])
  <2>1. Len(u[0]) = 0
    BY <1>1, EmptySeq
  <2> QED BY <1>3, <1>6, <2>1
<1>11. ASSUME NEW i \in 1..n, NEW j \in 1..Len(pieces[i])
       PROVE  u[n][at[i - 1] + j] = pieces[i][j]
  <2>1. PICK k : k = at[i - 1] + j
    OBVIOUS
  <2>2. k \in 1..at[i] /\ i \in 0..n
    BY <1>7, <2>1
  <2>3. u[n][k] = u[i][k]
    BY <1>9, <2>2
  <2> QED BY <1>7, <2>1, <2>3
<1>12. Joined(pieces) = u[n] /\ u[n] \in Seq(S)
  BY <1>1, <1>2, <1>3, <1>4
<1>13. \A i \in 1..n : at[i] = at[i - 1] + Len(pieces[i])
  BY <1>7
<1>14. PlacedAt(pieces, Joined(pieces), at)
  BY <1>2, <1>6, <1>9, <1>10, <1>11, <1>12, <1>13 DEF PlacedAt
<1> QED BY <1>12, <1>14

\* f is the result of a loop from each of n places: its last value where it stops, else
\* a piece and the result from the next place.
LoopFrom(f, n, Stop, last, piece, next) ==
    f = [i \in 1..(n + 1) |-> IF i \in Stop THEN last[i] ELSE piece[i] \o f[next[i]]]

\* A loop that goes through a string from each of its places, always forward, has a
\* result from each place.
LEMMA ForwardLoop ==
    ASSUME NEW n \in Nat, NEW Stop, NEW last, NEW piece, NEW next,
           \A i \in 1..(n + 1) : i \notin Stop => next[i] \in (i + 1)..(n + 1)
    PROVE  \E f : LoopFrom(f, n, Stop, last, piece, next)
<1> DEFINE Body(f, i) == IF i \in Stop THEN last[i] ELSE piece[i] \o f[next[i]]
           Holds(k, f) == f = [i \in (n + 1 - k)..(n + 1) |-> Body(f, i)]
           Missing == {k \in Nat : k <= n /\ ~ \E f : Holds(k, f)}
<1>1. Missing = {}
  <2> SUFFICES ASSUME Missing # {} PROVE FALSE
    OBVIOUS
  <2>1. PICK m \in Missing : \A j \in Missing : m <= j
    BY LeastNat
  <2>2. PICK p : p = n + 1 - m
    OBVIOUS
  <2>3. p \in 1..(n + 1) /\ m \in Nat /\ m <= n
    BY <2>2
  <2>4. CASE m = 0
    <3> DEFINE g == [i \in p..(n + 1) |-> last[i]]
    <3>1. p = n + 1 /\ p \in Stop /\ \A i \in p..(n + 1) : i = p
      BY <2>2, <2>4
    <3>2. \A i \in p..(n + 1) : g[i] = Body(g, i)
      BY <3>1
    <3>3. Holds(m, g)
      BY <2>2, <3>2
    <3> QED BY <3>3
  <2>5. CASE m # 0
    <3>1. m - 1 \in Nat /\ m - 1 <= n /\ ~(m <= m - 1) /\ p + 1 = n + 1 - (m - 1)
          /\ p + 1 \in Nat
      BY <2>2, <2>3, <2>5
    <3>2. PICK f : Holds(m - 1, f)
      <4>1. m - 1 \notin Missing
        <5> HIDE DEF Missing
        <5> QED BY <2>1, <3>1
      <4> HIDE DEF Holds
      <4> QED BY <3>1, <4>1
    <3>3. /\ DOMAIN f = (p + 1)..(n + 1)
          /\ \A i \in (p + 1)..(n + 1) : f[i] = Body(f, i)
      BY <3>1, <3>2
    <3> DEFINE g == [i \in p..(n + 1) |-> IF i = p THEN Body(f, p) ELSE f[i]]
    <3>4. ASSUME NEW i \in p..(n + 1) PROVE g[i] = Body(g, i)
      <4>1. i \in 1..(n + 1)
        BY <2>3
      <4>2. i \notin Stop => next[i] \in (p + 1)..(n + 1)
        BY <2>3, <4>1
      <4>3. i \notin Stop => next[i] \in p..(n + 1) /\ next[i] # p
        BY <2>3, <4>2
      <4>4. i \notin Stop => g[next[i]] = f[next[i]]
        BY <4>3
      <4>5. g[i] = Body(f, i)
        <5>1. CASE i = p
          BY <5>1
        <5>2. CASE i # p
          <6>1. i \in (p + 1)..(n + 1)
            BY <2>3, <5>2
          <6> QED BY <3>3, <5>2, <6>1
        <5> QED BY <5>1, <5>2
      <4> QED BY <4>4, <4>5
    <3>5. Holds(m, g)
      <4> HIDE DEF Body
      <4> QED BY <2>2, <3>4
    <3> QED BY <3>5
  <2> QED BY <2>4, <2>5
<1>2. PICK f : Holds(n, f)
  <2>1. n \notin Missing
    BY <1>1
  <2> HIDE DEF Holds
  <2> QED BY <2>1
<1>3. n + 1 - n = 1
  OBVIOUS
<1> QED BY <1>2, <1>3 DEF LoopFrom

-----------------------------------------------------------------------------
(* The codes. *)

\* What url_encode writes for a character.
Coded(c) == IF c = " " THEN <<"+">> ELSE IF c \in DOMAIN Code THEN <<"%">> \o Code[c] ELSE <<c>>

\* The characters it may write: not those that separate the parameters.
Plain == Characters \ {" ", "?", "&", "=", "/"}

\* A reserved character becomes an escape of three characters, which hex_decode undoes.
LEMMA CodeResult ==
    ASSUME NEW c \in DOMAIN Code
    PROVE  \E a, b \in HexDigits :
               /\ Code[c] = <<a, b>> /\ <<"%">> \o Code[c] = <<"%", a, b>>
               /\ Decoded(<<a, b>>) = c
<1>1. DOMAIN Code = {"?", "&", "=", "%", "+", "/"}
  BY DEF Code
<1>2. /\ Code["?"] = <<"3", "F">> /\ Code["&"] = <<"2", "6">> /\ Code["="] = <<"3", "D">>
      /\ Code["%"] = <<"2", "5">> /\ Code["+"] = <<"2", "B">> /\ Code["/"] = <<"2", "F">>
  BY DEF Code
<1>3. \A d, e \in DOMAIN Code : Code[d] = Code[e] => d = e
  BY <1>1, <1>2
<1>4. PICK a, b \in HexDigits : Code[c] = <<a, b>>
  BY <1>1, <1>2 DEF HexDigits
<1>5. Decoded(<<a, b>>) = c
  <2>1. c = CHOOSE d \in DOMAIN Code : Code[d] = <<a, b>>
    BY <1>3, <1>4
  <2> QED BY <1>4, <2>1 DEF Decoded
<1>6. <<"%">> \o <<a, b>> = <<"%", a, b>>
  <2>1. \A k \in 1..3 : k = 1 \/ k = 2 \/ k = 3
    OBVIOUS
  <2>2. PICK T : "%" \in T /\ a \in T /\ b \in T
    <3>1. "%" \in {"%", a, b} /\ a \in {"%", a, b} /\ b \in {"%", a, b}
      OBVIOUS
    <3> QED BY <3>1
  <2>3. <<"%">> \in Seq(T) /\ <<a, b>> \in Seq(T) /\ <<"%", a, b>> \in Seq(T)
    BY <2>2
  <2>4. /\ Len(<<"%">>) = 1 /\ Len(<<a, b>>) = 2 /\ Len(<<"%", a, b>>) = 3
    OBVIOUS
  <2>5. PICK t : t = <<"%">> \o <<a, b>>
    OBVIOUS
  <2>6. t \in Seq(T) /\ Len(t) = 3 /\ t[1] = "%" /\ t[2] = a /\ t[3] = b
    BY <2>3, <2>4, <2>5, ConcatProperties
  <2>7. \A k \in 1..3 : t[k] = <<"%", a, b>>[k]
    BY <2>1, <2>6
  <2> QED BY <2>3, <2>4, <2>5, <2>6, <2>7, SeqEqual
<1> QED BY <1>4, <1>5, <1>6

\* What is written is plain.
LEMMA CodedIsPlain ==
    ASSUME NEW c \in Characters
    PROVE  Coded(c) \in Seq(Plain)
<1>1. HexDigits \subseteq Plain /\ "+" \in Plain /\ "%" \in Plain
  <2>1. DOMAIN Code = {"?", "&", "=", "%", "+", "/"}
    BY DEF Code
  <2>2. HexDigits \subseteq Characters /\ "+" \in Characters /\ "%" \in Characters
    BY <2>1, CharactersAssumption
  <2> QED BY <2>2 DEF HexDigits, Plain
<1>2. CASE c = " "
  <2>1. <<"+">> \in Seq(Plain)
    BY <1>1
  <2> QED BY <1>2, <2>1 DEF Coded
<1>3. CASE c # " " /\ c \in DOMAIN Code
  <2>1. PICK a, b \in HexDigits : Coded(c) = <<"%", a, b>>
    BY <1>3, CodeResult DEF Coded
  <2>2. a \in Plain /\ b \in Plain
    BY <1>1
  <2> QED BY <1>1, <2>1, <2>2
<1>4. CASE c # " " /\ c \notin DOMAIN Code
  <2>1. c \in Plain
    BY <1>4 DEF Code, Plain
  <2>2. <<c>> \in Seq(Plain)
    BY <2>1
  <2> QED BY <1>4, <2>2 DEF Coded
<1> QED BY <1>2, <1>3, <1>4

\* A string of n pieces.
LEMMA PiecesAreSeq ==
    ASSUME NEW T, NEW n \in Nat, NEW f \in [1..n -> T]
    PROVE  f \in Seq(T) /\ Len(f) = n /\ \A i \in 1..n : f[i] \in T
  OBVIOUS

\* url_encode writes the characters one after another.
LEMMA EncodedPieces ==
    ASSUME NEW s \in Strings
    PROVE  /\ [i \in 1..Len(s) |-> Coded(s[i])] \in Seq(Seq(Plain))
           /\ Len([i \in 1..Len(s) |-> Coded(s[i])]) = Len(s)
           /\ UrlEncode(s) = Joined([i \in 1..Len(s) |-> Coded(s[i])])
<1>1. Len(s) \in Nat /\ \A i \in 1..Len(s) : s[i] \in Characters
  BY LenProperties, ElementOfSeq DEF Strings
<1>2. \A i \in 1..Len(s) : Coded(s[i]) \in Seq(Plain)
  BY <1>1, CodedIsPlain
<1>3. [i \in 1..Len(s) |-> Coded(s[i])] \in [1..Len(s) -> Seq(Plain)]
  BY <1>2
<1>4. UrlEncode(s) = Joined([i \in 1..Len(s) |-> Coded(s[i])])
  BY DEF UrlEncode, Coded
<1> HIDE DEF Coded
<1> QED BY <1>1, <1>3, <1>4, PiecesAreSeq

\* What url_encode writes is plain.
LEMMA EncodedIsPlain ==
    ASSUME NEW s \in Strings
    PROVE  UrlEncode(s) \in Seq(Plain)
  BY EncodedPieces, JoinedPlaces

\* url_decode finds an escape at place i of the string s.
EscapeAt(s, i) ==
    s[i] = "%" /\ i + 2 <= Len(s) /\ s[i + 1] \in HexDigits /\ s[i + 2] \in HexDigits

\* f is what url_decode makes of the string s from each of its places.
Decodes(f, s) ==
    f = [i \in 1..(Len(s) + 1) |->
            IF i > Len(s)          THEN <<>>
            ELSE IF s[i] = "+"     THEN <<" ">> \o f[i + 1]
            ELSE IF EscapeAt(s, i) THEN <<Decoded(<<s[i + 1], s[i + 2]>>)>> \o f[i + 3]
            ELSE <<s[i]>> \o f[i + 1]]

\* There is such a function, and url_decode is its value at the beginning.
LEMMA DecodeLoop ==
    ASSUME NEW T, NEW s \in Seq(T)
    PROVE  \E f : /\ UrlDecode(s) = f[1] /\ f[Len(s) + 1] = <<>>
                  /\ \A i \in 1..Len(s) :
                         /\ s[i] = "+" => f[i] = <<" ">> \o f[i + 1]
                         /\ s[i] # "+" /\ EscapeAt(s, i) =>
                                f[i] = <<Decoded(<<s[i + 1], s[i + 2]>>)>> \o f[i + 3]
                         /\ s[i] # "+" /\ ~EscapeAt(s, i) => f[i] = <<s[i]>> \o f[i + 1]
<1>1. PICK n : n = Len(s) /\ n \in Nat
  BY LenProperties
<1> DEFINE Stop == {n + 1}
           last == [i \in 1..(n + 1) |-> <<>>]
           piece == [i \in 1..(n + 1) |->
                        IF s[i] = "+" THEN <<" ">>
                        ELSE IF EscapeAt(s, i) THEN <<Decoded(<<s[i + 1], s[i + 2]>>)>>
                        ELSE <<s[i]>>]
           next == [i \in 1..(n + 1) |->
                        IF s[i] = "+" THEN i + 1 ELSE IF EscapeAt(s, i) THEN i + 3 ELSE i + 1]
<1>2. \A i \in 1..(n + 1) : i \notin Stop => next[i] \in (i + 1)..(n + 1)
  <2> SUFFICES ASSUME NEW i \in 1..(n + 1), i # n + 1 PROVE next[i] \in (i + 1)..(n + 1)
    OBVIOUS
  <2>1. i \in 1..n
    BY <1>1
  <2>2. EscapeAt(s, i) => i + 2 <= n
    BY <1>1 DEF EscapeAt
  <2>3. next[i] = IF s[i] = "+" THEN i + 1 ELSE IF EscapeAt(s, i) THEN i + 3 ELSE i + 1
    OBVIOUS
  <2>4. CASE EscapeAt(s, i)
    BY <1>1, <2>1, <2>2, <2>3, <2>4
  <2>5. CASE ~EscapeAt(s, i)
    BY <1>1, <2>1, <2>3, <2>5
  <2> QED BY <2>4, <2>5
<1>3. PICK f : f = [i \in 1..(n + 1) |-> IF i \in Stop THEN last[i] ELSE piece[i] \o f[next[i]]]
  <2> HIDE DEF Stop, last, piece, next
  <2>1. \E f : LoopFrom(f, n, Stop, last, piece, next)
    BY <1>1, <1>2, ForwardLoop
  <2> QED BY <2>1 DEF LoopFrom
<1>4. f[n + 1] = <<>> /\ \A i \in 1..n : f[i] = piece[i] \o f[next[i]]
  <2>1. n + 1 \in 1..(n + 1) /\ n + 1 \in Stop /\ last[n + 1] = <<>>
    BY <1>1
  <2>2. \A i \in 1..n : i \in 1..(n + 1) /\ i \notin Stop
    BY <1>1
  <2> HIDE DEF Stop, last, piece, next
  <2>3. \A i \in 1..(n + 1) : f[i] = IF i \in Stop THEN last[i] ELSE piece[i] \o f[next[i]]
    BY <1>3
  <2> QED BY <2>1, <2>2, <2>3
<1>5. ASSUME NEW g, Decodes(g, s)
      PROVE  /\ g[n + 1] = <<>>
             /\ \A i \in 1..n :
                    /\ s[i] = "+" => g[i] = <<" ">> \o g[i + 1]
                    /\ s[i] # "+" /\ EscapeAt(s, i) =>
                           g[i] = <<Decoded(<<s[i + 1], s[i + 2]>>)>> \o g[i + 3]
                    /\ s[i] # "+" /\ ~EscapeAt(s, i) => g[i] = <<s[i]>> \o g[i + 1]
  <2>1. \A i \in 1..(n + 1) :
            g[i] = IF i > n                THEN <<>>
                   ELSE IF s[i] = "+"     THEN <<" ">> \o g[i + 1]
                   ELSE IF EscapeAt(s, i) THEN <<Decoded(<<s[i + 1], s[i + 2]>>)>> \o g[i + 3]
                   ELSE <<s[i]>> \o g[i + 1]
    BY <1>1, <1>5 DEF Decodes
  <2>2. n + 1 \in 1..(n + 1) /\ n + 1 > n
    BY <1>1
  <2>3. \A i \in 1..n : i \in 1..(n + 1) /\ ~(i > n)
    BY <1>1
  <2> QED BY <2>1, <2>2, <2>3
<1>6. Decodes(f, s)
  <2>1. \A i \in 1..n : i \in 1..(n + 1) /\ ~(i > n)
    BY <1>1
  <2>2. ASSUME NEW i \in 1..n
        PROVE  f[i] = IF s[i] = "+"          THEN <<" ">> \o f[i + 1]
                      ELSE IF EscapeAt(s, i) THEN <<Decoded(<<s[i + 1], s[i + 2]>>)>> \o f[i + 3]
                      ELSE <<s[i]>> \o f[i + 1]
    <3>1. f[i] = piece[i] \o f[next[i]]
      BY <1>4
    <3>2. /\ next[i] = IF s[i] = "+" THEN i + 1 ELSE IF EscapeAt(s, i) THEN i + 3 ELSE i + 1
          /\ piece[i] = IF s[i] = "+" THEN <<" ">>
                        ELSE IF EscapeAt(s, i) THEN <<Decoded(<<s[i + 1], s[i + 2]>>)>>
                        ELSE <<s[i]>>
      BY <2>1
    <3> HIDE DEF next, piece
    <3> QED BY <3>1, <3>2
  <2>3. ASSUME NEW i \in 1..(n + 1)
        PROVE  f[i] = IF i > n               THEN <<>>
                      ELSE IF s[i] = "+"     THEN <<" ">> \o f[i + 1]
                      ELSE IF EscapeAt(s, i) THEN <<Decoded(<<s[i + 1], s[i + 2]>>)>> \o f[i + 3]
                      ELSE <<s[i]>> \o f[i + 1]
    <3>1. CASE i = n + 1
      <4>1. i > n
        BY <1>1, <3>1
      <4> QED BY <1>4, <3>1, <4>1
    <3>2. CASE i # n + 1
      <4>1. i \in 1..n /\ ~(i > n)
        BY <1>1, <3>2
      <4> QED BY <2>2, <4>1
    <3> QED BY <3>1, <3>2
  <2>4. f = [i \in 1..(n + 1) |-> f[i]]
    BY <1>3
  <2> HIDE DEF Stop, last, piece, next
  <2> QED BY <1>1, <2>3, <2>4 DEF Decodes
<1>7. PICK g : g = CHOOSE h : Decodes(h, s)
  OBVIOUS
<1>8. Decodes(g, s)
  BY <1>6, <1>7, Zenon
<1>9. UrlDecode(s) = g[1]
  BY <1>7 DEF UrlDecode, Decodes, EscapeAt
<1> QED BY <1>1, <1>5, <1>8, <1>9

\* The three ways a character is written, as url_decode sees them.
LEMMA CodedCases ==
    ASSUME NEW c \in Characters
    PROVE  \/ c = " " /\ Coded(c) = <<"+">>
           \/ \E a, b \in HexDigits : Coded(c) = <<"%", a, b>> /\ Decoded(<<a, b>>) = c
           \/ c # "%" /\ c # "+" /\ Coded(c) = <<c>>
<1>1. CASE c = " "
  BY <1>1 DEF Coded
<1>2. CASE c # " " /\ c \in DOMAIN Code
  BY <1>2, CodeResult DEF Coded
<1>3. CASE c # " " /\ c \notin DOMAIN Code
  <2>1. c # "%" /\ c # "+"
    BY <1>3 DEF Code
  <2> QED BY <1>3, <2>1 DEF Coded
<1> QED BY <1>1, <1>2, <1>3

\* url_decode undoes url_encode: whatever a key or a value is made of, escapes,
\* separators and spaces included, it is the same after the way to the server.
THEOREM DecodeUndoesEncode ==
    ASSUME NEW s \in Strings
    PROVE  UrlDecode(UrlEncode(s)) = s
<1>1. PICK n : n = Len(s) /\ n \in Nat
  BY LenProperties DEF Strings
<1>2. \A i \in 1..n : s[i] \in Characters
  BY <1>1, ElementOfSeq DEF Strings
<1> DEFINE pieces == [i \in 1..Len(s) |-> Coded(s[i])]
<1>3. PICK e : e = UrlEncode(s)
  OBVIOUS
<1>4. /\ pieces \in Seq(Seq(Plain)) /\ Len(pieces) = n /\ e = Joined(pieces)
      /\ \A i \in 1..n : pieces[i] = Coded(s[i])
  <2>1. \A i \in 1..n : pieces[i] = Coded(s[i])
    BY <1>1
  <2> HIDE DEF pieces
  <2> QED BY <1>1, <1>3, <2>1, EncodedPieces DEF pieces
<1> HIDE DEF pieces
<1>5. e \in Seq(Plain) /\ Len(e) \in Nat
  BY <1>4, JoinedPlaces, LenProperties
<1>6. PICK at \in [0..n -> Nat] :
          /\ at[0] = 0 /\ at[n] = Len(e)
          /\ \A i \in 0..n : at[i] <= Len(e)
          /\ \A i \in 1..n : /\ at[i] = at[i - 1] + Len(pieces[i])
                             /\ \A j \in 1..Len(pieces[i]) : e[at[i - 1] + j] = pieces[i][j]
  <2>1. PICK at : PlacedAt(pieces, e, at)
    BY <1>4, JoinedPlaces
  <2> QED BY <1>4, <2>1 DEF PlacedAt
<1>7. PICK f : /\ UrlDecode(e) = f[1] /\ f[Len(e) + 1] = <<>>
               /\ \A i \in 1..Len(e) :
                      /\ e[i] = "+" => f[i] = <<" ">> \o f[i + 1]
                      /\ e[i] # "+" /\ EscapeAt(e, i) =>
                             f[i] = <<Decoded(<<e[i + 1], e[i + 2]>>)>> \o f[i + 3]
                      /\ e[i] # "+" /\ ~EscapeAt(e, i) => f[i] = <<e[i]>> \o f[i + 1]
  BY <1>5, DecodeLoop
<1>8. ASSUME NEW i \in 1..n
      PROVE  f[at[i - 1] + 1] = <<s[i]>> \o f[at[i] + 1]
  <2>1. PICK p, q, l : p = at[i - 1] /\ p \in Nat /\ q = at[i] /\ q \in Nat /\ l = Len(e)
    <3>1. i - 1 \in 0..n /\ i \in 0..n
      BY <1>1
    <3> QED BY <1>6, <3>1
  <2>2. q <= l /\ q = p + Len(pieces[i]) /\ pieces[i] = Coded(s[i]) /\ l \in Nat
    <3>1. i \in 0..n
      BY <1>1
    <3> QED BY <1>4, <1>5, <1>6, <2>1, <3>1
  <2> DEFINE Sizes == p \in Nat /\ q \in Nat /\ l \in Nat /\ q <= l
  <2>8. Sizes
    BY <2>1, <2>2
  <2>3. \A j \in 1..Len(pieces[i]) : e[p + j] = pieces[i][j]
    BY <1>6, <2>1
  <2>4. CASE s[i] = " " /\ Coded(s[i]) = <<"+">>
    <3>1. q = p + 1 /\ e[p + 1] = "+" /\ p + 1 \in 1..l
      <4>1. Len(pieces[i]) = 1 /\ pieces[i][1] = "+" /\ 1 \in 1..1
        <5>1. pieces[i] = <<"+">>
          BY <2>2, <2>4
        <5> QED BY <5>1
      <4>2. e[p + 1] = "+"
        BY <2>3, <4>1
      <4>3. q = p + 1
        BY <2>2, <4>1
      <4>4. p + 1 \in 1..l
        BY <2>8, <4>3
      <4> QED BY <4>2, <4>3, <4>4
    <3> QED BY <1>7, <2>1, <2>4, <3>1
  <2>5. ASSUME NEW a \in HexDigits, NEW b \in HexDigits,
               Coded(s[i]) = <<"%", a, b>>, Decoded(<<a, b>>) = s[i]
        PROVE  f[at[i - 1] + 1] = <<s[i]>> \o f[at[i] + 1]
    <3>1. q = p + 3 /\ e[p + 1] = "%" /\ e[p + 2] = a /\ e[p + 3] = b
      <4>1. /\ Len(<<"%", a, b>>) = 3 /\ <<"%", a, b>>[1] = "%" /\ <<"%", a, b>>[2] = a
            /\ <<"%", a, b>>[3] = b /\ 1 \in 1..3 /\ 2 \in 1..3 /\ 3 \in 1..3
        OBVIOUS
      <4> QED BY <2>2, <2>3, <2>5, <4>1
    <3>2. PICK k : k = p + 1
      OBVIOUS
    <3>3. k \in 1..l /\ k + 2 <= l /\ k + 1 = p + 2 /\ k + 2 = p + 3 /\ k + 3 = q + 1
      <4>1. q = p + 3
        BY <3>1
      <4> QED BY <2>8, <3>2, <4>1
    <3>4. e[k] = "%" /\ e[k + 1] = a /\ e[k + 2] = b
      BY <3>1, <3>2, <3>3
    <3>5. EscapeAt(e, k) /\ e[k] # "+"
      BY <2>1, <3>3, <3>4 DEF EscapeAt
    <3>6. f[k] = <<Decoded(<<e[k + 1], e[k + 2]>>)>> \o f[k + 3]
      BY <1>7, <2>1, <3>3, <3>5
    <3> QED BY <2>1, <2>5, <3>2, <3>3, <3>4, <3>6
  <2>6. CASE s[i] # "%" /\ s[i] # "+" /\ Coded(s[i]) = <<s[i]>>
    <3>1. q = p + 1 /\ e[p + 1] = s[i] /\ p + 1 \in 1..l
      <4>1. Len(<<s[i]>>) = 1 /\ <<s[i]>>[1] = s[i] /\ 1 \in 1..1
        OBVIOUS
      <4> QED BY <2>1, <2>2, <2>3, <2>6, <4>1
    <3>2. ~EscapeAt(e, p + 1)
      BY <2>6, <3>1 DEF EscapeAt
    <3>3. f[p + 1] = <<e[p + 1]>> \o f[p + 1 + 1]
      BY <1>7, <2>1, <2>6, <3>1, <3>2
    <3> QED BY <2>1, <3>1, <3>3
  <2>7. s[i] \in Characters
    BY <1>2
  <2> QED BY <2>4, <2>5, <2>6, <2>7, CodedCases
<1> DEFINE Wrong == {k \in Nat : k <= n /\ f[at[n - k] + 1] # SubSeq(s, n - k + 1, n)}
<1>9. Wrong = {}
  <2> SUFFICES ASSUME Wrong # {} PROVE FALSE
    OBVIOUS
  <2>1. PICK k \in Wrong : \A j \in Wrong : k <= j
    BY LeastNat
  <2>2. CASE k = 0
    <3>1. n - k = n /\ n - k + 1 = n + 1 /\ n < n + 1 /\ n + 1 \in Int /\ n \in Int
      BY <1>1, <2>2
    <3>2. SubSeq(s, n + 1, n) = <<>>
      BY <3>1, SubSeqEmpty
    <3>3. f[at[n] + 1] = <<>>
      BY <1>6, <1>7
    <3> QED BY <3>1, <3>2, <3>3
  <2>3. CASE k # 0
    <3>1. PICK i : i = n - k + 1
      OBVIOUS
    <3>2. /\ i \in 1..n /\ k - 1 \in Nat /\ k - 1 <= n /\ ~(k <= k - 1)
          /\ n - (k - 1) = i /\ i - 1 = n - k /\ n \in i..n
      BY <1>1, <2>3, <3>1
    <3>3. f[at[i] + 1] = SubSeq(s, i + 1, n)
      <4>1. k - 1 \notin Wrong
        BY <2>1, <3>2
      <4> QED BY <3>2, <4>1
    <3>4. SubSeq(s, i, n) = <<s[i]>> \o SubSeq(s, i + 1, n)
      BY <1>1, <3>2, SubSeqRecursiveFirst DEF Strings
    <3>5. f[at[n - k] + 1] = SubSeq(s, n - k + 1, n)
      BY <1>8, <3>1, <3>2, <3>3, <3>4
    <3> QED BY <3>5
  <2> QED BY <2>2, <2>3
<1>10. f[at[0] + 1] = SubSeq(s, 1, n)
  <2>1. n \notin Wrong
    BY <1>9
  <2>2. n - n = 0 /\ n <= n /\ 0 + 1 = 1
    BY <1>1
  <2> QED BY <1>1, <2>1, <2>2
<1>11. SubSeq(s, 1, n) = s
  BY <1>1, SubSeqFull DEF Strings
<1>12. at[0] + 1 = 1
  BY <1>6
<1> QED BY <1>3, <1>7, <1>10, <1>11, <1>12

-----------------------------------------------------------------------------
(* Cutting a string at a delimiter. *)

\* The places of the delimiter d from place i of s on, how many there are before, and
\* what split takes for the last piece if that begins at place i.
DelimsFrom(s, d, i) == {j \in i..Len(s) : s[j] = d}
CutsBefore(s, d, i) == Cardinality({j \in 1..(i - 1) : s[j] = d})
RestFrom(s, d, i) ==
    IF DelimsFrom(s, d, i) = {} THEN SubSeq(s, i, Len(s))
    ELSE SubSeq(s, i, Min({Len(s), (i - 1) + (Min(DelimsFrom(s, d, i)) - 1)}))

\* split is at place i at its end.
LastCut(s, d, times, i) ==
    DelimsFrom(s, d, i) = {} \/ (times # 0 /\ CutsBefore(s, d, i) = times)

\* f is what split makes of the string s from each of its places.
Splits(f, s, d, times) ==
    f = [i \in 1..(Len(s) + 1) |->
            IF LastCut(s, d, times, i) THEN <<RestFrom(s, d, i)>>
            ELSE <<SubSeq(s, i, Min(DelimsFrom(s, d, i)) - 1)>>
                 \o f[Min(DelimsFrom(s, d, i)) + 1]]

\* The same, place by place.
SplitFrom(f, s, d, times) ==
    \A i \in 1..(Len(s) + 1) :
        /\ LastCut(s, d, times, i) => f[i] = <<RestFrom(s, d, i)>>
        /\ ~LastCut(s, d, times, i) =>
               f[i] = <<SubSeq(s, i, Min(DelimsFrom(s, d, i)) - 1)>>
                      \o f[Min(DelimsFrom(s, d, i)) + 1]

\* The first delimiter from a place on, if there is one.
LEMMA FirstDelim ==
    ASSUME NEW T, NEW s \in Seq(T), NEW d, NEW i \in 1..(Len(s) + 1), DelimsFrom(s, d, i) # {}
    PROVE  /\ Min(DelimsFrom(s, d, i)) \in i..Len(s)
           /\ s[Min(DelimsFrom(s, d, i))] = d
           /\ \A j \in i..(Min(DelimsFrom(s, d, i)) - 1) : s[j] # d
<1>1. Len(s) \in Nat
  BY LenProperties
<1>2. DelimsFrom(s, d, i) \subseteq Nat
  BY <1>1 DEF DelimsFrom
<1>3. PICK k \in DelimsFrom(s, d, i) : \A j \in DelimsFrom(s, d, i) : k <= j
  BY <1>2, LeastNat
<1>4. PICK m : m = Min(DelimsFrom(s, d, i))
  OBVIOUS
<1>5. m \in DelimsFrom(s, d, i) /\ \A j \in DelimsFrom(s, d, i) : m <= j
  <2> HIDE DEF DelimsFrom
  <2> QED BY <1>3, <1>4 DEF Min
<1>6. m \in i..Len(s) /\ s[m] = d
  BY <1>5 DEF DelimsFrom
<1>7. ASSUME NEW j \in i..(m - 1) PROVE s[j] # d
  <2>1. j \in i..Len(s) /\ ~(m <= j)
    BY <1>1, <1>6
  <2>2. j \notin DelimsFrom(s, d, i)
    BY <1>5, <2>1
  <2> QED BY <2>1, <2>2 DEF DelimsFrom
<1> QED BY <1>4, <1>6, <1>7

\* There is such a function, and split is its value at the beginning.
LEMMA SplitLoop ==
    ASSUME NEW T, NEW s \in Seq(T), NEW d, NEW times
    PROVE  \E f : Split(s, d, times) = f[1] /\ SplitFrom(f, s, d, times)
<1>1. PICK n : n = Len(s) /\ n \in Nat
  BY LenProperties
<1> DEFINE Stop == {i \in 1..(n + 1) : LastCut(s, d, times, i)}
           last == [i \in 1..(n + 1) |-> <<RestFrom(s, d, i)>>]
           piece == [i \in 1..(n + 1) |-> <<SubSeq(s, i, Min(DelimsFrom(s, d, i)) - 1)>>]
           next == [i \in 1..(n + 1) |-> Min(DelimsFrom(s, d, i)) + 1]
<1>2. \A i \in 1..(n + 1) : i \notin Stop => next[i] \in (i + 1)..(n + 1)
  <2> SUFFICES ASSUME NEW i \in 1..(n + 1), i \notin Stop PROVE next[i] \in (i + 1)..(n + 1)
    OBVIOUS
  <2>1. DelimsFrom(s, d, i) # {}
    BY DEF LastCut
  <2>2. PICK m : m = Min(DelimsFrom(s, d, i))
    OBVIOUS
  <2>3. m \in i..n
    BY <1>1, <2>1, <2>2, FirstDelim
  <2>4. next[i] = m + 1
    BY <2>2
  <2> HIDE DEF next
  <2> QED BY <1>1, <2>3, <2>4
<1>3. PICK f : LoopFrom(f, n, Stop, last, piece, next)
  <2> HIDE DEF Stop, last, piece, next
  <2> QED BY <1>1, <1>2, ForwardLoop
<1>4. Splits(f, s, d, times)
  <2>1. f = [i \in 1..(n + 1) |-> IF i \in Stop THEN last[i] ELSE piece[i] \o f[next[i]]]
    BY <1>3 DEF LoopFrom
  <2>2. ASSUME NEW i \in 1..(n + 1)
        PROVE  f[i] = IF LastCut(s, d, times, i) THEN <<RestFrom(s, d, i)>>
                      ELSE <<SubSeq(s, i, Min(DelimsFrom(s, d, i)) - 1)>>
                           \o f[Min(DelimsFrom(s, d, i)) + 1]
    <3>1. f[i] = IF i \in Stop THEN last[i] ELSE piece[i] \o f[next[i]]
      <4> HIDE DEF Stop, last, piece, next
      <4> QED BY <2>1
    <3>2. i \in Stop <=> LastCut(s, d, times, i)
      OBVIOUS
    <3>3. /\ last[i] = <<RestFrom(s, d, i)>>
          /\ piece[i] = <<SubSeq(s, i, Min(DelimsFrom(s, d, i)) - 1)>>
          /\ next[i] = Min(DelimsFrom(s, d, i)) + 1
      OBVIOUS
    <3> HIDE DEF Stop, last, piece, next
    <3>4. CASE LastCut(s, d, times, i)
      BY <3>1, <3>2, <3>3, <3>4
    <3>5. CASE ~LastCut(s, d, times, i)
      BY <3>1, <3>2, <3>3, <3>5
    <3> QED BY <3>4, <3>5
  <2>3. f = [i \in 1..(n + 1) |-> f[i]]
    <3> HIDE DEF Stop, last, piece, next
    <3> QED BY <2>1
  <2> HIDE DEF Stop, last, piece, next
  <2> QED BY <1>1, <2>2, <2>3 DEF Splits
<1>5. PICK g : g = CHOOSE h : Splits(h, s, d, times)
  OBVIOUS
<1>6. Splits(g, s, d, times)
  BY <1>4, <1>5, Zenon
<1>7. Split(s, d, times) = g[1]
  BY <1>5 DEF Split, Splits, LastCut, CutsBefore, RestFrom, DelimsFrom
<1>8. ASSUME NEW i \in 1..(Len(s) + 1)
      PROVE  /\ LastCut(s, d, times, i) => g[i] = <<RestFrom(s, d, i)>>
             /\ ~LastCut(s, d, times, i) =>
                    g[i] = <<SubSeq(s, i, Min(DelimsFrom(s, d, i)) - 1)>>
                           \o g[Min(DelimsFrom(s, d, i)) + 1]
  <2>1. g[i] = IF LastCut(s, d, times, i) THEN <<RestFrom(s, d, i)>>
               ELSE <<SubSeq(s, i, Min(DelimsFrom(s, d, i)) - 1)>>
                    \o g[Min(DelimsFrom(s, d, i)) + 1]
    BY <1>6 DEF Splits
  <2>2. CASE LastCut(s, d, times, i)
    BY <2>1, <2>2
  <2>3. CASE ~LastCut(s, d, times, i)
    BY <2>1, <2>3
  <2> QED BY <2>2, <2>3
<1> QED BY <1>7, <1>8 DEF SplitFrom

\* What puts the elements of a sequence before each other, from the last to the first,
\* gives the sequence.
LEMMA BuiltFromTheEnd ==
    ASSUME NEW T, NEW t \in Seq(T), NEW g, g[Len(t) + 1] = <<>>,
           \A i \in 1..Len(t) : g[i] = <<t[i]>> \o g[i + 1]
    PROVE  g[1] = t
<1>1. PICK n : n = Len(t) /\ n \in Nat
  BY LenProperties
<1> DEFINE Wrong == {k \in Nat : k <= n /\ g[n - k + 1] # SubSeq(t, n - k + 1, n)}
<1>2. Wrong = {}
  <2> SUFFICES ASSUME Wrong # {} PROVE FALSE
    OBVIOUS
  <2>1. PICK k \in Wrong : \A j \in Wrong : k <= j
    BY LeastNat
  <2>2. CASE k = 0
    <3>1. n - k + 1 = n + 1 /\ n < n + 1 /\ n + 1 \in Int /\ n \in Int
      BY <1>1, <2>2
    <3>2. SubSeq(t, n + 1, n) = <<>>
      BY <3>1, SubSeqEmpty
    <3> QED BY <1>1, <3>1, <3>2
  <2>3. CASE k # 0
    <3>1. PICK i : i = n - k + 1
      OBVIOUS
    <3>2. /\ i \in 1..n /\ k - 1 \in Nat /\ k - 1 <= n /\ ~(k <= k - 1)
          /\ n - (k - 1) + 1 = i + 1 /\ n \in i..n
      BY <1>1, <2>3, <3>1
    <3>3. g[i + 1] = SubSeq(t, i + 1, n)
      <4>1. k - 1 \notin Wrong
        BY <2>1, <3>2
      <4> QED BY <3>2, <4>1
    <3>4. SubSeq(t, i, n) = <<t[i]>> \o SubSeq(t, i + 1, n)
      BY <1>1, <3>2, SubSeqRecursiveFirst
    <3>5. g[i] = <<t[i]>> \o g[i + 1]
      BY <1>1, <3>2
    <3>6. g[i] = SubSeq(t, i, n)
      BY <3>3, <3>4, <3>5
    <3> QED BY <3>1, <3>6
  <2> QED BY <2>2, <2>3
<1>3. g[1] = SubSeq(t, 1, n)
  <2>1. n - n + 1 = 1 /\ n <= n
    BY <1>1
  <2>2. n \notin Wrong
    BY <1>2
  <2> QED BY <1>1, <2>1, <2>2
<1> QED BY <1>1, <1>3, SubSeqFull

\* Two elements, one after the other.
LEMMA TwoElements ==
    ASSUME NEW x, NEW y
    PROVE  <<x>> \o <<y>> = <<x, y>>
<1>1. PICK T : T = {x, y}
  OBVIOUS
<1>2. <<x>> \in Seq(T) /\ <<y>> \in Seq(T) /\ <<x, y>> \in Seq(T)
  BY <1>1
<1>3. Len(<<x>>) = 1 /\ Len(<<y>>) = 1 /\ Len(<<x, y>>) = 2
  OBVIOUS
<1>4. PICK t : t = <<x>> \o <<y>>
  OBVIOUS
<1>5. t \in Seq(T) /\ Len(t) = 2 /\ t[1] = x /\ t[2] = y
  BY <1>2, <1>3, <1>4, ConcatProperties
<1>6. \A k \in 1..2 : k = 1 \/ k = 2
  OBVIOUS
<1>7. \A k \in 1..2 : t[k] = <<x, y>>[k]
  BY <1>5, <1>6
<1> QED BY <1>2, <1>3, <1>4, <1>5, <1>7, SeqEqual

\* split of a string without the delimiter, and split once at the first delimiter.
LEMMA SplitOnce ==
    ASSUME NEW T, NEW s \in Seq(T), NEW d
    PROVE  /\ DelimsFrom(s, d, 1) = {} => Split(s, d, 1) = <<s>>
           /\ DelimsFrom(s, d, 1) # {} =>
                  Split(s, d, 1) = <<SubSeq(s, 1, Min(DelimsFrom(s, d, 1)) - 1),
                                     RestFrom(s, d, Min(DelimsFrom(s, d, 1)) + 1)>>
<1>1. PICK f : Split(s, d, 1) = f[1] /\ SplitFrom(f, s, d, 1)
  BY SplitLoop
<1>2. Len(s) \in Nat /\ 1 \in 1..(Len(s) + 1)
  BY LenProperties
<1>3. CASE DelimsFrom(s, d, 1) = {}
  <2>1. f[1] = <<RestFrom(s, d, 1)>>
    BY <1>1, <1>2, <1>3 DEF LastCut, SplitFrom
  <2>2. RestFrom(s, d, 1) = s
    BY <1>3, SubSeqFull DEF RestFrom
  <2> QED BY <1>1, <1>3, <2>1, <2>2
<1>4. CASE DelimsFrom(s, d, 1) # {}
  <2>1. PICK m : m = Min(DelimsFrom(s, d, 1))
    OBVIOUS
  <2>2. /\ m \in 1..Len(s) /\ s[m] = d /\ \A j \in 1..(m - 1) : s[j] # d
    BY <1>2, <1>4, <2>1, FirstDelim
  <2>3. ~LastCut(s, d, 1, 1)
    <3>1. {j \in 1..(1 - 1) : s[j] = d} = {}
      OBVIOUS
    <3>2. CutsBefore(s, d, 1) = 0
      BY <3>1, FS_EmptySet DEF CutsBefore
    <3> QED BY <1>4, <3>2 DEF LastCut
  <2>4. LastCut(s, d, 1, m + 1)
    <3>1. PICK k : k = m + 1
      OBVIOUS
    <3>2. k - 1 = m /\ m \in 1..m /\ \A j \in 1..m : j = m \/ j \in 1..(m - 1)
      BY <1>2, <2>2, <3>1
    <3>3. \A j \in 1..m : s[j] = d <=> j = m
      BY <2>2, <3>2
    <3>4. {j \in 1..m : s[j] = d} = {m}
      BY <3>2, <3>3, Zenon
    <3>5. CutsBefore(s, d, k) = Cardinality({m})
      BY <3>2, <3>4 DEF CutsBefore
    <3>6. CutsBefore(s, d, k) = 1
      BY <3>5, FS_Singleton
    <3> QED BY <3>1, <3>6 DEF LastCut
  <2>5. f[1] = <<SubSeq(s, 1, m - 1)>> \o f[m + 1]
    BY <1>1, <1>2, <2>1, <2>3 DEF SplitFrom
  <2>6. f[m + 1] = <<RestFrom(s, d, m + 1)>>
    <3>1. m + 1 \in 1..(Len(s) + 1)
      BY <1>2, <2>2
    <3> QED BY <1>1, <2>4, <3>1 DEF SplitFrom
  <2>7. f[1] = <<SubSeq(s, 1, m - 1), RestFrom(s, d, m + 1)>>
    BY <2>5, <2>6, TwoElements
  <2> QED BY <1>1, <1>4, <2>1, <2>7
<1> QED BY <1>3, <1>4

\* c has the places of the delimiters of s, and one before and one behind the string.
CutAt(s, d, m, c) ==
    /\ m \in Nat \ {0} /\ c \in [0..m -> 0..(Len(s) + 1)]
    /\ c[0] = 0 /\ c[m] = Len(s) + 1
    /\ \A i \in 1..m : /\ c[i - 1] < c[i]
                       /\ \A j \in (c[i - 1] + 1)..(c[i] - 1) : s[j] # d
                       /\ i # m => s[c[i]] = d

\* split at every delimiter gives what stands between the delimiters.
LEMMA SplitAll ==
    ASSUME NEW T, NEW s \in Seq(T), NEW d, NEW m, NEW c, CutAt(s, d, m, c)
    PROVE  /\ Split(s, d, 0) = [i \in 1..m |-> SubSeq(s, c[i - 1] + 1, c[i] - 1)]
           /\ Split(s, d, 0) \in Seq(Seq(T)) /\ Len(Split(s, d, 0)) = m
<1> DEFINE t == [i \in 1..m |-> SubSeq(s, c[i - 1] + 1, c[i] - 1)]
<1>1. PICK l : l = Len(s) /\ l \in Nat
  BY LenProperties
<1>2. /\ m \in Nat \ {0} /\ c \in [0..m -> 0..(l + 1)] /\ c[0] = 0 /\ c[m] = l + 1
      /\ \A i \in 1..m : /\ c[i - 1] < c[i]
                         /\ \A j \in (c[i - 1] + 1)..(c[i] - 1) : s[j] # d
                         /\ i # m => s[c[i]] = d
  BY <1>1 DEF CutAt
<1>3. ASSUME NEW i \in 1..m
      PROVE  /\ c[i - 1] \in 0..l /\ c[i] \in 1..(l + 1) /\ c[i - 1] < c[i]
             /\ t[i] = SubSeq(s, c[i - 1] + 1, c[i] - 1) /\ t[i] \in Seq(T)
  <2>1. i - 1 \in 0..m /\ i \in 0..m
    BY <1>2
  <2>2. PICK a, b : a = c[i - 1] /\ b = c[i]
    OBVIOUS
  <2>3. a \in 0..(l + 1) /\ b \in 0..(l + 1) /\ a < b
    BY <1>2, <2>1, <2>2
  <2>4. a \in 0..l /\ b \in 1..(l + 1) /\ a + 1 \in Int /\ b - 1 \in Int
        /\ \A j \in (a + 1)..(b - 1) : j \in 1..l
    BY <1>1, <2>3
  <2>5. \A j \in (a + 1)..(b - 1) : s[j] \in T
    BY <1>1, <2>4, ElementOfSeq
  <2>6. SubSeq(s, a + 1, b - 1) \in Seq(T)
    BY <2>4, <2>5, SubSeqProperties
  <2> QED BY <2>2, <2>3, <2>4, <2>6
<1>4. t \in Seq(Seq(T)) /\ Len(t) = m
  <2>1. t = [i \in 1..m |-> t[i]]
    OBVIOUS
  <2>2. \A i \in 1..m : t[i] \in Seq(T)
    BY <1>3
  <2> HIDE DEF t
  <2>3. t \in [1..m -> Seq(T)]
    BY <2>1, <2>2
  <2> QED BY <1>2, <2>3, PiecesAreSeq
<1> HIDE DEF t
<1>5. PICK f : Split(s, d, 0) = f[1] /\ SplitFrom(f, s, d, 0)
  BY SplitLoop
<1>11. m \in 1..m /\ l + 1 - 1 = l
  <2>1. m \in Nat \ {0}
    BY DEF CutAt
  <2> QED BY <1>1, <2>1
<1>12. /\ l \in Nat /\ c[m] = l + 1
       /\ \A i \in 1..m : \A j \in (c[i - 1] + 1)..(c[i] - 1) : s[j] # d
  BY <1>1 DEF CutAt
<1>6. f[c[m - 1] + 1] = <<t[m]>>
  <2>1. PICK a : a = c[m - 1] /\ a \in 0..l
    <3>1. \A i \in 1..m : c[i - 1] \in 0..l
      BY <1>3
    <3> QED BY <1>11, <3>1
  <2>2. t[m] = SubSeq(s, a + 1, l)
    <3>1. t[m] = SubSeq(s, c[m - 1] + 1, c[m] - 1)
      <4>1. \A i \in 1..m : t[i] = SubSeq(s, c[i - 1] + 1, c[i] - 1)
        BY <1>3
      <4> QED BY <1>11, <4>1
    <3>2. c[m] - 1 = l
      <4>1. l \in Nat /\ c[m] = l + 1
        BY <1>12
      <4> QED BY <4>1
    <3> QED BY <2>1, <3>1, <3>2
  <2>3. DelimsFrom(s, d, a + 1) = {}
    <3>1. \A j \in (c[m - 1] + 1)..(c[m] - 1) : s[j] # d
      <4>1. \A i \in 1..m : \A j \in (c[i - 1] + 1)..(c[i] - 1) : s[j] # d
        BY <1>12
      <4>2. m \in 1..m
        BY <1>11
      <4> QED BY <4>1, <4>2
    <3>2. \A j \in (a + 1)..l : s[j] # d
      BY <1>11, <1>12, <2>1, <3>1
    <3> QED BY <1>1, <3>2 DEF DelimsFrom
  <2>4. f[a + 1] = <<RestFrom(s, d, a + 1)>>
    <3>1. a + 1 \in 1..(Len(s) + 1)
      BY <1>1, <2>1
    <3>2. LastCut(s, d, 0, a + 1)
      BY <2>3 DEF LastCut
    <3> QED BY <1>5, <3>1, <3>2 DEF SplitFrom
  <2> QED BY <1>1, <2>1, <2>2, <2>3, <2>4 DEF RestFrom
<1>7. ASSUME NEW i \in 1..m, i # m
      PROVE  f[c[i - 1] + 1] = <<t[i]>> \o f[c[i] + 1]
  <2>1. PICK a, b : a = c[i - 1] /\ b = c[i]
    OBVIOUS
  <2>2. a \in 0..l /\ b \in 1..(l + 1) /\ a < b /\ t[i] = SubSeq(s, a + 1, b - 1)
    BY <1>3, <2>1
  <2>3. b \in 1..l
    <3>1. i + 1 \in 1..m /\ i + 1 - 1 = i
      BY <1>2, <1>7
    <3>2. c[i] \in 0..l
      BY <1>3, <3>1
    <3> QED BY <1>1, <2>1, <2>2, <3>2
  <2>4. s[b] = d /\ \A j \in (a + 1)..(b - 1) : s[j] # d
    BY <1>2, <1>7, <2>1
  <2>5. a + 1 \in 1..(Len(s) + 1) /\ b \in (a + 1)..Len(s)
    BY <1>1, <2>2, <2>3
  <2>6. b \in DelimsFrom(s, d, a + 1)
    BY <2>4, <2>5 DEF DelimsFrom
  <2>7. PICK k : k = Min(DelimsFrom(s, d, a + 1))
    OBVIOUS
  <2>8. k \in (a + 1)..Len(s) /\ s[k] = d /\ \A j \in (a + 1)..(k - 1) : s[j] # d
    BY <2>5, <2>6, <2>7, FirstDelim
  <2>9. k = b
    <3>1. ~(k < b)
      <4>1. k < b => k \in (a + 1)..(b - 1)
        BY <1>1, <2>2, <2>8
      <4> QED BY <2>4, <2>8, <4>1
    <3>2. ~(b < k)
      <4>1. b < k => b \in (a + 1)..(k - 1)
        BY <1>1, <2>2, <2>8
      <4> QED BY <2>4, <2>8, <4>1
    <3> QED BY <1>1, <2>2, <2>8, <3>1, <3>2
  <2>10. ~LastCut(s, d, 0, a + 1)
    BY <2>6 DEF LastCut
  <2>11. f[a + 1] = <<SubSeq(s, a + 1, k - 1)>> \o f[k + 1]
    BY <1>5, <2>5, <2>7, <2>10 DEF SplitFrom
  <2> QED BY <2>1, <2>2, <2>9, <2>11
<1> DEFINE g == [i \in 1..(m + 1) |-> IF i = m + 1 THEN <<>> ELSE f[c[i - 1] + 1]]
<1>8. g[1] = t
  <2>1. g[m + 1] = <<>>
    BY <1>2
  <2>2. ASSUME NEW i \in 1..m PROVE g[i] = <<t[i]>> \o g[i + 1]
    <3>1. i \in 1..(m + 1) /\ i # m + 1 /\ i + 1 \in 1..(m + 1) /\ i + 1 - 1 = i
      BY <1>2
    <3>2. g[i] = f[c[i - 1] + 1]
      BY <3>1
    <3>3. CASE i = m
      <4>1. g[i + 1] = <<>>
        BY <2>1, <3>3
      <4>2. t[i] \in Seq(T)
        BY <1>3
      <4>3. <<t[i]>> \in Seq(Seq(T))
        BY <4>2
      <4>4. <<t[i]>> \o <<>> = <<t[i]>>
        BY <4>3, ConcatEmptySeq
      <4> HIDE DEF g
      <4> QED BY <1>6, <3>2, <3>3, <4>1, <4>4
    <3>4. CASE i # m
      <4>1. g[i + 1] = f[c[i] + 1]
        <5>1. i + 1 # m + 1
          BY <1>2, <3>4
        <5> QED BY <3>1, <5>1
      <4> HIDE DEF g
      <4> QED BY <1>7, <3>2, <3>4, <4>1
    <3> QED BY <3>3, <3>4
  <2> HIDE DEF g
  <2> QED BY <1>4, <2>1, <2>2, BuiltFromTheEnd
<1>9. g[1] = f[c[0] + 1] /\ c[0] + 1 = 1
  <2>1. 1 \in 1..(m + 1) /\ 1 # m + 1 /\ 1 - 1 = 0
    BY <1>2
  <2> QED BY <1>2, <2>1
<1>10. Split(s, d, 0) = t
  <2> HIDE DEF g
  <2> QED BY <1>5, <1>8, <1>9
<1> QED BY <1>4, <1>10 DEF t

\* The elements of t stand in s from place m on.
StandsAt(t, s, m) == \A i \in 1..Len(t) : s[m - 1 + i] = t[i]

\* A part of a sequence, told from its elements.
LEMMA PartIs ==
    ASSUME NEW T, NEW s, NEW m \in Nat \ {0}, NEW n \in Nat, NEW t \in Seq(T),
           m + Len(t) = n + 1, StandsAt(t, s, m)
    PROVE  SubSeq(s, m, n) = t
<1>1. PICK l : l = Len(t) /\ l \in Nat
  BY LenProperties
<1>2. n - m + 1 = l /\ m \in Int /\ n \in Int /\ (~(m <= n) => l = 0)
  BY <1>1
<1>3. ASSUME NEW j \in m..n PROVE s[j] \in T
  <2>1. PICK i : i = j - m + 1
    OBVIOUS
  <2>2. i \in 1..l /\ m - 1 + i = j
    BY <1>1, <2>1
  <2>3. t[i] \in T
    BY <1>1, <2>2, ElementOfSeq
  <2> QED BY <1>1, <2>2, <2>3 DEF StandsAt
<1>4. PICK u : u = SubSeq(s, m, n)
  OBVIOUS
<1>5. /\ u \in Seq(T) /\ Len(u) = IF m <= n THEN n - m + 1 ELSE 0
      /\ \A i \in 1..(n - m + 1) : u[i] = s[m + i - 1]
  BY <1>2, <1>3, <1>4, SubSeqProperties
<1>6. Len(u) = l
  BY <1>2, <1>5
<1>7. ASSUME NEW i \in 1..l PROVE u[i] = t[i]
  <2>1. i \in 1..(n - m + 1)
    BY <1>2
  <2>2. m + i - 1 = m - 1 + i
    BY <1>1
  <2> QED BY <1>1, <1>5, <2>1, <2>2 DEF StandsAt
<1> QED BY <1>1, <1>4, <1>5, <1>6, <1>7, SeqEqual

\* Two strings with a mark between them.
LEMMA Marked ==
    ASSUME NEW T, NEW a \in Seq(T), NEW b \in Seq(T), NEW d \in T, NEW s, s = a \o <<d>> \o b
    PROVE  /\ s \in Seq(T) /\ Len(s) = Len(a) + 1 + Len(b)
           /\ \A i \in 1..Len(a) : s[i] = a[i]
           /\ s[Len(a) + 1] = d
           /\ \A j \in 1..Len(b) : s[Len(a) + 1 + j] = b[j]
<1>1. PICK k, l : k = Len(a) /\ l = Len(b) /\ k \in Nat /\ l \in Nat
  BY LenProperties
<1>2. PICK m : m = a \o <<d>>
  OBVIOUS
<1>3. <<d>> \in Seq(T) /\ Len(<<d>>) = 1 /\ <<d>>[1] = d
  OBVIOUS
<1>4. /\ m \in Seq(T) /\ Len(m) = k + 1
      /\ \A i \in 1..(k + 1) : m[i] = IF i <= k THEN a[i] ELSE <<d>>[i - k]
  BY <1>1, <1>2, <1>3, ConcatProperties
<1>5. (\A i \in 1..k : m[i] = a[i]) /\ m[k + 1] = d
  <2>3. \A i \in 1..(k + 1) : (i <= k => m[i] = a[i]) /\ (~(i <= k) => m[i] = <<d>>[i - k])
    BY <1>4
  <2>1. \A i \in 1..k : i \in 1..(k + 1) /\ i <= k
    BY <1>1
  <2>2. PICK i : i = k + 1
    OBVIOUS
  <2>4. i \in 1..(k + 1) /\ ~(i <= k) /\ i - k = 1
    BY <1>1, <2>2
  <2>5. m[i] = <<d>>[i - k]
    BY <2>3, <2>4
  <2>6. m[i] = d
    BY <1>3, <2>4, <2>5
  <2> QED BY <2>1, <2>2, <2>3, <2>6
<1>6. /\ s \in Seq(T) /\ Len(s) = k + 1 + l
      /\ \A i \in 1..(k + 1 + l) : s[i] = IF i <= k + 1 THEN m[i] ELSE b[i - (k + 1)]
  BY <1>1, <1>2, <1>4, ConcatProperties
<1>7. (\A i \in 1..k : s[i] = a[i]) /\ s[k + 1] = d
  <2>1. \A i \in 1..k : i \in 1..(k + 1 + l) /\ i <= k + 1
    BY <1>1
  <2>2. k + 1 \in 1..(k + 1 + l) /\ k + 1 <= k + 1
    BY <1>1
  <2> QED BY <1>5, <1>6, <2>1, <2>2
<1>8. ASSUME NEW j \in 1..l PROVE s[k + 1 + j] = b[j]
  <2>1. PICK i : i = k + 1 + j
    OBVIOUS
  <2>2. i \in 1..(k + 1 + l) /\ ~(i <= k + 1) /\ i - (k + 1) = j
    BY <1>1, <2>1
  <2> QED BY <1>6, <2>1, <2>2
<1> QED BY <1>1, <1>6, <1>7, <1>8

\* s is a, the mark d and b, all of them from T.
MarkedBy(T, s, a, d, b) == a \in Seq(T) /\ b \in Seq(T) /\ d \in T /\ s = a \o <<d>> \o b

\* split once of a string with the delimiter behind a part that has none.
LEMMA SplitMarked ==
    ASSUME NEW T, NEW a, NEW b, NEW d, NEW s, MarkedBy(T, s, a, d, b), ~Contains(a, d)
    PROVE  /\ Len(Split(s, d, 1)) = 2 /\ Split(s, d, 1)[1] = a
           /\ ~Contains(b, d) => Split(s, d, 1) = <<a, b>>
<1>1. a \in Seq(T) /\ b \in Seq(T) /\ d \in T /\ s = a \o <<d>> \o b
  BY DEF MarkedBy
<1>2. PICK k, l : k = Len(a) /\ l = Len(b) /\ k \in Nat /\ l \in Nat
  BY <1>1, LenProperties
<1>3. \A i \in 1..k : a[i] # d
  BY <1>2 DEF Contains
<1>4. /\ s \in Seq(T) /\ Len(s) = k + 1 + l
      /\ \A i \in 1..k : s[i] = a[i]
      /\ s[k + 1] = d
      /\ \A j \in 1..l : s[k + 1 + j] = b[j]
  BY <1>2, <1>1, Marked
<1>5. k + 1 \in DelimsFrom(s, d, 1)
  <2>1. k + 1 \in 1..Len(s)
    BY <1>2, <1>4
  <2> QED BY <1>4, <2>1 DEF DelimsFrom
<1>6. PICK m : m = Min(DelimsFrom(s, d, 1))
  OBVIOUS
<1>7. m = k + 1
  <2>1. 1 \in 1..(Len(s) + 1)
    <3>1. Len(s) \in Nat
      BY <1>4, LenProperties
    <3> QED BY <3>1
  <2>2. m \in 1..Len(s) /\ s[m] = d /\ \A j \in 1..(m - 1) : s[j] # d
    <3>1. s \in Seq(T) /\ DelimsFrom(s, d, 1) # {}
      BY <1>4, <1>5
    <3> QED BY <1>6, <2>1, <3>1, FirstDelim
  <2>3. m \notin 1..k
    BY <1>4, <1>3, <2>2
  <2>4. k + 1 \notin 1..(m - 1)
    BY <1>4, <2>2
  <2>5. m \in Nat /\ m >= 1
    BY <1>2, <1>4, <2>2
  <2> QED BY <1>2, <2>3, <2>4, <2>5
<1>8. SubSeq(s, 1, m - 1) = a
  <2>1. m - 1 = k /\ 1 + k = k + 1 /\ \A i \in 1..k : 1 - 1 + i = i
    BY <1>2, <1>7
  <2>2. 1 + Len(a) = k + 1 /\ \A i \in 1..Len(a) : s[1 - 1 + i] = a[i]
    BY <1>2, <1>4, <2>1
  <2>3. StandsAt(a, s, 1)
    BY <2>2 DEF StandsAt
  <2>4. SubSeq(s, 1, k) = a
    BY <1>2, <1>1, <2>2, <2>3, PartIs
  <2> QED BY <2>1, <2>4
<1>9. Split(s, d, 1) = <<a, RestFrom(s, d, m + 1)>>
  BY <1>4, <1>5, <1>6, <1>8, SplitOnce
<1>10. ASSUME \A i \in 1..l : b[i] # d PROVE RestFrom(s, d, m + 1) = b
  <2>1. PICK n, o : n = m + 1 /\ o = k + 1 + l
    OBVIOUS
  <2>2. n = k + 1 + 1 /\ Len(s) = o /\ o - n + 1 = l /\ n \in Int /\ o \in Int
    BY <1>2, <1>4, <1>7, <2>1
  <2>3. ASSUME NEW j \in n..o PROVE s[j] # d
    <3>1. PICK i : i = j - (k + 1)
      OBVIOUS
    <3>2. i \in 1..l /\ j = k + 1 + i
      BY <1>2, <2>1, <2>2, <3>1
    <3> QED BY <1>4, <1>10, <3>2
  <2>4. DelimsFrom(s, d, n) = {}
    BY <2>2, <2>3 DEF DelimsFrom
  <2>5. n + Len(b) = o + 1 /\ \A i \in 1..Len(b) : s[n - 1 + i] = b[i]
    <3>1. n + l = o + 1 /\ \A i \in 1..l : n - 1 + i = k + 1 + i
      <4>1. k \in Nat /\ l \in Nat
        BY <1>2
      <4>2. n = k + 1 + 1
        BY <2>2
      <4>3. o = k + 1 + l
        BY <2>1
      <4> QED BY <4>1, <4>2, <4>3
    <3> QED BY <1>2, <1>4, <3>1
  <2>6. n \in Nat \ {0} /\ o \in Nat
    BY <1>2, <2>1, <2>2
  <2>7. SubSeq(s, n, o) = b
    <3>1. \A i \in 1..Len(b) : s[n - 1 + i] = b[i]
      BY <2>5
    <3>2. n + Len(b) = o + 1
      BY <2>5
    <3>3. StandsAt(b, s, n)
      BY <3>1 DEF StandsAt
    <3> QED BY <1>1, <2>6, <3>2, <3>3, PartIs
  <2> QED BY <2>1, <2>2, <2>4, <2>7 DEF RestFrom
<1>12. /\ Len(<<a, RestFrom(s, d, m + 1)>>) = 2
      /\ <<a, RestFrom(s, d, m + 1)>>[1] = a
  OBVIOUS
<1>11. ~Contains(b, d) => \A i \in 1..l : b[i] # d
  BY <1>2 DEF Contains
<1> QED BY <1>2, <1>9, <1>10, <1>12, <1>11

-----------------------------------------------------------------------------
(* The parameters. *)

\* What params_serialize writes for a parameter.
FieldOf(p) == UrlEncode(p.key) \o <<"=">> \o UrlEncode(p.value)

Parameter == [key : Strings, value : Strings]

\* It has one "=", between plain strings, and params_parse reads the parameter from it.
LEMMA FieldResult ==
    ASSUME NEW p \in Parameter
    PROVE  /\ FieldOf(p) \in Seq(Plain \cup {"="}) /\ Len(FieldOf(p)) \in Nat \ {0}
           /\ ParsedField(FieldOf(p)) = <<p>>
<1>1. p.key \in Strings /\ p.value \in Strings /\ p = [key |-> p.key, value |-> p.value]
  BY DEF Parameter
<1>2. PICK a, b : a = UrlEncode(p.key) /\ b = UrlEncode(p.value)
  OBVIOUS
<1>3. a \in Seq(Plain) /\ b \in Seq(Plain) /\ UrlDecode(a) = p.key /\ UrlDecode(b) = p.value
  BY <1>1, <1>2, EncodedIsPlain, DecodeUndoesEncode
<1>4. PICK T : T = Plain \cup {"="}
  OBVIOUS
<1>5. a \in Seq(T) /\ b \in Seq(T) /\ "=" \in T
  BY <1>3, <1>4, SeqMonotonic
<1>6. ~Contains(a, "=") /\ ~Contains(b, "=")
  <2>1. "=" \notin Plain
    BY DEF Plain
  <2> QED BY <1>3, <2>1, ElementOfSeq DEF Contains
<1>7. PICK f : f = FieldOf(p)
  OBVIOUS
<1>8. f = a \o <<"=">> \o b
  BY <1>2, <1>7 DEF FieldOf
<1>9. f \in Seq(T) /\ Len(f) \in Nat \ {0}
  <2>1. f \in Seq(T) /\ Len(f) = Len(a) + 1 + Len(b)
    BY <1>5, <1>8, Marked
  <2>2. Len(a) \in Nat /\ Len(b) \in Nat
    BY <1>5, LenProperties
  <2> QED BY <2>1, <2>2
<1>10. Split(f, "=", 1) = <<a, b>>
  <2>1. PICK d : d = "="
    OBVIOUS
  <2>2. MarkedBy(T, f, a, d, b) /\ ~Contains(a, d) /\ ~Contains(b, d)
    BY <1>5, <1>6, <1>8, <2>1 DEF MarkedBy
  <2>3. Split(f, d, 1) = <<a, b>>
    BY <2>2, SplitMarked
  <2> QED BY <2>1, <2>3
<1>11. f # <<>>
  BY <1>9, EmptySeq
<1>12. /\ Split(f, "=", 1)[1] = a /\ Split(f, "=", 1)[2] = b
       /\ Len(Split(f, "=", 1)) # 1
  <2>1. <<a, b>>[1] = a /\ <<a, b>>[2] = b /\ Len(<<a, b>>) # 1
    OBVIOUS
  <2> QED BY <1>10, <2>1
<1>13. ParsedField(f) = <<[key |-> UrlDecode(a), value |-> UrlDecode(b)]>>
  BY <1>11, <1>12 DEF ParsedField
<1> QED BY <1>1, <1>3, <1>4, <1>7, <1>9, <1>13

\* One element after another.
LEMMA JoinedElements ==
    ASSUME NEW T, NEW t \in Seq(T), NEW pieces \in Seq(Seq(T)), Len(pieces) = Len(t),
           \A i \in 1..Len(t) : pieces[i] = <<t[i]>>
    PROVE  Joined(pieces) = t
<1>1. PICK n : n = Len(t) /\ n \in Nat
  BY LenProperties
<1>2. PICK j : j = Joined(pieces)
  OBVIOUS
<1>3. j \in Seq(T) /\ \E at : PlacedAt(pieces, j, at)
  BY <1>2, JoinedPlaces
<1>4. PICK at : PlacedAt(pieces, j, at)
  BY <1>3
<1>5. /\ at \in [0..n -> Nat] /\ at[0] = 0 /\ at[n] = Len(j)
      /\ \A i \in 1..n : /\ at[i] = at[i - 1] + Len(pieces[i])
                         /\ \A k \in 1..Len(pieces[i]) : j[at[i - 1] + k] = pieces[i][k]
  BY <1>1, <1>4 DEF PlacedAt
<1>6. ASSUME NEW i \in 1..n
      PROVE  at[i] = at[i - 1] + 1 /\ j[at[i - 1] + 1] = t[i]
  <2>1. pieces[i] = <<t[i]>>
    BY <1>1
  <2>2. Len(pieces[i]) = 1 /\ pieces[i][1] = t[i] /\ 1 \in 1..1
    BY <2>1
  <2> QED BY <1>5, <2>2
<1> DEFINE Wrong == {k \in Nat : k <= n /\ at[k] # k}
<1>7. Wrong = {}
  <2> SUFFICES ASSUME Wrong # {} PROVE FALSE
    OBVIOUS
  <2>1. PICK k \in Wrong : \A l \in Wrong : k <= l
    BY LeastNat
  <2>2. k # 0
    BY <1>5
  <2>3. k \in 1..n /\ k - 1 \in Nat /\ k - 1 <= n /\ ~(k <= k - 1) /\ k - 1 + 1 = k
    BY <1>1, <2>2
  <2>4. at[k - 1] = k - 1
    BY <2>1, <2>3
  <2>5. at[k] = at[k - 1] + 1
    BY <1>6, <2>3
  <2>6. at[k] = k
    BY <2>3, <2>4, <2>5
  <2> QED BY <2>6
<1>8. \A i \in 0..n : at[i] = i
  BY <1>1, <1>7
<1>9. Len(j) = n
  BY <1>1, <1>5, <1>8
<1>10. ASSUME NEW i \in 1..n PROVE j[i] = t[i]
  <2>1. i - 1 \in 0..n /\ i - 1 + 1 = i
    BY <1>1
  <2>2. at[i - 1] = i - 1
    BY <1>8, <2>1
  <2>3. j[at[i - 1] + 1] = t[i]
    BY <1>6
  <2> QED BY <2>1, <2>2, <2>3
<1> QED BY <1>1, <1>2, <1>3, <1>9, <1>10, SeqEqual

\* What params_serialize writes behind the "?", and the characters it is made of.
FieldsOf(ps) == [i \in 1..Len(ps) |-> FieldOf(ps[i]) \o <<"&">>]
QueryOf(ps)  == Front(Joined(FieldsOf(ps)))
Written      == Plain \cup {"=", "&"}

\* A field with the "&" behind it.
LEMMA FieldBefore ==
    ASSUME NEW p \in Parameter, NEW f, f = FieldOf(p), NEW g, g = f \o <<"&">>
    PROVE  /\ f \in Seq(Written) /\ g \in Seq(Written)
           /\ Len(f) \in Nat \ {0} /\ Len(g) = Len(f) + 1
           /\ \A k \in 1..Len(f) : g[k] = f[k] /\ f[k] # "&"
           /\ g[Len(f) + 1] = "&"
<1>1. PICK l : l = Len(f)
  OBVIOUS
<1>2. f \in Seq(Plain \cup {"="}) /\ l \in Nat \ {0}
  BY <1>1, FieldResult
<1>3. f \in Seq(Written) /\ "&" \in Written
  <2>1. Plain \cup {"="} \subseteq Written /\ "&" \in Written
    BY DEF Written
  <2> QED BY <1>2, <2>1, SeqMonotonic
<1>4. \A k \in 1..l : f[k] # "&"
  <2>1. "&" \notin Plain \cup {"="}
    BY DEF Plain
  <2> QED BY <1>1, <1>2, <2>1, ElementOfSeq
<1>5. <<"&">> \in Seq(Written) /\ Len(<<"&">>) = 1 /\ <<"&">>[1] = "&"
  BY <1>3
<1>6. /\ g \in Seq(Written) /\ Len(g) = l + 1
      /\ \A k \in 1..(l + 1) : g[k] = IF k <= l THEN f[k] ELSE <<"&">>[k - l]
  BY <1>1, <1>3, <1>5, ConcatProperties
<1>7. \A k \in 1..l : g[k] = f[k]
  <2>1. \A k \in 1..l : k \in 1..(l + 1) /\ k <= l
    BY <1>2
  <2> QED BY <1>6, <2>1
<1>8. g[l + 1] = "&"
  <2>1. PICK k : k = l + 1
    OBVIOUS
  <2>2. k \in 1..(l + 1) /\ ~(k <= l) /\ k - l = 1
    BY <1>2, <2>1
  <2>3. g[k] = <<"&">>[k - l]
    BY <1>6, <2>2
  <2> QED BY <1>5, <2>1, <2>2, <2>3
<1> QED BY <1>1, <1>2, <1>3, <1>4, <1>6, <1>7, <1>8

\* The pieces of the query.
LEMMA FieldsAreSeq ==
    ASSUME NEW ps \in Seq(Parameter)
    PROVE  /\ FieldsOf(ps) \in Seq(Seq(Written)) /\ Len(FieldsOf(ps)) = Len(ps)
           /\ \A i \in 1..Len(ps) : FieldsOf(ps)[i] = FieldOf(ps[i]) \o <<"&">>
<1>1. PICK n : n = Len(ps) /\ n \in Nat
  BY LenProperties
<1>2. \A i \in 1..n : FieldOf(ps[i]) \o <<"&">> \in Seq(Written)
  BY <1>1, ElementOfSeq, FieldBefore
<1>3. FieldsOf(ps) \in [1..n -> Seq(Written)]
  BY <1>1, <1>2 DEF FieldsOf
<1>4. \A i \in 1..n : FieldsOf(ps)[i] = FieldOf(ps[i]) \o <<"&">>
  BY <1>1 DEF FieldsOf
<1> QED BY <1>1, <1>3, <1>4, PiecesAreSeq

\* split finds the fields that were written.
LEMMA QueryResult ==
    ASSUME NEW ps \in Seq(Parameter), ps # <<>>
    PROVE  /\ QueryOf(ps) \in Seq(Written)
           /\ Len(Split(QueryOf(ps), "&", 0)) = Len(ps)
           /\ \A i \in 1..Len(ps) : Split(QueryOf(ps), "&", 0)[i] = FieldOf(ps[i])
<1>1. PICK n : n = Len(ps) /\ n \in Nat \ {0}
  BY EmptySeq, LenProperties
<1>2. PICK pieces : pieces = FieldsOf(ps)
  OBVIOUS
<1>3. /\ pieces \in Seq(Seq(Written)) /\ Len(pieces) = n
      /\ \A i \in 1..n : pieces[i] = FieldOf(ps[i]) \o <<"&">>
  BY <1>1, <1>2, FieldsAreSeq
<1>4. PICK j : j = Joined(pieces)
  OBVIOUS
<1>5. j \in Seq(Written) /\ \E at : PlacedAt(pieces, j, at)
  BY <1>3, <1>4, JoinedPlaces
<1>6. PICK at : PlacedAt(pieces, j, at)
  BY <1>5
<1>7. PICK l : l = Len(j) /\ l \in Nat
  BY <1>5, LenProperties
<1>8. at \in [0..n -> Nat] /\ at[0] = 0 /\ at[n] = l /\ \A i \in 0..n : at[i] <= l
  BY <1>3, <1>6, <1>7 DEF PlacedAt
<1>9. ASSUME NEW i \in 1..n
      PROVE  \E a, b \in 0..l, f \in Seq(Written) :
                 /\ a = at[i - 1] /\ b = at[i] /\ f = FieldOf(ps[i])
                 /\ Len(f) \in Nat \ {0} /\ b = a + Len(f) + 1
                 /\ \A k \in 1..Len(f) : j[a + k] = f[k] /\ f[k] # "&"
                 /\ j[b] = "&"
  <2>1. i - 1 \in 0..n /\ i \in 0..n
    BY <1>1
  <2>2. PICK a, b : a = at[i - 1] /\ b = at[i]
    OBVIOUS
  <2>3. a \in 0..l /\ b \in 0..l
    BY <1>7, <1>8, <2>1, <2>2
  <2>4. PICK p \in Parameter : p = ps[i]
    BY <1>1, ElementOfSeq
  <2>5. PICK f, g : f = FieldOf(p) /\ g = f \o <<"&">>
    OBVIOUS
  <2>6. /\ f \in Seq(Written) /\ g \in Seq(Written)
        /\ Len(f) \in Nat \ {0} /\ Len(g) = Len(f) + 1
        /\ \A k \in 1..Len(f) : g[k] = f[k] /\ f[k] # "&"
        /\ g[Len(f) + 1] = "&"
    BY <2>5, FieldBefore
  <2>7. pieces[i] = g
    BY <1>3, <2>4, <2>5
  <2>8. b = a + Len(g) /\ \A k \in 1..Len(g) : j[a + k] = g[k]
    BY <1>3, <1>6, <2>2, <2>7 DEF PlacedAt
  <2>9. PICK m : m = Len(f) /\ m \in Nat \ {0}
    BY <2>6
  <2>10. b = a + (m + 1) /\ \A k \in 1..(m + 1) : j[a + k] = g[k]
    BY <2>6, <2>8, <2>9
  <2>11. b = a + m + 1
    BY <2>3, <2>9, <2>10
  <2>12. \A k \in 1..m : j[a + k] = f[k] /\ f[k] # "&"
    <3>1. \A k \in 1..m : k \in 1..(m + 1)
      BY <2>9
    <3> QED BY <2>6, <2>9, <2>10, <3>1
  <2>13. j[b] = "&"
    <3>1. m + 1 \in 1..(m + 1)
      BY <2>9
    <3> QED BY <2>6, <2>9, <2>10, <3>1
  <2>14. a = at[i - 1] /\ b = at[i] /\ f = FieldOf(ps[i]) /\ f \in Seq(Written)
    BY <2>2, <2>4, <2>5, <2>6
  <2>15. /\ Len(f) \in Nat \ {0} /\ b = a + Len(f) + 1
         /\ \A k \in 1..Len(f) : j[a + k] = f[k] /\ f[k] # "&"
         /\ j[b] = "&"
    BY <2>9, <2>11, <2>12, <2>13
  <2> QED BY <2>3, <2>14, <2>15
<1>10. l \in Nat \ {0}
  <2>1. n \in 1..n
    BY <1>1
  <2>2. PICK a, b \in 0..l, f \in Seq(Written) : Len(f) \in Nat \ {0} /\ b = a + Len(f) + 1
    BY <1>9, <2>1
  <2>3. b # 0
    BY <2>2
  <2> QED BY <1>7, <2>2, <2>3
<1>11. PICK q : q = QueryOf(ps)
  OBVIOUS
<1>12. q \in Seq(Written) /\ Len(q) = l - 1 /\ \A k \in 1..(l - 1) : q[k] = j[k]
  <2>1. q = SubSeq(j, 1, l - 1)
    BY <1>2, <1>4, <1>7, <1>11 DEF QueryOf, Front
  <2>2. 1 \in Int /\ l - 1 \in Int /\ l - 1 - 1 + 1 = l - 1 /\ (~(1 <= l - 1) => l - 1 = 0)
        /\ \A k \in 1..(l - 1) : 1 + k - 1 = k
    BY <1>10
  <2>3. \A k \in 1..(l - 1) : j[k] \in Written
    BY <1>5, <1>7, <1>10, ElementOfSeq
  <2>4. /\ q \in Seq(Written) /\ Len(q) = IF 1 <= l - 1 THEN l - 1 - 1 + 1 ELSE 0
        /\ \A k \in 1..(l - 1 - 1 + 1) : q[k] = j[1 + k - 1]
    BY <2>1, <2>2, <2>3, SubSeqProperties
  <2> QED BY <2>2, <2>4
<1>13. CutAt(q, "&", n, at)
  <2>1. PICK o : o = l - 1 /\ o \in Nat /\ o + 1 = l
    BY <1>10
  <2>2. at \in [0..n -> 0..(o + 1)]
    <3>1. \A i \in 0..n : at[i] \in 0..l
      BY <1>7, <1>8
    <3> QED BY <1>8, <2>1, <3>1
  <2>3. ASSUME NEW i \in 1..n
        PROVE  /\ at[i - 1] < at[i]
               /\ \A k \in (at[i - 1] + 1)..(at[i] - 1) : q[k] # "&"
               /\ i # n => q[at[i]] = "&"
    <3>1. PICK a, b \in 0..l, f \in Seq(Written) :
               /\ a = at[i - 1] /\ b = at[i]
               /\ Len(f) \in Nat \ {0} /\ b = a + Len(f) + 1
               /\ \A k \in 1..Len(f) : j[a + k] = f[k] /\ f[k] # "&"
               /\ j[b] = "&"
      BY <1>9
    <3>2. PICK m : m = Len(f) /\ m \in Nat \ {0}
      BY <3>1
    <3>3. a \in Nat /\ b \in Nat /\ b = a + m + 1 /\ b <= l
      BY <1>7, <3>1, <3>2
    <3>4. a < b
      BY <3>2, <3>3
    <3>5. ASSUME NEW k \in (a + 1)..(b - 1) PROVE q[k] # "&"
      <4>1. PICK x : x = k - a
        OBVIOUS
      <4>2. x \in 1..m /\ a + x = k /\ k \in 1..(l - 1)
        BY <1>7, <3>2, <3>3, <4>1
      <4>3. j[k] # "&"
        <5>1. j[a + x] = f[x] /\ f[x] # "&"
          BY <3>1, <3>2, <4>2
        <5> QED BY <4>2, <5>1
      <4> QED BY <1>12, <4>2, <4>3
    <3>6. ASSUME i # n PROVE q[b] = "&"
      <4>1. i + 1 \in 1..n /\ i + 1 - 1 = i
        BY <1>1, <3>6
      <4>2. PICK a2, b2 \in 0..l, f2 \in Seq(Written) :
                a2 = at[i + 1 - 1] /\ Len(f2) \in Nat \ {0} /\ b2 = a2 + Len(f2) + 1
        BY <1>9, <4>1
      <4>3. a2 = b
        BY <3>1, <4>1, <4>2
      <4>4. b < b2 /\ b2 <= l
        <5>1. b2 = b + Len(f2) + 1 /\ Len(f2) \in Nat /\ b2 \in 0..l
          BY <4>2, <4>3
        <5> QED BY <1>7, <3>3, <5>1
      <4>5. b \in 1..(l - 1)
        BY <1>7, <3>2, <3>3, <4>2, <4>4
      <4> QED BY <1>12, <3>1, <4>5
    <3> QED BY <3>1, <3>4, <3>5, <3>6
  <2>4. Len(q) = o /\ at[n] = o + 1
    BY <1>8, <1>12, <2>1
  <2> QED BY <1>1, <1>8, <2>2, <2>3, <2>4 DEF CutAt
<1>14. PICK t : t = Split(q, "&", 0)
  OBVIOUS
<1>15. t = [i \in 1..n |-> SubSeq(q, at[i - 1] + 1, at[i] - 1)] /\ Len(t) = n
  BY <1>12, <1>13, <1>14, SplitAll
<1>16. ASSUME NEW i \in 1..n PROVE t[i] = FieldOf(ps[i])
  <2>1. PICK a, b \in 0..l, f \in Seq(Written) :
             /\ a = at[i - 1] /\ b = at[i] /\ f = FieldOf(ps[i])
             /\ Len(f) \in Nat \ {0} /\ b = a + Len(f) + 1
             /\ \A k \in 1..Len(f) : j[a + k] = f[k]
    BY <1>9
  <2>2. PICK m : m = Len(f) /\ m \in Nat \ {0}
    BY <2>1
  <2>3. a \in Nat /\ b \in Nat /\ b = a + m + 1 /\ b <= l
    BY <1>7, <2>1, <2>2
  <2>4. PICK x, y : x = a + 1 /\ y = b - 1
    OBVIOUS
  <2>5. /\ x \in Nat \ {0} /\ y \in Nat /\ x + m = y + 1
        /\ \A k \in 1..m : x - 1 + k = a + k /\ a + k \in 1..(l - 1)
    BY <1>7, <2>2, <2>3, <2>4
  <2>6. StandsAt(f, q, x)
    <3>1. ASSUME NEW k \in 1..m PROVE q[x - 1 + k] = f[k]
      <4>1. PICK z : z = a + k
        OBVIOUS
      <4>2. x - 1 + k = z /\ z \in 1..(l - 1)
        BY <2>5, <4>1
      <4>3. q[z] = j[z]
        BY <1>12, <4>2
      <4>4. j[z] = f[k]
        BY <2>1, <2>2, <4>1
      <4> QED BY <4>2, <4>3, <4>4
    <3> QED BY <2>2, <3>1 DEF StandsAt
  <2>7. SubSeq(q, x, y) = f
    BY <2>2, <2>5, <2>6, PartIs
  <2>8. t[i] = SubSeq(q, at[i - 1] + 1, at[i] - 1)
    BY <1>15
  <2> QED BY <2>1, <2>4, <2>7, <2>8
<1> QED BY <1>1, <1>11, <1>12, <1>14, <1>15, <1>16

\* What the query is written with are characters of a string.
LEMMA WrittenAreCharacters ==
    /\ Written \subseteq Characters /\ "?" \in Characters /\ "?" \notin Written
    /\ \A t : t \in Seq(Written) => t \in Strings /\ ~Contains(t, "?")
<1>1. DOMAIN Code = {"?", "&", "=", "%", "+", "/"}
  BY DEF Code
<1>2. Written \subseteq Characters /\ "?" \in Characters
  BY <1>1, CharactersAssumption DEF Written, Plain
<1>3. "?" \notin Written
  BY DEF Written, Plain
<1>4. ASSUME NEW t \in Seq(Written) PROVE t \in Strings /\ ~Contains(t, "?")
  <2>1. \A i \in 1..Len(t) : t[i] \in Written
    BY ElementOfSeq
  <2>2. t \in Strings
    BY <1>2 DEF Strings
  <2>3. ~Contains(t, "?")
    BY <1>3, <2>1 DEF Contains
  <2> QED BY <2>2, <2>3
<1> QED BY <1>2, <1>3, <1>4

\* params_serialize leaves a target alone if there is no parameter, and appends the
\* query after a "?" else.
LEMMA SerializedTarget ==
    ASSUME NEW t, NEW ps
    PROVE  ParamsSerialize(t, ps) = IF ps = <<>> THEN t ELSE t \o <<"?">> \o QueryOf(ps)
  BY DEF ParamsSerialize, QueryOf, FieldsOf, FieldOf

\* params_parse finds no parameter in a target without "?".
LEMMA NothingToParse ==
    ASSUME NEW t \in Strings, ~Contains(t, "?")
    PROVE  Split(t, "?", 1)[1] = t /\ ParamsParse(t) = <<>>
<1>1. DelimsFrom(t, "?", 1) = {}
  BY DEF DelimsFrom, Contains
<1>2. Split(t, "?", 1) = <<t>>
  BY <1>1, SplitOnce DEF Strings
<1>3. Len(Split(t, "?", 1)) # 2 /\ Split(t, "?", 1)[1] = t
  BY <1>2
<1>4. PICK none : none = <<>> /\ none \in Seq(Parameter)
  BY EmptySeq
<1>5. PICK e : e = [i \in 1..Len(none) |-> ParsedField(none[i])]
  OBVIOUS
<1>6. ParamsParse(t) = Joined(e)
  BY <1>3, <1>4, <1>5 DEF ParamsParse
<1>7. e \in Seq(Seq(Parameter)) /\ Len(e) = 0 /\ Len(none) = 0
  <2>1. Len(none) = 0 /\ 1..0 = {} /\ 0 \in Nat
    BY <1>4
  <2>2. e \in [1..0 -> Seq(Parameter)]
    BY <1>5, <2>1
  <2>3. e \in Seq(Seq(Parameter)) /\ Len(e) = 0
    BY <2>1, <2>2, PiecesAreSeq
  <2> QED BY <2>1, <2>3
<1>8. Joined(e) = none
  <2>1. \A i \in 1..Len(none) : e[i] = <<none[i]>>
    BY <1>7
  <2> QED BY <1>4, <1>7, <2>1, JoinedElements
<1> QED BY <1>3, <1>4, <1>6, <1>8

\* The server reads the path and the parameters that the client wrote: what a program
\* put into params() is what the callback finds, whatever characters it is made of.
THEOREM ParseUndoesSerialize ==
    ASSUME NEW t \in Strings, ~Contains(t, "?"), NEW ps \in Seq(Parameter)
    PROVE  /\ Split(ParamsSerialize(t, ps), "?", 1)[1] = t
           /\ ParamsParse(ParamsSerialize(t, ps)) = ps
<1>1. CASE ps = <<>>
  <2>1. ParamsSerialize(t, ps) = t
    BY <1>1, SerializedTarget
  <2> QED BY <1>1, <2>1, NothingToParse
<1>2. CASE ps # <<>>
  <2>1. PICK q : q = QueryOf(ps)
    OBVIOUS
  <2>2. PICK w : w = ParamsSerialize(t, ps)
    OBVIOUS
  <2>3. PICK f : f = Split(q, "&", 0)
    OBVIOUS
  <2>4. PICK n : n = Len(ps) /\ n \in Nat
    BY LenProperties
  <2>5. q \in Seq(Written) /\ Len(f) = n /\ \A i \in 1..n : f[i] = FieldOf(ps[i])
    BY <1>2, <2>1, <2>3, <2>4, QueryResult
  <2>6. q \in Strings /\ ~Contains(q, "?") /\ "?" \in Characters
    BY <2>5, WrittenAreCharacters
  <2>7. MarkedBy(Characters, w, t, "?", q)
    BY <1>2, <2>1, <2>2, <2>6, SerializedTarget DEF MarkedBy, Strings
  <2>8. Split(w, "?", 1) = <<t, q>>
    BY <2>6, <2>7, SplitMarked
  <2>9. Len(Split(w, "?", 1)) = 2 /\ Split(w, "?", 1)[1] = t /\ Split(w, "?", 1)[2] = q
    BY <2>8
  <2>10. PICK e : e = [i \in 1..n |-> ParsedField(f[i])]
    OBVIOUS
  <2>11. ParamsParse(w) = Joined(e)
    BY <2>3, <2>5, <2>9, <2>10 DEF ParamsParse
  <2>12. ASSUME NEW i \in 1..n
         PROVE  ps[i] \in Parameter /\ e[i] = <<ps[i]>>
    <3>1. PICK p \in Parameter : p = ps[i]
      BY <2>4, ElementOfSeq
    <3>2. e[i] = ParsedField(FieldOf(p))
      BY <2>5, <2>10, <3>1
    <3> QED BY <3>1, <3>2, FieldResult
  <2>13. e \in Seq(Seq(Parameter)) /\ Len(e) = n
    <3>1. ASSUME NEW i \in 1..n PROVE e[i] \in Seq(Parameter)
      <4>1. PICK p \in Parameter : p = ps[i] /\ e[i] = <<p>>
        BY <2>12
      <4> QED BY <4>1
    <3>2. e \in [1..n -> Seq(Parameter)]
      BY <2>10, <3>1
    <3> QED BY <2>4, <3>2, PiecesAreSeq
  <2>14. Joined(e) = ps
    BY <2>4, <2>12, <2>13, JoinedElements
  <2> QED BY <2>2, <2>9, <2>11, <2>14
<1> QED BY <1>1, <1>2
-----------------------------------------------------------------------------
\* Place k belongs to one of the pieces.
InAPiece(pieces, at, k) ==
    \E i \in 1..Len(pieces) : \E x \in 1..Len(pieces[i]) : k = at[i - 1] + x

\* Each place of what is joined is a place of one of the pieces.
LEMMA PieceOfPlace ==
    ASSUME NEW T, NEW pieces \in Seq(Seq(T)), NEW t, NEW at, PlacedAt(pieces, t, at),
           NEW k, k \in 1..at[Len(pieces)]
    PROVE  InAPiece(pieces, at, k)
<1>1. PICK n : n = Len(pieces) /\ n \in Nat
  BY LenProperties
<1>2. /\ at \in [0..n -> Nat] /\ at[0] = 0
      /\ \A i \in 1..n : at[i] = at[i - 1] + Len(pieces[i])
  BY <1>1 DEF PlacedAt
<1> DEFINE S == {i \in 1..n : k <= at[i]}
<1>3. n \in S
  <2>1. at[n] \in Nat /\ k \in 1..at[n]
    BY <1>1, <1>2
  <2>2. n # 0
    BY <1>2, <2>1
  <2> QED BY <1>1, <2>1, <2>2
<1>4. S \subseteq Nat
  BY <1>1
<1>5. PICK i \in S : \A j \in S : i <= j
  BY <1>3, <1>4, LeastNat
<1>6. i \in 1..n /\ k <= at[i] /\ i - 1 \in 0..n /\ i \in 0..n
  BY <1>1, <1>5
<1>7. at[i - 1] < k
  <2>1. CASE i - 1 = 0
    BY <1>2, <2>1
  <2>2. CASE i - 1 # 0
    <3>1. i - 1 \notin S /\ i - 1 \in 1..n
      BY <1>1, <1>5, <1>6, <2>2
    <3>2. at[i - 1] \in Nat /\ k \in Nat /\ ~(k <= at[i - 1])
      BY <1>2, <1>6, <3>1
    <3> QED BY <3>2
  <2> QED BY <2>1, <2>2
<1>8. PICK a, l : a = at[i - 1] /\ l = Len(pieces[i])
  OBVIOUS
<1>9. a \in Nat /\ l \in Nat /\ k \in Nat /\ a < k /\ k <= a + l
  <2>1. pieces[i] \in Seq(T)
    BY <1>1, <1>6, ElementOfSeq
  <2>2. l \in Nat
    BY <1>8, <2>1, LenProperties
  <2>3. at[i] = a + l
    BY <1>2, <1>6, <1>8
  <2>4. a \in Nat
    BY <1>2, <1>6, <1>8
  <2>5. k \in Nat
    <3>1. at[n] \in Nat
      BY <1>1, <1>2
    <3> QED BY <1>1, <3>1
  <2> QED BY <1>6, <1>7, <1>8, <2>2, <2>3, <2>4, <2>5
<1>10. k - a \in 1..l /\ k = a + (k - a)
  BY <1>9
<1> QED BY <1>1, <1>6, <1>8, <1>10 DEF InAPiece

\* Two dots in what is joined are two dots of a piece, or the last of one and the first
\* of the next.
LEMMA JoinedDots ==
    ASSUME NEW T, NEW pieces \in Seq(Seq(T)), HasDots(Joined(pieces)),
           \A i \in 1..Len(pieces) : Len(pieces[i]) # 0
    PROVE  \/ \E i \in 1..Len(pieces) : HasDots(pieces[i])
           \/ \E i \in 1..(Len(pieces) - 1) :
                  pieces[i][Len(pieces[i])] = "." /\ pieces[i + 1][1] = "."
<1>1. PICK n : n = Len(pieces) /\ n \in Nat
  BY LenProperties
<1>2. PICK j : j = Joined(pieces)
  OBVIOUS
<1>3. j \in Seq(T) /\ \E at : PlacedAt(pieces, j, at)
  BY <1>2, JoinedPlaces
<1>4. PICK at : PlacedAt(pieces, j, at)
  BY <1>3
<1>5. /\ at \in [0..n -> Nat] /\ at[n] = Len(j)
      /\ \A i \in 1..n : at[i] = at[i - 1] + Len(pieces[i])
      /\ \A i \in 1..n : \A x \in 1..Len(pieces[i]) : j[at[i - 1] + x] = pieces[i][x]
  BY <1>1, <1>4 DEF PlacedAt
<1>6. ASSUME NEW i \in 1..n PROVE Len(pieces[i]) \in Nat \ {0}
  <2>1. pieces[i] \in Seq(T)
    BY <1>1, ElementOfSeq
  <2> QED BY <1>1, <2>1, LenProperties
<1>7. PICK k \in 1..(Len(j) - 1) : j[k] = "." /\ j[k + 1] = "."
  BY <1>2 DEF HasDots
<1>8. k \in 1..at[n] /\ k + 1 \in 1..at[n] /\ k \in Nat
  <2>1. at[n] \in Nat
    BY <1>1, <1>5
  <2> QED BY <1>5, <1>7, <2>1
<1>9. PICK i \in 1..n : \E y \in 1..Len(pieces[i]) : k = at[i - 1] + y
  <2>1. k \in 1..at[Len(pieces)]
    BY <1>1, <1>8
  <2>2. pieces \in Seq(Seq(T)) /\ PlacedAt(pieces, j, at)
    BY <1>4
  <2>3. InAPiece(pieces, at, k)
    BY <2>1, <2>2, PieceOfPlace
  <2> QED BY <1>1, <2>3 DEF InAPiece
<1>10. PICK x \in 1..Len(pieces[i]) : k = at[i - 1] + x
  BY <1>9
<1>11. PICK a, l : a = at[i - 1] /\ l = Len(pieces[i])
  OBVIOUS
<1>12. a \in Nat /\ l \in Nat \ {0} /\ x \in 1..l /\ k = a + x /\ at[i] = a + l
  <2>1. i - 1 \in 0..n
    BY <1>1
  <2> QED BY <1>5, <1>6, <1>10, <1>11, <2>1
<1>13. pieces[i][x] = "."
  BY <1>5, <1>7, <1>10
<1>14. CASE x # l
  <2>1. x + 1 \in 1..l /\ a + (x + 1) = k + 1 /\ x \in 1..(l - 1)
    BY <1>12, <1>14
  <2>2. j[a + (x + 1)] = pieces[i][x + 1]
    BY <1>5, <1>11, <2>1
  <2>3. pieces[i][x + 1] = "."
    BY <1>7, <2>1, <2>2
  <2>4. HasDots(pieces[i])
    BY <1>11, <1>13, <2>1, <2>3 DEF HasDots
  <2> QED BY <1>1, <2>4
<1>15. CASE x = l
  <2>1. i # n
    <3>1. at[i] = k
      BY <1>12, <1>15
    <3>2. at[n] \in Nat
      BY <1>1, <1>5
    <3> QED BY <1>8, <3>1, <3>2
  <2>2. i + 1 \in 1..n /\ i + 1 - 1 = i /\ i \in 1..(n - 1)
    <3>1. n \in Nat /\ i \in 1..n
      BY <1>1
    <3> QED BY <2>1, <3>1
  <2>3. 1 \in 1..Len(pieces[i + 1])
    BY <1>6, <2>2
  <2>4. j[at[i] + 1] = pieces[i + 1][1]
    <3>1. j[at[i + 1 - 1] + 1] = pieces[i + 1][1]
      BY <1>5, <2>2, <2>3
    <3> QED BY <2>2, <3>1
  <2>5. at[i] + 1 = k + 1
    BY <1>12, <1>15
  <2>6. pieces[i + 1][1] = "."
    BY <1>7, <2>4, <2>5
  <2>7. pieces[i][Len(pieces[i])] = "."
    BY <1>11, <1>13, <1>15
  <2> QED BY <1>1, <2>2, <2>6, <2>7
<1> QED BY <1>14, <1>15

\* The code of a character has no two dots; where it begins or ends with one, the
\* character is a dot.
LEMMA CodedDots ==
    ASSUME NEW c \in Characters
    PROVE  /\ Coded(c) \in Seq(Characters) /\ Len(Coded(c)) # 0 /\ ~HasDots(Coded(c))
           /\ Coded(c)[1] = "." \/ Coded(c)[Len(Coded(c))] = "." => c = "."
<1>1. Coded(c) \in Seq(Characters)
  <2>1. Plain \subseteq Characters
    BY DEF Plain
  <2>2. Coded(c) \in Seq(Plain)
    BY CodedIsPlain
  <2> QED BY <2>1, <2>2
<1>2. CASE Coded(c) = <<"+">>
  <2>1. Len(Coded(c)) = 1 /\ Coded(c)[1] = "+"
    BY <1>2
  <2> QED BY <1>1, <2>1 DEF HasDots
<1>3. CASE \E a, b \in HexDigits : Coded(c) = <<"%", a, b>>
  <2>1. PICK a, b \in HexDigits : Coded(c) = <<"%", a, b>>
    BY <1>3
  <2>2. a # "." /\ b # "."
    BY DEF HexDigits
  <2>3. Len(Coded(c)) = 3 /\ Coded(c)[1] = "%" /\ Coded(c)[2] = a /\ Coded(c)[3] = b
    BY <2>1
  <2>4. \A k \in 1..(Len(Coded(c)) - 1) : Coded(c)[k] # "."
    BY <2>2, <2>3
  <2> QED BY <1>1, <2>2, <2>3, <2>4 DEF HasDots
<1>4. CASE Coded(c) = <<c>>
  <2>1. Len(Coded(c)) = 1 /\ Coded(c)[1] = c
    BY <1>4
  <2> QED BY <1>1, <2>1 DEF HasDots
<1> QED BY <1>2, <1>3, <1>4, CodedCases

\* url_encode puts no two dots where there were none.
LEMMA EncodedDots ==
    ASSUME NEW s \in Strings, HasDots(UrlEncode(s))
    PROVE  HasDots(s)
<1>1. PICK n : n = Len(s) /\ n \in Nat
  BY LenProperties DEF Strings
<1>2. \A i \in 1..n : s[i] \in Characters
  BY <1>1, ElementOfSeq DEF Strings
<1>3. PICK p : p = [i \in 1..Len(s) |-> Coded(s[i])]
  OBVIOUS
<1>4. p \in Seq(Seq(Plain)) /\ Len(p) = n /\ UrlEncode(s) = Joined(p)
  BY <1>1, <1>3, EncodedPieces
<1>5. \A i \in 1..n : p[i] = Coded(s[i])
  BY <1>1, <1>3
<1>6. \A i \in 1..n : Len(p[i]) # 0 /\ ~HasDots(p[i])
  BY <1>2, <1>5, CodedDots
<1>7. PICK i \in 1..(n - 1) : p[i][Len(p[i])] = "." /\ p[i + 1][1] = "."
  BY <1>4, <1>6, JoinedDots
<1>8. i \in 1..n /\ i + 1 \in 1..n
  BY <1>1
<1>9. s[i] = "." /\ s[i + 1] = "."
  BY <1>2, <1>5, <1>7, <1>8, CodedDots
<1> QED BY <1>1, <1>9 DEF HasDots

\* A mark that is no dot lies between two parts: the dots are in one of them.
LEMMA MarkedDots ==
    ASSUME NEW T, NEW a, NEW b, NEW d, NEW s, MarkedBy(T, s, a, d, b), d # ".", HasDots(s)
    PROVE  HasDots(a) \/ HasDots(b)
<1>1. a \in Seq(T) /\ b \in Seq(T) /\ d \in T /\ s = a \o <<d>> \o b
  BY DEF MarkedBy
<1>2. PICK k, l : k = Len(a) /\ l = Len(b) /\ k \in Nat /\ l \in Nat
  BY <1>1, LenProperties
<1>3. /\ Len(s) = k + 1 + l
      /\ \A i \in 1..k : s[i] = a[i]
      /\ s[k + 1] = d
      /\ \A i \in 1..l : s[k + 1 + i] = b[i]
  BY <1>1, <1>2, Marked
<1>4. PICK i \in 1..(k + l) : s[i] = "." /\ s[i + 1] = "."
  BY <1>2, <1>3 DEF HasDots
<1>5. i # k + 1 /\ i + 1 # k + 1
  BY <1>3, <1>4
<1>6. CASE i < k
  <2>1. i \in 1..k /\ i + 1 \in 1..k /\ i \in 1..(k - 1)
    BY <1>2, <1>6
  <2>2. a[i] = "." /\ a[i + 1] = "."
    BY <1>3, <1>4, <2>1
  <2> QED BY <1>2, <2>1, <2>2 DEF HasDots
<1>7. CASE i > k + 1
  <2>1. PICK x : x = i - k - 1
    OBVIOUS
  <2>2. /\ x \in 1..l /\ x + 1 \in 1..l /\ x \in 1..(l - 1)
        /\ k + 1 + x = i /\ k + 1 + (x + 1) = i + 1
    BY <1>2, <1>7, <2>1
  <2>3. b[x] = "."
    BY <1>3, <1>4, <2>2
  <2>4. b[x + 1] = "."
    BY <1>3, <1>4, <2>2
  <2> QED BY <1>2, <2>2, <2>3, <2>4 DEF HasDots
<1> QED BY <1>2, <1>4, <1>5, <1>6, <1>7

\* A parameter with two dots in its name or its value.
DotsIn(p) == HasDots(p.key) \/ HasDots(p.value)

\* The field that is written for a parameter has two dots only if the parameter has.
LEMMA FieldDots ==
    ASSUME NEW p \in Parameter, HasDots(FieldOf(p))
    PROVE  DotsIn(p)
<1>1. p.key \in Strings /\ p.value \in Strings
  BY DEF Parameter
<1>2. PICK a, b : a = UrlEncode(p.key) /\ b = UrlEncode(p.value)
  OBVIOUS
<1>3. a \in Seq(Plain) /\ b \in Seq(Plain)
  BY <1>1, <1>2, EncodedIsPlain
<1>4. PICK T : T = Plain \cup {"="}
  OBVIOUS
<1>5. a \in Seq(T) /\ b \in Seq(T) /\ "=" \in T
  BY <1>3, <1>4
<1>6. PICK f : f = FieldOf(p)
  OBVIOUS
<1>7. MarkedBy(T, f, a, "=", b)
  BY <1>2, <1>5, <1>6 DEF FieldOf, MarkedBy
<1>8. HasDots(a) \/ HasDots(b)
  BY <1>6, <1>7, MarkedDots
<1> QED BY <1>1, <1>2, <1>8, EncodedDots DEF DotsIn

\* The query has two dots only if one of the parameters has.
LEMMA QueryDots ==
    ASSUME NEW ps \in Seq(Parameter), HasDots(QueryOf(ps))
    PROVE  \E i \in DOMAIN ps : DotsIn(ps[i])
<1>1. PICK n : n = Len(ps) /\ n \in Nat /\ DOMAIN ps = 1..n
  BY LenProperties
<1>2. PICK pieces : pieces = FieldsOf(ps)
  OBVIOUS
<1>3. /\ pieces \in Seq(Seq(Written)) /\ Len(pieces) = n
      /\ \A i \in 1..n : pieces[i] = FieldOf(ps[i]) \o <<"&">>
  BY <1>1, <1>2, FieldsAreSeq
<1>4. PICK j : j = Joined(pieces)
  OBVIOUS
<1>5. j \in Seq(Written) /\ QueryOf(ps) = Front(j)
  BY <1>2, <1>3, <1>4, JoinedPlaces DEF QueryOf
<1>6. PICK l : l = Len(j) /\ l \in Nat
  BY <1>5, LenProperties
<1>7. HasDots(j)
  <2>1. PICK q : q = SubSeq(j, 1, l - 1) /\ q = QueryOf(ps)
    BY <1>5, <1>6 DEF Front
  <2>2. CASE l = 0
    <3>1. q \in Seq(Written) /\ Len(q) = 0
      BY <1>5, <1>6, <2>1, <2>2
    <3> QED BY <2>1, <3>1 DEF HasDots
  <2>3. CASE l # 0
    <3>1. Len(q) = l - 1 /\ \A k \in 1..(l - 1) : q[k] = j[k]
      BY <1>5, <1>6, <2>1, <2>3
    <3>2. PICK k \in 1..(l - 1 - 1) : q[k] = "." /\ q[k + 1] = "."
      BY <2>1, <3>1 DEF HasDots
    <3>3. k \in 1..(l - 1) /\ k + 1 \in 1..(l - 1)
      BY <1>6, <2>3
    <3>4. j[k] = "." /\ j[k + 1] = "."
      BY <3>1, <3>2, <3>3
    <3> QED BY <1>6, <3>3, <3>4 DEF HasDots
  <2> QED BY <2>2, <2>3
<1>8. ASSUME NEW i \in 1..n
      PROVE  /\ Len(pieces[i]) # 0 /\ pieces[i][Len(pieces[i])] # "."
             /\ HasDots(pieces[i]) => DotsIn(ps[i])
  <2>1. PICK p \in Parameter : p = ps[i]
    BY <1>1, ElementOfSeq
  <2>2. PICK f, g : f = FieldOf(p) /\ g = f \o <<"&">>
    OBVIOUS
  <2>3. PICK m : m = Len(f)
    OBVIOUS
  <2>4. /\ m \in Nat \ {0} /\ Len(g) = m + 1
        /\ \A k \in 1..m : g[k] = f[k]
        /\ g[m + 1] = "&"
    BY <2>2, <2>3, FieldBefore
  <2>5. HasDots(g) => HasDots(f)
    <3>1. ASSUME HasDots(g) PROVE HasDots(f)
      <4>1. PICK k \in 1..m : g[k] = "." /\ g[k + 1] = "."
        BY <2>4, <3>1 DEF HasDots
      <4>2. k # m
        BY <2>4, <4>1
      <4>3. k + 1 \in 1..m /\ k \in 1..(m - 1)
        BY <2>4, <4>2
      <4>4. f[k] = "." /\ f[k + 1] = "."
        BY <2>4, <4>1, <4>3
      <4> QED BY <2>3, <4>3, <4>4 DEF HasDots
    <3> QED BY <3>1
  <2>6. HasDots(f) => DotsIn(p)
    BY <2>2, FieldDots
  <2>7. pieces[i] = g
    BY <1>3, <2>1, <2>2
  <2>8. Len(g) # 0 /\ g[Len(g)] # "."
    BY <2>4
  <2> QED BY <2>1, <2>5, <2>6, <2>7, <2>8
<1>9. PICK i \in 1..n : HasDots(pieces[i])
  <2>1. \A i \in 1..(n - 1) : i \in 1..n
    BY <1>1
  <2> QED BY <1>3, <1>4, <1>7, <1>8, <2>1, JoinedDots
<1> QED BY <1>1, <1>8, <1>9
-----------------------------------------------------------------------------
\* One of the parameters has two dots.
SomeDots(ps) == \E i \in DOMAIN ps : DotsIn(ps[i])

\* The target of a request for the route: the path, or the path and a query behind it;
\* two dots in it come from a parameter.
ForTheRoute(t, ps) ==
    /\ t \in Strings
    /\ t = Route \/ \E r \in Strings : t = Route \o <<"?">> \o r
    /\ HasDots(t) => SomeDots(ps)

\* A target for the route begins with "/", its path is the route's.
LEMMA TargetOfRoute ==
    ASSUME NEW t, NEW ps, ForTheRoute(t, ps)
    PROVE  t[1] = "/" /\ Split(t, "?", 1)[1] = Route
<1>1. Route \in Strings /\ Route # <<>> /\ Route[1] = "/" /\ ~Contains(Route, "?")
  BY RouteAssumption
<1>2. CASE t = Route
  BY <1>1, <1>2, NothingToParse
<1>3. CASE \E r \in Strings : t = Route \o <<"?">> \o r
  <2>1. PICK r \in Strings : t = Route \o <<"?">> \o r
    BY <1>3
  <2>2. MarkedBy(Characters, t, Route, "?", r)
    BY <1>1, <2>1, WrittenAreCharacters DEF MarkedBy, Strings
  <2>3. Split(t, "?", 1)[1] = Route
    BY <1>1, <2>2, SplitMarked
  <2>4. Len(Route) \in Nat \ {0}
    BY <1>1, EmptySeq, LenProperties DEF Strings
  <2>5. t[1] = Route[1]
    <3>1. \A i \in 1..Len(Route) : t[i] = Route[i]
      BY <1>1, <2>1, WrittenAreCharacters, Marked DEF Strings
    <3> QED BY <2>4, <3>1
  <2> QED BY <1>1, <2>3, <2>5
<1> QED BY <1>2, <1>3 DEF ForTheRoute

\* prepare_request leaves a target for the route one for the route.
LEMMA SerializedForTheRoute ==
    ASSUME NEW ps \in Seq(Parameter), NEW t, ForTheRoute(t, ps)
    PROVE  ForTheRoute(ParamsSerialize(t, ps), ps)
<1>1. CASE ps = <<>>
  BY <1>1, SerializedTarget
<1>2. CASE ps # <<>>
  <2>1. PICK q : q = QueryOf(ps)
    OBVIOUS
  <2>2. PICK w : w = ParamsSerialize(t, ps)
    OBVIOUS
  <2>3. q \in Strings /\ "?" \in Characters /\ t \in Strings /\ Route \in Strings
    BY <1>2, <2>1, QueryResult, WrittenAreCharacters, RouteAssumption DEF ForTheRoute
  <2>4. w = t \o <<"?">> \o q
    BY <1>2, <2>1, <2>2, SerializedTarget
  <2>5. MarkedBy(Characters, w, t, "?", q)
    BY <2>3, <2>4 DEF MarkedBy, Strings
  <2>6. w \in Strings
    BY <2>3, <2>4, Marked DEF Strings
  <2>7. HasDots(w) => SomeDots(ps)
    BY <2>1, <2>5, MarkedDots, QueryDots DEF ForTheRoute, SomeDots
  <2>8. w = Route \/ \E r \in Strings : w = Route \o <<"?">> \o r
    <3>1. CASE t = Route
      BY <2>3, <2>4, <3>1
    <3>2. CASE \E r \in Strings : t = Route \o <<"?">> \o r
      <4>1. PICK r \in Strings : t = Route \o <<"?">> \o r
        BY <3>2
      <4>2. PICK m : m = <<"?">> /\ m \in Seq(Characters)
        <5>1. "?" \in Characters
          BY <2>3
        <5>2. <<"?">> \in Seq(Characters)
          BY <5>1
        <5> QED BY <5>2
      <4>3. PICK x : x = Route \o m /\ x \in Seq(Characters)
        BY <2>3, <4>2, ConcatProperties DEF Strings
      <4>4. PICK y : y = r \o m /\ y \in Seq(Characters)
        BY <4>2, ConcatProperties DEF Strings
      <4>5. PICK z : z = y \o q /\ z \in Seq(Characters)
        BY <2>3, <4>4, ConcatProperties DEF Strings
      <4>6. w = ((x \o r) \o m) \o q
        BY <2>4, <4>1, <4>2, <4>3
      <4>7. (x \o r) \o m = x \o y
        <5>1. x \in Seq(Characters) /\ r \in Seq(Characters) /\ m \in Seq(Characters)
          BY <4>2, <4>3 DEF Strings
        <5>2. (x \o r) \o m = x \o (r \o m)
          BY <5>1, ConcatAssociative, SMTT(30)
        <5> QED BY <4>4, <5>2
      <4>8. (x \o y) \o q = x \o z
        <5>1. x \in Seq(Characters) /\ y \in Seq(Characters) /\ q \in Seq(Characters)
          BY <2>3, <4>3, <4>4 DEF Strings
        <5>2. (x \o y) \o q = x \o (y \o q)
          BY <5>1, ConcatAssociative, SMTT(30)
        <5> QED BY <4>5, <5>2
      <4>9. w = Route \o <<"?">> \o z
        BY <4>2, <4>3, <4>6, <4>7, <4>8
      <4> QED BY <4>5, <4>9 DEF Strings
    <3> QED BY <3>1, <3>2 DEF ForTheRoute
  <2> QED BY <2>2, <2>6, <2>7, <2>8 DEF ForTheRoute
<1> QED BY <1>1, <1>2

\* What is so of a program's request for the route, at every point of its way: its
\* target stays one for the route, and carries the parameters once when it was sent
\* once; the server has parsed none before the callback, and then exactly these.
OnItsWay ==
    /\ ForTheRoute(target, given.params)
    /\ sends = 0 => target = Route
    /\ sends = 1 => target = ParamsSerialize(Route, given.params)
    /\ stage \in {"client", "sent"} => params = <<>>
    /\ stage = "called" => path = Route /\ (sends = 1 => params = given.params)
    /\ stage # "unmatched"
    /\ stage = "refused" => SomeDots(given.params)

\* The inductive invariant.
Arrives ==
    /\ given \in Requests /\ sends \in Nat
    /\ given.target = Route => OnItsWay

\* The inductive invariant holds at first and every step keeps it.
THEOREM Inductive == ParamsSpec => []Arrives
<1>1. ParamsInit => Arrives
  <2> SUFFICES ASSUME ParamsInit PROVE Arrives
    OBVIOUS
  <2>1. given \in Requests /\ sends = 0 /\ sends \in Nat
    BY DEF ParamsInit
  <2>2. ASSUME given.target = Route PROVE OnItsWay
    <3>1. target = Route /\ stage = "client" /\ params = <<>>
      BY <2>2 DEF ParamsInit
    <3>2. ForTheRoute(target, given.params)
      BY <3>1, RouteAssumption DEF ForTheRoute
    <3> QED BY <2>1, <3>1, <3>2 DEF OnItsWay
  <2> QED BY <2>1, <2>2 DEF Arrives
<1>2. Arrives /\ [ParamsNext]_paramsVars => Arrives'
  <2> SUFFICES ASSUME Arrives, [ParamsNext]_paramsVars PROVE Arrives'
    OBVIOUS
  <2>1. given \in Requests /\ sends \in Nat /\ given' = given
    BY DEF Arrives, ParamsNext, Send, Refuse, Handle, paramsVars
  <2>2. sends' \in Nat
    BY <2>1 DEF ParamsNext, Send, Refuse, Handle, paramsVars
  <2>3. ASSUME given.target = Route PROVE OnItsWay'
    <3>1. OnItsWay
      BY <2>3 DEF Arrives
    <3>2. PICK ps : ps = given.params /\ ps \in Seq(Parameter)
      BY <2>1, RequestsAssumption DEF Parameter
    <3>3. /\ ForTheRoute(target, ps)
          /\ target[1] = "/" /\ Split(target, "?", 1)[1] = Route
      BY <3>1, <3>2, TargetOfRoute DEF OnItsWay
    <3>4. CASE Send
      <4>1. /\ target' = ParamsSerialize(target, ps) /\ sends' = sends + 1
            /\ stage' = "sent" /\ params = <<>> /\ params' = params
        BY <3>1, <3>2, <3>4 DEF Send, OnItsWay
      <4>2. ForTheRoute(target', ps)
        BY <3>2, <3>3, <4>1, SerializedForTheRoute
      <4>3. sends' # 0 /\ (sends' = 1 => target' = ParamsSerialize(Route, ps))
        <5>1. sends' # 0 /\ (sends' = 1 => sends = 0)
          BY <2>1, <4>1
        <5> QED BY <3>1, <4>1, <5>1 DEF OnItsWay
      <4> QED BY <2>1, <3>2, <4>1, <4>2, <4>3 DEF OnItsWay
    <3>5. CASE Refuse
      <4>1. /\ HasDots(target) /\ stage' = "refused"
            /\ UNCHANGED <<target, sends, path, params>>
        BY <3>3, <3>5 DEF Refuse
      <4>2. SomeDots(ps)
        BY <3>3, <4>1 DEF ForTheRoute
      <4> QED BY <2>1, <3>1, <3>2, <4>1, <4>2 DEF OnItsWay
    <3>6. CASE Handle
      <4>1. /\ stage = "sent" /\ stage' = "called" /\ path' = Route
            /\ params' = params \o ParamsParse(target)
            /\ UNCHANGED <<target, sends>>
        BY <3>3, <3>6 DEF Handle
      <4>2. sends = 1 => params' = ps
        <5>1. ASSUME sends = 1 PROVE params' = ps
          <6>1. target = ParamsSerialize(Route, ps) /\ params = <<>>
            BY <3>1, <3>2, <4>1, <5>1 DEF OnItsWay
          <6>2. ParamsParse(target) = ps
            BY <3>2, <6>1, RouteAssumption, ParseUndoesSerialize
          <6>3. <<>> \o ps = ps
            BY <3>2, ConcatEmptySeq
          <6> QED BY <4>1, <6>1, <6>2, <6>3
        <5> QED BY <5>1
      <4> QED BY <2>1, <3>1, <3>2, <4>1, <4>2 DEF OnItsWay
    <3>7. CASE UNCHANGED paramsVars
      BY <3>1, <3>7 DEF paramsVars, OnItsWay
    <3> QED BY <3>4, <3>5, <3>6, <3>7 DEF ParamsNext
  <2> QED BY <2>1, <2>2, <2>3 DEF Arrives
<1> QED BY <1>1, <1>2, PTL DEF ParamsSpec

\* What a program put into params() is what the callback finds there, and its request
\* reaches the route, whatever characters its parameters are made of: it is refused
\* only for two dots in one of them.
THEOREM RoundTripAlways == ParamsSpec => []RoundTrip
<1>1. Arrives => RoundTrip
  <2> SUFFICES ASSUME Arrives, given.target = Route
               PROVE  /\ stage = "called" =>
                          path = Route /\ (sends = 1 => SamePairs(params, given.params))
                      /\ stage # "unmatched"
                      /\ stage = "refused" => \E i \in DOMAIN given.params :
                             HasDots(given.params[i].key) \/ HasDots(given.params[i].value)
    BY DEF RoundTrip
  <2>1. OnItsWay
    BY DEF Arrives
  <2>2. SamePairs(given.params, given.params)
    BY DEF SamePairs
  <2> QED BY <2>1, <2>2 DEF OnItsWay, SomeDots, DotsIn
<1> QED BY <1>1, Inductive, PTL
-----------------------------------------------------------------------------
(* A query that the program wrote into the target. *)

\* The first place of a character is the first place split cuts at.
LEMMA FirstOfDelims ==
    ASSUME NEW T, NEW s \in Seq(T), NEW d
    PROVE  /\ DelimsFrom(s, d, 1) = {} => FirstOf(s, d) = 0 /\ ~Contains(s, d)
           /\ DelimsFrom(s, d, 1) # {} => FirstOf(s, d) = Min(DelimsFrom(s, d, 1))
<1>1. FirstOf(s, d) = IF DelimsFrom(s, d, 1) # {} THEN Min(DelimsFrom(s, d, 1)) ELSE 0
  BY DEF FirstOf, SelectInSeq, DelimsFrom
<1>2. DelimsFrom(s, d, 1) = {} => ~Contains(s, d)
  BY DEF DelimsFrom, Contains
<1> QED BY <1>1, <1>2

\* The part of a string behind a place.
LEMMA Behinds ==
    ASSUME NEW T, NEW s \in Seq(T), NEW e \in 1..Len(s), NEW v, v = SubSeq(s, e + 1, Len(s))
    PROVE  /\ v \in Seq(T) /\ Len(v) = Len(s) - e
           /\ \A k \in 1..(Len(s) - e) : v[k] = s[e + k]
<1>1. PICK l : l = Len(s) /\ l \in Nat
  BY LenProperties
<1>2. \A i \in 1..l : s[i] \in T
  BY <1>1, ElementOfSeq
<1>3. v \in Seq(T) /\ Len(v) = l - e /\ \A k \in 1..(l - e) : v[k] = s[e + k]
  <2>1. e + 1 \in Int /\ l \in Int /\ \A j \in (e + 1)..l : s[j] \in T
    BY <1>1, <1>2
  <2>2. /\ v \in Seq(T) /\ Len(v) = IF e + 1 <= l THEN l - (e + 1) + 1 ELSE 0
        /\ \A k \in 1..(l - (e + 1) + 1) : v[k] = s[e + 1 + k - 1]
    BY <1>1, <2>1, SubSeqProperties
  <2>3. Len(v) = l - e
    BY <1>1, <2>2
  <2>4. ASSUME NEW k \in 1..(l - e) PROVE v[k] = s[e + k]
    <3>1. k \in 1..(l - (e + 1) + 1) /\ e + 1 + k - 1 = e + k
      BY <1>1
    <3> QED BY <2>2, <3>1
  <2> QED BY <2>2, <2>3, <2>4
<1> QED BY <1>1, <1>3

\* What params_parse makes of a field is what the field says.
LEMMA FieldIsRead ==
    ASSUME NEW e \in Strings, e # <<>>
    PROVE  \E p : ParsedField(e) = <<p>> /\ Reads(p, e)
<1>1. e \in Seq(Characters)
  BY DEF Strings
<1>2. PICK kv : kv = Split(e, "=", 1)
  OBVIOUS
<1>3. PICK p : p = [key |-> UrlDecode(kv[1]),
                    value |-> IF Len(kv) = 1 THEN <<>> ELSE UrlDecode(kv[2])]
  OBVIOUS
<1>4. /\ ParsedField(e) = <<p>> /\ p.key = UrlDecode(kv[1])
      /\ p.value = IF Len(kv) = 1 THEN <<>> ELSE UrlDecode(kv[2])
  BY <1>2, <1>3 DEF ParsedField
<1>5. CASE DelimsFrom(e, "=", 1) = {}
  <2>1. kv = <<e>> /\ FirstOf(e, "=") = 0
    BY <1>1, <1>2, <1>5, SplitOnce, FirstOfDelims
  <2>2. kv[1] = e /\ Len(kv) = 1
    BY <2>1
  <2>3. PICK none : none = <<>> /\ none \in Seq(Characters) /\ Len(none) = 0
    BY EmptySeq
  <2>4. UrlDecode(none) = <<>>
    <3>1. PICK f : UrlDecode(none) = f[1] /\ f[Len(none) + 1] = <<>>
      BY <2>3, DecodeLoop
    <3> QED BY <2>3, <3>1
  <2> QED BY <1>4, <2>1, <2>2, <2>3, <2>4 DEF Reads, HasName, HasValue
<1>6. CASE DelimsFrom(e, "=", 1) # {}
  <2>1. PICK x : x = Min(DelimsFrom(e, "=", 1))
    OBVIOUS
  <2>2. PICK l : l = Len(e) /\ l \in Nat
    BY <1>1, LenProperties
  <2>3. x \in 1..l /\ FirstOf(e, "=") = x
    <3>1. 1 \in 1..(Len(e) + 1)
      BY <2>2
    <3> QED BY <1>1, <1>6, <2>1, <2>2, <3>1, FirstDelim, FirstOfDelims
  <2>4. PICK u, v, r : /\ u = SubSeq(e, 1, x - 1) /\ v = SubSeq(e, x + 1, l)
                       /\ r = RestFrom(e, "=", x + 1)
    OBVIOUS
  <2>5. kv = <<u, r>>
    <3>1. Split(e, "=", 1) = <<SubSeq(e, 1, x - 1), RestFrom(e, "=", x + 1)>>
      BY <1>1, <1>6, <2>1, SplitOnce
    <3> QED BY <1>2, <2>4, <3>1
  <2>6. kv[1] = u /\ kv[2] = r /\ Len(kv) # 1
    BY <2>5
  <2>7. p.key = UrlDecode(SubSeq(e, 1, x - 1)) /\ p.value = UrlDecode(r)
    BY <1>4, <2>4, <2>6
  <2>8. Behind(e, "=") = v /\ x # 0
    BY <2>2, <2>3, <2>4 DEF Behind
  <2>9. /\ v \in Seq(Characters) /\ Len(v) = l - x
        /\ \A k \in 1..(l - x) : v[k] = e[x + k]
    <3>1. x \in 1..Len(e) /\ v = SubSeq(e, x + 1, Len(e))
      BY <2>2, <2>3, <2>4
    <3>2. /\ v \in Seq(Characters) /\ Len(v) = Len(e) - x
          /\ \A k \in 1..(Len(e) - x) : v[k] = e[x + k]
      BY <1>1, <3>1, Behinds
    <3> QED BY <2>2, <3>2
  <2>10. CASE DelimsFrom(e, "=", x + 1) = {}
    <3>1. r = v
      BY <2>2, <2>4, <2>10 DEF RestFrom
    <3> QED BY <1>4, <2>3, <2>7, <2>8, <3>1 DEF Reads, HasName, HasValue
  <2>11. CASE DelimsFrom(e, "=", x + 1) # {}
    <3>1. PICK y : y = Min(DelimsFrom(e, "=", x + 1))
      OBVIOUS
    <3>2. y \in (x + 1)..l
      <4>1. x + 1 \in 1..(Len(e) + 1)
        BY <2>2, <2>3
      <4> QED BY <1>1, <2>2, <2>11, <3>1, <4>1, FirstDelim
    <3>3. Contains(v, "=")
      <4>1. PICK k : k = y - x
        OBVIOUS
      <4>2. k \in 1..(l - x) /\ x + k = y
        BY <2>2, <2>3, <3>2, <4>1
      <4>3. e[y] = "="
        <5>1. x + 1 \in 1..(Len(e) + 1)
          BY <2>2, <2>3
        <5> QED BY <1>1, <2>11, <3>1, <5>1, FirstDelim
      <4>4. v[k] = "="
        BY <2>9, <4>2, <4>3
      <4> QED BY <2>9, <4>2, <4>4 DEF Contains
    <3> QED BY <1>4, <2>3, <2>7, <2>8, <3>3 DEF Reads, HasName
  <2> QED BY <2>10, <2>11
<1> QED BY <1>5, <1>6

\* c has the places of the delimiters among the first n characters of s.
CutsUpTo(s, d, n, m, c) ==
    /\ m \in Nat /\ c \in [0..m -> 0..n] /\ c[0] = 0
    /\ \A i \in 1..m : /\ c[i - 1] < c[i] /\ s[c[i]] = d
                       /\ \A j \in (c[i - 1] + 1)..(c[i] - 1) : s[j] # d
    /\ \A j \in (c[m] + 1)..n : s[j] # d

\* One more place for the delimiters, the last.
OneMore(c, m, n) == [i \in 0..(m + 1) |-> IF i = m + 1 THEN n ELSE c[i]]

\* b has that place behind those of c.
HasOneMore(b, c, m, n) ==
    b \in [0..(m + 1) -> 0..n] /\ b[m + 1] = n /\ \A i \in 0..m : b[i] = c[i]

\* The places before it stay the same.
LEMMA OneMoreResult ==
    ASSUME NEW s, NEW d, NEW h \in Nat, NEW m, NEW c, CutsUpTo(s, d, h, m, c),
           NEW n, n = h + 1
    PROVE  HasOneMore(OneMore(c, m, n), c, m, n)
<1>0. m \in Nat /\ c \in [0..m -> 0..h]
  BY DEF CutsUpTo
<1>1. \A i \in 0..(m + 1) : i # m + 1 => i \in 0..m
  BY <1>0
<1>2. n \in 0..n /\ \A i \in 0..m : c[i] \in 0..n
  BY <1>0
<1>3. m + 1 \in 0..(m + 1) /\ \A i \in 0..m : i \in 0..(m + 1) /\ i # m + 1
  BY <1>0
<1> QED BY <1>1, <1>2, <1>3 DEF OneMore, HasOneMore

\* Every string can be cut at its delimiters.
LEMMA CutsExist ==
    ASSUME NEW T, NEW s \in Seq(T), NEW d
    PROVE  \E m, c : CutAt(s, d, m, c)
<1>1. PICK l : l = Len(s) /\ l \in Nat
  BY LenProperties
<1> DEFINE Missing == {n \in Nat : n <= l /\ ~ \E m, c : CutsUpTo(s, d, n, m, c)}
<1>2. Missing = {}
  <2> SUFFICES ASSUME Missing # {} PROVE FALSE
    OBVIOUS
  <2>1. PICK n \in Missing : \A k \in Missing : n <= k
    BY LeastNat
  <2>2. CASE n = 0
    <3>1. PICK c : c = [i \in 0..0 |-> 0]
      OBVIOUS
    <3>2. c \in [0..0 -> 0..0] /\ c[0] = 0 /\ 0 \in Nat /\ 1..0 = {} /\ (c[0] + 1)..0 = {}
      BY <3>1
    <3>3. CutsUpTo(s, d, 0, 0, c)
      BY <3>2 DEF CutsUpTo
    <3> QED BY <2>1, <2>2, <3>3
  <2>3. CASE n # 0
    <3>1. PICK h : h = n - 1 /\ h \in Nat /\ n = h + 1 /\ h <= l
      BY <1>1, <2>1, <2>3
    <3>2. h \notin Missing
      BY <2>1, <3>1
    <3>3. PICK m, c : CutsUpTo(s, d, h, m, c)
      BY <3>1, <3>2
    <3>4. /\ m \in Nat /\ c \in [0..m -> 0..h] /\ c[0] = 0 /\ c[m] \in 0..h
          /\ \A i \in 1..m : /\ c[i - 1] < c[i] /\ s[c[i]] = d
                             /\ \A j \in (c[i - 1] + 1)..(c[i] - 1) : s[j] # d
          /\ \A j \in (c[m] + 1)..h : s[j] # d
      BY <3>3 DEF CutsUpTo
    <3>5. CASE s[n] # d
      <4>1. c \in [0..m -> 0..n]
        BY <3>1, <3>4
      <4>2. ASSUME NEW j \in (c[m] + 1)..n PROVE s[j] # d
        <5>1. j = n \/ j \in (c[m] + 1)..h
          BY <3>1, <3>4
        <5> QED BY <3>4, <3>5, <5>1
      <4>3. CutsUpTo(s, d, n, m, c)
        BY <3>4, <4>1, <4>2 DEF CutsUpTo
      <4> QED BY <2>1, <4>3
    <3>6. CASE s[n] = d
      <4>1. PICK b : b = OneMore(c, m, n)
        OBVIOUS
      <4>2. /\ b \in [0..(m + 1) -> 0..n] /\ b[m + 1] = n
            /\ \A i \in 0..m : b[i] = c[i]
        <5>1. HasOneMore(b, c, m, n)
          BY <3>1, <3>3, <4>1, OneMoreResult
        <5> QED BY <5>1 DEF HasOneMore
      <4>3. ASSUME NEW i \in 1..(m + 1)
            PROVE  /\ b[i - 1] < b[i] /\ s[b[i]] = d
                   /\ \A j \in (b[i - 1] + 1)..(b[i] - 1) : s[j] # d
        <5>1. CASE i = m + 1
          <6>1. b[i] = n /\ b[i - 1] = c[m] /\ c[m] \in Nat /\ c[m] < n
            <7>1. i - 1 = m /\ m \in 0..m
              BY <3>4, <5>1
            <7> QED BY <3>1, <3>4, <4>2, <5>1, <7>1
          <6>2. n - 1 = h
            BY <3>1
          <6> QED BY <3>4, <3>6, <6>1, <6>2
        <5>2. CASE i # m + 1
          <6>1. i \in 1..m /\ i \in 0..m /\ i - 1 \in 0..m
            BY <3>4, <5>2
          <6>2. b[i] = c[i] /\ b[i - 1] = c[i - 1]
            BY <4>2, <6>1
          <6> QED BY <3>4, <6>1, <6>2
        <5> QED BY <5>1, <5>2
      <4>4. b[0] = 0
        BY <3>4, <4>2
      <4>5. \A j \in (b[m + 1] + 1)..n : s[j] # d
        BY <3>1, <4>2
      <4>6. m + 1 \in Nat
        BY <3>4
      <4>7. CutsUpTo(s, d, n, m + 1, b)
        BY <4>2, <4>3, <4>4, <4>5, <4>6 DEF CutsUpTo
      <4> QED BY <2>1, <4>7
    <3> QED BY <3>5, <3>6
  <2> QED BY <2>2, <2>3
<1>3. PICK m, c : CutsUpTo(s, d, l, m, c)
  BY <1>1, <1>2
<1>4. /\ m \in Nat /\ c \in [0..m -> 0..l] /\ c[0] = 0 /\ c[m] \in 0..l
      /\ \A i \in 1..m : /\ c[i - 1] < c[i] /\ s[c[i]] = d
                         /\ \A j \in (c[i - 1] + 1)..(c[i] - 1) : s[j] # d
      /\ \A j \in (c[m] + 1)..l : s[j] # d
  BY <1>3 DEF CutsUpTo
<1>5. PICK b : b = OneMore(c, m, l + 1)
  OBVIOUS
<1>6. /\ b \in [0..(m + 1) -> 0..(l + 1)] /\ b[m + 1] = l + 1
      /\ \A i \in 0..m : b[i] = c[i]
  <2>1. PICK e : e = l + 1
    OBVIOUS
  <2>2. HasOneMore(b, c, m, e)
    BY <1>1, <1>3, <1>5, <2>1, OneMoreResult
  <2> QED BY <2>1, <2>2 DEF HasOneMore
<1>7. ASSUME NEW i \in 1..(m + 1)
      PROVE  /\ b[i - 1] < b[i]
             /\ \A j \in (b[i - 1] + 1)..(b[i] - 1) : s[j] # d
             /\ i # m + 1 => s[b[i]] = d
  <2>1. CASE i = m + 1
    <3>1. b[i] = l + 1 /\ b[i - 1] = c[m] /\ c[m] \in Nat /\ c[m] < l + 1
      <4>1. i - 1 = m /\ m \in 0..m
        BY <1>4, <2>1
      <4> QED BY <1>1, <1>4, <1>6, <2>1, <4>1
    <3>2. (b[i - 1] + 1)..(b[i] - 1) = (c[m] + 1)..l
      BY <1>1, <3>1
    <3> QED BY <1>4, <2>1, <3>1, <3>2
  <2>2. CASE i # m + 1
    <3>1. i \in 1..m /\ i \in 0..m /\ i - 1 \in 0..m
      BY <1>4, <2>2
    <3>2. b[i] = c[i] /\ b[i - 1] = c[i - 1]
      BY <1>6, <3>1
    <3> QED BY <1>4, <3>1, <3>2
  <2> QED BY <2>1, <2>2
<1>8. b[0] = 0 /\ m + 1 \in Nat \ {0}
  BY <1>4, <1>6
<1>9. CutAt(s, d, m + 1, b)
  BY <1>1, <1>6, <1>7, <1>8 DEF CutAt
<1> QED BY <1>9

\* The places where a string is cut grow.
LEMMA CutsGrow ==
    ASSUME NEW s, NEW d, NEW m, NEW c, CutAt(s, d, m, c), NEW l \in Nat, l = Len(s)
    PROVE  \A k \in 0..m : \A i \in 0..m : i < k => c[i] < c[k]
<1>1. /\ m \in Nat \ {0} /\ c \in [0..m -> 0..(l + 1)]
      /\ \A i \in 1..m : c[i - 1] < c[i]
  BY DEF CutAt
<1>2. \A i \in 0..m : c[i] \in Nat
  BY <1>1
<1> DEFINE Wrong == {k \in Nat : k <= m /\ \E i \in 0..m : i < k /\ ~(c[i] < c[k])}
<1>3. Wrong = {}
  <2> SUFFICES ASSUME Wrong # {} PROVE FALSE
    OBVIOUS
  <2>1. PICK k \in Wrong : \A j \in Wrong : k <= j
    BY LeastNat
  <2>2. PICK i \in 0..m : i < k /\ ~(c[i] < c[k])
    BY <2>1
  <2>3. PICK h : h = k - 1
    OBVIOUS
  <2>4. h \in Nat /\ h < k /\ k \in 1..m /\ h \in 0..m /\ i <= h /\ k \in 0..m
    BY <1>1, <2>1, <2>2, <2>3
  <2>5. c[h] < c[k]
    BY <1>1, <2>3, <2>4
  <2>6. i = h \/ c[i] < c[h]
    <3>1. h \notin Wrong
      BY <2>1, <2>4
    <3> QED BY <2>4, <3>1
  <2>7. c[i] \in Nat /\ c[h] \in Nat /\ c[k] \in Nat
    BY <1>2, <2>4
  <2>8. c[i] < c[k]
    <3>1. CASE i = h
      BY <2>5, <3>1
    <3>2. CASE c[i] < c[h]
      BY <2>5, <2>7, <3>2
    <3> QED BY <2>6, <3>1, <3>2
  <2> QED BY <2>2, <2>8
<1>4. ASSUME NEW k \in 0..m, NEW i \in 0..m, i < k PROVE c[i] < c[k]
  <2>1. k \in Nat /\ k <= m
    BY <1>1
  <2>2. k \notin Wrong
    BY <1>3
  <2> QED BY <1>4, <2>1, <2>2
<1> QED BY <1>4

\* The fields that are not empty, by the cuts around them.
Filled(m, c)  == {i \in 1..m : c[i - 1] + 1 <= c[i] - 1}
FieldAt(c, i) == <<c[i - 1] + 1, c[i] - 1>>

\* The fields of a query are what stands between two cuts.
LEMMA FieldsAreCut ==
    ASSUME NEW T, NEW s \in Seq(T), NEW m, NEW c, CutAt(s, "&", m, c)
    PROVE  /\ \A i \in Filled(m, c) : FieldAt(c, i) \in Fields(s)
           /\ \A b \in Fields(s) : \E i \in Filled(m, c) : b = FieldAt(c, i)
<1>1. PICK l : l = Len(s) /\ l \in Nat
  BY LenProperties
<1>2. /\ m \in Nat \ {0} /\ c \in [0..m -> 0..(l + 1)] /\ c[0] = 0 /\ c[m] = l + 1
      /\ \A i \in 1..m : /\ c[i - 1] < c[i]
                         /\ \A j \in (c[i - 1] + 1)..(c[i] - 1) : s[j] # "&"
                         /\ i # m => s[c[i]] = "&"
  BY <1>1 DEF CutAt
<1>3. ASSUME NEW i \in Filled(m, c)
      PROVE  FieldAt(c, i) \in Fields(s)
  <2>1. i \in 1..m /\ c[i - 1] + 1 <= c[i] - 1
    BY DEF Filled
  <2>2. PICK x, y : x = c[i - 1] + 1 /\ y = c[i] - 1
    OBVIOUS
  <2>3. i - 1 \in 0..m /\ i \in 0..m
    BY <1>2, <2>1
  <2>4. c[i - 1] \in 0..(l + 1) /\ c[i] \in 0..(l + 1)
    BY <1>2, <2>3
  <2>5. x \in 1..l /\ y \in 1..l /\ x <= y /\ c[i - 1] = x - 1 /\ c[i] = y + 1
    <3>1. PICK u, v : u = c[i - 1] /\ v = c[i]
      OBVIOUS
    <3>2. u \in 0..(l + 1) /\ v \in 0..(l + 1) /\ u + 1 <= v - 1 /\ x = u + 1 /\ y = v - 1
      BY <2>1, <2>2, <2>4, <3>1
    <3>3. x \in 1..l /\ y \in 1..l /\ x <= y /\ u = x - 1 /\ v = y + 1
      BY <1>1, <3>2
    <3> QED BY <3>1, <3>3
  <2>6. \A j \in x..y : s[j] # "&"
    BY <1>2, <2>1, <2>2
  <2>7. x = 1 \/ s[x - 1] = "&"
    <3>1. CASE i = 1
      <4>1. c[i - 1] = 0
        BY <1>2, <3>1
      <4> QED BY <2>5, <4>1
    <3>2. CASE i # 1
      <4>1. i - 1 \in 1..m /\ i - 1 # m
        BY <1>2, <2>1, <3>2
      <4>2. s[c[i - 1]] = "&"
        BY <1>2, <4>1
      <4> QED BY <2>5, <4>2
    <3> QED BY <3>1, <3>2
  <2>8. y = l \/ s[y + 1] = "&"
    <3>1. CASE i = m
      <4>1. c[i] = l + 1
        BY <1>2, <3>1
      <4> QED BY <1>1, <2>5, <4>1
    <3>2. CASE i # m
      <4>1. s[c[i]] = "&"
        BY <1>2, <2>1, <3>2
      <4> QED BY <2>5, <4>1
    <3> QED BY <3>1, <3>2
  <2>9. <<x, y>> \in Fields(s)
    BY <1>1, <2>5, <2>6, <2>7, <2>8 DEF Fields
  <2> QED BY <2>2, <2>9 DEF FieldAt
<1>4. ASSUME NEW b \in Fields(s)
      PROVE  \E i \in Filled(m, c) : b = FieldAt(c, i)
  <2>1. PICK x \in 1..l, y \in 1..l : b = <<x, y>>
    BY <1>1 DEF Fields
  <2>2. /\ x <= y /\ \A j \in x..y : s[j] # "&"
        /\ x = 1 \/ s[x - 1] = "&"
        /\ y = l \/ s[y + 1] = "&"
    BY <1>1, <2>1 DEF Fields
  <2>3. x \in Nat /\ y \in Nat
    BY <1>1
  <2> DEFINE S == {i \in 1..m : x <= c[i]}
  <2>4. m \in S
    BY <1>1, <1>2
  <2>5. S \subseteq Nat
    BY <1>2
  <2>6. PICK i \in S : \A k \in S : i <= k
    BY <2>4, <2>5, LeastNat
  <2>7. i \in 1..m /\ x <= c[i] /\ i \in Nat /\ i - 1 \in 0..m /\ i \in 0..m
    BY <1>2, <2>6
  <2>8. PICK u, v : u = c[i - 1] /\ v = c[i]
    OBVIOUS
  <2>9. u \in 0..(l + 1) /\ v \in 0..(l + 1) /\ x <= v
    BY <1>2, <2>7, <2>8
  <2>10. u < x
    <3>1. CASE i = 1
      <4>1. u = 0
        BY <1>2, <2>8, <3>1
      <4> QED BY <4>1
    <3>2. CASE i # 1
      <4>1. i - 1 \in 1..m /\ i - 1 < i
        BY <1>2, <2>7, <3>2
      <4>2. i - 1 \notin S
        BY <2>6, <2>7, <4>1
      <4>3. ~(x <= u)
        BY <2>8, <4>1, <4>2
      <4> QED BY <1>1, <2>3, <2>9, <4>3
    <3> QED BY <3>1, <3>2
  <2>11. \A j \in (u + 1)..(v - 1) : s[j] # "&"
    BY <1>2, <2>7, <2>8
  <2>12. i # m => s[v] = "&"
    BY <1>2, <2>7, <2>8
  <2>13. i = m => v = l + 1
    BY <1>2, <2>8
  <2>14. y < v
    <3>1. CASE i = m
      BY <1>1, <2>13, <3>1
    <3>2. CASE i # m
      <4>1. ~(v \in x..y)
        BY <2>2, <2>12, <3>2
      <4> QED BY <1>1, <2>3, <2>9, <4>1
    <3> QED BY <3>1, <3>2
  <2>15. x = u + 1
    <3>1. ASSUME x # u + 1 PROVE FALSE
      <4>1. x - 1 \in (u + 1)..(v - 1) /\ x # 1
        BY <1>1, <2>3, <2>9, <2>10, <3>1
      <4> QED BY <2>2, <2>11, <4>1
    <3> QED BY <3>1
  <2>16. y = v - 1
    <3>1. ASSUME y # v - 1 PROVE FALSE
      <4>1. y + 1 \in (u + 1)..(v - 1) /\ y # l
        BY <1>1, <2>2, <2>3, <2>9, <2>10, <2>14, <3>1
      <4> QED BY <2>2, <2>11, <4>1
    <3> QED BY <3>1
  <2>17. i \in Filled(m, c)
    BY <2>2, <2>7, <2>8, <2>15, <2>16 DEF Filled
  <2>18. b = FieldAt(c, i)
    BY <2>1, <2>8, <2>15, <2>16 DEF FieldAt
  <2> QED BY <2>17, <2>18
<1> QED BY <1>3, <1>4

\* The fields up to the i-th cut.
FieldsUpTo(m, c, i) == {FieldAt(c, k) : k \in {k \in Filled(m, c) : k <= i}}

\* at counts the fields that are not empty.
Counts(at, m, c) ==
    /\ at \in [0..m -> Nat] /\ at[0] = 0
    /\ \A i \in 1..m : at[i] = IF i \in Filled(m, c) THEN at[i - 1] + 1 ELSE at[i - 1]

\* The i-th place that is counted stands for the fields up to it.
LEMMA FieldsCounted ==
    ASSUME NEW s, NEW m, NEW c, CutAt(s, "&", m, c), NEW l \in Nat, l = Len(s),
           NEW at, Counts(at, m, c)
    PROVE  \A i \in 0..m : /\ IsFiniteSet(FieldsUpTo(m, c, i))
                           /\ Cardinality(FieldsUpTo(m, c, i)) = at[i]
<1>1. m \in Nat \ {0} /\ c \in [0..m -> 0..(l + 1)]
  BY DEF CutAt
<1>2. /\ at \in [0..m -> Nat] /\ at[0] = 0
      /\ \A i \in 1..m : at[i] = IF i \in Filled(m, c) THEN at[i - 1] + 1 ELSE at[i - 1]
  BY DEF Counts
<1>3. \A k \in 0..m : \A i \in 0..m : i < k => c[i] < c[k]
  BY CutsGrow
<1> DEFINE Right(i) == /\ IsFiniteSet(FieldsUpTo(m, c, i))
                       /\ Cardinality(FieldsUpTo(m, c, i)) = at[i]
           Wrong == {i \in Nat : i <= m /\ ~Right(i)}
<1>4. Wrong = {}
  <2> SUFFICES ASSUME Wrong # {} PROVE FALSE
    OBVIOUS
  <2>1. PICK i \in Wrong : \A j \in Wrong : i <= j
    BY LeastNat
  <2>2. i \in Nat /\ i <= m /\ ~Right(i)
    BY <2>1
  <2>3. CASE i = 0
    <3>1. \A k \in Filled(m, c) : ~(k <= i)
      BY <1>1, <2>3 DEF Filled
    <3>2. FieldsUpTo(m, c, i) = {}
      BY <3>1 DEF FieldsUpTo
    <3> QED BY <1>2, <2>2, <2>3, <3>2, FS_EmptySet
  <2>4. CASE i # 0
    <3>1. PICK h : h = i - 1
      OBVIOUS
    <3>2. h \in Nat /\ h < i /\ h <= m /\ i \in 1..m /\ h \in 0..m
      BY <1>1, <2>2, <2>4, <3>1
    <3>3. Right(h)
      <4>1. h \notin Wrong
        BY <2>1, <2>2, <3>2
      <4> QED BY <3>2, <4>1
    <3>4. \A k \in Filled(m, c) : k \in 1..m /\ (k <= i <=> k <= h \/ k = i)
      <4>1. \A k \in Filled(m, c) : k \in 1..m
        BY DEF Filled
      <4> QED BY <1>1, <2>2, <3>1, <4>1
    <3>5. CASE i \notin Filled(m, c)
      <4>1. FieldsUpTo(m, c, i) = FieldsUpTo(m, c, h)
        BY <3>4, <3>5 DEF FieldsUpTo
      <4>2. at[i] = at[h]
        BY <1>2, <3>1, <3>2, <3>5
      <4> QED BY <2>2, <3>3, <4>1, <4>2
    <3>6. CASE i \in Filled(m, c)
      <4>1. FieldsUpTo(m, c, i) = FieldsUpTo(m, c, h) \cup {FieldAt(c, i)}
        <5>1. i <= i
          BY <2>2
        <5>2. \A f : f \in FieldsUpTo(m, c, i)
                     <=> f \in FieldsUpTo(m, c, h) \/ f = FieldAt(c, i)
          BY <3>4, <3>6, <5>1 DEF FieldsUpTo
        <5> QED BY <5>2, Zenon
      <4>2. FieldAt(c, i) \notin FieldsUpTo(m, c, h)
        <5>1. ASSUME NEW k \in Filled(m, c), k <= h PROVE FieldAt(c, k) # FieldAt(c, i)
          <6>1. k \in 1..m /\ k - 1 \in 0..m /\ k - 1 < h
            BY <1>1, <3>2, <3>4, <5>1
          <6>2. c[k - 1] < c[h]
            BY <1>3, <3>2, <6>1
          <6>3. PICK x, y : x = c[k - 1] /\ y = c[h]
            OBVIOUS
          <6>4. x \in Nat /\ y \in Nat /\ x < y
            BY <1>1, <3>2, <6>1, <6>2, <6>3
          <6>5. x + 1 # y + 1
            BY <6>4
          <6> QED BY <3>1, <6>3, <6>5 DEF FieldAt
        <5> QED BY <5>1 DEF FieldsUpTo
      <4>3. at[i] = at[h] + 1
        BY <1>2, <3>1, <3>2, <3>6
      <4>4. /\ IsFiniteSet(FieldsUpTo(m, c, h) \cup {FieldAt(c, i)})
            /\ Cardinality(FieldsUpTo(m, c, h) \cup {FieldAt(c, i)})
               = Cardinality(FieldsUpTo(m, c, h)) + 1
        BY <3>3, <4>2, FS_AddElement
      <4> QED BY <2>2, <3>3, <4>1, <4>3, <4>4
    <3> QED BY <3>5, <3>6
  <2> QED BY <2>3, <2>4
<1>5. ASSUME NEW i \in 0..m PROVE Right(i)
  <2>1. i \in Nat /\ i <= m
    BY <1>1
  <2> QED BY <1>4, <2>1
<1> QED BY <1>5

\* The counts are those of the fields of the query.
LEMMA PlacesCounted ==
    ASSUME NEW T, NEW s \in Seq(T), NEW m, NEW c, CutAt(s, "&", m, c),
           NEW at, Counts(at, m, c)
    PROVE  /\ Cardinality(Fields(s)) = at[m]
           /\ \A i \in Filled(m, c) : Place(s, FieldAt(c, i)) = at[i]
<1>1. PICK l : l = Len(s) /\ l \in Nat
  BY LenProperties
<1>2. m \in Nat \ {0} /\ c \in [0..m -> 0..(l + 1)]
  BY <1>1 DEF CutAt
<1>3. \A k \in 0..m : \A i \in 0..m : i < k => c[i] < c[k]
  BY <1>1, CutsGrow
<1>4. \A i \in 0..m : Cardinality(FieldsUpTo(m, c, i)) = at[i]
  BY <1>1, FieldsCounted
<1>5. /\ \A i \in Filled(m, c) : FieldAt(c, i) \in Fields(s)
      /\ \A b \in Fields(s) : \E i \in Filled(m, c) : b = FieldAt(c, i)
  BY FieldsAreCut
<1>6. \A k \in Filled(m, c) : k \in 1..m /\ k <= m /\ k \in 0..m /\ k - 1 \in 0..m
  BY <1>2 DEF Filled
<1>7. Cardinality(Fields(s)) = at[m]
  <2>1. \A f : f \in Fields(s) <=> f \in FieldsUpTo(m, c, m)
    BY <1>5, <1>6 DEF FieldsUpTo
  <2>2. Fields(s) = FieldsUpTo(m, c, m)
    BY <2>1, Zenon
  <2>3. m \in 0..m
    BY <1>2
  <2> QED BY <1>4, <2>2, <2>3
<1>8. ASSUME NEW i \in Filled(m, c)
      PROVE  Place(s, FieldAt(c, i)) = at[i]
  <2>1. ASSUME NEW k \in Filled(m, c)
        PROVE  FieldAt(c, k)[1] <= FieldAt(c, i)[1] <=> k <= i
    <3>1. k \in Nat /\ i \in Nat /\ k - 1 \in 0..m /\ i - 1 \in 0..m
      BY <1>2, <1>6
    <3>2. PICK x, y : x = c[k - 1] /\ y = c[i - 1]
      OBVIOUS
    <3>3. x \in Nat /\ y \in Nat
      BY <1>2, <3>1, <3>2
    <3>4. FieldAt(c, k)[1] = x + 1 /\ FieldAt(c, i)[1] = y + 1
      BY <3>2 DEF FieldAt
    <3>5. CASE k = i
      BY <3>1, <3>2, <3>3, <3>4, <3>5
    <3>6. CASE k < i
      <4>1. k - 1 < i - 1
        BY <3>1, <3>6
      <4>2. x < y
        BY <1>3, <3>1, <3>2, <4>1
      <4> QED BY <3>1, <3>3, <3>4, <3>6, <4>2
    <3>7. CASE i < k
      <4>1. i - 1 < k - 1
        BY <3>1, <3>7
      <4>2. y < x
        BY <1>3, <3>1, <3>2, <4>1
      <4>3. ~(x + 1 <= y + 1) /\ ~(k <= i)
        BY <3>1, <3>3, <3>7, <4>2
      <4> QED BY <3>4, <4>3
    <3> QED BY <3>1, <3>5, <3>6, <3>7
  <2>2. PICK S : S = {f \in Fields(s) : f[1] <= FieldAt(c, i)[1]}
    OBVIOUS
  <2>3. \A f : f \in S <=> f \in FieldsUpTo(m, c, i)
    BY <1>5, <2>1, <2>2 DEF FieldsUpTo
  <2>4. S = FieldsUpTo(m, c, i)
    BY <2>3, Zenon
  <2>5. Place(s, FieldAt(c, i)) = Cardinality(S)
    BY <2>2 DEF Place
  <2> QED BY <1>4, <1>6, <2>4, <2>5
<1> QED BY <1>7, <1>8

\* ps are the parameters that the query holds, in the order of its fields.
HoldsFields(ps, query) ==
    /\ Len(ps) = Cardinality(Fields(query))
    /\ \A b \in Fields(query) : Reads(ps[Place(query, b)], SubSeq(query, b[1], b[2]))

\* What stands between two cuts, and that it is empty where no field is.
LEMMA BetweenCuts ==
    ASSUME NEW s \in Strings, NEW m, NEW c, CutAt(s, "&", m, c), NEW i \in 1..m,
           NEW f, f = SubSeq(s, c[i - 1] + 1, c[i] - 1)
    PROVE  f \in Strings /\ (i \in Filled(m, c) <=> f # <<>>)
<1>1. PICK l : l = Len(s) /\ l \in Nat
  BY LenProperties DEF Strings
<1>2. m \in Nat \ {0} /\ c \in [0..m -> 0..(l + 1)]
  BY <1>1 DEF CutAt
<1>3. PICK x, y : x = c[i - 1] + 1 /\ y = c[i] - 1
  OBVIOUS
<1>4. x \in Nat \ {0} /\ y \in Int /\ y <= l
  <2>1. i - 1 \in 0..m /\ i \in 0..m
    BY <1>2
  <2>2. c[i - 1] \in 0..(l + 1) /\ c[i] \in 0..(l + 1)
    BY <1>2, <2>1
  <2>3. PICK u, v \in 0..(l + 1) : u = c[i - 1] /\ v = c[i]
    BY <2>2
  <2>4. x = u + 1 /\ y = v - 1 /\ u \in Nat /\ v \in Nat /\ v <= l + 1
    BY <1>1, <1>3, <2>3
  <2> QED BY <1>1, <2>4
<1>5. \A j \in x..y : s[j] \in Characters
  <2>1. \A j \in x..y : j \in 1..l
    BY <1>1, <1>4
  <2> QED BY <1>1, <2>1, ElementOfSeq DEF Strings
<1>6. f \in Seq(Characters) /\ Len(f) = IF x <= y THEN y - x + 1 ELSE 0
  BY <1>3, <1>4, <1>5, SubSeqProperties
<1>7. Len(f) # 0 <=> x <= y
  BY <1>4, <1>6
<1>8. f # <<>> <=> Len(f) # 0
  BY <1>6, EmptySeq
<1>9. i \in Filled(m, c) <=> x <= y
  BY <1>3 DEF Filled
<1> QED BY <1>6, <1>7, <1>8, <1>9 DEF Strings

\* Whatever the query, params_parse finds its fields, those that are not empty, and gives
\* each a parameter, in their order.
LEMMA QueryIsRead ==
    ASSUME NEW s \in Strings, NEW fields, fields = Split(s, "&", 0),
           NEW ps, ps = Joined([i \in 1..Len(fields) |-> ParsedField(fields[i])])
    PROVE  HoldsFields(ps, s) /\ \E T : ps \in Seq(T)
<1>1. PICK l : l = Len(s) /\ l \in Nat
  BY LenProperties DEF Strings
<1>2. PICK m, c : CutAt(s, "&", m, c)
  BY CutsExist DEF Strings
<1>3. m \in Nat \ {0} /\ c \in [0..m -> 0..(l + 1)]
  BY <1>1, <1>2 DEF CutAt
<1>4. /\ fields = [i \in 1..m |-> SubSeq(s, c[i - 1] + 1, c[i] - 1)]
      /\ Len(fields) = m
  BY <1>2, SplitAll DEF Strings
<1>5. PICK e : e = [i \in 1..m |-> ParsedField(fields[i])]
  OBVIOUS
<1>6. ps = Joined(e)
  BY <1>4, <1>5
<1>7. ASSUME NEW i \in 1..m
      PROVE  /\ i \notin Filled(m, c) => e[i] = <<>>
             /\ i \in Filled(m, c) =>
                    \E p : e[i] = <<p>> /\ Reads(p, SubSeq(s, c[i - 1] + 1, c[i] - 1))
  <2>1. PICK f : f = SubSeq(s, c[i - 1] + 1, c[i] - 1)
    OBVIOUS
  <2>2. f \in Strings /\ (i \in Filled(m, c) <=> f # <<>>)
    BY <1>2, <2>1, BetweenCuts
  <2>3. e[i] = ParsedField(f)
    BY <1>4, <1>5, <2>1
  <2>4. f = <<>> => ParsedField(f) = <<>>
    BY DEF ParsedField
  <2>5. f # <<>> => \E p : ParsedField(f) = <<p>> /\ Reads(p, f)
    BY <2>2, FieldIsRead
  <2> QED BY <2>1, <2>2, <2>3, <2>4, <2>5
<1>8. PICK T : T = {e[i][1] : i \in 1..m}
  OBVIOUS
<1>9. ASSUME NEW i \in 1..m
      PROVE  /\ e[i] \in Seq(T)
             /\ Len(e[i]) = IF i \in Filled(m, c) THEN 1 ELSE 0
  <2>1. CASE i \in Filled(m, c)
    <3>1. PICK p : e[i] = <<p>>
      BY <1>7, <2>1
    <3>2. p \in T
      <4>1. p = e[i][1]
        BY <3>1
      <4> QED BY <1>8, <4>1
    <3> QED BY <2>1, <3>1, <3>2
  <2>2. CASE i \notin Filled(m, c)
    <3>1. e[i] = <<>>
      BY <1>7, <2>2
    <3>2. e[i] \in Seq(T) /\ Len(e[i]) = 0
      BY <3>1
    <3> QED BY <2>2, <3>2
  <2> QED BY <2>1, <2>2
<1>10. e \in Seq(Seq(T)) /\ Len(e) = m
  <2>1. e \in [1..m -> Seq(T)]
    BY <1>5, <1>9
  <2> QED BY <1>3, <2>1, PiecesAreSeq
<1>11. ps \in Seq(T) /\ \E at : PlacedAt(e, ps, at)
  BY <1>6, <1>10, JoinedPlaces
<1>12. PICK at : PlacedAt(e, ps, at)
  BY <1>11
<1>13. /\ at \in [0..m -> Nat] /\ at[0] = 0 /\ at[m] = Len(ps)
       /\ \A i \in 1..m : at[i] = at[i - 1] + Len(e[i])
       /\ \A i \in 1..m : \A j \in 1..Len(e[i]) : ps[at[i - 1] + j] = e[i][j]
  BY <1>10, <1>12 DEF PlacedAt
<1>14. Counts(at, m, c)
  <2>1. ASSUME NEW i \in 1..m
        PROVE  at[i] = IF i \in Filled(m, c) THEN at[i - 1] + 1 ELSE at[i - 1]
    <3>1. at[i] = at[i - 1] + Len(e[i])
      BY <1>13
    <3>2. at[i - 1] \in Nat
      BY <1>3, <1>13
    <3> QED BY <1>9, <3>1, <3>2
  <2> QED BY <1>13, <2>1 DEF Counts
<1>15. /\ Cardinality(Fields(s)) = at[m]
       /\ \A i \in Filled(m, c) : Place(s, FieldAt(c, i)) = at[i]
  <2>1. s \in Seq(Characters)
    BY DEF Strings
  <2> QED BY <1>2, <1>14, <2>1, PlacesCounted
<1>16. ASSUME NEW b \in Fields(s)
       PROVE  Reads(ps[Place(s, b)], SubSeq(s, b[1], b[2]))
  <2>1. PICK i \in Filled(m, c) : b = FieldAt(c, i)
    BY <1>2, FieldsAreCut DEF Strings
  <2>2. i \in 1..m
    BY <2>1 DEF Filled
  <2>3. Place(s, b) = at[i]
    BY <1>15, <2>1
  <2>4. PICK p : e[i] = <<p>> /\ Reads(p, SubSeq(s, c[i - 1] + 1, c[i] - 1))
    BY <1>7, <2>1, <2>2
  <2>5. at[i] = at[i - 1] + 1 /\ ps[at[i - 1] + 1] = p
    <3>1. Len(e[i]) = 1 /\ e[i][1] = p
      BY <2>4
    <3>2. 1 \in 1..Len(e[i])
      BY <3>1
    <3> QED BY <1>13, <2>2, <3>1, <3>2
  <2>6. b[1] = c[i - 1] + 1 /\ b[2] = c[i] - 1
    BY <2>1 DEF FieldAt
  <2> QED BY <2>3, <2>4, <2>5, <2>6
<1> QED BY <1>11, <1>13, <1>15, <1>16 DEF HoldsFields

\* params_parse reads the query behind the only "?" of a target.
THEOREM TargetIsRead ==
    ASSUME NEW t \in Strings, FirstOf(t, "?") # 0, ~Contains(Behind(t, "?"), "?")
    PROVE  HoldsFields(ParamsParse(t), Behind(t, "?")) /\ \E T : ParamsParse(t) \in Seq(T)
<1>1. t \in Seq(Characters)
  BY DEF Strings
<1>2. PICK l : l = Len(t) /\ l \in Nat
  BY <1>1, LenProperties
<1>3. DelimsFrom(t, "?", 1) # {}
  BY <1>1, FirstOfDelims
<1>4. PICK x : x = FirstOf(t, "?") /\ x = Min(DelimsFrom(t, "?", 1))
  BY <1>1, <1>3, FirstOfDelims
<1>5. x \in 1..l
  <2>1. 1 \in 1..(Len(t) + 1)
    BY <1>2
  <2> QED BY <1>1, <1>2, <1>3, <1>4, <2>1, FirstDelim
<1>6. PICK v : v = Behind(t, "?") /\ v = SubSeq(t, x + 1, Len(t))
  BY <1>4 DEF Behind
<1>7. v \in Seq(Characters) /\ Len(v) = l - x /\ \A k \in 1..(l - x) : v[k] = t[x + k]
  <2>1. x \in 1..Len(t)
    BY <1>2, <1>5
  <2>2. /\ v \in Seq(Characters) /\ Len(v) = Len(t) - x
        /\ \A k \in 1..(Len(t) - x) : v[k] = t[x + k]
    BY <1>1, <1>6, <2>1, Behinds
  <2> QED BY <1>2, <2>2
<1>8. DelimsFrom(t, "?", x + 1) = {}
  <2>1. ASSUME NEW j \in (x + 1)..l PROVE t[j] # "?"
    <3>1. PICK k : k = j - x
      OBVIOUS
    <3>2. k \in 1..(l - x) /\ x + k = j
      BY <1>2, <1>5, <3>1
    <3>3. v[k] # "?"
      BY <1>6, <1>7, <3>2 DEF Contains
    <3> QED BY <1>7, <3>2, <3>3
  <2> QED BY <1>2, <2>1 DEF DelimsFrom
<1>9. PICK u, r : u = SubSeq(t, 1, x - 1) /\ r = RestFrom(t, "?", x + 1)
  OBVIOUS
<1>10. r = v
  BY <1>6, <1>8, <1>9 DEF RestFrom
<1>11. Split(t, "?", 1) = <<u, r>>
  <2>1. Split(t, "?", 1) = <<SubSeq(t, 1, x - 1), RestFrom(t, "?", x + 1)>>
    BY <1>1, <1>3, <1>4, SplitOnce
  <2> QED BY <1>9, <2>1
<1>12. Len(Split(t, "?", 1)) = 2 /\ Split(t, "?", 1)[2] = v
  BY <1>10, <1>11
<1>13. PICK fields : fields = Split(v, "&", 0)
  OBVIOUS
<1>14. ParamsParse(t) = Joined([i \in 1..Len(fields) |-> ParsedField(fields[i])])
  BY <1>12, <1>13 DEF ParamsParse
<1> QED BY <1>6, <1>7, <1>13, <1>14, QueryIsRead DEF Strings

\* The inductive invariant of a request without parameters of its own: the target goes
\* out as the program wrote it, and the callback finds what params_parse makes of it.
SentAsWritten ==
    /\ given \in Requests
    /\ given.params = <<>> =>
           /\ target = given.target
           /\ stage \in {"client", "sent"} => params = <<>>
           /\ stage = "called" => params = <<>> \o ParamsParse(given.target)

\* A query that the program wrote into the target is read field by field: each field
\* that is not empty gives one parameter, in their order, with its name, and with its
\* value if that has no "=" of its own, for targets and queries of any length.
THEOREM FieldsAreReadAlways == ParamsSpec => []FieldsAreRead
<1>1. ParamsInit => SentAsWritten
  BY DEF ParamsInit, SentAsWritten
<1>2. SentAsWritten /\ [ParamsNext]_paramsVars => SentAsWritten'
  <2> SUFFICES ASSUME SentAsWritten, [ParamsNext]_paramsVars PROVE SentAsWritten'
    OBVIOUS
  <2>1. given \in Requests /\ given' = given
    BY DEF SentAsWritten, ParamsNext, Send, Refuse, Handle, paramsVars
  <2>2. ASSUME given.params = <<>>
        PROVE  /\ target' = given.target
               /\ stage' \in {"client", "sent"} => params' = <<>>
               /\ stage' = "called" => params' = <<>> \o ParamsParse(given.target)
    <3>1. /\ target = given.target
          /\ stage \in {"client", "sent"} => params = <<>>
          /\ stage = "called" => params = <<>> \o ParamsParse(given.target)
      BY <2>2 DEF SentAsWritten
    <3>2. CASE Send
      <4>1. target' = target
        BY <2>2, <3>2, SerializedTarget DEF Send
      <4> QED BY <3>1, <3>2, <4>1 DEF Send
    <3>3. CASE Refuse
      BY <3>1, <3>3 DEF Refuse
    <3>4. CASE Handle
      BY <3>1, <3>4 DEF Handle
    <3>5. CASE UNCHANGED paramsVars
      BY <3>1, <3>5 DEF paramsVars
    <3> QED BY <3>2, <3>3, <3>4, <3>5 DEF ParamsNext
  <2> QED BY <2>1, <2>2 DEF SentAsWritten
<1>3. SentAsWritten => FieldsAreRead
  <2> SUFFICES ASSUME SentAsWritten, stage = "called", given.params = <<>>,
                      FirstOf(given.target, "?") # 0,
                      ~Contains(Behind(given.target, "?"), "?")
               PROVE  HoldsFields(params, Behind(given.target, "?"))
    BY DEF FieldsAreRead, QueryArrived, HoldsFields
  <2>1. PICK t : t = given.target /\ t \in Strings
    BY RequestsAssumption DEF SentAsWritten
  <2>2. HoldsFields(ParamsParse(t), Behind(t, "?"))
    BY <2>1, TargetIsRead
  <2>3. params = <<>> \o ParamsParse(t)
    BY <2>1 DEF SentAsWritten
  <2>4. <<>> \o ParamsParse(t) = ParamsParse(t)
    BY <2>1, TargetIsRead, ConcatEmptySeq
  <2> QED BY <2>1, <2>2, <2>3, <2>4
<1> QED BY <1>1, <1>2, <1>3, PTL DEF ParamsSpec
=============================================================================
