--------------------------- MODULE EppFramingProofs ---------------------------
(***************************************************************************)
(* Facts about the frame decoder of EppFraming, on any stream of units,    *)
(* and about sequences: the first part and the last one, on sequences of   *)
(* sequences that are joined, serve the proofs of other components too.    *)
(*                                                                         *)
(* The decoder's loop is a recursive function.  That the recursion defines *)
(* a function, and every induction on the turns of the loop, is by the     *)
(* least number for which it would fail.  What all of it is for is         *)
(* Decoding: a stream that is decoded chunk by chunk gives the messages,   *)
(* and leaves the rest, that it does when it is decoded in one go.  Of a   *)
(* stream of whole frames this gives: while a frame is still to come, what *)
(* is decoded are the bodies of those before it (WholeFramesBefore).       *)
(***************************************************************************)
EXTENDS EppFraming, SequencesExt, SequenceTheorems, WellFoundedInduction, TLAPS

-------------------------------------------------------------------------------
(* Numbers and sequences.                                                  *)

\* A set of numbers that is not empty has a least element.
LEMMA Least ==
  ASSUME NEW S \in SUBSET Nat, S # {}
  PROVE  \E m \in S : \A n \in S : m =< n
<1> DEFINE R == OpToRel(<, Nat)
<1>1. IsWellFoundedOn(R, Nat)
  BY NatLessThanWellFounded
<1> HIDE DEF R
<1>2. \E m \in S : \A n \in S : ~(<<n, m>> \in R)
  BY <1>1, WFMin
<1>3. PICK m \in S : \A n \in S : ~(<<n, m>> \in R)
  BY <1>2
<1>4. \A n \in S : ~(n < m)
  BY <1>3 DEF R, OpToRel
<1>5. QED
  BY <1>4

\* Induction up to a bound: a set that holds 0, and with each number below the
\* bound the next one, holds every number up to the bound.
LEMMA UpTo ==
  ASSUME NEW c \in Nat, NEW S, 0 \in S, \A n \in 0..(c - 1) : n \in S => n + 1 \in S
  PROVE  \A n \in 0..c : n \in S
<1> DEFINE T == {n \in 0..c : n \notin S}
<1>1. CASE T # {}
  <2>1. T \in SUBSET Nat
    OBVIOUS
  <2>2. PICK m \in T : \A n \in T : m =< n
    <3> HIDE DEF T
    <3>1. QED
      BY <1>1, <2>1, Least
  <2>3. m \in 1..c /\ m - 1 \in 0..(c - 1) /\ m - 1 \notin T
    BY <2>2
  <2>4. m - 1 \in S /\ m - 1 + 1 = m
    BY <2>3
  <2>5. QED
    BY <2>2, <2>3, <2>4
<1>2. CASE T = {}
  BY <1>2
<1>3. QED
  BY <1>1, <1>2

\* Two sequences are one when they agree at every place.
LEMMA SameSequence ==
  ASSUME NEW S, NEW T, NEW p \in Seq(S), NEW q \in Seq(T), Len(p) = Len(q),
         \A i \in 1..Len(p) : p[i] = q[i]
  PROVE  p = q
OBVIOUS

LEMMA ElementsOf ==
  ASSUME NEW S, NEW p \in Seq(S)
  PROVE  Len(p) \in Nat /\ \A i \in 1..Len(p) : p[i] \in S
OBVIOUS

LEMMA ConcatFacts ==
  ASSUME NEW S, NEW p \in Seq(S), NEW q \in Seq(S)
  PROVE  /\ p \o q \in Seq(S)
         /\ Len(p) \in Nat /\ Len(q) \in Nat /\ Len(p \o q) = Len(p) + Len(q)
         /\ \A i \in 1..Len(p) : (p \o q)[i] = p[i]
         /\ \A i \in 1..Len(q) : (p \o q)[Len(p) + i] = q[i]
OBVIOUS

LEMMA FunctionIsSequence ==
  ASSUME NEW S, NEW n \in Nat, NEW f \in [1..n -> S]
  PROVE  f \in Seq(S) /\ Len(f) = n
OBVIOUS

\* What is left of a sequence behind its first e elements.
LEMMA BehindFacts ==
  ASSUME NEW S, NEW p \in Seq(S), NEW e \in 0..Len(p)
  PROVE  /\ SubSeq(p, e + 1, Len(p)) \in Seq(S)
         /\ Len(SubSeq(p, e + 1, Len(p))) = Len(p) - e
         /\ \A i \in 1..(Len(p) - e) : SubSeq(p, e + 1, Len(p))[i] = p[e + i]
OBVIOUS

-------------------------------------------------------------------------------
(* The loop, turn by turn.                                                 *)

Stream(B) == Seq([body : B, size : Nat])

LEMMA StreamFacts ==
  ASSUME NEW B, NEW b \in Stream(B)
  PROVE  /\ Len(b) \in Nat
         /\ b \in Seq([body : B, size : Nat])
         /\ \A i \in 1..Len(b) : b[i].body \in B /\ b[i].size \in Nat
<1>1. b \in Seq([body : B, size : Nat])
  BY DEF Stream
<1>2. Len(b) \in Nat /\ \A i \in 1..Len(b) : b[i] \in [body : B, size : Nat]
  BY <1>1, ElementsOf
<1>3. QED
  BY <1>1, <1>2

\* Streams are put together and cut.
LEMMA StreamConcat ==
  ASSUME NEW B, NEW x \in Stream(B), NEW y \in Stream(B)
  PROVE  x \o y \in Stream(B)
BY ConcatProperties DEF Stream

LEMMA StreamAssociative ==
  ASSUME NEW B, NEW x \in Stream(B), NEW y \in Stream(B), NEW z \in Stream(B)
  PROVE  (x \o y) \o z = x \o (y \o z)
<1> DEFINE U == [body : B, size : Nat]
<1>1. x \in Seq(U) /\ y \in Seq(U) /\ z \in Seq(U)
  BY DEF Stream
<1> HIDE DEF U
<1>2. QED
  BY <1>1, ConcatAssociative

LEMMA StreamCut ==
  ASSUME NEW B, NEW b \in Stream(B), NEW k \in 1..Len(b)
  PROVE  /\ SubSeq(b, 1, k) \in Stream(B)
         /\ SubSeq(b, k + 1, Len(b)) \in Stream(B)
         /\ SubSeq(b, 1, k) \o SubSeq(b, k + 1, Len(b)) = b
<1> DEFINE U == [body : B, size : Nat]
<1>1. b \in Seq(U) /\ Len(b) \in Nat
  BY StreamFacts
<1> HIDE DEF U
<1>2. SubSeq(b, 1, k) \in Seq(U) /\ SubSeq(b, k + 1, Len(b)) \in Seq(U)
  BY <1>1
<1>3. 1 \in 1..(Len(b) + 1) /\ k \in (1 - 1)..Len(b) /\ Len(b) \in k..Len(b)
  BY <1>1
<1>4. SubSeq(b, 1, k) \o SubSeq(b, k + 1, Len(b)) = SubSeq(b, 1, Len(b))
  BY <1>1, <1>3, ConcatAdjacentSubSeq
<1>5. SubSeq(b, 1, Len(b)) = b
  BY <1>1, SubSeqFull
<1>6. QED
  BY <1>2, <1>4, <1>5 DEF Stream, U

\* The messages the units of a stream are parts of.
Bodies(b) == {b[i].body : i \in 1..Len(b)}

LEMMA BodiesFacts ==
  ASSUME NEW B, NEW x \in Stream(B), NEW y \in Stream(B)
  PROVE  Bodies(x \o y) = Bodies(x) \cup Bodies(y)
<1> DEFINE z == x \o y
<1>1. /\ Len(z) = Len(x) + Len(y) /\ Len(x) \in Nat /\ Len(y) \in Nat
      /\ \A i \in 1..Len(x) : z[i] = x[i]
      /\ \A i \in 1..Len(y) : z[Len(x) + i] = y[i]
  BY ConcatFacts DEF Stream
<1> HIDE DEF z
<1>2. ASSUME NEW i \in 1..Len(z)
      PROVE  z[i].body \in Bodies(x) \cup Bodies(y)
  <2>1. CASE i =< Len(x)
    BY <1>1, <2>1 DEF Bodies
  <2>2. CASE i > Len(x)
    <3>1. i - Len(x) \in 1..Len(y) /\ Len(x) + (i - Len(x)) = i
      BY <1>1, <2>2
    <3>2. z[i] = y[i - Len(x)]
      BY <1>1, <3>1
    <3>3. QED
      BY <3>1, <3>2 DEF Bodies
  <2>3. QED
    BY <1>1, <2>1, <2>2
<1>3. ASSUME NEW i \in 1..Len(x)
      PROVE  x[i].body \in Bodies(z)
  <2>1. i \in 1..Len(z) /\ z[i] = x[i]
    BY <1>1
  <2>2. QED
    BY <2>1 DEF Bodies
<1>4. ASSUME NEW i \in 1..Len(y)
      PROVE  y[i].body \in Bodies(z)
  <2>1. Len(x) + i \in 1..Len(z) /\ z[Len(x) + i] = y[i]
    BY <1>1
  <2>2. QED
    BY <2>1 DEF Bodies
<1>5. Bodies(z) \subseteq Bodies(x) \cup Bodies(y)
  BY <1>2 DEF Bodies
<1>6. Bodies(x) \subseteq Bodies(z) /\ Bodies(y) \subseteq Bodies(z)
  BY <1>3, <1>4 DEF Bodies
<1>7. QED
  BY <1>5, <1>6 DEF z

\* One turn of the loop.
Turn(b, p) == IF IsWhole(b, p) THEN p + b[p + 1].size ELSE p

Walks(f, b, n) == f = [j \in 0..n |-> IF j = 0 THEN 0 ELSE Turn(b, f[j - 1])]

\* The recursion of Position defines a function.
LEMMA WalkExists ==
  ASSUME NEW b, NEW n \in Nat
  PROVE  \E f : Walks(f, b, n)
<1> DEFINE S == {m \in Nat : \E f : Walks(f, b, m)}
<1>1. 0 \in S
  <2> DEFINE f == [j \in 0..0 |-> 0]
  <2>1. Walks(f, b, 0)
    BY DEF Walks
  <2>2. QED
    BY <2>1
<1>2. ASSUME NEW m \in 0..(n - 1), m \in S
      PROVE  m + 1 \in S
  <2>1. PICK f : Walks(f, b, m)
    BY <1>2
  <2> DEFINE g == [j \in 0..(m + 1) |-> IF j = 0 THEN 0 ELSE Turn(b, f[j - 1])]
  <2>2. ASSUME NEW i \in 0..m
        PROVE  g[i] = f[i]
    BY <2>1 DEF Walks
  <2> HIDE DEF g
  <2>3. \A j \in 0..(m + 1) : j # 0 => j - 1 \in 0..m
    OBVIOUS
  <2>4. g = [j \in 0..(m + 1) |-> IF j = 0 THEN 0 ELSE Turn(b, g[j - 1])]
    BY <2>2, <2>3 DEF g
  <2>5. Walks(g, b, m + 1) /\ m + 1 \in Nat
    BY <2>4 DEF Walks
  <2>6. QED
    BY <2>5
<1>3. n \in 0..n
  OBVIOUS
<1> HIDE DEF S
<1>4. n \in S
  BY <1>1, <1>2, <1>3, UpTo
<1>5. QED
  BY <1>4 DEF S

\* Position is what its recursion says.
LEMMA PositionFacts ==
  ASSUME NEW B, NEW b \in Stream(B)
  PROVE  /\ Position(b)[0] = 0
         /\ \A n \in 0..(Len(b) - 1) : Position(b)[n + 1] = Turn(b, Position(b)[n])
<1>1. Len(b) \in Nat
  BY DEF Stream
<1>2. \E f : Walks(f, b, Len(b))
  BY <1>1, WalkExists
<1>3. Position(b) = CHOOSE f : Walks(f, b, Len(b))
  BY DEF Position, Walks, Turn
<1>4. Walks(Position(b), b, Len(b))
  BY <1>2, <1>3
<1>5. ASSUME NEW n \in 0..(Len(b) - 1)
      PROVE  Position(b)[n + 1] = Turn(b, Position(b)[n])
  <2>1. n + 1 \in 0..Len(b) /\ n + 1 # 0 /\ n + 1 - 1 = n
    BY <1>1
  <2>2. QED
    BY <1>4, <2>1 DEF Walks
<1>6. Position(b)[0] = 0
  BY <1>1, <1>4 DEF Walks
<1>7. QED
  BY <1>5, <1>6

LEMMA TurnFacts ==
  ASSUME NEW B, NEW b \in Stream(B), NEW p \in 0..Len(b)
  PROVE  /\ Turn(b, p) \in p..Len(b)
         /\ IsWhole(b, p) => Turn(b, p) = p + b[p + 1].size /\ Turn(b, p) > p
         /\ ~IsWhole(b, p) => Turn(b, p) = p
BY DEF Turn, IsWhole, Stream

LEMMA PositionRange ==
  ASSUME NEW B, NEW b \in Stream(B), NEW n \in 0..Len(b)
  PROVE  Position(b)[n] \in 0..Len(b)
<1> DEFINE S == {m \in 0..Len(b) : Position(b)[m] \in 0..Len(b)}
<1>1. Len(b) \in Nat
  BY DEF Stream
<1>2. 0 \in S
  BY <1>1, PositionFacts
<1>3. ASSUME NEW m \in 0..(Len(b) - 1), m \in S
      PROVE  m + 1 \in S
  <2>1. m + 1 \in 1..Len(b) /\ m + 1 - 1 = m /\ m + 1 \in 0..Len(b)
    BY <1>1
  <2>2. Position(b)[m + 1] = Turn(b, Position(b)[m])
    BY <2>1, PositionFacts
  <2>3. Position(b)[m] \in 0..Len(b)
    BY <1>3
  <2>4. Turn(b, Position(b)[m]) \in 0..Len(b)
    BY <1>1, <2>3, TurnFacts, SMTT(20)
  <2>5. QED
    BY <2>1, <2>2, <2>4
<1> HIDE DEF S
<1>4. n \in S
  BY <1>1, <1>2, <1>3, UpTo
<1>5. QED
  BY <1>4 DEF S

\* The loop takes c frames and stops.
IsCount(b, c) ==
  /\ c \in 0..Len(b)
  /\ \A n \in 0..(c - 1) : IsWhole(b, Position(b)[n])
  /\ ~IsWhole(b, Position(b)[c])

\* A frame has a unit at least, so after as many turns as there are units nothing
\* is left to take.
LEMMA CountExists ==
  ASSUME NEW B, NEW b \in Stream(B)
  PROVE  \E c : IsCount(b, c)
<1> DEFINE P == Position(b)
           T == {n \in 0..Len(b) : ~IsWhole(b, P[n])}
<1>1. Len(b) \in Nat
  BY DEF Stream
<1>2. CASE T = {}
  <2> DEFINE S == {n \in 0..Len(b) : P[n] >= n}
  <2>1. 0 \in S
    BY <1>1, PositionFacts
  <2>2. ASSUME NEW n \in 0..(Len(b) - 1), n \in S
        PROVE  n + 1 \in S
    <3>1. n + 1 \in 1..Len(b) /\ n + 1 - 1 = n /\ n \in 0..Len(b)
      BY <1>1
    <3>2. P[n + 1] = Turn(b, P[n])
      BY <3>1, PositionFacts
    <3>3. P[n] \in 0..Len(b)
      BY <3>1, PositionRange
    <3>4. IsWhole(b, P[n])
      BY <1>2, <3>1
    <3>5. Turn(b, P[n]) > P[n] /\ Turn(b, P[n]) \in P[n]..Len(b)
      BY <3>3, <3>4, TurnFacts
    <3>6. P[n] >= n
      BY <2>2
    <3>7. P[n + 1] >= n + 1
      BY <3>2, <3>3, <3>5, <3>6
    <3>8. QED
      BY <3>1, <3>7
  <2> HIDE DEF S
  <2>3. \A n \in 0..Len(b) : n \in S
    BY <1>1, <2>1, <2>2, UpTo
  <2>4. Len(b) \in S
    BY <1>1, <2>3
  <2>5. P[Len(b)] >= Len(b) /\ P[Len(b)] \in 0..Len(b)
    BY <1>1, <2>4, PositionRange DEF S
  <2>6. ~IsWhole(b, P[Len(b)])
    BY <1>1, <2>5 DEF IsWhole
  <2>7. QED
    BY <1>1, <1>2, <2>6
<1>3. CASE T # {}
  <2>1. T \in SUBSET Nat
    OBVIOUS
  <2>2. PICK c \in T : \A n \in T : c =< n
    <3> HIDE DEF T
    <3>1. QED
      BY <1>3, <2>1, Least
  <2>3. ASSUME NEW n \in 0..(c - 1)
        PROVE  IsWhole(b, P[n])
    <3>1. n \in 0..Len(b) /\ n < c
      BY <1>1, <2>2
    <3>2. QED
      BY <2>2, <3>1
  <2>4. IsCount(b, c)
    BY <2>2, <2>3 DEF IsCount
  <2>5. QED
    BY <2>4
<1>4. QED
  BY <1>2, <1>3

\* The first c turns take a frame, the others none.
LEMMA CountFacts ==
  ASSUME NEW B, NEW b \in Stream(B), NEW c, IsCount(b, c)
  PROVE  /\ c \in 0..Len(b)
         /\ Consumed(b) = Position(b)[c]
         /\ Consumed(b) \in 0..Len(b)
         /\ ~IsWhole(b, Consumed(b))
         /\ Turns(b) = 1..c
<1> DEFINE P == Position(b)
           S == {n \in 0..(Len(b) - c) : P[c + n] = P[c]}
<1>1. Len(b) \in Nat /\ c \in 0..Len(b) /\ Len(b) - c \in Nat
  BY DEF Stream, IsCount
<1>2. 0 \in S
  BY <1>1
<1>3. ASSUME NEW n \in 0..(Len(b) - c - 1), n \in S
      PROVE  n + 1 \in S
  <2>1. c + n \in 0..(Len(b) - 1) /\ c + (n + 1) = c + n + 1
    BY <1>1
  <2>2. P[c + n + 1] = Turn(b, P[c + n]) /\ P[c + n] = P[c]
    BY <1>3, <2>1, PositionFacts
  <2>3. Turn(b, P[c]) = P[c]
    BY DEF Turn, IsCount
  <2>4. n + 1 \in 0..(Len(b) - c)
    BY <1>1
  <2>5. QED
    BY <2>1, <2>2, <2>3, <2>4
<1> HIDE DEF S
<1>4. \A n \in 0..(Len(b) - c) : n \in S
  BY <1>1, <1>2, <1>3, UpTo
<1>5. ASSUME NEW m \in c..Len(b)
      PROVE  P[m] = P[c]
  <2>1. m - c \in 0..(Len(b) - c) /\ c + (m - c) = m
    BY <1>1
  <2>2. QED
    BY <1>4, <2>1 DEF S
<1>6. Consumed(b) = P[c]
  BY <1>1, <1>5 DEF Consumed
<1>7. P[c] \in 0..Len(b) /\ ~IsWhole(b, P[c])
  BY <1>1, PositionRange DEF IsCount
<1>8. ASSUME NEW n \in 1..c
      PROVE  n \in Turns(b)
  <2>1. /\ n \in 1..Len(b) /\ n - 1 \in 0..Len(b) /\ n - 1 + 1 = n
        /\ n - 1 \in 0..(Len(b) - 1) /\ n - 1 \in 0..(c - 1)
    BY <1>1
  <2>2. P[n - 1] \in 0..Len(b) /\ IsWhole(b, P[n - 1])
    BY <2>1, PositionRange DEF IsCount
  <2>3. P[n - 1 + 1] = Turn(b, P[n - 1])
    BY <2>1, PositionFacts
  <2>4. P[n] # P[n - 1]
    BY <1>1, <2>2, <2>3, TurnFacts
  <2>5. QED
    BY <2>1, <2>4 DEF Turns
<1>9. ASSUME NEW n \in Turns(b)
      PROVE  n \in 1..c
  <2>1. n \in 1..Len(b) /\ P[n] # P[n - 1]
    BY DEF Turns
  <2>2. CASE n > c
    <3>1. n \in c..Len(b) /\ n - 1 \in c..Len(b)
      BY <1>1, <2>1, <2>2
    <3>2. QED
      BY <1>5, <2>1, <3>1
  <2>3. QED
    BY <1>1, <2>1, <2>2
<1>10. Turns(b) = 1..c
  <2>1. Turns(b) \subseteq 1..c
    BY <1>9
  <2>2. 1..c \subseteq Turns(b)
    BY <1>8
  <2>3. QED
    BY <2>1, <2>2
<1>11. QED
  BY <1>1, <1>6, <1>7, <1>10

\* The rest of the buffer is what the loop left.
LEMMA RestFacts ==
  ASSUME NEW B, NEW b \in Stream(B)
  PROVE  /\ Consumed(b) \in 0..Len(b)
         /\ Rest(b) \in Stream(B)
         /\ Len(Rest(b)) = Len(b) - Consumed(b)
         /\ \A i \in 1..(Len(b) - Consumed(b)) : Rest(b)[i] = b[Consumed(b) + i]
<1>1. PICK c : IsCount(b, c)
  BY CountExists
<1>2. Consumed(b) \in 0..Len(b)
  BY <1>1, CountFacts
<1>3. QED
  BY <1>2, BehindFacts DEF Rest, Stream

\* The messages are those of the frames taken, in their order.
LEMMA MessagesFacts ==
  ASSUME NEW B, NEW b \in Stream(B), NEW c, IsCount(b, c)
  PROVE  /\ Messages(b) \in Seq(B)
         /\ Len(Messages(b)) = c
         /\ \A n \in 1..c : /\ Position(b)[n - 1] + 1 \in 1..Len(b)
                           /\ Messages(b)[n] = b[Position(b)[n - 1] + 1].body
<1>1. c \in 0..Len(b) /\ Len(b) \in Nat /\ Turns(b) = 1..c
  BY CountFacts, StreamFacts
<1>2. ASSUME NEW n \in 1..c
      PROVE  Position(b)[n - 1] + 1 \in 1..Len(b)
  <2>1. n - 1 \in 0..(c - 1) /\ IsWhole(b, Position(b)[n - 1])
    BY <1>1 DEF IsCount
  <2>2. Position(b)[n - 1] \in 0..Len(b)
    BY <1>1, PositionRange
  <2>3. QED
    BY <1>1, <2>1, <2>2 DEF IsWhole
<1>3. Messages(b) = [n \in 1..c |-> b[Position(b)[n - 1] + 1].body]
  BY <1>1 DEF Messages
<1>4. \A i \in 1..Len(b) : b[i].body \in B
  BY StreamFacts
<1>5. Messages(b) \in [1..c -> B]
  BY <1>2, <1>3, <1>4
<1>6. QED
  BY <1>1, <1>2, <1>3, <1>5

\* The messages are as well typed as the units, and bodies of units of the stream;
\* so are those of the rest.
LEMMA DecodedBodies ==
  ASSUME NEW B, NEW b \in Stream(B)
  PROVE  /\ Messages(b) \in Seq(B)
         /\ \A n \in 1..Len(Messages(b)) : Messages(b)[n] \in Bodies(b)
         /\ Bodies(Rest(b)) \subseteq Bodies(b)
<1>1. PICK c : IsCount(b, c)
  BY CountExists
<1>2. Messages(b) \in Seq(B)
  BY <1>1, MessagesFacts
<1>3. ASSUME NEW n \in 1..Len(Messages(b))
      PROVE  Messages(b)[n] \in Bodies(b)
  BY <1>1, MessagesFacts DEF Bodies
<1>4. ASSUME NEW i \in 1..Len(Rest(b))
      PROVE  Rest(b)[i].body \in Bodies(b)
  <2>1. /\ Consumed(b) \in 0..Len(b) /\ Len(Rest(b)) = Len(b) - Consumed(b) /\ Len(b) \in Nat
        /\ \A j \in 1..(Len(b) - Consumed(b)) : Rest(b)[j] = b[Consumed(b) + j]
    BY RestFacts, StreamFacts
  <2>2. Consumed(b) + i \in 1..Len(b) /\ Rest(b)[i] = b[Consumed(b) + i]
    BY <2>1
  <2>3. QED
    BY <2>2 DEF Bodies
<1>5. Bodies(Rest(b)) \subseteq Bodies(b)
  BY <1>4 DEF Bodies
<1>6. QED
  BY <1>2, <1>3, <1>5

-------------------------------------------------------------------------------
(* A stream that arrives in two parts.                                     *)

\* What is decoded of the first part is decoded of the whole as well, and the rest
\* of the whole is that of what the first part left with the second part behind it.
LEMMA Decoding ==
  ASSUME NEW B, NEW x \in Stream(B), NEW y \in Stream(B)
  PROVE  /\ Messages(x \o y) = Messages(x) \o Messages(Rest(x) \o y)
         /\ Rest(x \o y) = Rest(Rest(x) \o y)
<1> DEFINE z == x \o y
           w == Rest(x) \o y
           e == Consumed(x)
           P == Position(x)
           Q == Position(w)
           R == Position(z)
<1>1. /\ Len(x) \in Nat /\ Len(y) \in Nat
      /\ z \in Stream(B) /\ Len(z) = Len(x) + Len(y)
      /\ \A i \in 1..Len(x) : z[i] = x[i]
      /\ \A i \in 1..Len(y) : z[Len(x) + i] = y[i]
  BY ConcatFacts DEF Stream
<1>2. /\ e \in 0..Len(x) /\ Rest(x) \in Stream(B) /\ Len(Rest(x)) = Len(x) - e
      /\ \A i \in 1..(Len(x) - e) : Rest(x)[i] = x[e + i]
  BY RestFacts
<1>3. /\ w \in Stream(B) /\ Len(w) = Len(z) - e
      /\ \A i \in 1..(Len(x) - e) : w[i] = Rest(x)[i]
      /\ \A i \in 1..Len(y) : w[Len(x) - e + i] = y[i]
  <2>1. /\ w \in Stream(B) /\ Len(w) = Len(Rest(x)) + Len(y)
        /\ \A i \in 1..Len(Rest(x)) : w[i] = Rest(x)[i]
        /\ \A i \in 1..Len(y) : w[Len(Rest(x)) + i] = y[i]
    <3>1. Rest(x) \in Seq([body : B, size : Nat]) /\ y \in Seq([body : B, size : Nat])
      BY <1>2, StreamFacts
    <3>2. QED
      BY <3>1, ConcatFacts DEF Stream
  <2>2. QED
    BY <1>1, <1>2, <2>1, SMTT(20)
<1> HIDE DEF z, w, e
<1>4. ASSUME NEW i \in 1..Len(w)
      PROVE  w[i] = z[e + i]
  <2>1. CASE i =< Len(x) - e
    <3>1. i \in 1..(Len(x) - e) /\ e + i \in 1..Len(x)
      BY <1>1, <1>2, <2>1
    <3>2. QED
      BY <1>1, <1>2, <1>3, <3>1
  <2>2. CASE i > Len(x) - e
    <3>1. i - (Len(x) - e) \in 1..Len(y)
      BY <1>1, <1>2, <1>3, <2>2
    <3>2. Len(x) - e + (i - (Len(x) - e)) = i /\ Len(x) + (i - (Len(x) - e)) = e + i
      BY <1>1, <1>2, <1>3
    <3>3. w[i] = y[i - (Len(x) - e)]
      BY <1>3, <3>1, <3>2
    <3>4. z[e + i] = y[i - (Len(x) - e)]
      BY <1>1, <3>1, <3>2
    <3>5. QED
      BY <3>3, <3>4
  <2>3. QED
    BY <1>1, <1>2, <1>3, <2>1, <2>2
<1> USE DEF e
<1>5. PICK c : IsCount(x, c)
  BY CountExists
<1>6. PICK d : IsCount(w, d)
  BY <1>3, CountExists
<1>7. /\ c \in 0..Len(x) /\ e = P[c] /\ ~IsWhole(x, e)
      /\ d \in 0..Len(w) /\ Consumed(w) = Q[d] /\ Q[d] \in 0..Len(w) /\ ~IsWhole(w, Q[d])
  BY <1>3, <1>5, <1>6, CountFacts
\* Behind what the first part left, the loop sees the same units.
<1>8. ASSUME NEW p \in 0..Len(w)
      PROVE  /\ IsWhole(z, e + p) <=> IsWhole(w, p)
             /\ Turn(z, e + p) = e + Turn(w, p)
  <2>1. Len(w) \in Nat /\ Len(z) = e + Len(w)
    BY <1>1, <1>2, <1>3
  <2>2. CASE p < Len(w)
    <3>1. p + 1 \in 1..Len(w) /\ e + (p + 1) = e + p + 1
      BY <1>2, <2>1, <2>2
    <3>2. w[p + 1] = z[e + p + 1]
      BY <1>4, <3>1
    <3>3. e + p < Len(z) /\ Len(z) - (e + p) = Len(w) - p
      BY <1>2, <2>1, <2>2
    <3>4. IsWhole(z, e + p) <=> IsWhole(w, p)
      BY <2>2, <3>2, <3>3 DEF IsWhole
    <3>5. w[p + 1].size \in Nat
      BY <1>3, <3>1, StreamFacts
    <3>6. e + p + w[p + 1].size = e + (p + w[p + 1].size)
      BY <1>2, <3>5
    <3>7. QED
      BY <3>2, <3>4, <3>6 DEF Turn
  <2>3. CASE ~(p < Len(w))
    <3>1. ~(e + p < Len(z))
      BY <1>2, <2>1, <2>3
    <3>2. QED
      BY <2>3, <3>1 DEF Turn, IsWhole
  <2>4. QED
    BY <2>2, <2>3
\* A frame that is whole in the first part is whole in the stream.
<1>9. ASSUME NEW p \in 0..Len(x), IsWhole(x, p)
      PROVE  IsWhole(z, p) /\ Turn(z, p) = Turn(x, p)
  <2>1. p < Len(x) /\ x[p + 1].size \in 1..(Len(x) - p)
    BY <1>9 DEF IsWhole
  <2>2. p + 1 \in 1..Len(x)
    BY <1>1, <2>1
  <2>3. z[p + 1] = x[p + 1] /\ p < Len(z) /\ z[p + 1].size \in 1..(Len(z) - p)
    BY <1>1, <2>1, <2>2
  <2>4. IsWhole(z, p)
    BY <2>3 DEF IsWhole
  <2>5. QED
    BY <1>9, <2>3, <2>4 DEF Turn
<1> DEFINE S == {n \in 0..c : R[n] = P[n]}
<1>10. \A n \in 0..c : n \in S
  <2>1. 0 \in S
    BY <1>1, <1>7, PositionFacts
  <2>2. ASSUME NEW n \in 0..(c - 1), n \in S
        PROVE  n + 1 \in S
    <3>1. n + 1 \in 0..c /\ n \in 0..Len(x) /\ n \in 0..(Len(x) - 1) /\ n \in 0..(Len(z) - 1)
      BY <1>1, <1>7
    <3>2. P[n + 1] = Turn(x, P[n]) /\ R[n + 1] = Turn(z, R[n])
      BY <1>1, <3>1, PositionFacts
    <3>3. IsWhole(x, P[n])
      BY <1>5 DEF IsCount
    <3>4. P[n] \in 0..Len(x)
      BY <1>1, <3>1, PositionRange
    <3>5. Turn(z, P[n]) = Turn(x, P[n])
      BY <1>9, <3>3, <3>4
    <3>6. R[n] = P[n]
      BY <2>2
    <3>7. QED
      BY <3>1, <3>2, <3>5, <3>6
  <2>3. c \in Nat
    BY <1>7
  <2> HIDE DEF S
  <2>4. QED
    BY <2>1, <2>2, <2>3, UpTo
<1> DEFINE T == {n \in 0..d : R[c + n] = e + Q[n]}
<1>11. c + d \in 0..Len(z)
  <2>1. c =< e
    <3> DEFINE U == {n \in 0..c : n =< P[n]}
    <3>1. 0 \in U
      BY <1>7, PositionFacts
    <3>2. ASSUME NEW n \in 0..(c - 1), n \in U
          PROVE  n + 1 \in U
      <4>1. n \in 0..(Len(x) - 1) /\ n \in 0..Len(x)
        BY <1>1, <1>7
      <4>2. P[n + 1] = Turn(x, P[n]) /\ P[n] \in 0..Len(x)
        BY <4>1, PositionFacts, PositionRange
      <4>3. IsWhole(x, P[n])
        BY <1>5 DEF IsCount
      <4>4. Turn(x, P[n]) > P[n] /\ Turn(x, P[n]) \in P[n]..Len(x)
        BY <4>2, <4>3, TurnFacts
      <4>5. n =< P[n]
        BY <3>2
      <4>6. n + 1 =< P[n + 1]
        BY <1>1, <4>2, <4>4, <4>5
      <4>7. n + 1 \in 0..c
        BY <1>7
      <4>8. QED
        BY <4>6, <4>7
    <3>3. c \in Nat
      BY <1>7
    <3> HIDE DEF U
    <3>4. c \in U
      BY <3>1, <3>2, <3>3, UpTo
    <3>5. QED
      BY <1>7, <3>4 DEF U
  <2>2. QED
    BY <1>1, <1>2, <1>3, <1>7, <2>1
<1>12. \A n \in 0..d : n \in T
  <2>1. 0 \in T
    <3>1. c \in S /\ Q[0] = 0 /\ c + 0 = c
      BY <1>3, <1>7, <1>10, PositionFacts
    <3>2. QED
      BY <1>2, <1>7, <3>1
  <2>2. ASSUME NEW n \in 0..(d - 1), n \in T
        PROVE  n + 1 \in T
    <3>1. /\ n \in 0..(Len(w) - 1) /\ n \in 0..Len(w) /\ n + 1 \in 0..d
          /\ c + n \in 0..(Len(z) - 1) /\ c + (n + 1) = c + n + 1
      BY <1>1, <1>2, <1>3, <1>7, <1>11
    <3>2. R[c + n + 1] = Turn(z, R[c + n])
      BY <1>1, <3>1, PositionFacts
    <3>3. Q[n + 1] = Turn(w, Q[n]) /\ Q[n] \in 0..Len(w)
      BY <1>3, <3>1, PositionFacts, PositionRange
    <3>4. R[c + n] = e + Q[n]
      BY <2>2
    <3>5. Turn(z, e + Q[n]) = e + Turn(w, Q[n])
      BY <1>8, <3>3
    <3>6. QED
      BY <3>1, <3>2, <3>3, <3>4, <3>5
  <2>3. d \in Nat
    BY <1>7
  <2> HIDE DEF T
  <2>4. QED
    BY <2>1, <2>2, <2>3, UpTo
<1>13. IsCount(z, c + d)
  <2>1. ASSUME NEW n \in 0..(c - 1)
        PROVE  IsWhole(z, R[n])
    <3>1. n \in 0..c /\ n \in 0..Len(x)
      BY <1>1, <1>7
    <3>2. R[n] = P[n] /\ P[n] \in 0..Len(x) /\ IsWhole(x, P[n])
      BY <1>5, <1>10, <3>1, PositionRange DEF IsCount
    <3>3. QED
      BY <1>9, <3>2
  <2>2. ASSUME NEW n \in 0..(d - 1)
        PROVE  IsWhole(z, R[c + n])
    <3>1. n \in 0..d /\ n \in 0..Len(w)
      BY <1>3, <1>7
    <3>2. R[c + n] = e + Q[n] /\ Q[n] \in 0..Len(w) /\ IsWhole(w, Q[n])
      BY <1>3, <1>6, <1>12, <3>1, PositionRange DEF IsCount
    <3>3. QED
      BY <1>8, <3>2
  <2>3. ASSUME NEW n \in 0..((c + d) - 1)
        PROVE  IsWhole(z, R[n])
    <3>1. CASE n < c
      BY <1>7, <2>1, <3>1
    <3>2. CASE n >= c
      <4>1. n - c \in 0..(d - 1) /\ c + (n - c) = n
        BY <1>7, <3>2
      <4>2. QED
        BY <2>2, <4>1
    <3>3. QED
      BY <1>7, <3>1, <3>2
  <2>4. ~IsWhole(z, R[c + d])
    <3>1. d \in T
      BY <1>7, <1>12
    <3>2. QED
      BY <1>7, <1>8, <3>1
  <2>5. QED
    BY <1>11, <2>3, <2>4 DEF IsCount
<1>14. Consumed(z) = e + Consumed(w)
  <2>1. d \in T
    BY <1>7, <1>12
  <2>2. Consumed(z) = R[c + d]
    BY <1>1, <1>13, CountFacts
  <2>3. QED
    BY <1>7, <2>1, <2>2
<1>15. Rest(z) = Rest(w)
  <2>1. /\ Rest(z) \in Stream(B) /\ Len(Rest(z)) = Len(z) - Consumed(z)
        /\ \A i \in 1..(Len(z) - Consumed(z)) : Rest(z)[i] = z[Consumed(z) + i]
    BY <1>1, RestFacts
  <2>2. /\ Consumed(w) \in 0..Len(w)
        /\ Rest(w) \in Stream(B) /\ Len(Rest(w)) = Len(w) - Consumed(w)
        /\ \A i \in 1..(Len(w) - Consumed(w)) : Rest(w)[i] = w[Consumed(w) + i]
    BY <1>3, RestFacts
  <2>3. Len(Rest(z)) = Len(Rest(w)) /\ Len(Rest(w)) = Len(w) - Consumed(w)
    BY <1>1, <1>2, <1>3, <1>14, <2>1, <2>2
  <2>4. ASSUME NEW i \in 1..Len(Rest(z))
        PROVE  Rest(z)[i] = Rest(w)[i]
    <3>1. /\ i \in 1..(Len(z) - Consumed(z)) /\ i \in 1..(Len(w) - Consumed(w))
          /\ Consumed(w) + i \in 1..Len(w) /\ e + (Consumed(w) + i) = Consumed(z) + i
      BY <1>1, <1>2, <1>3, <1>14, <2>1, <2>2, <2>3, SMTT(20)
    <3>2. QED
      BY <1>4, <2>1, <2>2, <3>1
  <2>5. QED
    <3>1. Rest(z) \in Seq([body : B, size : Nat]) /\ Rest(w) \in Seq([body : B, size : Nat])
      BY <2>1, <2>2, StreamFacts
    <3>2. QED
      BY <2>3, <2>4, <3>1, SameSequence
<1>16. Messages(z) = Messages(x) \o Messages(w)
  <2>1. /\ Messages(x) \in Seq(B) /\ Len(Messages(x)) = c
        /\ \A n \in 1..c : P[n - 1] + 1 \in 1..Len(x) /\ Messages(x)[n] = x[P[n - 1] + 1].body
    BY <1>5, MessagesFacts
  <2>2. /\ Messages(w) \in Seq(B) /\ Len(Messages(w)) = d
        /\ \A n \in 1..d : Q[n - 1] + 1 \in 1..Len(w) /\ Messages(w)[n] = w[Q[n - 1] + 1].body
    BY <1>3, <1>6, MessagesFacts
  <2>3. /\ Messages(z) \in Seq(B) /\ Len(Messages(z)) = c + d
        /\ \A n \in 1..(c + d) : Messages(z)[n] = z[R[n - 1] + 1].body
    BY <1>1, <1>13, MessagesFacts
  <2> DEFINE both == Messages(x) \o Messages(w)
  <2>4. /\ both \in Seq(B) /\ Len(both) = c + d
        /\ \A n \in 1..c : both[n] = Messages(x)[n]
        /\ \A n \in 1..d : both[c + n] = Messages(w)[n]
    <3>1. Messages(x) \in Seq(B) /\ Messages(w) \in Seq(B)
      BY <2>1, <2>2
    <3>2. /\ both \in Seq(B) /\ Len(both) = Len(Messages(x)) + Len(Messages(w))
          /\ \A n \in 1..Len(Messages(x)) : both[n] = Messages(x)[n]
          /\ \A n \in 1..Len(Messages(w)) : both[Len(Messages(x)) + n] = Messages(w)[n]
      BY <3>1, ConcatFacts
    <3>3. QED
      BY <2>1, <2>2, <3>2
  <2> HIDE DEF both
  <2>5. ASSUME NEW n \in 1..c
        PROVE  Messages(z)[n] = both[n]
    <3>1. n - 1 \in 0..c /\ n \in 1..(c + d)
      BY <1>7
    <3>2. R[n - 1] = P[n - 1]
      BY <1>10, <3>1
    <3>3. QED
      BY <1>1, <2>1, <2>3, <2>4, <3>1, <3>2
  <2>6. ASSUME NEW n \in 1..d
        PROVE  Messages(z)[c + n] = both[c + n]
    <3>1. n - 1 \in 0..d /\ n - 1 \in 0..Len(w) /\ c + (n - 1) = (c + n) - 1 /\ c + n \in 1..(c + d)
      BY <1>3, <1>7, SMTT(20)
    <3>2. R[(c + n) - 1] = e + Q[n - 1] /\ Q[n - 1] \in 0..Len(w)
      BY <1>3, <1>12, <3>1, PositionRange
    <3>3. e + (Q[n - 1] + 1) = R[(c + n) - 1] + 1
      BY <1>2, <3>2
    <3>4. Q[n - 1] + 1 \in 1..Len(w)
      BY <2>2
    <3>5. w[Q[n - 1] + 1] = z[R[(c + n) - 1] + 1]
      BY <1>4, <3>3, <3>4
    <3>6. Messages(z)[c + n] = z[R[(c + n) - 1] + 1].body
      BY <2>3, <3>1
    <3>7. QED
      BY <2>2, <2>4, <3>5, <3>6
  <2>7. ASSUME NEW n \in 1..(c + d)
        PROVE  Messages(z)[n] = both[n]
    <3>1. CASE n =< c
      BY <1>7, <2>5, <3>1
    <3>2. CASE n > c
      <4>1. n - c \in 1..d /\ c + (n - c) = n
        BY <1>7, <3>2
      <4>2. QED
        BY <2>6, <4>1
    <3>3. QED
      BY <1>7, <3>1, <3>2
  <2>8. Messages(z) = both
    BY <2>3, <2>4, <2>7, SameSequence
  <2>9. QED
    BY <2>8 DEF both
<1>17. QED
  BY <1>15, <1>16 DEF z, w

\* Nothing is decoded of nothing, and nothing more of what the loop has left.
LEMMA NothingMore ==
  ASSUME NEW B, NEW b \in Stream(B)
  PROVE  /\ <<>> \in Stream(B) /\ Rest(<<>>) = <<>> /\ Messages(<<>>) = <<>>
         /\ Rest(Rest(b)) = Rest(b) /\ Messages(Rest(b)) = <<>>
<1>1. <<>> \in Stream(B) /\ b \in Seq([body : B, size : Nat])
  BY StreamFacts DEF Stream
<1>2. Rest(<<>>) \in Stream(B) /\ Len(Rest(<<>>)) = 0
  BY <1>1, RestFacts
<1>3. Rest(<<>>) = <<>>
  <2>1. Rest(<<>>) \in Seq([body : B, size : Nat])
    BY <1>2, StreamFacts
  <2> HIDE DEF Rest
  <2>2. QED
    BY <1>2, <2>1
<1>4. b \o <<>> = b /\ Rest(b) \in Stream(B) /\ Rest(b) \o <<>> = Rest(b)
  <2>1. Rest(b) \in Seq([body : B, size : Nat]) /\ Rest(b) \in Stream(B)
    BY RestFacts, StreamFacts
  <2>2. QED
    BY <1>1, <2>1, ConcatEmptySeq
<1>5. /\ Messages(b \o <<>>) = Messages(b) \o Messages(Rest(b) \o <<>>)
      /\ Rest(b \o <<>>) = Rest(Rest(b) \o <<>>)
  BY <1>1, Decoding
<1>6. ASSUME NEW z \in Stream(B), Len(z) = 0 \/ z = Rest(b)
      PROVE  Messages(z) \in Seq(B) /\ Len(Messages(z)) = 0
  <2>1. PICK c : IsCount(z, c)
    BY CountExists
  <2>2. Messages(z) \in Seq(B) /\ Len(Messages(z)) = c /\ c \in 0..Len(z)
    BY <2>1, MessagesFacts, CountFacts
  <2>3. CASE Len(z) = 0
    BY <2>2, <2>3
  <2>4. CASE z = Rest(b)
    <3>1. Len(Messages(b) \o Messages(z)) = Len(Messages(b)) + Len(Messages(z))
      <4>1. PICK d : IsCount(b, d)
        BY CountExists
      <4>2. Messages(b) \in Seq(B)
        BY <4>1, MessagesFacts
      <4>3. QED
        BY <2>2, <4>2, ConcatFacts
    <3>2. Messages(b) = Messages(b) \o Messages(z) /\ Len(Messages(b)) \in Nat
      <4>1. PICK d : IsCount(b, d)
        BY CountExists
      <4>2. Messages(b) \in Seq(B)
        BY <4>1, MessagesFacts
      <4>3. QED
        BY <1>4, <1>5, <2>4, <4>2, ElementsOf
    <3>3. Len(Messages(z)) \in Nat
      BY <2>2, ElementsOf
    <3>4. QED
      BY <2>2, <3>1, <3>2, <3>3
  <2>5. QED
    BY <1>6, <2>3, <2>4
<1>7. ASSUME NEW q \in Seq(B), Len(q) = 0
      PROVE  q = <<>>
  BY <1>7
<1>8. Messages(<<>>) = <<>>
  <2>1. Len(<<>>) = 0
    OBVIOUS
  <2>2. QED
    BY <1>1, <1>6, <1>7, <2>1
<1>9. Messages(Rest(b)) = <<>>
  BY <1>4, <1>6, <1>7
<1>10. QED
  BY <1>1, <1>3, <1>4, <1>5, <1>8, <1>9

-------------------------------------------------------------------------------
(* Lengths that no frame can have.                                         *)

\* With such a length in front nothing is taken, and the buffer keeps it in front.
LEMMA MalformedFront ==
  ASSUME NEW B, NEW b \in Stream(B), Len(b) > 0, b[1].size = 0
  PROVE  IsMalformed(b) /\ Rest(b) = b /\ Messages(b) = <<>>
<1>1. Len(b) \in Nat /\ b \in Seq([body : B, size : Nat]) /\ Position(b)[0] = 0
  BY StreamFacts, PositionFacts
<1>2. IsCount(b, 0)
  BY <1>1 DEF IsCount, IsWhole
<1>3. Consumed(b) = 0
  BY <1>1, <1>2, CountFacts
<1>4. /\ Rest(b) \in Seq([body : B, size : Nat]) /\ Len(Rest(b)) = Len(b)
      /\ \A i \in 1..Len(b) : Rest(b)[i] = b[i]
  BY <1>1, <1>3, RestFacts, StreamFacts
<1>5. Rest(b) = b
  BY <1>1, <1>4, SameSequence
<1>6. b # <<>> /\ Head(b) = b[1]
  BY <1>1
<1>7. Messages(b) = <<>>
  BY <1>5, NothingMore
<1>8. QED
  BY <1>5, <1>6, <1>7 DEF IsMalformed

\* What the loop throws on is in front of what it left.
LEMMA MalformedFacts ==
  ASSUME NEW B, NEW b \in Stream(B)
  PROVE  IsMalformed(b) <=> Len(Rest(b)) > 0 /\ Rest(b)[1].size = 0
<1>1. Rest(b) \in Seq([body : B, size : Nat])
  BY RestFacts, StreamFacts
<1> DEFINE q == Rest(b)
<1>2. (q # <<>> /\ Head(q).size = 0) <=> (Len(q) > 0 /\ q[1].size = 0)
  <2> HIDE DEF q
  <2>1. QED
    BY <1>1 DEF q
<1>3. QED
  BY <1>2 DEF IsMalformed

\* No further bytes bring the decoder behind a length that no frame can have.
LEMMA MalformedStays ==
  ASSUME NEW B, NEW x \in Stream(B), NEW y \in Stream(B), IsMalformed(x)
  PROVE  /\ IsMalformed(x \o y) /\ IsMalformed(Rest(x) \o y)
         /\ Messages(x \o y) = Messages(x)
<1> DEFINE w == Rest(x) \o y
<1>1. Rest(x) \in Seq([body : B, size : Nat]) /\ y \in Seq([body : B, size : Nat])
  BY RestFacts, StreamFacts
<1>2. Len(Rest(x)) > 0 /\ Rest(x)[1].size = 0
  BY MalformedFacts
<1>3. /\ w \in Seq([body : B, size : Nat]) /\ Len(w) = Len(Rest(x)) + Len(y)
      /\ Len(Rest(x)) \in Nat /\ Len(y) \in Nat
      /\ \A i \in 1..Len(Rest(x)) : w[i] = Rest(x)[i]
  BY <1>1, ConcatFacts
<1>4. w \in Stream(B) /\ Len(w) > 0 /\ w[1].size = 0
  BY <1>2, <1>3 DEF Stream
<1> HIDE DEF w
<1>5. IsMalformed(w) /\ Messages(w) = <<>>
  BY <1>4, MalformedFront
<1>6. Messages(x \o y) = Messages(x) \o Messages(w) /\ Rest(x \o y) = Rest(w)
  BY Decoding DEF w
<1>7. IsMalformed(x \o y)
  BY <1>5, <1>6 DEF IsMalformed
<1>8. Messages(x) \o <<>> = Messages(x)
  BY DecodedBodies, ConcatEmptySeq
<1>9. QED
  BY <1>5, <1>6, <1>7, <1>8 DEF w

-------------------------------------------------------------------------------
(* What one frame is on the wire.                                          *)

\* A frame is decoded to its message and leaves nothing; a length that no frame can
\* have is what it is.
LEMMA EncodeFacts ==
  ASSUME NEW B, NEW body \in B, NEW size \in Nat
  PROVE  /\ Encode(body, size) \in Stream(B)
         /\ Len(Encode(body, size)) > 0
         /\ Bodies(Encode(body, size)) = {body}
         /\ size = 0 => IsMalformed(Encode(body, size))
         /\ size # 0 => Rest(Encode(body, size)) = <<>> /\ Messages(Encode(body, size)) = <<body>>
<1> DEFINE units == Encode(body, size)
<1>1. CASE size = 0
  <2> DEFINE unit == [body |-> body, size |-> 0]
  <2>1. units = <<unit>>
    BY <1>1 DEF Encode
  <2>2. unit \in [body : B, size : Nat] /\ unit.body = body /\ unit.size = 0
    OBVIOUS
  <2> HIDE DEF unit, units
  <2>3. units \in Seq([body : B, size : Nat]) /\ Len(units) = 1 /\ units[1] = unit
    BY <2>1, <2>2
  <2>4. units \in Stream(B) /\ Bodies(units) = {body}
    BY <2>2, <2>3 DEF Stream, Bodies
  <2>5. IsMalformed(units)
    BY <2>2, <2>3, <2>4, MalformedFront
  <2>6. QED
    BY <1>1, <2>3, <2>4, <2>5 DEF units
<1>2. CASE size # 0
  <2>1. units = [i \in 1..size |-> [body |-> body, size |-> IF i = 1 THEN size ELSE 0]]
    BY <1>2 DEF Encode
  <2>2. \A i \in 1..size : [body |-> body, size |-> IF i = 1 THEN size ELSE 0] \in [body : B, size : Nat]
    OBVIOUS
  <2>3. units \in [1..size -> [body : B, size : Nat]] /\ units[1].size = size
        /\ \A i \in 1..size : units[i].body = body
    BY <1>2, <2>1, <2>2, SMTT(30)
  <2> HIDE DEF units
  <2>4. units \in Seq([body : B, size : Nat]) /\ Len(units) = size
    BY <2>3, FunctionIsSequence
  <2>5. units \in Stream(B)
    BY <2>4 DEF Stream
  <2>6. Position(units)[0] = 0 /\ Position(units)[0 + 1] = Turn(units, Position(units)[0])
    BY <1>2, <2>4, <2>5, PositionFacts
  <2>7. IsWhole(units, 0)
    BY <1>2, <2>3, <2>4 DEF IsWhole
  <2>8. Position(units)[1] = size
    BY <2>3, <2>6, <2>7 DEF Turn
  <2>9. IsCount(units, 1)
    <3>1. \A n \in 0..(1 - 1) : IsWhole(units, Position(units)[n])
      BY <2>6, <2>7
    <3>2. ~IsWhole(units, Position(units)[1]) /\ 1 \in 0..Len(units)
      BY <1>2, <2>4, <2>8 DEF IsWhole
    <3>3. QED
      BY <3>1, <3>2 DEF IsCount
  <2>10. Consumed(units) = size
    BY <2>5, <2>8, <2>9, CountFacts
  <2>11. Rest(units) \in Seq([body : B, size : Nat]) /\ Len(Rest(units)) = 0
    BY <2>4, <2>5, <2>10, RestFacts, StreamFacts
  <2>12. Rest(units) = <<>>
    BY <2>11
  <2>13. Messages(units) \in Seq(B) /\ Len(Messages(units)) = 1
    BY <2>5, <2>9, MessagesFacts
  <2>14. Messages(units)[1] = body
    <3>1. Position(units)[1 - 1] + 1 \in 1..Len(units)
          /\ Messages(units)[1] = units[Position(units)[1 - 1] + 1].body
      BY <2>5, <2>9, MessagesFacts
    <3>2. QED
      BY <2>3, <2>4, <3>1
  <2>15. Messages(units) = <<body>>
    BY <2>13, <2>14
  <2>16. Bodies(units) = {body}
    BY <1>2, <2>3, <2>4 DEF Bodies
  <2>17. QED
    BY <1>2, <2>4, <2>5, <2>12, <2>15, <2>16 DEF units
<1>3. QED
  BY <1>1, <1>2

-------------------------------------------------------------------------------
(* A sequence of sequences, one behind the other.                          *)

\* What the first n sequences of q flatten to, for every n.
IsFlattening(f, q) ==
  /\ f[0] = <<>>
  /\ \A n \in 0..(Len(q) - 1) : f[n + 1] = f[n] \o q[n + 1]

Joined(f, q, i) == IF i = 1 THEN q[i] ELSE f[i - 1] \o q[i]

Flattens(f, q, n) == f = [i \in 1..n |-> Joined(f, q, i)]

LEMMA FlattensExists ==
  ASSUME NEW q, NEW n \in Nat
  PROVE  \E f : Flattens(f, q, n)
<1> DEFINE S == {m \in Nat : \E f : Flattens(f, q, m)}
<1>1. 0 \in S
  <2> DEFINE f == [i \in 1..0 |-> q[i]]
  <2>1. Flattens(f, q, 0)
    BY DEF Flattens
  <2>2. QED
    BY <2>1
<1>2. ASSUME NEW m \in 0..(n - 1), m \in S
      PROVE  m + 1 \in S
  <2>1. PICK f : Flattens(f, q, m)
    BY <1>2
  <2> DEFINE g == [i \in 1..(m + 1) |-> Joined(f, q, i)]
  <2>2. ASSUME NEW i \in 1..m
        PROVE  g[i] = f[i]
    BY <2>1 DEF Flattens
  <2> HIDE DEF g
  <2>3. ASSUME NEW i \in 1..(m + 1)
        PROVE  Joined(f, q, i) = Joined(g, q, i)
    <3>1. CASE i = 1
      BY <3>1 DEF Joined
    <3>2. CASE i # 1
      <4>1. i - 1 \in 1..m
        BY <3>2
      <4>2. g[i - 1] = f[i - 1]
        BY <2>2, <4>1
      <4>3. QED
        BY <3>2, <4>2 DEF Joined
    <3>3. QED
      BY <3>1, <3>2
  <2>4. g = [i \in 1..(m + 1) |-> Joined(g, q, i)]
    BY <2>3 DEF g
  <2>5. Flattens(g, q, m + 1) /\ m + 1 \in Nat
    BY <2>4 DEF Flattens
  <2>6. QED
    BY <2>5
<1>3. n \in 0..n
  OBVIOUS
<1> HIDE DEF S
<1>4. n \in S
  BY <1>1, <1>2, <1>3, UpTo
<1>5. QED
  BY <1>4 DEF S

\* FlattenSeq is what its recursion says.
LEMMA FlatteningExists ==
  ASSUME NEW S, NEW q \in Seq(Seq(S))
  PROVE  \E f : IsFlattening(f, q) /\ FlattenSeq(q) = f[Len(q)]
<1>1. Len(q) \in Nat /\ \A i \in 1..Len(q) : q[i] \in Seq(S)
  BY ElementsOf
<1>2. PICK any : Flattens(any, q, Len(q))
  BY <1>1, FlattensExists
<1> DEFINE f == CHOOSE g : Flattens(g, q, Len(q))
           h == [n \in 0..Len(q) |-> IF n = 0 THEN <<>> ELSE f[n]]
<1>3. Flattens(f, q, Len(q))
  BY <1>2
<1>4. FlattenSeq(q) = IF Len(q) = 0 THEN q ELSE f[Len(q)]
  BY DEF FlattenSeq, Flattens, Joined
<1> HIDE DEF f
<1>5. FlattenSeq(q) = h[Len(q)]
  <2>1. Len(q) = 0 => q = <<>>
    BY <1>1
  <2>2. Len(q) \in 0..Len(q)
    BY <1>1
  <2>3. QED
    BY <1>4, <2>1, <2>2
<1>6. h[0] = <<>>
  BY <1>1
<1>7. ASSUME NEW n \in 0..(Len(q) - 1)
      PROVE  h[n + 1] = h[n] \o q[n + 1]
  <2>1. n + 1 \in 1..Len(q) /\ n + 1 \in 0..Len(q) /\ n \in 0..Len(q) /\ n + 1 - 1 = n /\ n + 1 # 0
    BY <1>1
  <2>2. f[n + 1] = IF n + 1 = 1 THEN q[n + 1] ELSE f[n] \o q[n + 1]
    <3>1. f[n + 1] = Joined(f, q, n + 1)
      BY <1>3, <2>1 DEF Flattens
    <3>2. QED
      BY <2>1, <3>1 DEF Joined
  <2>3. h[n + 1] = f[n + 1]
    BY <2>1
  <2>4. CASE n = 0
    <3>1. h[n] = <<>> /\ f[n + 1] = q[n + 1] /\ q[n + 1] \in Seq(S)
      BY <1>1, <1>6, <2>1, <2>2, <2>4
    <3>2. <<>> \o q[n + 1] = q[n + 1]
      BY <3>1, ConcatEmptySeq
    <3>3. QED
      BY <2>3, <3>1, <3>2
  <2>5. CASE n # 0
    <3>1. h[n] = f[n] /\ n + 1 # 1
      BY <2>1, <2>5
    <3>2. QED
      BY <2>2, <2>3, <3>1
  <2>6. QED
    BY <2>4, <2>5
<1> HIDE DEF h
<1>8. QED
  BY <1>5, <1>6, <1>7 DEF IsFlattening

LEMMA FlatteningRange ==
  ASSUME NEW S, NEW q \in Seq(Seq(S)), NEW f, IsFlattening(f, q)
  PROVE  \A n \in 0..Len(q) : f[n] \in Seq(S)
<1> DEFINE T == {n \in 0..Len(q) : f[n] \in Seq(S)}
<1>1. Len(q) \in Nat /\ \A i \in 1..Len(q) : q[i] \in Seq(S)
  BY ElementsOf
<1>2. 0 \in T
  <2>1. f[0] = <<>> /\ <<>> \in Seq(S)
    BY DEF IsFlattening
  <2>2. f[0] \in Seq(S)
    BY <2>1, Zenon
  <2>3. 0 \in 0..Len(q)
    BY <1>1
  <2>4. QED
    BY <2>2, <2>3, Zenon
<1>3. ASSUME NEW n \in 0..(Len(q) - 1), n \in T
      PROVE  n + 1 \in T
  <2>1. n + 1 \in 1..Len(q) /\ n + 1 \in 0..Len(q)
    BY <1>1
  <2>2. f[n + 1] = f[n] \o q[n + 1] /\ f[n] \in Seq(S) /\ q[n + 1] \in Seq(S)
    BY <1>1, <1>3, <2>1 DEF IsFlattening
  <2>3. QED
    BY <2>1, <2>2, ConcatProperties
<1> HIDE DEF T
<1>4. \A n \in 0..Len(q) : n \in T
  BY <1>1, <1>2, <1>3, UpTo
<1>5. QED
  BY <1>4 DEF T

\* Nothing flattens to nothing, and a further sequence goes behind the others.
LEMMA FlattenFacts ==
  ASSUME NEW S, NEW q \in Seq(Seq(S))
  PROVE  /\ FlattenSeq(q) \in Seq(S)
         /\ FlattenSeq(<<>>) = <<>>
         /\ \A p \in Seq(S) : FlattenSeq(<<p>>) = p
<1>1. PICK f : IsFlattening(f, q) /\ FlattenSeq(q) = f[Len(q)]
  BY FlatteningExists
<1>2. FlattenSeq(q) \in Seq(S)
  <2>1. Len(q) \in 0..Len(q)
    BY ElementsOf
  <2>2. QED
    BY <1>1, <2>1, FlatteningRange
<1>3. FlattenSeq(<<>>) = <<>>
  BY DEF FlattenSeq
<1>4. ASSUME NEW p \in Seq(S)
      PROVE  FlattenSeq(<<p>>) = p
  <2>1. <<p>> \in Seq(Seq(S)) /\ Len(<<p>>) = 1 /\ <<p>>[1] = p
    OBVIOUS
  <2>2. PICK g : IsFlattening(g, <<p>>) /\ FlattenSeq(<<p>>) = g[1]
    BY <2>1, FlatteningExists
  <2>3. g[1] = <<>> \o p
    <3> DEFINE one == <<p>>
    <3>1. one[1] = p /\ 0 \in 0..(Len(one) - 1) /\ IsFlattening(g, one)
      BY <2>1, <2>2
    <3> HIDE DEF one
    <3>2. g[0 + 1] = g[0] \o one[0 + 1] /\ g[0] = <<>>
      BY <3>1 DEF IsFlattening
    <3>3. QED
      BY <3>1, <3>2
  <2>4. QED
    BY <2>2, <2>3, ConcatEmptySeq
<1>5. QED
  BY <1>2, <1>3, <1>4

\* Two runs of sequences flatten one after the other.
LEMMA FlattenConcat ==
  ASSUME NEW S, NEW x \in Seq(Seq(S)), NEW y \in Seq(Seq(S))
  PROVE  FlattenSeq(x \o y) = FlattenSeq(x) \o FlattenSeq(y)
<1> DEFINE z == x \o y
<1>1. /\ z \in Seq(Seq(S)) /\ Len(z) = Len(x) + Len(y) /\ Len(x) \in Nat /\ Len(y) \in Nat
      /\ \A i \in 1..Len(x) : z[i] = x[i]
      /\ \A i \in 1..Len(y) : z[Len(x) + i] = y[i]
  BY ConcatFacts
<1> HIDE DEF z
<1>2. PICK f : IsFlattening(f, x) /\ FlattenSeq(x) = f[Len(x)]
  BY FlatteningExists
<1>3. PICK g : IsFlattening(g, y) /\ FlattenSeq(y) = g[Len(y)]
  BY FlatteningExists
<1>4. PICK h : IsFlattening(h, z) /\ FlattenSeq(z) = h[Len(z)]
  BY <1>1, FlatteningExists
<1> DEFINE T == {n \in 0..Len(x) : h[n] = f[n]}
           U == {n \in 0..Len(y) : h[Len(x) + n] = f[Len(x)] \o g[n]}
<1>5. Len(x) \in T
  <2>1. 0 \in T
    BY <1>1, <1>2, <1>4 DEF IsFlattening
  <2>2. ASSUME NEW n \in 0..(Len(x) - 1), n \in T
        PROVE  n + 1 \in T
    <3>1. n + 1 \in 1..Len(x) /\ n + 1 \in 0..Len(x) /\ n \in 0..(Len(z) - 1)
      BY <1>1, SMTT(20)
    <3>2. h[n + 1] = h[n] \o z[n + 1] /\ f[n + 1] = f[n] \o x[n + 1]
      BY <1>2, <1>4, <3>1 DEF IsFlattening
    <3>3. h[n] = f[n] /\ z[n + 1] = x[n + 1]
      BY <1>1, <2>2, <3>1
    <3>4. QED
      BY <3>1, <3>2, <3>3
  <2> HIDE DEF T
  <2>3. \A n \in 0..Len(x) : n \in T
    BY <1>1, <2>1, <2>2, UpTo
  <2>4. Len(x) \in 0..Len(x)
    BY <1>1
  <2>5. QED
    BY <2>3, <2>4, Zenon
<1>6. f[Len(x)] \in Seq(S) /\ \A n \in 0..Len(y) : g[n] \in Seq(S)
  <2>1. Len(x) \in 0..Len(x)
    BY <1>1
  <2>2. QED
    BY <1>2, <1>3, <2>1, FlatteningRange
<1>7. Len(y) \in U
  <2>1. 0 \in U
    <3>1. g[0] = <<>> /\ h[Len(x)] = f[Len(x)] /\ Len(x) + 0 = Len(x)
      BY <1>1, <1>3, <1>5 DEF IsFlattening
    <3>2. f[Len(x)] \o <<>> = f[Len(x)]
      BY <1>6, ConcatEmptySeq
    <3>3. h[Len(x) + 0] = f[Len(x)] \o g[0] /\ 0 \in 0..Len(y)
      BY <1>1, <3>1, <3>2
    <3>4. QED
      BY <3>3
  <2>2. ASSUME NEW n \in 0..(Len(y) - 1), n \in U
        PROVE  n + 1 \in U
    <3>1. /\ n + 1 \in 1..Len(y) /\ n + 1 \in 0..Len(y) /\ n \in 0..Len(y)
          /\ Len(x) + n \in 0..(Len(z) - 1) /\ Len(x) + (n + 1) = Len(x) + n + 1
      BY <1>1, SMTT(20)
    <3>2. h[Len(x) + n + 1] = h[Len(x) + n] \o z[Len(x) + n + 1] /\ g[n + 1] = g[n] \o y[n + 1]
      BY <1>3, <1>4, <3>1 DEF IsFlattening
    <3>3. h[Len(x) + n] = f[Len(x)] \o g[n] /\ z[Len(x) + n + 1] = y[n + 1]
      <4>1. h[Len(x) + n] = f[Len(x)] \o g[n]
        BY <2>2, Zenon
      <4>2. z[Len(x) + (n + 1)] = y[n + 1]
        BY <1>1, <3>1
      <4>3. QED
        BY <3>1, <4>1, <4>2
    <3>4. y[n + 1] \in Seq(S) /\ g[n] \in Seq(S)
      BY <1>6, <3>1, ElementsOf
    <3>5. (f[Len(x)] \o g[n]) \o y[n + 1] = f[Len(x)] \o (g[n] \o y[n + 1])
      <4> DEFINE a == f[Len(x)]
                 b == g[n]
                 c == y[n + 1]
      <4>1. a \in Seq(S) /\ b \in Seq(S) /\ c \in Seq(S)
        BY <1>6, <3>4
      <4> HIDE DEF a, b, c
      <4>2. (a \o b) \o c = a \o (b \o c)
        BY <4>1, SMTT(60)
      <4>3. QED
        BY <4>2 DEF a, b, c
    <3>6. QED
      BY <3>1, <3>2, <3>3, <3>5
  <2> HIDE DEF U
  <2>3. \A n \in 0..Len(y) : n \in U
    BY <1>1, <2>1, <2>2, UpTo
  <2>4. QED
    BY <1>1, <2>3
<1>8. FlattenSeq(z) = f[Len(x)] \o g[Len(y)]
  BY <1>1, <1>4, <1>7
<1>9. QED
  BY <1>2, <1>3, <1>8 DEF z

\* An element of the whole is one of a part, and the other way around.
LEMMA FlattenElements ==
  ASSUME NEW S, NEW q \in Seq(Seq(S))
  PROVE  \A e : (\E i \in 1..Len(FlattenSeq(q)) : FlattenSeq(q)[i] = e)
                  <=> (\E j \in 1..Len(q) : \E i \in 1..Len(q[j]) : q[j][i] = e)
<1> DEFINE Holds(p, e) == \E i \in 1..Len(p) : p[i] = e
           Until(n, e) == \E j \in 1..n : Holds(q[j], e)
<1>1. Len(q) \in Nat /\ \A i \in 1..Len(q) : q[i] \in Seq(S)
  BY ElementsOf
<1>2. PICK f : IsFlattening(f, q) /\ FlattenSeq(q) = f[Len(q)]
  BY FlatteningExists
<1>3. \A n \in 0..Len(q) : f[n] \in Seq(S)
  BY <1>2, FlatteningRange
<1>4. ASSUME NEW p \in Seq(S), NEW r \in Seq(S), NEW e
      PROVE  Holds(p \o r, e) <=> Holds(p, e) \/ Holds(r, e)
  <2>1. /\ Len(p \o r) = Len(p) + Len(r) /\ Len(p) \in Nat /\ Len(r) \in Nat
        /\ \A i \in 1..Len(p) : (p \o r)[i] = p[i]
        /\ \A i \in 1..Len(r) : (p \o r)[Len(p) + i] = r[i]
    BY ConcatFacts
  <2> DEFINE w == p \o r
  <2> HIDE DEF w
  <2>2. ASSUME NEW i \in 1..Len(w), w[i] = e
        PROVE  Holds(p, e) \/ Holds(r, e)
    <3>1. CASE i =< Len(p)
      BY <2>1, <2>2, <3>1 DEF w
    <3>2. CASE i > Len(p)
      <4>1. i - Len(p) \in 1..Len(r) /\ Len(p) + (i - Len(p)) = i
        BY <2>1, <3>2 DEF w
      <4>2. QED
        BY <2>1, <2>2, <4>1 DEF w
    <3>3. QED
      BY <2>1, <3>1, <3>2
  <2>3. ASSUME NEW i \in 1..Len(p), p[i] = e
        PROVE  Holds(w, e)
    BY <2>1, <2>3 DEF w
  <2>4. ASSUME NEW i \in 1..Len(r), r[i] = e
        PROVE  Holds(w, e)
    <3>1. Len(p) + i \in 1..Len(w) /\ w[Len(p) + i] = e
      BY <2>1, <2>4 DEF w
    <3>2. QED
      BY <3>1
  <2>5. QED
    BY <2>2, <2>3, <2>4 DEF w
<1> DEFINE T == {n \in 0..Len(q) : \A e : Holds(f[n], e) <=> Until(n, e)}
<1>5. 0 \in T
  <2>1. f[0] = <<>> /\ Len(<<>>) = 0
    BY <1>2 DEF IsFlattening
  <2>2. QED
    BY <1>1, <2>1
<1>6. ASSUME NEW n \in 0..(Len(q) - 1), n \in T
      PROVE  n + 1 \in T
  <2>1. n + 1 \in 1..Len(q) /\ n + 1 \in 0..Len(q) /\ n \in 0..Len(q)
    BY <1>1
  <2>2. f[n + 1] = f[n] \o q[n + 1] /\ f[n] \in Seq(S) /\ q[n + 1] \in Seq(S)
    BY <1>1, <1>2, <1>3, <2>1 DEF IsFlattening
  <2> HIDE DEF Holds
  <2>3. ASSUME NEW e
        PROVE  Holds(f[n + 1], e) <=> Until(n + 1, e)
    <3>1. Holds(f[n + 1], e) <=> Holds(f[n], e) \/ Holds(q[n + 1], e)
      BY <1>4, <2>2
    <3>2. Holds(f[n], e) <=> Until(n, e)
      BY <1>6
    <3>3. 1..(n + 1) = 1..n \cup {n + 1}
      BY <2>1
    <3>4. Until(n + 1, e) <=> Until(n, e) \/ Holds(q[n + 1], e)
      BY <3>3
    <3>5. QED
      BY <3>1, <3>2, <3>4
  <2>4. QED
    BY <2>1, <2>3
<1> HIDE DEF T
<1>7. \A n \in 0..Len(q) : n \in T
  BY <1>1, <1>5, <1>6, UpTo
<1>8. Len(q) \in T
  BY <1>1, <1>7
<1>9. QED
  BY <1>2, <1>8 DEF T

LEMMA FlattenOne ==
  ASSUME NEW S, NEW p \in Seq(S)
  PROVE  FlattenSeq(<<p>>) = p
<1> DEFINE none == <<>>
<1>1. none \in Seq(Seq(S))
  OBVIOUS
<1> HIDE DEF none
<1>2. \A r \in Seq(S) : FlattenSeq(<<r>>) = r
  BY <1>1, FlattenFacts
<1>3. QED
  BY <1>2

-------------------------------------------------------------------------------
(* Whole frames behind each other.                                         *)

LEMMA OneMore ==
  ASSUME NEW S, NEW p \in Seq(S), NEW e \in S
  PROVE  /\ Len(p \o <<e>>) = Len(p) + 1 /\ (p \o <<e>>)[Len(p) + 1] = e
         /\ \A i \in 1..Len(p) : (p \o <<e>>)[i] = p[i]
OBVIOUS

\* Frames behind each other are decoded one by one.
LEMMA FramesDecoded ==
  ASSUME NEW B, NEW q \in Seq(Stream(B)), NEW m \in Seq(B), Len(m) = Len(q),
         \A i \in 1..Len(q) : Rest(q[i]) = <<>> /\ Messages(q[i]) = <<m[i]>>
  PROVE  /\ FlattenSeq(q) \in Stream(B)
         /\ Messages(FlattenSeq(q)) = m /\ Rest(FlattenSeq(q)) = <<>>
<1> DEFINE U == [body : B, size : Nat]
<1>1. q \in Seq(Seq(U))
  BY DEF Stream
<1>2. Len(q) \in Nat /\ \A i \in 1..Len(q) : q[i] \in Stream(B)
  BY ElementsOf
<1> HIDE DEF U
<1>3. PICK f : IsFlattening(f, q) /\ FlattenSeq(q) = f[Len(q)]
  BY <1>1, FlatteningExists
<1>4. \A n \in 0..Len(q) : f[n] \in Stream(B)
  BY <1>1, <1>3, FlatteningRange DEF U, Stream
<1> DEFINE Agrees(p, n) == Len(p) = n /\ \A i \in 1..n : p[i] = m[i]
           T == {n \in 0..Len(q) : Rest(f[n]) = <<>> /\ Agrees(Messages(f[n]), n)}
<1>5. 0 \in T
  <2>1. f[0] = <<>>
    BY <1>3 DEF IsFlattening
  <2>2. Rest(<<>>) = <<>> /\ Messages(<<>>) = <<>>
    BY <1>2, <1>4, NothingMore
  <2>3. 0 \in 0..Len(q) /\ Len(<<>>) = 0
    BY <1>2
  <2>4. Agrees(<<>>, 0)
    BY <2>3
  <2>5. QED
    BY <2>1, <2>2, <2>3, <2>4
<1>6. ASSUME NEW n \in 0..(Len(q) - 1), n \in T
      PROVE  n + 1 \in T
  <2>1. n + 1 \in 1..Len(q) /\ n + 1 \in 0..Len(q) /\ n \in 0..Len(q)
    BY <1>2
  <2> DEFINE e == q[n + 1]
             old == Messages(f[n])
             new == Messages(f[n + 1])
  <2>2. /\ f[n + 1] = f[n] \o e /\ f[n] \in Stream(B) /\ e \in Stream(B)
        /\ Rest(e) = <<>> /\ Messages(e) = <<m[n + 1]>> /\ m[n + 1] \in B
        /\ Rest(f[n]) = <<>> /\ Agrees(old, n)
    <3>1. m[n + 1] \in B
      BY <2>1, ElementsOf
    <3>2. QED
      BY <1>2, <1>3, <1>4, <1>6, <2>1, <3>1 DEF IsFlattening
  <2> HIDE DEF e
  <2>3. /\ new = old \o Messages(Rest(f[n]) \o e)
        /\ Rest(f[n + 1]) = Rest(Rest(f[n]) \o e)
    BY <2>2, Decoding, ZenonT(30)
  <2>4. Rest(f[n]) \o e = e
    BY <2>2, ConcatEmptySeq DEF Stream
  <2>5. new = old \o <<m[n + 1]>> /\ Rest(f[n + 1]) = <<>>
    BY <2>2, <2>3, <2>4
  <2>6. old \in Seq(B)
    BY <2>2, DecodedBodies
  <2> HIDE DEF old, new
  <2>7. Agrees(new, n + 1)
    <3> DEFINE e1 == m[n + 1]
    <3>1. new = old \o <<e1>> /\ e1 \in B /\ Len(old) = n /\ n \in Nat
      BY <1>2, <2>2, <2>5
    <3> HIDE DEF e1
    <3>2. /\ Len(new) = Len(old) + 1 /\ new[Len(old) + 1] = e1
          /\ \A i \in 1..Len(old) : new[i] = old[i]
      BY <2>6, <3>1, OneMore
    <3>3. Len(new) = n + 1 /\ new[n + 1] = m[n + 1] /\ \A i \in 1..n : new[i] = m[i]
      BY <2>2, <3>1, <3>2 DEF e1
    <3>4. \A i \in 1..(n + 1) : i \in 1..n \/ i = n + 1
      BY <3>1
    <3>5. QED
      BY <3>3, <3>4
  <2>8. QED
    BY <2>1, <2>5, <2>7 DEF new
<1> HIDE DEF T
<1>7. \A n \in 0..Len(q) : n \in T
  BY <1>2, <1>5, <1>6, UpTo
<1>8. Len(q) \in T /\ Len(q) \in 0..Len(q)
  BY <1>2, <1>7
<1>9. /\ Agrees(Messages(f[Len(q)]), Len(q)) /\ f[Len(q)] \in Stream(B)
      /\ Rest(f[Len(q)]) = <<>>
  BY <1>4, <1>8 DEF T
<1>10. Messages(f[Len(q)]) \in Seq(B)
  BY <1>9, DecodedBodies
<1>11. Messages(f[Len(q)]) = m
  BY <1>9, <1>10, SameSequence
<1>12. QED
  BY <1>3, <1>9, <1>11

\* Behind whole frames a decoder starts afresh.
LEMMA WholeFramesBefore ==
  ASSUME NEW B, NEW x \in Stream(B), NEW y \in Stream(B), Rest(x) = <<>>
  PROVE  /\ x \o y \in Stream(B)
         /\ Messages(x \o y) = Messages(x) \o Messages(y)
         /\ Rest(x \o y) = Rest(y)
<1>1. <<>> \o y = y
  BY ConcatEmptySeq DEF Stream
<1>2. /\ Messages(x \o y) = Messages(x) \o Messages(Rest(x) \o y)
      /\ Rest(x \o y) = Rest(Rest(x) \o y)
  BY Decoding
<1>3. x \o y \in Stream(B)
  BY StreamConcat
<1>4. QED
  BY <1>1, <1>2, <1>3
\* Units that are frames themselves are decoded one by one.
LEMMA UnitsDecoded ==
  ASSUME NEW B, NEW b \in Stream(B), \A i \in 1..Len(b) : b[i].size = 1
  PROVE  /\ Rest(b) = <<>> /\ Messages(b) \in Seq(B) /\ Len(Messages(b)) = Len(b)
         /\ ~IsMalformed(b)
<1> DEFINE S == {n \in 0..Len(b) : Position(b)[n] = n}
<1>1. Len(b) \in Nat /\ Position(b)[0] = 0
  BY StreamFacts, PositionFacts
<1>2. \A p \in 0..(Len(b) - 1) : IsWhole(b, p) /\ Turn(b, p) = p + 1
  BY <1>1 DEF IsWhole, Turn
<1>3. 0 \in S
  BY <1>1
<1>4. ASSUME NEW n \in 0..(Len(b) - 1), n \in S
      PROVE  n + 1 \in S
  BY <1>1, <1>2, <1>4, PositionFacts
<1> HIDE DEF S
<1>5. \A n \in 0..Len(b) : n \in S
  BY <1>1, <1>3, <1>4, UpTo
<1>6. \A n \in 0..Len(b) : Position(b)[n] = n
  BY <1>5 DEF S
<1>7. IsCount(b, Len(b))
  BY <1>1, <1>2, <1>6 DEF IsCount, IsWhole
<1>8. Consumed(b) = Len(b)
  BY <1>1, <1>6 DEF Consumed
<1>9. Rest(b) \in Seq([body : B, size : Nat]) /\ Len(Rest(b)) = 0
  BY <1>1, <1>8, RestFacts, StreamFacts
<1>10. Rest(b) = <<>>
  <2> HIDE DEF Rest
  <2>1. QED
    BY <1>9
<1>11. Messages(b) \in Seq(B) /\ Len(Messages(b)) = Len(b)
  BY <1>7, MessagesFacts
<1>12. QED
  BY <1>10, <1>11 DEF IsMalformed
===============================================================================
