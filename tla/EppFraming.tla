------------------------------ MODULE EppFraming ------------------------------
(***************************************************************************)
(* RFC 5734 framing over a byte stream, as both ends of an EPP connection  *)
(* decode it.  A stream is a sequence of units, the places where TCP may   *)
(* cut it: a frame is a head unit, which carries the length field, and the *)
(* rest of its payload.  A length too small to hold a payload is a size    *)
(* of 0; an incomplete length field is a head that has not arrived.        *)
(***************************************************************************)
EXTENDS Naturals, Sequences

Encode(body, size) ==
  IF size = 0 THEN <<[body |-> body, size |-> 0]>>
  ELSE [i \in 1..size |-> [body |-> body, size |-> IF i = 1 THEN size ELSE 0]]

\* A whole frame stands behind the first p units.
IsWhole(b, p) == p < Len(b) /\ b[p + 1].size \in 1..(Len(b) - p)

\* Mutant: at most one frame is taken from a chunk (an if for the while).
PositionOfOne(b) ==
  [n \in 0..Len(b) |-> IF n > 0 /\ IsWhole(b, 0) THEN b[1].size ELSE 0]

\* Where the loop stands after n turns: each takes the frame in front of it.
Position(b) ==
  LET position[n \in 0..Len(b)] ==
        IF n = 0 THEN 0
        ELSE LET p == position[n - 1] IN
             IF IsWhole(b, p) THEN p + b[p + 1].size ELSE p
  IN  position

\* Where the loop stops: no buffer has more frames than units.
Consumed(b) == Position(b)[Len(b)]

\* Mutant: what a chunk leaves over is not kept for the next one.
ForgetRest(b) == <<>>

Rest(b) == SubSeq(b, Consumed(b) + 1, Len(b))

\* The loop throws on a length field no frame can have, and keeps the buffer.
IsMalformed(b) == Rest(b) # <<>> /\ Head(Rest(b)).size = 0

\* The turns that take a frame are the first ones.
Turns(b) == {n \in 1..Len(b) : Position(b)[n] # Position(b)[n - 1]}

Messages(b) == [n \in Turns(b) |-> b[Position(b)[n - 1] + 1].body]
===============================================================================
