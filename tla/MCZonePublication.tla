-------------------------- MODULE MCZonePublication --------------------------
(***************************************************************************)
(* A small instance of ZonePublication: one name before and one behind the *)
(* bulk-seeded ones, and a seed that leaves the second name the last DS    *)
(* key tag that is an unsigned short, or the first that is none.           *)
(***************************************************************************)
EXTENDS ZonePublication

Outside == <<Elsewhere, 1>>

SmallRowsOf ==
  <<{RowOf(<<>>, 7)},
    {RowOf(<<<<Tld, 1>>>>, 0), RowOf(<<<<1, 1>>, Outside>>, 7)}>>

SmallHostNames == {<<1, 1>>}

SmallAddresses == {{}, {<<192, 0, 2, 9>>, <<8193, 3512, 0, 0, 0, 0, 0, 9>>}}

Owners == {<<Tld>>, <<Tld, 1>>, <<Tld, 2>>} \cup {<<d>> : d \in 1..2}
          \cup {<<d, k>> : d \in 1..2, k \in 1..2}

\* Any order that is not the order of the names.
SmallHashOf ==
  [owner \in Owners |-> (11 * owner[1] + 5 * owner[Len(owner)] + 2 * Len(owner)) % 33]
===============================================================================
