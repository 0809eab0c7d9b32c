----------------------------- MODULE MCEppSession -----------------------------
(***************************************************************************)
(* Small instances of EppSession: one frame of each kind, long enough to   *)
(* be cut where that matters.                                              *)
(***************************************************************************)
EXTENDS EppSession, TLC

CONSTANTS s1, s2, r1, r2

Plain(op) == [op |-> op, clid |-> None, valid |-> TRUE, id |-> None]

LoginAs(r, valid) == [Plain("login") EXCEPT !.clid = r, !.valid = valid]

Logins == {[body |-> LoginAs(r, TRUE), size |-> 1] : r \in Registrars}

\* Every kind of frame, with a command that TCP may cut in two.
MixedFrames ==
  Logins
  \cup {[body |-> LoginAs(r2, FALSE), size |-> 1]}
  \cup {[body |-> Plain(op), size |-> 1] : op \in {"hello", "logout", "poll", "garbage", "unknown"}}
  \cup {[body |-> Plain("command"), size |-> 2], [body |-> Plain("hello"), size |-> 0]}

\* Sessions that log in, poll and acknowledge.
PollFrames ==
  Logins
  \cup {[body |-> Plain("poll"), size |-> 1]}
  \cup {[body |-> [Plain("ack") EXCEPT !.id = i], size |-> 1] : i \in Ids}

SessionSymmetry == Permutations(Sessions)
===============================================================================
