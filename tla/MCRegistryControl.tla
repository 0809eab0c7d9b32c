--------------------------- MODULE MCRegistryControl ---------------------------
(* Instances of RegistryControl: one or two default domains, one address with *)
(* two spellings, one that no host accepts.                                   *)
EXTENDS RegistryControl

CONSTANTS nic, example, low, upper, loopback, admin, r1

BothDefaults == <<nic, example>>
OneRole == <<"ns1">>
Spelled == [g \in Glue |-> IF g = upper THEN low ELSE g]

\* A fixture of another registrar, bare or under an update prohibition.
Fixtures ==
  {[FreshRow(r1, {}, FALSE) EXCEPT !.statuses = s] :
     s \in {{"ok"}, {"clientUpdateProhibited"}}}
===============================================================================
