------------------------- MODULE RegistrationContract -------------------------
(***************************************************************************)
(* What the registry promises about who holds a name, whatever the details *)
(* of the commands: a name is held by one registrar; it is handed over     *)
(* only to the registrar whose claim is recorded on it, and a recorded     *)
(* claim stays the same for as long as the name is held; a name that is    *)
(* leaving is held on to until it is returned.                             *)
(*                                                                         *)
(* It abstracts the domain table of src/src/domain/types.ts (registrarId,  *)
(* transfer.requestedBy and the pendingDelete status).                     *)
(***************************************************************************)
CONSTANTS
  Names,
  Registrars,
  Nobody

VARIABLES
  holder,     \* the registrar that holds each name
  claimant,   \* the registrar whose claim is recorded on it
  leaving     \* whether its deletion has begun

contractVars == <<holder, claimant, leaving>>

Init ==
  /\ holder = [n \in Names |-> Nobody]
  /\ claimant = [n \in Names |-> Nobody]
  /\ leaving = [n \in Names |-> FALSE]

Register(n, r) ==
  /\ holder[n] = Nobody
  /\ holder' = [holder EXCEPT ![n] = r]
  /\ UNCHANGED <<claimant, leaving>>

Claim(n, r) ==
  /\ holder[n] # Nobody
  /\ claimant[n] = Nobody
  /\ claimant' = [claimant EXCEPT ![n] = r]
  /\ UNCHANGED <<holder, leaving>>

HandOver(n) ==
  /\ claimant[n] # Nobody
  /\ holder' = [holder EXCEPT ![n] = claimant[n]]
  /\ UNCHANGED <<claimant, leaving>>

Leave(n) ==
  /\ holder[n] # Nobody
  /\ leaving' = [leaving EXCEPT ![n] = TRUE]
  /\ UNCHANGED <<holder, claimant>>

Return(n) ==
  /\ leaving[n]
  /\ leaving' = [leaving EXCEPT ![n] = FALSE]
  /\ UNCHANGED <<holder, claimant>>

Release(n) ==
  /\ holder[n] # Nobody
  /\ ~leaving[n]
  /\ holder' = [holder EXCEPT ![n] = Nobody]
  /\ claimant' = [claimant EXCEPT ![n] = Nobody]
  /\ UNCHANGED leaving

Next ==
  \E n \in Names :
    \/ \E r \in Registrars : Register(n, r) \/ Claim(n, r)
    \/ HandOver(n) \/ Leave(n) \/ Return(n) \/ Release(n)

Spec == Init /\ [][Next]_contractVars
===============================================================================
