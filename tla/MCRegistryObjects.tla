-------------------------- MODULE MCRegistryObjects ---------------------------
(***************************************************************************)
(* Small instances of RegistryObjects: two domains, one host inside the    *)
(* TLD and one outside it.                                                 *)
(***************************************************************************)
EXTENDS RegistryObjects, TLC

CONSTANTS d1, d2, inside, outside

MCParent == (inside :> d1) @@ (outside :> None)

RegistrarSymmetry == Permutations(Registrars)
===============================================================================
