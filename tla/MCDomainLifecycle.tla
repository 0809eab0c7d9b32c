-------------------------- MODULE MCDomainLifecycle ---------------------------
(***************************************************************************)
(* Small instances of DomainLifecycle.  One registrable name is enough for *)
(* its properties, which are about one name at a time; the second name is  *)
(* reserved.                                                               *)
(***************************************************************************)
EXTENDS DomainLifecycle, TLC

RegistrarSymmetry == Permutations(Registrars)
===============================================================================
