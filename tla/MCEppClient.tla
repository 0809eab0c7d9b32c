------------------------------ MODULE MCEppClient ------------------------------
(***************************************************************************)
(* Small instances of EppClient: each kind of request, answers in up to    *)
(* three parts.                                                            *)
(***************************************************************************)
EXTENDS EppClient

MCRequests ==
  [op : {"hello", "logout", "poll", "command", "garbage"},
   clid : {None}, valid : {TRUE}, id : {None}]
===============================================================================
