-------------------------- MODULE ObjectStatusPolicy --------------------------
(***************************************************************************)
(* The status rules every EPP object obeys: which statuses prohibit which  *)
(* command, what a client may set, and the normal form in which a status   *)
(* list is stored (src/src/epp/objectStatusPolicy.ts).  Domains, hosts and *)
(* contacts all go through these operators.  A status list is a set: the   *)
(* code removes duplicates and never reads the order.                      *)
(***************************************************************************)

UPDATE_PROHIBITED   == {"clientUpdateProhibited", "serverUpdateProhibited"}
DELETE_PROHIBITED   == {"clientDeleteProhibited", "serverDeleteProhibited"}
TRANSFER_PROHIBITED == {"clientTransferProhibited", "serverTransferProhibited"}

CLIENT_SETTABLE_DOMAIN_STATUSES ==
  {"clientDeleteProhibited", "clientHold", "clientRenewProhibited",
   "clientTransferProhibited", "clientUpdateProhibited"}

CLIENT_SETTABLE_HOST_STATUSES ==
  {"clientDeleteProhibited", "clientUpdateProhibited"}

\* Every status a stored object can carry.
ObjectStatuses ==
  UPDATE_PROHIBITED \cup DELETE_PROHIBITED \cup TRANSFER_PROHIBITED
    \cup CLIENT_SETTABLE_DOMAIN_STATUSES
    \cup {"ok", "pendingDelete", "pendingTransfer"}

HasAnyStatus(statuses, blocked) == statuses \cap blocked # {}

(***************************************************************************)
(* An update that only removes an update prohibition is let through the    *)
(* prohibition it removes; `other' is TRUE when the update carries any     *)
(* change besides the two status lists.                                    *)
(***************************************************************************)
IsProhibitionLiftUpdate(add, rem, other) ==
  /\ add = {}
  /\ HasAnyStatus(rem, UPDATE_PROHIBITED)
  /\ ~other

CanUpdate(statuses, add, rem, other) ==
  HasAnyStatus(statuses, UPDATE_PROHIBITED)
    => IsProhibitionLiftUpdate(add, rem, other)

CanDelete(statuses) ==
  ~HasAnyStatus(statuses, DELETE_PROHIBITED \cup {"pendingDelete"})

CanTransferRequest(statuses) ==
  ~HasAnyStatus(statuses,
                TRANSFER_PROHIBITED \cup {"pendingDelete", "pendingTransfer"})

\* Mutant: a name that is being deleted can be renewed.
CanRenewAlways(statuses) == TRUE

CanRenew(statuses) == "pendingDelete" \notin statuses

\* Mutant: the stored list is not brought back to normal form.
NormalizeForgotten(statuses) == statuses

\* "ok" stands alone: any other status replaces it, losing the last restores it.
NormalizeObjectStatuses(statuses) ==
  IF statuses \subseteq {"ok"} THEN {"ok"} ELSE statuses \ {"ok"}

\* A status already set cannot be added, one not set cannot be removed.
IsStatusDelta(current, add, rem) ==
  /\ add \cap current = {}
  /\ rem \subseteq current
===============================================================================
