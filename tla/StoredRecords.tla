---------------------------- MODULE StoredRecords ----------------------------
(***************************************************************************)
(* The records a repository keeps and how each of its methods makes the    *)
(* new record from the old one.  Both storage modes have these functions,  *)
(* word for word; what differs is how a record is found and kept.          *)
(*                                                                         *)
(* Lists are sets.  Optional texts are treated alike, so a contact has one *)
(* of them, details, and a domain one, registrantContact; DS records stand *)
(* for key data as well.  Of timestamps only the expiry is kept, in years, *)
(* and whether the record was ever updated at all.                         *)
(***************************************************************************)
EXTENDS ObjectStatusPolicy, Naturals

CONSTANTS
  Registrars,       \* client identifiers
  DomainNames,      \* domain names, normalized
  HostNames,        \* host names, normalized
  ContactIds,       \* contact identifiers as they may be spelled
  Lookup,           \* the lower case of each contact identifier and name server
  KeyOf,            \* what identifies a DS record, an address or postal data in a list
  Texts,            \* values of optional texts
  None              \* undefined, null, NULL

\* new ?? old
Given(new, old) == IF new = None THEN old ELSE new

UpdateList(current, add, rem) == (current \ rem) \cup add

KeysOf(values) == {KeyOf[v] : v \in values}

\* Removed and replaced by key, whatever the spelling.
UpdateKeyed(current, add, rem) ==
  {v \in current : KeyOf[v] \notin KeysOf(rem) \cup KeysOf(add)} \cup add

-------------------------------------------------------------------------------
(* The records.                                                            *)

Keyed == DOMAIN KeyOf

ContactRecord ==
  [id: ContactIds, registrarId: Registrars, creatorId: Registrars,
   statuses: SUBSET ObjectStatuses, postalInfo: SUBSET Keyed, details: Texts \cup {None},
   updatedAt: {"now", None}]

HostRecord ==
  [registrarId: Registrars, creatorId: Registrars, statuses: SUBSET ObjectStatuses,
   addresses: SUBSET Keyed, updatedAt: {"now", None}]

TransferRecord ==
  [status: {"pending", "approved", "rejected", "cancelled"}, requestedBy: Registrars,
   periodYears: Nat \cup {None}, losingRegistrar: Registrars \cup {None}]

RgpStatuses ==
  {"addPeriod", "renewPeriod", "transferPeriod", "redemptionPeriod", "pendingRestore"}

DomainRecord ==
  [registrarId: Registrars, creatorId: Registrars, periodYears: Nat,
   statuses: SUBSET ObjectStatuses, nameservers: SUBSET DOMAIN Lookup,
   registrantContact: Texts \cup {None}, contacts: SUBSET ContactIds, dsRecords: SUBSET Keyed,
   expiresAt: Nat, transfer: TransferRecord \cup {None}, rgpStatus: RgpStatuses \cup {None},
   updatedAt: {"now", None}]

\* undefined and null are no value of any of these.
ASSUME NoneAssumption ==
  /\ None \notin ContactRecord \cup HostRecord \cup DomainRecord \cup TransferRecord
  /\ None \notin Registrars \cup Texts \cup RgpStatuses \cup Nat

ASSUME LookupAssumption ==
  ContactIds \cup HostNames \subseteq DOMAIN Lookup

\* What commands and fixtures may carry.
IsContactInput(input) == input.postalInfo \subseteq Keyed /\ input.details \in Texts \cup {None}

IsStatusInput(input) == input.addStatuses \subseteq ObjectStatuses

IsDomainInput(input) ==
  /\ input.periodYears \in Nat \cup {None}
  /\ input.nameservers \subseteq DOMAIN Lookup
  /\ input.registrantContact \in Texts \cup {None}
  /\ input.contacts \subseteq ContactIds
  /\ input.dsRecords \subseteq Keyed

IsDomainUpdate(input) ==
  /\ input.addNameservers \subseteq DOMAIN Lookup
  /\ input.addContacts \subseteq ContactIds
  /\ input.addDs \subseteq Keyed
  /\ input.registrantContact \in Texts \cup {None}
  /\ input.rgpStatus \in RgpStatuses \cup {None, ""}

IsFixture(record) ==
  [record EXCEPT !.creatorId = Given(@, record.registrarId)] \in DomainRecord

\* What a delete returns.
Deletion(deleted) == [deleted |-> deleted]

-------------------------------------------------------------------------------
(* Contacts.                                                               *)

CreatedContact(id, r, input) ==
  [id |-> id, registrarId |-> r, creatorId |-> r, statuses |-> {"ok"},
   postalInfo |-> input.postalInfo, details |-> input.details, updatedAt |-> None]

\* With the service's merge of the postal data, one entry for each type.
UpdatedContact(contact, input) ==
  [contact EXCEPT
     !.statuses = NormalizeObjectStatuses(UpdateList(@, input.addStatuses, input.remStatuses)),
     !.postalInfo = UpdateKeyed(@, input.postalInfo, {}),
     !.details = Given(input.details, @),
     !.updatedAt = "now"]

-------------------------------------------------------------------------------
(* Hosts.                                                                  *)

CreatedHost(r, input) ==
  [registrarId |-> r, creatorId |-> r, statuses |-> {"ok"},
   addresses |-> input.addAddresses, updatedAt |-> None]

UpdatedHost(host, input) ==
  [host EXCEPT
     !.statuses = NormalizeObjectStatuses(UpdateList(@, input.addStatuses, input.remStatuses)),
     !.addresses = UpdateKeyed(@, input.addAddresses, input.remAddresses),
     !.updatedAt = "now"]

SponsoredHost(host, r) ==
  IF host.registrarId = r THEN host ELSE [host EXCEPT !.registrarId = r, !.updatedAt = "now"]

-------------------------------------------------------------------------------
(* Domains.                                                                *)

CreatedDomain(r, input) ==
  [registrarId |-> r, creatorId |-> r, periodYears |-> Given(input.periodYears, 1),
   statuses |-> {"ok"}, nameservers |-> input.nameservers,
   registrantContact |-> input.registrantContact, contacts |-> input.contacts,
   dsRecords |-> input.dsRecords, expiresAt |-> Given(input.periodYears, 1),
   transfer |-> None, rgpStatus |-> "addPeriod", updatedAt |-> None]

\* input.rgpStatus is None to keep the status, and "" to remove it.
ResolveRgpStatus(current, next) ==
  CASE next = None -> current
    [] next = "" -> None
    [] OTHER -> next

UpdatedDomain(domain, input) ==
  [domain EXCEPT
     !.nameservers = UpdateList(@, input.addNameservers, input.remNameservers),
     !.contacts = UpdateList(@, input.addContacts, input.remContacts),
     !.statuses = NormalizeObjectStatuses(UpdateList(@, input.addStatuses, input.remStatuses)),
     !.registrantContact = Given(input.registrantContact, @),
     !.dsRecords = UpdateKeyed(@, input.addDs, input.remDs),
     !.rgpStatus = ResolveRgpStatus(@, input.rgpStatus),
     !.updatedAt = "now"]

RenewedDomain(domain, years) ==
  [domain EXCEPT !.periodYears = years, !.expiresAt = @ + years,
                 !.rgpStatus = "renewPeriod", !.updatedAt = "now"]

TransferStatusFor(operation) ==
  CASE operation = "request" -> "pending"
    [] operation = "approve" -> "approved"
    [] operation = "reject" -> "rejected"
    [] operation = "cancel" -> "cancelled"

\* The record of a domain that has none, as the optional chaining reads it.
TransferOf(domain) ==
  IF domain.transfer = None
  THEN [status |-> None, requestedBy |-> None, periodYears |-> None, losingRegistrar |-> None]
  ELSE domain.transfer

TransferredDomain(domain, operation, r, periodYears) ==
  LET old      == TransferOf(domain)
      status   == TransferStatusFor(operation)
      approved == status = "approved"
      years    == Given(periodYears, Given(old.periodYears, 1)) IN
  [domain EXCEPT
     !.registrarId = IF approved THEN Given(old.requestedBy, r) ELSE @,
     !.expiresAt = IF approved THEN @ + years ELSE @,
     !.rgpStatus = IF approved THEN "transferPeriod" ELSE @,
     !.statuses = NormalizeObjectStatuses(IF status = "pending" THEN @ \cup {"pendingTransfer"}
                                                                ELSE @ \ {"pendingTransfer"}),
     !.transfer = [status |-> status, requestedBy |-> Given(old.requestedBy, r),
                   periodYears |-> years,
                   losingRegistrar |-> Given(old.losingRegistrar, domain.registrarId)],
     !.updatedAt = "now"]

SponsoredDomain(domain, r) ==
  IF domain.registrarId = r /\ domain.transfer = None THEN domain
  ELSE [domain EXCEPT !.registrarId = r, !.transfer = None, !.updatedAt = "now",
                      !.statuses = NormalizeObjectStatuses(@ \ {"pendingTransfer"})]

\* A name server is compared in lower case and written as the new name.
RenamedLinks(domain, from, to) ==
  IF \A ns \in domain.nameservers : Lookup[ns] # from THEN domain
  ELSE [domain EXCEPT !.nameservers = {IF Lookup[ns] = from THEN to ELSE ns : ns \in @},
                      !.updatedAt = "now"]

\* A record as fixtures give it, brought into the form in which it is kept.
NormalizedDomain(record) ==
  [record EXCEPT !.creatorId = Given(@, record.registrarId),
                 !.statuses = NormalizeObjectStatuses(@)]

===============================================================================
