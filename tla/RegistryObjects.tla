---------------------------- MODULE RegistryObjects ----------------------------
(***************************************************************************)
(* Domains, hosts and contacts, and the references between them: a domain  *)
(* names its contacts and its nameservers, and a host inside the TLD is    *)
(* anchored in a superordinate domain.  No table knows the others; the     *)
(* services look across through RegistryLinks before they write.           *)
(*                                                                         *)
(* One command is one step, except a host rename: it is several SQLite     *)
(* statements, each durable on its own, and the process can die in         *)
(* between.  While a rename runs nothing else does, since the statements   *)
(* are synchronous.                                                        *)
(*                                                                         *)
(* What DomainLifecycle models of a domain (statuses, grace periods,       *)
(* transfers) is left open here: a sponsor's delete may purge its name,    *)
(* and a transfer may move it to another registrar, at any time.           *)
(***************************************************************************)
EXTENDS ObjectStatusPolicy, FiniteSets, Naturals

CONSTANTS
  Domains,          \* domain names
  Hosts,            \* host names, without trailing dot
  Contacts,         \* contact identifiers
  Registrars,       \* client identifiers
  Addresses,        \* usable glue addresses
  StatusChoices,    \* the statuses that host and contact updates are about
  None,             \* an absent row or value
  Parent,           \* the superordinate domain of each host, None outside the TLD
  MaxNameservers    \* bound: nameservers of one domain

\* How a command spells a nameserver: canonicalHostName keeps a trailing dot.
Spellings == [host: Hosts, dot: BOOLEAN]

Plain(h) == [host |-> h, dot |-> FALSE]

DomainRow ==
  [registrarId: Registrars,
   registrantContact: Contacts,
   contacts: SUBSET Contacts,
   nameservers: SUBSET Spellings]

HostRow ==
  [registrarId: Registrars,
   statuses: (SUBSET ObjectStatuses) \ {{}},
   addresses: SUBSET Addresses]

ContactRow == [registrarId: Registrars, statuses: (SUBSET ObjectStatuses) \ {{}}]

RenameJob ==
  [from: Hosts, to: Hosts, columns: BOOLEAN, links: SUBSET Domains]

ASSUME StatusAssumption == StatusChoices \subseteq CLIENT_SETTABLE_HOST_STATUSES

ASSUME ParentAssumption == Parent \in [Hosts -> Domains \cup {None}]

ASSUME RowAssumption ==
  /\ None \notin Domains \cup DomainRow \cup HostRow \cup ContactRow \cup RenameJob
  /\ MaxNameservers \in Nat

VARIABLES
  domains,          \* the domain table
  hosts,            \* the host table
  contacts,         \* the contact table
  renaming          \* the statements a host rename has still to run, or None

vars == <<domains, hosts, contacts, renaming>>

-------------------------------------------------------------------------------
(* The checks the services make, in their own table and across tables.     *)

Exists(table, key) == table[key] # None

IsSponsor(table, key, r) == Exists(table, key) /\ table[key].registrarId = r

NewStatuses(row, add, rem) == NormalizeObjectStatuses((row.statuses \ rem) \cup add)

MayUpdateRow(row, add, rem, other) ==
  /\ CanUpdate(row.statuses, add, rem, other)
  /\ IsStatusDelta(row.statuses, add, rem)

\* Every contact and nameserver a command names must exist; a nameserver is
\* looked up without its trailing dot.
ReferencedObjectsExist(cs, nss) ==
  /\ \A c \in cs : Exists(contacts, c)
  /\ \A ns \in nss : Exists(hosts, ns.host)

\* Mutant: only the domains of the contact's own sponsor count.
ContactIsLinkedAtHome(c) ==
  \E d \in Domains :
    /\ IsSponsor(domains, d, contacts[c].registrarId)
    /\ c = domains[d].registrantContact \/ c \in domains[d].contacts

ContactIsLinked(c) ==
  \E d \in Domains :
    /\ Exists(domains, d)
    /\ c = domains[d].registrantContact \/ c \in domains[d].contacts

LinksTo(d, h) == Exists(domains, d) /\ Plain(h) \in domains[d].nameservers

\* Mutant: only a domain in the parent zone counts as a link to a host.
HostIsLinkedInZone(h) == \E d \in Domains : LinksTo(d, h) /\ Parent[h] = d

\* A nameserver stored with a trailing dot is not compared equal to its host.
HostIsLinked(h) == \E d \in Domains : LinksTo(d, h)

\* Mutant: the domains of the registrar itself are compared.
IsLinkedToOwnDomains(h, r) ==
  \E d \in Domains : LinksTo(d, h) /\ domains[d].registrarId = r

IsLinkedToOtherRegistrar(h, r) ==
  \E d \in Domains : LinksTo(d, h) /\ domains[d].registrarId # r

\* Mutant: the parent must exist, whoever sponsors it.
ParentExists(h, r) == Parent[h] # None => Exists(domains, Parent[h])

\* Narrow glue: a host inside the TLD belongs to the sponsor of its parent.
ParentAllows(h, r) == Parent[h] # None => IsSponsor(domains, Parent[h], r)

-------------------------------------------------------------------------------
(* Domain commands.                                                        *)

DomainCreate(d, r, registrant, cs, nss) ==
  /\ ReferencedObjectsExist({registrant} \cup cs, nss)
  /\ ~Exists(domains, d)
  /\ domains' = [domains EXCEPT ![d] =
                   [registrarId |-> r, registrantContact |-> registrant,
                    contacts |-> cs, nameservers |-> nss]]
  /\ UNCHANGED <<hosts, contacts, renaming>>

\* Mutant: a registrant that is not given is written all the same.
UpdateClearsRegistrant(d, r, registrant, addC, remC, addN, remN) ==
  /\ IsSponsor(domains, d, r)
  /\ addN \cap domains[d].nameservers = {}
  /\ remN \subseteq domains[d].nameservers
  /\ domains' = [domains EXCEPT ![d].registrantContact = registrant]
  /\ UNCHANGED <<hosts, contacts, renaming>>

UpdatedDomain(row, registrant, addC, remC, addN, remN) ==
  [row EXCEPT !.registrantContact = IF registrant = None THEN @ ELSE registrant,
              !.contacts = (@ \ remC) \cup addC,
              !.nameservers = (@ \ remN) \cup addN]

\* A nameserver already on the domain cannot be added, another not removed.
DomainUpdate(d, r, registrant, addC, remC, addN, remN) ==
  /\ IsSponsor(domains, d, r)
  /\ ReferencedObjectsExist(addC \cup ({registrant} \ {None}), addN)
  /\ addN \cap domains[d].nameservers = {}
  /\ remN \subseteq domains[d].nameservers
  /\ Cardinality((domains[d].nameservers \ remN) \cup addN) =< MaxNameservers
  /\ domains' = [domains EXCEPT ![d] = UpdatedDomain(@, registrant, addC, remC, addN, remN)]
  /\ UNCHANGED <<hosts, contacts, renaming>>

\* Nothing asks whether hosts are still anchored in the domain.
DomainPurge(d, r) ==
  /\ IsSponsor(domains, d, r)
  /\ domains' = [domains EXCEPT ![d] = None]
  /\ UNCHANGED <<hosts, contacts, renaming>>

\* An approved transfer; hosts and contacts keep their sponsor.
DomainHandOver(d, r) ==
  /\ Exists(domains, d)
  /\ domains' = [domains EXCEPT ![d].registrarId = r]
  /\ UNCHANGED <<hosts, contacts, renaming>>

-------------------------------------------------------------------------------
(* Contact commands.                                                       *)

ContactCreate(c, r) ==
  /\ ~Exists(contacts, c)
  /\ contacts' = [contacts EXCEPT ![c] = [registrarId |-> r, statuses |-> {"ok"}]]
  /\ UNCHANGED <<domains, hosts, renaming>>

\* `other' stands for a change of postal or contact data.
ContactUpdate(c, r, add, rem, other) ==
  /\ IsSponsor(contacts, c, r)
  /\ MayUpdateRow(contacts[c], add, rem, other)
  /\ contacts' = [contacts EXCEPT ![c].statuses = NewStatuses(contacts[c], add, rem)]
  /\ UNCHANGED <<domains, hosts, renaming>>

ContactDelete(c, r) ==
  /\ IsSponsor(contacts, c, r)
  /\ CanDelete(contacts[c].statuses)
  /\ ~ContactIsLinked(c)
  /\ contacts' = [contacts EXCEPT ![c] = None]
  /\ UNCHANGED <<domains, hosts, renaming>>

-------------------------------------------------------------------------------
(* Host commands.                                                          *)

HostCreate(h, r, addrs) ==
  /\ ParentAllows(h, r)
  /\ Parent[h] # None => addrs # {}
  /\ ~Exists(hosts, h)
  /\ hosts' = [hosts EXCEPT ![h] =
                 [registrarId |-> r, statuses |-> {"ok"}, addresses |-> addrs]]
  /\ UNCHANGED <<domains, contacts, renaming>>

UpdatedHost(row, add, rem, addA, remA) ==
  [row EXCEPT !.statuses = NewStatuses(row, add, rem),
              !.addresses = (@ \ remA) \cup addA]

HostUpdate(h, r, add, rem, addA, remA) ==
  /\ IsSponsor(hosts, h, r)
  /\ MayUpdateRow(hosts[h], add, rem, addA \cup remA # {})
  /\ addA \cap hosts[h].addresses = {}
  /\ remA \subseteq hosts[h].addresses
  /\ hosts' = [hosts EXCEPT ![h] = UpdatedHost(@, add, rem, addA, remA)]
  /\ UNCHANGED <<domains, contacts, renaming>>

HostDelete(h, r) ==
  /\ IsSponsor(hosts, h, r)
  /\ CanDelete(hosts[h].statuses)
  /\ ~HostIsLinked(h)
  /\ hosts' = [hosts EXCEPT ![h] = None]
  /\ UNCHANGED <<domains, contacts, renaming>>

\* A rename passes its checks and moves the row to the new key.  Address and
\* status lists in the same command are checked and then dropped.
HostRename(h, r, new) ==
  /\ IsSponsor(hosts, h, r)
  /\ CanUpdate(hosts[h].statuses, {}, {}, TRUE)
  /\ new # h => ~Exists(hosts, new)
  /\ ParentAllows(new, r)
  /\ Parent[h] = None => ~IsLinkedToOtherRegistrar(h, r)
  /\ hosts' = [hosts EXCEPT ![h] = None, ![new] = hosts[h]]
  /\ renaming' = [from |-> h, to |-> new, columns |-> TRUE,
                  links |-> {d \in Domains : LinksTo(d, h)}]
  /\ UNCHANGED <<domains, contacts>>

\* The second statement writes the other columns: outside the TLD, no glue.
RenameColumns ==
  /\ renaming.columns
  /\ hosts' = [hosts EXCEPT ![renaming.to].addresses =
                 IF Parent[renaming.to] = None THEN {} ELSE @]
  /\ renaming' = IF renaming.links = {} THEN None
                 ELSE [renaming EXCEPT !.columns = FALSE]
  /\ UNCHANGED <<domains, contacts>>

\* Mutant: the new name is added and the old one left.
KeepOldLink(d) ==
  /\ ~renaming.columns
  /\ d \in renaming.links
  /\ domains' = [domains EXCEPT ![d].nameservers = @ \cup {Plain(renaming.to)}]
  /\ renaming' = IF renaming.links = {d} THEN None
                 ELSE [renaming EXCEPT !.links = @ \ {d}]
  /\ UNCHANGED <<hosts, contacts>>

\* Then the domains that link to the old name are rewritten one by one.
RenameLink(d) ==
  /\ ~renaming.columns
  /\ d \in renaming.links
  /\ domains' = [domains EXCEPT ![d].nameservers =
                   (@ \ {Plain(renaming.from)}) \cup {Plain(renaming.to)}]
  /\ renaming' = IF renaming.links = {d} THEN None
                 ELSE [renaming EXCEPT !.links = @ \ {d}]
  /\ UNCHANGED <<hosts, contacts>>

\* The process dies during a rename and is started again: the tables are what
\* was written, and nothing resumes the rename.
Crash ==
  /\ renaming # None
  /\ renaming' = None
  /\ UNCHANGED <<domains, hosts, contacts>>

-------------------------------------------------------------------------------
Init ==
  /\ domains = [d \in Domains |-> None]
  /\ hosts = [h \in Hosts |-> None]
  /\ contacts = [c \in Contacts |-> None]
  /\ renaming = None

NameserverSets == {nss \in SUBSET Spellings : Cardinality(nss) =< MaxNameservers}

DomainCommand(d, r) ==
  \/ \E registrant \in Contacts, cs \in SUBSET Contacts, nss \in NameserverSets :
        DomainCreate(d, r, registrant, cs, nss)
  \/ \E registrant \in Contacts \cup {None}, addC, remC \in SUBSET Contacts,
        addN, remN \in NameserverSets :
        DomainUpdate(d, r, registrant, addC, remC, addN, remN)
  \/ DomainPurge(d, r)
  \/ DomainHandOver(d, r)

ContactCommand(c, r) ==
  \/ ContactCreate(c, r)
  \/ \E add, rem \in SUBSET StatusChoices, other \in BOOLEAN :
        ContactUpdate(c, r, add, rem, other)
  \/ ContactDelete(c, r)

HostCommand(h, r) ==
  \/ \E addrs \in SUBSET Addresses : HostCreate(h, r, addrs)
  \/ \E add, rem \in SUBSET StatusChoices, addA, remA \in SUBSET Addresses :
        HostUpdate(h, r, add, rem, addA, remA)
  \/ HostDelete(h, r)
  \/ \E new \in Hosts : HostRename(h, r, new)

Command ==
  \E r \in Registrars :
    \/ \E d \in Domains : DomainCommand(d, r)
    \/ \E c \in Contacts : ContactCommand(c, r)
    \/ \E h \in Hosts : HostCommand(h, r)

FinishRename == RenameColumns \/ \E d \in Domains : RenameLink(d)

Next ==
  \/ renaming = None /\ Command
  \/ renaming # None /\ FinishRename

Spec == Init /\ [][Next]_vars

\* The same with a process that may die.
CrashSpec == Init /\ [][Next \/ Crash]_vars

-------------------------------------------------------------------------------
(* Invariants.                                                             *)

TypeOK ==
  /\ domains \in [Domains -> DomainRow \cup {None}]
  /\ hosts \in [Hosts -> HostRow \cup {None}]
  /\ contacts \in [Contacts -> ContactRow \cup {None}]
  /\ renaming \in RenameJob \cup {None}

\* Every contact a domain names, as registrant or in a role, exists, through any
\* order of domain updates, purges, transfers and contact deletes by others.
ContactReferencesResolve ==
  \A d \in Domains : Exists(domains, d) =>
    \A c \in domains[d].contacts \cup {domains[d].registrantContact} :
      Exists(contacts, c)

\* Between commands, every nameserver stored without a trailing dot is a host of
\* the registry: deletes are refused and renames carried through to every domain,
\* whoever sponsors it.
HostReferencesResolve ==
  renaming = None =>
    \A d \in Domains, h \in Hosts : LinksTo(d, h) => Exists(hosts, h)

-------------------------------------------------------------------------------
(* Action properties.                                                      *)

Appears(h) == ~Exists(hosts, h) /\ hosts'[h] # None

NarrowGlueStep ==
  \A h \in Hosts : Appears(h) /\ Parent[h] # None =>
    IsSponsor(domains, Parent[h], hosts'[h].registrarId)

\* Created or renamed, a host comes to stand inside the TLD only under a domain
\* of its own sponsor.
NarrowGlue == [][NarrowGlueStep]_vars

ForeignLinkStep ==
  \A h \in Hosts :
    /\ Exists(hosts, h)
    /\ Parent[h] = None
    /\ renaming = None
    /\ \E d \in Domains :
         LinksTo(d, h) /\ domains[d].registrarId # hosts[h].registrarId
    => hosts'[h] # None

\* While another registrar's domain links to a host outside the TLD, its sponsor
\* can neither delete nor rename it away.
ForeignLinksHoldHosts == [][ForeignLinkStep]_vars

DelegationStep ==
  \A d \in Domains : renaming # None /\ Exists(domains, d) =>
    Cardinality(domains'[d].nameservers) = Cardinality(domains[d].nameservers)

\* Renaming a host under a domain that links to it leaves the domain with as many
\* nameservers as it had.
RenameKeepsDelegation == [][DelegationStep]_vars

===============================================================================
