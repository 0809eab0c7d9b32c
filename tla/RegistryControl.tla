---------------------------- MODULE RegistryControl ----------------------------
(***************************************************************************)
(* The registry process: how it starts, seeds the default domains, is      *)
(* reset by its operator, and ends.  The tables are SQLite files, so every *)
(* statement of a seeding is durable on its own; everything else is lost   *)
(* when the process ends, and Docker starts it again.                      *)
(*                                                                         *)
(* The EPP listener is up before the seeding at start-up runs, so commands *)
(* can come first.  A seeding itself awaits settled promises only: no      *)
(* command and no other request runs inside it, but the process can die    *)
(* between two of its statements, and it throws where a service refuses.   *)
(* At start-up the throw ends the process; in a request it is a 500.       *)
(*                                                                         *)
(* Of the tables only the default domains and the hosts ns1, ns2 inside    *)
(* them are kept; a host is a pair of its domain and its role.             *)
(***************************************************************************)
EXTENDS ObjectStatusPolicy, Naturals, Sequences, SequencesExt

CONSTANTS
  DefaultDomains,   \* DEFAULT_DOMAINS: a sequence of names
  Roles,            \* the name servers of a default domain: a sequence
  ReservedNames,    \* the names registrars cannot create
  Registrars,       \* client identifiers
  Admin,            \* REGISTRAR, the sponsor of the default domains
  Glue,             \* addresses, as they are spelled
  Usable,           \* the addresses glueAddressPolicy accepts
  AddressKey,       \* what two spellings of one address have in common
  None,             \* an absent row or value
  Torn,             \* the content of a config file whose write was cut short
  ImportedRows,     \* domain rows the operator's fixtures carry
  MaxCommands       \* bound: EPP commands and operator requests of a behaviour

Defaults == Range(DefaultDomains)
Hosts == Defaults \X Range(Roles)
SeededStatuses == {"serverDeleteProhibited", "serverTransferProhibited"}
ClientStatuses == {"clientUpdateProhibited"}

DomainRow ==
  [registrarId: Registrars,
   statuses: (SUBSET ObjectStatuses) \ {{}},
   nameservers: SUBSET Range(Roles),
   dsRecords: BOOLEAN,
   requestedBy: Registrars \cup {None}]

HostRow ==
  [registrarId: Registrars, statuses: (SUBSET ObjectStatuses) \ {{}},
   addresses: SUBSET Glue]

Tasks == {"contact", "sponsor", "register", "hostSponsor", "host", "complete"}

Phases == {"down", "aborted", "listening", "starting", "up", "serving"}

ASSUME AdminAssumption == Admin \in Registrars

\* Both are literal lists of the code; there is a default domain.
ASSUME ListAssumption ==
  /\ DefaultDomains \in Seq(Defaults) /\ DefaultDomains # <<>>
  /\ Roles \in Seq(Range(Roles))

ASSUME GlueAssumption == Usable \subseteq Glue /\ DOMAIN AddressKey = Glue

ASSUME RowAssumption ==
  /\ ImportedRows \subseteq DomainRow
  /\ None \notin Registrars \cup DomainRow \cup HostRow
  /\ Torn \notin Glue
  /\ MaxCommands \in Nat

VARIABLES
  domains,          \* the rows of the default domains, or None
  hosts,            \* the rows of their name servers, or None
  contacts,         \* the default domains whose contact exists
  config,           \* the address in the nameserver file, or Torn
  phase,            \* what the process is doing
  job,              \* the statements the running seeding has left
  seeded,           \* the last seeding of this process went through
  commands          \* commands and requests so far

tables == <<domains, hosts, contacts>>
vars == <<domains, hosts, contacts, config, phase, job, seeded, commands>>

-------------------------------------------------------------------------------
(* Seeding: ensureDefaultRegistry, one durable statement per step.         *)

HostWork(d) ==
  FlattenSeq([i \in 1..Len(Roles) |->
    <<[task |-> "hostSponsor", of |-> <<d, Roles[i]>>],
      [task |-> "host", of |-> <<d, Roles[i]>>]>>])

\* Mutant: the domain is completed before its hosts are there.
CompleteFirst(d) ==
  <<[task |-> "contact", of |-> d],
    [task |-> "sponsor", of |-> d],
    [task |-> "register", of |-> d],
    [task |-> "complete", of |-> d]>>
  \o HostWork(d)

DomainWork(d) ==
  <<[task |-> "contact", of |-> d],
    [task |-> "sponsor", of |-> d],
    [task |-> "register", of |-> d]>>
  \o HostWork(d)
  \o <<[task |-> "complete", of |-> d]>>

SeedingWork ==
  FlattenSeq([i \in 1..Len(DefaultDomains) |-> DomainWork(DefaultDomains[i])])

IsSeeding == phase \in {"starting", "serving"}

IsNext(task, of) == IsSeeding /\ Head(job) = [task |-> task, of |-> of]

\* After the last statement the process serves commands and requests.
Advance ==
  /\ job' = Tail(job)
  /\ phase' = IF Len(job) = 1 THEN "up" ELSE phase
  /\ seeded' = (Len(job) = 1)
  /\ UNCHANGED <<config, commands>>

\* A service threw: start-up ends the process, a request is answered 500.
Throw ==
  /\ job' = <<>>
  /\ phase' = IF phase = "starting" THEN "aborted" ELSE "up"
  /\ seeded' = FALSE
  /\ UNCHANGED <<domains, hosts, contacts, config, commands>>

EnsureContact(d) ==
  /\ IsNext("contact", d)
  /\ contacts' = contacts \cup {d}
  /\ Advance
  /\ UNCHANGED <<domains, hosts>>

\* Another registrar's default domain is taken back, its transfer dropped.
ReclaimDomain(d) ==
  /\ IsNext("sponsor", d)
  /\ domains' =
       IF domains[d] = None \/ domains[d].registrarId = Admin THEN domains
       ELSE [domains EXCEPT
               ![d].registrarId = Admin,
               ![d].statuses = NormalizeObjectStatuses(@ \ {"pendingTransfer"}),
               ![d].requestedBy = None]
  /\ Advance
  /\ UNCHANGED <<hosts, contacts>>

FreshRow(r, nameservers, ds) ==
  [registrarId |-> r, statuses |-> {"ok"}, nameservers |-> nameservers,
   dsRecords |-> ds, requestedBy |-> None]

\* Its contact is on record: it was ensured two statements before.
EnsureRegistered(d) ==
  /\ IsNext("register", d)
  /\ d \in contacts
  /\ domains' = IF domains[d] # None THEN domains
                ELSE [domains EXCEPT ![d] = FreshRow(Admin, {}, TRUE)]
  /\ Advance
  /\ UNCHANGED <<hosts, contacts>>

ReclaimHost(h) ==
  /\ IsNext("hostSponsor", h)
  /\ hosts' = IF hosts[h] = None THEN hosts
              ELSE [hosts EXCEPT ![h].registrarId = Admin]
  /\ Advance
  /\ UNCHANGED <<domains, contacts>>

IsSponsorOf(d, r) == domains[d] # None /\ domains[d].registrarId = r

MayCreateHost(h, r, addrs) ==
  /\ addrs \subseteq Usable
  /\ addrs # {}
  /\ IsSponsorOf(h[1], r)
  /\ hosts[h] = None

\* The service takes two spellings of an address for one, the seeding for two.
MayUpdateHost(h, r, add, rem, addA, remA) ==
  /\ hosts[h] # None
  /\ hosts[h].registrarId = r
  /\ addA \cup remA \subseteq Usable
  /\ CanUpdate(hosts[h].statuses, add, rem, addA \cup remA # {})
  /\ IsStatusDelta(hosts[h].statuses, add, rem)
  /\ \A a \in addA : \A b \in hosts[h].addresses : AddressKey[a] # AddressKey[b]
  /\ \A a \in remA : \E b \in hosts[h].addresses : AddressKey[a] = AddressKey[b]

GlueToAdd(h) == {config} \ hosts[h].addresses
GlueToRemove(h) == hosts[h].addresses \ {config}
HasConfiguredGlue(h) == hosts[h] # None /\ hosts[h].addresses = {config}

MayEnsureHost(h) ==
  IF hosts[h] = None THEN MayCreateHost(h, Admin, {config})
  ELSE HasConfiguredGlue(h)
         \/ MayUpdateHost(h, Admin, {}, {}, GlueToAdd(h), GlueToRemove(h))

FreshHost(r, addrs) ==
  [registrarId |-> r, statuses |-> {"ok"}, addresses |-> addrs]

EnsureHost(h) ==
  /\ IsNext("host", h)
  /\ MayEnsureHost(h)
  /\ hosts' = IF hosts[h] = None
              THEN [hosts EXCEPT ![h] = FreshHost(Admin, {config})]
              ELSE [hosts EXCEPT ![h].addresses = {config}]
  /\ Advance
  /\ UNCHANGED <<domains, contacts>>

\* What a default domain lacks; an update is sent only if it lacks something.
\* Mutant: both name servers are always added.
EveryRole(d) == Range(Roles)

NameserversToAdd(d) == Range(Roles) \ domains[d].nameservers
StatusesToAdd(d) == SeededStatuses \ domains[d].statuses

\* Mutant: only the name servers decide whether an update is sent.
LacksNoNameserver(d) == NameserversToAdd(d) = {}

LacksNothing(d) ==
  NameserversToAdd(d) = {} /\ StatusesToAdd(d) = {} /\ domains[d].dsRecords

MayUpdateDomain(d, r, add, rem, addN, remN, other) ==
  /\ IsSponsorOf(d, r)
  /\ \A ns \in addN : hosts[<<d, ns>>] # None
  /\ CanUpdate(domains[d].statuses, add, rem, other \/ addN \cup remN # {})
  /\ IsStatusDelta(domains[d].statuses, add, rem)
  /\ addN \cap domains[d].nameservers = {}
  /\ remN \subseteq domains[d].nameservers

NewDomainRow(d, add, rem, addN, remN, ds) ==
  [domains[d] EXCEPT
     !.statuses = NormalizeObjectStatuses((@ \ rem) \cup add),
     !.nameservers = (@ \ remN) \cup addN,
     !.dsRecords = ds]

MayComplete(d) ==
  \/ LacksNothing(d)
  \/ MayUpdateDomain(d, Admin, StatusesToAdd(d), {}, NameserversToAdd(d), {},
                     ~domains[d].dsRecords)

CompleteDomain(d) ==
  /\ IsNext("complete", d)
  /\ MayComplete(d)
  /\ domains' =
       IF LacksNothing(d) THEN domains
       ELSE [domains EXCEPT ![d] =
               NewDomainRow(d, StatusesToAdd(d), {}, NameserversToAdd(d), {}, TRUE)]
  /\ Advance
  /\ UNCHANGED <<hosts, contacts>>

SeedStep ==
  \/ \E d \in Defaults : \/ EnsureContact(d)
                         \/ ReclaimDomain(d)
                         \/ EnsureRegistered(d)
                         \/ CompleteDomain(d)
  \/ \E h \in Hosts : ReclaimHost(h) \/ EnsureHost(h)

SeedThrows ==
  /\ \/ \E h \in Hosts : IsNext("host", h) /\ ~MayEnsureHost(h)
     \/ \E d \in Defaults : IsNext("complete", d) /\ ~MayComplete(d)
  /\ Throw

-------------------------------------------------------------------------------
(* EPP commands on the default domains and their hosts.                    *)

Listens == phase \in {"listening", "up"} /\ commands < MaxCommands

OneCommand ==
  /\ commands' = commands + 1
  /\ UNCHANGED <<config, phase, job, seeded>>

DomainCommand == OneCommand /\ UNCHANGED <<hosts, contacts>>

DomainCreate(d, r, nss) ==
  /\ d \notin ReservedNames
  /\ domains[d] = None
  /\ \A ns \in nss : hosts[<<d, ns>>] # None
  /\ domains' = [domains EXCEPT ![d] = FreshRow(r, nss, FALSE)]
  /\ DomainCommand

DomainUpdate(d, r, add, rem, addN, remN, ds) ==
  /\ domains[d] # None
  /\ MayUpdateDomain(d, r, add, rem, addN, remN, ds # domains[d].dsRecords)
  /\ domains' = [domains EXCEPT ![d] = NewDomainRow(d, add, rem, addN, remN, ds)]
  /\ DomainCommand

\* Inside the add grace period the name is purged, later it is held.
DomainDelete(d, r, inGrace) ==
  /\ IsSponsorOf(d, r)
  /\ CanDelete(domains[d].statuses)
  /\ domains' = IF inGrace THEN [domains EXCEPT ![d] = None]
                ELSE [domains EXCEPT ![d].statuses =
                        NormalizeObjectStatuses(@ \cup {"pendingDelete"})]
  /\ DomainCommand

DomainRestore(d, r) ==
  /\ IsSponsorOf(d, r)
  /\ "pendingDelete" \in domains[d].statuses
  /\ domains' = [domains EXCEPT ![d].statuses =
                   NormalizeObjectStatuses(@ \ {"pendingDelete"})]
  /\ DomainCommand

Requester(d, r) ==
  IF domains[d].requestedBy = None THEN r ELSE domains[d].requestedBy

\* Mutant: the transfer prohibitions are not asked for.
RequestAnyName(d, r) ==
  /\ domains[d] # None
  /\ ~HasAnyStatus(domains[d].statuses, {"pendingDelete", "pendingTransfer"})
  /\ domains' = [domains EXCEPT
                   ![d].statuses = NormalizeObjectStatuses(@ \cup {"pendingTransfer"}),
                   ![d].requestedBy = Requester(d, r)]
  /\ DomainCommand

TransferRequest(d, r) ==
  /\ domains[d] # None
  /\ CanTransferRequest(domains[d].statuses)
  /\ domains' = [domains EXCEPT
                   ![d].statuses = NormalizeObjectStatuses(@ \cup {"pendingTransfer"}),
                   ![d].requestedBy = Requester(d, r)]
  /\ DomainCommand

\* A transfer ends; approved, it hands the name to the requester on record.
TransferEnd(d, r, approved) ==
  /\ domains[d] # None
  /\ \/ domains[d].registrarId = r
     \/ domains[d].requestedBy = r /\ ~approved
  /\ domains' = [domains EXCEPT
                   ![d].statuses = NormalizeObjectStatuses(@ \ {"pendingTransfer"}),
                   ![d].requestedBy = Requester(d, r),
                   ![d].registrarId = IF approved THEN Requester(d, r) ELSE @]
  /\ DomainCommand

HostCommand == OneCommand /\ UNCHANGED <<domains, contacts>>

HostCreate(h, r, addrs) ==
  /\ MayCreateHost(h, r, addrs)
  /\ hosts' = [hosts EXCEPT ![h] = FreshHost(r, addrs)]
  /\ HostCommand

HostUpdate(h, r, add, rem, addA, remA) ==
  /\ MayUpdateHost(h, r, add, rem, addA, remA)
  /\ hosts' = [hosts EXCEPT
                 ![h].statuses = NormalizeObjectStatuses((@ \ rem) \cup add),
                 ![h].addresses =
                   {a \in @ : \A b \in remA : AddressKey[a] # AddressKey[b]}
                     \cup addA]
  /\ HostCommand

HostDelete(h, r) ==
  /\ hosts[h] # None
  /\ hosts[h].registrarId = r
  /\ CanDelete(hosts[h].statuses)
  /\ domains[h[1]] # None => h[2] \notin domains[h[1]].nameservers
  /\ hosts' = [hosts EXCEPT ![h] = None]
  /\ HostCommand

\* A default domain that is gone does not hold its contact any more; other
\* domains, a status or the sponsor still may, so the command may be refused.
ContactDelete(d) ==
  /\ d \in contacts
  /\ domains[d] = None
  /\ contacts' = contacts \ {d}
  /\ OneCommand
  /\ UNCHANGED <<domains, hosts>>

-------------------------------------------------------------------------------
(* Operator requests: each ends in a seeding.                              *)

OperatorRequest(work) ==
  /\ phase = "up"
  /\ commands < MaxCommands
  /\ commands' = commands + 1
  /\ phase' = "serving"
  /\ seeded' = FALSE
  /\ job' = work \o SeedingWork
  /\ UNCHANGED <<hosts, contacts>>

\* The file is truncated first and written then.
PutNameservers(g) ==
  /\ OperatorRequest(<<[task |-> "save", of |-> g]>>)
  /\ config' = Torn
  /\ UNCHANGED domains

SaveConfig(g) ==
  /\ IsNext("save", g)
  /\ config' = g
  /\ job' = Tail(job)
  /\ UNCHANGED <<domains, hosts, contacts, phase, seeded, commands>>

\* One transaction replaces the domain table; hosts and contacts stay.
Reset(rows) ==
  /\ OperatorRequest(<<>>)
  /\ domains' = rows
  /\ UNCHANGED config

\* The rows of the default domains are kept, all others are generated.
SeedBulk == Reset(domains)

-------------------------------------------------------------------------------
(* The life of the process.                                                *)

Init ==
  /\ domains = [d \in Defaults |-> None]
  /\ hosts = [h \in Hosts |-> None]
  /\ contacts = {}
  /\ config \in Usable
  /\ phase = "down"
  /\ job = <<>>
  /\ seeded = FALSE
  /\ commands = 0

Start ==
  /\ phase \in {"down", "aborted"}
  /\ phase' = "listening"
  /\ UNCHANGED <<domains, hosts, contacts, config, job, seeded, commands>>

\* A file that does not parse ends the process before it seeds.
BeginSeeding ==
  /\ phase = "listening"
  /\ phase' = IF config = Torn THEN "aborted" ELSE "starting"
  /\ job' = IF config = Torn THEN <<>> ELSE SeedingWork
  /\ UNCHANGED <<domains, hosts, contacts, config, seeded, commands>>

End ==
  /\ phase \notin {"down", "aborted"}
  /\ phase' = "down"
  /\ job' = <<>>
  /\ seeded' = FALSE
  /\ UNCHANGED <<domains, hosts, contacts, config, commands>>

DomainCommands(d, r) ==
  \/ \E nss \in SUBSET Range(Roles) : DomainCreate(d, r, nss)
  \/ \E add, rem \in SUBSET ClientStatuses, addN, remN \in SUBSET Range(Roles),
        ds \in BOOLEAN : DomainUpdate(d, r, add, rem, addN, remN, ds)
  \/ \E inGrace \in BOOLEAN : DomainDelete(d, r, inGrace)
  \/ DomainRestore(d, r)
  \/ TransferRequest(d, r)
  \/ \E approved \in BOOLEAN : TransferEnd(d, r, approved)

HostCommands(h, r) ==
  \/ \E addrs \in SUBSET Usable : HostCreate(h, r, addrs)
  \/ \E add, rem \in SUBSET ClientStatuses, addA, remA \in SUBSET Usable :
        HostUpdate(h, r, add, rem, addA, remA)
  \/ HostDelete(h, r)

Command ==
  /\ Listens
  /\ \/ \E r \in Registrars : \/ \E d \in Defaults : DomainCommands(d, r)
                              \/ \E h \in Hosts : HostCommands(h, r)
     \/ \E d \in Defaults : ContactDelete(d)

Request ==
  \/ \E g \in Glue : PutNameservers(g)
  \/ \E rows \in [Defaults -> ImportedRows \cup {None}] : Reset(rows)
  \/ SeedBulk

Seeding == SeedStep \/ SeedThrows \/ \E g \in Glue : SaveConfig(g)

Running == Start \/ BeginSeeding \/ Command \/ Request \/ Seeding

Spec == Init /\ [][Running \/ End]_vars

-------------------------------------------------------------------------------
(* Properties.                                                             *)

HasSeededHost(d, role) ==
  /\ role \in domains[d].nameservers
  /\ HasConfiguredGlue(<<d, role>>)
  /\ hosts[<<d, role>>].registrarId = Admin

IsComplete(d) ==
  /\ IsSponsorOf(d, Admin)
  /\ SeededStatuses \subseteq domains[d].statuses
  /\ domains[d].dsRecords
  /\ \A role \in Range(Roles) : HasSeededHost(d, role)

AllComplete == \A d \in Defaults : IsComplete(d)

\* A seeding that ends without a throw leaves every default domain with the
\* registry, protected, signed and delegated to hosts with the configured glue,
\* whatever registrars, resets and interrupted seedings left before.
SeedingCompletes == [][~seeded /\ seeded' => AllComplete']_vars

SeededStep(d) ==
  /\ domains'[d] # None
  /\ SeededStatuses \subseteq domains'[d].statuses
  /\ domains'[d].requestedBy \in {domains[d].requestedBy, Admin}
  /\ domains'[d].registrarId \in {Admin, domains[d].registrarId, domains[d].requestedBy}

\* Until the next seeding no EPP command purges a seeded default domain, takes
\* its protection away, or moves it on a request made after it was protected.
SeededDefaultsStay ==
  [][seeded /\ seeded' => \A d \in Defaults : SeededStep(d)]_vars

\* Seeding default domains that are complete changes none of their rows and
\* cannot fail, not even under an update prohibition.
SeedingIsIdempotent ==
  [][IsSeeding /\ AllComplete =>
       /\ UNCHANGED <<domains, hosts>>
       /\ phase' # "aborted"]_vars

IsBlocked(statuses) == HasAnyStatus(statuses, UPDATE_PROHIBITED)

IsRespelled(h) ==
  \E a \in hosts[h].addresses : a # config /\ AddressKey[a] = AddressKey[config]

SeedingIsBlocked ==
  \/ config \notin Usable
  \/ \E d \in Defaults : domains[d] # None /\ IsBlocked(domains[d].statuses)
  \/ \E h \in Hosts :
       hosts[h] # None /\ (IsBlocked(hosts[h].statuses) \/ IsRespelled(h))

Throws ==
  \/ phase # "aborted" /\ phase' = "aborted"
  \/ phase = "serving" /\ phase' = "up" /\ ~seeded'

\* A seeding fails for three reasons only: the configured glue is unreadable or
\* not acceptable for a host, an update prohibition is set, or an address is
\* configured in another spelling.  No race, crash or reset makes it fail.
SeedingFailsOnlyIfBlocked == [][Throws => SeedingIsBlocked]_vars

===============================================================================
