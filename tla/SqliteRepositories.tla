-------------------------- MODULE SqliteRepositories --------------------------
(***************************************************************************)
(* The three repositories as the SQLite classes keep them: tables that may *)
(* have been made by the first version of the program, which had fewer     *)
(* columns; lists as JSON text; NULL for what is not there; contacts found *)
(* by lower(id) under a primary key that tells cases apart.  The process   *)
(* may end between calls, and starts again on the tables as they are.      *)
(*                                                                         *)
(* Rows of hosts from before there was a creator_id are left out: setting  *)
(* a host's sponsor writes no creator, so such a host's creator changes    *)
(* with its sponsor, which a record in memory does not do.                 *)
(***************************************************************************)
EXTENDS StoredRecords

CONSTANTS CreateInputs, UpdateInputs, Fixtures, Periods  \* as in MemoryRepositories

ASSUME InputAssumption ==
  /\ \A input \in CreateInputs.contact : IsContactInput(input)
  /\ \A input \in CreateInputs.host : input.addAddresses \subseteq Keyed
  /\ \A input \in CreateInputs.domain : IsDomainInput(input)
  /\ \A input \in UpdateInputs.contact : IsContactInput(input) /\ IsStatusInput(input)
  /\ \A input \in UpdateInputs.host : input.addAddresses \subseteq Keyed /\ IsStatusInput(input)
  /\ \A input \in UpdateInputs.domain : IsDomainUpdate(input) /\ IsStatusInput(input)
  /\ \A fixture \in Fixtures, d \in DomainNames : fixture[d] # None => IsFixture(fixture[d])
  /\ Periods \subseteq Nat \cup {None}

VARIABLES
  contactRows,      \* by id as it was spelled: the PRIMARY KEY
  hostRows,         \* by name
  domainRows,       \* by name
  answer,           \* what the last call returned
  columns,          \* "first": a database of the first version, not yet migrated
  open              \* whether the process runs

vars == <<contactRows, hostRows, domainRows, answer, columns, open>>

-------------------------------------------------------------------------------
(* Rows.                                                                   *)

Json(list) == [json |-> list]

Parse(column, fallback) == IF column = None THEN fallback ELSE column.json

Unparsed(record) == IF record = None THEN None ELSE Json(record)

ContactValues(record) ==
  [id |-> record.id, registrar_id |-> record.registrarId, creator_id |-> record.creatorId,
   statuses_json |-> Json(record.statuses), postal_info_json |-> Json(record.postalInfo),
   details |-> record.details, updated_at |-> record.updatedAt]

MapContactRow(row) ==
  [id |-> row.id, registrarId |-> row.registrar_id,
   creatorId |-> Given(row.creator_id, row.registrar_id),
   statuses |-> Parse(row.statuses_json, {"ok"}), postalInfo |-> Parse(row.postal_info_json, {}),
   details |-> row.details, updatedAt |-> row.updated_at]

HostValues(record) ==
  [registrar_id |-> record.registrarId, creator_id |-> record.creatorId,
   statuses_json |-> Json(record.statuses), addresses_json |-> Json(record.addresses),
   updated_at |-> record.updatedAt]

MapHostRow(row) ==
  [registrarId |-> row.registrar_id, creatorId |-> Given(row.creator_id, row.registrar_id),
   statuses |-> Parse(row.statuses_json, {"ok"}), addresses |-> Parse(row.addresses_json, {}),
   updatedAt |-> row.updated_at]

\* Mutant: an open transfer is not written.
ForgetfulValues(record) ==
  [registrar_id |-> record.registrarId, creator_id |-> Given(record.creatorId, record.registrarId),
   period_years |-> record.periodYears, statuses_json |-> Json(record.statuses),
   nameservers_json |-> Json(record.nameservers), registrant_contact |-> record.registrantContact,
   contacts_json |-> Json(record.contacts), ds_records_json |-> Json(record.dsRecords),
   updated_at |-> record.updatedAt, expires_at |-> record.expiresAt,
   transfer_json |-> None, rgp_status |-> record.rgpStatus]

DomainValues(record) ==
  [registrar_id |-> record.registrarId, creator_id |-> Given(record.creatorId, record.registrarId),
   period_years |-> record.periodYears, statuses_json |-> Json(record.statuses),
   nameservers_json |-> Json(record.nameservers), registrant_contact |-> record.registrantContact,
   contacts_json |-> Json(record.contacts), ds_records_json |-> Json(record.dsRecords),
   updated_at |-> record.updatedAt, expires_at |-> record.expiresAt,
   transfer_json |-> Unparsed(record.transfer), rgp_status |-> record.rgpStatus]

MapDomainRow(row) ==
  NormalizedDomain(
    [registrarId |-> row.registrar_id, creatorId |-> Given(row.creator_id, row.registrar_id),
     periodYears |-> row.period_years, statuses |-> Parse(row.statuses_json, {"ok"}),
     nameservers |-> Parse(row.nameservers_json, {}), registrantContact |-> row.registrant_contact,
     contacts |-> Parse(row.contacts_json, {}), dsRecords |-> Parse(row.ds_records_json, {}),
     expiresAt |-> row.expires_at, transfer |-> Parse(row.transfer_json, None),
     rgpStatus |-> row.rgp_status, updatedAt |-> row.updated_at])

\* ALTER TABLE ... ADD COLUMN fills a column with NULL; a row of the first version
\* has no more than the columns it is read with here.
AddContactColumns(row) ==
  [id |-> row.id, registrar_id |-> row.registrar_id, creator_id |-> None,
   statuses_json |-> row.statuses_json, postal_info_json |-> row.postal_info_json,
   details |-> row.details, updated_at |-> row.updated_at]

AddDomainColumns(row) ==
  [registrar_id |-> row.registrar_id, creator_id |-> None,
   period_years |-> row.period_years, statuses_json |-> row.statuses_json,
   nameservers_json |-> None, registrant_contact |-> None, contacts_json |-> None,
   ds_records_json |-> None, updated_at |-> None, expires_at |-> row.expires_at,
   transfer_json |-> None, rgp_status |-> None]

ContactRow ==
  [id: ContactIds, registrar_id: Registrars, creator_id: Registrars \cup {None},
   statuses_json: [json: SUBSET ObjectStatuses], postal_info_json: [json: SUBSET Keyed],
   details: Texts \cup {None}, updated_at: {"now", None}]

HostRow ==
  [registrar_id: Registrars, creator_id: Registrars,
   statuses_json: [json: SUBSET ObjectStatuses], addresses_json: [json: SUBSET Keyed],
   updated_at: {"now", None}]

DomainRow ==
  [registrar_id: Registrars, creator_id: Registrars \cup {None}, period_years: Nat,
   statuses_json: [json: SUBSET ObjectStatuses],
   nameservers_json: [json: SUBSET DOMAIN Lookup] \cup {None},
   registrant_contact: Texts \cup {None},
   contacts_json: [json: SUBSET ContactIds] \cup {None},
   ds_records_json: [json: SUBSET Keyed] \cup {None}, updated_at: {"now", None}, expires_at: Nat,
   transfer_json: [json: TransferRecord] \cup {None}, rgp_status: RgpStatuses \cup {None}]

ASSUME RowAssumption ==
  /\ None \notin ContactRow \cup HostRow \cup DomainRow
  /\ None \notin [json: (SUBSET ObjectStatuses) \cup (SUBSET Keyed) \cup (SUBSET DOMAIN Lookup)
                          \cup (SUBSET ContactIds) \cup TransferRecord]

FirstContactRow ==
  [id: ContactIds, registrar_id: Registrars, statuses_json: {Json({"ok"})},
   postal_info_json: {Json({})}, details: Texts \cup {None}, updated_at: {"now", None}]

FirstDomainRow ==
  [registrar_id: Registrars, period_years: {1}, statuses_json: {Json({"ok"})}, expires_at: {1}]

ASSUME FirstRowAssumption == None \notin FirstContactRow \cup FirstDomainRow

\* The tables as a start finds or makes them.
CurrentContacts ==
  IF columns = "current" THEN contactRows
  ELSE [i \in ContactIds |->
          IF contactRows[i] = None THEN None ELSE AddContactColumns(contactRows[i])]

CurrentDomains ==
  IF columns = "current" THEN domainRows
  ELSE [d \in DomainNames |->
          IF domainRows[d] = None THEN None ELSE AddDomainColumns(domainRows[d])]

-------------------------------------------------------------------------------
(* The process.                                                            *)

Init ==
  /\ contactRows \in [ContactIds -> FirstContactRow \cup {None}]
  /\ \A i \in ContactIds : contactRows[i] # None => contactRows[i].id = i
  /\ \A i, j \in ContactIds : Lookup[i] = Lookup[j] /\ i # j => None \in {contactRows[i], contactRows[j]}
  /\ hostRows = [h \in HostNames |-> None]
  /\ domainRows \in [DomainNames -> FirstDomainRow \cup {None}]
  /\ answer = None
  /\ columns = "first"
  /\ open = FALSE

\* The constructors migrate the tables.
Open ==
  /\ ~open
  /\ open' = TRUE
  /\ columns' = "current"
  /\ contactRows' = CurrentContacts
  /\ domainRows' = CurrentDomains
  /\ UNCHANGED <<hostRows, answer>>

\* Each call is one transaction, but the rename of a host, which RegistryObjects
\* takes apart.
Close ==
  /\ open
  /\ open' = FALSE
  /\ UNCHANGED <<contactRows, hostRows, domainRows, answer, columns>>

Calls(contactTable, hostTable, domainTable) ==
  /\ contactRows' = contactTable
  /\ hostRows' = hostTable
  /\ domainRows' = domainTable
  /\ UNCHANGED <<columns, open>>

-------------------------------------------------------------------------------
(* Contacts.                                                               *)

\* Mutant: the identifier is compared as it is spelled.
FoundAsSpelled(id) == {i \in ContactIds : contactRows[i] # None /\ i = id}

\* WHERE lower(id) = lower(?)
Found(id) == {i \in ContactIds : contactRows[i] # None /\ Lookup[i] = Lookup[id]}

ContactAnswer(id) ==
  IF Found(id) = {} THEN None ELSE MapContactRow(contactRows[CHOOSE i \in Found(id) : TRUE])

FindContact(id) ==
  /\ answer' = ContactAnswer(id)
  /\ Calls(contactRows, hostRows, domainRows)

CreateContact(id, r, input) ==
  LET created == CreatedContact(id, r, input) IN
  /\ Found(id) = {}
  /\ answer' = created
  /\ Calls([contactRows EXCEPT ![id] = ContactValues(created)], hostRows, domainRows)

\* The row is found in any case and saved under its own.
UpdateContact(id, r, input) ==
  LET old == ContactAnswer(id) IN
  IF old = None \/ old.registrarId # r
  THEN answer' = None /\ Calls(contactRows, hostRows, domainRows)
  ELSE LET new == UpdatedContact(old, input) IN
       /\ answer' = new
       /\ Calls([contactRows EXCEPT ![new.id] = ContactValues(new)], hostRows, domainRows)

DeleteContact(id, r) ==
  LET deleted == {i \in Found(id) : contactRows[i].registrar_id = r} IN
  /\ answer' = Deletion(deleted # {})
  /\ Calls([i \in ContactIds |-> IF i \in deleted THEN None ELSE contactRows[i]], hostRows, domainRows)

-------------------------------------------------------------------------------
(* Hosts.                                                                  *)

HostAnswer(h) == IF hostRows[h] = None THEN None ELSE MapHostRow(hostRows[h])

FindHost(h) ==
  /\ answer' = HostAnswer(h)
  /\ Calls(contactRows, hostRows, domainRows)

CreateHost(h, r, input) ==
  LET created == CreatedHost(r, input) IN
  /\ hostRows[h] = None
  /\ answer' = created
  /\ Calls(contactRows, [hostRows EXCEPT ![h] = HostValues(created)], domainRows)

UpdateHost(h, r, new, input) ==
  LET old == HostAnswer(h) IN
  /\ new = h \/ hostRows[new] = None
  /\ IF old = None \/ old.registrarId # r
     THEN answer' = None /\ Calls(contactRows, hostRows, domainRows)
     ELSE /\ answer' = UpdatedHost(old, input)
          /\ Calls(contactRows,
                   [hostRows EXCEPT ![h] = None, ![new] = HostValues(UpdatedHost(old, input))],
                   domainRows)

DeleteHost(h, r) ==
  LET deleted == hostRows[h] # None /\ hostRows[h].registrar_id = r IN
  /\ answer' = Deletion(deleted)
  /\ Calls(contactRows, IF deleted THEN [hostRows EXCEPT ![h] = None] ELSE hostRows, domainRows)

SponsorColumns(row, record) ==
  [row EXCEPT !.registrar_id = record.registrarId, !.updated_at = record.updatedAt]

\* Two columns are written.
SetHostSponsor(h, r) ==
  IF HostAnswer(h) = None
  THEN answer' = None /\ Calls(contactRows, hostRows, domainRows)
  ELSE LET new == SponsoredHost(HostAnswer(h), r) IN
       /\ answer' = new
       /\ Calls(contactRows, [hostRows EXCEPT ![h] = SponsorColumns(@, new)], domainRows)

-------------------------------------------------------------------------------
(* Domains.                                                                *)

DomainAnswer(d) == IF domainRows[d] = None THEN None ELSE MapDomainRow(domainRows[d])

\* WHERE name = ? AND registrar_id = ?
Authorized(d, r) == domainRows[d] # None /\ domainRows[d].registrar_id = r

FindDomain(d) ==
  /\ answer' = DomainAnswer(d)
  /\ Calls(contactRows, hostRows, domainRows)

\* INSERT, or UPDATE of every column.
WriteDomain(d, record) ==
  /\ answer' = record
  /\ Calls(contactRows, hostRows, [domainRows EXCEPT ![d] = DomainValues(record)])

MissDomain == answer' = None /\ Calls(contactRows, hostRows, domainRows)

CreateDomain(d, r, input) == domainRows[d] = None /\ WriteDomain(d, CreatedDomain(r, input))

UpdateDomain(d, r, input) ==
  IF Authorized(d, r) THEN WriteDomain(d, UpdatedDomain(DomainAnswer(d), input)) ELSE MissDomain

RenewDomain(d, r, years) ==
  IF Authorized(d, r) THEN WriteDomain(d, RenewedDomain(DomainAnswer(d), Given(years, 1)))
                      ELSE MissDomain

SetTransfer(d, operation, r, years) ==
  IF DomainAnswer(d) = None THEN MissDomain
  ELSE WriteDomain(d, TransferredDomain(DomainAnswer(d), operation, r, years))

\* Nothing is written when nothing changes.
SetDomainSponsor(d, r) ==
  IF DomainAnswer(d) = None THEN MissDomain
  ELSE LET new == SponsoredDomain(DomainAnswer(d), r) IN
       IF new = DomainAnswer(d) THEN answer' = new /\ Calls(contactRows, hostRows, domainRows)
                                ELSE WriteDomain(d, new)

DeleteDomain(d, r) ==
  /\ answer' = Deletion(Authorized(d, r))
  /\ Calls(contactRows, hostRows,
           IF Authorized(d, r) THEN [domainRows EXCEPT ![d] = None] ELSE domainRows)

ReplaceHostName(from, to) ==
  /\ answer' = None
  /\ Calls(contactRows, hostRows,
           [d \in DomainNames |->
              IF domainRows[d] = None \/ RenamedLinks(DomainAnswer(d), from, to) = DomainAnswer(d)
              THEN domainRows[d]
              ELSE DomainValues(RenamedLinks(DomainAnswer(d), from, to))])

\* One transaction.
ResetDomains(fixture) ==
  /\ answer' = None
  /\ Calls(contactRows, hostRows,
           [d \in DomainNames |->
              IF fixture[d] = None THEN None ELSE DomainValues(NormalizedDomain(fixture[d]))])

-------------------------------------------------------------------------------
ContactCall ==
  \E id \in ContactIds, r \in Registrars :
    \/ FindContact(id)
    \/ \E input \in CreateInputs.contact : CreateContact(id, r, input)
    \/ \E input \in UpdateInputs.contact : UpdateContact(id, r, input)
    \/ DeleteContact(id, r)

HostCall ==
  \E h \in HostNames, r \in Registrars :
    \/ FindHost(h)
    \/ \E input \in CreateInputs.host : CreateHost(h, r, input)
    \/ \E new \in HostNames, input \in UpdateInputs.host : UpdateHost(h, r, new, input)
    \/ DeleteHost(h, r)
    \/ SetHostSponsor(h, r)

DomainCall ==
  \/ \E d \in DomainNames, r \in Registrars :
       \/ FindDomain(d)
       \/ \E input \in CreateInputs.domain : CreateDomain(d, r, input)
       \/ \E input \in UpdateInputs.domain : UpdateDomain(d, r, input)
       \/ \E years \in Periods : RenewDomain(d, r, years)
       \/ \E operation \in {"request", "approve", "reject", "cancel"}, years \in Periods :
            SetTransfer(d, operation, r, years)
       \/ SetDomainSponsor(d, r)
       \/ DeleteDomain(d, r)
  \/ \E from, to \in HostNames : ReplaceHostName(from, to)
  \/ \E fixture \in Fixtures : ResetDomains(fixture)

Next ==
  \/ Open \/ Close
  \/ open /\ (ContactCall \/ HostCall \/ DomainCall)

Spec == Init /\ [][Next]_vars

-------------------------------------------------------------------------------
TypeOK ==
  /\ contactRows \in [ContactIds -> (IF columns = "first" THEN FirstContactRow ELSE ContactRow) \cup {None}]
  /\ hostRows \in [HostNames -> HostRow \cup {None}]
  /\ domainRows \in [DomainNames -> (IF columns = "first" THEN FirstDomainRow ELSE DomainRow) \cup {None}]
  /\ columns \in {"first", "current"}
  /\ open \in BOOLEAN
  /\ open => columns = "current"

-------------------------------------------------------------------------------
(* What the tables stand for: the records that a start would find in them. *)

StoredContacts ==
  [k \in {Lookup[id] : id \in ContactIds} |->
     LET found == {i \in ContactIds : CurrentContacts[i] # None /\ Lookup[i] = k} IN
     IF found = {} THEN None ELSE MapContactRow(CurrentContacts[CHOOSE i \in found : TRUE])]

StoredHosts == [h \in HostNames |-> HostAnswer(h)]

StoredDomains ==
  [d \in DomainNames |->
     IF CurrentDomains[d] = None THEN None ELSE MapDomainRow(CurrentDomains[d])]

Memory == INSTANCE MemoryRepositories WITH
  contacts <- StoredContacts, hosts <- StoredHosts, domains <- StoredDomains

\* Whatever the calls, their order and the ends of the process between them, each
\* call returns what the in-memory repositories return and leaves the records they
\* hold, in tables that the first version of the program may have made.
ImplementsMemory == Memory!Spec

\* No two contacts differ in case only, although the primary key lets them: an
\* identifier always finds the one contact that a delete by it would remove.
ContactIdsAreUnique ==
  \A i, j \in ContactIds :
    /\ contactRows[i] # None => contactRows[i].id = i
    /\ contactRows[i] # None /\ contactRows[j] # None /\ Lookup[i] = Lookup[j] => i = j

===============================================================================
