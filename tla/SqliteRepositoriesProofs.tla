----------------------- MODULE SqliteRepositoriesProofs -----------------------
(***************************************************************************)
(* Proofs about SqliteRepositories for every value of its constants, up to *)
(* the refinement: the SQLite classes implement the in-memory ones.        *)
(*                                                                         *)
(* The argument has three parts.  A record survives the row it is written  *)
(* to, if its statuses are in normal form; every record a method makes is  *)
(* such a record; and since no two contacts differ in case only, the row   *)
(* that a lookup finds is the record in memory under the lower-case key.   *)
(***************************************************************************)
EXTENDS SqliteRepositories, TLAPS

-------------------------------------------------------------------------------
(* Status lists and columns.                                               *)

\* The normal form of a status list is a status list, and its own normal form.
LEMMA NormalizeFacts ==
  ASSUME NEW S \in SUBSET ObjectStatuses
  PROVE  /\ NormalizeObjectStatuses(S) \in SUBSET ObjectStatuses
         /\ NormalizeObjectStatuses(NormalizeObjectStatuses(S)) = NormalizeObjectStatuses(S)
BY DEF NormalizeObjectStatuses, ObjectStatuses

\* A value that is not NULL is what it is read as.
LEMMA GivenFacts ==
  ASSUME NEW new, NEW old
  PROVE  /\ new # None => Given(new, old) = new
         /\ new = None => Given(new, old) = old
BY DEF Given

\* A list survives its column.
LEMMA JsonFacts ==
  ASSUME NEW fallback,
         NEW list \in (SUBSET ObjectStatuses) \cup (SUBSET Keyed) \cup (SUBSET DOMAIN Lookup)
                        \cup (SUBSET ContactIds) \cup TransferRecord
  PROVE  Parse(Json(list), fallback) = list
<1>1. Json(list) # None
  BY RowAssumption DEF Json
<1>2. QED
  BY <1>1 DEF Parse, Json

-------------------------------------------------------------------------------
(* Contacts: records and rows.                                             *)

LEMMA ContactRoundTrip ==
  ASSUME NEW r \in ContactRecord
  PROVE  /\ ContactValues(r) \in ContactRow
         /\ MapContactRow(ContactValues(r)) = r
         /\ ContactValues(r).id = r.id
         /\ ContactValues(r).registrar_id = r.registrarId
<1>1. r.creatorId # None
  BY NoneAssumption DEF ContactRecord
<1>2. ContactValues(r) \in ContactRow
  BY DEF ContactValues, ContactRow, ContactRecord, Json
<1>3. /\ Parse(Json(r.statuses), {"ok"}) = r.statuses
      /\ Parse(Json(r.postalInfo), {}) = r.postalInfo
  BY JsonFacts DEF ContactRecord
<1>4. MapContactRow(ContactValues(r)) =
        [id |-> r.id, registrarId |-> r.registrarId, creatorId |-> r.creatorId,
         statuses |-> r.statuses, postalInfo |-> r.postalInfo, details |-> r.details,
         updatedAt |-> r.updatedAt]
  BY <1>1, <1>3, GivenFacts DEF MapContactRow, ContactValues
<1>5. r = [id |-> r.id, registrarId |-> r.registrarId, creatorId |-> r.creatorId,
           statuses |-> r.statuses, postalInfo |-> r.postalInfo, details |-> r.details,
           updatedAt |-> r.updatedAt]
  BY DEF ContactRecord
<1>6. QED
  BY <1>2, <1>4, <1>5 DEF ContactValues

LEMMA MapContactRowFacts ==
  ASSUME NEW row \in ContactRow
  PROVE  /\ MapContactRow(row) \in ContactRecord
         /\ MapContactRow(row).id = row.id
         /\ MapContactRow(row).registrarId = row.registrar_id
<1>1. Given(row.creator_id, row.registrar_id) \in Registrars
  BY GivenFacts DEF ContactRow
<1>2. Parse(row.statuses_json, {"ok"}) \in SUBSET ObjectStatuses
  BY RowAssumption DEF ContactRow, Parse
<1>3. Parse(row.postal_info_json, {}) \in SUBSET Keyed
  BY RowAssumption DEF ContactRow, Parse
<1>4. QED
  BY <1>1, <1>2, <1>3 DEF ContactRow, ContactRecord, MapContactRow

\* A database of the first version holds contacts, too.
LEMMA FirstContactFacts ==
  ASSUME NEW row \in FirstContactRow
  PROVE  AddContactColumns(row) \in ContactRow /\ AddContactColumns(row).id = row.id
BY DEF FirstContactRow, AddContactColumns, ContactRow, Json, ObjectStatuses

LEMMA CreatedContactFacts ==
  ASSUME NEW id \in ContactIds, NEW r \in Registrars, NEW input \in CreateInputs.contact
  PROVE  CreatedContact(id, r, input) \in ContactRecord /\ CreatedContact(id, r, input).id = id
BY InputAssumption DEF CreatedContact, ContactRecord, IsContactInput, ObjectStatuses

LEMMA UpdatedContactFacts ==
  ASSUME NEW old \in ContactRecord, NEW input \in UpdateInputs.contact
  PROVE  UpdatedContact(old, input) \in ContactRecord /\ UpdatedContact(old, input).id = old.id
<1> DEFINE S == UpdateList(old.statuses, input.addStatuses, input.remStatuses)
<1>1. S \in SUBSET ObjectStatuses
  BY InputAssumption DEF UpdateList, ContactRecord, IsStatusInput
<1>2. UpdateKeyed(old.postalInfo, input.postalInfo, {}) \in SUBSET Keyed
  BY InputAssumption DEF UpdateKeyed, ContactRecord, IsContactInput
<1>3. Given(input.details, old.details) \in Texts \cup {None}
  BY InputAssumption, GivenFacts DEF ContactRecord, IsContactInput
<1>4. QED
  BY <1>1, <1>2, <1>3, NormalizeFacts DEF UpdatedContact, ContactRecord

-------------------------------------------------------------------------------
(* Hosts: records and rows.                                                *)

LEMMA HostRoundTrip ==
  ASSUME NEW r \in HostRecord
  PROVE  HostValues(r) \in HostRow /\ MapHostRow(HostValues(r)) = r
<1>1. r.creatorId # None
  BY NoneAssumption DEF HostRecord
<1>2. HostValues(r) \in HostRow
  BY DEF HostValues, HostRow, HostRecord, Json
<1>3. /\ Parse(Json(r.statuses), {"ok"}) = r.statuses
      /\ Parse(Json(r.addresses), {}) = r.addresses
  BY JsonFacts DEF HostRecord
<1>4. MapHostRow(HostValues(r)) =
        [registrarId |-> r.registrarId, creatorId |-> r.creatorId, statuses |-> r.statuses,
         addresses |-> r.addresses, updatedAt |-> r.updatedAt]
  BY <1>1, <1>3, GivenFacts DEF MapHostRow, HostValues
<1>5. r = [registrarId |-> r.registrarId, creatorId |-> r.creatorId, statuses |-> r.statuses,
           addresses |-> r.addresses, updatedAt |-> r.updatedAt]
  BY DEF HostRecord
<1>6. QED
  BY <1>2, <1>4, <1>5

LEMMA MapHostRowFacts ==
  ASSUME NEW row \in HostRow
  PROVE  MapHostRow(row) \in HostRecord /\ MapHostRow(row).registrarId = row.registrar_id
<1>1. Given(row.creator_id, row.registrar_id) \in Registrars
  BY GivenFacts DEF HostRow
<1>2. Parse(row.statuses_json, {"ok"}) \in SUBSET ObjectStatuses
  BY RowAssumption DEF HostRow, Parse
<1>3. Parse(row.addresses_json, {}) \in SUBSET Keyed
  BY RowAssumption DEF HostRow, Parse
<1>4. QED
  BY <1>1, <1>2, <1>3 DEF HostRow, HostRecord, MapHostRow

LEMMA CreatedHostFacts ==
  ASSUME NEW r \in Registrars, NEW input \in CreateInputs.host
  PROVE  CreatedHost(r, input) \in HostRecord
BY InputAssumption DEF CreatedHost, HostRecord, ObjectStatuses

LEMMA UpdatedHostFacts ==
  ASSUME NEW old \in HostRecord, NEW input \in UpdateInputs.host
  PROVE  UpdatedHost(old, input) \in HostRecord
<1> DEFINE S == UpdateList(old.statuses, input.addStatuses, input.remStatuses)
<1>1. S \in SUBSET ObjectStatuses
  BY InputAssumption DEF UpdateList, HostRecord, IsStatusInput
<1>2. UpdateKeyed(old.addresses, input.addAddresses, input.remAddresses) \in SUBSET Keyed
  BY InputAssumption DEF UpdateKeyed, HostRecord
<1>3. QED
  BY <1>1, <1>2, NormalizeFacts DEF UpdatedHost, HostRecord

\* The two columns a new sponsor is written to hold all that changes.
LEMMA SponsorFacts ==
  ASSUME NEW row \in HostRow, NEW r \in Registrars
  PROVE  LET new == SponsoredHost(MapHostRow(row), r)
         IN  /\ SponsorColumns(row, new) \in HostRow
             /\ MapHostRow(SponsorColumns(row, new)) = new
<1> DEFINE old == MapHostRow(row)
           new == SponsoredHost(old, r)
           written == SponsorColumns(row, new)
<1>1. old \in HostRecord
  BY MapHostRowFacts
<1>2. new \in HostRecord
  BY <1>1 DEF SponsoredHost, HostRecord
<1>3. /\ written \in HostRow
      /\ written.registrar_id = new.registrarId
      /\ written.creator_id = row.creator_id
      /\ written.statuses_json = row.statuses_json
      /\ written.addresses_json = row.addresses_json
      /\ written.updated_at = new.updatedAt
  BY <1>2 DEF SponsorColumns, HostRow, HostRecord
<1>4. row.creator_id # None
  BY NoneAssumption DEF HostRow
<1>5. /\ new.creatorId = old.creatorId
      /\ new.statuses = old.statuses
      /\ new.addresses = old.addresses
  BY <1>1 DEF SponsoredHost, HostRecord
<1>6. /\ old.creatorId = row.creator_id
      /\ old.statuses = Parse(row.statuses_json, {"ok"})
      /\ old.addresses = Parse(row.addresses_json, {})
  BY <1>4, GivenFacts DEF MapHostRow
<1>7. MapHostRow(written) =
        [registrarId |-> new.registrarId, creatorId |-> new.creatorId,
         statuses |-> new.statuses, addresses |-> new.addresses, updatedAt |-> new.updatedAt]
  BY <1>3, <1>4, <1>5, <1>6, GivenFacts DEF MapHostRow
<1>8. new = [registrarId |-> new.registrarId, creatorId |-> new.creatorId,
             statuses |-> new.statuses, addresses |-> new.addresses, updatedAt |-> new.updatedAt]
  BY <1>2 DEF HostRecord
<1>9. QED
  BY <1>3, <1>7, <1>8

-------------------------------------------------------------------------------
(* Domains: records and rows.                                              *)

\* The records that a repository keeps: those in normal form.
GoodDomain(r) == r \in DomainRecord /\ NormalizeObjectStatuses(r.statuses) = r.statuses

LEMMA NormalizedFacts ==
  ASSUME NEW r, [r EXCEPT !.creatorId = Given(@, r.registrarId)] \in DomainRecord
  PROVE  GoodDomain(NormalizedDomain(r))
<1> DEFINE e == [r EXCEPT !.creatorId = Given(@, r.registrarId)]
           n == [e EXCEPT !.statuses = NormalizeObjectStatuses(e.statuses)]
<1>1. e.statuses \in SUBSET ObjectStatuses
  BY DEF DomainRecord
<1>2. n \in DomainRecord /\ n.statuses = NormalizeObjectStatuses(e.statuses)
  BY <1>1, NormalizeFacts DEF DomainRecord
<1>3. GoodDomain(n)
  BY <1>1, <1>2, NormalizeFacts DEF GoodDomain
<1>4. NormalizedDomain(r) = n
  BY DEF NormalizedDomain
<1>5. QED
  BY <1>3, <1>4

\* A record in normal form is as it would be installed.
LEMMA GoodIsNormalized ==
  ASSUME NEW r, GoodDomain(r)
  PROVE  NormalizedDomain(r) = r
<1>1. r \in DomainRecord
  BY DEF GoodDomain
<1>2. Given(r.creatorId, r.registrarId) = r.creatorId
  BY <1>1, GivenFacts, NoneAssumption DEF DomainRecord
<1>3. r = [r EXCEPT !.creatorId = r.creatorId, !.statuses = r.statuses]
  BY <1>1 DEF DomainRecord
<1>4. QED
  BY <1>2, <1>3 DEF NormalizedDomain, GoodDomain

LEMMA DomainRoundTrip ==
  ASSUME NEW r, GoodDomain(r)
  PROVE  /\ DomainValues(r) \in DomainRow
         /\ MapDomainRow(DomainValues(r)) = r
<1>1. r \in DomainRecord
  BY DEF GoodDomain
<1>2. Given(r.creatorId, r.registrarId) = r.creatorId /\ r.creatorId # None
  BY <1>1, GivenFacts, NoneAssumption DEF DomainRecord
<1>3. Unparsed(r.transfer) \in [json: TransferRecord] \cup {None}
  BY <1>1 DEF Unparsed, DomainRecord, Json
<1>4. DomainValues(r) \in DomainRow
  BY <1>1, <1>2, <1>3 DEF DomainValues, DomainRow, DomainRecord, Json
<1>5. /\ Parse(Json(r.statuses), {"ok"}) = r.statuses
      /\ Parse(Json(r.nameservers), {}) = r.nameservers
      /\ Parse(Json(r.contacts), {}) = r.contacts
      /\ Parse(Json(r.dsRecords), {}) = r.dsRecords
  BY <1>1, JsonFacts DEF DomainRecord
<1>6. Parse(Unparsed(r.transfer), None) = r.transfer
  <2>1. CASE r.transfer = None
    BY <2>1 DEF Unparsed, Parse
  <2>2. CASE r.transfer # None
    BY <1>1, <2>2, JsonFacts DEF Unparsed, DomainRecord
  <2>3. QED
    BY <2>1, <2>2
<1>7. MapDomainRow(DomainValues(r)) =
        NormalizedDomain(
          [registrarId |-> r.registrarId, creatorId |-> r.creatorId, periodYears |-> r.periodYears,
           statuses |-> r.statuses, nameservers |-> r.nameservers,
           registrantContact |-> r.registrantContact, contacts |-> r.contacts,
           dsRecords |-> r.dsRecords, expiresAt |-> r.expiresAt, transfer |-> r.transfer,
           rgpStatus |-> r.rgpStatus, updatedAt |-> r.updatedAt])
  BY <1>2, <1>5, <1>6, GivenFacts DEF MapDomainRow, DomainValues
<1>8. r = [registrarId |-> r.registrarId, creatorId |-> r.creatorId, periodYears |-> r.periodYears,
           statuses |-> r.statuses, nameservers |-> r.nameservers,
           registrantContact |-> r.registrantContact, contacts |-> r.contacts,
           dsRecords |-> r.dsRecords, expiresAt |-> r.expiresAt, transfer |-> r.transfer,
           rgpStatus |-> r.rgpStatus, updatedAt |-> r.updatedAt]
  BY <1>1 DEF DomainRecord
<1>9. QED
  BY <1>4, <1>7, <1>8, GoodIsNormalized

LEMMA MapDomainRowFacts ==
  ASSUME NEW row \in DomainRow
  PROVE  GoodDomain(MapDomainRow(row)) /\ MapDomainRow(row).registrarId = row.registrar_id
<1> DEFINE read ==
        [registrarId |-> row.registrar_id, creatorId |-> Given(row.creator_id, row.registrar_id),
         periodYears |-> row.period_years, statuses |-> Parse(row.statuses_json, {"ok"}),
         nameservers |-> Parse(row.nameservers_json, {}),
         registrantContact |-> row.registrant_contact,
         contacts |-> Parse(row.contacts_json, {}), dsRecords |-> Parse(row.ds_records_json, {}),
         expiresAt |-> row.expires_at, transfer |-> Parse(row.transfer_json, None),
         rgpStatus |-> row.rgp_status, updatedAt |-> row.updated_at]
<1>1. Given(row.creator_id, row.registrar_id) \in Registrars
  BY GivenFacts DEF DomainRow
<1>2. Parse(row.statuses_json, {"ok"}) \in SUBSET ObjectStatuses
  BY RowAssumption DEF DomainRow, Parse
<1>3. Parse(row.nameservers_json, {}) \in SUBSET DOMAIN Lookup
  BY DEF DomainRow, Parse
<1>4. Parse(row.contacts_json, {}) \in SUBSET ContactIds
  BY DEF DomainRow, Parse
<1>5. Parse(row.ds_records_json, {}) \in SUBSET Keyed
  BY DEF DomainRow, Parse
<1>6. Parse(row.transfer_json, None) \in TransferRecord \cup {None}
  BY DEF DomainRow, Parse
<1>7. read \in DomainRecord
  BY <1>1, <1>2, <1>3, <1>4, <1>5, <1>6 DEF DomainRow, DomainRecord
<1> HIDE DEF read
<1>8. Given(read.creatorId, read.registrarId) = read.creatorId
  BY <1>7, GivenFacts, NoneAssumption DEF DomainRecord
<1>9. [read EXCEPT !.creatorId = Given(@, read.registrarId)] \in DomainRecord
  BY <1>7, <1>8 DEF DomainRecord
<1>10. MapDomainRow(row) = NormalizedDomain(read)
  BY DEF MapDomainRow, read
<1>11. NormalizedDomain(read).registrarId = row.registrar_id
  <2>1. NormalizedDomain(read).registrarId = read.registrarId
    BY <1>7 DEF NormalizedDomain, DomainRecord
  <2>2. read.registrarId = row.registrar_id
    BY DEF read
  <2>3. QED
    BY <2>1, <2>2
<1>12. QED
  BY <1>9, <1>10, <1>11, NormalizedFacts

\* A database of the first version holds domains, too.
LEMMA FirstDomainFacts ==
  ASSUME NEW row \in FirstDomainRow
  PROVE  AddDomainColumns(row) \in DomainRow
BY DEF FirstDomainRow, AddDomainColumns, DomainRow, Json, ObjectStatuses

LEMMA CreatedDomainFacts ==
  ASSUME NEW r \in Registrars, NEW input \in CreateInputs.domain
  PROVE  GoodDomain(CreatedDomain(r, input))
<1>1. Given(input.periodYears, 1) \in Nat
  BY InputAssumption, GivenFacts DEF IsDomainInput
<1>2. CreatedDomain(r, input) \in DomainRecord
  BY <1>1, InputAssumption
     DEF CreatedDomain, DomainRecord, IsDomainInput, ObjectStatuses, RgpStatuses
<1>3. CreatedDomain(r, input).statuses = {"ok"}
  BY DEF CreatedDomain
<1>4. QED
  BY <1>2, <1>3 DEF GoodDomain, NormalizeObjectStatuses

\* Domains whose statuses have just been brought into normal form.
LEMMA GoodByNormalizing ==
  ASSUME NEW r \in DomainRecord, NEW S \in SUBSET ObjectStatuses,
         r.statuses = NormalizeObjectStatuses(S)
  PROVE  GoodDomain(r)
BY NormalizeFacts DEF GoodDomain

LEMMA UpdatedDomainFacts ==
  ASSUME NEW old, GoodDomain(old), NEW input \in UpdateInputs.domain
  PROVE  GoodDomain(UpdatedDomain(old, input))
<1> DEFINE S == UpdateList(old.statuses, input.addStatuses, input.remStatuses)
           new == UpdatedDomain(old, input)
<1>1. old \in DomainRecord
  BY DEF GoodDomain
<1>2. IsDomainUpdate(input) /\ IsStatusInput(input)
  BY InputAssumption
<1>3. S \in SUBSET ObjectStatuses
  BY <1>1, <1>2 DEF UpdateList, DomainRecord, IsStatusInput
<1>4. /\ UpdateList(old.nameservers, input.addNameservers, input.remNameservers)
           \in SUBSET DOMAIN Lookup
      /\ UpdateList(old.contacts, input.addContacts, input.remContacts) \in SUBSET ContactIds
      /\ UpdateKeyed(old.dsRecords, input.addDs, input.remDs) \in SUBSET Keyed
  BY <1>1, <1>2 DEF UpdateList, UpdateKeyed, DomainRecord, IsDomainUpdate
<1>5. Given(input.registrantContact, old.registrantContact) \in Texts \cup {None}
  <2>1. input.registrantContact \in Texts \cup {None}
    BY <1>2 DEF IsDomainUpdate
  <2>2. old.registrantContact \in Texts \cup {None}
    BY <1>1 DEF DomainRecord
  <2>3. QED
    BY <2>1, <2>2 DEF Given
<1>6. ResolveRgpStatus(old.rgpStatus, input.rgpStatus) \in RgpStatuses \cup {None}
  BY <1>1, <1>2 DEF ResolveRgpStatus, DomainRecord, IsDomainUpdate
<1>7. NormalizeObjectStatuses(S) \in SUBSET ObjectStatuses
  BY <1>3, NormalizeFacts
<1>8. new \in DomainRecord /\ new.statuses = NormalizeObjectStatuses(S)
  BY <1>1, <1>4, <1>5, <1>6, <1>7 DEF UpdatedDomain, DomainRecord
<1>9. QED
  BY <1>3, <1>8, GoodByNormalizing

LEMMA RenewedDomainFacts ==
  ASSUME NEW old, GoodDomain(old), NEW years \in Nat
  PROVE  GoodDomain(RenewedDomain(old, years))
<1> DEFINE new == RenewedDomain(old, years)
<1>1. old \in DomainRecord
  BY DEF GoodDomain
<1>2. old.expiresAt + years \in Nat
  BY <1>1 DEF DomainRecord
<1>3. new \in DomainRecord /\ new.statuses = old.statuses
  BY <1>1, <1>2 DEF RenewedDomain, DomainRecord, RgpStatuses
<1>4. QED
  BY <1>3 DEF GoodDomain

LEMMA TransferredDomainFacts ==
  ASSUME NEW old, GoodDomain(old), NEW operation \in {"request", "approve", "reject", "cancel"},
         NEW r \in Registrars, NEW periodYears \in Nat \cup {None}
  PROVE  GoodDomain(TransferredDomain(old, operation, r, periodYears))
<1> DEFINE was == TransferOf(old)
           status == TransferStatusFor(operation)
           approved == status = "approved"
           years == Given(periodYears, Given(was.periodYears, 1))
           S == IF status = "pending" THEN old.statuses \cup {"pendingTransfer"}
                                      ELSE old.statuses \ {"pendingTransfer"}
           transfer == [status |-> status, requestedBy |-> Given(was.requestedBy, r),
                        periodYears |-> years,
                        losingRegistrar |-> Given(was.losingRegistrar, old.registrarId)]
           new == TransferredDomain(old, operation, r, periodYears)
<1>1. old \in DomainRecord
  BY DEF GoodDomain
<1>2. status \in {"pending", "approved", "rejected", "cancelled"}
  BY DEF TransferStatusFor
<1>3. /\ was.requestedBy \in Registrars \cup {None}
      /\ was.losingRegistrar \in Registrars \cup {None}
      /\ was.periodYears \in Nat \cup {None}
  BY <1>1 DEF TransferOf, DomainRecord, TransferRecord
<1>4. /\ Given(was.requestedBy, r) \in Registrars
      /\ Given(was.losingRegistrar, old.registrarId) \in Registrars
      /\ years \in Nat
  BY <1>1, <1>3, GivenFacts DEF DomainRecord
<1>5. transfer \in TransferRecord
  BY <1>2, <1>4 DEF TransferRecord
<1>6. S \in SUBSET ObjectStatuses
  BY <1>1 DEF DomainRecord, ObjectStatuses
<1>7. NormalizeObjectStatuses(S) \in SUBSET ObjectStatuses
  BY <1>6, NormalizeFacts
<1>8. old.expiresAt + years \in Nat
  BY <1>1, <1>4 DEF DomainRecord
<1>9. new = [old EXCEPT
               !.registrarId = IF approved THEN Given(was.requestedBy, r) ELSE @,
               !.expiresAt = IF approved THEN @ + years ELSE @,
               !.rgpStatus = IF approved THEN "transferPeriod" ELSE @,
               !.statuses = NormalizeObjectStatuses(S),
               !.transfer = transfer,
               !.updatedAt = "now"]
  BY DEF TransferredDomain
<1> HIDE DEF was, status, years, S, transfer, new
<1>10. new \in DomainRecord /\ new.statuses = NormalizeObjectStatuses(S)
  BY <1>1, <1>4, <1>5, <1>7, <1>8, <1>9 DEF DomainRecord, RgpStatuses
<1>11. QED
  BY <1>6, <1>10, GoodByNormalizing DEF new

LEMMA SponsoredDomainFacts ==
  ASSUME NEW old, GoodDomain(old), NEW r \in Registrars
  PROVE  GoodDomain(SponsoredDomain(old, r))
<1> DEFINE new == [old EXCEPT !.registrarId = r, !.transfer = None, !.updatedAt = "now",
                     !.statuses = NormalizeObjectStatuses(@ \ {"pendingTransfer"})]
<1>1. old \in DomainRecord /\ old.statuses \ {"pendingTransfer"} \in SUBSET ObjectStatuses
  BY DEF GoodDomain, DomainRecord
<1>2. NormalizeObjectStatuses(old.statuses \ {"pendingTransfer"}) \in SUBSET ObjectStatuses
  BY <1>1, NormalizeFacts
<1>3. /\ new \in DomainRecord
      /\ new.statuses = NormalizeObjectStatuses(old.statuses \ {"pendingTransfer"})
  BY <1>1, <1>2 DEF DomainRecord
<1>4. GoodDomain(new)
  BY <1>1, <1>3, GoodByNormalizing
<1>5. QED
  BY <1>4 DEF SponsoredDomain

LEMMA RenamedLinksFacts ==
  ASSUME NEW old, GoodDomain(old), NEW from \in HostNames, NEW to \in HostNames
  PROVE  GoodDomain(RenamedLinks(old, from, to))
<1> DEFINE links == {IF Lookup[ns] = from THEN to ELSE ns : ns \in old.nameservers}
           new == [old EXCEPT !.nameservers = links, !.updatedAt = "now"]
<1>1. old \in DomainRecord
  BY DEF GoodDomain
<1>2. links \in SUBSET DOMAIN Lookup
  BY <1>1, LookupAssumption DEF DomainRecord
<1>3. new \in DomainRecord /\ new.statuses = old.statuses
  BY <1>1, <1>2 DEF DomainRecord
<1>4. GoodDomain(new)
  BY <1>3 DEF GoodDomain
<1>5. QED
  BY <1>4 DEF RenamedLinks

-------------------------------------------------------------------------------
(* Tables and the records in them.                                         *)

Keys == {Lookup[id] : id \in ContactIds}

ContactTables == [ContactIds -> ContactRow \cup {None}]
HostTables    == [HostNames -> HostRow \cup {None}]
DomainTables  == [DomainNames -> DomainRow \cup {None}]

\* ContactIdsAreUnique, of any table.
IsUnique(rows) ==
  \A i, j \in ContactIds :
    /\ rows[i] # None => rows[i].id = i
    /\ rows[i] # None /\ rows[j] # None /\ Lookup[i] = Lookup[j] => i = j

Under(rows, k) == {i \in ContactIds : rows[i] # None /\ Lookup[i] = k}

ContactsOf(rows) ==
  [k \in Keys |->
     IF Under(rows, k) = {} THEN None ELSE MapContactRow(rows[CHOOSE i \in Under(rows, k) : TRUE])]

HostsOf(rows) == [h \in HostNames |-> IF rows[h] = None THEN None ELSE MapHostRow(rows[h])]

DomainsOf(rows) == [d \in DomainNames |-> IF rows[d] = None THEN None ELSE MapDomainRow(rows[d])]

\* The row that a key finds is the only one under it.
LEMMA OnlyRow ==
  ASSUME NEW rows, IsUnique(rows), NEW i \in ContactIds, rows[i] # None
  PROVE  /\ Under(rows, Lookup[i]) = {i}
         /\ ContactsOf(rows)[Lookup[i]] = MapContactRow(rows[i])
<1> DEFINE found == Under(rows, Lookup[i])
<1>1. found = {i}
  BY DEF Under, IsUnique
<1>2. (CHOOSE j \in found : TRUE) = i
  BY <1>1
<1>3. Lookup[i] \in Keys /\ found # {}
  BY <1>1 DEF Keys
<1>4. QED
  BY <1>1, <1>2, <1>3 DEF ContactsOf

LEMMA NoRow ==
  ASSUME NEW rows, NEW k \in Keys, \A i \in ContactIds : Lookup[i] = k => rows[i] = None
  PROVE  Under(rows, k) = {} /\ ContactsOf(rows)[k] = None
BY DEF Under, ContactsOf

\* What is under a key depends on its rows alone.
LEMMA SameRows ==
  ASSUME NEW rows, NEW others, IsUnique(rows), IsUnique(others), NEW k \in Keys,
         \A i \in ContactIds : Lookup[i] = k => rows[i] = others[i]
  PROVE  ContactsOf(rows)[k] = ContactsOf(others)[k]
<1>1. CASE \E i \in ContactIds : Lookup[i] = k /\ rows[i] # None
  <2>1. PICK i \in ContactIds : Lookup[i] = k /\ rows[i] # None
    BY <1>1
  <2>2. others[i] = rows[i]
    BY <2>1
  <2>3. QED
    BY <2>1, <2>2, OnlyRow
<1>2. CASE \A i \in ContactIds : Lookup[i] = k => rows[i] = None
  BY <1>2, NoRow
<1>3. QED
  BY <1>1, <1>2

\* The records of a table of contacts, as they are found.
LEMMA ContactsOfFacts ==
  ASSUME NEW rows \in ContactTables, IsUnique(rows)
  PROVE  /\ ContactsOf(rows) \in [Keys -> ContactRecord \cup {None}]
         /\ \A k \in Keys : ContactsOf(rows)[k] = None <=> Under(rows, k) = {}
<1>1. ASSUME NEW k \in Keys
      PROVE  /\ ContactsOf(rows)[k] \in ContactRecord \cup {None}
             /\ ContactsOf(rows)[k] = None <=> Under(rows, k) = {}
  <2>1. CASE \E i \in ContactIds : Lookup[i] = k /\ rows[i] # None
    <3>1. PICK i \in ContactIds : Lookup[i] = k /\ rows[i] # None
      BY <2>1
    <3>2. Under(rows, k) = {i} /\ ContactsOf(rows)[k] = MapContactRow(rows[i])
      BY <3>1, OnlyRow
    <3>3. MapContactRow(rows[i]) \in ContactRecord
      BY <3>1, MapContactRowFacts DEF ContactTables
    <3>4. QED
      BY <3>2, <3>3, NoneAssumption
  <2>2. CASE \A i \in ContactIds : Lookup[i] = k => rows[i] = None
    BY <2>2, NoRow, <1>1
  <2>3. QED
    BY <2>1, <2>2
<1>2. ContactsOf(rows) = [k \in Keys |-> ContactsOf(rows)[k]]
  BY DEF ContactsOf
<1>3. QED
  BY <1>1, <1>2

\* A row is written where no other row is under its key.
LEMMA WrittenContact ==
  ASSUME NEW rows \in ContactTables, IsUnique(rows), NEW r \in ContactRecord,
         \A j \in ContactIds : Lookup[j] = Lookup[r.id] /\ rows[j] # None => j = r.id
  PROVE  LET written == [rows EXCEPT ![r.id] = ContactValues(r)]
         IN  /\ written \in ContactTables
             /\ IsUnique(written)
             /\ ContactsOf(written) = [ContactsOf(rows) EXCEPT ![Lookup[r.id]] = r]
<1> DEFINE written == [rows EXCEPT ![r.id] = ContactValues(r)]
<1>1. r.id \in ContactIds
  BY DEF ContactRecord
<1>2. ContactValues(r) \in ContactRow /\ ContactValues(r).id = r.id
  BY ContactRoundTrip
<1>3. ContactValues(r) # None
  BY <1>2, RowAssumption
<1>4. written \in ContactTables
  BY <1>1, <1>2 DEF ContactTables
<1>5. \A i \in ContactIds : written[i] = IF i = r.id THEN ContactValues(r) ELSE rows[i]
  BY DEF ContactTables
<1> HIDE DEF written
<1>6. IsUnique(written)
  BY <1>1, <1>2, <1>5 DEF IsUnique
<1>7. ContactsOf(written)[Lookup[r.id]] = r
  <2>1. written[r.id] = ContactValues(r)
    BY <1>1, <1>5
  <2>2. ContactsOf(written)[Lookup[r.id]] = MapContactRow(ContactValues(r))
    BY <1>1, <1>3, <1>6, <2>1, OnlyRow
  <2>3. QED
    BY <2>2, ContactRoundTrip
<1>8. ASSUME NEW k \in Keys, k # Lookup[r.id]
      PROVE  ContactsOf(written)[k] = ContactsOf(rows)[k]
  <2>1. \A i \in ContactIds : Lookup[i] = k => written[i] = rows[i]
    BY <1>5, <1>8
  <2>2. QED
    BY <1>6, <1>8, <2>1, SameRows
<1>9. Lookup[r.id] \in Keys
  BY <1>1 DEF Keys
<1>10. DOMAIN ContactsOf(written) = Keys /\ DOMAIN ContactsOf(rows) = Keys
  BY DEF ContactsOf
<1>11. ContactsOf(written) = [k \in Keys |-> ContactsOf(written)[k]]
  BY DEF ContactsOf
<1>12. [ContactsOf(rows) EXCEPT ![Lookup[r.id]] = r]
          = [k \in Keys |-> IF k = Lookup[r.id] THEN r ELSE ContactsOf(rows)[k]]
  BY <1>10
<1>13. ContactsOf(written) = [ContactsOf(rows) EXCEPT ![Lookup[r.id]] = r]
  BY <1>7, <1>8, <1>9, <1>11, <1>12
<1>14. QED
  BY <1>4, <1>6, <1>13 DEF written

\* The rows of one registrar under a key are deleted.
LEMMA DeletedContact ==
  ASSUME NEW rows \in ContactTables, IsUnique(rows), NEW k \in Keys, NEW r \in Registrars
  PROVE  LET deleted == {i \in Under(rows, k) : rows[i].registrar_id = r}
             left    == [i \in ContactIds |-> IF i \in deleted THEN None ELSE rows[i]]
             old     == ContactsOf(rows)[k]
         IN  /\ left \in ContactTables
             /\ IsUnique(left)
             /\ deleted # {} <=> old # None /\ old.registrarId = r
             /\ deleted # {} => ContactsOf(left) = [ContactsOf(rows) EXCEPT ![k] = None]
             /\ deleted = {} => left = rows
<1> DEFINE deleted == {i \in Under(rows, k) : rows[i].registrar_id = r}
           left    == [i \in ContactIds |-> IF i \in deleted THEN None ELSE rows[i]]
           old     == ContactsOf(rows)[k]
<1>1. \A i \in deleted : i \in ContactIds /\ Lookup[i] = k /\ rows[i] # None
  BY DEF Under
<1>2. left \in ContactTables /\ \A i \in ContactIds : left[i] = IF i \in deleted THEN None ELSE rows[i]
  BY DEF ContactTables
<1>3. IsUnique(left)
  BY <1>2 DEF IsUnique
<1>4. deleted # {} <=> old # None /\ old.registrarId = r
  <2>1. CASE \E i \in ContactIds : Lookup[i] = k /\ rows[i] # None
    <3>1. PICK i \in ContactIds : Lookup[i] = k /\ rows[i] # None
      BY <2>1
    <3>2. Under(rows, k) = {i} /\ old = MapContactRow(rows[i])
      BY <3>1, OnlyRow
    <3>3. rows[i] \in ContactRow
      BY <3>1 DEF ContactTables
    <3>4. old \in ContactRecord /\ old.registrarId = rows[i].registrar_id
      BY <3>2, <3>3, MapContactRowFacts
    <3>5. old # None
      BY <3>4, NoneAssumption
    <3>6. deleted # {} <=> rows[i].registrar_id = r
      BY <3>2
    <3> HIDE DEF deleted
    <3>7. QED
      BY <3>4, <3>5, <3>6
  <2>2. CASE \A i \in ContactIds : Lookup[i] = k => rows[i] = None
    BY <2>2, NoRow
  <2>3. QED
    BY <2>1, <2>2
<1>5. ASSUME deleted # {}
      PROVE  ContactsOf(left) = [ContactsOf(rows) EXCEPT ![k] = None]
  <2>1. PICK i \in ContactIds : i \in deleted /\ Lookup[i] = k /\ rows[i] # None
    BY <1>1, <1>5
  <2>2. \A j \in ContactIds : Lookup[j] = k => left[j] = None
    <3>1. \A j \in ContactIds : Lookup[j] = k /\ rows[j] # None => j = i
      BY <2>1 DEF IsUnique
    <3>2. QED
      BY <1>2, <2>1, <3>1
  <2> HIDE DEF left, deleted
  <2>3. ContactsOf(left)[k] = None
    BY <2>2, NoRow
  <2>4. ASSUME NEW other \in Keys, other # k
        PROVE  ContactsOf(left)[other] = ContactsOf(rows)[other]
    <3>1. \A j \in ContactIds : Lookup[j] = other => left[j] = rows[j]
      BY <1>1, <1>2, <2>4
    <3>2. QED
      BY <1>3, <3>1, <2>4, SameRows
  <2>5. ContactsOf(left) = [j \in Keys |-> ContactsOf(left)[j]]
    BY DEF ContactsOf
  <2>6. [ContactsOf(rows) EXCEPT ![k] = None]
           = [j \in Keys |-> IF j = k THEN None ELSE ContactsOf(rows)[j]]
    <3>1. DOMAIN ContactsOf(rows) = Keys
      BY DEF ContactsOf
    <3>2. QED
      BY <3>1
  <2>7. QED
    BY <2>3, <2>4, <2>5, <2>6
<1>6. deleted = {} => left = rows
  BY DEF ContactTables
<1>7. QED
  BY <1>2, <1>3, <1>4, <1>5, <1>6

\* Of hosts, a table is read row by row.
LEMMA HostsOfFacts ==
  ASSUME NEW rows \in HostTables, NEW h \in HostNames
  PROVE  /\ HostsOf(rows)[h] \in HostRecord \cup {None}
         /\ HostsOf(rows)[h] = None <=> rows[h] = None
         /\ rows[h] # None => /\ rows[h] \in HostRow
                              /\ HostsOf(rows)[h] = MapHostRow(rows[h])
                              /\ HostsOf(rows)[h].registrarId = rows[h].registrar_id
<1>1. rows[h] # None => rows[h] \in HostRow
  BY DEF HostTables
<1>2. HostsOf(rows)[h] = IF rows[h] = None THEN None ELSE MapHostRow(rows[h])
  BY DEF HostsOf
<1>3. QED
  BY <1>1, <1>2, MapHostRowFacts, NoneAssumption

\* And written row by row.
LEMMA WrittenHost ==
  ASSUME NEW rows \in HostTables, NEW h \in HostNames, NEW row \in HostRow \cup {None}
  PROVE  LET written == [rows EXCEPT ![h] = row]
         IN  /\ written \in HostTables
             /\ HostsOf(written) =
                  [HostsOf(rows) EXCEPT ![h] = IF row = None THEN None ELSE MapHostRow(row)]
<1> DEFINE written == [rows EXCEPT ![h] = row]
<1>1. written \in HostTables /\ \A n \in HostNames : written[n] = IF n = h THEN row ELSE rows[n]
  BY DEF HostTables
<1> HIDE DEF written
<1>2. \A n \in HostNames :
        HostsOf(written)[n] = IF n = h THEN IF row = None THEN None ELSE MapHostRow(row)
                                       ELSE HostsOf(rows)[n]
  BY <1>1 DEF HostsOf
<1>3. HostsOf(written) = [n \in HostNames |-> HostsOf(written)[n]]
  BY DEF HostsOf
<1>4. DOMAIN HostsOf(rows) = HostNames
  BY DEF HostsOf
<1>5. HostsOf(written) = [HostsOf(rows) EXCEPT ![h] = IF row = None THEN None ELSE MapHostRow(row)]
  BY <1>2, <1>3, <1>4
<1>6. QED
  BY <1>1, <1>5 DEF written

\* Of domains likewise.
LEMMA DomainsOfFacts ==
  ASSUME NEW rows \in DomainTables, NEW d \in DomainNames
  PROVE  /\ DomainsOf(rows)[d] \in DomainRecord \cup {None}
         /\ DomainsOf(rows)[d] = None <=> rows[d] = None
         /\ rows[d] # None => /\ rows[d] \in DomainRow
                              /\ DomainsOf(rows)[d] = MapDomainRow(rows[d])
                              /\ GoodDomain(DomainsOf(rows)[d])
                              /\ DomainsOf(rows)[d].registrarId = rows[d].registrar_id
<1>1. rows[d] # None => rows[d] \in DomainRow
  BY DEF DomainTables
<1>2. DomainsOf(rows)[d] = IF rows[d] = None THEN None ELSE MapDomainRow(rows[d])
  BY DEF DomainsOf
<1>3. rows[d] # None => MapDomainRow(rows[d]) \in DomainRecord
  BY <1>1, MapDomainRowFacts DEF GoodDomain
<1>4. QED
  BY <1>1, <1>2, <1>3, MapDomainRowFacts, NoneAssumption

LEMMA WrittenDomain ==
  ASSUME NEW rows \in DomainTables, NEW d \in DomainNames, NEW r, GoodDomain(r)
  PROVE  LET written == [rows EXCEPT ![d] = DomainValues(r)]
         IN  /\ written \in DomainTables
             /\ DomainsOf(written) = [DomainsOf(rows) EXCEPT ![d] = r]
<1> DEFINE written == [rows EXCEPT ![d] = DomainValues(r)]
<1>1. DomainValues(r) \in DomainRow /\ MapDomainRow(DomainValues(r)) = r
  BY DomainRoundTrip
<1>2. DomainValues(r) # None
  BY <1>1, RowAssumption
<1>3. /\ written \in DomainTables
      /\ \A n \in DomainNames : written[n] = IF n = d THEN DomainValues(r) ELSE rows[n]
  BY <1>1 DEF DomainTables
<1> HIDE DEF written
<1>4. \A n \in DomainNames : DomainsOf(written)[n] = IF n = d THEN r ELSE DomainsOf(rows)[n]
  BY <1>1, <1>2, <1>3 DEF DomainsOf
<1>5. DomainsOf(written) = [n \in DomainNames |-> DomainsOf(written)[n]]
  BY DEF DomainsOf
<1>6. DOMAIN DomainsOf(rows) = DomainNames
  BY DEF DomainsOf
<1>7. DomainsOf(written) = [DomainsOf(rows) EXCEPT ![d] = r]
  BY <1>4, <1>5, <1>6
<1>8. QED
  BY <1>3, <1>7 DEF written

LEMMA DeletedDomain ==
  ASSUME NEW rows \in DomainTables, NEW d \in DomainNames
  PROVE  LET left == [rows EXCEPT ![d] = None]
         IN  /\ left \in DomainTables
             /\ DomainsOf(left) = [DomainsOf(rows) EXCEPT ![d] = None]
<1> DEFINE left == [rows EXCEPT ![d] = None]
<1>1. left \in DomainTables /\ \A n \in DomainNames : left[n] = IF n = d THEN None ELSE rows[n]
  BY DEF DomainTables
<1> HIDE DEF left
<1>2. \A n \in DomainNames : DomainsOf(left)[n] = IF n = d THEN None ELSE DomainsOf(rows)[n]
  BY <1>1 DEF DomainsOf
<1>3. DomainsOf(left) = [n \in DomainNames |-> DomainsOf(left)[n]]
  BY DEF DomainsOf
<1>4. DOMAIN DomainsOf(rows) = DomainNames
  BY DEF DomainsOf
<1>5. DomainsOf(left) = [DomainsOf(rows) EXCEPT ![d] = None]
  BY <1>2, <1>3, <1>4
<1>6. QED
  BY <1>1, <1>5 DEF left

-------------------------------------------------------------------------------
(* The invariant, and what the tables stand for.                           *)

IInv == TypeOK /\ ContactIdsAreUnique

\* The tables as a start finds or makes them have rows of today's columns.
LEMMA CurrentFacts ==
  ASSUME IInv
  PROVE  /\ CurrentContacts \in ContactTables /\ IsUnique(CurrentContacts)
         /\ CurrentDomains \in DomainTables
         /\ hostRows \in HostTables
<1>1. CASE columns = "current"
  BY <1>1 DEF IInv, TypeOK, ContactIdsAreUnique, CurrentContacts, CurrentDomains,
              ContactTables, DomainTables, HostTables, IsUnique
<1>2. CASE columns = "first"
  <2>1. /\ contactRows \in [ContactIds -> FirstContactRow \cup {None}]
        /\ domainRows \in [DomainNames -> FirstDomainRow \cup {None}]
    BY <1>2 DEF IInv, TypeOK
  <2>2. ASSUME NEW i \in ContactIds
        PROVE  /\ CurrentContacts[i] \in ContactRow \cup {None}
               /\ CurrentContacts[i] # None => /\ contactRows[i] # None
                                               /\ CurrentContacts[i].id = contactRows[i].id
    <3>1. CurrentContacts[i] =
            IF contactRows[i] = None THEN None ELSE AddContactColumns(contactRows[i])
      BY <1>2 DEF CurrentContacts
    <3>2. QED
      BY <2>1, <3>1, FirstContactFacts
  <2>3. CurrentContacts = [i \in ContactIds |-> CurrentContacts[i]]
    BY <1>2 DEF CurrentContacts
  <2>4. CurrentContacts \in ContactTables
    BY <2>2, <2>3 DEF ContactTables
  <2>5. IsUnique(CurrentContacts)
    BY <2>2 DEF IInv, ContactIdsAreUnique, IsUnique
  <2>6. ASSUME NEW d \in DomainNames
        PROVE  CurrentDomains[d] \in DomainRow \cup {None}
    <3>1. CurrentDomains[d] =
            IF domainRows[d] = None THEN None ELSE AddDomainColumns(domainRows[d])
      BY <1>2 DEF CurrentDomains
    <3>2. QED
      BY <2>1, <3>1, FirstDomainFacts
  <2>7. CurrentDomains = [d \in DomainNames |-> CurrentDomains[d]]
    BY <1>2 DEF CurrentDomains
  <2>8. CurrentDomains \in DomainTables
    BY <2>6, <2>7 DEF DomainTables
  <2>9. QED
    BY <2>4, <2>5, <2>8 DEF IInv, TypeOK, HostTables
<1>3. QED
  BY <1>1, <1>2 DEF IInv, TypeOK

\* What the refinement mapping makes of the tables.
LEMMA StoredFacts ==
  /\ StoredContacts = ContactsOf(CurrentContacts)
  /\ StoredHosts = HostsOf(hostRows)
  /\ StoredDomains = DomainsOf(CurrentDomains)
BY DEF StoredContacts, StoredHosts, StoredDomains, ContactsOf, HostsOf, DomainsOf,
       Keys, Under, HostAnswer

\* While the process runs, the tables are the current ones.
LEMMA OpenFacts ==
  ASSUME IInv, open
  PROVE  /\ contactRows \in ContactTables /\ IsUnique(contactRows)
         /\ hostRows \in HostTables
         /\ domainRows \in DomainTables
         /\ StoredContacts = ContactsOf(contactRows)
         /\ StoredHosts = HostsOf(hostRows)
         /\ StoredDomains = DomainsOf(domainRows)
<1>1. columns = "current"
  BY DEF IInv, TypeOK
<1>2. CurrentContacts = contactRows /\ CurrentDomains = domainRows
  BY <1>1 DEF CurrentContacts, CurrentDomains
<1>3. QED
  BY <1>2, CurrentFacts, StoredFacts

\* A call leaves tables of today's columns, and these are what it leaves.
LEMMA CallFacts ==
  ASSUME IInv, open, NEW ct \in ContactTables, IsUnique(ct), NEW ht \in HostTables,
         NEW dt \in DomainTables, Calls(ct, ht, dt)
  PROVE  /\ IInv'
         /\ StoredContacts' = ContactsOf(ct)
         /\ StoredHosts' = HostsOf(ht)
         /\ StoredDomains' = DomainsOf(dt)
<1>1. columns = "current" /\ columns' = "current" /\ open' = open
  BY DEF IInv, TypeOK, Calls
<1>2. contactRows' = ct /\ hostRows' = ht /\ domainRows' = dt
  BY DEF Calls
<1>3. TypeOK'
  BY <1>1, <1>2 DEF TypeOK, IInv, ContactTables, HostTables, DomainTables
<1>4. ContactIdsAreUnique'
  BY <1>2 DEF ContactIdsAreUnique, IsUnique
<1>5. CurrentContacts' = ct /\ CurrentDomains' = dt
  BY <1>1, <1>2 DEF CurrentContacts, CurrentDomains
<1>6. StoredContacts' = ContactsOf(CurrentContacts') /\ StoredDomains' = DomainsOf(CurrentDomains')
  BY DEF StoredContacts, StoredDomains, ContactsOf, DomainsOf, Keys, Under
<1>7. StoredHosts' = HostsOf(hostRows')
  BY DEF StoredHosts, HostsOf, HostAnswer
<1>8. QED
  BY <1>2, <1>3, <1>4, <1>5, <1>6, <1>7 DEF IInv

LEMMA InitInvariant == Init => IInv
<1> SUFFICES ASSUME Init PROVE IInv
  OBVIOUS
<1>1. TypeOK
  BY DEF Init, TypeOK
<1>2. ContactIdsAreUnique
  BY DEF Init, ContactIdsAreUnique
<1>3. QED
  BY <1>1, <1>2 DEF IInv

\* Both modules speak of the same records.
LEMMA SameRecords ==
  /\ Memory!ContactRecord = ContactRecord
  /\ Memory!HostRecord = HostRecord
  /\ Memory!DomainRecord = DomainRecord
  /\ Memory!Lookups = Keys
<1>1. /\ Memory!UPDATE_PROHIBITED = UPDATE_PROHIBITED
      /\ Memory!DELETE_PROHIBITED = DELETE_PROHIBITED
      /\ Memory!TRANSFER_PROHIBITED = TRANSFER_PROHIBITED
      /\ Memory!CLIENT_SETTABLE_DOMAIN_STATUSES = CLIENT_SETTABLE_DOMAIN_STATUSES
  BY DEF Memory!UPDATE_PROHIBITED, UPDATE_PROHIBITED, Memory!DELETE_PROHIBITED, DELETE_PROHIBITED,
         Memory!TRANSFER_PROHIBITED, TRANSFER_PROHIBITED,
         Memory!CLIENT_SETTABLE_DOMAIN_STATUSES, CLIENT_SETTABLE_DOMAIN_STATUSES
<1>2. Memory!ObjectStatuses = ObjectStatuses
  BY <1>1 DEF Memory!ObjectStatuses, ObjectStatuses
<1>3. Memory!Keyed = Keyed /\ Memory!RgpStatuses = RgpStatuses
  BY DEF Memory!Keyed, Keyed, Memory!RgpStatuses, RgpStatuses
<1>4. Memory!TransferRecord = TransferRecord
  BY DEF Memory!TransferRecord, TransferRecord
<1>5. Memory!ContactRecord = ContactRecord
  BY <1>2, <1>3 DEF Memory!ContactRecord, ContactRecord
<1>6. Memory!HostRecord = HostRecord
  BY <1>2, <1>3 DEF Memory!HostRecord, HostRecord
<1>7. Memory!DomainRecord = DomainRecord
  BY <1>2, <1>3, <1>4 DEF Memory!DomainRecord, DomainRecord
<1>8. Memory!Lookups = Keys
  BY DEF Memory!Lookups, Keys
<1>9. QED
  BY <1>5, <1>6, <1>7, <1>8

\* The records found at the first start are records that may be in memory.
LEMMA InitMemory == Init => Memory!Init
<1> SUFFICES ASSUME Init PROVE Memory!Init
  OBVIOUS
<1>1. IInv
  BY InitInvariant
<1>2. StoredContacts \in [Keys -> ContactRecord \cup {None}]
  BY <1>1, CurrentFacts, StoredFacts, ContactsOfFacts
<1>3. StoredHosts \in [HostNames -> HostRecord \cup {None}]
  <2>1. \A h \in HostNames : HostsOf(hostRows)[h] \in HostRecord \cup {None}
    BY <1>1, CurrentFacts, HostsOfFacts
  <2>2. StoredHosts = [h \in HostNames |-> HostsOf(hostRows)[h]]
    BY StoredFacts DEF HostsOf
  <2>3. QED
    BY <2>1, <2>2
<1>4. StoredDomains \in [DomainNames -> DomainRecord \cup {None}]
  <2>1. \A d \in DomainNames : DomainsOf(CurrentDomains)[d] \in DomainRecord \cup {None}
    BY <1>1, CurrentFacts, DomainsOfFacts
  <2>2. StoredDomains = [d \in DomainNames |-> DomainsOf(CurrentDomains)[d]]
    BY StoredFacts DEF DomainsOf
  <2>3. QED
    BY <2>1, <2>2
<1>5. answer = None
  BY DEF Init
<1>6. QED
  BY <1>2, <1>3, <1>4, <1>5, SameRecords DEF Memory!Init

\* Neither a start nor an end of the process changes what the tables stand for.
LEMMA OpenIsInvisible ==
  ASSUME IInv, Open
  PROVE  IInv' /\ UNCHANGED <<StoredContacts, StoredHosts, StoredDomains, answer>>
<1>1. /\ columns' = "current"
      /\ contactRows' = CurrentContacts
      /\ domainRows' = CurrentDomains
      /\ hostRows' = hostRows
      /\ answer' = answer
      /\ open' = TRUE
  BY DEF Open
<1>2. CurrentContacts' = CurrentContacts /\ CurrentDomains' = CurrentDomains
  BY <1>1 DEF CurrentContacts, CurrentDomains
<1>3. /\ CurrentContacts \in ContactTables /\ IsUnique(CurrentContacts)
      /\ CurrentDomains \in DomainTables
      /\ hostRows \in HostTables
  BY CurrentFacts
<1>4. TypeOK'
  BY <1>1, <1>3 DEF TypeOK, ContactTables, DomainTables, HostTables
<1>5. ContactIdsAreUnique'
  BY <1>1, <1>3 DEF ContactIdsAreUnique, IsUnique
<1>6. /\ StoredContacts' = StoredContacts
      /\ StoredHosts' = StoredHosts
      /\ StoredDomains' = StoredDomains
  BY <1>1, <1>2 DEF StoredContacts, StoredHosts, StoredDomains, HostAnswer
<1>7. QED
  BY <1>1, <1>4, <1>5, <1>6 DEF IInv

LEMMA CloseIsInvisible ==
  ASSUME IInv, Close
  PROVE  IInv' /\ UNCHANGED <<StoredContacts, StoredHosts, StoredDomains, answer>>
<1>1. UNCHANGED <<contactRows, hostRows, domainRows, answer, columns>> /\ open' = FALSE
  BY DEF Close
<1>2. IInv'
  BY <1>1 DEF IInv, TypeOK, ContactIdsAreUnique
<1>3. CurrentContacts' = CurrentContacts /\ CurrentDomains' = CurrentDomains
  BY <1>1 DEF CurrentContacts, CurrentDomains
<1>4. QED
  BY <1>1, <1>2, <1>3 DEF StoredContacts, StoredHosts, StoredDomains, HostAnswer

\* And both make new records alike.
LEMMA SameMethods ==
  ASSUME NEW id, NEW r, NEW input, NEW record, NEW x, NEW y
  PROVE  /\ Memory!CreatedContact(id, r, input) = CreatedContact(id, r, input)
         /\ Memory!UpdatedContact(record, input) = UpdatedContact(record, input)
         /\ Memory!CreatedHost(r, input) = CreatedHost(r, input)
         /\ Memory!UpdatedHost(record, input) = UpdatedHost(record, input)
         /\ Memory!SponsoredHost(record, r) = SponsoredHost(record, r)
         /\ Memory!CreatedDomain(r, input) = CreatedDomain(r, input)
         /\ Memory!UpdatedDomain(record, input) = UpdatedDomain(record, input)
         /\ Memory!RenewedDomain(record, x) = RenewedDomain(record, x)
         /\ Memory!TransferredDomain(record, x, r, y) = TransferredDomain(record, x, r, y)
         /\ Memory!SponsoredDomain(record, r) = SponsoredDomain(record, r)
         /\ Memory!RenamedLinks(record, x, y) = RenamedLinks(record, x, y)
         /\ Memory!NormalizedDomain(record) = NormalizedDomain(record)
         /\ Memory!Given(x, y) = Given(x, y)
         /\ Memory!Deletion(x) = Deletion(x)
<1>1. /\ \A S : Memory!NormalizeObjectStatuses(S) = NormalizeObjectStatuses(S)
      /\ \A S, add, rem : Memory!UpdateList(S, add, rem) = UpdateList(S, add, rem)
      /\ \A old, new : Memory!Given(new, old) = Given(new, old)
      /\ \A old, new : Memory!ResolveRgpStatus(old, new) = ResolveRgpStatus(old, new)
  BY DEF Memory!NormalizeObjectStatuses, NormalizeObjectStatuses, Memory!UpdateList, UpdateList,
         Memory!Given, Given, Memory!ResolveRgpStatus, ResolveRgpStatus
<1>2. \A S : Memory!KeysOf(S) = KeysOf(S)
  BY DEF Memory!KeysOf, KeysOf
<1>3. \A S, add, rem : Memory!UpdateKeyed(S, add, rem) = UpdateKeyed(S, add, rem)
  BY <1>2 DEF Memory!UpdateKeyed, UpdateKeyed
<1>4. Memory!CreatedContact(id, r, input) = CreatedContact(id, r, input)
  BY DEF Memory!CreatedContact, CreatedContact
<1>5. Memory!UpdatedContact(record, input) = UpdatedContact(record, input)
  BY <1>1, <1>3 DEF Memory!UpdatedContact, UpdatedContact
<1>6. Memory!CreatedHost(r, input) = CreatedHost(r, input)
  BY DEF Memory!CreatedHost, CreatedHost
<1>7. Memory!UpdatedHost(record, input) = UpdatedHost(record, input)
  BY <1>1, <1>3 DEF Memory!UpdatedHost, UpdatedHost
<1>8. Memory!SponsoredHost(record, r) = SponsoredHost(record, r)
  BY DEF Memory!SponsoredHost, SponsoredHost
<1>9. Memory!CreatedDomain(r, input) = CreatedDomain(r, input)
  BY <1>1 DEF Memory!CreatedDomain, CreatedDomain
<1>10. Memory!UpdatedDomain(record, input) = UpdatedDomain(record, input)
  BY <1>1, <1>3 DEF Memory!UpdatedDomain, UpdatedDomain
<1>11. Memory!RenewedDomain(record, x) = RenewedDomain(record, x)
  BY DEF Memory!RenewedDomain, RenewedDomain
<1>12. Memory!TransferredDomain(record, x, r, y) = TransferredDomain(record, x, r, y)
  <2>1. Memory!TransferOf(record) = TransferOf(record)
    BY DEF Memory!TransferOf, TransferOf
  <2>2. Memory!TransferStatusFor(x) = TransferStatusFor(x)
    BY DEF Memory!TransferStatusFor, TransferStatusFor
  <2>3. QED
    BY <1>1, <2>1, <2>2 DEF Memory!TransferredDomain, TransferredDomain
<1>13. Memory!SponsoredDomain(record, r) = SponsoredDomain(record, r)
  BY <1>1 DEF Memory!SponsoredDomain, SponsoredDomain
<1>14. Memory!RenamedLinks(record, x, y) = RenamedLinks(record, x, y)
  BY DEF Memory!RenamedLinks, RenamedLinks
<1>15. Memory!NormalizedDomain(record) = NormalizedDomain(record)
  BY <1>1 DEF Memory!NormalizedDomain, NormalizedDomain
<1>16. Memory!Given(x, y) = Given(x, y) /\ Memory!Deletion(x) = Deletion(x)
  BY <1>1 DEF Memory!Deletion, Deletion
<1>17. QED
  BY <1>4, <1>5, <1>6, <1>7, <1>8, <1>9, <1>10, <1>11, <1>12, <1>13, <1>14, <1>15, <1>16

-------------------------------------------------------------------------------
(* Calls about contacts.                                                   *)

\* What a call about contacts sees of them.
LEMMA ContactAnswerFacts ==
  ASSUME IInv, open, NEW id \in ContactIds
  PROVE  /\ ContactAnswer(id) = StoredContacts[Lookup[id]]
         /\ StoredContacts[Lookup[id]] \in ContactRecord \cup {None}
         /\ StoredContacts[Lookup[id]] = None <=> Found(id) = {}
         /\ Lookup[id] \in Keys
         /\ DOMAIN StoredContacts = Keys
<1>1. Lookup[id] \in Keys /\ Found(id) = Under(contactRows, Lookup[id])
  BY DEF Keys, Found, Under
<1>2. StoredContacts = ContactsOf(contactRows)
  BY OpenFacts
<1>3. ContactAnswer(id) = StoredContacts[Lookup[id]]
  BY <1>1, <1>2 DEF ContactAnswer, ContactsOf
<1>4. DOMAIN StoredContacts = Keys
  BY <1>2 DEF ContactsOf
<1>5. QED
  BY <1>1, <1>2, <1>3, <1>4, OpenFacts, ContactsOfFacts

\* A call that leaves the tables alone.
LEMMA ReadFacts ==
  ASSUME IInv, open, Calls(contactRows, hostRows, domainRows)
  PROVE  /\ IInv'
         /\ StoredContacts' = StoredContacts
         /\ StoredHosts' = StoredHosts
         /\ StoredDomains' = StoredDomains
BY OpenFacts, CallFacts

LEMMA FindContactRefines ==
  ASSUME IInv, open, NEW id \in ContactIds, FindContact(id)
  PROVE  IInv' /\ Memory!FindContact(id)
<1>1. Calls(contactRows, hostRows, domainRows) /\ answer' = ContactAnswer(id)
  BY DEF FindContact
<1>2. QED
  BY <1>1, ReadFacts, ContactAnswerFacts DEF Memory!FindContact

\* A record written under a key that no other record has.
LEMMA WriteContactFacts ==
  ASSUME IInv, open, NEW r \in ContactRecord,
         \A j \in ContactIds : Lookup[j] = Lookup[r.id] /\ contactRows[j] # None => j = r.id,
         Calls([contactRows EXCEPT ![r.id] = ContactValues(r)], hostRows, domainRows)
  PROVE  /\ IInv'
         /\ StoredContacts' = [StoredContacts EXCEPT ![Lookup[r.id]] = r]
         /\ StoredHosts' = StoredHosts
         /\ StoredDomains' = StoredDomains
<1> DEFINE written == [contactRows EXCEPT ![r.id] = ContactValues(r)]
<1>1. /\ written \in ContactTables
      /\ IsUnique(written)
      /\ ContactsOf(written) = [ContactsOf(contactRows) EXCEPT ![Lookup[r.id]] = r]
  BY OpenFacts, WrittenContact
<1>2. Calls(written, hostRows, domainRows)
  OBVIOUS
<1> HIDE DEF written
<1>3. QED
  BY <1>1, <1>2, OpenFacts, CallFacts

LEMMA CreateContactRefines ==
  ASSUME IInv, open, NEW id \in ContactIds, NEW r \in Registrars,
         NEW input \in CreateInputs.contact, CreateContact(id, r, input)
  PROVE  IInv' /\ Memory!CreateContact(id, r, input)
<1> DEFINE created == CreatedContact(id, r, input)
<1>1. created \in ContactRecord /\ created.id = id
  BY CreatedContactFacts
<1>2. /\ Found(id) = {}
      /\ answer' = created
      /\ Calls([contactRows EXCEPT ![created.id] = ContactValues(created)], hostRows, domainRows)
  BY <1>1 DEF CreateContact
<1>3. \A j \in ContactIds : Lookup[j] = Lookup[created.id] /\ contactRows[j] # None => j = created.id
  BY <1>1, <1>2 DEF Found
<1>4. Memory!CreatedContact(id, r, input) = created
  BY SameMethods
<1> HIDE DEF created
<1>5. /\ IInv'
      /\ StoredContacts' = [StoredContacts EXCEPT ![Lookup[id]] = created]
      /\ StoredHosts' = StoredHosts
      /\ StoredDomains' = StoredDomains
  BY <1>1, <1>2, <1>3, WriteContactFacts
<1>6. StoredContacts[Lookup[id]] = None
  BY <1>2, ContactAnswerFacts
<1>7. QED
  BY <1>2, <1>4, <1>5, <1>6 DEF Memory!CreateContact

LEMMA UpdateContactRefines ==
  ASSUME IInv, open, NEW id \in ContactIds, NEW r \in Registrars,
         NEW input \in UpdateInputs.contact, UpdateContact(id, r, input)
  PROVE  IInv' /\ Memory!UpdateContact(id, r, input)
<1> DEFINE old == ContactAnswer(id)
           new == UpdatedContact(old, input)
<1>1. /\ old = StoredContacts[Lookup[id]]
      /\ old \in ContactRecord \cup {None}
  BY ContactAnswerFacts
<1>2. CASE old = None \/ old.registrarId # r
  <2>1. answer' = None /\ Calls(contactRows, hostRows, domainRows)
    BY <1>2 DEF UpdateContact
  <2>2. ~Memory!IsSponsored(StoredContacts[Lookup[id]], r)
    BY <1>1, <1>2 DEF Memory!IsSponsored
  <2>3. QED
    BY <2>1, <2>2, ReadFacts DEF Memory!UpdateContact
<1>3. CASE old # None /\ old.registrarId = r
  <2>1. new \in ContactRecord /\ new.id = old.id
    BY <1>1, <1>3, UpdatedContactFacts
  <2>2. answer' = new /\ Calls([contactRows EXCEPT ![new.id] = ContactValues(new)], hostRows, domainRows)
    BY <1>3 DEF UpdateContact
  <2>3. Memory!IsSponsored(StoredContacts[Lookup[id]], r)
    BY <1>1, <1>3 DEF Memory!IsSponsored
  <2>4. PICK i \in Found(id) : TRUE
    BY <1>1, <1>3, ContactAnswerFacts
  <2>5. i \in ContactIds /\ contactRows[i] # None /\ Lookup[i] = Lookup[id]
    BY <2>4 DEF Found
  <2>6. old = MapContactRow(contactRows[i])
    BY <1>1, <2>5, OpenFacts, OnlyRow
  <2>7. contactRows[i] \in ContactRow /\ contactRows[i].id = i
    BY <2>5, OpenFacts DEF ContactTables, IsUnique
  <2>8. old.id = i
    BY <2>6, <2>7, MapContactRowFacts
  <2>9. \A j \in ContactIds : Lookup[j] = Lookup[new.id] /\ contactRows[j] # None => j = new.id
    BY <2>1, <2>5, <2>8, OpenFacts DEF IsUnique
  <2>10. Memory!UpdatedContact(StoredContacts[Lookup[id]], input) = new
    BY <1>1, SameMethods
  <2>11. new # None /\ Lookup[new.id] = Lookup[id]
    BY <2>1, <2>5, <2>8, NoneAssumption
  <2> HIDE DEF new, old
  <2>12. /\ IInv'
         /\ StoredContacts' = [StoredContacts EXCEPT ![Lookup[id]] = new]
         /\ StoredHosts' = StoredHosts
         /\ StoredDomains' = StoredDomains
    BY <2>1, <2>2, <2>9, <2>11, WriteContactFacts
  <2>13. QED
    BY <2>2, <2>3, <2>10, <2>11, <2>12 DEF Memory!UpdateContact
<1>4. QED
  BY <1>2, <1>3

LEMMA DeleteContactRefines ==
  ASSUME IInv, open, NEW id \in ContactIds, NEW r \in Registrars, DeleteContact(id, r)
  PROVE  IInv' /\ Memory!DeleteContact(id, r)
<1> DEFINE deleted == {i \in Under(contactRows, Lookup[id]) : contactRows[i].registrar_id = r}
           left == [i \in ContactIds |-> IF i \in deleted THEN None ELSE contactRows[i]]
           old == StoredContacts[Lookup[id]]
<1>1. Lookup[id] \in Keys /\ Found(id) = Under(contactRows, Lookup[id])
  BY DEF Keys, Found, Under
<1>2. answer' = Deletion(deleted # {}) /\ Calls(left, hostRows, domainRows)
  BY <1>1 DEF DeleteContact
<1>3. /\ left \in ContactTables
      /\ IsUnique(left)
      /\ deleted # {} <=> old # None /\ old.registrarId = r
      /\ deleted # {} => ContactsOf(left) = [StoredContacts EXCEPT ![Lookup[id]] = None]
      /\ deleted = {} => left = contactRows
  BY <1>1, OpenFacts, DeletedContact
<1> HIDE DEF left, deleted, old
<1>4. /\ IInv'
      /\ StoredContacts' = ContactsOf(left)
      /\ StoredHosts' = StoredHosts
      /\ StoredDomains' = StoredDomains
  BY <1>2, <1>3, OpenFacts, CallFacts
<1>5. Memory!IsSponsored(StoredContacts[Lookup[id]], r) <=> deleted # {}
  BY <1>3 DEF Memory!IsSponsored, old
<1>6. Memory!Deletion(Memory!IsSponsored(StoredContacts[Lookup[id]], r)) = Deletion(deleted # {})
  <2>1. Memory!IsSponsored(StoredContacts[Lookup[id]], r) = (deleted # {})
    BY <1>5 DEF Memory!IsSponsored
  <2>2. QED
    BY <2>1, SameMethods
<1>7. deleted = {} => StoredContacts' = StoredContacts
  BY <1>3, <1>4, OpenFacts
<1>8. QED
  BY <1>2, <1>3, <1>4, <1>5, <1>6, <1>7 DEF Memory!DeleteContact

-------------------------------------------------------------------------------
(* Calls about hosts.                                                      *)

\* What a call about hosts sees of them.
LEMMA HostAnswerFacts ==
  ASSUME IInv, open, NEW h \in HostNames
  PROVE  /\ HostAnswer(h) = StoredHosts[h]
         /\ StoredHosts[h] \in HostRecord \cup {None}
         /\ StoredHosts[h] = None <=> hostRows[h] = None
         /\ hostRows[h] # None => /\ hostRows[h] \in HostRow
                                  /\ StoredHosts[h] = MapHostRow(hostRows[h])
                                  /\ StoredHosts[h].registrarId = hostRows[h].registrar_id
         /\ DOMAIN StoredHosts = HostNames
<1>1. HostAnswer(h) = StoredHosts[h] /\ DOMAIN StoredHosts = HostNames
  BY DEF StoredHosts
<1>2. hostRows \in HostTables /\ StoredHosts = HostsOf(hostRows)
  BY OpenFacts
<1>3. QED
  BY <1>1, <1>2, HostsOfFacts

\* A record of a host is written.
LEMMA WriteHostFacts ==
  ASSUME IInv, open, NEW h \in HostNames, NEW row \in HostRow \cup {None},
         Calls(contactRows, [hostRows EXCEPT ![h] = row], domainRows)
  PROVE  /\ IInv'
         /\ StoredContacts' = StoredContacts
         /\ StoredHosts' = [StoredHosts EXCEPT ![h] = IF row = None THEN None ELSE MapHostRow(row)]
         /\ StoredDomains' = StoredDomains
<1> DEFINE written == [hostRows EXCEPT ![h] = row]
<1>1. /\ written \in HostTables
      /\ HostsOf(written) =
           [HostsOf(hostRows) EXCEPT ![h] = IF row = None THEN None ELSE MapHostRow(row)]
  BY OpenFacts, WrittenHost
<1>2. Calls(contactRows, written, domainRows)
  OBVIOUS
<1> HIDE DEF written
<1>3. QED
  BY <1>1, <1>2, OpenFacts, CallFacts

LEMMA FindHostRefines ==
  ASSUME IInv, open, NEW h \in HostNames, FindHost(h)
  PROVE  IInv' /\ Memory!FindHost(h)
<1>1. Calls(contactRows, hostRows, domainRows) /\ answer' = HostAnswer(h)
  BY DEF FindHost
<1>2. QED
  BY <1>1, ReadFacts, HostAnswerFacts DEF Memory!FindHost

LEMMA CreateHostRefines ==
  ASSUME IInv, open, NEW h \in HostNames, NEW r \in Registrars,
         NEW input \in CreateInputs.host, CreateHost(h, r, input)
  PROVE  IInv' /\ Memory!CreateHost(h, r, input)
<1> DEFINE created == CreatedHost(r, input)
           row == HostValues(created)
<1>1. row \in HostRow /\ MapHostRow(row) = created
  BY CreatedHostFacts, HostRoundTrip
<1>2. /\ hostRows[h] = None
      /\ answer' = created
      /\ Calls(contactRows, [hostRows EXCEPT ![h] = row], domainRows)
  BY DEF CreateHost
<1>3. Memory!CreatedHost(r, input) = created
  BY SameMethods
<1> HIDE DEF created, row
<1>4. row # None
  BY <1>1, RowAssumption
<1>5. /\ IInv'
      /\ StoredContacts' = StoredContacts
      /\ StoredHosts' = [StoredHosts EXCEPT ![h] = created]
      /\ StoredDomains' = StoredDomains
  BY <1>1, <1>2, <1>4, WriteHostFacts
<1>6. QED
  BY <1>2, <1>3, <1>5, HostAnswerFacts DEF Memory!CreateHost

LEMMA UpdateHostRefines ==
  ASSUME IInv, open, NEW h \in HostNames, NEW r \in Registrars, NEW new \in HostNames,
         NEW input \in UpdateInputs.host, UpdateHost(h, r, new, input)
  PROVE  IInv' /\ Memory!UpdateHost(h, r, new, input)
<1> DEFINE old == HostAnswer(h)
           record == UpdatedHost(old, input)
           row == HostValues(record)
           mid == [hostRows EXCEPT ![h] = None]
           written == [mid EXCEPT ![new] = row]
<1>1. /\ old = StoredHosts[h]
      /\ old \in HostRecord \cup {None}
      /\ StoredHosts[new] = None <=> hostRows[new] = None
      /\ DOMAIN StoredHosts = HostNames
  BY HostAnswerFacts
<1>2. new = h \/ StoredHosts[new] = None
  BY <1>1 DEF UpdateHost
<1>3. CASE old = None \/ old.registrarId # r
  <2>1. answer' = None /\ Calls(contactRows, hostRows, domainRows)
    BY <1>3 DEF UpdateHost
  <2>2. ~Memory!IsSponsored(StoredHosts[h], r)
    BY <1>1, <1>3 DEF Memory!IsSponsored
  <2>3. QED
    BY <1>2, <2>1, <2>2, ReadFacts DEF Memory!UpdateHost
<1>4. CASE old # None /\ old.registrarId = r
  <2>1. record \in HostRecord
    BY <1>1, <1>4, UpdatedHostFacts
  <2>2. row \in HostRow /\ MapHostRow(row) = record
    BY <2>1, HostRoundTrip
  <2>3. row # None /\ record # None
    BY <2>1, <2>2, RowAssumption, NoneAssumption
  <2>4. answer' = record /\ Calls(contactRows, written, domainRows)
    BY <1>4 DEF UpdateHost
  <2>5. Memory!IsSponsored(StoredHosts[h], r)
    BY <1>1, <1>4 DEF Memory!IsSponsored
  <2>6. Memory!UpdatedHost(StoredHosts[h], input) = record
    BY <1>1, SameMethods
  <2>7. mid \in HostTables /\ HostsOf(mid) = [HostsOf(hostRows) EXCEPT ![h] = None]
    <3>1. None \in HostRow \cup {None} /\ hostRows \in HostTables
      BY OpenFacts
    <3>2. /\ mid \in HostTables
          /\ HostsOf(mid) =
               [HostsOf(hostRows) EXCEPT ![h] = IF None = None THEN None ELSE MapHostRow(None)]
      BY <3>1, WrittenHost
    <3>3. QED
      BY <3>2
  <2> HIDE DEF mid, row, record, old
  <2>8. written \in HostTables /\ HostsOf(written) = [HostsOf(mid) EXCEPT ![new] = record]
    <3>1. mid \in HostTables /\ row \in HostRow \cup {None}
      BY <2>2, <2>7
    <3>2. /\ [mid EXCEPT ![new] = row] \in HostTables
          /\ HostsOf([mid EXCEPT ![new] = row]) =
               [HostsOf(mid) EXCEPT ![new] = IF row = None THEN None ELSE MapHostRow(row)]
      BY <3>1, WrittenHost
    <3>3. QED
      BY <2>2, <2>3, <3>2
  <2> HIDE DEF written
  <2>9. /\ IInv'
        /\ StoredContacts' = StoredContacts
        /\ StoredHosts' = HostsOf(written)
        /\ StoredDomains' = StoredDomains
    BY <2>4, <2>8, OpenFacts, CallFacts
  <2>10. HostsOf(written) = [StoredHosts EXCEPT ![h] = None, ![new] = record]
    BY <2>7, <2>8, OpenFacts
  <2>11. QED
    BY <1>2, <2>3, <2>4, <2>5, <2>6, <2>9, <2>10 DEF Memory!UpdateHost
<1>5. QED
  BY <1>3, <1>4

LEMMA DeleteHostRefines ==
  ASSUME IInv, open, NEW h \in HostNames, NEW r \in Registrars, DeleteHost(h, r)
  PROVE  IInv' /\ Memory!DeleteHost(h, r)
<1> DEFINE deleted == hostRows[h] # None /\ hostRows[h].registrar_id = r
<1>1. Memory!IsSponsored(StoredHosts[h], r) = deleted
  BY HostAnswerFacts DEF Memory!IsSponsored
<1>2. answer' = Deletion(deleted)
  BY DEF DeleteHost
<1>3. Memory!Deletion(deleted) = Deletion(deleted)
  BY SameMethods
<1>4. CASE deleted
  <2>1. Calls(contactRows, [hostRows EXCEPT ![h] = None], domainRows)
    BY <1>4 DEF DeleteHost
  <2>2. /\ IInv'
        /\ StoredContacts' = StoredContacts
        /\ StoredHosts' = [StoredHosts EXCEPT ![h] = None]
        /\ StoredDomains' = StoredDomains
    BY <2>1, WriteHostFacts
  <2> HIDE DEF deleted
  <2>3. QED
    BY <1>1, <1>2, <1>3, <1>4, <2>2 DEF Memory!DeleteHost
<1>5. CASE ~deleted
  <2>1. Calls(contactRows, hostRows, domainRows)
    BY <1>5 DEF DeleteHost
  <2> HIDE DEF deleted
  <2>2. QED
    BY <1>1, <1>2, <1>3, <1>5, <2>1, ReadFacts DEF Memory!DeleteHost
<1>6. QED
  BY <1>4, <1>5

LEMMA SetHostSponsorRefines ==
  ASSUME IInv, open, NEW h \in HostNames, NEW r \in Registrars, SetHostSponsor(h, r)
  PROVE  IInv' /\ Memory!SetHostSponsor(h, r)
<1> DEFINE new == SponsoredHost(HostAnswer(h), r)
           row == SponsorColumns(hostRows[h], new)
<1>1. CASE hostRows[h] = None
  <2>1. HostAnswer(h) = None /\ StoredHosts[h] = None
    BY <1>1, HostAnswerFacts
  <2>2. answer' = None /\ Calls(contactRows, hostRows, domainRows)
    BY <2>1 DEF SetHostSponsor
  <2>3. StoredHosts = [StoredHosts EXCEPT ![h] = None]
    BY <2>1, HostAnswerFacts DEF StoredHosts
  <2>4. QED
    BY <2>1, <2>2, <2>3, ReadFacts DEF Memory!SetHostSponsor
<1>2. CASE hostRows[h] # None
  <2>1. /\ HostAnswer(h) = StoredHosts[h]
        /\ HostAnswer(h) = MapHostRow(hostRows[h])
        /\ HostAnswer(h) # None
        /\ hostRows[h] \in HostRow
    BY <1>2, HostAnswerFacts
  <2>2. answer' = new /\ Calls(contactRows, [hostRows EXCEPT ![h] = row], domainRows)
    BY <2>1 DEF SetHostSponsor
  <2>3. row \in HostRow /\ MapHostRow(row) = new
    BY <2>1, SponsorFacts
  <2>4. row # None
    BY <2>3, RowAssumption
  <2>5. Memory!SponsoredHost(StoredHosts[h], r) = new
    BY <2>1, SameMethods
  <2> HIDE DEF new, row
  <2>6. /\ IInv'
        /\ StoredContacts' = StoredContacts
        /\ StoredHosts' = [StoredHosts EXCEPT ![h] = new]
        /\ StoredDomains' = StoredDomains
    BY <2>2, <2>3, <2>4, WriteHostFacts
  <2>7. QED
    BY <2>1, <2>2, <2>5, <2>6 DEF Memory!SetHostSponsor
<1>3. QED
  BY <1>1, <1>2

-------------------------------------------------------------------------------
(* Calls about domains.                                                    *)

\* What a call about domains sees of them.
LEMMA DomainAnswerFacts ==
  ASSUME IInv, open, NEW d \in DomainNames
  PROVE  /\ DomainAnswer(d) = StoredDomains[d]
         /\ StoredDomains[d] \in DomainRecord \cup {None}
         /\ StoredDomains[d] = None <=> domainRows[d] = None
         /\ domainRows[d] # None => /\ GoodDomain(StoredDomains[d])
                                    /\ StoredDomains[d].registrarId = domainRows[d].registrar_id
         /\ DOMAIN StoredDomains = DomainNames
<1>1. domainRows \in DomainTables /\ StoredDomains = DomainsOf(domainRows)
  BY OpenFacts
<1>2. DomainAnswer(d) = StoredDomains[d] /\ DOMAIN StoredDomains = DomainNames
  BY <1>1 DEF DomainsOf, DomainAnswer
<1>3. QED
  BY <1>1, <1>2, DomainsOfFacts

\* Who may write is the same question for rows and for records.
LEMMA AuthorizedFacts ==
  ASSUME IInv, open, NEW d \in DomainNames, NEW r \in Registrars
  PROVE  Authorized(d, r) <=> Memory!IsSponsored(StoredDomains[d], r)
BY DomainAnswerFacts DEF Authorized, Memory!IsSponsored

\* A record of a domain is written and returned, ...
LEMMA WriteDomainRefines ==
  ASSUME IInv, open, NEW d \in DomainNames, NEW record, GoodDomain(record),
         WriteDomain(d, record)
  PROVE  IInv' /\ Memory!SetDomain(d, record)
<1> DEFINE written == [domainRows EXCEPT ![d] = DomainValues(record)]
<1>1. /\ written \in DomainTables
      /\ DomainsOf(written) = [DomainsOf(domainRows) EXCEPT ![d] = record]
  BY OpenFacts, WrittenDomain
<1>2. answer' = record /\ Calls(contactRows, hostRows, written)
  BY DEF WriteDomain
<1>3. record # None
  BY NoneAssumption DEF GoodDomain
<1> HIDE DEF written
<1>4. /\ IInv'
      /\ StoredContacts' = StoredContacts
      /\ StoredHosts' = StoredHosts
      /\ StoredDomains' = [StoredDomains EXCEPT ![d] = record]
  BY <1>1, <1>2, OpenFacts, CallFacts
<1>5. QED
  BY <1>2, <1>3, <1>4 DEF Memory!SetDomain

\* ... or there is none, or it is another registrar's.
LEMMA MissDomainRefines ==
  ASSUME IInv, open, NEW d \in DomainNames, MissDomain
  PROVE  IInv' /\ Memory!SetDomain(d, None)
BY ReadFacts DEF MissDomain, Memory!SetDomain

LEMMA FindDomainRefines ==
  ASSUME IInv, open, NEW d \in DomainNames, FindDomain(d)
  PROVE  IInv' /\ Memory!FindDomain(d)
<1>1. Calls(contactRows, hostRows, domainRows) /\ answer' = DomainAnswer(d)
  BY DEF FindDomain
<1>2. QED
  BY <1>1, ReadFacts, DomainAnswerFacts DEF Memory!FindDomain

LEMMA CreateDomainRefines ==
  ASSUME IInv, open, NEW d \in DomainNames, NEW r \in Registrars,
         NEW input \in CreateInputs.domain, CreateDomain(d, r, input)
  PROVE  IInv' /\ Memory!CreateDomain(d, r, input)
<1> DEFINE created == CreatedDomain(r, input)
<1>1. GoodDomain(created)
  BY CreatedDomainFacts
<1>2. domainRows[d] = None /\ WriteDomain(d, created)
  BY DEF CreateDomain
<1>3. Memory!CreatedDomain(r, input) = created
  BY SameMethods
<1>4. created # None
  BY <1>1, NoneAssumption DEF GoodDomain
<1>5. StoredDomains[d] = None
  BY <1>2, DomainAnswerFacts
<1> HIDE DEF created
<1>6. IInv' /\ Memory!SetDomain(d, created)
  BY <1>1, <1>2, WriteDomainRefines
<1>7. QED
  BY <1>3, <1>4, <1>5, <1>6 DEF Memory!CreateDomain, Memory!SetDomain

LEMMA UpdateDomainRefines ==
  ASSUME IInv, open, NEW d \in DomainNames, NEW r \in Registrars,
         NEW input \in UpdateInputs.domain, UpdateDomain(d, r, input)
  PROVE  IInv' /\ Memory!UpdateDomain(d, r, input)
<1> DEFINE new == UpdatedDomain(DomainAnswer(d), input)
<1>1. CASE Authorized(d, r)
  <2>1. GoodDomain(DomainAnswer(d)) /\ DomainAnswer(d) = StoredDomains[d]
    BY <1>1, DomainAnswerFacts DEF Authorized
  <2>2. GoodDomain(new)
    BY <2>1, UpdatedDomainFacts
  <2>3. WriteDomain(d, new)
    BY <1>1 DEF UpdateDomain
  <2>4. Memory!UpdatedDomain(StoredDomains[d], input) = new
    BY <2>1, SameMethods
  <2> HIDE DEF new
  <2>5. QED
    BY <1>1, <2>2, <2>3, <2>4, AuthorizedFacts, WriteDomainRefines DEF Memory!UpdateDomain
<1>2. CASE ~Authorized(d, r)
  BY <1>2, AuthorizedFacts, MissDomainRefines DEF UpdateDomain, Memory!UpdateDomain
<1>3. QED
  BY <1>1, <1>2

LEMMA RenewDomainRefines ==
  ASSUME IInv, open, NEW d \in DomainNames, NEW r \in Registrars, NEW years \in Periods,
         RenewDomain(d, r, years)
  PROVE  IInv' /\ Memory!RenewDomain(d, r, years)
<1> DEFINE added == Given(years, 1)
           new == RenewedDomain(DomainAnswer(d), added)
<1>1. added \in Nat /\ Memory!Given(years, 1) = added
  <2>1. years \in Nat \cup {None}
    BY InputAssumption
  <2>2. added \in Nat
    BY <2>1 DEF Given
  <2>3. QED
    BY <2>2, SameMethods
<1>2. CASE Authorized(d, r)
  <2>1. GoodDomain(DomainAnswer(d)) /\ DomainAnswer(d) = StoredDomains[d]
    BY <1>2, DomainAnswerFacts DEF Authorized
  <2>2. WriteDomain(d, new)
    BY <1>2 DEF RenewDomain
  <2> HIDE DEF added
  <2>3. GoodDomain(new)
    BY <1>1, <2>1, RenewedDomainFacts
  <2>4. Memory!RenewedDomain(StoredDomains[d], added) = new
    BY <2>1, SameMethods
  <2> HIDE DEF new
  <2>5. QED
    BY <1>1, <1>2, <2>2, <2>3, <2>4, AuthorizedFacts, WriteDomainRefines DEF Memory!RenewDomain
<1>3. CASE ~Authorized(d, r)
  BY <1>3, AuthorizedFacts, MissDomainRefines DEF RenewDomain, Memory!RenewDomain
<1>4. QED
  BY <1>2, <1>3

LEMMA SetTransferRefines ==
  ASSUME IInv, open, NEW d \in DomainNames, NEW r \in Registrars,
         NEW operation \in {"request", "approve", "reject", "cancel"}, NEW years \in Periods,
         SetTransfer(d, operation, r, years)
  PROVE  IInv' /\ Memory!SetTransfer(d, operation, r, years)
<1> DEFINE new == TransferredDomain(DomainAnswer(d), operation, r, years)
<1>1. DomainAnswer(d) = StoredDomains[d]
  BY DomainAnswerFacts
<1>2. CASE StoredDomains[d] # None
  <2>1. GoodDomain(DomainAnswer(d))
    BY <1>1, <1>2, DomainAnswerFacts
  <2>2. GoodDomain(new)
    BY <2>1, InputAssumption, TransferredDomainFacts
  <2>3. WriteDomain(d, new)
    BY <1>1, <1>2 DEF SetTransfer
  <2>4. Memory!TransferredDomain(StoredDomains[d], operation, r, years) = new
    BY <1>1, SameMethods
  <2> HIDE DEF new
  <2>5. QED
    BY <1>2, <2>2, <2>3, <2>4, WriteDomainRefines DEF Memory!SetTransfer
<1>3. CASE StoredDomains[d] = None
  BY <1>1, <1>3, MissDomainRefines DEF SetTransfer, Memory!SetTransfer
<1>4. QED
  BY <1>2, <1>3

LEMMA SetDomainSponsorRefines ==
  ASSUME IInv, open, NEW d \in DomainNames, NEW r \in Registrars, SetDomainSponsor(d, r)
  PROVE  IInv' /\ Memory!SetDomainSponsor(d, r)
<1> DEFINE new == SponsoredDomain(DomainAnswer(d), r)
<1>1. DomainAnswer(d) = StoredDomains[d] /\ DOMAIN StoredDomains = DomainNames
  BY DomainAnswerFacts
<1>2. Memory!SponsoredDomain(StoredDomains[d], r) = new
  BY <1>1, SameMethods
<1>3. CASE StoredDomains[d] # None
  <2>1. GoodDomain(DomainAnswer(d))
    BY <1>1, <1>3, DomainAnswerFacts
  <2>2. GoodDomain(new)
    BY <2>1, SponsoredDomainFacts
  <2>3. CASE new = DomainAnswer(d)
    <3>1. answer' = new /\ Calls(contactRows, hostRows, domainRows)
      BY <1>1, <1>3, <2>3 DEF SetDomainSponsor
    <3>2. new = StoredDomains[d]
      BY <1>1, <2>3
    <3>3. StoredDomains = [StoredDomains EXCEPT ![d] = StoredDomains[d]]
      BY DEF StoredDomains
    <3> HIDE DEF new
    <3>4. IInv' /\ Memory!SetDomain(d, new)
      BY <1>3, <3>1, <3>2, <3>3, ReadFacts DEF Memory!SetDomain
    <3>5. QED
      BY <1>2, <1>3, <3>4 DEF Memory!SetDomainSponsor
  <2>4. CASE new # DomainAnswer(d)
    <3>1. WriteDomain(d, new)
      BY <1>1, <1>3, <2>4 DEF SetDomainSponsor
    <3> HIDE DEF new
    <3>2. QED
      BY <1>2, <1>3, <2>2, <3>1, WriteDomainRefines DEF Memory!SetDomainSponsor
  <2>5. QED
    BY <2>3, <2>4
<1>4. CASE StoredDomains[d] = None
  BY <1>1, <1>4, MissDomainRefines DEF SetDomainSponsor, Memory!SetDomainSponsor
<1>5. QED
  BY <1>3, <1>4

LEMMA DeleteDomainRefines ==
  ASSUME IInv, open, NEW d \in DomainNames, NEW r \in Registrars, DeleteDomain(d, r)
  PROVE  IInv' /\ Memory!DeleteDomain(d, r)
<1> DEFINE left == [domainRows EXCEPT ![d] = None]
<1>1. answer' = Deletion(Authorized(d, r))
  BY DEF DeleteDomain
<1>2. Memory!IsSponsored(StoredDomains[d], r) = Authorized(d, r)
  BY AuthorizedFacts DEF Memory!IsSponsored, Authorized
<1>3. Memory!Deletion(Authorized(d, r)) = Deletion(Authorized(d, r))
  BY SameMethods
<1>4. CASE Authorized(d, r)
  <2>1. Calls(contactRows, hostRows, left)
    BY <1>4 DEF DeleteDomain
  <2>2. /\ left \in DomainTables
        /\ DomainsOf(left) = [DomainsOf(domainRows) EXCEPT ![d] = None]
    BY OpenFacts, DeletedDomain
  <2> HIDE DEF left
  <2>3. /\ IInv'
        /\ StoredContacts' = StoredContacts
        /\ StoredHosts' = StoredHosts
        /\ StoredDomains' = [StoredDomains EXCEPT ![d] = None]
    BY <2>1, <2>2, OpenFacts, CallFacts
  <2>4. QED
    BY <1>1, <1>2, <1>3, <1>4, <2>3 DEF Memory!DeleteDomain
<1>5. CASE ~Authorized(d, r)
  <2>1. Calls(contactRows, hostRows, domainRows)
    BY <1>5 DEF DeleteDomain
  <2>2. QED
    BY <1>1, <1>2, <1>3, <1>5, <2>1, ReadFacts DEF Memory!DeleteDomain
<1>6. QED
  BY <1>4, <1>5

\* The rename writes the rows that it changes: the others read as before.
LEMMA ReplaceHostNameRefines ==
  ASSUME IInv, open, NEW from \in HostNames, NEW to \in HostNames, ReplaceHostName(from, to)
  PROVE  IInv' /\ Memory!ReplaceHostName(from, to)
<1> DEFINE renamed(d) == RenamedLinks(DomainAnswer(d), from, to)
           written ==
             [d \in DomainNames |->
                IF domainRows[d] = None \/ renamed(d) = DomainAnswer(d) THEN domainRows[d]
                                                                       ELSE DomainValues(renamed(d))]
<1>1. answer' = None /\ Calls(contactRows, hostRows, written)
  BY DEF ReplaceHostName
<1>2. domainRows \in DomainTables /\ StoredDomains = DomainsOf(domainRows)
  BY OpenFacts
<1>3. ASSUME NEW d \in DomainNames
      PROVE  /\ written[d] \in DomainRow \cup {None}
             /\ DomainsOf(written)[d] =
                  IF StoredDomains[d] = None THEN None ELSE RenamedLinks(StoredDomains[d], from, to)
  <2>1. /\ DomainAnswer(d) = StoredDomains[d]
        /\ domainRows[d] \in DomainRow \cup {None}
        /\ StoredDomains[d] = None <=> domainRows[d] = None
    BY <1>2, DomainAnswerFacts DEF DomainTables
  <2>2. DomainsOf(written)[d] = IF written[d] = None THEN None ELSE MapDomainRow(written[d])
    BY DEF DomainsOf
  <2>3. CASE domainRows[d] = None
    <3>1. written[d] = None
      BY <2>3
    <3> HIDE DEF written
    <3>2. QED
      BY <2>1, <2>2, <2>3, <3>1
  <2>4. CASE domainRows[d] # None /\ renamed(d) = DomainAnswer(d)
    <3>1. written[d] = domainRows[d]
      BY <2>4
    <3>2. MapDomainRow(domainRows[d]) = DomainAnswer(d)
      BY <2>4 DEF DomainAnswer
    <3> HIDE DEF written
    <3>3. QED
      BY <2>1, <2>2, <2>4, <3>1, <3>2
  <2>5. CASE domainRows[d] # None /\ renamed(d) # DomainAnswer(d)
    <3>1. written[d] = DomainValues(renamed(d))
      BY <2>5
    <3>2. GoodDomain(renamed(d))
      BY <2>1, <2>5, DomainAnswerFacts, RenamedLinksFacts
    <3>3. DomainValues(renamed(d)) \in DomainRow /\ MapDomainRow(DomainValues(renamed(d))) = renamed(d)
      BY <3>2, DomainRoundTrip
    <3>4. DomainValues(renamed(d)) # None
      BY <3>3, RowAssumption
    <3> HIDE DEF written
    <3>5. QED
      BY <2>1, <2>2, <2>5, <3>1, <3>3, <3>4
  <2>6. QED
    BY <2>3, <2>4, <2>5
<1>4. written \in DomainTables
  BY <1>3 DEF DomainTables
<1> HIDE DEF written
<1>5. /\ IInv'
      /\ StoredContacts' = StoredContacts
      /\ StoredHosts' = StoredHosts
      /\ StoredDomains' = DomainsOf(written)
  BY <1>1, <1>4, OpenFacts, CallFacts
<1>6. DomainsOf(written) =
        [d \in DomainNames |->
           IF StoredDomains[d] = None THEN None ELSE RenamedLinks(StoredDomains[d], from, to)]
  <2>1. DomainsOf(written) = [d \in DomainNames |-> DomainsOf(written)[d]]
    BY DEF DomainsOf
  <2>2. QED
    BY <1>3, <2>1
<1>7. \A d \in DomainNames :
        Memory!RenamedLinks(StoredDomains[d], from, to) = RenamedLinks(StoredDomains[d], from, to)
  BY SameMethods
<1>8. QED
  BY <1>1, <1>5, <1>6, <1>7 DEF Memory!ReplaceHostName

LEMMA ResetDomainsRefines ==
  ASSUME IInv, open, NEW fixture \in Fixtures, ResetDomains(fixture)
  PROVE  IInv' /\ Memory!ResetDomains(fixture)
<1> DEFINE written ==
        [d \in DomainNames |->
           IF fixture[d] = None THEN None ELSE DomainValues(NormalizedDomain(fixture[d]))]
<1>1. answer' = None /\ Calls(contactRows, hostRows, written)
  BY DEF ResetDomains
<1>2. ASSUME NEW d \in DomainNames
      PROVE  /\ written[d] \in DomainRow \cup {None}
             /\ DomainsOf(written)[d] =
                  IF fixture[d] = None THEN None ELSE NormalizedDomain(fixture[d])
  <2>1. DomainsOf(written)[d] = IF written[d] = None THEN None ELSE MapDomainRow(written[d])
    BY DEF DomainsOf
  <2>2. CASE fixture[d] = None
    <3>1. written[d] = None
      BY <2>2
    <3> HIDE DEF written
    <3>2. QED
      BY <2>1, <2>2, <3>1
  <2>3. CASE fixture[d] # None
    <3>1. GoodDomain(NormalizedDomain(fixture[d]))
      BY <2>3, InputAssumption, NormalizedFacts DEF IsFixture
    <3>2. /\ DomainValues(NormalizedDomain(fixture[d])) \in DomainRow
          /\ MapDomainRow(DomainValues(NormalizedDomain(fixture[d]))) = NormalizedDomain(fixture[d])
      BY <3>1, DomainRoundTrip
    <3>3. DomainValues(NormalizedDomain(fixture[d])) # None
      BY <3>2, RowAssumption
    <3>4. written[d] = DomainValues(NormalizedDomain(fixture[d]))
      BY <2>3
    <3> HIDE DEF written
    <3>5. QED
      BY <2>1, <2>3, <3>2, <3>3, <3>4
  <2>4. QED
    BY <2>2, <2>3
<1>3. written \in DomainTables
  BY <1>2 DEF DomainTables
<1> HIDE DEF written
<1>4. /\ IInv'
      /\ StoredContacts' = StoredContacts
      /\ StoredHosts' = StoredHosts
      /\ StoredDomains' = DomainsOf(written)
  BY <1>1, <1>3, OpenFacts, CallFacts
<1>5. DomainsOf(written) =
        [d \in DomainNames |-> IF fixture[d] = None THEN None ELSE NormalizedDomain(fixture[d])]
  <2>1. DomainsOf(written) = [d \in DomainNames |-> DomainsOf(written)[d]]
    BY DEF DomainsOf
  <2>2. QED
    BY <1>2, <2>1
<1>6. \A d \in DomainNames : Memory!NormalizedDomain(fixture[d]) = NormalizedDomain(fixture[d])
  BY SameMethods
<1>7. QED
  BY <1>1, <1>4, <1>5, <1>6 DEF Memory!ResetDomains

-------------------------------------------------------------------------------
(* The theorems.                                                           *)

LEMMA ContactCallRefines ==
  ASSUME IInv, open, ContactCall
  PROVE  IInv' /\ Memory!ContactCall
<1>1. PICK id \in ContactIds, r \in Registrars :
        \/ FindContact(id)
        \/ \E input \in CreateInputs.contact : CreateContact(id, r, input)
        \/ \E input \in UpdateInputs.contact : UpdateContact(id, r, input)
        \/ DeleteContact(id, r)
  BY DEF ContactCall
<1>2. CASE FindContact(id)
  BY <1>2, FindContactRefines DEF Memory!ContactCall
<1>3. CASE \E input \in CreateInputs.contact : CreateContact(id, r, input)
  BY <1>3, CreateContactRefines DEF Memory!ContactCall
<1>4. CASE \E input \in UpdateInputs.contact : UpdateContact(id, r, input)
  BY <1>4, UpdateContactRefines DEF Memory!ContactCall
<1>5. CASE DeleteContact(id, r)
  BY <1>5, DeleteContactRefines DEF Memory!ContactCall
<1>6. QED
  BY <1>1, <1>2, <1>3, <1>4, <1>5

LEMMA HostCallRefines ==
  ASSUME IInv, open, HostCall
  PROVE  IInv' /\ Memory!HostCall
<1>1. PICK h \in HostNames, r \in Registrars :
        \/ FindHost(h)
        \/ \E input \in CreateInputs.host : CreateHost(h, r, input)
        \/ \E new \in HostNames, input \in UpdateInputs.host : UpdateHost(h, r, new, input)
        \/ DeleteHost(h, r)
        \/ SetHostSponsor(h, r)
  BY DEF HostCall
<1>2. CASE FindHost(h)
  BY <1>2, FindHostRefines DEF Memory!HostCall
<1>3. CASE \E input \in CreateInputs.host : CreateHost(h, r, input)
  BY <1>3, CreateHostRefines DEF Memory!HostCall
<1>4. CASE \E new \in HostNames, input \in UpdateInputs.host : UpdateHost(h, r, new, input)
  BY <1>4, UpdateHostRefines DEF Memory!HostCall
<1>5. CASE DeleteHost(h, r)
  BY <1>5, DeleteHostRefines DEF Memory!HostCall
<1>6. CASE SetHostSponsor(h, r)
  BY <1>6, SetHostSponsorRefines DEF Memory!HostCall
<1>7. QED
  BY <1>1, <1>2, <1>3, <1>4, <1>5, <1>6

LEMMA DomainCallRefines ==
  ASSUME IInv, open, DomainCall
  PROVE  IInv' /\ Memory!DomainCall
<1>1. ASSUME NEW d \in DomainNames, NEW r \in Registrars,
             \/ FindDomain(d)
             \/ \E input \in CreateInputs.domain : CreateDomain(d, r, input)
             \/ \E input \in UpdateInputs.domain : UpdateDomain(d, r, input)
             \/ \E years \in Periods : RenewDomain(d, r, years)
             \/ \E operation \in {"request", "approve", "reject", "cancel"}, years \in Periods :
                  SetTransfer(d, operation, r, years)
             \/ SetDomainSponsor(d, r)
             \/ DeleteDomain(d, r)
      PROVE  IInv' /\ Memory!DomainCall
  <2>1. CASE FindDomain(d)
    BY <1>1, <2>1, FindDomainRefines DEF Memory!DomainCall
  <2>2. CASE \E input \in CreateInputs.domain : CreateDomain(d, r, input)
    BY <1>1, <2>2, CreateDomainRefines DEF Memory!DomainCall
  <2>3. CASE \E input \in UpdateInputs.domain : UpdateDomain(d, r, input)
    BY <1>1, <2>3, UpdateDomainRefines DEF Memory!DomainCall
  <2>4. CASE \E years \in Periods : RenewDomain(d, r, years)
    BY <1>1, <2>4, RenewDomainRefines DEF Memory!DomainCall
  <2>5. CASE \E operation \in {"request", "approve", "reject", "cancel"}, years \in Periods :
               SetTransfer(d, operation, r, years)
    BY <1>1, <2>5, SetTransferRefines DEF Memory!DomainCall
  <2>6. CASE SetDomainSponsor(d, r)
    BY <1>1, <2>6, SetDomainSponsorRefines DEF Memory!DomainCall
  <2>7. CASE DeleteDomain(d, r)
    BY <1>1, <2>7, DeleteDomainRefines DEF Memory!DomainCall
  <2>8. QED
    BY <1>1, <2>1, <2>2, <2>3, <2>4, <2>5, <2>6, <2>7
<1>2. ASSUME NEW from \in HostNames, NEW to \in HostNames, ReplaceHostName(from, to)
      PROVE  IInv' /\ Memory!DomainCall
  BY <1>2, ReplaceHostNameRefines DEF Memory!DomainCall
<1>3. ASSUME NEW fixture \in Fixtures, ResetDomains(fixture)
      PROVE  IInv' /\ Memory!DomainCall
  BY <1>3, ResetDomainsRefines DEF Memory!DomainCall
<1>4. QED
  BY <1>1, <1>2, <1>3 DEF DomainCall

\* Every step keeps the invariant and is a call in memory, or is seen by no caller.
LEMMA StepRefines ==
  ASSUME IInv, [Next]_vars
  PROVE  IInv' /\ [Memory!Next]_(Memory!vars)
<1>1. CASE Open
  BY <1>1, OpenIsInvisible DEF Memory!vars
<1>2. CASE Close
  BY <1>2, CloseIsInvisible DEF Memory!vars
<1>3. CASE open /\ ContactCall
  BY <1>3, ContactCallRefines DEF Memory!Next
<1>4. CASE open /\ HostCall
  BY <1>4, HostCallRefines DEF Memory!Next
<1>5. CASE open /\ DomainCall
  BY <1>5, DomainCallRefines DEF Memory!Next
<1>6. CASE UNCHANGED vars
  <2>1. UNCHANGED <<contactRows, hostRows, domainRows, answer, columns, open>>
    BY <1>6 DEF vars
  <2>2. IInv'
    BY <2>1 DEF IInv, TypeOK, ContactIdsAreUnique
  <2>3. CurrentContacts' = CurrentContacts /\ CurrentDomains' = CurrentDomains
    BY <2>1 DEF CurrentContacts, CurrentDomains
  <2>4. UNCHANGED <<StoredContacts, StoredHosts, StoredDomains, answer>>
    BY <2>1, <2>3 DEF StoredContacts, StoredHosts, StoredDomains, HostAnswer
  <2>5. QED
    BY <2>2, <2>4 DEF Memory!vars
<1>7. QED
  BY <1>1, <1>2, <1>3, <1>4, <1>5, <1>6 DEF Next

\* The rows are well-formed and no two contacts differ in case only, from the first
\* start of any version of the program on.
THEOREM Inductive == Spec => []IInv
<1>1. Init => IInv
  BY InitInvariant
<1>2. IInv /\ [Next]_vars => IInv'
  BY StepRefines
<1>3. QED
  BY <1>1, <1>2, PTL DEF Spec

\* The tables hold rows with the columns that the process that is running reads, so
\* no mapping of a row (mapRow, mapDomainRow) meets a column that is missing.
THEOREM TypeCorrect == Spec => []TypeOK
<1>1. IInv => TypeOK
  BY DEF IInv
<1>2. QED
  BY <1>1, Inductive, PTL

\* The identifier of a contact finds one row at most, whatever its case: findById
\* and the delete by lower(id) are about the same contact.
THEOREM ContactIdsAlwaysUnique == Spec => []ContactIdsAreUnique
<1>1. IInv => ContactIdsAreUnique
  BY DEF IInv
<1>2. QED
  BY <1>1, Inductive, PTL

\* The SQLite repositories return what the in-memory ones return and keep the
\* records that they keep, for any tables of either version and any calls.
THEOREM SqliteImplementsMemory == Spec => ImplementsMemory
<1>1. Init => Memory!Init
  BY InitMemory
<1>2. IInv /\ [Next]_vars => [Memory!Next]_(Memory!vars)
  BY StepRefines
<1>3. QED
  BY <1>1, <1>2, Inductive, PTL DEF Spec, ImplementsMemory, Memory!Spec
===============================================================================
