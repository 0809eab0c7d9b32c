-------------------------- MODULE MemoryRepositories --------------------------
(***************************************************************************)
(* The three repositories as the in-memory classes keep them: maps from a  *)
(* lower-case key to a record.  An action is one call of a method, and     *)
(* `answer' is what it returned.  The services make a call that creates or *)
(* renames only when the new key is free; every other call may come with   *)
(* any name and from any registrar.  SqliteRepositories is shown to do     *)
(* what is described here.                                                 *)
(***************************************************************************)
EXTENDS StoredRecords

CONSTANTS
  CreateInputs,     \* [contact, host, domain]: what creates may carry
  UpdateInputs,     \* [contact, host, domain]: what updates may carry
  Fixtures,         \* domain tables a reset may install
  Periods           \* periods of renewals and transfers, None for none given

VARIABLES contacts, hosts, domains, answer

vars == <<contacts, hosts, domains, answer>>

Lookups == {Lookup[id] : id \in ContactIds}

\* In memory there are no records at first, on disk those of earlier runs.
Init ==
  /\ contacts \in [Lookups -> ContactRecord \cup {None}]
  /\ hosts \in [HostNames -> HostRecord \cup {None}]
  /\ domains \in [DomainNames -> DomainRecord \cup {None}]
  /\ answer = None

IsSponsored(record, r) == record # None /\ record.registrarId = r

-------------------------------------------------------------------------------
(* Contacts.                                                               *)

FindContact(id) ==
  /\ answer' = contacts[Lookup[id]]
  /\ UNCHANGED <<contacts, hosts, domains>>

CreateContact(id, r, input) ==
  LET created == CreatedContact(id, r, input) IN
  /\ contacts[Lookup[id]] = None
  /\ contacts' = [contacts EXCEPT ![Lookup[id]] = created]
  /\ answer' = created
  /\ UNCHANGED <<hosts, domains>>

UpdateContact(id, r, input) ==
  LET old == contacts[Lookup[id]]
      new == IF IsSponsored(old, r) THEN UpdatedContact(old, input) ELSE None IN
  /\ contacts' = IF new = None THEN contacts ELSE [contacts EXCEPT ![Lookup[id]] = new]
  /\ answer' = new
  /\ UNCHANGED <<hosts, domains>>

DeleteContact(id, r) ==
  LET deleted == IsSponsored(contacts[Lookup[id]], r) IN
  /\ contacts' = IF deleted THEN [contacts EXCEPT ![Lookup[id]] = None] ELSE contacts
  /\ answer' = Deletion(deleted)
  /\ UNCHANGED <<hosts, domains>>

-------------------------------------------------------------------------------
(* Hosts.                                                                  *)

FindHost(h) ==
  /\ answer' = hosts[h]
  /\ UNCHANGED <<contacts, hosts, domains>>

CreateHost(h, r, input) ==
  LET created == CreatedHost(r, input) IN
  /\ hosts[h] = None
  /\ hosts' = [hosts EXCEPT ![h] = created]
  /\ answer' = created
  /\ UNCHANGED <<contacts, domains>>

\* new is h itself for an update without a new name.
UpdateHost(h, r, new, input) ==
  LET record == IF IsSponsored(hosts[h], r) THEN UpdatedHost(hosts[h], input) ELSE None IN
  /\ new = h \/ hosts[new] = None
  /\ hosts' = IF record = None THEN hosts
              ELSE [hosts EXCEPT ![h] = None, ![new] = record]
  /\ answer' = record
  /\ UNCHANGED <<contacts, domains>>

DeleteHost(h, r) ==
  LET deleted == IsSponsored(hosts[h], r) IN
  /\ hosts' = IF deleted THEN [hosts EXCEPT ![h] = None] ELSE hosts
  /\ answer' = Deletion(deleted)
  /\ UNCHANGED <<contacts, domains>>

SetHostSponsor(h, r) ==
  LET record == IF hosts[h] = None THEN None ELSE SponsoredHost(hosts[h], r) IN
  /\ hosts' = [hosts EXCEPT ![h] = record]
  /\ answer' = record
  /\ UNCHANGED <<contacts, domains>>

-------------------------------------------------------------------------------
(* Domains.                                                                *)

FindDomain(d) ==
  /\ answer' = domains[d]
  /\ UNCHANGED <<contacts, hosts, domains>>

CreateDomain(d, r, input) ==
  LET created == CreatedDomain(r, input) IN
  /\ domains[d] = None
  /\ domains' = [domains EXCEPT ![d] = created]
  /\ answer' = created
  /\ UNCHANGED <<contacts, hosts>>

\* A method that sets a record and returns it, or finds none and returns null.
SetDomain(d, record) ==
  /\ domains' = IF record = None THEN domains ELSE [domains EXCEPT ![d] = record]
  /\ answer' = record
  /\ UNCHANGED <<contacts, hosts>>

UpdateDomain(d, r, input) ==
  SetDomain(d, IF IsSponsored(domains[d], r) THEN UpdatedDomain(domains[d], input) ELSE None)

RenewDomain(d, r, years) ==
  SetDomain(d, IF IsSponsored(domains[d], r) THEN RenewedDomain(domains[d], Given(years, 1)) ELSE None)

SetTransfer(d, operation, r, years) ==
  SetDomain(d, IF domains[d] # None THEN TransferredDomain(domains[d], operation, r, years) ELSE None)

SetDomainSponsor(d, r) ==
  SetDomain(d, IF domains[d] # None THEN SponsoredDomain(domains[d], r) ELSE None)

DeleteDomain(d, r) ==
  LET deleted == IsSponsored(domains[d], r) IN
  /\ domains' = IF deleted THEN [domains EXCEPT ![d] = None] ELSE domains
  /\ answer' = Deletion(deleted)
  /\ UNCHANGED <<contacts, hosts>>

ReplaceHostName(from, to) ==
  /\ domains' = [d \in DomainNames |->
                   IF domains[d] = None THEN None ELSE RenamedLinks(domains[d], from, to)]
  /\ answer' = None
  /\ UNCHANGED <<contacts, hosts>>

ResetDomains(fixture) ==
  /\ domains' = [d \in DomainNames |->
                   IF fixture[d] = None THEN None ELSE NormalizedDomain(fixture[d])]
  /\ answer' = None
  /\ UNCHANGED <<contacts, hosts>>

-------------------------------------------------------------------------------
ContactCall ==
  \E id \in ContactIds, r \in Registrars :
    \/ FindContact(id)
    \/ \E input \in CreateInputs.contact : CreateContact(id, r, input)
    \/ \E input \in UpdateInputs.contact : UpdateContact(id, r, input)
    \/ DeleteContact(id, r)

HostCall ==
  \E h \in HostNames, r \in Registrars :
    \/ FindHost(h)
    \/ \E input \in CreateInputs.host : CreateHost(h, r, input)
    \/ \E new \in HostNames, input \in UpdateInputs.host : UpdateHost(h, r, new, input)
    \/ DeleteHost(h, r)
    \/ SetHostSponsor(h, r)

DomainCall ==
  \/ \E d \in DomainNames, r \in Registrars :
       \/ FindDomain(d)
       \/ \E input \in CreateInputs.domain : CreateDomain(d, r, input)
       \/ \E input \in UpdateInputs.domain : UpdateDomain(d, r, input)
       \/ \E years \in Periods : RenewDomain(d, r, years)
       \/ \E operation \in {"request", "approve", "reject", "cancel"}, years \in Periods :
            SetTransfer(d, operation, r, years)
       \/ SetDomainSponsor(d, r)
       \/ DeleteDomain(d, r)
  \/ \E from, to \in HostNames : ReplaceHostName(from, to)
  \/ \E fixture \in Fixtures : ResetDomains(fixture)

Next == ContactCall \/ HostCall \/ DomainCall

Spec == Init /\ [][Next]_vars
===============================================================================
