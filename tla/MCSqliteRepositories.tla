------------------------- MODULE MCSqliteRepositories -------------------------
(***************************************************************************)
(* A small instance of SqliteRepositories.  The three repositories do not  *)
(* call each other, so a behaviour drives one of them, with MaxCalls calls *)
(* that are no finds.                                                      *)
(***************************************************************************)
EXTENDS SqliteRepositories

CONSTANT MaxCalls

VARIABLES driven, calls

SmallLookup == [a |-> "a", A |-> "a", b |-> "b", ns1 |-> "ns1", NS1 |-> "ns1", ns2 |-> "ns2"]

SmallKeyOf == [int |-> "int", int2 |-> "int", v6 |-> "v6", V6 |-> "v6", v4 |-> "v4", ds |-> "ds", DS |-> "ds"]

SmallCreateInputs ==
  [contact |-> {[postalInfo |-> {"int"}, details |-> None]},
   host |-> {[addAddresses |-> {}], [addAddresses |-> {"v6"}]},
   domain |-> {[periodYears |-> None, nameservers |-> {"NS1"}, registrantContact |-> None,
                contacts |-> {"a"}, dsRecords |-> {"ds"}]}]

NoDomainChange ==
  [addNameservers |-> {}, remNameservers |-> {}, addContacts |-> {}, remContacts |-> {},
   addStatuses |-> {}, remStatuses |-> {}, registrantContact |-> None,
   addDs |-> {}, remDs |-> {}, rgpStatus |-> None]

SmallUpdateInputs ==
  [contact |-> {[addStatuses |-> {"clientDeleteProhibited"}, remStatuses |-> {}, postalInfo |-> {}, details |-> None],
                [addStatuses |-> {}, remStatuses |-> {"clientDeleteProhibited"}, postalInfo |-> {"int2"}, details |-> "text"]},
   host |-> {[addStatuses |-> {"clientDeleteProhibited"}, remStatuses |-> {}, addAddresses |-> {"V6"}, remAddresses |-> {}],
             [addStatuses |-> {}, remStatuses |-> {"clientDeleteProhibited"}, addAddresses |-> {"v4"}, remAddresses |-> {"v6"}]},
   domain |-> {[NoDomainChange EXCEPT !.addNameservers = {"ns2"}, !.remNameservers = {"NS1"}, !.registrantContact = "text"],
               [NoDomainChange EXCEPT !.addStatuses = {"pendingDelete"}, !.rgpStatus = "redemptionPeriod"],
               [NoDomainChange EXCEPT !.remStatuses = {"pendingDelete"}, !.rgpStatus = ""],
               [NoDomainChange EXCEPT !.addContacts = {"b"}, !.remContacts = {"a"}, !.addDs = {"DS"}],
               [NoDomainChange EXCEPT !.remDs = {"DS"}]}]

SmallFixtures ==
  {[d \in DomainNames |-> None],
   [d \in DomainNames |->
      [registrarId |-> "r1", creatorId |-> None, periodYears |-> 1,
       statuses |-> {"ok", "clientHold"}, nameservers |-> {"ns1"}, registrantContact |-> None,
       contacts |-> {}, dsRecords |-> {}, expiresAt |-> 1,
       transfer |-> [status |-> "pending", requestedBy |-> "r2", periodYears |-> None, losingRegistrar |-> None],
       rgpStatus |-> None, updatedAt |-> None]]}

MCInit ==
  /\ Init
  /\ driven \in {"contacts", "hosts", "domains"}
  /\ driven # "contacts" => \A id \in ContactIds : contactRows[id] = None
  /\ driven # "domains" => \A d \in DomainNames : domainRows[d] = None
  /\ calls = 0

Find ==
  \/ driven = "contacts" /\ \E id \in ContactIds : FindContact(id)
  \/ driven = "hosts" /\ \E h \in HostNames : FindHost(h)
  \/ driven = "domains" /\ \E d \in DomainNames : FindDomain(d)

MCNext ==
  /\ \/ (Open \/ (open /\ Find)) /\ UNCHANGED calls
     \/ calls < MaxCalls /\ calls' = calls + 1
        /\ \/ Close
           \/ open /\ driven = "contacts" /\ ContactCall
           \/ open /\ driven = "hosts" /\ HostCall
           \/ open /\ driven = "domains" /\ DomainCall
  /\ UNCHANGED driven

MCSpec == MCInit /\ [][MCNext]_<<vars, driven, calls>>
===============================================================================
