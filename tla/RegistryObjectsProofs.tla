------------------------- MODULE RegistryObjectsProofs -------------------------
(***************************************************************************)
(* Proofs about RegistryObjects for every value of its constants.          *)
(*                                                                         *)
(* References are kept by tables that never read each other, so the        *)
(* inductive invariant carries what a host rename has still to do: a name  *)
(* that no longer has a row is named only by the domains the rename has    *)
(* yet to rewrite.  It has a parameter, the set of links that may be left  *)
(* dangling: empty when processes do not end, and when they do, the links  *)
(* of the renames that were interrupted.                                   *)
(***************************************************************************)
EXTENDS RegistryObjects, FiniteSetTheorems, TLAPS

-------------------------------------------------------------------------------
(* The inductive invariant.                                                *)

\* Every plain nameserver is a host, or waits for the running rename, or is one
\* of the links in L that an interrupted rename has left behind.
LinksOK(L) ==
  \A d \in Domains, h \in Hosts : LinksTo(d, h) =>
    \/ Exists(hosts, h)
    \/ renaming # None /\ h = renaming.from /\ d \in renaming.links
    \/ <<d, h>> \in L

\* The new name has its row, and the domains still to be rewritten have the old.
JobOK ==
  renaming # None =>
    /\ Exists(hosts, renaming.to)
    /\ \A d \in renaming.links : LinksTo(d, renaming.from)

\* No domain still to be rewritten has the new name already.
FreshJob ==
  renaming # None /\ renaming.to # renaming.from =>
    \A d \in renaming.links : ~LinksTo(d, renaming.to)

IInv(L) == TypeOK /\ ContactReferencesResolve /\ LinksOK(L) /\ JobOK

-------------------------------------------------------------------------------
(* Lemmas about the operators.                                             *)

\* The normal form of a status list is a status list that is not empty
\* (normalizeObjectStatuses).
LEMMA NormalizeFacts ==
  ASSUME NEW S \in SUBSET ObjectStatuses
  PROVE  NormalizeObjectStatuses(S) \in (SUBSET ObjectStatuses) \ {{}}
BY DEF NormalizeObjectStatuses, ObjectStatuses

\* Editing a status list with statuses a client may set.
LEMMA NewStatusesFacts ==
  ASSUME NEW row, row.statuses \in SUBSET ObjectStatuses,
         NEW add \in SUBSET StatusChoices, NEW rem \in SUBSET StatusChoices
  PROVE  NewStatuses(row, add, rem) \in (SUBSET ObjectStatuses) \ {{}}
<1>1. StatusChoices \subseteq ObjectStatuses
  BY StatusAssumption
     DEF CLIENT_SETTABLE_HOST_STATUSES, ObjectStatuses, UPDATE_PROHIBITED, DELETE_PROHIBITED
<1>2. (row.statuses \ rem) \cup add \in SUBSET ObjectStatuses
  BY <1>1
<1>3. QED
  BY <1>2, NormalizeFacts DEF NewStatuses

\* A row is never the value that stands for an absent row.
LEMMA RowsAreNotNone ==
  /\ None \notin DomainRow
  /\ None \notin HostRow
  /\ None \notin ContactRow
  /\ None \notin RenameJob
BY RowAssumption

\* Two hosts have two plain spellings.
LEMMA PlainFacts ==
  ASSUME NEW h \in Hosts
  PROVE  /\ Plain(h) \in Spellings
         /\ Plain(h).host = h
         /\ \A g \in Hosts : Plain(g) = Plain(h) => g = h
BY DEF Plain, Spellings

-------------------------------------------------------------------------------
(* Domain commands keep the invariant.                                     *)

LEMMA DomainCreateKeeps ==
  ASSUME NEW L, IInv(L), renaming = None,
         NEW d \in Domains, NEW r \in Registrars, NEW registrant \in Contacts,
         NEW cs \in SUBSET Contacts, NEW nss \in NameserverSets,
         DomainCreate(d, r, registrant, cs, nss)
  PROVE  IInv(L)'
<1> DEFINE row == [registrarId |-> r, registrantContact |-> registrant,
                   contacts |-> cs, nameservers |-> nss]
<1>1. row \in DomainRow /\ row # None
  BY RowsAreNotNone DEF DomainRow, NameserverSets
<1>2. /\ domains' = [domains EXCEPT ![d] = row]
      /\ UNCHANGED <<hosts, contacts, renaming>>
      /\ domains \in [Domains -> DomainRow \cup {None}]
  BY DEF DomainCreate, IInv, TypeOK
<1>3. /\ domains'[d] = row
      /\ \A e \in Domains : e # d => domains'[e] = domains[e]
      /\ domains' \in [Domains -> DomainRow \cup {None}]
  BY <1>1, <1>2
<1>4. TypeOK'
  BY <1>2, <1>3 DEF IInv, TypeOK
<1>5. ContactReferencesResolve'
  <2>1. \A c \in cs \cup {registrant} : Exists(contacts, c)
    BY DEF DomainCreate, ReferencedObjectsExist
  <2>2. QED
    BY <1>2, <1>3, <2>1 DEF IInv, ContactReferencesResolve, Exists
<1>6. LinksOK(L)'
  <2>1. \A h \in Hosts : Plain(h) \in nss => Exists(hosts, h)
    BY PlainFacts DEF DomainCreate, ReferencedObjectsExist
  <2>2. QED
    BY <1>2, <1>3, <2>1 DEF IInv, LinksOK, LinksTo, Exists
<1>7. JobOK'
  BY <1>2 DEF JobOK
<1>8. QED
  BY <1>4, <1>5, <1>6, <1>7 DEF IInv

LEMMA DomainUpdateKeeps ==
  ASSUME NEW L, IInv(L), renaming = None,
         NEW d \in Domains, NEW r \in Registrars, NEW registrant \in Contacts \cup {None},
         NEW addC \in SUBSET Contacts, NEW remC \in SUBSET Contacts,
         NEW addN \in NameserverSets, NEW remN \in NameserverSets,
         DomainUpdate(d, r, registrant, addC, remC, addN, remN)
  PROVE  IInv(L)'
<1> DEFINE old == domains[d]
           row == UpdatedDomain(old, registrant, addC, remC, addN, remN)
<1>1. old \in DomainRow /\ old # None
  BY DEF DomainUpdate, IsSponsor, Exists, IInv, TypeOK
<1>2. /\ row \in DomainRow /\ row # None
      /\ row.contacts = (old.contacts \ remC) \cup addC
      /\ row.nameservers = (old.nameservers \ remN) \cup addN
      /\ row.registrantContact = IF registrant = None THEN old.registrantContact
                                ELSE registrant
  <2>1. /\ row.contacts = (old.contacts \ remC) \cup addC
        /\ row.nameservers = (old.nameservers \ remN) \cup addN
        /\ row.registrantContact = IF registrant = None THEN old.registrantContact
                                  ELSE registrant
    BY <1>1 DEF DomainRow, UpdatedDomain
  <2>2. row \in DomainRow
    BY <1>1 DEF DomainRow, UpdatedDomain, NameserverSets
  <2>3. QED
    BY <2>1, <2>2, RowsAreNotNone
<1>3. /\ domains' = [domains EXCEPT ![d] = row]
      /\ UNCHANGED <<hosts, contacts, renaming>>
      /\ domains \in [Domains -> DomainRow \cup {None}]
  BY DEF DomainUpdate, IInv, TypeOK
<1>4. /\ domains'[d] = row
      /\ \A e \in Domains : e # d => domains'[e] = domains[e]
      /\ domains' \in [Domains -> DomainRow \cup {None}]
  BY <1>2, <1>3
<1>5. TypeOK'
  BY <1>3, <1>4 DEF IInv, TypeOK
<1>6. ContactReferencesResolve'
  <2>1. \A c \in addC \cup ({registrant} \ {None}) : Exists(contacts, c)
    BY DEF DomainUpdate, ReferencedObjectsExist
  <2>2. \A c \in old.contacts \cup {old.registrantContact} : Exists(contacts, c)
    BY <1>1 DEF IInv, ContactReferencesResolve, Exists
  <2>3. \A c \in row.contacts \cup {row.registrantContact} : Exists(contacts, c)
    BY <1>2, <2>1, <2>2
  <2>4. QED
    BY <1>3, <1>4, <2>3 DEF IInv, ContactReferencesResolve, Exists
<1>7. LinksOK(L)'
  <2>1. \A h \in Hosts : Plain(h) \in addN => Exists(hosts, h)
    BY PlainFacts DEF DomainUpdate, ReferencedObjectsExist
  <2>2. \A h \in Hosts : Plain(h) \in old.nameservers => Exists(hosts, h) \/ <<d, h>> \in L
    BY <1>1 DEF IInv, LinksOK, LinksTo, Exists
  <2>3. QED
    BY <1>2, <1>3, <1>4, <2>1, <2>2 DEF IInv, LinksOK, LinksTo, Exists
<1>8. JobOK'
  BY <1>3 DEF JobOK
<1>9. QED
  BY <1>5, <1>6, <1>7, <1>8 DEF IInv

LEMMA DomainPurgeKeeps ==
  ASSUME NEW L, IInv(L), renaming = None, NEW d \in Domains, NEW r \in Registrars, DomainPurge(d, r)
  PROVE  IInv(L)'
<1>1. /\ domains' = [domains EXCEPT ![d] = None]
      /\ UNCHANGED <<hosts, contacts, renaming>>
      /\ domains \in [Domains -> DomainRow \cup {None}]
  BY DEF DomainPurge, IInv, TypeOK
<1>2. /\ domains'[d] = None
      /\ \A e \in Domains : e # d => domains'[e] = domains[e]
      /\ domains' \in [Domains -> DomainRow \cup {None}]
  BY <1>1
<1>3. TypeOK'
  BY <1>1, <1>2 DEF IInv, TypeOK
<1>4. ContactReferencesResolve'
  BY <1>1, <1>2 DEF IInv, ContactReferencesResolve, Exists
<1>5. LinksOK(L)'
  BY <1>1, <1>2 DEF IInv, LinksOK, LinksTo, Exists
<1>6. JobOK'
  BY <1>1 DEF JobOK
<1>7. QED
  BY <1>3, <1>4, <1>5, <1>6 DEF IInv

LEMMA DomainHandOverKeeps ==
  ASSUME NEW L, IInv(L), renaming = None, NEW d \in Domains, NEW r \in Registrars, DomainHandOver(d, r)
  PROVE  IInv(L)'
<1> DEFINE row == [domains[d] EXCEPT !.registrarId = r]
<1>1. domains[d] \in DomainRow /\ domains[d] # None
  BY DEF DomainHandOver, Exists, IInv, TypeOK
<1>2. /\ row \in DomainRow /\ row # None
      /\ row.contacts = domains[d].contacts
      /\ row.registrantContact = domains[d].registrantContact
      /\ row.nameservers = domains[d].nameservers
  BY <1>1, RowsAreNotNone DEF DomainRow
<1>3. /\ domains' = [domains EXCEPT ![d] = row]
      /\ UNCHANGED <<hosts, contacts, renaming>>
      /\ domains \in [Domains -> DomainRow \cup {None}]
  BY DEF DomainHandOver, IInv, TypeOK
<1>4. /\ domains'[d] = row
      /\ \A e \in Domains : e # d => domains'[e] = domains[e]
      /\ domains' \in [Domains -> DomainRow \cup {None}]
  BY <1>2, <1>3
<1>5. TypeOK'
  BY <1>3, <1>4 DEF IInv, TypeOK
<1>6. ContactReferencesResolve'
  BY <1>1, <1>2, <1>3, <1>4 DEF IInv, ContactReferencesResolve, Exists
<1>7. LinksOK(L)'
  BY <1>1, <1>2, <1>3, <1>4 DEF IInv, LinksOK, LinksTo, Exists
<1>8. JobOK'
  BY <1>3 DEF JobOK
<1>9. QED
  BY <1>5, <1>6, <1>7, <1>8 DEF IInv

-------------------------------------------------------------------------------
(* Contact commands keep the invariant.                                    *)

\* A contact command touches the references only when it removes a contact.
LEMMA ContactRowKeeps ==
  ASSUME NEW L, IInv(L), NEW c \in Contacts, NEW row \in ContactRow,
         contacts' = [contacts EXCEPT ![c] = row],
         UNCHANGED <<domains, hosts, renaming>>
  PROVE  IInv(L)'
<1>1. /\ contacts' \in [Contacts -> ContactRow \cup {None}]
      /\ \A e \in Contacts : contacts[e] # None => contacts'[e] # None
  BY RowsAreNotNone DEF IInv, TypeOK
<1>2. TypeOK'
  BY <1>1 DEF IInv, TypeOK
<1>3. ContactReferencesResolve'
  <2>1. \A d \in Domains : domains[d] # None =>
          domains[d].contacts \cup {domains[d].registrantContact} \subseteq Contacts
    BY DEF IInv, TypeOK, DomainRow
  <2>2. QED
    BY <1>1, <2>1 DEF IInv, ContactReferencesResolve, Exists
<1>4. LinksOK(L)' /\ JobOK'
  BY DEF IInv, LinksOK, JobOK, LinksTo, Exists
<1>5. QED
  BY <1>2, <1>3, <1>4 DEF IInv

LEMMA ContactCreateKeeps ==
  ASSUME NEW L, IInv(L), NEW c \in Contacts, NEW r \in Registrars, ContactCreate(c, r)
  PROVE  IInv(L)'
<1>1. [registrarId |-> r, statuses |-> {"ok"}] \in ContactRow
  BY DEF ContactRow, ObjectStatuses
<1>2. QED
  BY <1>1, ContactRowKeeps DEF ContactCreate

LEMMA ContactUpdateKeeps ==
  ASSUME NEW L, IInv(L), NEW c \in Contacts, NEW r \in Registrars,
         NEW add \in SUBSET StatusChoices, NEW rem \in SUBSET StatusChoices,
         NEW other \in BOOLEAN, ContactUpdate(c, r, add, rem, other)
  PROVE  IInv(L)'
<1> DEFINE row == [contacts[c] EXCEPT !.statuses = NewStatuses(contacts[c], add, rem)]
<1>1. contacts[c] \in ContactRow
  BY DEF ContactUpdate, IsSponsor, Exists, IInv, TypeOK
<1>2. NewStatuses(contacts[c], add, rem) \in (SUBSET ObjectStatuses) \ {{}}
  BY <1>1, NewStatusesFacts DEF ContactRow
<1>3. row \in ContactRow
  BY <1>1, <1>2 DEF ContactRow
<1>4. contacts' = [contacts EXCEPT ![c] = row]
  BY DEF ContactUpdate
<1>5. QED
  BY <1>3, <1>4, ContactRowKeeps DEF ContactUpdate

LEMMA ContactDeleteKeeps ==
  ASSUME NEW L, IInv(L), NEW c \in Contacts, NEW r \in Registrars, ContactDelete(c, r)
  PROVE  IInv(L)'
<1>1. /\ contacts' = [contacts EXCEPT ![c] = None]
      /\ UNCHANGED <<domains, hosts, renaming>>
      /\ contacts \in [Contacts -> ContactRow \cup {None}]
  BY DEF ContactDelete, IInv, TypeOK
<1>2. /\ contacts' \in [Contacts -> ContactRow \cup {None}]
      /\ \A e \in Contacts : e # c => contacts'[e] = contacts[e]
  BY <1>1
<1>3. TypeOK'
  BY <1>1, <1>2 DEF IInv, TypeOK
<1>4. ContactReferencesResolve'
  <2>1. \A d \in Domains : domains[d] # None =>
          /\ domains[d].contacts \cup {domains[d].registrantContact} \subseteq Contacts
          /\ c \notin domains[d].contacts \cup {domains[d].registrantContact}
    BY DEF ContactDelete, ContactIsLinked, Exists, IInv, TypeOK, DomainRow
  <2>2. QED
    BY <1>1, <1>2, <2>1 DEF IInv, ContactReferencesResolve, Exists
<1>5. LinksOK(L)' /\ JobOK'
  BY <1>1 DEF IInv, LinksOK, JobOK, LinksTo, Exists
<1>6. QED
  BY <1>3, <1>4, <1>5 DEF IInv

-------------------------------------------------------------------------------
(* Host commands and the statements of a rename keep the invariant.        *)

\* A host that is written, and not removed, leaves every reference intact.
LEMMA HostRowKeeps ==
  ASSUME NEW L, IInv(L), renaming = None, NEW h \in Hosts, NEW row \in HostRow,
         hosts' = [hosts EXCEPT ![h] = row],
         UNCHANGED <<domains, contacts, renaming>>
  PROVE  IInv(L)'
<1>1. /\ hosts' \in [Hosts -> HostRow \cup {None}]
      /\ \A e \in Hosts : hosts[e] # None => hosts'[e] # None
  BY RowsAreNotNone DEF IInv, TypeOK
<1>2. TypeOK'
  BY <1>1 DEF IInv, TypeOK
<1>3. ContactReferencesResolve'
  BY DEF IInv, ContactReferencesResolve, Exists
<1>4. LinksOK(L)'
  BY <1>1 DEF IInv, LinksOK, LinksTo, Exists
<1>5. JobOK'
  BY DEF JobOK
<1>6. QED
  BY <1>2, <1>3, <1>4, <1>5 DEF IInv

LEMMA HostCreateKeeps ==
  ASSUME NEW L, IInv(L), renaming = None, NEW h \in Hosts, NEW r \in Registrars,
         NEW addrs \in SUBSET Addresses, HostCreate(h, r, addrs)
  PROVE  IInv(L)'
<1>1. [registrarId |-> r, statuses |-> {"ok"}, addresses |-> addrs] \in HostRow
  BY DEF HostRow, ObjectStatuses
<1>2. QED
  BY <1>1, HostRowKeeps DEF HostCreate

LEMMA HostUpdateKeeps ==
  ASSUME NEW L, IInv(L), renaming = None, NEW h \in Hosts, NEW r \in Registrars,
         NEW add \in SUBSET StatusChoices, NEW rem \in SUBSET StatusChoices,
         NEW addA \in SUBSET Addresses, NEW remA \in SUBSET Addresses,
         HostUpdate(h, r, add, rem, addA, remA)
  PROVE  IInv(L)'
<1> DEFINE row == UpdatedHost(hosts[h], add, rem, addA, remA)
<1>1. hosts[h] \in HostRow
  BY DEF HostUpdate, IsSponsor, Exists, IInv, TypeOK
<1>2. NewStatuses(hosts[h], add, rem) \in (SUBSET ObjectStatuses) \ {{}}
  BY <1>1, NewStatusesFacts DEF HostRow
<1>3. row \in HostRow
  BY <1>1, <1>2 DEF HostRow, UpdatedHost
<1>4. hosts' = [hosts EXCEPT ![h] = row]
  BY DEF HostUpdate
<1>5. QED
  BY <1>3, <1>4, HostRowKeeps DEF HostUpdate

LEMMA HostDeleteKeeps ==
  ASSUME NEW L, IInv(L), renaming = None, NEW h \in Hosts, NEW r \in Registrars, HostDelete(h, r)
  PROVE  IInv(L)'
<1>1. /\ hosts' = [hosts EXCEPT ![h] = None]
      /\ UNCHANGED <<domains, contacts, renaming>>
      /\ hosts \in [Hosts -> HostRow \cup {None}]
  BY DEF HostDelete, IInv, TypeOK
<1>2. /\ hosts' \in [Hosts -> HostRow \cup {None}]
      /\ \A e \in Hosts : e # h => hosts'[e] = hosts[e]
  BY <1>1
<1>3. TypeOK'
  BY <1>1, <1>2 DEF IInv, TypeOK
<1>4. ContactReferencesResolve'
  BY <1>1 DEF IInv, ContactReferencesResolve, Exists
<1>5. LinksOK(L)'
  BY <1>1, <1>2 DEF HostDelete, HostIsLinked, IInv, LinksOK, LinksTo, Exists
<1>6. JobOK'
  BY <1>1 DEF JobOK
<1>7. QED
  BY <1>3, <1>4, <1>5, <1>6 DEF IInv

\* The first statement: the row moves, and the domains that name it wait.
LEMMA HostRenameKeeps ==
  ASSUME NEW L, IInv(L), renaming = None, NEW h \in Hosts, NEW r \in Registrars, NEW new \in Hosts,
         HostRename(h, r, new)
  PROVE  IInv(L)'
<1> DEFINE waiting == {d \in Domains : LinksTo(d, h)}
           job == [from |-> h, to |-> new, columns |-> TRUE, links |-> waiting]
<1>1. hosts[h] \in HostRow /\ hosts[h] # None
  BY DEF HostRename, IsSponsor, Exists, IInv, TypeOK
<1>2. /\ hosts' = [hosts EXCEPT ![h] = None, ![new] = hosts[h]]
      /\ hosts \in [Hosts -> HostRow \cup {None}]
      /\ renaming' = job
      /\ UNCHANGED <<domains, contacts>>
  BY DEF HostRename, IInv, TypeOK
<1>3. /\ hosts'[new] = hosts[h]
      /\ \A e \in Hosts \ {h, new} : hosts'[e] = hosts[e]
      /\ hosts' \in [Hosts -> HostRow \cup {None}]
  BY <1>1, <1>2
<1>4. job \in RenameJob /\ job # None
  <2>1. waiting \in SUBSET Domains
    OBVIOUS
  <2> HIDE DEF waiting
  <2>2. job \in RenameJob
    BY <2>1 DEF RenameJob
  <2>3. QED
    BY <2>2, RowsAreNotNone
<1>5. TypeOK'
  BY <1>2, <1>3, <1>4 DEF IInv, TypeOK
<1>6. ContactReferencesResolve'
  BY <1>2 DEF IInv, ContactReferencesResolve, Exists
<1>7. \A d \in Domains, e \in Hosts : LinksTo(d, e)' <=> LinksTo(d, e)
  BY <1>2 DEF LinksTo, Exists
<1>8. LinksOK(L)'
  <2> SUFFICES ASSUME NEW d \in Domains, NEW e \in Hosts, LinksTo(d, e)'
               PROVE  \/ Exists(hosts, e)'
                      \/ renaming' # None /\ e = renaming'.from /\ d \in renaming'.links
                      \/ <<d, e>> \in L
    BY DEF LinksOK
  <2>1. LinksTo(d, e) /\ (hosts[e] # None \/ <<d, e>> \in L)
    BY <1>7 DEF IInv, LinksOK, Exists
  <2>2. CASE e = h
    BY <1>2, <1>4, <2>1, <2>2
  <2>3. CASE e # h
    BY <1>1, <1>3, <2>1, <2>3 DEF Exists
  <2>4. QED
    BY <2>2, <2>3
<1>9. JobOK'
  <2>1. Exists(hosts, new)'
    BY <1>1, <1>3 DEF Exists
  <2>2. \A d \in waiting : LinksTo(d, h)'
    BY <1>7
  <2>3. renaming'.to = new /\ renaming'.from = h /\ renaming'.links = waiting
    BY <1>2
  <2>4. QED
    BY <2>1, <2>2, <2>3 DEF JobOK
<1>10. QED
  BY <1>5, <1>6, <1>8, <1>9 DEF IInv

\* What a running rename is.
LEMMA JobFacts ==
  ASSUME NEW L, IInv(L), renaming # None
  PROVE  /\ renaming \in RenameJob
         /\ renaming.from \in Hosts /\ renaming.to \in Hosts
         /\ renaming.links \subseteq Domains
         /\ hosts[renaming.to] \in HostRow
BY DEF IInv, TypeOK, JobOK, RenameJob, Exists

\* The second statement.
LEMMA RenameColumnsKeeps ==
  ASSUME NEW L, IInv(L), renaming # None, RenameColumns
  PROVE  IInv(L)'
<1> DEFINE to == renaming.to
           row == [hosts[to] EXCEPT !.addresses = IF Parent[to] = None THEN {} ELSE @]
<1>1. row \in HostRow /\ row # None
  <2>1. hosts[to] \in HostRow
    BY JobFacts
  <2>2. QED
    BY <2>1, RowsAreNotNone DEF HostRow
<1>2. /\ hosts' = [hosts EXCEPT ![to] = row]
      /\ hosts \in [Hosts -> HostRow \cup {None}]
      /\ UNCHANGED <<domains, contacts>>
  BY DEF RenameColumns, IInv, TypeOK
<1>3. /\ hosts' \in [Hosts -> HostRow \cup {None}]
      /\ \A e \in Hosts : hosts[e] # None => hosts'[e] # None
      /\ hosts'[to] # None
  BY <1>1, <1>2, JobFacts
<1>4. CASE renaming.links = {}
  <2>1. renaming' = None
    BY <1>4 DEF RenameColumns
  <2>2. TypeOK'
    BY <1>2, <1>3, <2>1 DEF IInv, TypeOK
  <2>3. ContactReferencesResolve'
    BY <1>2 DEF IInv, ContactReferencesResolve, Exists
  <2>4. LinksOK(L)'
    BY <1>2, <1>3, <1>4 DEF IInv, LinksOK, LinksTo, Exists
  <2>5. JobOK'
    BY <2>1 DEF JobOK
  <2>6. QED
    BY <2>2, <2>3, <2>4, <2>5 DEF IInv
<1>5. CASE renaming.links # {}
  <2>1. renaming' = [renaming EXCEPT !.columns = FALSE]
    BY <1>5 DEF RenameColumns
  <2>2. /\ renaming' \in RenameJob /\ renaming' # None
        /\ renaming'.from = renaming.from
        /\ renaming'.to = renaming.to
        /\ renaming'.links = renaming.links
    BY <2>1, JobFacts, RowsAreNotNone DEF RenameJob
  <2>3. TypeOK'
    BY <1>2, <1>3, <2>2 DEF IInv, TypeOK
  <2>4. ContactReferencesResolve'
    BY <1>2 DEF IInv, ContactReferencesResolve, Exists
  <2>5. LinksOK(L)'
    BY <1>2, <1>3, <2>2 DEF IInv, LinksOK, LinksTo, Exists
  <2>6. JobOK'
    BY <1>2, <1>3, <2>2 DEF IInv, JobOK, LinksTo, Exists
  <2>7. QED
    BY <2>3, <2>4, <2>5, <2>6 DEF IInv
<1>6. QED
  BY <1>4, <1>5

\* The statements after it, one for each domain.
LEMMA RenameLinkKeeps ==
  ASSUME NEW L, IInv(L), renaming # None, NEW d \in Domains, RenameLink(d)
  PROVE  IInv(L)'
<1> DEFINE from == renaming.from
           to == renaming.to
           new == (domains[d].nameservers \ {Plain(from)}) \cup {Plain(to)}
           row == [domains[d] EXCEPT !.nameservers = new]
<1>1. domains[d] \in DomainRow /\ domains[d] # None /\ d \in renaming.links
  BY DEF RenameLink, IInv, TypeOK, JobOK, LinksTo, Exists
<1>2. /\ row \in DomainRow /\ row # None
      /\ row.contacts = domains[d].contacts
      /\ row.registrantContact = domains[d].registrantContact
      /\ row.nameservers = new
  <2>1. Plain(to) \in Spellings
    BY JobFacts, PlainFacts
  <2>2. new \in SUBSET Spellings
    BY <1>1, <2>1 DEF DomainRow
  <2>3. QED
    BY <1>1, <2>2, RowsAreNotNone DEF DomainRow
<1>3. /\ domains' = [domains EXCEPT ![d] = row]
      /\ domains \in [Domains -> DomainRow \cup {None}]
      /\ UNCHANGED <<hosts, contacts>>
  BY DEF RenameLink, IInv, TypeOK
<1>4. /\ domains'[d] = row
      /\ \A e \in Domains : e # d => domains'[e] = domains[e]
      /\ domains' \in [Domains -> DomainRow \cup {None}]
  BY <1>2, <1>3
<1>5. ContactReferencesResolve'
  BY <1>1, <1>2, <1>3, <1>4 DEF IInv, ContactReferencesResolve, Exists
<1>6. \A e \in Domains, h \in Hosts : LinksTo(e, h)' =>
        IF e = d THEN h = to \/ (LinksTo(e, h) /\ h # from) ELSE LinksTo(e, h)
  <2>1. \A h \in Hosts : Plain(h) \in new => h = to \/ (Plain(h) \in domains[d].nameservers /\ h # from)
    BY JobFacts, PlainFacts
  <2>2. QED
    BY <1>1, <1>2, <1>4, <2>1 DEF LinksTo, Exists
<1>7. \A e \in Domains \ {d}, h \in Hosts : LinksTo(e, h)' <=> LinksTo(e, h)
  BY <1>4 DEF LinksTo, Exists
<1>8. \A h \in Hosts : Exists(hosts, h)' <=> Exists(hosts, h)
  BY <1>3 DEF Exists
<1>9. Exists(hosts, to)
  BY DEF IInv, JobOK
<1>10. CASE renaming.links = {d}
  <2>1. renaming' = None
    BY <1>10 DEF RenameLink
  <2>2. TypeOK'
    BY <1>3, <1>4, <2>1 DEF IInv, TypeOK
  <2>3. LinksOK(L)'
    <3> SUFFICES ASSUME NEW e \in Domains, NEW h \in Hosts, LinksTo(e, h)'
                 PROVE  Exists(hosts, h)' \/ <<e, h>> \in L
      BY DEF LinksOK
    <3>1. CASE h = to
      BY <1>8, <1>9, <3>1
    <3>2. CASE h # to
      <4>1. LinksTo(e, h) /\ (e = d => h # from)
        BY <1>6, <3>2
      <4>2. Exists(hosts, h) \/ <<e, h>> \in L
        BY <1>10, <4>1 DEF IInv, LinksOK
      <4>3. QED
        BY <1>8, <4>2
    <3>3. QED
      BY <3>1, <3>2
  <2>4. JobOK'
    BY <2>1 DEF JobOK
  <2>5. QED
    BY <1>5, <2>2, <2>3, <2>4 DEF IInv
<1>11. CASE renaming.links # {d}
  <2>1. renaming' = [renaming EXCEPT !.links = @ \ {d}]
    BY <1>11 DEF RenameLink
  <2>2. /\ renaming' \in RenameJob /\ renaming' # None
        /\ renaming'.from = from
        /\ renaming'.to = to
        /\ renaming'.links = renaming.links \ {d}
    BY <2>1, JobFacts, RowsAreNotNone DEF RenameJob
  <2>3. TypeOK'
    BY <1>3, <1>4, <2>2 DEF IInv, TypeOK
  <2>4. LinksOK(L)'
    <3> SUFFICES ASSUME NEW e \in Domains, NEW h \in Hosts, LinksTo(e, h)'
                 PROVE  \/ Exists(hosts, h)'
                        \/ renaming' # None /\ h = renaming'.from /\ e \in renaming'.links
                        \/ <<e, h>> \in L
      BY DEF LinksOK
    <3>1. CASE h = to
      BY <1>8, <1>9, <3>1
    <3>2. CASE h # to
      <4>1. LinksTo(e, h) /\ (e = d => h # from)
        BY <1>6, <3>2
      <4>2. Exists(hosts, h) \/ (h = from /\ e \in renaming.links) \/ <<e, h>> \in L
        BY <4>1 DEF IInv, LinksOK
      <4>3. QED
        BY <1>8, <2>2, <4>1, <4>2
    <3>3. QED
      BY <3>1, <3>2
  <2>5. JobOK'
    <3>1. \A e \in renaming.links : LinksTo(e, from)
      BY DEF IInv, JobOK
    <3>2. QED
      BY <1>7, <1>8, <1>9, <2>2, <3>1, JobFacts DEF JobOK
  <2>6. QED
    BY <1>5, <2>3, <2>4, <2>5 DEF IInv
<1>12. QED
  BY <1>10, <1>11

-------------------------------------------------------------------------------
(* The invariants.                                                         *)

LEMMA InitKeeps ==
  ASSUME NEW L, Init
  PROVE  IInv(L)
<1>1. TypeOK
  BY DEF Init, TypeOK
<1>2. ContactReferencesResolve /\ LinksOK(L) /\ JobOK
  BY DEF Init, ContactReferencesResolve, LinksOK, LinksTo, JobOK, Exists
<1>3. QED
  BY <1>1, <1>2 DEF IInv

LEMMA CommandKeeps ==
  ASSUME NEW L, IInv(L), renaming = None, Command
  PROVE  IInv(L)'
<1>1. PICK r \in Registrars :
        \/ \E d \in Domains : DomainCommand(d, r)
        \/ \E c \in Contacts : ContactCommand(c, r)
        \/ \E h \in Hosts : HostCommand(h, r)
  BY DEF Command
<1>2. ASSUME NEW d \in Domains, DomainCommand(d, r) PROVE IInv(L)'
  BY <1>2, DomainCreateKeeps, DomainUpdateKeeps, DomainPurgeKeeps, DomainHandOverKeeps
     DEF DomainCommand
<1>3. ASSUME NEW c \in Contacts, ContactCommand(c, r) PROVE IInv(L)'
  BY <1>3, ContactCreateKeeps, ContactUpdateKeeps, ContactDeleteKeeps DEF ContactCommand
<1>4. ASSUME NEW h \in Hosts, HostCommand(h, r) PROVE IInv(L)'
  BY <1>4, HostCreateKeeps, HostUpdateKeeps, HostDeleteKeeps, HostRenameKeeps DEF HostCommand
<1>5. QED
  BY <1>1, <1>2, <1>3, <1>4

LEMMA NextKeeps ==
  ASSUME NEW L, IInv(L), [Next]_vars
  PROVE  IInv(L)'
<1>1. CASE renaming = None /\ Command
  BY <1>1, CommandKeeps
<1>2. CASE renaming # None /\ FinishRename
  BY <1>2, RenameColumnsKeeps, RenameLinkKeeps DEF FinishRename
<1>3. CASE UNCHANGED vars
  BY <1>3 DEF vars, IInv, TypeOK, ContactReferencesResolve, LinksOK, JobOK, LinksTo, Exists
<1>4. QED
  BY <1>1, <1>2, <1>3 DEF Next

\* Only a rename starts a job.
LEMMA CommandStartsJob ==
  ASSUME renaming = None, Command
  PROVE  \/ renaming' = None
         \/ \E h \in Hosts, r \in Registrars, new \in Hosts : HostRename(h, r, new)
<1>1. PICK r \in Registrars :
        \/ \E d \in Domains : DomainCommand(d, r)
        \/ \E c \in Contacts : ContactCommand(c, r)
        \/ \E h \in Hosts : HostCommand(h, r)
  BY DEF Command
<1>2. CASE \E d \in Domains : DomainCommand(d, r)
  BY <1>2, ZenonT(30) DEF DomainCommand, DomainCreate, DomainUpdate, DomainPurge, DomainHandOver
<1>3. CASE \E c \in Contacts : ContactCommand(c, r)
  BY <1>3 DEF ContactCommand, ContactCreate, ContactUpdate, ContactDelete
<1>4. ASSUME NEW h \in Hosts, HostCommand(h, r)
      PROVE  renaming' = None \/ \E new \in Hosts : HostRename(h, r, new)
  BY <1>4, ZenonT(30) DEF HostCommand, HostCreate, HostUpdate, HostDelete
<1>5. QED
  BY <1>1, <1>2, <1>3, <1>4

\* A name that is free to rename to is on no domain, unless a link is lost.
LEMMA FreshKeeps ==
  ASSUME IInv({}), FreshJob, [Next]_vars
  PROVE  FreshJob'
<1>1. ASSUME NEW h \in Hosts, NEW r \in Registrars, NEW new \in Hosts,
             renaming = None, HostRename(h, r, new)
      PROVE  FreshJob'
  <2>1. new # h => \A d \in Domains : ~LinksTo(d, new)
    BY <1>1 DEF HostRename, IInv, LinksOK
  <2>2. \A d \in Domains : LinksTo(d, new)' <=> LinksTo(d, new)
    BY <1>1 DEF HostRename, LinksTo, Exists
  <2>3. /\ renaming'.from = h /\ renaming'.to = new
        /\ renaming'.links \subseteq Domains
    BY <1>1 DEF HostRename
  <2>4. QED
    BY <2>1, <2>2, <2>3 DEF FreshJob
<1>2. CASE renaming = None /\ Command
  BY <1>1, <1>2, CommandStartsJob DEF FreshJob
<1>3. CASE renaming # None /\ RenameColumns
  <2>1. renaming' = None \/ renaming' = [renaming EXCEPT !.columns = FALSE]
    BY <1>3 DEF RenameColumns
  <2>2. CASE renaming' = None
    BY <2>2 DEF FreshJob
  <2>3. CASE renaming' = [renaming EXCEPT !.columns = FALSE]
    <3>1. /\ renaming'.from = renaming.from /\ renaming'.to = renaming.to
          /\ renaming'.links = renaming.links
      BY <1>3, <2>3, JobFacts DEF RenameJob
    <3>2. domains' = domains
      BY <1>3 DEF RenameColumns
    <3>3. QED
      BY <1>3, <3>1, <3>2 DEF FreshJob, LinksTo, Exists
  <2>4. QED
    BY <2>1, <2>2, <2>3
<1>4. ASSUME NEW d \in Domains, renaming # None, RenameLink(d)
      PROVE  FreshJob'
  <2>1. renaming' = None \/ renaming' = [renaming EXCEPT !.links = @ \ {d}]
    BY <1>4 DEF RenameLink
  <2>2. CASE renaming' = None
    BY <2>2 DEF FreshJob
  <2>3. CASE renaming' = [renaming EXCEPT !.links = @ \ {d}]
    <3>1. /\ renaming'.from = renaming.from /\ renaming'.to = renaming.to
          /\ renaming'.links = renaming.links \ {d}
          /\ renaming.links \subseteq Domains
      BY <1>4, <2>3, JobFacts DEF RenameJob
    <3>2. domains \in [Domains -> DomainRow \cup {None}]
      BY DEF IInv, TypeOK
    <3>3. \A e \in Domains \ {d} : domains'[e] = domains[e]
      BY <1>4, <3>2 DEF RenameLink
    <3>4. QED
      BY <1>4, <3>1, <3>3 DEF FreshJob, LinksTo, Exists
  <2>4. QED
    BY <2>1, <2>2, <2>3
<1>5. CASE UNCHANGED vars
  BY <1>5 DEF vars, FreshJob, LinksTo, Exists
<1>6. QED
  BY <1>2, <1>3, <1>4, <1>5 DEF Next, FinishRename

\* The strengthened invariant holds in every state of the tables, a running rename
\* included, and no link is lost while the process lives.
THEOREM Inductive == Spec => [](IInv({}) /\ FreshJob)
<1>1. Init => IInv({}) /\ FreshJob
  BY InitKeeps DEF Init, FreshJob
<1>2. IInv({}) /\ FreshJob /\ [Next]_vars => (IInv({}) /\ FreshJob)'
  BY NextKeeps, FreshKeeps
<1>3. QED
  BY <1>1, <1>2, PTL DEF Spec

\* The tables hold rows of their kind, every status list in it non-empty, and a
\* rename that runs is a job over existing names.
THEOREM TypeCorrect == Spec => []TypeOK
<1>1. IInv({}) => TypeOK
  BY DEF IInv
<1>2. QED
  BY <1>1, Inductive, PTL

\* Every contact that a domain names exists (RegistryLinks' contact check on one
\* side, ReferencedObjectsExist on the other), whatever the order of the commands.
THEOREM ContactReferences == Spec => []ContactReferencesResolve
<1>1. IInv({}) => ContactReferencesResolve
  BY DEF IInv
<1>2. QED
  BY <1>1, Inductive, PTL

\* Between commands every plain nameserver is a host: what a rename leaves behind
\* while it runs is gone when its last statement has run.
THEOREM HostReferences == Spec => []HostReferencesResolve
<1>1. IInv({}) => HostReferencesResolve
  BY DEF IInv, LinksOK, HostReferencesResolve
<1>2. QED
  BY <1>1, Inductive, PTL

-------------------------------------------------------------------------------
(* What a step may not do.                                                 *)

\* Only a create and a rename make a host appear.
LEMMA AppearsFacts ==
  ASSUME NEW L, IInv(L), [Next]_vars, NEW h \in Hosts, Appears(h)
  PROVE  /\ renaming = None
         /\ \E r \in Registrars :
              \/ \E addrs \in SUBSET Addresses : HostCreate(h, r, addrs)
              \/ \E old \in Hosts : HostRename(old, r, h)
<1>1. hosts[h] = None /\ hosts'[h] # None /\ hosts \in [Hosts -> HostRow \cup {None}]
  BY DEF Appears, Exists, IInv, TypeOK
<1>2. CASE renaming # None /\ FinishRename
  <2>1. CASE RenameColumns
    <3>1. hosts[renaming.to] # None
      BY <1>2, JobFacts, RowsAreNotNone
    <3>2. hosts'[h] = hosts[h]
      BY <1>1, <2>1, <3>1 DEF RenameColumns
    <3>3. QED
      BY <1>1, <3>2
  <2>2. CASE \E d \in Domains : RenameLink(d)
    BY <1>1, <2>2 DEF RenameLink
  <2>3. QED
    BY <1>2, <2>1, <2>2 DEF FinishRename
<1>3. CASE renaming = None /\ Command
  <2>1. PICK r \in Registrars :
          \/ \E d \in Domains : DomainCommand(d, r)
          \/ \E c \in Contacts : ContactCommand(c, r)
          \/ \E e \in Hosts : HostCommand(e, r)
    BY <1>3 DEF Command
  <2>2. CASE \E d \in Domains : DomainCommand(d, r)
    BY <1>1, <2>2, ZenonT(30) DEF DomainCommand, DomainCreate, DomainUpdate, DomainPurge, DomainHandOver
  <2>3. CASE \E c \in Contacts : ContactCommand(c, r)
    BY <1>1, <2>3 DEF ContactCommand, ContactCreate, ContactUpdate, ContactDelete
  <2>4. ASSUME NEW e \in Hosts, HostCommand(e, r)
        PROVE  \/ \E addrs \in SUBSET Addresses : HostCreate(h, r, addrs)
               \/ HostRename(e, r, h)
    <3>1. ASSUME NEW addrs \in SUBSET Addresses, HostCreate(e, r, addrs) PROVE e = h
      BY <1>1, <3>1 DEF HostCreate
    <3>2. ASSUME NEW add, NEW rem, NEW addA, NEW remA, HostUpdate(e, r, add, rem, addA, remA)
          PROVE  FALSE
      <4>1. e # h
        BY <1>1, <3>2 DEF HostUpdate, IsSponsor, Exists
      <4>2. hosts'[h] = hosts[h]
        BY <1>1, <3>2, <4>1 DEF HostUpdate
      <4>3. QED
        BY <1>1, <4>2
    <3>3. ASSUME HostDelete(e, r) PROVE FALSE
      BY <1>1, <3>3 DEF HostDelete
    <3>4. ASSUME NEW new \in Hosts, HostRename(e, r, new) PROVE new = h
      BY <1>1, <3>4 DEF HostRename
    <3>5. QED
      BY <2>4, <3>1, <3>2, <3>3, <3>4 DEF HostCommand
  <2>5. QED
    BY <1>3, <2>1, <2>2, <2>3, <2>4
<1>4. CASE UNCHANGED vars
  BY <1>1, <1>4 DEF vars
<1>5. QED
  BY <1>2, <1>3, <1>4 DEF Next

LEMMA GlueStep == IInv({}) /\ [Next]_vars => NarrowGlueStep
<1> SUFFICES ASSUME IInv({}), [Next]_vars, NEW h \in Hosts, Appears(h), Parent[h] # None
             PROVE  IsSponsor(domains, Parent[h], hosts'[h].registrarId)
  BY DEF NarrowGlueStep
<1>1. hosts \in [Hosts -> HostRow \cup {None}]
  BY DEF IInv, TypeOK
<1>2. PICK r \in Registrars :
        \/ \E addrs \in SUBSET Addresses : HostCreate(h, r, addrs)
        \/ \E old \in Hosts : HostRename(old, r, h)
  BY AppearsFacts
<1>3. ASSUME NEW addrs \in SUBSET Addresses, HostCreate(h, r, addrs)
      PROVE  ParentAllows(h, r) /\ hosts'[h].registrarId = r
  BY <1>1, <1>3 DEF HostCreate
<1>4. ASSUME NEW old \in Hosts, HostRename(old, r, h)
      PROVE  ParentAllows(h, r) /\ hosts'[h].registrarId = r
  BY <1>1, <1>4 DEF HostRename, IsSponsor
<1>5. ParentAllows(h, r) /\ hosts'[h].registrarId = r
  BY <1>2, <1>3, <1>4
<1>6. QED
  BY <1>5 DEF ParentAllows

\* Created or renamed, a host comes to stand inside the TLD only under a domain of
\* its own sponsor (assertCanCreateHost, and the rename's check of the new parent).
THEOREM NarrowGlueHolds == Spec => NarrowGlue
<1>1. QED
  BY Inductive, GlueStep, PTL DEF Spec, NarrowGlue

LEMMA ForeignStep == IInv({}) /\ [Next]_vars => ForeignLinkStep
<1> SUFFICES ASSUME IInv({}), [Next]_vars,
                    NEW h \in Hosts, Exists(hosts, h), Parent[h] = None, renaming = None,
                    NEW d \in Domains, LinksTo(d, h),
                    domains[d].registrarId # hosts[h].registrarId
             PROVE  hosts'[h] # None
  BY DEF ForeignLinkStep
<1>1. /\ hosts \in [Hosts -> HostRow \cup {None}]
      /\ hosts[h] # None /\ hosts[h] \in HostRow
  BY DEF IInv, TypeOK, Exists
<1>2. ASSUME Command PROVE hosts'[h] # None
  <2>1. PICK r \in Registrars :
          \/ \E e \in Domains : DomainCommand(e, r)
          \/ \E c \in Contacts : ContactCommand(c, r)
          \/ \E e \in Hosts : HostCommand(e, r)
    BY <1>2 DEF Command
  <2>2. CASE \E e \in Domains : DomainCommand(e, r)
    BY <1>1, <2>2, ZenonT(30) DEF DomainCommand, DomainCreate, DomainUpdate, DomainPurge, DomainHandOver
  <2>3. CASE \E c \in Contacts : ContactCommand(c, r)
    BY <1>1, <2>3 DEF ContactCommand, ContactCreate, ContactUpdate, ContactDelete
  <2>4. ASSUME NEW e \in Hosts, HostCommand(e, r) PROVE hosts'[h] # None
    <3>1. ASSUME NEW addrs \in SUBSET Addresses, HostCreate(e, r, addrs)
          PROVE  hosts'[h] # None
      <4>1. e # h
        BY <3>1 DEF HostCreate, Exists
      <4>2. QED
        BY <1>1, <3>1, <4>1 DEF HostCreate
    <3>2. ASSUME NEW add \in SUBSET StatusChoices, NEW rem \in SUBSET StatusChoices,
                 NEW addA \in SUBSET Addresses, NEW remA \in SUBSET Addresses,
                 HostUpdate(e, r, add, rem, addA, remA)
          PROVE  hosts'[h] # None
      <4> DEFINE row == UpdatedHost(hosts[e], add, rem, addA, remA)
      <4>1. hosts[e] \in HostRow
        BY <1>1, <3>2 DEF HostUpdate, IsSponsor, Exists
      <4>2. NewStatuses(hosts[e], add, rem) \in (SUBSET ObjectStatuses) \ {{}}
        BY <4>1, NewStatusesFacts DEF HostRow
      <4>3. row # None
        BY <4>1, <4>2, RowsAreNotNone DEF HostRow, UpdatedHost
      <4>4. hosts' = [hosts EXCEPT ![e] = row]
        BY <3>2 DEF HostUpdate
      <4>5. QED
        BY <1>1, <4>3, <4>4
    <3>3. ASSUME HostDelete(e, r) PROVE hosts'[h] # None
      <4>1. e # h
        BY <3>3 DEF HostDelete, HostIsLinked
      <4>2. QED
        BY <1>1, <3>3, <4>1 DEF HostDelete
    <3>4. ASSUME NEW new \in Hosts, HostRename(e, r, new) PROVE hosts'[h] # None
      <4>1. e # h
        BY <3>4 DEF HostRename, IsSponsor, IsLinkedToOtherRegistrar
      <4>2. hosts[e] # None /\ hosts' = [hosts EXCEPT ![e] = None, ![new] = hosts[e]]
        BY <3>4 DEF HostRename, IsSponsor, Exists
      <4>3. QED
        BY <1>1, <4>1, <4>2
    <3>5. QED
      BY <2>4, <3>1, <3>2, <3>3, <3>4 DEF HostCommand
  <2>5. QED
    BY <2>1, <2>2, <2>3, <2>4
<1>3. CASE UNCHANGED vars
  BY <1>1, <1>3 DEF vars
<1>4. QED
  BY <1>2, <1>3 DEF Next

\* While another registrar's domain links to a host outside the TLD, no command
\* takes the host away (isLinked, isLinkedToOtherRegistrar).
THEOREM ForeignLinksHold == Spec => ForeignLinksHoldHosts
<1>1. QED
  BY Inductive, ForeignStep, PTL DEF Spec, ForeignLinksHoldHosts

\* Finitely many hosts have finitely many spellings.
LEMMA SpellingsAreFinite ==
  ASSUME IsFiniteSet(Hosts)
  PROVE  IsFiniteSet(Spellings)
<1> DEFINE f == [p \in Hosts \X BOOLEAN |-> [host |-> p[1], dot |-> p[2]]]
<1>1. IsFiniteSet(BOOLEAN)
  <2>1. IsFiniteSet({}) /\ BOOLEAN = ({} \cup {TRUE}) \cup {FALSE}
    BY FS_EmptySet
  <2>2. IsFiniteSet({} \cup {TRUE})
    BY <2>1, FS_AddElement
  <2>3. QED
    BY <2>1, <2>2, FS_AddElement
<1>2. IsFiniteSet(Hosts \X BOOLEAN)
  BY <1>1, FS_Product
<1>3. f \in Surjection(Hosts \X BOOLEAN, Spellings)
  <2>1. f \in [Hosts \X BOOLEAN -> Spellings]
    BY DEF Spellings
  <2>2. ASSUME NEW ns \in Spellings
        PROVE  \E p \in Hosts \X BOOLEAN : f[p] = ns
    <3>1. /\ <<ns.host, ns.dot>> \in Hosts \X BOOLEAN
          /\ [host |-> ns.host, dot |-> ns.dot] = ns
      BY DEF Spellings
    <3>2. f[<<ns.host, ns.dot>>] = ns
      BY <3>1
    <3>3. QED
      BY <3>1, <3>2
  <2>3. QED
    BY <2>1, <2>2 DEF Surjection
<1>4. QED
  BY <1>2, <1>3, FS_Surjection

LEMMA RenameStep == IsFiniteSet(Hosts) /\ IInv({}) /\ FreshJob /\ [Next]_vars => DelegationStep
<1> SUFFICES ASSUME IsFiniteSet(Hosts), IInv({}), FreshJob, [Next]_vars,
                    NEW d \in Domains, renaming # None, domains[d] # None
             PROVE  Cardinality(domains'[d].nameservers) = Cardinality(domains[d].nameservers)
  BY DEF DelegationStep, Exists
<1>1. /\ domains \in [Domains -> DomainRow \cup {None}]
      /\ domains[d] \in DomainRow
  BY DEF IInv, TypeOK
<1>2. CASE domains'[d] = domains[d]
  BY <1>2
<1>3. ASSUME NEW e \in Domains, RenameLink(e), domains'[d] # domains[d]
      PROVE  Cardinality(domains'[d].nameservers) = Cardinality(domains[d].nameservers)
  <2> DEFINE S == domains[d].nameservers
             old == Plain(renaming.from)
             new == Plain(renaming.to)
  <2>1. e = d
    BY <1>1, <1>3 DEF RenameLink
  <2>2. domains'[d].nameservers = (S \ {old}) \cup {new}
    BY <1>1, <1>3, <2>1 DEF RenameLink, DomainRow
  <2>3. old \in S /\ (new # old => new \notin S)
    BY <1>3, <2>1, JobFacts, PlainFacts DEF RenameLink, IInv, JobOK, FreshJob, LinksTo, Exists
  <2>4. IsFiniteSet(S) /\ Cardinality(S) \in Nat
    BY <1>1, SpellingsAreFinite, FS_Subset, FS_CardinalityType DEF DomainRow
  <2>5. IsFiniteSet(S \ {old}) /\ Cardinality(S \ {old}) = Cardinality(S) - 1
    BY <2>3, <2>4, FS_RemoveElement
  <2>6. new \notin S \ {old}
    BY <2>3
  <2>7. Cardinality((S \ {old}) \cup {new}) = Cardinality(S \ {old}) + 1
    BY <2>5, <2>6, FS_AddElement
  <2>8. QED
    BY <2>2, <2>4, <2>5, <2>7
<1>4. CASE RenameColumns
  BY <1>4 DEF RenameColumns
<1>5. CASE UNCHANGED vars
  BY <1>5 DEF vars
<1>6. QED
  BY <1>2, <1>3, <1>4, <1>5 DEF Next, FinishRename

\* A rename leaves every domain with as many nameservers as it had: the new name
\* cannot be one of them already, since it had no row, and a domain is rewritten
\* once (replaceHostName).
THEOREM RenamesKeepDelegations ==
  ASSUME IsFiniteSet(Hosts)
  PROVE  Spec => RenameKeepsDelegation
<1>1. IInv({}) /\ FreshJob /\ [Next]_vars => DelegationStep
  BY RenameStep
<1>2. QED
  BY <1>1, Inductive, PTL DEF Spec, RenameKeepsDelegation
-------------------------------------------------------------------------------
(* A process that may die.  What holds of every state, lost links or not,  *)
(* is the invariant with every link excused; what a single step may lose   *)
(* is seen by excusing every link but one.                                 *)

\* Nothing resumes an interrupted rename, and every row it wrote stays.
LEMMA CrashKeeps ==
  ASSUME IInv(Domains \X Hosts), Crash
  PROVE  IInv(Domains \X Hosts)'
<1>1. TypeOK'
  BY DEF Crash, IInv, TypeOK
<1>2. ContactReferencesResolve'
  BY DEF Crash, IInv, ContactReferencesResolve, Exists
<1>3. LinksOK(Domains \X Hosts)'
  BY DEF LinksOK
<1>4. JobOK'
  BY DEF Crash, JobOK
<1>5. QED
  BY <1>1, <1>2, <1>3, <1>4 DEF IInv

LEMMA InductiveOverCrashes == CrashSpec => []IInv(Domains \X Hosts)
<1>1. Init => IInv(Domains \X Hosts)
  BY InitKeeps
<1>2. IInv(Domains \X Hosts) /\ [Next \/ Crash]_vars => IInv(Domains \X Hosts)'
  BY NextKeeps, CrashKeeps
<1>3. QED
  BY <1>1, <1>2, PTL DEF CrashSpec

\* However often the process dies between two statements of a rename, the tables
\* hold rows of their kind and every contact that a domain names exists: no rename
\* touches a contact, and a domain is rewritten in one statement.
THEOREM ContactReferencesOutliveCrashes ==
  CrashSpec => [](TypeOK /\ ContactReferencesResolve)
<1>1. IInv(Domains \X Hosts) => TypeOK /\ ContactReferencesResolve
  BY DEF IInv
<1>2. QED
  BY <1>1, InductiveOverCrashes, PTL

\* The domain names a host that has no row, and no running rename will rewrite it.
Dangles(d, h) ==
  /\ LinksTo(d, h)
  /\ ~Exists(hosts, h)
  /\ ~(renaming # None /\ h = renaming.from /\ d \in renaming.links)

LostLinkStep ==
  \A d \in Domains, h \in Hosts : Dangles(d, h)' =>
    \/ Dangles(d, h)
    \/ /\ Crash
       /\ renaming.from = h /\ renaming.to # h
       /\ d \in renaming.links

\* No command and no statement of a rename loses a link.
LEMMA NextLosesNothing ==
  ASSUME IInv(Domains \X Hosts), [Next]_vars,
         NEW d \in Domains, NEW h \in Hosts, Dangles(d, h)'
  PROVE  Dangles(d, h)
<1> DEFINE others == (Domains \X Hosts) \ {<<d, h>>}
<1>1. SUFFICES ASSUME ~Dangles(d, h) PROVE FALSE
  OBVIOUS
<1>2. \A e \in Domains, g \in Hosts : <<e, g>> \in others <=> ~(e = d /\ g = h)
  OBVIOUS
<1> HIDE DEF others
<1>3. LinksOK(others)
  <2> SUFFICES ASSUME NEW e \in Domains, NEW g \in Hosts, LinksTo(e, g), <<e, g>> \notin others
               PROVE  \/ Exists(hosts, g)
                      \/ renaming # None /\ g = renaming.from /\ e \in renaming.links
    BY DEF LinksOK
  <2>1. e = d /\ g = h
    BY <1>2
  <2>2. QED
    BY <1>1, <2>1 DEF Dangles
<1>4. IInv(others)
  BY <1>3 DEF IInv
<1>5. IInv(others)'
  BY <1>4, NextKeeps
<1>6. LinksOK(others)'
  BY <1>5 DEF IInv
<1>7. <<d, h>> \notin others
  BY <1>2
<1>8. QED
  BY <1>6, <1>7 DEF LinksOK, Dangles

LEMMA LostLinks ==
  ASSUME IInv(Domains \X Hosts), [Next \/ Crash]_vars
  PROVE  LostLinkStep
<1> SUFFICES ASSUME NEW d \in Domains, NEW h \in Hosts, Dangles(d, h)', ~Dangles(d, h)
             PROVE  /\ Crash
                    /\ renaming.from = h /\ renaming.to # h
                    /\ d \in renaming.links
  BY DEF LostLinkStep
<1>1. Crash
  BY NextLosesNothing
<1>2. LinksTo(d, h) /\ ~Exists(hosts, h)
  BY <1>1 DEF Crash, Dangles, LinksTo, Exists
<1>3. renaming.from = h /\ d \in renaming.links
  BY <1>2 DEF Dangles
<1>4. Exists(hosts, renaming.to)
  BY <1>1 DEF Crash, IInv, JobOK
<1>5. QED
  BY <1>1, <1>2, <1>3, <1>4

\* A nameserver loses its host in one way only: the process dies during the rename
\* of that host to another name, before the statement that rewrites this domain has
\* run (replaceHostName has no transaction around it).  No sequence of commands
\* after it loses a further link, not even one about a name that is already lost.
THEOREM OnlyInterruptedRenamesLoseLinks == CrashSpec => [][LostLinkStep]_vars
<1>1. IInv(Domains \X Hosts) /\ [Next \/ Crash]_vars => [LostLinkStep]_vars
  BY LostLinks
<1>2. QED
  BY <1>1, InductiveOverCrashes, PTL DEF CrashSpec
===============================================================================
