------------------------- MODULE ZonePublicationProofs -------------------------
(***************************************************************************)
(* Proofs about ZonePublication for every value of its constants.  One     *)
(* part is about what a zone and an export of the same tables say, another *)
(* about the stages of a request, which make the two come from the same    *)
(* tables: these cannot change while a request runs.                       *)
(*                                                                         *)
(* The last part is about one signed zone.  Its NSEC3 records lead from    *)
(* each hash to the next larger one and from the largest to the smallest,  *)
(* so that each hash is settled once (SettledOnce); which records it has   *)
(* of each owner and type, and which of them can be there twice, is        *)
(* followed from the tables to the signatures over them (ZoneVerifies).    *)
(***************************************************************************)
EXTENDS ZonePublication, FiniteSetTheorems, WellFoundedInduction, TLAPS

-------------------------------------------------------------------------------
(* Zone and export of the same tables.                                     *)

\* An address record is no other record.
LEMMA AddressTypes == \A a : AddressType(a) \in {"A", "AAAA"}
BY DEF AddressType

\* There are always addresses for glue, a host's own or made-up ones.
LEMMA GlueExists ==
  ASSUME NEW t, NEW d, NEW j
  PROVE  GlueOf(t, d, j) # {}
<1>1. \A i, k : SyntheticGlueAddresses(i, k) # {}
  BY DEF SyntheticGlueAddresses
<1>2. QED
  BY <1>1 DEF GlueOf, HasHostGlue

\* Every glue address of a name server in the zone is in the zone.
LEMMA GlueIsServed ==
  ASSUME NEW t, NEW c, NEW w, NEW d \in DOMAIN t.domains,
         NEW j \in DOMAIN NameserversOf(d, t.domains[d]),
         InZone(NameserversOf(d, t.domains[d])[j]),
         NEW a \in GlueOf(t, d, j)
  PROVE  \E r \in UnsignedZone(t, c, w) :
           IsGlue(r) /\ r.owner = NameserversOf(d, t.domains[d])[j] /\ r.rdata = a
<1> DEFINE ns == NameserversOf(d, t.domains[d])[j]
           r == RecordAt(<<d, j>>, ns, AddressType(a), a)
<1>1. r \in Delegation(t, d, w)
  BY DEF Delegation
<1>2. r \in UnsignedZone(t, c, w)
  BY <1>1 DEF UnsignedZone
<1>3. r.type = AddressType(a) /\ r.owner = ns /\ r.rdata = a
  BY DEF RecordAt
<1>4. IsGlue(r)
  BY <1>3, AddressTypes DEF IsGlue
<1>5. QED
  BY <1>2, <1>3, <1>4

\* The zone's own name servers have addresses.
LEMMA TldResolves ==
  ASSUME NEW c, NEW r \in TldRecords(c), r.type = "NS"
  PROVE  \E glue \in TldRecords(c) : IsGlue(glue) /\ glue.owner = r.rdata
<1>1. PICK k \in 1..2 : r = RecordAt(<<Tld, k>>, <<Tld>>, "NS", <<Tld, k>>)
  BY AddressTypes DEF TldRecords, RecordAt
<1> DEFINE a == <<203, 0, c, k>>
           glue == RecordAt(<<Tld, k>>, <<Tld, k>>, AddressType(a), a)
<1>2. glue \in TldRecords(c)
  BY DEF TldRecords, TldAddresses
<1>3. IsGlue(glue) /\ glue.owner = r.rdata
  BY <1>1, AddressTypes DEF RecordAt, IsGlue
<1>4. QED
  BY <1>2, <1>3

\* The records of a delegation by type.
LEMMA DelegationTypes ==
  ASSUME NEW t, NEW d, NEW w, NEW r \in Delegation(t, d, w)
  PROVE  /\ r.type = "NS" => \E j \in DOMAIN NameserversOf(d, t.domains[d]) :
                               r.rdata = NameserversOf(d, t.domains[d])[j]
         /\ r.type = "DS" => r.rdata = DsOf(t, d)
BY AddressTypes DEF Delegation, RecordAt

\* No name server in the zone is without address.
LEMMA ZoneResolves ==
  ASSUME NEW t, NEW c, NEW w, NEW r \in UnsignedZone(t, c, w), r.type = "NS", InZone(r.rdata)
  PROVE  \E glue \in UnsignedZone(t, c, w) : IsGlue(glue) /\ glue.owner = r.rdata
<1>1. CASE r \in TldRecords(c)
  BY <1>1, TldResolves DEF UnsignedZone
<1>2. ASSUME NEW d \in DOMAIN t.domains, r \in Delegation(t, d, w)
      PROVE  \E glue \in UnsignedZone(t, c, w) : IsGlue(glue) /\ glue.owner = r.rdata
  <2>1. PICK j \in DOMAIN NameserversOf(d, t.domains[d]) :
          r.rdata = NameserversOf(d, t.domains[d])[j]
    BY <1>2, DelegationTypes
  <2>2. PICK a \in GlueOf(t, d, j) : TRUE
    BY GlueExists
  <2>3. QED
    BY <2>1, <2>2, GlueIsServed
<1>3. QED
  BY <1>1, <1>2 DEF UnsignedZone

\* What the export says is in the zone, the delegated name being one of the zone's.
LEMMA ExportIsServed ==
  ASSUME NEW z, DOMAIN z.tables.domains \subseteq Names
  PROVE  ExportAgrees(z, BuildRegistryExport(z.tables))
<1> DEFINE t == z.tables
           dump == BuildRegistryExport(t)
<1> SUFFICES ASSUME NEW d \in DOMAIN t.domains
             PROVE  /\ \A j \in DOMAIN dump[d].nameservers :
                         \A address \in dump[d].nameservers[j].addresses :
                           HasAddress(z, dump[d].nameservers[j].name, address)
                    /\ dump[d].ds # 0 => DsOf(t, d) = <<dump[d].ds>>
  BY DEF ExportAgrees, BuildRegistryExport
<1> DEFINE ns == NameserversOf(d, t.domains[d])
<1>1. /\ dump[d].ds = t.domains[d].ds
      /\ DOMAIN dump[d].nameservers = DOMAIN ns
      /\ \A j \in DOMAIN ns :
           /\ dump[d].nameservers[j].name = ns[j]
           /\ dump[d].nameservers[j].addresses =
                IF InBailiwick(ns[j], d) THEN GlueOf(t, d, j) ELSE {}
  BY DEF BuildRegistryExport, ExportDomain
<1>2. ASSUME NEW j \in DOMAIN ns, NEW address \in GlueOf(t, d, j), InBailiwick(ns[j], d)
      PROVE  HasAddress(z, ns[j], address)
  <2>1. d # Elsewhere
    BY DEF Names, Elsewhere
  <2>2. InZone(ns[j])
    BY <1>2, <2>1 DEF InBailiwick, InZone
  <2>3. \A w : \E r \in UnsignedZone(t, z.config, w) :
          IsGlue(r) /\ r.owner = ns[j] /\ r.rdata = address
    <3> SUFFICES ASSUME NEW w
                 PROVE  \E r \in UnsignedZone(t, z.config, w) :
                          IsGlue(r) /\ r.owner = ns[j] /\ r.rdata = address
      OBVIOUS
    <3>1. j \in DOMAIN NameserversOf(d, t.domains[d]) /\ address \in GlueOf(t, d, j)
      BY <1>2
    <3>2. InZone(NameserversOf(d, t.domains[d])[j])
      BY <2>2
    <3> HIDE DEF t
    <3>3. QED
      BY <3>1, <3>2, GlueIsServed
  <2>4. QED
    BY <2>3, Zenon DEF HasAddress, UnsignedOf
<1>3. \A j \in DOMAIN dump[d].nameservers :
        \A address \in dump[d].nameservers[j].addresses :
          HasAddress(z, dump[d].nameservers[j].name, address)
  BY <1>1, <1>2
<1>4. dump[d].ds # 0 => DsOf(t, d) = <<dump[d].ds>>
  BY <1>1 DEF DsOf
<1>5. QED
  BY <1>3, <1>4

\* What a delegation loses or gains while its row and its hosts stay is made up.
LEMMA LostIsMadeUp ==
  ASSUME NEW t, NEW u, NEW d, SameData(t, u, d),
         NEW r \in Delegation(t, d, TRUE), r \notin Delegation(u, d, TRUE)
  PROVE  IndexOf(t, d) # IndexOf(u, d) /\ IsMadeUp(t, d, r)
<1> DEFINE ns == NameserversOf(d, t.domains[d])
<1>1. t.domains[d] = u.domains[d]
  BY DEF SameData
<1>2. \A j \in DOMAIN ns : r # RecordAt(<<d, j>>, <<d>>, "NS", ns[j])
  BY <1>1 DEF Delegation
<1>3. CASE r = RecordAt(<<d, 0>>, <<d>>, "DS", DsOf(t, d))
  <2>1. RecordAt(<<d, 0>>, <<d>>, "DS", DsOf(u, d)) \in Delegation(u, d, TRUE)
    BY DEF Delegation
  <2>2. DsOf(t, d) # DsOf(u, d)
    BY <1>3, <2>1
  <2>3. t.domains[d].ds = 0 /\ IndexOf(t, d) # IndexOf(u, d)
    BY <1>1, <2>2 DEF DsOf
  <2>4. r.type = "DS"
    BY <1>3 DEF RecordAt
  <2>5. QED
    BY <2>3, <2>4 DEF IsMadeUp
<1>4. CASE r # RecordAt(<<d, 0>>, <<d>>, "DS", DsOf(t, d))
  <2>1. PICK j \in DOMAIN ns : InZone(ns[j]) /\ \E b \in GlueOf(t, d, j) :
          r = RecordAt(<<d, j>>, ns[j], AddressType(b), b)
    BY <1>2, <1>4 DEF Delegation
  <2> PICK a \in GlueOf(t, d, j) : r = RecordAt(<<d, j>>, ns[j], AddressType(a), a)
    BY <2>1
  <2>2. a \notin GlueOf(u, d, j)
    <3>1. \A b \in GlueOf(u, d, j) :
            RecordAt(<<d, j>>, ns[j], AddressType(b), b) \in Delegation(u, d, TRUE)
      BY <1>1, <2>1 DEF Delegation
    <3>2. QED
      BY <2>1, <3>1
  <2>3. HasHostGlue(t, ns[j]) <=> HasHostGlue(u, ns[j])
    BY <2>1 DEF SameData
  <2>4. HasHostGlue(t, ns[j]) => t.hosts[ns[j]] = u.hosts[ns[j]]
    BY <2>1 DEF SameData
  <2>5. ~HasHostGlue(t, ns[j])
    BY <1>1, <2>1, <2>2, <2>3, <2>4 DEF GlueOf
  <2>6. IndexOf(t, d) # IndexOf(u, d)
    BY <1>1, <2>1, <2>2, <2>3, <2>5 DEF GlueOf
  <2>7. IsGlue(r) /\ r.owner = ns[j]
    BY <2>1, AddressTypes DEF RecordAt, IsGlue
  <2>8. QED
    BY <2>5, <2>6, <2>7 DEF IsMadeUp
<1>5. QED
  BY <1>3, <1>4

IsServer(t, d, ns) ==
  \E j \in DOMAIN NameserversOf(d, t.domains[d]) :
    InZone(NameserversOf(d, t.domains[d])[j]) /\ ns = NameserversOf(d, t.domains[d])[j]

\* Glue is of a name server in the zone.
LEMMA GluedOwner ==
  ASSUME NEW t, NEW d, NEW r \in Delegation(t, d, TRUE), IsGlue(r)
  PROVE  IsServer(t, d, r.owner)
BY DEF Delegation, RecordAt, IsGlue, IsServer

\* Tables with the same data of a name tell alike which of its servers have glue.
LEMMA SameGluedServers ==
  ASSUME NEW t, NEW u, NEW d, SameData(u, t, d), NEW ns, IsServer(u, d, ns)
  PROVE  HasHostGlue(u, ns) <=> HasHostGlue(t, ns)
BY DEF IsServer, SameData

\* Both ways: the two tables have the same data of the name.
LEMMA DifferencesAreMadeUp ==
  ASSUME NEW t, NEW u, NEW d, SameData(t, u, d), NEW r \in Differences(t, u, d)
  PROVE  IndexOf(t, d) # IndexOf(u, d) /\ IsMadeUp(t, d, r)
<1>1. CASE r \in Delegation(t, d, TRUE) /\ r \notin Delegation(u, d, TRUE)
  BY <1>1, LostIsMadeUp
<1>2. CASE r \in Delegation(u, d, TRUE) /\ r \notin Delegation(t, d, TRUE)
  <2>1. SameData(u, t, d)
    BY DEF SameData
  <2>2. IndexOf(t, d) # IndexOf(u, d) /\ IsMadeUp(u, d, r)
    BY <1>2, <2>1, LostIsMadeUp
  <2>3. QED
    <3>1. u.domains[d] = t.domains[d]
      BY DEF SameData
    <3>2. ASSUME IsGlue(r)
          PROVE  HasHostGlue(u, r.owner) <=> HasHostGlue(t, r.owner)
      <4>1. IsServer(u, d, r.owner)
        BY <1>2, <3>2, GluedOwner
      <4>2. QED
        BY <2>1, <4>1, SameGluedServers
    <3>3. QED
      BY <2>2, <3>1, <3>2 DEF IsMadeUp
<1>3. QED
  BY <1>1, <1>2 DEF Differences

-------------------------------------------------------------------------------
(* The stages of a request.                                                *)

StageOK ==
  request # None =>
    /\ up
    /\ request.stage = "read" => request.kind = "dump"
    /\ request.stage \in {"keys", "keyWrite", "sign"} => request.signed
    /\ request.stage = "keyWrite" => keys = Torn /\ made + 2 =< MaxKeys
    /\ request.stage = "answer" => export = [tables |-> tables, edition |-> edition]

IInv == TypeOK /\ StageOK

LEMMA InitKeeps == Init => IInv
<1> SUFFICES ASSUME Init PROVE IInv
  OBVIOUS
<1>1. tables \in Tables
  <2>1. \A A, B : <<>> \in UNION {[S -> B] : S \in SUBSET A}
    <3> SUFFICES ASSUME NEW A, NEW B
                 PROVE  <<>> \in UNION {[S -> B] : S \in SUBSET A}
      OBVIOUS
    <3>1. <<>> \in [{} -> B] /\ {} \in SUBSET A
      OBVIOUS
    <3>2. QED
      BY <3>1
  <2>2. tables = [domains |-> <<>>, hosts |-> <<>>, bulk |-> 0]
    BY DEF Init
  <2> DEFINE Rows == UNION {RowsOf[d] : d \in Names}
             Doms == UNION {[S -> Rows] : S \in SUBSET Names}
             Hsts == UNION {[S -> Addresses] : S \in SUBSET HostNames}
  <2>3. <<>> \in Doms /\ <<>> \in Hsts
    BY <2>1
  <2> HIDE DEF Doms, Hsts
  <2>4. [domains |-> <<>>, hosts |-> <<>>, bulk |-> 0]
          \in [domains: Doms, hosts: Hsts, bulk: BulkSizes \cup {0}]
    BY <2>3
  <2>5. QED
    BY <2>2, <2>4 DEF Tables, Doms, Hsts
<1>2. edition \in 0..MaxEdition /\ made \in 0..MaxKeys
  BY BoundAssumption DEF Init
<1>3. TypeOK
  BY <1>1, <1>2 DEF Init, TypeOK
<1>4. StageOK
  BY DEF Init, StageOK
<1>5. QED
  BY <1>3, <1>4 DEF IInv

\* Changes of rows give tables.
LEMMA RowFacts ==
  ASSUME NEW t \in Tables
  PROVE  /\ \A d \in Names : \A row \in RowsOf[d] :
              [t EXCEPT !.domains = With(@, d, row)] \in Tables
         /\ \A d : [t EXCEPT !.domains = Without(@, d)] \in Tables
         /\ \A ns \in HostNames, addresses \in Addresses :
              [t EXCEPT !.hosts = With(@, ns, addresses)] \in Tables
         /\ \A ns : [t EXCEPT !.hosts = Without(@, ns)] \in Tables
         /\ \A count \in BulkSizes : [t EXCEPT !.domains = <<>>, !.bulk = count] \in Tables
<1> DEFINE Rows == UNION {RowsOf[d] : d \in Names}
<1>1. PICK D \in SUBSET Names : t.domains \in [D -> Rows]
  BY DEF Tables
<1>2. PICK H \in SUBSET HostNames : t.hosts \in [H -> Addresses]
  BY DEF Tables
<1>3. ASSUME NEW f, NEW D2 \in SUBSET Names, f \in [D2 -> Rows]
      PROVE  [t EXCEPT !.domains = f] \in Tables
  BY <1>3 DEF Tables
<1>4. ASSUME NEW f, NEW H2 \in SUBSET HostNames, f \in [H2 -> Addresses]
      PROVE  [t EXCEPT !.hosts = f] \in Tables
  BY <1>4 DEF Tables
<1>5. ASSUME NEW d \in Names, NEW row \in RowsOf[d]
      PROVE  With(t.domains, d, row) \in [D \cup {d} -> Rows]
  BY <1>1, <1>5 DEF With
<1>6. \A d : Without(t.domains, d) \in [D \ {d} -> Rows]
  BY <1>1 DEF Without
<1>7. \A ns \in HostNames, addresses \in Addresses :
        With(t.hosts, ns, addresses) \in [H \cup {ns} -> Addresses]
  BY <1>2 DEF With
<1>8. \A ns : Without(t.hosts, ns) \in [H \ {ns} -> Addresses]
  BY <1>2 DEF Without
<1>9. \A count \in BulkSizes : [t EXCEPT !.domains = <<>>, !.bulk = count] \in Tables
  <2>1. <<>> \in [{} -> Rows]
    OBVIOUS
  <2>2. QED
    BY <2>1 DEF Tables
<1>10. ASSUME NEW d \in Names, NEW row \in RowsOf[d]
       PROVE  [t EXCEPT !.domains = With(@, d, row)] \in Tables
  <2>1. D \cup {d} \in SUBSET Names
    OBVIOUS
  <2>2. QED
    BY <1>3, <1>5, <1>10, <2>1
<1>11. \A d : [t EXCEPT !.domains = Without(@, d)] \in Tables
  <2>1. \A d : D \ {d} \in SUBSET Names
    OBVIOUS
  <2>2. QED
    BY <1>3, <1>6, <2>1
<1>12. \A ns \in HostNames, addresses \in Addresses :
         [t EXCEPT !.hosts = With(@, ns, addresses)] \in Tables
  <2>1. \A ns \in HostNames : H \cup {ns} \in SUBSET HostNames
    OBVIOUS
  <2>2. QED
    BY <1>4, <1>7, <2>1
<1>13. \A ns : [t EXCEPT !.hosts = Without(@, ns)] \in Tables
  <2>1. \A ns : H \ {ns} \in SUBSET HostNames
    OBVIOUS
  <2>2. QED
    BY <1>4, <1>8, <2>1
<1>14. QED
  BY <1>9, <1>10, <1>11, <1>12, <1>13

LEMMA ChangeTablesKeeps ==
  ASSUME IInv, NEW changed \in Tables, ChangeTables(changed)
  PROVE  IInv'
<1>1. edition' \in 0..MaxEdition
  BY BoundAssumption DEF ChangeTables, IInv, TypeOK
<1>2. TypeOK'
  BY <1>1 DEF ChangeTables, files, IInv, TypeOK
<1>3. StageOK'
  BY DEF ChangeTables, Idle, StageOK
<1>4. QED
  BY <1>2, <1>3 DEF IInv

LEMMA TableChangeKeeps ==
  ASSUME IInv, TableChange
  PROVE  IInv'
<1>1. tables \in Tables
  BY DEF IInv, TypeOK
<1>2. ASSUME NEW d \in Names, NEW row \in RowsOf[d], SaveDomain(d, row) PROVE IInv'
  BY <1>1, <1>2, RowFacts, ChangeTablesKeeps DEF SaveDomain
<1>3. ASSUME NEW d \in Names, DeleteDomain(d) PROVE IInv'
  BY <1>1, <1>3, RowFacts, ChangeTablesKeeps DEF DeleteDomain
<1>4. ASSUME NEW ns \in HostNames, NEW addresses \in Addresses, SaveHost(ns, addresses) PROVE IInv'
  BY <1>1, <1>4, RowFacts, ChangeTablesKeeps DEF SaveHost
<1>5. ASSUME NEW ns \in HostNames, DeleteHost(ns) PROVE IInv'
  BY <1>1, <1>5, RowFacts, ChangeTablesKeeps DEF DeleteHost
<1>6. ASSUME NEW count \in BulkSizes, SeedBulk(count) PROVE IInv'
  BY <1>1, <1>6, RowFacts, ChangeTablesKeeps DEF SeedBulk
<1>7. QED
  BY <1>2, <1>3, <1>4, <1>5, <1>6 DEF TableChange

\* A new request that has touched no file yet.
LEMMA BeginKeeps ==
  ASSUME IInv, up, NEW q \in Requests, request' = q,
         q.stage = "config" \/ q.stage = "export" \/ (q.stage = "read" /\ q.kind = "dump"),
         UNCHANGED <<tables, edition, files, up, zone>>
  PROVE  IInv'
<1>1. TypeOK'
  BY DEF files, IInv, TypeOK
<1>2. StageOK'
  BY DEF files, StageOK
<1>3. QED
  BY <1>1, <1>2 DEF IInv

LEMMA NewRequestKeeps ==
  ASSUME IInv, NewRequest
  PROVE  IInv'
<1>1. ASSUME NEW dnssec, NEW keyAction, RequestZone(dnssec, keyAction)
      PROVE  IInv'
  <2> DEFINE q == [kind |-> "zone", stage |-> "config", signed |-> AsksForSignatures(dnssec),
                   renew |-> keyAction = "renew", existing |-> None]
  <2>1. q \in Requests
    BY DEF Requests, Stages, AsksForSignatures
  <2>2. q.stage = "config" /\ request' = q /\ up
    BY <1>1 DEF RequestZone, Idle
  <2>3. QED
    BY <1>1, <2>1, <2>2, BeginKeeps DEF RequestZone
<1>2. ASSUME RequestRegistry PROVE IInv'
  <2> DEFINE q == [kind |-> "registry", stage |-> "export", signed |-> FALSE,
                   renew |-> FALSE, existing |-> None]
  <2>1. q \in Requests
    BY DEF Requests, Stages
  <2>2. q.stage = "export" /\ request' = q /\ up
    BY <1>2 DEF RequestRegistry, Begin, Idle
  <2>3. QED
    BY <1>2, <2>1, <2>2, BeginKeeps DEF RequestRegistry
<1>3. ASSUME RequestDump PROVE IInv'
  <2> DEFINE q == [kind |-> "dump", stage |-> "read", signed |-> FALSE,
                   renew |-> FALSE, existing |-> None]
  <2>1. q \in Requests
    BY DEF Requests, Stages
  <2>2. q.stage = "read" /\ q.kind = "dump" /\ request' = q /\ up
    BY <1>3 DEF RequestDump, Begin, Idle
  <2>3. QED
    BY <1>3, <2>1, <2>2, BeginKeeps DEF RequestDump
<1>4. ASSUME RequestConfig PROVE IInv'
  <2> DEFINE q == [kind |-> "config", stage |-> "configWrite", signed |-> FALSE,
                   renew |-> FALSE, existing |-> None]
  <2>1. q \in Requests
    BY DEF Requests, Stages
  <2>2. q.stage = "configWrite" /\ request' = q /\ up
    BY <1>4 DEF RequestConfig, Begin, Idle
  <2>3. TypeOK'
    BY <1>4, <2>1, <2>2 DEF RequestConfig, IInv, TypeOK
  <2>4. StageOK'
    BY <1>4, <2>2 DEF RequestConfig, StageOK
  <2>5. QED
    BY <2>3, <2>4 DEF IInv
<1>5. QED
  BY <1>1, <1>2, <1>3, <1>4 DEF NewRequest

\* A request that goes on to a stage that is open to it, and touches no file.
LEMMA ProceedKeeps ==
  ASSUME IInv, request # None, NEW stage \in {"keys", "sign", "export"}, Proceed(stage),
         stage # "export" => request.signed,
         UNCHANGED <<tables, edition, files, up, zone>>
  PROVE  IInv'
<1>1. request \in Requests /\ stage \in Stages
  BY DEF IInv, TypeOK, Stages
<1>2. /\ request' \in Requests
      /\ request'.stage = stage
      /\ request'.signed = request.signed
  BY <1>1 DEF Proceed, Requests
<1>3. TypeOK'
  BY <1>2 DEF files, IInv, TypeOK
<1>4. StageOK'
  BY <1>2 DEF files, IInv, StageOK
<1>5. QED
  BY <1>3, <1>4 DEF IInv

\* A request that ends.
LEMMA FinishKeeps ==
  ASSUME IInv, Finish, UNCHANGED <<tables, edition, files, up>>
  PROVE  IInv'
<1>1. TypeOK'
  BY DEF Finish, files, IInv, TypeOK
<1>2. StageOK'
  BY DEF Finish, StageOK
<1>3. QED
  BY <1>1, <1>2 DEF IInv

LEMMA BeginKeyWriteKeeps ==
  ASSUME IInv, BeginKeyWrite
  PROVE  IInv'
<1>1. request \in Requests /\ request.signed
  BY DEF BeginKeyWrite, AtStage, IInv, TypeOK, StageOK
<1>2. keys \in KeySets \cup {None}
  BY DEF BeginKeyWrite, NeedsKeys
<1>3. /\ request' \in Requests
      /\ request'.stage = "keyWrite"
      /\ request'.signed = request.signed
  BY <1>1, <1>2 DEF BeginKeyWrite, Requests, Stages
<1>4. TypeOK'
  BY <1>3 DEF BeginKeyWrite, IInv, TypeOK
<1>5. StageOK'
  BY <1>1, <1>3 DEF BeginKeyWrite, AtStage, IInv, StageOK
<1>6. QED
  BY <1>4, <1>5 DEF IInv

LEMMA EndKeyWriteKeeps ==
  ASSUME IInv, EndKeyWrite
  PROVE  IInv'
<1>1. request \in Requests /\ request.signed /\ made + 2 =< MaxKeys
  BY DEF EndKeyWrite, AtStage, IInv, TypeOK, StageOK
<1>2. /\ request' \in Requests
      /\ request'.stage = "sign"
      /\ request'.signed = request.signed
  BY <1>1 DEF EndKeyWrite, Proceed, Requests, Stages
<1>3. made' \in 0..MaxKeys /\ keys' \in KeySets
  BY <1>1, BoundAssumption DEF EndKeyWrite, KeySets, IInv, TypeOK
<1>4. TypeOK'
  BY <1>2, <1>3 DEF EndKeyWrite, IInv, TypeOK
<1>5. StageOK'
  BY <1>1, <1>2 DEF EndKeyWrite, AtStage, IInv, StageOK
<1>6. QED
  BY <1>4, <1>5 DEF IInv

LEMMA BeginExportKeeps ==
  ASSUME IInv, BeginExport
  PROVE  IInv'
<1>1. request \in Requests
  BY DEF BeginExport, AtStage, IInv, TypeOK
<1>2. request' \in Requests /\ request'.stage = "exportWrite"
  BY <1>1 DEF BeginExport, Proceed, Requests, Stages
<1>3. TypeOK'
  BY <1>2 DEF BeginExport, IInv, TypeOK
<1>4. StageOK'
  BY <1>2 DEF BeginExport, AtStage, IInv, StageOK
<1>5. QED
  BY <1>3, <1>4 DEF IInv

LEMMA EndExportKeeps ==
  ASSUME IInv, EndExport
  PROVE  IInv'
<1>1. request \in Requests
  BY DEF EndExport, AtStage, IInv, TypeOK
<1>2. request' \in Requests /\ request'.stage = "answer"
  BY <1>1 DEF EndExport, Proceed, Requests, Stages
<1>3. export' \in Exports
  BY DEF EndExport, Exports, IInv, TypeOK
<1>4. TypeOK'
  BY <1>2, <1>3 DEF EndExport, IInv, TypeOK
<1>5. StageOK'
  BY <1>2 DEF EndExport, AtStage, IInv, StageOK
<1>6. QED
  BY <1>4, <1>5 DEF IInv

LEMMA RequestStepKeeps ==
  ASSUME IInv, RequestStep
  PROVE  IInv'
<1>1. ASSUME ReadConfig PROVE IInv'
  BY <1>1, ProceedKeeps DEF ReadConfig, AtStage
<1>2. ASSUME KeepKeys PROVE IInv'
  BY <1>2, ProceedKeeps DEF KeepKeys, AtStage, IInv, StageOK
<1>3. ASSUME Sign PROVE IInv'
  BY <1>3, ProceedKeeps DEF Sign, AtStage
<1>4. ASSUME BuildDump PROVE IInv'
  BY <1>4, ProceedKeeps DEF BuildDump, AtStage
<1>5. ASSUME FailOnKeys \/ FailToSign \/ FailOnDump PROVE IInv'
  BY <1>5, FinishKeeps DEF FailOnKeys, FailToSign, FailOnDump, Fail
<1>6. ASSUME AnswerZone \/ AnswerExport \/ SendDump PROVE IInv'
  BY <1>6, FinishKeeps DEF AnswerZone, AnswerExport, SendDump
<1>7. ASSUME NEW c \in Configs, EndConfigWrite(c) PROVE IInv'
  <2>1. TypeOK'
    BY <1>7 DEF EndConfigWrite, Finish, IInv, TypeOK
  <2>2. StageOK'
    BY <1>7 DEF EndConfigWrite, Finish, StageOK
  <2>3. QED
    BY <2>1, <2>2 DEF IInv
<1>8. QED
  BY <1>1, <1>2, <1>3, <1>4, <1>5, <1>6, <1>7, BeginKeyWriteKeeps, EndKeyWriteKeeps,
     BeginExportKeeps, EndExportKeeps DEF RequestStep

LEMMA ProcessKeeps ==
  ASSUME IInv, End \/ Start \/ RemoveTornFiles
  PROVE  IInv'
<1>1. CASE End
  BY <1>1 DEF End, files, IInv, TypeOK, StageOK
<1>2. CASE Start
  BY <1>2 DEF Start, files, IInv, TypeOK, StageOK
<1>3. CASE RemoveTornFiles
  BY <1>3 DEF RemoveTornFiles, IInv, TypeOK, StageOK
<1>4. QED
  BY <1>1, <1>2, <1>3

LEMMA NextKeeps == IInv /\ [Next]_vars => IInv'
<1> SUFFICES ASSUME IInv, [Next]_vars PROVE IInv'
  OBVIOUS
<1>1. CASE UNCHANGED vars
  BY <1>1 DEF vars, files, IInv, TypeOK, StageOK
<1>2. QED
  BY <1>1, TableChangeKeeps, NewRequestKeeps, RequestStepKeeps, ProcessKeeps DEF Next

\* The tables do not change while a request runs, so an export that is complete when
\* a zone is about to be sent is the export of the zone's tables.
THEOREM Inductive == Spec => []IInv
<1>1. QED
  BY InitKeeps, NextKeeps, PTL DEF Spec

\* The files hold what their stages write, and no bound is passed.
THEOREM TypeCorrect == Spec => []TypeOK
<1>1. IInv => TypeOK
  BY DEF IInv
<1>2. QED
  BY <1>1, Inductive, PTL

-------------------------------------------------------------------------------
(* What a step may not do.                                                 *)

\* Only the sending of a zone changes the last zone sent.
LEMMA ZoneSent == [Next]_vars /\ zone' # zone => AnswerZone
<1> SUFFICES ASSUME [Next]_vars, zone' # zone PROVE AnswerZone
  OBVIOUS
<1>1. ~(TableChange \/ NewRequest \/ End \/ Start \/ RemoveTornFiles \/ UNCHANGED vars)
  BY DEF TableChange, SaveDomain, DeleteDomain, SaveHost, DeleteHost, SeedBulk, ChangeTables,
         NewRequest, RequestZone, RequestRegistry, RequestDump, RequestConfig,
         End, Start, RemoveTornFiles, vars
<1>2. RequestStep
  BY <1>1 DEF Next
<1>3. QED
  BY <1>2 DEF RequestStep, ReadConfig, KeepKeys, FailOnKeys, BeginKeyWrite, EndKeyWrite, Sign,
              FailToSign, BeginExport, EndExport, AnswerExport, SendDump, FailOnDump, BuildDump,
              EndConfigWrite, Fail

LEMMA AnswersAgree == IInv /\ [Next]_vars => AnswerStep
<1> SUFFICES ASSUME IInv, [Next]_vars, zone' # zone
             PROVE  /\ DelegationsResolve(zone')
                    /\ export' \notin {None, Torn}
                    /\ export'.edition = zone'.edition
                    /\ ExportAgrees(zone', BuildRegistryExport(export'.tables))
  BY DEF AnswerStep
<1>1. AnswerZone
  BY ZoneSent
<1>2. /\ zone'.tables = tables
      /\ zone'.edition = edition
      /\ export' = export
  BY <1>1 DEF AnswerZone, files
<1>3. export = [tables |-> tables, edition |-> edition]
  BY <1>1 DEF AnswerZone, AtStage, IInv, StageOK
<1>4. export \in Exports
  BY <1>3 DEF Exports, IInv, TypeOK
<1>5. export' \notin {None, Torn} /\ export'.edition = zone'.edition
  BY <1>2, <1>3, <1>4, SentinelAssumption
<1>6. DelegationsResolve(zone')
  <2>1. \A z : DelegationsResolve(z)
    BY ZoneResolves DEF DelegationsResolve, UnsignedOf
  <2>2. QED
    BY <2>1
<1>7. DOMAIN tables.domains \subseteq Names
  BY DEF IInv, TypeOK, Tables
<1>8. ExportAgrees(zone', BuildRegistryExport(export'.tables))
  <2>1. \A z : z.tables = tables => ExportAgrees(z, BuildRegistryExport(tables))
    BY <1>7, ExportIsServed
  <2>2. export'.tables = tables
    BY <1>2, <1>3
  <2>3. QED
    BY <1>2, <2>1, <2>2
<1>9. QED
  BY <1>5, <1>6, <1>8

\* A zone is sent with an export of the same tables on disk, which gives no glue and
\* no DS that the zone does not, and with an address for each of its name servers.
THEOREM ZoneAndExportAlwaysAgree == Spec => ZoneAndExportAgree
<1>1. QED
  BY Inductive, AnswersAgree, PTL DEF Spec, ZoneAndExportAgree

\* What other rows do reaches a delegation only through the place of its name, and
\* changes nothing but what is made up from that place (delegationRecords).
THEOREM OnlyMadeUpDataEverMoves == Spec => OnlyMadeUpDataMoves
<1>1. [Next]_vars => DelegationStep
  BY DifferencesAreMadeUp DEF DelegationStep
<1>2. QED
  BY <1>1, PTL DEF Spec, OnlyMadeUpDataMoves

LEMMA KeysStay == IInv /\ [Next]_vars => KeyStep
<1> SUFFICES ASSUME IInv, [Next]_vars, keys \in KeySets, keys' # keys
             PROVE  request # None /\ request.renew
  BY DEF KeyStep
<1>1. keys \notin {None, Torn}
  BY SentinelAssumption
<1>2. ~(TableChange \/ NewRequest \/ End \/ Start \/ RemoveTornFiles \/ UNCHANGED vars)
  BY <1>1 DEF TableChange, SaveDomain, DeleteDomain, SaveHost, DeleteHost, SeedBulk, ChangeTables,
         NewRequest, RequestZone, RequestRegistry, RequestDump, RequestConfig,
         End, Start, RemoveTornFiles, vars, files
<1>3. ~EndKeyWrite
  BY <1>1 DEF EndKeyWrite, AtStage, IInv, StageOK
<1>4. RequestStep
  BY <1>2 DEF Next
<1>5. BeginKeyWrite
  BY <1>3, <1>4 DEF RequestStep, ReadConfig, KeepKeys, FailOnKeys, Sign, FailToSign, BeginExport,
              EndExport, AnswerZone, AnswerExport, SendDump, FailOnDump, BuildDump,
              EndConfigWrite, Fail, files
<1>6. QED
  BY <1>1, <1>5 DEF BeginKeyWrite, AtStage, NeedsKeys

\* Keys that are on disk are replaced, or endangered by a write, only by a request
\* to renew them (DnssecKeyStore.loadOrCreate).
THEOREM GenerateAlwaysKeepsKeys == Spec => GenerateKeepsKeys
<1>1. QED
  BY Inductive, KeysStay, PTL DEF Spec, GenerateKeepsKeys

-------------------------------------------------------------------------------
(* The NSEC3 chain.                                                        *)

LEMMA LeastHash ==
  ASSUME NEW S \in SUBSET Nat, S # {}
  PROVE  \E m \in S : \A n \in S : m =< n
<1> DEFINE R == OpToRel(<, Nat)
<1>1. IsWellFoundedOn(R, Nat)
  BY NatLessThanWellFounded
<1> HIDE DEF R
<1>2. PICK m \in S : \A n \in S : ~(<<n, m>> \in R)
  BY <1>1, WFMin
<1>3. \A n \in S : ~(n < m)
  BY <1>2 DEF R, OpToRel
<1>4. QED
  BY <1>3

LEMMA GreatestHash ==
  ASSUME NEW S \in SUBSET Nat, S # {}, NEW top \in Nat, \A n \in S : n =< top
  PROVE  \E m \in S : \A n \in S : n =< m
<1> DEFINE T == {k \in Nat : top - k \in S}
<1>1. T \in SUBSET Nat
  OBVIOUS
<1>2. PICK n \in S : TRUE
  OBVIOUS
<1>3. top - n \in Nat /\ top - (top - n) = n
  BY <1>2
<1>4. top - n \in T
  BY <1>3
<1>5. \A k \in T : top - k \in S
  OBVIOUS
<1>6. \A m \in S : top - m \in T
  <2> SUFFICES ASSUME NEW m \in S PROVE top - m \in T
    OBVIOUS
  <2>1. top - m \in Nat /\ top - (top - m) = m
    OBVIOUS
  <2>2. QED
    BY <2>1
<1> HIDE DEF T
<1>7. PICK k \in T : \A l \in T : k =< l
  BY <1>1, <1>4, LeastHash
<1>8. \A m \in S : m =< top - k
  <2> SUFFICES ASSUME NEW m \in S PROVE m =< top - k
    OBVIOUS
  <2>1. k =< top - m
    BY <1>6, <1>7
  <2>2. QED
    BY <1>1, <1>7, <2>1
<1>9. QED
  BY <1>5, <1>7, <1>8

\* The next hash is the least of those that are greater, or of all.
LEMMA NextHashFacts ==
  ASSUME NEW hashes \in SUBSET Nat, NEW h \in hashes
  PROVE  /\ NextHash(hashes, h) \in hashes
         /\ \A g \in hashes : h < g => h < NextHash(hashes, h) /\ NextHash(hashes, h) =< g
         /\ (\A g \in hashes : ~(h < g)) => \A g \in hashes : NextHash(hashes, h) =< g
<1> DEFINE later == {g \in hashes : g > h}
           succ == IF later = {} THEN hashes ELSE later
           next == CHOOSE n \in succ : \A g \in succ : n =< g
<1>1. succ \in SUBSET Nat /\ succ # {} /\ succ \subseteq hashes
  OBVIOUS
<1>2. NextHash(hashes, h) = next
  BY DEF NextHash
<1>3. (later # {} => succ = later) /\ (later = {} => succ = hashes)
  OBVIOUS
<1>4. \A g \in hashes : g \in later <=> h < g
  OBVIOUS
<1>5. later \subseteq hashes
  OBVIOUS
<1> HIDE DEF later, succ
<1>6. next \in succ /\ \A g \in succ : next =< g
  BY <1>1, LeastHash
<1> HIDE DEF next
<1>7. QED
  BY <1>1, <1>2, <1>3, <1>4, <1>5, <1>6

SettledBy(h, next, x) ==
  \/ x = h
  \/ h < x /\ x < next
  \/ next =< h /\ (h < x \/ x < next)

\* Each hash is settled by one element of the chain: by itself, by the greatest one
\* below it, or by the last, whose successor is the first.
LEMMA SettledOnce ==
  ASSUME NEW hashes \in SUBSET Nat, hashes # {}, NEW top \in Nat, \A h \in hashes : h =< top,
         NEW x \in Nat
  PROVE  \E h \in hashes : \A g \in hashes : SettledBy(g, NextHash(hashes, g), x) <=> g = h
<1> DEFINE Next2(g) == NextHash(hashes, g)
<1>1. \A g \in hashes :
        /\ g \in Nat /\ Next2(g) \in Nat /\ Next2(g) \in hashes
        /\ \A f \in hashes : g < f => g < Next2(g) /\ Next2(g) =< f
        /\ (\A f \in hashes : ~(g < f)) => \A f \in hashes : Next2(g) =< f
  BY NextHashFacts
<1> HIDE DEF Next2
<1> DEFINE below == {h \in hashes : h < x}
<1>2. CASE x \in hashes
  <2>1. \A g \in hashes : SettledBy(g, Next2(g), x) <=> g = x
    BY <1>1, <1>2 DEF SettledBy
  <2>2. QED
    BY <1>2, <2>1 DEF Next2
<1>3. CASE x \notin hashes /\ below # {}
  <2>1. below \in SUBSET Nat /\ \A h \in below : h =< top
    OBVIOUS
  <2>2. \A h \in hashes : h \in below <=> h < x
    OBVIOUS
  <2>3. below \subseteq hashes
    OBVIOUS
  <2> HIDE DEF below
  <2>4. PICK h \in below : \A g \in below : g =< h
    BY <1>3, <2>1, GreatestHash
  <2>5. \A g \in hashes : SettledBy(g, Next2(g), x) <=> g = h
    <3>1. h \in hashes /\ h < x /\ h \in Nat
      BY <1>1, <2>2, <2>3, <2>4
    <3>2. \A g \in hashes : g > h => x < g
      BY <1>1, <1>3, <2>2, <2>4, <3>1
    <3>3. SettledBy(h, Next2(h), x)
      BY <1>1, <3>1, <3>2 DEF SettledBy
    <3>4. ASSUME NEW g \in hashes, g # h
          PROVE  ~SettledBy(g, Next2(g), x)
      <4>1. CASE g < h
        BY <1>1, <3>1, <4>1 DEF SettledBy
      <4>2. CASE g > h
        BY <1>1, <3>1, <3>2, <4>2 DEF SettledBy
      <4>3. QED
        BY <1>1, <3>1, <3>4, <4>1, <4>2
    <3>5. QED
      BY <3>3, <3>4
  <2>6. QED
    BY <2>3, <2>4, <2>5 DEF Next2
<1>4. CASE x \notin hashes /\ below = {}
  <2>1. \A g \in hashes : x < g
    BY <1>4
  <2>2. PICK h \in hashes : \A g \in hashes : g =< h
    BY GreatestHash
  <2>3. SettledBy(h, Next2(h), x)
    BY <1>1, <2>1, <2>2 DEF SettledBy
  <2>4. ASSUME NEW g \in hashes, g # h
        PROVE  ~SettledBy(g, Next2(g), x)
    BY <1>1, <2>1, <2>2, <2>4 DEF SettledBy
  <2>5. QED
    BY <2>3, <2>4 DEF Next2
<1>5. QED
  BY <1>2, <1>3, <1>4
-------------------------------------------------------------------------------
(* The records of a signed zone.                                           *)

LEMMA TldRecordFacts ==
  ASSUME NEW c, NEW r \in TldRecords(c)
  PROVE  \/ r = RecordAt(<<Tld, 0>>, <<Tld>>, "SOA", <<c>>)
         \/ \E k \in 1..2 : r = RecordAt(<<Tld, k>>, <<Tld>>, "NS", <<Tld, k>>)
         \/ \E k \in 1..2 : r.owner = <<Tld, k>> /\ IsGlue(r)
BY AddressTypes DEF TldRecords, RecordAt, IsGlue

\* A record of a delegation.
IsDelegated(r, t, d) ==
  \/ r.owner = <<d>> /\ r.type = "NS"
  \/ r = RecordAt(<<d, 0>>, <<d>>, "DS", DsOf(t, d))
  \/ \E j \in DOMAIN NameserversOf(d, t.domains[d]) :
       IsGlue(r) /\ InZone(r.owner) /\ r.owner = NameserversOf(d, t.domains[d])[j]

LEMMA DelegationFacts ==
  ASSUME NEW t, NEW d, NEW w, NEW r \in Delegation(t, d, w)
  PROVE  IsDelegated(r, t, d)
BY AddressTypes DEF Delegation, RecordAt, IsGlue, IsDelegated

\* A name server of a row, if it is in the zone, has a hash.
LEMMA NameserverHashed ==
  ASSUME NEW t \in Tables, NEW d \in DOMAIN t.domains,
         NEW j \in DOMAIN NameserversOf(d, t.domains[d]),
         InZone(NameserversOf(d, t.domains[d])[j])
  PROVE  NameserversOf(d, t.domains[d])[j] \in DOMAIN HashOf
<1> DEFINE row == t.domains[d]
<1>1. d \in Names /\ \E e \in Names : row \in RowsOf[e]
  BY DEF Tables
<1>2. CASE row.nameservers = <<>>
  <2>1. NameserversOf(d, row) = <<<<d, 1>>, <<d, 2>>>>
    BY <1>2 DEF NameserversOf
  <2>2. j \in 1..2
    BY <2>1
  <2>3. NameserversOf(d, row)[j] \in {<<d>>, <<d, 1>>, <<d, 2>>}
    BY <2>1, <2>2
  <2>4. QED
    BY <1>1, <2>3, HashAssumption
<1>3. CASE row.nameservers # <<>>
  <2>1. NameserversOf(d, row) = row.nameservers
    BY <1>3 DEF NameserversOf
  <2> HIDE DEF row
  <2>2. QED
    BY <1>1, <2>1, NameserverAssumption DEF row
<1>4. QED
  BY <1>2, <1>3

\* A record of the zone before it is signed.
IsUnsigned(r, c) ==
  /\ r.owner \in DOMAIN HashOf
  /\ \/ r = RecordAt(<<Tld, 0>>, <<Tld>>, "SOA", <<c>>)
     \/ \E k \in 1..2 : r = RecordAt(<<Tld, k>>, <<Tld>>, "NS", <<Tld, k>>)
     \/ \E d \in Names : r.owner = <<d>> /\ r.type = "NS"
     \/ IsGlue(r)

IsDelegationDs(r, t) == \E d \in Names : r = RecordAt(<<d, 0>>, <<d>>, "DS", DsOf(t, d))

LEMMA UnsignedFacts ==
  ASSUME NEW t \in Tables, NEW c, NEW w, NEW r \in UnsignedZone(t, c, w)
  PROVE  (IsUnsigned(r, c) \/ IsDelegationDs(r, t)) /\ r.owner \in DOMAIN HashOf
<1>1. ASSUME r \in TldRecords(c)
      PROVE  IsUnsigned(r, c)
  <2>1. \A k \in 1..2 : <<Tld, k>> \in DOMAIN HashOf
    <3>1. \A k \in 1..2 : k = 1 \/ k = 2
      OBVIOUS
    <3>2. QED
      BY <3>1, HashAssumption
  <2>2. <<Tld>> \in DOMAIN HashOf
    BY HashAssumption
  <2>3. CASE r = RecordAt(<<Tld, 0>>, <<Tld>>, "SOA", <<c>>)
    BY <2>2, <2>3 DEF IsUnsigned, RecordAt
  <2>4. CASE \E k \in 1..2 : r = RecordAt(<<Tld, k>>, <<Tld>>, "NS", <<Tld, k>>)
    <3>1. r.owner = <<Tld>>
      BY <2>4 DEF RecordAt
    <3>2. QED
      BY <2>2, <2>4, <3>1 DEF IsUnsigned
  <2>5. CASE \E k \in 1..2 : r.owner = <<Tld, k>> /\ IsGlue(r)
    BY <2>1, <2>5 DEF IsUnsigned
  <2>6. QED
    BY <1>1, <2>3, <2>4, <2>5, TldRecordFacts
<1>2. ASSUME NEW d \in DOMAIN t.domains, r \in Delegation(t, d, w)
      PROVE  (IsUnsigned(r, c) \/ IsDelegationDs(r, t)) /\ r.owner \in DOMAIN HashOf
  <2>1. d \in Names /\ <<d>> \in DOMAIN HashOf
    BY HashAssumption DEF Tables
  <2>2. CASE r.owner = <<d>> /\ r.type = "NS"
    BY <2>1, <2>2 DEF IsUnsigned
  <2>3. CASE r = RecordAt(<<d, 0>>, <<d>>, "DS", DsOf(t, d))
    <3>1. r.owner = <<d>>
      BY <2>3 DEF RecordAt
    <3>2. QED
      BY <2>1, <2>3, <3>1 DEF IsDelegationDs
  <2>4. ASSUME IsGlue(r), NEW j \in DOMAIN NameserversOf(d, t.domains[d]),
               r.owner = NameserversOf(d, t.domains[d])[j], InZone(r.owner)
        PROVE  IsUnsigned(r, c)
    <3> DEFINE ns == NameserversOf(d, t.domains[d])[j]
    <3>1. InZone(ns)
      BY <2>4
    <3>2. ns \in DOMAIN HashOf
      BY <3>1, NameserverHashed
    <3>3. QED
      BY <2>4, <3>2 DEF IsUnsigned
  <2>5. IsDelegated(r, t, d)
    BY <1>2, DelegationFacts
  <2>6. QED
    BY <2>2, <2>3, <2>4, <2>5 DEF IsDelegated, IsUnsigned
<1>3. QED
  BY <1>1, <1>2 DEF UnsignedZone, IsUnsigned

\* A record of the signed zone.
IsSigned(r, t, c, k) == IsUnsigned(r, c) \/ IsDelegationDs(r, t) \/ r \in KeyRecords(k)

LEMMA SignedFacts ==
  ASSUME NEW t \in Tables, NEW c, NEW w, NEW k, NEW r \in UnsignedZone(t, c, w) \cup KeyRecords(k)
  PROVE  IsSigned(r, t, c, k) /\ r.owner \in DOMAIN HashOf
<1>1. CASE r \in KeyRecords(k)
  <2>1. r.owner = <<Tld>>
    BY <1>1 DEF KeyRecords, RecordAt
  <2>2. QED
    BY <1>1, <2>1, HashAssumption DEF IsSigned
<1>2. CASE r \in UnsignedZone(t, c, w)
  BY <1>2, UnsignedFacts DEF IsSigned, IsUnsigned
<1>3. QED
  BY <1>1, <1>2

\* By type, the records that are no glue and no delegation's name server.
LEMMA SignedTypes ==
  ASSUME NEW t, NEW c, NEW k, NEW r, IsSigned(r, t, c, k)
  PROVE  /\ r.type = "DNSKEY" => r.owner = <<Tld>> /\ r.rdata \in {<<257, k.ksk>>, <<256, k.zsk>>}
                                 /\ r \in KeyRecords(k)
         /\ r.type = "DS" /\ r.owner = <<Tld>> => r.rdata = <<k.ksk>> /\ r \in KeyRecords(k)
<1>1. \A d \in Names : <<d>> # <<Tld>>
  BY DEF Names, Tld
<1>2. CASE IsUnsigned(r, c)
  BY <1>2 DEF IsUnsigned, IsGlue, RecordAt
<1>3. CASE IsDelegationDs(r, t)
  BY <1>1, <1>3 DEF IsDelegationDs, RecordAt
<1>4. CASE r \in KeyRecords(k)
  BY <1>4 DEF KeyRecords, RecordAt
<1>5. QED
  BY <1>2, <1>3, <1>4 DEF IsSigned

\* Two records of one set that may not repeat differ in what they say.
LEMMA SetsRepeatNothing ==
  ASSUME NEW t, NEW c, NEW k, NEW r, NEW s, IsSigned(r, t, c, k), IsSigned(s, t, c, k),
         r.owner = s.owner, r.type = s.type, ~MayRepeat(r), r.rdata = s.rdata
  PROVE  r = s
<1>1. \A d \in Names : <<d>> # <<Tld>>
  BY DEF Names, Tld
<1>2. ~MayRepeat(s) /\ ~IsGlue(r) /\ ~IsGlue(s)
  BY DEF MayRepeat, IsGlue
<1> DEFINE soa == RecordAt(<<Tld, 0>>, <<Tld>>, "SOA", <<c>>)
           ns(i) == RecordAt(<<Tld, i>>, <<Tld>>, "NS", <<Tld, i>>)
           ds(d) == RecordAt(<<d, 0>>, <<d>>, "DS", DsOf(t, d))
           ksk == RecordAt(<<Tld, 1>>, <<Tld>>, "DNSKEY", <<257, k.ksk>>)
           zsk == RecordAt(<<Tld, 2>>, <<Tld>>, "DNSKEY", <<256, k.zsk>>)
           apex == RecordAt(<<Tld, 0>>, <<Tld>>, "DS", <<k.ksk>>)
           param == RecordAt(<<Tld, 0>>, <<Tld>>, "NSEC3PARAM", <<>>)
           IsOne(q) == \/ q = soa \/ (\E i \in 1..2 : q = ns(i)) \/ (\E d \in Names : q = ds(d))
                       \/ q = ksk \/ q = zsk \/ q = apex \/ q = param
<1>3. ASSUME NEW q, IsSigned(q, t, c, k), ~MayRepeat(q)
      PROVE  IsOne(q)
  <2>1. CASE IsUnsigned(q, c)
    BY <1>1, <1>3, <2>1 DEF IsUnsigned, MayRepeat
  <2>2. CASE IsDelegationDs(q, t)
    BY <2>2 DEF IsDelegationDs
  <2>3. CASE q \in KeyRecords(k)
    BY <2>3 DEF KeyRecords
  <2>4. QED
    BY <1>3, <2>1, <2>2, <2>3 DEF IsSigned
<1>4. IsOne(r) /\ IsOne(s)
  BY <1>2, <1>3
<1>5. /\ soa.type = "SOA" /\ (\A i : ns(i).type = "NS" /\ ns(i).rdata = <<Tld, i>>)
      /\ \A d : ds(d).type = "DS" /\ ds(d).owner = <<d>>
      /\ ksk.type = "DNSKEY" /\ zsk.type = "DNSKEY" /\ ksk.rdata[1] = 257 /\ zsk.rdata[1] = 256
      /\ apex.type = "DS" /\ apex.owner = <<Tld>> /\ param.type = "NSEC3PARAM"
  BY DEF RecordAt
<1>6. \A i, j \in 1..2 : <<Tld, i>> = <<Tld, j>> => i = j
  OBVIOUS
<1>7. \A d, e : <<d>> = <<e>> => d = e
  OBVIOUS
<1> HIDE DEF soa, ns, ds, ksk, zsk, apex, param
<1>8. ASSUME NEW q, IsOne(q)
      PROVE  /\ q.type = "NS" => \E i \in 1..2 : q = ns(i)
             /\ q.type = "DS" => q = apex \/ \E d \in Names : q = ds(d)
             /\ q.type = "DNSKEY" => q = ksk \/ q = zsk
             /\ q.type = "SOA" => q = soa
             /\ q.type = "NSEC3PARAM" => q = param
             /\ q.type \in {"NS", "DS", "DNSKEY", "SOA", "NSEC3PARAM"}
  <2>1. CASE q \in {soa, ksk, zsk, apex, param}
    BY <1>5, <2>1
  <2>2. CASE \E i \in 1..2 : q = ns(i)
    <3>1. q.type = "NS"
      BY <1>5, <2>2
    <3>2. QED
      BY <2>2, <3>1
  <2>3. CASE \E d \in Names : q = ds(d)
    <3>1. q.type = "DS"
      BY <1>5, <2>3
    <3>2. QED
      BY <2>3, <3>1
  <2>4. QED
    BY <1>8, <2>1, <2>2, <2>3
<1> HIDE DEF IsOne
<1>9. CASE r.type = "NS"
  <2>1. PICK i \in 1..2 : r = ns(i)
    BY <1>4, <1>8, <1>9
  <2>2. PICK j \in 1..2 : s = ns(j)
    BY <1>4, <1>8, <1>9
  <2>3. <<Tld, i>> = <<Tld, j>>
    BY <1>5, <2>1, <2>2
  <2>4. QED
    BY <1>6, <2>1, <2>2, <2>3
<1>10. CASE r.type = "DS"
  <2>1. r = apex \/ \E d \in Names : r = ds(d)
    BY <1>4, <1>8, <1>10
  <2>2. s = apex \/ \E d \in Names : s = ds(d)
    BY <1>4, <1>8, <1>10
  <2>3. ASSUME NEW d \in Names, r = ds(d)
        PROVE  s = ds(d)
    <3>1. s.owner = <<d>> /\ s # apex
      BY <1>1, <1>5, <2>3
    <3>2. PICK e \in Names : s = ds(e)
      BY <2>2, <3>1
    <3>3. <<d>> = <<e>>
      BY <1>5, <3>1, <3>2
    <3>4. QED
      BY <1>7, <3>2, <3>3
  <2>4. ASSUME NEW d \in Names, s = ds(d)
        PROVE  r = ds(d)
    <3>1. r.owner = <<d>> /\ r # apex
      BY <1>1, <1>5, <2>4
    <3>2. PICK e \in Names : r = ds(e)
      BY <2>1, <3>1
    <3>3. <<d>> = <<e>>
      BY <1>5, <3>1, <3>2
    <3>4. QED
      BY <1>7, <3>2, <3>3
  <2>5. CASE r = apex /\ s = apex
    BY <2>5
  <2>6. QED
    BY <2>1, <2>2, <2>3, <2>4, <2>5
<1>11. CASE r.type = "DNSKEY"
  <2>1. (r = ksk \/ r = zsk) /\ (s = ksk \/ s = zsk)
    BY <1>4, <1>8, <1>11
  <2>2. ksk.rdata[1] # zsk.rdata[1]
    BY <1>5
  <2>3. ksk.rdata # zsk.rdata
    BY <2>2
  <2>4. QED
    BY <2>1, <2>3
<1>12. CASE r.type \in {"SOA", "NSEC3PARAM"}
  BY <1>4, <1>8, <1>12
<1>13. QED
  BY <1>4, <1>8, <1>9, <1>10, <1>11, <1>12
-------------------------------------------------------------------------------
(* A signed zone that is answered.                                         *)

\* Every record set is signed by a published key, the keys by the one that the DS
\* names, and no list repeats a record but those of glue and delegations.
LEMMA RecordsVerify ==
  ASSUME NEW t \in Tables, NEW c, NEW w, NEW k, NEW records, NEW signatures,
         records = UnsignedZone(t, c, w) \cup KeyRecords(k),
         signatures = Signatures(records, k)
  PROVE  LET dnskeys == {r.rdata[2] : r \in {s \in records : s.type = "DNSKEY"}}
             trusted == {r.rdata[1] : r \in {s \in records : s.owner = <<Tld>> /\ s.type = "DS"}} IN
         /\ trusted = {k.ksk}
         /\ {k.ksk, k.zsk} \subseteq dnskeys
         /\ \A r \in records :
              \E s \in signatures :
                /\ s.owner = r.owner /\ s.type = r.type /\ r \in s.over
                /\ s.key \in dnskeys
                /\ r.type = "DNSKEY" => s.key \in trusted
                /\ HasDuplicates(s.over) => MayRepeat(r)
<1> DEFINE dnskeys == {r.rdata[2] : r \in {s \in records : s.type = "DNSKEY"}}
           trusted == {r.rdata[1] : r \in {s \in records : s.owner = <<Tld>> /\ s.type = "DS"}}
           apex == RecordAt(<<Tld, 0>>, <<Tld>>, "DS", <<k.ksk>>)
           ksk == RecordAt(<<Tld, 1>>, <<Tld>>, "DNSKEY", <<257, k.ksk>>)
           zsk == RecordAt(<<Tld, 2>>, <<Tld>>, "DNSKEY", <<256, k.zsk>>)
<1>1. \A r \in records : IsSigned(r, t, c, k)
  BY SignedFacts
<1>2. trusted = {k.ksk}
  <2>1. apex \in records /\ apex.owner = <<Tld>> /\ apex.type = "DS" /\ apex.rdata[1] = k.ksk
    BY DEF KeyRecords, RecordAt
  <2>2. \A r \in records : r.owner = <<Tld>> /\ r.type = "DS" => r.rdata[1] = k.ksk
    BY <1>1, SignedTypes
  <2> HIDE DEF apex
  <2>3. QED
    BY <2>1, <2>2
<1>3. {k.ksk, k.zsk} \subseteq dnskeys
  <2>1. /\ ksk \in records /\ ksk.type = "DNSKEY" /\ ksk.rdata[2] = k.ksk
        /\ zsk \in records /\ zsk.type = "DNSKEY" /\ zsk.rdata[2] = k.zsk
    BY DEF KeyRecords, RecordAt
  <2> HIDE DEF ksk, zsk
  <2>2. QED
    BY <2>1
<1> HIDE DEF dnskeys, trusted
<1>4. ASSUME NEW r \in records
      PROVE  \E s \in signatures :
               /\ s.owner = r.owner /\ s.type = r.type /\ r \in s.over
               /\ s.key \in dnskeys
               /\ r.type = "DNSKEY" => s.key \in trusted
               /\ HasDuplicates(s.over) => MayRepeat(r)
  <2> DEFINE over == {q \in records : q.owner = r.owner /\ q.type = r.type}
             key == IF r.type = "DNSKEY" THEN k.ksk ELSE k.zsk
             sig == [owner |-> r.owner, type |-> r.type, over |-> over, key |-> key]
  <2>1. sig \in signatures
    BY DEF Signatures
  <2>2. r \in over
    OBVIOUS
  <2>3. key \in dnskeys /\ (r.type = "DNSKEY" => key \in trusted)
    BY <1>2, <1>3
  <2>4. HasDuplicates(over) => MayRepeat(r)
    <3> SUFFICES ASSUME ~MayRepeat(r), NEW p \in over, NEW q \in over, p.rdata = q.rdata
                 PROVE  p = q
      BY DEF HasDuplicates
    <3>1. /\ p.owner = q.owner /\ p.type = q.type /\ p \in records /\ q \in records
          /\ p.owner = r.owner /\ p.type = r.type
      OBVIOUS
    <3>2. ~MayRepeat(p)
      BY <3>1 DEF MayRepeat, IsGlue
    <3> HIDE DEF over
    <3>3. QED
      BY <1>1, <3>1, <3>2, SetsRepeatNothing
  <2>5. /\ sig.owner = r.owner /\ sig.type = r.type /\ sig.over = over /\ sig.key = key
    OBVIOUS
  <2> HIDE DEF sig, over, key
  <2>6. QED
    BY <2>1, <2>2, <2>3, <2>4, <2>5
<1>5. QED
  BY <1>2, <1>3, <1>4 DEF dnskeys, trusted

\* The chain has one element for each owner, and settles each hash once.
LEMMA ChainVerifies ==
  ASSUME NEW records, \A r \in records : r.owner \in DOMAIN HashOf, records # {},
         NEW chain, chain = Nsec3Chain(records)
  PROVE  /\ \A hash \in Hashes : Cardinality({n \in chain : Settles(n, hash)}) = 1
         /\ \A r \in records :
              \E n \in chain :
                /\ n.hash = HashOf[r.owner]
                /\ n.types = {"RRSIG"} \cup {s.type : s \in {q \in records : q.owner = r.owner}}
<1> DEFINE owners == {r.owner : r \in records}
           hashes == {HashOf[o] : o \in owners}
           N(o) == [hash |-> HashOf[o], next |-> NextHash(hashes, HashOf[o]),
                    types |-> TypesAt(records, o) \cup {"RRSIG"}]
<1>1. chain = {N(o) : o \in owners}
  BY DEF Nsec3Chain
<1>2. ASSUME NEW r \in records
      PROVE  \E n \in chain :
               /\ n.hash = HashOf[r.owner]
               /\ n.types = {"RRSIG"} \cup {s.type : s \in {q \in records : q.owner = r.owner}}
  <2>1. N(r.owner) \in chain
    BY <1>1
  <2>2. /\ N(r.owner).hash = HashOf[r.owner]
        /\ N(r.owner).types = {"RRSIG"} \cup {s.type : s \in {q \in records : q.owner = r.owner}}
    BY DEF TypesAt
  <2>3. QED
    BY <2>1, <2>2
<1>3. owners \subseteq DOMAIN HashOf /\ owners # {}
  OBVIOUS
<1>4. hashes \subseteq Hashes /\ hashes # {} /\ Hashes \subseteq Nat
  BY <1>3, HashAssumption DEF Hashes
<1>5. PICK last \in Hashes : \A hash \in Hashes : hash =< last
  BY HashAssumption
<1>6. \A o \in owners : N(o).hash = HashOf[o] /\ N(o).next = NextHash(hashes, HashOf[o])
                        /\ HashOf[o] \in hashes
  OBVIOUS
<1>7. \A h \in hashes : \E o \in owners : h = HashOf[o]
  OBVIOUS
<1>8. \A o, p \in owners : HashOf[o] = HashOf[p] => o = p
  BY <1>3, HashAssumption
<1> HIDE DEF owners, hashes, N
<1>9. ASSUME NEW hash \in Hashes
      PROVE  Cardinality({n \in chain : Settles(n, hash)}) = 1
  <2>1. /\ hashes \in SUBSET Nat /\ last \in Nat /\ hash \in Nat /\ \A h \in hashes : h =< last
    BY <1>4, <1>5
  <2>2. PICK h \in hashes : \A g \in hashes : SettledBy(g, NextHash(hashes, g), hash) <=> g = h
    BY <1>4, <2>1, SettledOnce
  <2>3. PICK o \in owners : h = HashOf[o]
    BY <1>7
  <2>4. \A p \in owners : Settles(N(p), hash) <=> SettledBy(HashOf[p], NextHash(hashes, HashOf[p]), hash)
    BY <1>6 DEF Settles, SettledBy
  <2>5. \A p \in owners : Settles(N(p), hash) <=> p = o
    BY <1>6, <1>8, <2>2, <2>3, <2>4
  <2>6. {n \in chain : Settles(n, hash)} = {N(o)}
    BY <1>1, <2>5
  <2>7. QED
    BY <2>6, FS_Singleton
<1>10. QED
  BY <1>2, <1>9
LEMMA ZoneVerifies ==
  ASSUME NEW z, z.tables \in Tables
  PROVE  Verifies(z)
<1> DEFINE t == z.tables
           c == z.config
           k == z.keys
           w == z.keys # None
           records == UnsignedZone(t, c, w) \cup KeyRecords(k)
           chain == Nsec3Chain(records)
           signatures == Signatures(records, k)
           chainSignatures == Nsec3Signatures(chain, k)
           dnskeys == {r.rdata[2] : r \in {s \in records : s.type = "DNSKEY"}}
           trusted == {r.rdata[1] : r \in {s \in records : s.owner = <<Tld>> /\ s.type = "DS"}}
<1>1. /\ SignedOf(z).records = records /\ SignedOf(z).chain = chain
      /\ SignedOf(z).signatures = signatures /\ SignedOf(z).chainSignatures = chainSignatures
  BY DEF SignedOf, UnsignedOf, SignZoneRecords
<1>2. records # {}
  BY DEF KeyRecords
<1>3. \A r \in records : r.owner \in DOMAIN HashOf
  <2> SUFFICES ASSUME NEW r \in records PROVE r.owner \in DOMAIN HashOf
    OBVIOUS
  <2>1. r \in UnsignedZone(t, c, w) \cup KeyRecords(k) /\ t \in Tables
    OBVIOUS
  <2> HIDE DEF t, c, k, w
  <2>2. QED
    BY <2>1, SignedFacts
<1>4. /\ trusted = {k.ksk}
      /\ {k.ksk, k.zsk} \subseteq dnskeys
      /\ \A r \in records :
           \E s \in signatures :
             /\ s.owner = r.owner /\ s.type = r.type /\ r \in s.over
             /\ s.key \in dnskeys
             /\ r.type = "DNSKEY" => s.key \in trusted
             /\ HasDuplicates(s.over) => MayRepeat(r)
  <2>1. t \in Tables
    OBVIOUS
  <2> HIDE DEF t, c, k, w
  <2>2. QED
    BY <2>1, RecordsVerify, ZenonT(30)
<1> HIDE DEF dnskeys, trusted
<1>5. \A n \in chain : \E s \in chainSignatures : s.over = n /\ s.key \in dnskeys
  <2> SUFFICES ASSUME NEW n \in chain
               PROVE  \E s \in chainSignatures : s.over = n /\ s.key \in dnskeys
    OBVIOUS
  <2> DEFINE s == [hash |-> n.hash, over |-> n, key |-> k.zsk]
  <2>1. s \in chainSignatures
    BY DEF Nsec3Signatures
  <2>2. s.over = n /\ s.key \in dnskeys
    BY <1>4
  <2>3. QED
    BY <2>1, <2>2
<1> HIDE DEF records
<1>6. /\ \A hash \in Hashes : Cardinality({n \in chain : Settles(n, hash)}) = 1
      /\ \A r \in records :
           \E n \in chain :
             /\ n.hash = HashOf[r.owner]
             /\ n.types = {"RRSIG"} \cup {s.type : s \in {q \in records : q.owner = r.owner}}
  <2>1. chain = Nsec3Chain(records)
    OBVIOUS
  <2> HIDE DEF chain
  <2>2. QED
    BY <1>2, <1>3, <2>1, ChainVerifies
<1> HIDE DEF chain, signatures, chainSignatures, k
<1>7. QED
  BY <1>1, <1>4, <1>5, <1>6, ZenonT(30) DEF Verifies, dnskeys, trusted, k

LEMMA AnswersVerify == IInv /\ [Next]_vars /\ zone' # zone => Verifies(zone')
<1> SUFFICES ASSUME IInv, [Next]_vars, zone' # zone PROVE Verifies(zone')
  OBVIOUS
<1>1. zone'.tables = tables
  <2>1. AnswerZone
    BY ZoneSent
  <2>2. QED
    BY <2>1 DEF AnswerZone
<1>2. tables \in Tables
  BY DEF IInv, TypeOK
<1>3. \A z : z.tables = tables => Verifies(z)
  BY <1>2, ZoneVerifies
<1>4. QED
  BY <1>1, <1>3

\* A signed zone that is sent verifies (signZoneRecords): the DS names the key that
\* signs the keys, published keys sign every record set and every NSEC3 record, and
\* the chain, whatever the order of the hashes, settles each hash exactly once.
THEOREM ZonesAlwaysVerify == Spec => ZonesVerify
<1>1. IInv /\ [Next]_vars => (zone' # zone /\ zone'.keys # None => Verifies(zone'))
  BY AnswersVerify
<1>2. QED
  BY <1>1, Inductive, PTL DEF Spec, ZonesVerify
===============================================================================
