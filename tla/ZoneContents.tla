----------------------------- MODULE ZoneContents -----------------------------
(***************************************************************************)
(* What the zone file and the registry export say about given tables: the  *)
(* delegations with their DS and glue, the NSEC3 chain, which key signs    *)
(* what, and the export's copy of the glue.                                *)
(*                                                                         *)
(* A registrable name is a number, in the order in which the zone sorts    *)
(* the names.  An owner name is <<d>> for a domain, <<d, k>> for host k    *)
(* below domain d, with d = Tld for the zone itself and d = Elsewhere for  *)
(* any other TLD.  An address is a tuple of octets or of hextets.  A DS    *)
(* record is its key tag, followed by what a made-up digest hashes.        *)
(***************************************************************************)
EXTENDS Integers, Sequences, FiniteSets

CONSTANTS
  MaxName,          \* the names in the order of the zone are 1..MaxName
  BulkFrom,         \* the bulk-seeded names sort before this one
  HashOf            \* the NSEC3 hashes of the owner names

Names == 1..MaxName

Tld == 0
Elsewhere == -1

Hashes == {HashOf[owner] : owner \in DOMAIN HashOf}

\* Every name of the zone has a hash of its own.  A hash has 160 bits, so there
\* is a largest one.
ASSUME HashAssumption ==
  /\ {<<Tld>>, <<Tld, 1>>, <<Tld, 2>>} \subseteq DOMAIN HashOf
  /\ \A d \in Names : {<<d>>, <<d, 1>>, <<d, 2>>} \subseteq DOMAIN HashOf
  /\ \A o1, o2 \in DOMAIN HashOf : o1 # o2 => HashOf[o1] # HashOf[o2]
  /\ Hashes \subseteq Nat
  /\ \E last \in Hashes : \A hash \in Hashes : hash =< last

\* A row of the domain table, as far as the zone reads it; ds is the key tag of
\* its DS record, 0 if it has none.
RowOf(nameservers, ds) == [nameservers |-> nameservers, ds |-> ds]

-------------------------------------------------------------------------------
(* Delegations.  tables.domains and tables.hosts hold the rows by name, and *)
(* tables.bulk is how many bulk-seeded names there are besides.             *)

\* The position of a name among the registered ones.
IndexOf(tables, d) ==
  Cardinality({e \in DOMAIN tables.domains : e < d}) + (IF d >= BulkFrom THEN tables.bulk ELSE 0)

NameserversOf(d, row) ==
  IF row.nameservers = <<>> THEN <<<<d, 1>>, <<d, 2>>>> ELSE row.nameservers

InZone(ns) == ns[1] # Elsewhere

InBailiwick(ns, d) == ns[1] = d

AddressType(address) == IF Len(address) = 8 THEN "AAAA" ELSE "A"

\* The addresses made up for name server k (from 0) of the domain at an index.
SyntheticGlueAddresses(index, k) ==
  LET id == 100 + 2 * index + k IN
  {IF id =< 255 THEN <<192, 0, 2, id>> ELSE <<198, 18, (id \div 256) % 256, id % 256>>,
   <<8193, 3512, 1, (id \div 65536) % 65536, 0, 0, 0, id % 65536>>}

HasHostGlue(tables, ns) == ns \in DOMAIN tables.hosts /\ tables.hosts[ns] # {}

\* Mutant: glue is always made up.
MadeUpGlue(tables, d, j) ==
  SyntheticGlueAddresses(IndexOf(tables, d), j - 1)

\* The addresses of name server j (from 1) of a domain: its host object's, if
\* that has any.
GlueOf(tables, d, j) ==
  LET ns == NameserversOf(d, tables.domains[d])[j] IN
  IF HasHostGlue(tables, ns) THEN tables.hosts[ns]
                             ELSE SyntheticGlueAddresses(IndexOf(tables, d), j - 1)

\* The records are a list: two equal ones differ in their place.
RecordAt(place, owner, type, rdata) ==
  [place |-> place, owner |-> owner, type |-> type, rdata |-> rdata]

DsOf(tables, d) ==
  IF tables.domains[d].ds # 0 THEN <<tables.domains[d].ds>>
  ELSE <<20000 + IndexOf(tables, d), d, IndexOf(tables, d)>>

\* Mutant: glue only for name servers below the delegated name itself.
NarrowDelegation(tables, d, withDs) ==
  LET nameservers == NameserversOf(d, tables.domains[d]) IN
  {RecordAt(<<d, j>>, <<d>>, "NS", nameservers[j]) : j \in DOMAIN nameservers}
  \cup (IF withDs THEN {RecordAt(<<d, 0>>, <<d>>, "DS", DsOf(tables, d))} ELSE {})
  \cup UNION {{RecordAt(<<d, j>>, nameservers[j], AddressType(a), a) : a \in GlueOf(tables, d, j)}
              : j \in {i \in DOMAIN nameservers : InBailiwick(nameservers[i], d)}}

Delegation(tables, d, withDs) ==
  LET nameservers == NameserversOf(d, tables.domains[d]) IN
  {RecordAt(<<d, j>>, <<d>>, "NS", nameservers[j]) : j \in DOMAIN nameservers}
  \cup (IF withDs THEN {RecordAt(<<d, 0>>, <<d>>, "DS", DsOf(tables, d))} ELSE {})
  \cup UNION {{RecordAt(<<d, j>>, nameservers[j], AddressType(a), a) : a \in GlueOf(tables, d, j)}
              : j \in {i \in DOMAIN nameservers : InZone(nameservers[i])}}

\* The configured addresses of the zone's own name servers.
TldAddresses(config, k) == {<<203, 0, config, k>>, <<9728, 0, 0, 0, 0, 0, config, k>>}

TldRecords(config) ==
  {RecordAt(<<Tld, 0>>, <<Tld>>, "SOA", <<config>>)}
  \cup {RecordAt(<<Tld, k>>, <<Tld>>, "NS", <<Tld, k>>) : k \in 1..2}
  \cup UNION {{RecordAt(<<Tld, k>>, <<Tld, k>>, AddressType(a), a) : a \in TldAddresses(config, k)}
              : k \in 1..2}

UnsignedZone(tables, config, withDs) ==
  TldRecords(config) \cup UNION {Delegation(tables, d, withDs) : d \in DOMAIN tables.domains}

-------------------------------------------------------------------------------
(* Signing.                                                                *)

KeyRecords(keys) ==
  {RecordAt(<<Tld, 1>>, <<Tld>>, "DNSKEY", <<257, keys.ksk>>),
   RecordAt(<<Tld, 2>>, <<Tld>>, "DNSKEY", <<256, keys.zsk>>),
   RecordAt(<<Tld, 0>>, <<Tld>>, "DS", <<keys.ksk>>),
   RecordAt(<<Tld, 0>>, <<Tld>>, "NSEC3PARAM", <<>>)}

\* Writing a key tag as an unsigned short throws when it is none.
SigningThrows(records) == \E r \in records : r.type = "DS" /\ r.rdata[1] > 65535

\* Mutant: the last hash of the chain is followed by itself.
OpenChainNext(hashes, hash) ==
  LET later == {h \in hashes : h > hash} IN
  IF later = {} THEN hash ELSE CHOOSE h \in later : \A g \in later : h =< g

\* The chain is the hashes in order, the first one again after the last.
NextHash(hashes, hash) ==
  LET later == {h \in hashes : h > hash}
      next  == IF later = {} THEN hashes ELSE later IN
  CHOOSE h \in next : \A g \in next : h =< g

TypesAt(records, owner) == {r.type : r \in {s \in records : s.owner = owner}}

Nsec3Chain(records) ==
  LET owners == {r.owner : r \in records}
      hashes == {HashOf[o] : o \in owners} IN
  {[hash |-> HashOf[o], next |-> NextHash(hashes, HashOf[o]),
    types |-> TypesAt(records, o) \cup {"RRSIG"}] : o \in owners}

\* One signature for each record set, over its records as listed.
Signatures(records, keys) ==
  {[owner |-> r.owner, type |-> r.type,
    over |-> {s \in records : s.owner = r.owner /\ s.type = r.type},
    key |-> IF r.type = "DNSKEY" THEN keys.ksk ELSE keys.zsk] : r \in records}

Nsec3Signatures(chain, keys) == {[hash |-> n.hash, over |-> n, key |-> keys.zsk] : n \in chain}

\* Mutant: the chain is built before the key records are there.
SignBehindChain(records, keys) ==
  LET signed == records \cup KeyRecords(keys) IN
  [records |-> signed, chain |-> Nsec3Chain(records), keys |-> keys,
   signatures |-> Signatures(signed, keys),
   chainSignatures |-> Nsec3Signatures(Nsec3Chain(records), keys)]

SignZoneRecords(records, keys) ==
  LET signed == records \cup KeyRecords(keys) IN
  [records |-> signed, chain |-> Nsec3Chain(signed), keys |-> keys,
   signatures |-> Signatures(signed, keys),
   chainSignatures |-> Nsec3Signatures(Nsec3Chain(signed), keys)]

-------------------------------------------------------------------------------
(* The export.                                                             *)

\* A domain's object in the export: glue only for name servers below the name
\* itself, and only a DS record of its own.
ExportDomain(tables, d) ==
  LET nameservers == NameserversOf(d, tables.domains[d]) IN
  [ds |-> tables.domains[d].ds,
   nameservers |->
     [j \in DOMAIN nameservers |->
        [name |-> nameservers[j],
         addresses |-> IF InBailiwick(nameservers[j], d) THEN GlueOf(tables, d, j) ELSE {}]]]

BuildRegistryExport(tables) == [d \in DOMAIN tables.domains |-> ExportDomain(tables, d)]

===============================================================================
