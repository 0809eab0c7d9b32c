--------------------------- MODULE ZonePublication ---------------------------
(***************************************************************************)
(* The requests that publish the tables: the zone, with the key file it    *)
(* is signed from, the registry export, and RDAP's copy of the export.     *)
(*                                                                         *)
(* A request runs to its end before any other event: it reads the tables,  *)
(* whose promises are settled, and is synchronous from there.  Its three   *)
(* files are overwritten in place, so an end of the process in a write     *)
(* leaves a file that does not parse.  A file, and a zone answered, stand  *)
(* here for what they were made from; ZoneContents says what they hold.    *)
(***************************************************************************)
EXTENDS ZoneContents

CONSTANTS
  RowsOf,           \* for each name, the rows it may have: [nameservers, ds]
  HostNames,        \* names of host objects
  Addresses,        \* address lists a host object may have, as sets
  Configs,          \* nameserver configurations that can be saved
  BulkSizes,        \* how many names a bulk seed may generate
  None,             \* no file, no request, no zone
  Torn,             \* a file whose write did not end
  MaxEdition,       \* bound: changes of the tables
  MaxKeys           \* bound: key pairs generated

KeySets == [ksk : 1..MaxKeys, zsk : 1..MaxKeys]

Tables ==
  [domains: UNION {[S -> UNION {RowsOf[d] : d \in Names}] : S \in SUBSET Names},
   hosts: UNION {[S -> Addresses] : S \in SUBSET HostNames},
   bulk: BulkSizes \cup {0}]

Exports == [tables: Tables, edition: 0..MaxEdition]

Stages ==
  {"config", "keys", "keyWrite", "sign", "export", "exportWrite", "answer", "read", "configWrite"}

Requests ==
  [kind: {"zone", "registry", "dump", "config"}, stage: Stages, signed: BOOLEAN,
   renew: BOOLEAN, existing: KeySets \cup {None}]

ASSUME SentinelAssumption ==
  /\ None # Torn
  /\ None \notin Configs \cup KeySets \cup Exports \cup Requests
  /\ Torn \notin Configs \cup KeySets \cup Exports

\* A name server in the zone has a hash, too.
ASSUME NameserverAssumption ==
  \A d \in Names : \A row \in RowsOf[d] : \A j \in DOMAIN row.nameservers :
    InZone(row.nameservers[j]) => row.nameservers[j] \in DOMAIN HashOf

ASSUME BoundAssumption == MaxEdition \in Nat /\ MaxKeys \in Nat

VARIABLES
  tables,           \* [domains, hosts, bulk]: the rows by name
  edition,          \* how often the tables have changed
  config,           \* the nameserver file
  keys,             \* the key file
  made,             \* how many key pairs were ever generated
  export,           \* the export file: what it was made from
  up,               \* whether the process runs
  request,          \* the running request and how far it is
  zone              \* the last zone answered: what it was made from

files == <<config, keys, made, export>>
vars == <<tables, edition, files, up, request, zone>>

Idle == up /\ request = None

-------------------------------------------------------------------------------
(* The tables.  The registry's commands, an import of fixtures and a bulk  *)
(* seed change rows between requests.                                      *)

ChangeTables(changed) ==
  /\ Idle
  /\ edition < MaxEdition
  /\ changed # tables
  /\ tables' = changed
  /\ edition' = edition + 1
  /\ UNCHANGED <<files, up, request, zone>>

Without(rows, name) == [n \in DOMAIN rows \ {name} |-> rows[n]]

With(rows, name, row) == [n \in DOMAIN rows \cup {name} |-> IF n = name THEN row ELSE rows[n]]

SaveDomain(d, row) == ChangeTables([tables EXCEPT !.domains = With(@, d, row)])

DeleteDomain(d) == ChangeTables([tables EXCEPT !.domains = Without(@, d)])

SaveHost(ns, addresses) == ChangeTables([tables EXCEPT !.hosts = With(@, ns, addresses)])

DeleteHost(ns) == ChangeTables([tables EXCEPT !.hosts = Without(@, ns)])

\* A bulk seed replaces the table.  Of its names only the number matters: each
\* has DS of its own, and name servers below itself that are no host objects.
SeedBulk(count) == ChangeTables([tables EXCEPT !.domains = <<>>, !.bulk = count])

-------------------------------------------------------------------------------
(* Requests.                                                               *)

Begin(kind, stage) ==
  /\ Idle
  /\ request' = [kind |-> kind, stage |-> stage, signed |-> FALSE, renew |-> FALSE, existing |-> None]

Proceed(stage) == request' = [request EXCEPT !.stage = stage]

AtStage(stage) == request # None /\ request.stage = stage

Finish == request' = None

\* An exception, answered 500.
Fail == Finish /\ UNCHANGED <<tables, edition, files, up, zone>>

\* A query parameter is coerced by truthiness: every text but the empty one,
\* "false" among them, asks for signatures, and so does a missing parameter.
AsksForSignatures(dnssec) == dnssec # ""

\* GET /dns/zone.
RequestZone(dnssec, keyAction) ==
  /\ Idle
  /\ request' = [kind |-> "zone", stage |-> "config", signed |-> AsksForSignatures(dnssec),
                 renew |-> keyAction = "renew", existing |-> None]
  /\ UNCHANGED <<tables, edition, files, up, zone>>

\* The configuration is an argument of the zone's generation: it is read first.
\* A start has parsed it, so it is whole.
ReadConfig ==
  /\ AtStage("config")
  /\ Proceed(IF request.signed THEN "keys" ELSE "export")
  /\ UNCHANGED <<tables, edition, files, up, zone>>

KeepKeys ==
  /\ AtStage("keys")
  /\ keys \in KeySets
  /\ ~request.renew
  /\ Proceed("sign")
  /\ UNCHANGED <<tables, edition, files, up, zone>>

FailOnKeys == AtStage("keys") /\ keys = Torn /\ Fail

\* Mutant: keys are generated whenever a zone is signed.
NeedsKeysAlways == keys # Torn

NeedsKeys == keys = None \/ (keys \in KeySets /\ request.renew)

\* The old key file is gone from the moment its write begins.
BeginKeyWrite ==
  /\ AtStage("keys")
  /\ NeedsKeys
  /\ made + 2 =< MaxKeys
  /\ request' = [request EXCEPT !.stage = "keyWrite", !.existing = keys]
  /\ keys' = Torn
  /\ UNCHANGED <<tables, edition, config, made, export, up, zone>>

\* Both pairs are new, also on a renewal.
EndKeyWrite ==
  /\ AtStage("keyWrite")
  /\ made' = made + 2
  /\ keys' = [ksk |-> made + 1, zsk |-> made + 2]
  /\ Proceed("sign")
  /\ UNCHANGED <<tables, edition, config, export, up, zone>>

\* Without a file the built-in configuration, 0, holds.
ConfigRead == IF config = None THEN 0 ELSE config

Records == UnsignedZone(tables, ConfigRead, request.signed)

Sign ==
  /\ AtStage("sign")
  /\ ~SigningThrows(Records)
  /\ Proceed("export")
  /\ UNCHANGED <<tables, edition, files, up, zone>>

FailToSign == AtStage("sign") /\ SigningThrows(Records) /\ Fail

\* Mutant: the zone is sent before the export is written.
AnswerEarly ==
  /\ AtStage("export")
  /\ request.kind = "zone"
  /\ zone' = [tables |-> tables, edition |-> edition, config |-> ConfigRead,
              keys |-> IF request.signed THEN keys ELSE None]
  /\ Finish
  /\ UNCHANGED <<tables, edition, files, up>>

BeginExport ==
  /\ AtStage("export")
  /\ export' = Torn
  /\ Proceed("exportWrite")
  /\ UNCHANGED <<tables, edition, config, keys, made, up, zone>>

EndExport ==
  /\ AtStage("exportWrite")
  /\ export' = [tables |-> tables, edition |-> edition]
  /\ Proceed("answer")
  /\ UNCHANGED <<tables, edition, config, keys, made, up, zone>>

\* A zone is sent only when the export is on disk.
AnswerZone ==
  /\ AtStage("answer")
  /\ request.kind = "zone"
  /\ zone' = [tables |-> tables, edition |-> edition, config |-> ConfigRead,
              keys |-> IF request.signed THEN keys ELSE None]
  /\ Finish
  /\ UNCHANGED <<tables, edition, files, up>>

\* GET /dns/registry.json writes the export anew and sends it.
RequestRegistry ==
  /\ Begin("registry", "export")
  /\ UNCHANGED <<tables, edition, files, up, zone>>

AnswerExport ==
  /\ AtStage("answer")
  /\ request.kind # "zone"
  /\ Finish
  /\ UNCHANGED <<tables, edition, files, up, zone>>

\* RDAP's GET /registry.json: an existing file is sent as it is, however old.
RequestDump ==
  /\ Begin("dump", "read")
  /\ UNCHANGED <<tables, edition, files, up, zone>>

SendDump ==
  /\ AtStage("read")
  /\ export \notin {None, Torn}
  /\ Finish
  /\ UNCHANGED <<tables, edition, files, up, zone>>

FailOnDump == AtStage("read") /\ export = Torn /\ Fail

BuildDump ==
  /\ AtStage("read")
  /\ export = None
  /\ Proceed("export")
  /\ UNCHANGED <<tables, edition, files, up, zone>>

\* PUT /dns/nameservers, without the seeding that follows.
RequestConfig ==
  /\ Begin("config", "configWrite")
  /\ config' = Torn
  /\ UNCHANGED <<tables, edition, keys, made, export, up, zone>>

EndConfigWrite(c) ==
  /\ AtStage("configWrite")
  /\ config' = c
  /\ Finish
  /\ UNCHANGED <<tables, edition, keys, made, export, up, zone>>

-------------------------------------------------------------------------------
(* The process.                                                            *)

\* The process may end at any moment, a write of a file included.
End ==
  /\ up
  /\ up' = FALSE
  /\ request' = None
  /\ UNCHANGED <<tables, edition, files, zone>>

\* A nameserver file that does not parse ends the start, before any request.
Start ==
  /\ ~up
  /\ config # Torn
  /\ up' = TRUE
  /\ UNCHANGED <<tables, edition, files, request, zone>>

\* The operator removes a configuration or a key file that cannot be read.
RemoveTornFiles ==
  /\ ~up
  /\ Torn \in {config, keys}
  /\ config' = IF config = Torn THEN None ELSE config
  /\ keys' = IF keys = Torn THEN None ELSE keys
  /\ UNCHANGED <<tables, edition, made, export, up, request, zone>>

-------------------------------------------------------------------------------
Init ==
  /\ tables = [domains |-> <<>>, hosts |-> <<>>, bulk |-> 0]
  /\ edition = 0
  /\ config = None
  /\ keys = None
  /\ made = 0
  /\ export = None
  /\ up = TRUE
  /\ request = None
  /\ zone = None

TableChange ==
  \/ \E d \in Names : \E row \in RowsOf[d] : SaveDomain(d, row)
  \/ \E d \in Names : DeleteDomain(d)
  \/ \E ns \in HostNames, addresses \in Addresses : SaveHost(ns, addresses)
  \/ \E ns \in HostNames : DeleteHost(ns)
  \/ \E count \in BulkSizes : SeedBulk(count)

NewRequest ==
  \/ \E dnssec \in {"true", "false", ""}, keyAction \in {"generate", "renew"} :
       RequestZone(dnssec, keyAction)
  \/ RequestRegistry \/ RequestDump \/ RequestConfig

RequestStep ==
  \/ ReadConfig \/ KeepKeys \/ FailOnKeys \/ BeginKeyWrite \/ EndKeyWrite
  \/ Sign \/ FailToSign \/ BeginExport \/ EndExport \/ AnswerZone \/ AnswerExport
  \/ SendDump \/ FailOnDump \/ BuildDump
  \/ \E c \in Configs : EndConfigWrite(c)

Next == TableChange \/ NewRequest \/ RequestStep \/ End \/ Start \/ RemoveTornFiles

Spec == Init /\ [][Next]_vars

-------------------------------------------------------------------------------
(* Properties.                                                             *)

TypeOK ==
  /\ tables \in Tables
  /\ edition \in 0..MaxEdition
  /\ config \in Configs \cup {None, Torn}
  /\ keys \in KeySets \cup {None, Torn}
  /\ made \in 0..MaxKeys
  /\ export \in Exports \cup {None, Torn}
  /\ up \in BOOLEAN
  /\ request \in Requests \cup {None}

\* What a zone that was answered holds.
UnsignedOf(z) == UnsignedZone(z.tables, z.config, z.keys # None)

SignedOf(z) == SignZoneRecords(UnsignedOf(z), z.keys)

\* For a resolver a record set has no duplicates: it accepts the signature over a
\* list when the list has none.
HasDuplicates(list) == \E r, s \in list : r # s /\ r.rdata = s.rdata

IsGlue(r) == r.type \in {"A", "AAAA"}

\* Two domains may share a name server, and a row may name one in two spellings.
MayRepeat(r) == IsGlue(r) \/ (r.type = "NS" /\ r.owner # <<Tld>>)

\* A hash is proved absent by this record, or is its owner's.
Settles(n, hash) ==
  \/ hash = n.hash
  \/ n.hash < hash /\ hash < n.next
  \/ n.next =< n.hash /\ (n.hash < hash \/ hash < n.next)

Verifies(z) ==
  LET signed  == SignedOf(z)
      records == signed.records
      dnskeys == {r.rdata[2] : r \in {s \in records : s.type = "DNSKEY"}}
      trusted == {r.rdata[1] : r \in {s \in records : s.owner = <<Tld>> /\ s.type = "DS"}} IN
  /\ trusted = {z.keys.ksk}
  /\ \A r \in records :
       \E s \in signed.signatures :
         /\ s.owner = r.owner /\ s.type = r.type /\ r \in s.over
         /\ s.key \in dnskeys
         /\ r.type = "DNSKEY" => s.key \in trusted
         /\ HasDuplicates(s.over) => MayRepeat(r)
  /\ \A n \in signed.chain :
       \E s \in signed.chainSignatures : s.over = n /\ s.key \in dnskeys
  /\ \A hash \in Hashes : Cardinality({n \in signed.chain : Settles(n, hash)}) = 1
  /\ \A r \in records :
       \E n \in signed.chain :
         /\ n.hash = HashOf[r.owner]
         /\ n.types = {"RRSIG"} \cup {s.type : s \in {t \in records : t.owner = r.owner}}

\* In a signed zone that is answered, keys, signatures and chain belong together:
\* the DS names the key that signs the keys, every record set and NSEC3 record is
\* signed by a published key, and the chain settles each hash once, with the
\* types that are there.  Only lists of glue and of delegations may repeat a record,
\* which no resolver's check of the signature would survive.
ZonesVerify == [][zone' # zone /\ zone'.keys # None => Verifies(zone')]_vars

HasAddress(z, ns, address) ==
  \E r \in UnsignedOf(z) : IsGlue(r) /\ r.owner = ns /\ r.rdata = address

\* A zone that is answered gives an address to each name server in the zone, and
\* the export on disk at that moment is of the same tables: it gives no glue and
\* no DS that the zone does not.
DelegationsResolve(z) ==
  \A r \in UnsignedOf(z) :
    r.type = "NS" /\ InZone(r.rdata) =>
      \E glue \in UnsignedOf(z) : IsGlue(glue) /\ glue.owner = r.rdata

ExportAgrees(z, dump) ==
  \A d \in DOMAIN dump :
    /\ \A j \in DOMAIN dump[d].nameservers :
         \A address \in dump[d].nameservers[j].addresses :
           HasAddress(z, dump[d].nameservers[j].name, address)
    /\ dump[d].ds # 0 => DsOf(z.tables, d) = <<dump[d].ds>>

AnswerStep ==
  zone' # zone =>
    /\ DelegationsResolve(zone')
    /\ export' \notin {None, Torn}
    /\ export'.edition = zone'.edition
    /\ ExportAgrees(zone', BuildRegistryExport(export'.tables))

ZoneAndExportAgree == [][AnswerStep]_vars

SameData(t, u, d) ==
  /\ t.domains[d] = u.domains[d]
  /\ \A j \in DOMAIN NameserversOf(d, t.domains[d]) :
       LET ns == NameserversOf(d, t.domains[d])[j] IN
       InZone(ns) =>
         /\ HasHostGlue(t, ns) <=> HasHostGlue(u, ns)
         /\ HasHostGlue(t, ns) => t.hosts[ns] = u.hosts[ns]

IsMadeUp(t, d, r) ==
  \/ r.type = "DS" /\ t.domains[d].ds = 0
  \/ IsGlue(r) /\ ~HasHostGlue(t, r.owner)

\* Of the delegation of d between the tables t and u, what is on one side only.
Differences(t, u, d) ==
  (Delegation(t, d, TRUE) \ Delegation(u, d, TRUE))
    \cup (Delegation(u, d, TRUE) \ Delegation(t, d, TRUE))

DelegationStep ==
  zone # None /\ zone' # zone =>
    LET before == zone.tables
        after == zone'.tables IN
    \A d \in DOMAIN before.domains \cap DOMAIN after.domains :
      SameData(before, after, d) =>
        \A r \in Differences(before, after, d) :
          IndexOf(before, d) # IndexOf(after, d) /\ IsMadeUp(before, d, r)

\* Between two zones answered, what other rows do reaches the delegation of a name
\* whose row and hosts stay as they are only by moving the name's place among the
\* registered ones, and changes nothing but what is made up from that place: a DS
\* of its own, the addresses of its host objects and its name servers stay.
OnlyMadeUpDataMoves == [][DelegationStep]_vars

\* Once there are keys, only a request to renew them replaces or endangers them:
\* normal operation does not write the key file, whenever the process ends.
KeyStep == keys \in KeySets /\ keys' # keys => request # None /\ request.renew

GenerateKeepsKeys == [][KeyStep]_vars

===============================================================================
