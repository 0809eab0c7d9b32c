# Verification of eppmock

eppmock is a registry for one top-level domain, in one Node.js process: registrars
talk EPP to it over TCP, an operator talks HTTP to it, and it publishes its tables
as WHOIS, RDAP and a signed zone. This directory holds TLA+ models of it, the TLC
configurations that check them, and TLAPS proofs about most of them.

Paths are relative to the repository: `src/epp/eppServer.ts` and so on.
`PROJECT.json` maps every definition to its lines.

## 1. The system

| Component | State it keeps | Operations | Talks to |
|---|---|---|---|
| Domain lifecycle (`src/domain/`, `src/epp/domainCommandHandler.ts`) | the domain table: sponsor, statuses, RGP status, expiry, transfer record, contacts, name servers, DS | create, update, renew, delete and purge, restore, transfer request/approve/reject/cancel | contacts and hosts through `RegistryLinks`; the poll queues |
| Object status policy (`src/epp/objectStatusPolicy.ts`) | none | which status prohibits which command; the normal form of a list | called by the three services |
| Hosts (`src/host/`) | the host table: sponsor, statuses, glue | create, update, delete, rename | domains: parent, links, rename of links |
| Contacts (`src/contact/`) | the contact table | create, update, delete | domains: links |
| Storage (`src/*/sqlite*Repository.ts`, `src/*/inMemory*Repository.ts`) | each table twice: as SQLite rows with JSON columns, as maps | find, create, update, renew, transfer, set sponsor, delete, replace a host name, reset; migrate an older file | called by the services; the mode is a setting |
| Poll queues (`src/epp/pollMessageRepository.ts`) | a queue per registrar, in memory | enqueue, peek, acknowledge | filled by transfer requests |
| EPP transport and sessions (`framing.ts`, `eppServer.ts`, `commandRouter.ts`, `authCommandHandler.ts`) | per connection: receive buffer, session | decode frames, gate on login, route, answer; login and logout | all handlers |
| TLS certificate guard (`tlsWireCertGuard.ts`, the filter in `eppServer.ts`) | per connection: an incomplete record, an incomplete handshake message | read the client's certificate list off the wire, refuse or forward; compare the chain after the handshake | the socket, TLS |
| Dashboard client (`src/epp/eppClient.ts`) | per request: socket, frames, timer | greeting, login, command, result | the EPP server, over a local port |
| Start-up and default registry (`src/index.ts`, `src/registry/defaultRegistry.ts`) | the process; the three default domains | start listeners, seed | the three services |
| Operator control (`src/control/controlServer.ts`, `src/dns/bulkDomainSeed.ts`, `src/dns/tldNameservers.ts`) | the nameserver file; the command log | configure name servers, reset, bulk seed, zone, EPP requests | seeding; the client; the zone |
| Zone and DNSSEC (`src/dns/`) | key file | generate, renew keys; render and sign the zone | reads all tables and the nameserver file |
| RDAP, WHOIS, export (`src/rdap/`, `src/whois/`) | the export file | write the export with a zone, serve it, render lookups | read all tables |

**How it runs.** One event loop. SQLite is synchronous and every `await` of the
services is on a settled promise, so a command, a seeding or an operator request
runs to its end before the next event. Concurrency is therefore between
*commands* of different registrars and connections, between *data events* of
sockets, and between *statements* and the end of the process: each SQLite statement
commits on its own.

**What is hard.**

* Long sequences of commands by several registrars over one name: a transfer record
  is never removed, statuses, RGP status and transfer record are written by
  different methods, and approvals check very little.
* References between tables that do not know each other, looked up in different
  spellings.
* A host rename and a seeding are many durable statements; the process can end
  between them, and only a seeding is repeated.
* TCP cuts frames anywhere; the server answers per frame, its own client counts
  frames per data event.
* Records are kept in columns that earlier versions did not have, some NULL, some
  JSON, and the same methods exist again for maps.
* A zone request is many reads and up to two writes in place; glue and DS records are
  made up from a name's position where there are none.
* Certificates arrive cut into records, and records into chunks, independently; TLS
  shows the server a chain of its own making.
* Seeding goes through the same checks as commands, so what registrars leave behind
  can make a start fail.

**What makes the parts correct.** Statuses in normal form and in agreement with the
transfer record and RGP state; a sponsor changes only to the requester on an approval;
expiry never decreases, and passes the cap only by an approval; references resolve; glue stays
with the sponsor of its parent; frames are answered once, in order, for the registrar
that is logged in; no poll message is lost unread; a client request settles once;
a finished seeding leaves the default domains complete, and fails for known reasons
only; a zone verifies, agrees with the export beside it, and of a delegation whose own
data did not change nothing moves but what is made up; keys survive everything but their renewal; both storage modes
give the same answers; a refused certificate list never reaches TLS whole, and a session
is the registrar's whose certificate it has.

## 2. The modules

| Module | Kind | Models | State ↔ code |
|---|---|---|---|
| `ObjectStatusPolicy` | pure | `objectStatusPolicy.ts` | status lists as sets: duplicates are removed and order is never read |
| `DomainLifecycle` | actions | the domain commands, the poll messages of transfers, the clock | `domains` ↔ table `domains`, `queues` ↔ `PollMessageRepository`, `now` ↔ `Date.now()` in ticks |
| `RegistrationContract` | abstract | what registrars rely on: one holder per name; it is handed over only to the registrar whose claim is recorded, and that claim is never replaced; a name that is leaving is not released | refined by `DomainLifecycle` |
| `RegistryObjects` | actions | the three tables and the links between them; the host rename statement by statement | `domains`, `hosts`, `contacts` ↔ tables, `renaming` ↔ the statements a running rename has left |
| `StoredRecords` | pure | how each repository method makes the new record from the old one, the same in both storage modes | lists as sets, optional texts one for all, timestamps as far as anything reads them back |
| `MemoryRepositories` | abstract | the in-memory repositories: maps from a lower-case key to a record, and what a call returns | `contacts`, `hosts`, `domains` ↔ the three `Map`s, `answer` ↔ the value of the last call |
| `SqliteRepositories` | actions | the SQLite repositories: columns, JSON, NULL, the lookup by `lower(id)`, a file of the first version and its migration, end and start of the process | `contactRows`, `hostRows`, `domainRows` ↔ the tables by primary key, `columns` ↔ which columns the file has |
| `EppFraming` | pure | the frame decoder: the position its loop is at after each turn, the messages it has taken by then, the rest it keeps | bytes as message parts: a head with the length field, and what follows it |
| `EppSession` | actions | connections, chunks, the login gate, polling | `wire`, `buffer` ↔ the socket and `EppFrameDecoder.buffer`; `inbox` ↔ the frames of the running data event; `session` ↔ the session object; `answers` ↔ what was written; `queues` ↔ `PollMessageRepository` |
| `TlsAdmission` | actions | the certificate guard, the handover after the handshake, login and logout with all their checks, the end of a connection | `clientBuffer`, `handshakeBuffer` ↔ the guard's buffers, `pushed` ↔ what TLS was given, `stage` ↔ where the connection stands, `session` ↔ the session object |
| `EppClient` | actions | `sendEppRequest`, composed with `EppSession` as its server (`Server == INSTANCE EppSession`), of whose open clients it is one (`ImplementsOpenClient`) | `backlog`, `frames`, `outcome` ↔ decoder, frame list and promise of the closure; `read` ↔ how far the server's answers were delivered |
| `RegistryControl` | actions | start, seeding, operator requests, end of the process | `domains`, `hosts`, `contacts` ↔ rows of the default domains, `config` ↔ nameserver file, `job` ↔ the seeding's statements still to run, `phase` ↔ where `index.ts` stands |
| `ZoneContents` | pure | what a zone and an export say about given tables: delegations, glue and DS, made up or not, signatures, NSEC3 chain | a record as owner, type and data; a digest as what it hashes |
| `ZonePublication` | actions | the zone, export and dump requests stage by stage, key generation and renewal, changes of tables and configuration, end of the process | `keys`, `config`, `export` ↔ the three files, each as what it was made from or torn; `request` ↔ the running handler; `zone` ↔ the last answer |
| `DomainLifecycleProofs`, `RegistryObjectsProofs`, `SqliteRepositoriesProofs`, `EppSessionProofs`, `TlsAdmissionProofs`, `RegistryControlProofs`, `ZonePublicationProofs` | proofs | theorems about the module each is named after; `EppSessionProofs` also about `EppClient` (`Client == INSTANCE EppClient`), whose server is a session | |
| `EppFramingProofs` | proofs | lemmas about the decoder on any stream, and about sequences, which the proofs about sessions, TLS and seeding share | |

An action is a whole handler. A command answered with an error changes nothing and
is not a step of its own; the checks are the guards. The exceptions are the three
places where code is durable in parts: a rename (`HostRename`, `RenameColumns`,
`RenameLink`), a seeding (`EnsureContact` … `CompleteDomain`) and a zone request (a step
per stage, the writes of files apart from the rest). While one of them runs nothing
else is enabled but the end of the process, because their code is synchronous up to
settled promises.

`RegistryObjects` leaves open what `DomainLifecycle` fixes (when a name may be purged
or handed over); `RegistryControl` keeps of the tables only the rows that seeding
touches, with the full checks of the services it calls; `ZonePublication` lets the
tables change in any way between requests, since nothing the zone does depends on
who changed them. `SqliteRepositories` is driven by any calls, not only those that the
services make, and is shown to be an implementation of `MemoryRepositories`: the models of
the services, whose tables are functions from names to records, are therefore right for
both modes.

Definitions marked "Mutant:" are not part of a model. Each is a plausible bug, and
each property of a passing run is violated when one of them replaces the
definition it mutates; `PROJECT.json` lists the pairs.

## 3. The runs

| Run | Configuration | Question | Result |
|---|---|---|---|
| `domain_lifecycle` | `MCDomainLifecycle.cfg` | Do statuses, transfer record, RGP state, expiry, sponsor and poll queue stay consistent, and is the contract kept? | holds |
| `stale_loser` | `MCStaleLoser.cfg` | Is the recorded losing registrar the sponsor? | no |
| `registry_objects` | `MCRegistryObjects.cfg` | Do references resolve, is glue narrow, do renames keep delegations? | holds |
| `interrupted_rename` | `MCInterruptedRename.cfg` | Do references resolve when the process may end in a rename? | no |
| `storage_modes` | `MCSqliteRepositories.cfg` | Do the SQLite tables, of either version, answer as the maps do? | they do |
| `framed_session` | `MCFramedSession.cfg` | However TCP cuts it, is every frame answered, in order, for whom the session stands? | holds |
| `poll_sessions` | `MCPollSessions.cfg` | Can a message be lost unread when sessions share a queue? | no message is |
| `tls_admission` | `MCTlsAdmission.cfg` | Which certificate lists get through, which are turned away, and as whom can one then log in? | holds |
| `epp_client` | `MCEppClient.cfg` | Does a dashboard request settle once, with the connection's transcript? | holds |
| `split_answer` | `MCSplitAnswer.cfg` | Is the command's frame the answer to the request? | no |
| `registry_control` | `MCRegistryControl.cfg` | What does a seeding leave, what can commands do to it, when does it fail? | holds |
| `zone_publication` | `MCZonePublication.cfg` | Do zone, keys and export fit together, and what can a change of the tables move? | holds |

### What the violations show

* **`stale_loser`** (`sqliteDomainRepository.ts:185`). `setTransfer` keeps the first
  requester and losing registrar for good. After an approved transfer a second
  request is open with parties of the first: its approval hands the name to the
  first requester, not to who asked. The damage is bounded, and that is proved: the
  sponsor is always one of the two recorded parties (`OpenTransferIsBetweenItsParties`),
  and a name moves at most once in its life (`NamesMoveAtMostOnce`), from that loser to
  that requester. The record is wrong only once the requester holds the name.
* **`interrupted_rename`** (`hostService.ts:165`). The host row moves before the domains
  that name it, each in a statement of its own, and nothing repairs them at a start.
  Nothing else loses a link (`OnlyInterruptedRenamesLoseLinks`), and references to
  contacts are not affected (`ContactReferencesOutliveCrashes`).
* **`split_answer`** (`eppClient.ts:69`). A data event that completes no frame makes the
  client write again what it wrote for the frame before. If no answer is split, the
  command's frame is the command's answer (`UnsplitAnswersAreMatched`).

### What else the models show

Consequences of the code that no property forbids, or that a property names as its
exception:

* An approval in the redemption period writes RGP status `transferPeriod`
  (`sqliteDomainRepository.ts:173`); the name keeps `pendingDelete` and can be neither
  restored nor deleted nor renewed, where `domainService.ts:161` says of a name deleted
  late that it "can be restored". `LeavingNamesCanReturn` shows that only a transfer
  takes the way back.
* Approve asks neither for a pending transfer nor for the cap
  (`domainService.ts:263`), and a renewal may come between request and approval:
  approvals extend a name past ten years, where `docs/RST_EPP.md:43` lists a "10-year
  cap" for transfers. `OnlyApprovalsPassTheCap` shows that nothing else does, and by how
  much an approval can.
* A name server given with a trailing dot is stored with it, looked up without it and
  compared with it (`hostService.ts:229`): it does not keep its host from deletion or
  renaming, and a rename does not reach the domains that name it so
  (`sqliteDomainRepository.ts:223`). `HostReferencesResolve` and `RenameKeepsDelegation`
  are about the others; the model has one spelling for each name.
* A purge does not look for hosts inside the name.
* A start fails when a client status stands on a default domain or host, when the
  configured glue is refused by the host service, or when an address is configured in
  another spelling (`defaultRegistry.ts:121`); a torn nameserver file stops it earlier.
  `SeedingFailsOnlyIfBlocked` shows that there is no other reason.
* Renewing keys makes both pairs new, so the parent's DS changes with it
  (`dnssecKeyStore.ts`), where `docs/AWS_DEPLOYMENT.md:270` speaks of the ZSK only.
* `dnssec=false` in a zone request is coerced to true (`controlServer.ts:87`).
* A made-up DS has key tag 20000 plus the name's place: from place 45536 on it is no
  unsigned short, and every signed zone throws. The run reaches the last
  legal tag and the first illegal one.
* Two bulk-seeded name servers share a made-up IPv4 address from about the 32,800th
  name on (`ZoneContents!SyntheticGlueAddresses`); no property forbids it.
* Two domains with one in-zone name server put its glue into the zone twice, and the
  signature is over the list with the duplicate. `ZonesVerify` names it (`MayRepeat`).
* A torn key file makes every signed zone fail until an operator removes it; a torn
  export only lasts until the next zone or export. RDAP serves an existing export as it
  is, however old.
* A contact's `disclose` has no column. A domain row without a ROID gets a new
  random one at each read until it is saved. A repeated name among fixtures is refused by
  SQLite and overwritten in memory. All of them are outside `ImplementsMemory`.
* With `TRUST_CERT_VARIATIONS=false` and certificates not required none is asked for, so
  the filter refuses every client; with users bound to certificates
  and certificates not required, no login over TLS succeeds. Of several users with one
  certificate only the first can log in.
* The guard refuses what it can read. A list that does not parse is passed on, and it
  is TLS that fails the handshake; `CanonicalClientsAreServed` shows that it ends.
* The filter means to exempt the server's own machine (`eppServer.ts:107`), and
  `eppServer.ts:222` says that "empty client Certificate lists are allowed so health checks
  still complete". The socket it asks for its address is a TLS socket around the guard, a
  plain stream, and Node has no peer address for such a socket: `isLoopbackRemote` holds
  of nobody, and a health check without certificates is closed like any other client
  that has none. This is from Node, which is external; the model takes it so, and
  `GreetedIsCanonical` speaks of all clients.
* With `TRUST_CERT_VARIATIONS=false`, a store that has the issuer of the last canonical
  certificate turns every canonical client away: TLS shows the filter one certificate more
  than it compares. `EPP_TLS_CA` can be such a store, and so can Node's own roots when
  it is not set (`eppServer.ts:211`). `CanonicalClientsAreServed` has both cases, and
  `OnlyTheStoreTurnsThemAway` proves that no other canonical client is closed.

### Bounds

| Run | Bounds | Why they are enough |
|---|---|---|
| `domain_lifecycle` | one free and one reserved name; 3 registrars; 2 ticks a year, 1 tick of grace, at most 2 years, clock to 3, expiry to 8; queue of 1; 2 client statuses | names do not interact; a transfer has a sponsor, a requester and a third party; the grace period ends inside the horizon, and the cap can be met and exceeded |
| `registry_objects` | 2 domains, 1 host inside and 1 outside the TLD, 1 contact, 2 registrars, 1 name server per domain | links need a domain of one's own and one of another; a rename goes into, out of and across the TLD's boundary |
| `storage_modes` | 3 contact identifiers (two that differ in case), 2 hosts, 1 domain, 2 registrars; any rows of a first-version file at the start; 3 calls that change something, finds and starts between them | the repositories do not call each other, so a behaviour drives one; a row can be created in either spelling, changed and removed, and the file migrated at any point; inputs set, replace and clear each kind of column |
| `framed_session` | 1 connection, 2 registrars, 4 frames, every cut into chunks | a frame can be split, joined with its neighbours, and follow a failing or malformed one; the session can be entered, changed and left |
| `poll_sessions` | 2 connections, 5 frames, 2 messages | both connections can see a head, acknowledge it, and acknowledge it again with a second message behind |
| `tls_admission` | 7 certificates: 2 leaves, 2 issuers, the root behind the second, a cross-signed one, a stranger; 13 lists; 3 stores; records of 1 to 4 units and every cut into chunks; every setting; 4 lists of users; 2 logins | lists that are canonical, incomplete, out of order, broken, extended, unparsable and empty; a store that is empty, has the canonical chain, or leads on from it; the certificate message can be spread over records and records over chunks; a login can follow a refused one, an accepted one or a logout |
| `epp_client` | one request, answers of 3 parts | an answer can arrive whole, in two or three pieces, or joined to the next |
| `registry_control` | a reserved and a free default domain, 1 name server each, 3 commands or requests, 3 addresses (two spellings of one, one unusable) | seedings run into everything three steps can leave, cut off at every statement |
| `zone_publication` | a name before and one behind the bulk-seeded ones, 2 rows for the second, 1 host, 3 changes of the tables, 2 generations of keys, one bulk size | the second name's place, and so its made-up data, depends on the first and on the seed, which makes its key tag the last legal one or the first illegal; keys can be renewed once; zones can be compared over three changes |

`Horizon`, `MaxExpiry`, `MaxQueue`, `MaxNameservers`, `MaxFrames`, `MaxPosted`,
`MaxCommands`, `MaxCalls`, `MaxLogins`, `MaxEdition` and `MaxKeys` are the bounds; each
stands in a guard and is named a bound where it is declared. Registrars are symmetric in
`domain_lifecycle` and `registry_objects`, connections in `poll_sessions`; none of these
runs has a liveness property. Deadlock is checked except for sessions, clients and TLS
connections, which really end (a client that has sent its last frame, a settled request,
a closed connection).

### Fairness

* `EppSession!FairSpec`: weak fairness of the delivery of data and of the routing of a
  decoded frame. TCP delivers what was sent while the connection stands, and
  Node's event loop runs a ready callback. Nothing makes a client send.
* `EppClient!Spec`: weak fairness of the timer and of routing. `setTimeout` fires; the
  server answers what it has read. Delivery to the client is *not* fair: an
  answer may never come, and `RequestSettles` must hold on the timer alone.
* `TlsAdmission!Spec`: weak fairness of the arrival of what the client has sent, and of
  the event that ends a handshake with nothing left on the wire. Both end with a
  `Disconnect`, which nothing makes happen.
* All other specifications have no fairness: registrars and operators need do
  nothing, and the properties are safety properties.

## 4. The proofs

Each module `…Proofs` proves, for all values of the constants:

| Module | Theorem | Statement |
|---|---|---|
| `DomainLifecycleProofs` | `Inductive` | `Spec => []IInv` |
| | `TypeCorrect`, `StatusesStayNormalized`, `PendingTransferAlwaysAgrees`, `RedemptionAlwaysPendingDelete`, `LeavingNamesStayRestorable` | the five invariants |
| | `SponsorAlwaysGoesToRequester`, `PendingDeleteAlwaysHolds`, `ExpiryIsMonotone`, `OnlyApprovalsEverPassTheCap`, `PendingTransferIsAlwaysAnnounced` | the action properties |
| | `OpenTransferIsBetweenItsParties`, `NamesMoveAtMostOnce` | what the recorded parties of a transfer are good for, and until when |
| | `LifecycleImplementsContract` | `DomainLifecycle` refines `RegistrationContract` |
| `RegistryObjectsProofs` | `Inductive`, `TypeCorrect`, `ContactReferences`, `HostReferences` | the invariants of the three tables |
| | `NarrowGlueHolds`, `ForeignLinksHold`, `RenamesKeepDelegations` | the action properties, the last one for finitely many hosts |
| | `ContactReferencesOutliveCrashes`, `OnlyInterruptedRenamesLoseLinks` | of a process that may end at any statement (`CrashSpec`): what still holds, and what breaks the rest |
| `SqliteRepositoriesProofs` | `Inductive`, `TypeCorrect`, `ContactIdsAlwaysUnique` | the invariants of the rows |
| | `SqliteImplementsMemory` | `SqliteRepositories` refines `MemoryRepositories` |
| `EppSessionProofs` | `Inductive`, `TypeCorrect`, `AlwaysRunsAsLoggedIn`, `MalformedAlwaysRunsNothing` | who commands run for, and that nothing runs behind a malformed length |
| | `AlwaysInOrder` | frames are answered in order, however the stream is cut |
| | `NeverLosesUnread` | a message leaves its queue only after it was shown |
| | `QuietIsAnswered` | a connection with nothing left to do has answered everything |
| | `ResultIsAlwaysTheTranscript` | a dashboard request's result is what the server answered |
| | `ClientIsAnOpenClient` | `EppClient` refines `EppSession` |
| | `UnsplitAnswersAreMatched` | answers in one piece are matched to their requests |
| `TlsAdmissionProofs` | `GuardAlwaysStopsInTime` | what the guard refuses never reaches TLS whole |
| | `GreetedIsAlwaysCanonical` | who is greeted presented the canonical chain |
| | `GuardRefusesNothingElse`, `OnlyTheStoreTurnsThemAway` | what the guard closes, and exactly when a canonical client is closed |
| | `SessionAlwaysMatchesCertificate` | a session is that of its certificate's user |
| `RegistryControlProofs` | `AlwaysIInv`, `SeedingAlwaysCompletes`, `SeedingIsAlwaysIdempotent`, `SeedingFailsOnlyWhenBlocked` | what a seeding achieves, and when it fails |
| | `SeededDefaultsAlwaysStay` | what commands cannot do to a seeded domain |
| `ZonePublicationProofs` | `Inductive`, `TypeCorrect` | the invariants of a running request |
| | `ZonesAlwaysVerify` | a signed zone verifies |
| | `ZoneAndExportAlwaysAgree`, `OnlyMadeUpDataEverMoves`, `GenerateAlwaysKeepsKeys` | the other action properties |

Proved only are `TypeOK` of `SqliteRepositories` and of `ZonePublication`, and what is
stated in the theorem itself: `OpenTransferIsBetweenItsParties`,
`OnlyInterruptedRenamesLoseLinks`, `QuietIsAnswered`, `ClientIsAnOpenClient`,
`UnsplitAnswersAreMatched`, and the two on who is turned away. The other properties are
also checked by a run.

**Assumptions.** Those declared with the constants, which TLC evaluates in the runs:
reserved names are names, the status choices are settable by clients, lengths and bounds
are natural numbers, inputs are what the command handlers let through, `None` and `Torn`
are none of the values they stand in for, every setting is one that the configuration's
schema accepts. Six of them, and the hypotheses of three theorems, say more than that:

* `FrameAssumption`: a login that every check accepts names a client. The checks look a
  user up by that name (`authCommandHandler.ts:60`).
* `ListAssumption`: there is a default domain, and the domains and roles are the finite
  lists that the code spells out (`defaultRegistry.ts:14`).
* `ChainAssumption`: behind an allowed leaf, each certificate of the canonical chain is
  issued by the next, and none under its own name or one before it. The chain of the code ends with a
  cross-signed certificate (`eppServer.ts:67`), not with a self-signed root; a chain that
  ended with one would let a client send the root twice. The server's store is finite.
* `AnswerAssumption`: an answer of the server is not empty (a frame has a length field and
  XML behind it).
* `HashAssumption`, `NameserverAssumption`: every name in the zone has a hash, no two
  the same one, and there is a largest. The hash is SHA-1, 160 bits
  (`dnssecSigner.ts:265`); that it does not collide is the code's assumption, too.
* `RenamesKeepDelegations` assumes finitely many hosts; the set that a rename replaces
  is counted.
* `ClientIsAnOpenClient` assumes that the user's own request is no acknowledgement
  (`NoAcks`), as in the run: the client's server has no poll messages to acknowledge.
  `UnsplitAnswersAreMatched` assumes what it is about: answers of one unit.

**The lifecycle.** The invariants are not inductive as they stand. Normal form is lost
by an update unless a stored list is known to be a set of statuses; the agreement
of status and record is kept by an approval only if the record is well formed; an
approval writes a term that is legal only if the recorded period is. `IInv` says that
every registered name's row is a good record: well typed, normalised, in agreement
with its transfer record, in pendingDelete while in redemption, and, while in
pendingDelete, in redemption or transferred. A lemma per repository method shows that the row it
writes is good when the row it reads is; a lemma per command lifts that to the table;
`Inductive` combines them with temporal logic. The action properties follow from `IInv`
at each step: that a request announces a transfer that was not pending before, for
instance, needs the agreement of status and record, since the check reads only the
status. That the sponsor is a recorded party, which `SponsorMovesOneWay` needs, is an invariant
beside `IInv` (`SponsorIsAParty`): an approval writes the recorded requester, and no method replaces
a party once it is on record. The refinement maps a row to its holder, its recorded
claimant and whether it is leaving, and each command to one action of the contract or to
a stutter.

**The tables.** `HostReferencesResolve` speaks of the states between commands, and a
rename takes several steps. The invariant adds that a name without a row is named only by
domains which the running rename has still to rewrite, that those domains have the old
name and not the new one, and that the new name has its row. That a rename keeps the
number of name servers follows from the replaced set being a bijective image. The
invariant has a parameter, a set of links that may be broken: `IInv({})` is kept by every
command and statement, but not by the end of the process, and `IInv(Domains \X Hosts)`
is kept by both. What the second leaves open is settled step by step: only the end of
the process, in a rename, breaks a link that was not broken.

**The storage.** Three facts carry the refinement: a record whose statuses are in normal
form is read back from its row as it was written; every record that a method makes has
its statuses in normal form; and no two contacts differ in case only, so the row found by
`lower(id)` is the record under that key. Ends and starts of the process, the migration
included, are stutters: the rows mean the same records before and after.

**The decoder.** `Position` is a recursive function: where the loop is after n turns. That
such a function exists, and every induction on the turns, goes by the least number for
which it would fail. `Decoding` is what the other proofs need: a stream that arrives in two
parts gives the messages, and leaves the rest, that it does in one. From it follows that
a stream of whole frames, cut anywhere, gives their bodies in order, and behind whole
frames a decoder starts afresh (`WholeFramesBefore`).

**Sessions.** `RunsAsLoggedIn` is about answers only; the invariant adds that an
authenticated session stands for the last login that was answered. For
`MalformedRunsNothing` it adds that a malformed length stays at the front of the buffer
and nothing in the inbox. `FramesInOrder` is kept by a chunk because of `Decoding`; it
needs besides that buffer and wire together hold whole frames only (`OrderInv`).
`NoMessageLostUnread` is about the moment a message goes, while what makes it true happened
long before: the invariant keeps every message to one queue and every showing to the
registrar of that queue (`QueueInv`), and follows an acknowledgement from the client through
wire, buffer and inbox, so that what is acknowledged was shown (`AckInv`).
`QuietIsAnswered` adds `BufferInv`: between data events the buffer holds no whole frame.

**The client.** Its decoder is the server's, run over a stream that grows while it is
read. `TranscriptInv` says that the frames so far are what the units read so far decode to,
in one go; a new answer is appended behind them and, because a decoder starts afresh
behind whole frames, changes nothing that was decoded. For the refinement, `SentInv`
counts what the client writes: never more than it has read units, so that the bound of
the open client is one, and only requests and logins. `ScriptInv` is about answers of
one unit: each completes a frame, so the client has written exactly what its frames call
for and waits; the server's answers are then those of the script, in its order.

**The guard.** Its two buffers are two decoders, the second one fed by the first.
`GuardInv` says of the units handed over so far that the buffers hold what decoding them
in one go would leave, and that they hold a refused list exactly if the connection was
rejected. For `GreetedIsCanonical`, a client that got through the handshake has sent its
whole flight, so the guard has seen its list and not refused it. TLS then shows the filter
a walk from issuer to issuer, bounded by the number of certificates there are. An accepted
chain has no name twice, so by counting the walk ends before its bound does, and a list
without a break in its links is the beginning of the walk. The converse, that nobody
else is turned away, needs that a flight holds one list and no other message that could
be taken for one (`FlightHoldsOneList`), that a connection closed in the handshake was
closed by guard, filter or TLS (`ClosedInv`), and that a list which is the canonical
chain is the whole walk if the store does not lead on from it (`ListIsItsChain`), and
not the whole if it does (`ListLedOn`). `SessionMatchesCertificate`
needs that nobody is logged in before the greeting gives the session its certificate, and
that the first user found is one who has the identifier or the certificate searched for.

**Seeding.** No statement of a seeding is enough by itself, and what it relies on may have
been done by a process that is gone. The invariant is about the statements that are left:
whatever one of them relies on is true or comes before it, and whatever is not among them
is true already. A statement keeps it, because none undoes what another has done; the end
of the process and a new start put all statements back. With none left, every default
domain is complete. A statement throws only where a check of the services refuses it, and
all it could be refused for but the listed reasons is excluded by what came before.

**Publication.** The tables do not change while a request runs, so an export that is
complete at the last stage is of the tables the zone is made from. From there it is
a matter of contents: each glue and DS of the export is among the zone's records. That a
signed zone verifies is a matter of contents, too. Its NSEC3 records lead from each hash
to the next larger one and from the largest to the smallest; a hash that is no owner's
lies between two of them, or beyond both ends, and nowhere else. Records of one owner and
type come from one place in the code each, so that only lists of glue and of delegations can
hold one twice. What a delegation holds comes from its row, from host objects or from its
name's place among the registered ones, and only the last depends on other rows.

**Only model-checked.** Liveness, which the prover does not cover: `EveryFrameAnswered`,
`RequestSettles`, `CanonicalClientsAreServed`. Of the first and the last the safety half is
proved, that nothing stops short of the answer or ends in the wrong place:
`QuietIsAnswered` and `OnlyTheStoreTurnsThemAway`. That the remaining steps are taken is
the fairness of the specifications.

## 5. What is not modelled

* Parsing and rendering of XML, RDAP, WHOIS, CSV and HTML, and the dashboard page: text
  in, text out, with no state.
* Label syntax, IDN, validation of postal data, address ranges: pure functions of one
  value. Usable addresses are a set.
* Cryptography: hashes, signatures and digests are what they are made from. TLS is
  external: a handshake it was given whole completes or fails, and the chain it shows the
  server is an issuer by issuer walk through the client's list, then through the server's
  own store. A name stands for the issuer relation.
* The zone's serial, one value an hour: two zones within the hour carry the same one, and a
  property could only restate that.
* The command log, which nothing reads but the dashboard.
* The poll queues over a restart, which `docs/ICANN_COMPLIANCE.md:203` declares lost; the
  in-memory storage mode over a restart, where every table is lost.
* Rows of hosts without a creator, from before there was the column: setting a sponsor
  writes no creator, so such a host's creator changes with its sponsor.
* Inputs that carry two values for one key. `reset` of contacts and hosts, which nothing
  in the program calls. The four sample contacts of a seeding, which nothing refers to.
* Configuration beyond the settings of the EPP listeners, and the scripts around the
  program.

## 6. The plan

Done, in this order: `ObjectStatusPolicy`, `DomainLifecycle`, `RegistrationContract` and
their proofs; `RegistryObjects`; `EppFraming`, `EppSession`, `EppClient`;
`RegistryControl`; `ZoneContents` and `ZonePublication`; `StoredRecords`,
`MemoryRepositories` and `SqliteRepositories`; `TlsAdmission`; the proofs about
`RegistryObjects`, `ZonePublication`, `SqliteRepositories`, `EppFraming`, `EppSession`,
`TlsAdmission` and `RegistryControl`.

What could follow: name servers in two spellings, with and without the trailing dot, in
`RegistryObjects`, with links and resolution told apart; RDAP and WHOIS lookups between the statements of a rename or a
seeding, where a reader sees tables that are halfway.
