----------------------------- MODULE TlsAdmission -----------------------------
(***************************************************************************)
(* How a connection becomes an EPP session of a registrar: the guard that  *)
(* reads the client's certificate off the wire before TLS does             *)
(* (TRUST_CERT_VARIATIONS=false), the filter after the handshake, and the  *)
(* login that binds the session to the certificate.                        *)
(*                                                                         *)
(* TLS itself is external: it completes a handshake it was given whole,    *)
(* and shows the server the certificates that lead from the leaf to an     *)
(* issuer, looking first in what the client sent and then in the server's  *)
(* own store.  A record and a handshake message are both framed by a       *)
(* length, so both are the frames of EppFraming.                           *)
(***************************************************************************)
EXTENDS EppFraming, SequencesExt

CONSTANTS
  Certs,            \* certificates
  Subject, Issuer,  \* their names, functions on Certs
  AllowedLeaves,    \* the clients' certificates known to the guard
  CanonicalChain,   \* the issuers that belong behind them, in order
  Clids,            \* client identifiers
  Passwords,
  None,
  Settings,         \* configurations: a set of Setting records
  Presentations,    \* certificate lists clients send, None: does not parse
  FragmentSizes,    \* units of handshake data a client puts in a record
  MaxLogins         \* bound: login and logout commands on the connection

User == [clid : Clids, password : Passwords, cert : Certs \cup {None}]

IsSetting(c) ==
  /\ c \in [tls : BOOLEAN, exitOnError : BOOLEAN, trustCertVariations : BOOLEAN,
            requireCert : BOOLEAN, store : SUBSET Certs, users : Seq(User)]
  /\ IsFiniteSet(c.store)
  /\ ~c.tls => ~c.exitOnError
  /\ c.users # <<>>

ASSUME SettingAssumption == \A c \in Settings : IsSetting(c)

ASSUME CertificateAssumption ==
  /\ Certs = DOMAIN Subject /\ Certs = DOMAIN Issuer
  /\ None \notin Certs \cup Clids \cup User /\ None # <<>>
  /\ AllowedLeaves \subseteq Certs
  /\ CanonicalChain \in Seq(Certs)
  /\ Presentations \subseteq Seq(Certs) \cup {None}

\* The canonical chain ends with a cross-signed certificate: behind an allowed
\* leaf each is issued by the next one, and none under its own name or that of
\* one before it.
ASSUME ChainAssumption ==
  \A leaf \in AllowedLeaves :
    LET chain == <<leaf>> \o CanonicalChain IN
    /\ \A i \in DOMAIN chain : \A j \in 1..i : Issuer[chain[i]] # Subject[chain[j]]
    /\ \A i \in 1..(Len(chain) - 1) : Issuer[chain[i]] = Subject[chain[i + 1]]

\* A record is not empty.
ASSUME FragmentAssumption == FragmentSizes \subseteq Nat \ {0}

VARIABLES
  settings,         \* the configuration the server was started with
  presented,        \* the certificate list the client sends
  flight,           \* all the units of the client's handshake
  wire,             \* those not yet received
  clientBuffer,     \* units kept by the guard: an incomplete record
  handshakeBuffer,  \* handshake data kept by the guard: an incomplete message
  pushed,           \* units handed to TLS
  stage,            \* "handshake", "greeted", "closed" by the server, or "gone"
  rejected,         \* the guard refused the connection
  session,          \* the session object
  logins            \* commands tried

guardVars == <<wire, clientBuffer, handshakeBuffer, pushed, rejected>>
given == <<settings, presented, flight>>
vars == <<given, guardVars, stage, session, logins>>

\* The production listener, asked not to accept variations.
RejectsVariations(c) == c.tls /\ c.exitOnError /\ ~c.trustCertVariations

-------------------------------------------------------------------------------
(* The client's handshake: hello, certificates if asked for, key exchange, *)
(* a change of cipher, and a sealed message whose length nobody can read.  *)

Message(kind, certs) == [kind |-> kind, certs |-> certs]

Record(type, payload) == [type |-> type, payload |-> payload]

Sealed == Encode(Message("sealed", None), 0)

Fragments(units, n) ==
  [i \in 1..((Len(units) + n - 1) \div n) |->
     SubSeq(units, (i - 1) * n + 1, IF i * n < Len(units) THEN i * n ELSE Len(units))]

SecondFlight(certs, asked) ==
  (IF asked THEN Encode(Message("certificate", certs), 2) ELSE <<>>)
    \o Encode(Message("keyExchange", None), 2)

Flight(certs, asked, n) ==
  LET fragments == Fragments(SecondFlight(certs, asked), n)
      records ==
        <<Encode(Record("handshake", Encode(Message("hello", None), 2)), 2)>>
          \o [i \in 1..Len(fragments) |-> Encode(Record("handshake", fragments[i]), 2)]
          \o <<Encode(Record("changeCipherSpec", <<>>), 1), Encode(Record("handshake", Sealed), 1)>>
  IN  FlattenSeq(records)

-------------------------------------------------------------------------------
(* What the guard thinks of a certificate list.                            *)

LeafIndexes(certs) == {i \in DOMAIN certs : certs[i] \in AllowedLeaves}

HasLinkBreak(certs) ==
  \E i \in 1..(Len(certs) - 1) : Issuer[certs[i]] # Subject[certs[i + 1]]

\* Mutant: the order of the list is not looked at.
RefusedLeaf(certs) == certs # None /\ certs # <<>> /\ LeafIndexes(certs) = {}

\* Mutant: a list must end with a certificate that names itself.
RefusedOpenEnd(certs) ==
  /\ certs # None
  /\ certs # <<>>
  /\ \/ 1 \notin LeafIndexes(certs)
     \/ HasLinkBreak(certs)
     \/ Issuer[Last(certs)] # Subject[Last(certs)]

Refused(certs) ==
  /\ certs # None
  /\ certs # <<>>
  /\ \/ 1 \notin LeafIndexes(certs)
     \/ HasLinkBreak(certs)

IsRefusedMessage(m) == m.kind = "certificate" /\ Refused(m.certs)

HandshakeData(records) ==
  FlattenSeq([i \in 1..Len(records) |->
                IF records[i].type = "handshake" THEN records[i].payload ELSE <<>>])

HasRefused(messages) == \E i \in DOMAIN messages : IsRefusedMessage(messages[i])

-------------------------------------------------------------------------------
(* The guard's data event.  It looks at everything a chunk completes and   *)
(* hands the chunk on only if nothing in it is refused.                    *)

Received(k) == clientBuffer \o SubSeq(wire, 1, k)

\* Mutant: handshake data of an incomplete message is not kept.
AssembledFresh(k) == HandshakeData(Messages(Received(k)))

Assembled(k) == handshakeBuffer \o HandshakeData(Messages(Received(k)))

TakeChunk(k) ==
  /\ stage = "handshake"
  /\ ~rejected
  /\ wire' = SubSeq(wire, k + 1, Len(wire))
  /\ UNCHANGED <<given, session, logins>>

Deny(k) ==
  /\ TakeChunk(k)
  /\ HasRefused(Messages(Assembled(k)))
  /\ rejected' = TRUE
  /\ stage' = "closed"
  /\ UNCHANGED <<clientBuffer, handshakeBuffer, pushed>>

Forward(k) ==
  /\ TakeChunk(k)
  /\ ~HasRefused(Messages(Assembled(k)))
  /\ clientBuffer' = Rest(Received(k))
  /\ handshakeBuffer' = Rest(Assembled(k))
  /\ pushed' = pushed \o SubSeq(wire, 1, k)
  /\ UNCHANGED <<stage, rejected>>

-------------------------------------------------------------------------------
(* The handshake ends and onConnection takes the connection over.          *)

\* The next certificate Node shows: from the client's list, else the store.
IssuersOf(chain, certs) ==
  {c \in certs \ Range(chain) :
     Subject[c] = Issuer[Last(chain)] /\ Subject[Last(chain)] # Issuer[Last(chain)]}

Extended(chain, certs, store) ==
  LET sent == IssuersOf(chain, Range(certs))
      kept == IssuersOf(chain, store)
      first == CHOOSE i \in DOMAIN certs :
                 certs[i] \in sent /\ \A j \in 1..(i - 1) : certs[j] \notin sent
  IN  IF sent # {} THEN Append(chain, certs[first])
      ELSE IF kept # {} THEN Append(chain, CHOOSE c \in kept : TRUE)
      ELSE chain

\* collectPeerCertificateChain: leaf first, issuer by issuer.
PeerChain(certs, store) ==
  LET walk[n \in 1..Cardinality(Range(certs) \cup store)] ==
        IF n = 1 THEN <<certs[1]>> ELSE Extended(walk[n - 1], certs, store)
  IN  IF certs = <<>> THEN <<>> ELSE walk[Cardinality(Range(certs) \cup store)]

\* temporaryDebugCertDecision.
AcceptsChain(chain) ==
  /\ chain # <<>>
  /\ chain[1] \in AllowedLeaves
  /\ Tail(chain) = CanonicalChain

Exposed ==
  IF settings.tls /\ settings.requireCert THEN PeerChain(presented, settings.store) ELSE <<>>

\* isLoopbackRemote exempts nobody: the socket it asks is a TLSSocket around the
\* guard, and Node knows no peer address of a TLS socket around a plain stream.
IsFiltered == RejectsVariations(settings) /\ ~AcceptsChain(Exposed)

\* TLS gives up on a certificate message it cannot parse.
FailHandshake ==
  /\ stage = "handshake"
  /\ wire = <<>>
  /\ presented = None
  /\ stage' = "closed"
  /\ UNCHANGED <<given, guardVars, session, logins>>

Connected == stage = "handshake" /\ wire = <<>> /\ presented # None

TurnAway ==
  /\ Connected
  /\ IsFiltered
  /\ stage' = "closed"
  /\ UNCHANGED <<given, guardVars, session, logins>>

Greet ==
  /\ Connected
  /\ ~IsFiltered
  /\ stage' = "greeted"
  /\ session' = [session EXCEPT !.cert = IF Exposed = <<>> THEN None ELSE Exposed[1]]
  /\ UNCHANGED <<given, guardVars, logins>>

\* Either end of the socket is gone.
Disconnect ==
  /\ stage \in {"handshake", "greeted"}
  /\ stage' = "gone"
  /\ UNCHANGED <<given, guardVars, session, logins>>

-------------------------------------------------------------------------------
(* Login and logout.                                                       *)

\* Array.find
FirstUser(found) ==
  IF found = {} THEN None
  ELSE settings.users[CHOOSE i \in found : \A j \in found : i <= j]

UserOf(clid) == FirstUser({i \in DOMAIN settings.users : settings.users[i].clid = clid})

OwnerOf(cert) == FirstUser({i \in DOMAIN settings.users : settings.users[i].cert = cert})

AnyMappedCert == \E i \in DOMAIN settings.users : settings.users[i].cert # None

ClientCertificateAccepted(user) ==
  \/ ~settings.tls
  \/ ~settings.requireCert /\ ~AnyMappedCert
  \/ /\ session.cert # None
     /\ OwnerOf(session.cert) # None => OwnerOf(session.cert).clid = user.clid
     /\ user.cert \in {None, session.cert}
     /\ settings.requireCert => user.cert # None \/ OwnerOf(session.cert) # None

CountLogin ==
  /\ stage = "greeted"
  /\ logins < MaxLogins
  /\ logins' = logins + 1
  /\ UNCHANGED <<given, guardVars, stage>>

\* Every check of the login, those of version, language and services first.
IsAccepted(clid, password, supported) ==
  /\ supported
  /\ UserOf(clid) # None
  /\ UserOf(clid).password = password
  /\ ClientCertificateAccepted(UserOf(clid))

\* Mutant: the session is named before the certificate is checked.
LoginNamed(clid, password, supported) ==
  /\ CountLogin
  /\ supported
  /\ UserOf(clid) # None
  /\ UserOf(clid).password = password
  /\ session' = [session EXCEPT !.clid = clid,
                   !.authenticated = @ \/ ClientCertificateAccepted(UserOf(clid))]

Login(clid, password, supported) ==
  /\ CountLogin
  /\ IsAccepted(clid, password, supported)
  /\ session' = [session EXCEPT !.authenticated = TRUE, !.clid = clid]

\* A refused login leaves the session as it was, logged in or not.
RefuseLogin(clid, password, supported) ==
  /\ CountLogin
  /\ ~IsAccepted(clid, password, supported)
  /\ UNCHANGED session

Logout ==
  /\ CountLogin
  /\ session' = [session EXCEPT !.authenticated = FALSE]

-------------------------------------------------------------------------------
Init ==
  /\ settings \in Settings
  /\ presented \in IF settings.tls /\ settings.requireCert THEN Presentations ELSE {<<>>}
  /\ \E n \in FragmentSizes :
       flight = IF RejectsVariations(settings)
                THEN Flight(presented, settings.requireCert, n) ELSE <<>>
  /\ wire = flight
  /\ clientBuffer = <<>> /\ handshakeBuffer = <<>> /\ pushed = <<>>
  /\ stage = "handshake"
  /\ rejected = FALSE
  /\ session = [authenticated |-> FALSE, clid |-> None, cert |-> None]
  /\ logins = 0

Chunk == \E k \in 1..Len(wire) : Deny(k) \/ Forward(k)

Handover == FailHandshake \/ TurnAway \/ Greet

Next ==
  \/ Chunk
  \/ Handover
  \/ Disconnect
  \/ \E clid \in Clids, password \in Passwords, supported \in BOOLEAN :
       Login(clid, password, supported) \/ RefuseLogin(clid, password, supported)
  \/ Logout

\* TCP delivers what was sent, and Node runs the event of an ended handshake.
\* (The steps that take from the wire are those of Chunk, those that end a
\* handshake with nothing on the wire those of Handover.)
Arrives == stage = "handshake" /\ \E k \in 1..Len(wire) : wire' = SubSeq(wire, k + 1, Len(wire))

Ends == stage = "handshake" /\ wire = <<>> /\ stage' \in {"greeted", "closed"}

Fairness == WF_wire(Arrives) /\ WF_stage(Ends)

Spec == Init /\ [][Next]_vars /\ Fairness

-------------------------------------------------------------------------------
(* Properties.                                                             *)

Delivered == SubSeq(flight, 1, Len(flight) - Len(wire))

\* Every record and every message complete in the units, read in one go.
CompleteMessages(units) == Messages(HandshakeData(Messages(units)))

(* However the client cuts its messages into records, and TCP the records  *)
(* into chunks: the guard closes the connection exactly when a certificate *)
(* list it refuses has arrived whole, and TLS is never given all of it.    *)
GuardStopsInTime ==
  /\ rejected <=> HasRefused(CompleteMessages(Delivered))
  /\ ~HasRefused(CompleteMessages(pushed))

(* With variations refused, whoever is greeted, also on the server's own   *)
(* machine, sent an allowed leaf and behind it the canonical issuers in    *)
(* their order, and nothing else; only what the server's own store         *)
(* supplies may be missing.                                                *)
GreetedIsCanonical ==
  stage = "greeted" /\ RejectsVariations(settings) =>
    \E leaf \in AllowedLeaves :
      /\ presented # <<>>
      /\ IsPrefix(presented, <<leaf>> \o CanonicalChain)
      /\ Range(CanonicalChain) \subseteq Range(presented) \cup settings.store

(* Whatever logins were tried before on the connection, refused or not: a  *)
(* session logged in over TLS is that of the user its certificate belongs  *)
(* to; without such a user it is one that registered no certificate, and   *)
(* certificates are then not required.                                     *)
SessionMatchesCertificate ==
  session.authenticated /\ settings.tls /\ (settings.requireCert \/ AnyMappedCert) =>
    /\ session.cert # None
    /\ \/ /\ OwnerOf(session.cert) # None
          /\ OwnerOf(session.cert).clid = session.clid
       \/ /\ OwnerOf(session.cert) = None
          /\ UserOf(session.clid).cert = None
          /\ ~settings.requireCert

IsCanonicalClient ==
  /\ settings.requireCert /\ presented \notin {None, <<>>}
  /\ presented[1] \in AllowedLeaves /\ Tail(presented) = CanonicalChain

\* The server's store has the issuer of the last certificate of the client, with
\* which TLS shows the filter one certificate more than was sent.
StoreLeadsOn ==
  /\ RejectsVariations(settings)
  /\ \E c \in settings.store : Subject[c] = Issuer[Last(presented)]

(* However it is cut, every handshake ends.  A client with the canonical   *)
(* certificates is in the end greeted unless it hangs up, if the server's  *)
(* store ends where they do; with a store that leads on from them, a       *)
(* server that refuses variations greets none of these clients.            *)
CanonicalClientsAreServed ==
  /\ stage = "handshake" ~> stage # "handshake"
  /\ stage = "handshake" /\ IsCanonicalClient /\ ~StoreLeadsOn ~> stage \in {"greeted", "gone"}
  /\ [](IsCanonicalClient /\ StoreLeadsOn => stage # "greeted")
===============================================================================
