-------------------------- MODULE TlsAdmissionProofs --------------------------
(***************************************************************************)
(* Proofs about TlsAdmission for every value of its constants.             *)
(*                                                                         *)
(* A session logged in over TLS is that of the user its certificate        *)
(* belongs to.  The property is kept by a refused login and by a logout as *)
(* it is, but not by the greeting, which gives the session its             *)
(* certificate.  IInv adds that no session is logged in before its         *)
(* greeting, and that the configuration of the connection is one of those  *)
(* allowed, whose list of users decides who a certificate belongs to.      *)
(*                                                                         *)
(* The guard stops a refused list in time.  It reads chunks with one       *)
(* decoder, for records, whose output feeds another, for messages;         *)
(* GuardInv says what the two hold of the units handed over so far, and    *)
(* TwoDecoders, from Decoding of EppFramingProofs, that they read in       *)
(* parts what they would read in one go.                                   *)
(*                                                                         *)
(* Who is greeted presented the canonical chain.  The guard has then seen  *)
(* the client's whole flight (FlightSeen) and not refused its list; TLS    *)
(* shows the filter a walk from issuer to issuer.  No name recurs in a     *)
(* chain that the filter accepts, so the walk is at its end within its     *)
(* bound, and a list that was not refused is the beginning of the walk     *)
(* (ChainIsCanonical).                                                     *)
(*                                                                         *)
(* Who is turned away is the converse.  A flight holds one list, so what   *)
(* the guard refuses is that list (FlightHoldsOneList); and the walk goes  *)
(* along a list that is the canonical chain (ListIsWalked), to end with it *)
(* (ListIsItsChain) or lead on from it into the store (ListLedOn).         *)
(***************************************************************************)
EXTENDS TlsAdmission, EppFramingProofs, FiniteSetTheorems

SessionRecord ==
  /\ session = [authenticated |-> session.authenticated, clid |-> session.clid,
                cert |-> session.cert]
  /\ session.authenticated \in BOOLEAN

IInv ==
  /\ settings \in Settings
  /\ SessionRecord
  /\ stage = "handshake" => ~session.authenticated
  /\ SessionMatchesCertificate

-------------------------------------------------------------------------------
(* The first of the users that a search finds.                             *)

LEMMA UsersOfSetting ==
  ASSUME settings \in Settings
  PROVE  /\ settings.users \in Seq(User)
         /\ settings.tls \in BOOLEAN
         /\ settings.requireCert \in BOOLEAN
<1>1. IsSetting(settings)
  BY SettingAssumption
<1>2. QED
  BY <1>1 DEF IsSetting

LEMMA FirstIsFound ==
  ASSUME settings \in Settings,
         NEW found \in SUBSET (DOMAIN settings.users)
  PROVE  /\ found = {} => FirstUser(found) = None
         /\ found # {} => /\ \E i \in found : FirstUser(found) = settings.users[i]
                          /\ FirstUser(found) \in User
                          /\ FirstUser(found) # None
<1>1. DOMAIN settings.users = 1..Len(settings.users) /\ Len(settings.users) \in Nat
  BY UsersOfSetting
<1>2. \A i \in DOMAIN settings.users : settings.users[i] \in User
  BY UsersOfSetting
<1>3. CASE found # {}
  <2>1. found \in SUBSET Nat
    BY <1>1
  <2>2. \E i \in found : \A j \in found : i =< j
    BY <2>1, <1>3, Least
  <2> DEFINE first == CHOOSE i \in found : \A j \in found : i =< j
  <2>3. first \in found
    BY <2>2
  <2>4. FirstUser(found) = settings.users[first]
    BY <1>3 DEF FirstUser
  <2> HIDE DEF first
  <2>5. settings.users[first] \in User
    BY <2>3, <1>2
  <2>6. QED
    BY <1>3, <2>3, <2>4, <2>5, CertificateAssumption
<1>4. CASE found = {}
  BY <1>4 DEF FirstUser
<1>5. QED
  BY <1>3, <1>4

\* A search for a client identifier gives a user with it, or none.
LEMMA UserHasClid ==
  ASSUME settings \in Settings, NEW clid, UserOf(clid) # None
  PROVE  UserOf(clid).clid = clid /\ \E i \in DOMAIN settings.users : UserOf(clid) = settings.users[i]
<1> DEFINE found == {i \in DOMAIN settings.users : settings.users[i].clid = clid}
<1>1. found \in SUBSET (DOMAIN settings.users)
  OBVIOUS
<1>2. UserOf(clid) = FirstUser(found)
  BY DEF UserOf
<1>3. \A i \in found : i \in DOMAIN settings.users /\ settings.users[i].clid = clid
  OBVIOUS
<1> HIDE DEF found
<1>4. \E i \in found : FirstUser(found) = settings.users[i]
  BY <1>1, <1>2, FirstIsFound
<1>5. QED
  BY <1>2, <1>3, <1>4

\* A certificate that a user registered has an owner.
LEMMA RegisteredHasOwner ==
  ASSUME settings \in Settings, NEW i \in DOMAIN settings.users
  PROVE  OwnerOf(settings.users[i].cert) # None
<1> DEFINE cert == settings.users[i].cert
           found == {j \in DOMAIN settings.users : settings.users[j].cert = cert}
<1>1. found \in SUBSET (DOMAIN settings.users) /\ i \in found
  OBVIOUS
<1>2. OwnerOf(cert) = FirstUser(found)
  BY DEF OwnerOf
<1> HIDE DEF cert, found
<1>3. FirstUser(found) # None
  BY <1>1, FirstIsFound
<1>4. OwnerOf(cert) # None
  BY <1>2, <1>3
<1>5. QED
  BY <1>4 DEF cert

-------------------------------------------------------------------------------
(* The steps.                                                              *)

LEMMA LoginMatches ==
  ASSUME IInv, NEW clid \in Clids, NEW password, NEW supported,
         Login(clid, password, supported)
  PROVE  IInv'
<1> DEFINE user == UserOf(clid)
<1>1. /\ stage = "greeted" /\ stage' = "greeted"
      /\ user # None
      /\ ClientCertificateAccepted(user)
      /\ session' = [session EXCEPT !.authenticated = TRUE, !.clid = clid]
      /\ settings' = settings
  BY DEF Login, CountLogin, IsAccepted, given
<1>2. settings \in Settings /\ SessionRecord
  BY DEF IInv
<1>3. session' = [authenticated |-> TRUE, clid |-> clid, cert |-> session.cert]
  BY <1>1, <1>2 DEF SessionRecord
<1>4. user.clid = clid /\ \E i \in DOMAIN settings.users : user = settings.users[i]
  BY <1>1, <1>2, UserHasClid
<1>5. ASSUME settings.tls, settings.requireCert \/ AnyMappedCert
      PROVE  /\ session.cert # None
             /\ \/ OwnerOf(session.cert) # None /\ OwnerOf(session.cert).clid = clid
                \/ OwnerOf(session.cert) = None /\ user.cert = None /\ ~settings.requireCert
  <2>1. /\ session.cert # None
        /\ OwnerOf(session.cert) # None => OwnerOf(session.cert).clid = user.clid
        /\ user.cert \in {None, session.cert}
        /\ settings.requireCert => user.cert # None \/ OwnerOf(session.cert) # None
    BY <1>1, <1>5 DEF ClientCertificateAccepted
  <2>2. user.cert = session.cert => OwnerOf(session.cert) # None
    BY <1>2, <1>4, RegisteredHasOwner
  <2> HIDE DEF user
  <2>3. QED
    BY <1>4, <2>1, <2>2
<1>6. /\ session'.authenticated = TRUE /\ session'.clid = clid
      /\ session'.cert = session.cert
  BY <1>3
<1>7. SessionMatchesCertificate'
  <2>1. AnyMappedCert' = AnyMappedCert
    BY <1>1 DEF AnyMappedCert
  <2>2. OwnerOf(session.cert)' = OwnerOf(session.cert)
    BY <1>1, <1>6 DEF OwnerOf, FirstUser
  <2>3. UserOf(session.clid)' = user
    BY <1>1, <1>6 DEF UserOf, FirstUser
  <2> HIDE DEF user
  <2>4. QED
    BY <1>1, <1>5, <1>6, <2>1, <2>2, <2>3 DEF SessionMatchesCertificate
<1>8. SessionRecord'
  BY <1>3 DEF SessionRecord
<1>9. QED
  BY <1>1, <1>2, <1>7, <1>8 DEF IInv

\* What leaves the settings and the session alone keeps the invariant.
LEMMA QuietSteps ==
  ASSUME IInv, UNCHANGED <<settings, session>>,
         stage' = "handshake" => stage = "handshake"
  PROVE  IInv'
BY DEF IInv, SessionRecord, SessionMatchesCertificate, AnyMappedCert, OwnerOf, UserOf, FirstUser

\* A session that is not logged in matches whatever certificate it has.
LEMMA ClosedSession ==
  ASSUME IInv, UNCHANGED settings, SessionRecord', ~session'.authenticated
  PROVE  IInv'
BY DEF IInv, SessionMatchesCertificate

LEMMA NextMatches == IInv /\ [Next]_vars => IInv'
<1> SUFFICES ASSUME IInv, [Next]_vars PROVE IInv'
  OBVIOUS
<1>1. ASSUME NEW k \in 1..Len(wire), Deny(k) \/ Forward(k)
      PROVE  IInv'
  <2>1. UNCHANGED <<settings, session>> /\ stage = "handshake"
    BY <1>1 DEF Deny, Forward, TakeChunk, given
  <2>2. QED
    BY <2>1, QuietSteps
<1>2. CASE FailHandshake \/ TurnAway
  BY <1>2, QuietSteps DEF FailHandshake, TurnAway, given
<1>3. CASE Greet
  <2>1. session.authenticated = FALSE /\ UNCHANGED settings
    BY <1>3 DEF Greet, Connected, IInv, SessionRecord, given
  <2> DEFINE cert == IF Exposed = <<>> THEN None ELSE Exposed[1]
  <2>2. session' = [session EXCEPT !.cert = cert]
    BY <1>3 DEF Greet
  <2> HIDE DEF cert
  <2>3. session' = [authenticated |-> FALSE, clid |-> session.clid, cert |-> cert]
    BY <2>1, <2>2 DEF IInv, SessionRecord
  <2>4. SessionRecord' /\ ~session'.authenticated
    BY <2>1, <2>3 DEF SessionRecord
  <2>5. QED
    BY <2>1, <2>4, ClosedSession
<1>4. CASE Disconnect
  BY <1>4, QuietSteps DEF Disconnect, given
<1>5. ASSUME NEW clid \in Clids, NEW password \in Passwords, NEW supported \in BOOLEAN,
             Login(clid, password, supported)
      PROVE  IInv'
  BY <1>5, LoginMatches
<1>6. ASSUME NEW clid \in Clids, NEW password \in Passwords, NEW supported \in BOOLEAN,
             RefuseLogin(clid, password, supported)
      PROVE  IInv'
  BY <1>6, QuietSteps DEF RefuseLogin, CountLogin, given
<1>7. CASE Logout
  <2>1. session' = [authenticated |-> FALSE, clid |-> session.clid, cert |-> session.cert]
    BY <1>7 DEF Logout, IInv, SessionRecord
  <2>2. SessionRecord' /\ ~session'.authenticated
    BY <2>1 DEF SessionRecord
  <2>3. UNCHANGED settings
    BY <1>7 DEF Logout, CountLogin, given
  <2>4. QED
    BY <2>2, <2>3, ClosedSession
<1>8. CASE UNCHANGED vars
  BY <1>8, QuietSteps DEF vars, given
<1>9. QED
  BY <1>1, <1>2, <1>3, <1>4, <1>5, <1>6, <1>7, <1>8 DEF Next, Chunk, Handover

\* On every connection, whatever certificate lists are sent, however they are cut
\* and whatever logins are tried: a session is logged in as whom its certificate
\* belongs to, for any list of users, also one in which users share certificates.
THEOREM SessionAlwaysMatchesCertificate == Spec => []SessionMatchesCertificate
<1>1. Init => IInv
  BY DEF Init, IInv, SessionRecord, SessionMatchesCertificate
<1>2. IInv => SessionMatchesCertificate
  BY DEF IInv
<1>3. QED
  BY <1>1, <1>2, NextMatches, PTL DEF Spec
-------------------------------------------------------------------------------
(* The guard: what it has handed on, and what it keeps of that.            *)

MessageBodies ==
  [kind : {"hello", "certificate", "keyExchange", "sealed"},
   certs : Presentations \cup {<<>>, None}]

RecordBodies ==
  [type : {"handshake", "changeCipherSpec"}, payload : Stream(MessageBodies)]

Payload(r) == IF r.type = "handshake" THEN r.payload ELSE <<>>

Payloads(x) == [i \in 1..Len(x) |-> Payload(x[i])]

LEMMA PayloadsFacts ==
  ASSUME NEW x \in Seq(RecordBodies)
  PROVE  /\ Payloads(x) \in Seq(Stream(MessageBodies)) /\ Len(Payloads(x)) = Len(x)
         /\ \A i \in 1..Len(x) : Payloads(x)[i] = Payload(x[i])
         /\ HandshakeData(x) = FlattenSeq(Payloads(x))
<1>1. Len(x) \in Nat /\ \A i \in 1..Len(x) : x[i] \in RecordBodies
  BY ElementsOf
<1>2. <<>> \in Stream(MessageBodies)
  BY DEF Stream
<1>3. \A i \in 1..Len(x) : Payload(x[i]) \in Stream(MessageBodies)
  BY <1>1, <1>2 DEF Payload, RecordBodies
<1>4. Payloads(x) \in [1..Len(x) -> Stream(MessageBodies)]
  BY <1>3 DEF Payloads
<1>5. Payloads(x) \in Seq(Stream(MessageBodies)) /\ Len(Payloads(x)) = Len(x)
  BY <1>1, <1>4, FunctionIsSequence
<1>6. \A i \in 1..Len(x) : Payloads(x)[i] = Payload(x[i])
  BY DEF Payloads
<1>7. HandshakeData(x) = FlattenSeq(Payloads(x))
  BY DEF HandshakeData, Payloads, Payload
<1>8. QED
  BY <1>5, <1>6, <1>7

\* The handshake data of records is that of the first ones and that of the others.
LEMMA HandshakeDataConcat ==
  ASSUME NEW x \in Seq(RecordBodies), NEW y \in Seq(RecordBodies)
  PROVE  /\ HandshakeData(x) \in Stream(MessageBodies)
         /\ HandshakeData(x \o y) = HandshakeData(x) \o HandshakeData(y)
<1> DEFINE z == x \o y
           U == [body : MessageBodies, size : Nat]
<1>1. /\ z \in Seq(RecordBodies) /\ Len(z) = Len(x) + Len(y)
      /\ Len(x) \in Nat /\ Len(y) \in Nat
      /\ \A i \in 1..Len(x) : z[i] = x[i]
      /\ \A i \in 1..Len(y) : z[Len(x) + i] = y[i]
  BY ConcatFacts
<1> HIDE DEF z
<1> DEFINE px == Payloads(x)
           py == Payloads(y)
           pz == Payloads(z)
<1>2. /\ px \in Seq(Seq(U)) /\ Len(px) = Len(x) /\ HandshakeData(x) = FlattenSeq(px)
      /\ \A i \in 1..Len(x) : px[i] = Payload(x[i])
  BY PayloadsFacts DEF Stream
<1>3. /\ py \in Seq(Seq(U)) /\ Len(py) = Len(y) /\ HandshakeData(y) = FlattenSeq(py)
      /\ \A i \in 1..Len(y) : py[i] = Payload(y[i])
  BY PayloadsFacts DEF Stream
<1>4. /\ pz \in Seq(Seq(U)) /\ Len(pz) = Len(z) /\ HandshakeData(z) = FlattenSeq(pz)
      /\ \A i \in 1..Len(z) : pz[i] = Payload(z[i])
  BY <1>1, PayloadsFacts DEF Stream
<1> HIDE DEF px, py, pz, U
<1> DEFINE w == px \o py
<1>5. /\ w \in Seq(Seq(U)) /\ Len(w) = Len(px) + Len(py)
      /\ \A i \in 1..Len(px) : w[i] = px[i]
      /\ \A i \in 1..Len(py) : w[Len(px) + i] = py[i]
  <2> DEFINE V == Seq(U)
  <2>1. px \in Seq(V) /\ py \in Seq(V)
    BY <1>2, <1>3
  <2> HIDE DEF V
  <2>2. /\ px \o py \in Seq(V) /\ Len(px \o py) = Len(px) + Len(py)
        /\ \A i \in 1..Len(px) : (px \o py)[i] = px[i]
        /\ \A i \in 1..Len(py) : (px \o py)[Len(px) + i] = py[i]
    BY <2>1, ConcatFacts
  <2>3. QED
    BY <2>2 DEF V
<1> HIDE DEF w
<1>6. ASSUME NEW i \in 1..Len(pz)
      PROVE  pz[i] = w[i]
  <2>1. pz[i] = Payload(z[i]) /\ i \in 1..(Len(x) + Len(y))
    BY <1>1, <1>4
  <2>2. CASE i =< Len(x)
    <3>1. i \in 1..Len(x) /\ i \in 1..Len(px)
      BY <1>1, <1>2, <2>1, <2>2
    <3>2. QED
      BY <1>1, <1>2, <1>5, <2>1, <3>1
  <2>3. CASE i > Len(x)
    <3> DEFINE n == i - Len(x)
    <3>1. n \in 1..Len(y) /\ n \in 1..Len(py) /\ Len(x) + n = i /\ Len(px) + n = i
      BY <1>1, <1>2, <1>3, <2>1, <2>3
    <3> HIDE DEF n
    <3>2. w[i] = py[n] /\ z[i] = y[n]
      BY <1>1, <1>5, <3>1
    <3>3. QED
      BY <1>3, <2>1, <3>1, <3>2
  <2>4. QED
    BY <1>1, <2>1, <2>2, <2>3
<1>7. pz = w
  BY <1>1, <1>2, <1>3, <1>4, <1>5, <1>6, SameSequence
<1>8. FlattenSeq(w) = FlattenSeq(px) \o FlattenSeq(py)
  BY <1>2, <1>3, FlattenConcat DEF w
<1>9. FlattenSeq(px) \in Seq(U)
  BY <1>2, FlattenFacts
<1>10. QED
  BY <1>2, <1>3, <1>4, <1>7, <1>8, <1>9 DEF z, U, Stream

LEMMA RefusedConcat ==
  ASSUME NEW p \in Seq(MessageBodies), NEW q \in Seq(MessageBodies)
  PROVE  HasRefused(p \o q) <=> HasRefused(p) \/ HasRefused(q)
<1> DEFINE z == p \o q
<1>1. /\ z \in Seq(MessageBodies) /\ Len(z) = Len(p) + Len(q)
      /\ Len(p) \in Nat /\ Len(q) \in Nat
      /\ \A i \in 1..Len(p) : z[i] = p[i]
      /\ \A i \in 1..Len(q) : z[Len(p) + i] = q[i]
  BY ConcatFacts
<1> HIDE DEF z
<1>2. DOMAIN z = 1..Len(z) /\ DOMAIN p = 1..Len(p) /\ DOMAIN q = 1..Len(q)
  BY <1>1
<1>3. ASSUME NEW i \in 1..Len(z), IsRefusedMessage(z[i])
      PROVE  HasRefused(p) \/ HasRefused(q)
  <2>1. CASE i =< Len(p)
    <3>1. i \in 1..Len(p) /\ z[i] = p[i]
      BY <1>1, <2>1
    <3>2. QED
      BY <1>2, <1>3, <3>1 DEF HasRefused
  <2>2. CASE i > Len(p)
    <3>1. i - Len(p) \in 1..Len(q) /\ Len(p) + (i - Len(p)) = i
      BY <1>1, <2>2
    <3>2. z[i] = q[i - Len(p)]
      BY <1>1, <3>1
    <3>3. QED
      BY <1>2, <1>3, <3>1, <3>2 DEF HasRefused
  <2>3. QED
    BY <1>1, <2>1, <2>2
<1>4. ASSUME NEW i \in 1..Len(p), IsRefusedMessage(p[i])
      PROVE  HasRefused(z)
  <2>1. i \in 1..Len(z) /\ z[i] = p[i]
    BY <1>1
  <2>2. QED
    BY <1>2, <1>4, <2>1 DEF HasRefused
<1>5. ASSUME NEW i \in 1..Len(q), IsRefusedMessage(q[i])
      PROVE  HasRefused(z)
  <2>1. Len(p) + i \in 1..Len(z) /\ z[Len(p) + i] = q[i]
    BY <1>1
  <2>2. QED
    BY <1>2, <1>5, <2>1 DEF HasRefused
<1>6. QED
  BY <1>2, <1>3, <1>4, <1>5 DEF HasRefused, z

\* Two decoders behind each other, fed a chunk c after the units d: they find
\* what they find in all of it at once, and keep what is left of it.
LEMMA TwoDecoders ==
  ASSUME NEW d \in Stream(RecordBodies), NEW c \in Stream(RecordBodies),
         NEW assembled,
         assembled = Rest(HandshakeData(Messages(d))) \o HandshakeData(Messages(Rest(d) \o c))
  PROVE  /\ Rest(d \o c) = Rest(Rest(d) \o c)
         /\ Rest(HandshakeData(Messages(d \o c))) = Rest(assembled)
         /\ HasRefused(CompleteMessages(d \o c))
              <=> HasRefused(CompleteMessages(d)) \/ HasRefused(Messages(assembled))
<1> DEFINE r == Rest(d) \o c
           md == Messages(d)
           mr == Messages(r)
<1>1. Rest(d) \in Stream(RecordBodies)
  BY RestFacts
<1>2. r \in Stream(RecordBodies)
  BY <1>1, StreamConcat
<1>3. Messages(d \o c) = md \o mr /\ Rest(d \o c) = Rest(r)
  BY Decoding
<1> HIDE DEF r
<1>4. md \in Seq(RecordBodies) /\ mr \in Seq(RecordBodies)
  BY <1>2, DecodedBodies
<1> HIDE DEF md, mr
<1> DEFINE x == HandshakeData(md)
           y == HandshakeData(mr)
<1>5. /\ x \in Stream(MessageBodies) /\ y \in Stream(MessageBodies)
      /\ HandshakeData(md \o mr) = x \o y
  BY <1>4, HandshakeDataConcat
<1> HIDE DEF x, y
<1>6. assembled = Rest(x) \o y
  BY DEF x, y, md, mr, r
<1>7. Rest(x) \in Stream(MessageBodies)
  BY <1>5, RestFacts
<1>8. assembled \in Stream(MessageBodies)
  BY <1>5, <1>6, <1>7, StreamConcat
<1>9. /\ Messages(x \o y) = Messages(x) \o Messages(Rest(x) \o y)
      /\ Rest(x \o y) = Rest(Rest(x) \o y)
  BY <1>5, Decoding
<1>10. Messages(x) \in Seq(MessageBodies) /\ Messages(assembled) \in Seq(MessageBodies)
  BY <1>5, <1>8, DecodedBodies
<1>11. HasRefused(Messages(x \o y)) <=> HasRefused(Messages(x)) \/ HasRefused(Messages(assembled))
  BY <1>6, <1>9, <1>10, RefusedConcat
<1>12. CompleteMessages(d \o c) = Messages(x \o y) /\ CompleteMessages(d) = Messages(x)
  BY <1>3, <1>5 DEF CompleteMessages, x, md
<1>13. QED
  BY <1>3, <1>5, <1>6, <1>9, <1>11, <1>12 DEF r
-------------------------------------------------------------------------------
(* What a client sends, and what of it is read.                            *)

\* Where the fragments end.
CutAt(length, n, i) == IF i * n < length THEN i * n ELSE length

LEMMA CutFacts ==
  ASSUME NEW length \in Nat, NEW n \in Nat \ {0},
         NEW count, count = (length + n - 1) \div n
  PROVE  /\ count \in Nat
         /\ CutAt(length, n, 0) = 0 /\ CutAt(length, n, count) = length
         /\ \A i \in 1..count : /\ (i - 1) * n = CutAt(length, n, i - 1)
                                /\ CutAt(length, n, i - 1) \in 0..length
                                /\ CutAt(length, n, i) \in CutAt(length, n, i - 1)..length
<1>1. /\ count \in Nat /\ count * n =< length + n - 1 /\ length + n - 1 < count * n + n
  OBVIOUS
<1>2. 0 * n = 0 /\ count * n \in Nat /\ count * n >= length
  BY <1>1
<1>3. ASSUME NEW i \in 1..count
      PROVE  /\ (i - 1) * n \in Nat /\ i * n \in Nat /\ i * n = (i - 1) * n + n
             /\ (i - 1) * n < length
  <2>1. /\ (i - 1) * n \in Nat /\ i * n \in Nat /\ i * n = (i - 1) * n + n
    BY <1>1
  <2>2. i * n =< count * n
    <3>1. count - i \in Nat /\ (count - i) * n >= 0
      BY <1>1
    <3>2. (count - i) * n = count * n - i * n
      BY <1>1
    <3>3. QED
      BY <1>2, <2>1, <3>1, <3>2
  <2>3. QED
    BY <1>1, <1>2, <2>1, <2>2
<1>4. QED
  BY <1>1, <1>2, <1>3 DEF CutAt

\* However a message is cut into fragments, they are the message.
LEMMA FragmentsJoined ==
  ASSUME NEW B, NEW u \in Stream(B), NEW n \in FragmentSizes
  PROVE  Fragments(u, n) \in Seq(Stream(B)) /\ FlattenSeq(Fragments(u, n)) = u
<1> DEFINE U == [body : B, size : Nat]
           count == (Len(u) + n - 1) \div n
           cut(i) == CutAt(Len(u), n, i)
           q == Fragments(u, n)
<1>1. n \in Nat \ {0}
  BY FragmentAssumption
<1>2. u \in Seq(U) /\ Len(u) \in Nat
  BY StreamFacts
<1>3. q = [i \in 1..count |-> SubSeq(u, (i - 1) * n + 1, cut(i))]
  BY DEF Fragments, CutAt
<1>4. /\ count \in Nat
      /\ cut(0) = 0 /\ cut(count) = Len(u)
      /\ \A i \in 1..count : /\ (i - 1) * n = cut(i - 1)
                             /\ cut(i - 1) \in 0..Len(u)
                             /\ cut(i) \in cut(i - 1)..Len(u)
  BY <1>1, <1>2, CutFacts
<1> HIDE DEF count, cut, q, U
<1>5. ASSUME NEW i \in 1..count
      PROVE  q[i] = SubSeq(u, cut(i - 1) + 1, cut(i)) /\ q[i] \in Seq(U)
  <2> DEFINE a == cut(i - 1)
             b == cut(i)
  <2>1. (i - 1) * n = a /\ a \in 0..Len(u) /\ b \in a..Len(u)
    BY <1>4
  <2>2. q[i] = SubSeq(u, (i - 1) * n + 1, b)
    BY <1>3
  <2> HIDE DEF a, b
  <2>3. q[i] = SubSeq(u, a + 1, b)
    BY <2>1, <2>2
  <2>4. SubSeq(u, a + 1, b) \in Seq(U)
    BY <1>2, <2>1
  <2>5. QED
    BY <2>3, <2>4 DEF a, b
<1>6. q \in Seq(Seq(U)) /\ Len(q) = count
  <2> DEFINE V == Seq(U)
  <2>1. q \in [1..count -> V]
    BY <1>3, <1>5
  <2> HIDE DEF V
  <2>2. q \in Seq(V) /\ Len(q) = count
    BY <1>4, <2>1, FunctionIsSequence
  <2>3. QED
    BY <2>2 DEF V
<1>7. PICK f : IsFlattening(f, q) /\ FlattenSeq(q) = f[Len(q)]
  BY <1>6, FlatteningExists
<1> DEFINE T == {i \in 0..count : f[i] = SubSeq(u, 1, cut(i))}
<1>8. 0 \in T
  <2>1. f[0] = <<>> /\ SubSeq(u, 1, 0) = <<>>
    BY <1>2, <1>7 DEF IsFlattening
  <2>2. f[0] = SubSeq(u, 1, cut(0))
    BY <1>4, <2>1
  <2>3. 0 \in 0..count
    BY <1>4
  <2>4. QED
    BY <2>2, <2>3
<1>9. ASSUME NEW j \in 0..(count - 1), j \in T
      PROVE  j + 1 \in T
  <2> DEFINE i == j + 1
  <2>1. i \in 1..count /\ i \in 0..count /\ i - 1 = j
    BY <1>4
  <2> HIDE DEF i
  <2>2. f[i] = f[j] \o q[i]
    BY <1>6, <1>7, <1>9 DEF IsFlattening, i
  <2>3. f[j] = SubSeq(u, 1, cut(j)) /\ q[i] = SubSeq(u, cut(j) + 1, cut(i))
    BY <1>5, <1>9, <2>1
  <2>4. cut(j) \in 0..Len(u) /\ cut(i) \in cut(j)..Len(u) /\ 1 \in 1..(Len(u) + 1)
    BY <1>2, <1>4, <2>1
  <2>5. SubSeq(u, 1, cut(j)) \o SubSeq(u, cut(j) + 1, cut(i)) = SubSeq(u, 1, cut(i))
    <3>1. cut(j) \in (1 - 1)..Len(u)
      BY <2>4
    <3>2. QED
      BY <1>2, <2>4, <3>1, ConcatAdjacentSubSeq
  <2>6. QED
    BY <2>1, <2>2, <2>3, <2>5 DEF i
<1> HIDE DEF T
<1>10. \A i \in 0..count : i \in T
  BY <1>4, <1>8, <1>9, UpTo
<1>11. f[count] = SubSeq(u, 1, Len(u))
  <2>1. count \in T
    BY <1>4, <1>10
  <2>2. QED
    BY <1>4, <2>1 DEF T
<1>12. SubSeq(u, 1, Len(u)) = u
  BY <1>2, SubSeqFull
<1>13. QED
  BY <1>6, <1>7, <1>11, <1>12 DEF q, U, Stream

LEMMA PairConcat ==
  ASSUME NEW V, NEW p \in V, NEW r \in V
  PROVE  <<p, r>> = <<p>> \o <<r>>
<1> DEFINE x == <<p, r>>
           a == <<p>>
           y == a \o <<r>>
<1>1. x \in Seq(V) /\ Len(x) = 2 /\ x[1] = p /\ x[2] = r
  OBVIOUS
<1>2. a \in Seq(V) /\ Len(a) = 1 /\ a[1] = p
  OBVIOUS
<1> HIDE DEF a
<1>3. Len(y) = 2 /\ y[1] = p /\ y[2] = r
  <2> DEFINE b == <<r>>
  <2>1. b \in Seq(V) /\ Len(b) = 1 /\ b[1] = r
    OBVIOUS
  <2> HIDE DEF b
  <2>2. /\ Len(a \o b) = Len(a) + Len(b)
        /\ \A i \in 1..Len(a) : (a \o b)[i] = a[i]
        /\ \A i \in 1..Len(b) : (a \o b)[Len(a) + i] = b[i]
    BY <1>2, <2>1, ConcatFacts
  <2>3. Len(a \o b) = 2 /\ (a \o b)[1] = p /\ (a \o b)[2] = r
    BY <1>2, <2>1, <2>2
  <2>4. QED
    BY <2>3 DEF b
<1>4. y \in Seq(V)
  BY <1>2
<1> HIDE DEF x, y
<1>5. \A i \in 1..Len(x) : x[i] = y[i]
  <2>1. \A i \in 1..Len(x) : i = 1 \/ i = 2
    BY <1>1
  <2>2. QED
    BY <1>1, <1>3, <2>1
<1>6. x = y
  BY <1>1, <1>3, <1>4, <1>5, SameSequence
<1>7. QED
  BY <1>6 DEF x, y, a

LEMMA FlattenPair ==
  ASSUME NEW S, NEW p \in Seq(S), NEW r \in Seq(S)
  PROVE  FlattenSeq(<<p, r>>) = p \o r
<1> DEFINE V == Seq(S)
<1>1. p \in V /\ r \in V
  OBVIOUS
<1>2. FlattenSeq(<<p>>) = p /\ FlattenSeq(<<r>>) = r
  BY FlattenOne
<1> HIDE DEF V
<1>3. <<p>> \in Seq(V) /\ <<r>> \in Seq(V) /\ <<p, r>> = <<p>> \o <<r>>
  <2>1. <<p>> \in Seq(V) /\ <<r>> \in Seq(V)
    BY <1>1
  <2>2. <<p, r>> = <<p>> \o <<r>>
    BY <1>1, PairConcat
  <2>3. QED
    BY <2>1, <2>2
<1>4. FlattenSeq(<<p>> \o <<r>>) = FlattenSeq(<<p>>) \o FlattenSeq(<<r>>)
  BY <1>3, FlattenConcat DEF V
<1>5. QED
  BY <1>2, <1>3, <1>4

LEMMA HandshakeDataOfOne ==
  ASSUME NEW r \in RecordBodies
  PROVE  <<r>> \in Seq(RecordBodies) /\ HandshakeData(<<r>>) = Payload(r)
<1> DEFINE x == <<r>>
           p == Payload(r)
<1>1. x \in Seq(RecordBodies) /\ Len(x) = 1 /\ x[1] = r
  OBVIOUS
<1> HIDE DEF x
<1>2. /\ Payloads(x) \in Seq(Stream(MessageBodies)) /\ Len(Payloads(x)) = 1
      /\ Payloads(x)[1] = p /\ HandshakeData(x) = FlattenSeq(Payloads(x))
  BY <1>1, PayloadsFacts
<1>3. p \in Stream(MessageBodies)
  BY <1>2, ElementsOf
<1> HIDE DEF p
<1>4. Payloads(x) = <<p>>
  <2> DEFINE q == Payloads(x)
             V == Stream(MessageBodies)
             w == <<p>>
  <2>1. q \in Seq(V) /\ Len(q) = 1 /\ q[1] = p /\ p \in V
    BY <1>2, <1>3
  <2> HIDE DEF q, V
  <2>2. w \in Seq(V) /\ Len(w) = 1 /\ w[1] = p
    BY <2>1
  <2> HIDE DEF w
  <2>3. \A i \in 1..Len(q) : q[i] = w[i]
    BY <2>1, <2>2
  <2>4. q = w
    BY <2>1, <2>2, <2>3, SameSequence
  <2>5. QED
    BY <2>4 DEF q, w
<1>5. FlattenSeq(<<p>>) = p
  BY <1>3, FlattenOne DEF Stream
<1>6. QED
  BY <1>1, <1>2, <1>4, <1>5 DEF x, p

\* Fragments, each in a record.
InRecords(fragments) == [i \in 1..Len(fragments) |-> Record("handshake", fragments[i])]

LEMMA HandshakeDataOfFragments ==
  ASSUME NEW fr \in Seq(Stream(MessageBodies))
  PROVE  InRecords(fr) \in Seq(RecordBodies) /\ HandshakeData(InRecords(fr)) = FlattenSeq(fr)
<1> DEFINE x == InRecords(fr)
           V == Stream(MessageBodies)
<1>1. Len(fr) \in Nat /\ \A i \in 1..Len(fr) : fr[i] \in V
  BY ElementsOf
<1>2. ASSUME NEW i \in 1..Len(fr)
      PROVE  x[i] \in RecordBodies /\ Payload(x[i]) = fr[i]
  <2>1. x[i] = [type |-> "handshake", payload |-> fr[i]]
    BY DEF InRecords, Record
  <2>2. QED
    BY <1>1, <2>1 DEF RecordBodies, Payload
<1>3. x \in [1..Len(fr) -> RecordBodies]
  BY <1>2 DEF InRecords
<1>4. x \in Seq(RecordBodies) /\ Len(x) = Len(fr)
  BY <1>1, <1>3, FunctionIsSequence
<1> HIDE DEF x
<1> DEFINE q == Payloads(x)
<1>5. /\ q \in Seq(V) /\ Len(q) = Len(x) /\ HandshakeData(x) = FlattenSeq(q)
      /\ \A i \in 1..Len(x) : q[i] = Payload(x[i])
  BY <1>4, PayloadsFacts
<1> HIDE DEF q, V
<1>6. \A i \in 1..Len(q) : q[i] = fr[i]
  BY <1>2, <1>4, <1>5
<1>7. q = fr
  BY <1>4, <1>5, <1>6, SameSequence DEF V
<1>8. QED
  BY <1>4, <1>5, <1>7 DEF x

\* The frames of the fragments.
RecordFrames(fragments) ==
  [i \in 1..Len(fragments) |-> Encode(Record("handshake", fragments[i]), 2)]

LEMMA RecordFramesFacts ==
  ASSUME NEW fr \in Seq(Stream(MessageBodies))
  PROVE  /\ RecordFrames(fr) \in Seq(Stream(RecordBodies))
         /\ FlattenSeq(RecordFrames(fr)) \in Stream(RecordBodies)
         /\ Messages(FlattenSeq(RecordFrames(fr))) = InRecords(fr)
         /\ Rest(FlattenSeq(RecordFrames(fr))) = <<>>
<1> DEFINE q == RecordFrames(fr)
           m == InRecords(fr)
<1>1. Len(fr) \in Nat
  BY ElementsOf
<1>2. m \in Seq(RecordBodies)
  BY HandshakeDataOfFragments
<1>3. m \in [1..Len(fr) -> RecordBodies]
  <2>1. \A i \in 1..Len(fr) : fr[i] \in Stream(MessageBodies)
    BY ElementsOf
  <2>2. \A i \in 1..Len(fr) : Record("handshake", fr[i]) \in RecordBodies
    BY <2>1 DEF Record, RecordBodies
  <2>3. QED
    BY <2>2 DEF InRecords
<1>4. Len(m) = Len(fr)
  BY <1>1, <1>3, FunctionIsSequence
<1>5. ASSUME NEW i \in 1..Len(fr)
      PROVE  /\ q[i] \in Stream(RecordBodies)
             /\ Rest(q[i]) = <<>> /\ Messages(q[i]) = <<m[i]>>
  <2>1. q[i] = Encode(m[i], 2) /\ m[i] \in RecordBodies
    BY <1>3 DEF RecordFrames, InRecords
  <2> HIDE DEF q, m
  <2>2. 2 \in Nat /\ 2 # 0
    OBVIOUS
  <2>3. /\ Encode(m[i], 2) \in Stream(RecordBodies)
        /\ Rest(Encode(m[i], 2)) = <<>> /\ Messages(Encode(m[i], 2)) = <<m[i]>>
    BY <2>1, <2>2, EncodeFacts
  <2>4. QED
    BY <2>1, <2>3
<1>6. q \in [1..Len(fr) -> Stream(RecordBodies)]
  BY <1>5 DEF RecordFrames
<1> DEFINE V == Stream(RecordBodies)
<1>7. q \in Seq(V) /\ Len(q) = Len(fr)
  <2> HIDE DEF V, q
  <2>1. q \in [1..Len(fr) -> V]
    BY <1>6 DEF V
  <2>2. QED
    BY <1>1, <2>1, FunctionIsSequence
<1> HIDE DEF q, m
<1>8. \A i \in 1..Len(q) : Rest(q[i]) = <<>> /\ Messages(q[i]) = <<m[i]>>
  BY <1>5, <1>7
<1>9. FlattenSeq(q) \in Stream(RecordBodies) /\ Messages(FlattenSeq(q)) = m /\ Rest(FlattenSeq(q)) = <<>>
  BY <1>2, <1>4, <1>7, <1>8, FramesDecoded
<1>10. QED
  BY <1>7, <1>9 DEF q, m
Hello == Encode(Message("hello", None), 2)
CertificateFrame(certs) == Encode(Message("certificate", certs), 2)
KeyExchange == Encode(Message("keyExchange", None), 2)

LEMMA HandshakeFrames ==
  ASSUME NEW certs \in Presentations \cup {<<>>}
  PROVE  /\ Hello \in Stream(MessageBodies) /\ Rest(Hello) = <<>>
         /\ Messages(Hello) = <<Message("hello", None)>>
         /\ CertificateFrame(certs) \in Stream(MessageBodies)
         /\ Rest(CertificateFrame(certs)) = <<>>
         /\ Messages(CertificateFrame(certs)) = <<Message("certificate", certs)>>
         /\ KeyExchange \in Stream(MessageBodies)
         /\ Sealed \in Stream(MessageBodies)
<1> DEFINE hello == Message("hello", None)
           certificate == Message("certificate", certs)
           exchange == Message("keyExchange", None)
           finished == Message("sealed", None)
<1>1. /\ hello \in MessageBodies /\ certificate \in MessageBodies
      /\ exchange \in MessageBodies /\ finished \in MessageBodies
  BY DEF Message, MessageBodies
<1>2. 2 \in Nat /\ 2 # 0 /\ 0 \in Nat
  OBVIOUS
<1> HIDE DEF hello, certificate, exchange, finished
<1>3. /\ Encode(hello, 2) \in Stream(MessageBodies) /\ Rest(Encode(hello, 2)) = <<>>
      /\ Messages(Encode(hello, 2)) = <<hello>>
  BY <1>1, <1>2, EncodeFacts
<1>4. /\ Encode(certificate, 2) \in Stream(MessageBodies) /\ Rest(Encode(certificate, 2)) = <<>>
      /\ Messages(Encode(certificate, 2)) = <<certificate>>
  BY <1>1, <1>2, EncodeFacts
<1>5. Encode(exchange, 2) \in Stream(MessageBodies) /\ Encode(finished, 0) \in Stream(MessageBodies)
  BY <1>1, <1>2, EncodeFacts
<1>6. QED
  BY <1>3, <1>4, <1>5 DEF Hello, CertificateFrame, KeyExchange, Sealed, hello, certificate,
     exchange, finished

LEMMA SecondFlightFacts ==
  ASSUME NEW certs \in Presentations \cup {<<>>}, NEW asked \in BOOLEAN
  PROVE  /\ SecondFlight(certs, asked) \in Stream(MessageBodies)
         /\ asked => SecondFlight(certs, asked) = CertificateFrame(certs) \o KeyExchange
<1>1. SecondFlight(certs, asked) =
        (IF asked THEN CertificateFrame(certs) ELSE <<>>) \o KeyExchange
  BY DEF SecondFlight, CertificateFrame, KeyExchange
<1>2. /\ CertificateFrame(certs) \in Stream(MessageBodies)
      /\ KeyExchange \in Stream(MessageBodies)
      /\ <<>> \in Stream(MessageBodies)
  <2>1. <<>> \in Stream(MessageBodies)
    BY DEF Stream
  <2>2. QED
    BY <2>1, HandshakeFrames
<1>3. /\ CertificateFrame(certs) \o KeyExchange \in Stream(MessageBodies)
      /\ <<>> \o KeyExchange \in Stream(MessageBodies)
  BY <1>2, StreamConcat
<1>4. QED
  BY <1>1, <1>3

\* The records of a flight carry its messages in their order, however the second
\* part of the handshake is cut into records.
LEMMA FlightFacts ==
  ASSUME NEW certs \in Presentations \cup {<<>>}, NEW asked \in BOOLEAN, NEW n \in FragmentSizes
  PROVE  /\ Flight(certs, asked, n) \in Stream(RecordBodies)
         /\ HandshakeData(Messages(Flight(certs, asked, n)))
              = Hello \o (SecondFlight(certs, asked) \o Sealed)
<1> DEFINE second == SecondFlight(certs, asked)
           fr == Fragments(second, n)
           h == Record("handshake", Hello)
           c == Record("changeCipherSpec", <<>>)
           e == Record("handshake", Sealed)
           R == Stream(RecordBodies)
<1>1. second \in Stream(MessageBodies)
  BY SecondFlightFacts
<1>2. /\ h \in RecordBodies /\ c \in RecordBodies /\ e \in RecordBodies
      /\ Payload(h) = Hello /\ Payload(c) = <<>> /\ Payload(e) = Sealed
  <2>1. Hello \in Stream(MessageBodies) /\ Sealed \in Stream(MessageBodies)
    BY HandshakeFrames
  <2>2. <<>> \in Stream(MessageBodies)
    BY DEF Stream
  <2>3. QED
    BY <2>1, <2>2 DEF Record, RecordBodies, Payload
<1> HIDE DEF second, h, c, e
<1>3. fr \in Seq(Stream(MessageBodies)) /\ FlattenSeq(fr) = second
  BY <1>1, FragmentsJoined
<1> HIDE DEF fr
<1> DEFINE F == RecordFrames(fr)
           x == Encode(h, 2)
           y == FlattenSeq(F)
           u == Encode(c, 1)
           v == Encode(e, 1)
           z == u \o v
<1>4. Flight(certs, asked, n) = FlattenSeq(<<x>> \o F \o <<u, v>>)
  BY DEF Flight, RecordFrames, Hello, second, h, c, e, fr
<1>5. /\ x \in R /\ Rest(x) = <<>> /\ Messages(x) = <<h>>
      /\ u \in R /\ Rest(u) = <<>> /\ Messages(u) = <<c>>
      /\ v \in R /\ Rest(v) = <<>> /\ Messages(v) = <<e>>
  <2>1. 2 \in Nat /\ 2 # 0 /\ 1 \in Nat /\ 1 # 0
    OBVIOUS
  <2>2. Encode(h, 2) \in R /\ Rest(Encode(h, 2)) = <<>> /\ Messages(Encode(h, 2)) = <<h>>
    BY <1>2, <2>1, EncodeFacts
  <2>3. Encode(c, 1) \in R /\ Rest(Encode(c, 1)) = <<>> /\ Messages(Encode(c, 1)) = <<c>>
    BY <1>2, <2>1, EncodeFacts
  <2>4. Encode(e, 1) \in R /\ Rest(Encode(e, 1)) = <<>> /\ Messages(Encode(e, 1)) = <<e>>
    BY <1>2, <2>1, EncodeFacts
  <2>5. QED
    BY <2>2, <2>3, <2>4
<1>6. F \in Seq(R) /\ y \in R /\ Messages(y) = InRecords(fr) /\ Rest(y) = <<>>
  BY <1>3, RecordFramesFacts
<1> HIDE DEF F, x, u, v
<1>7. FlattenSeq(<<x>> \o F \o <<u, v>>) = (x \o y) \o z
  <2> DEFINE U == [body : RecordBodies, size : Nat]
             V == Seq(U)
             ends == <<u, v>>
             front == <<x>> \o F
  <2>1. R = V
    BY DEF Stream
  <2>2. <<x>> \in Seq(V) /\ ends \in Seq(V) /\ F \in Seq(V)
    <3> HIDE DEF V, R
    <3>1. QED
      BY <1>5, <1>6, <2>1
  <2>3. front \in Seq(V)
    <3> HIDE DEF V
    <3>1. QED
      BY <2>2
  <2>4. x \in Seq(U) /\ u \in Seq(U) /\ v \in Seq(U)
    BY <1>5 DEF Stream
  <2> HIDE DEF U
  <2>5. FlattenSeq(<<x>>) = x
    BY <2>4, FlattenOne
  <2>6. FlattenSeq(ends) = u \o v
    BY <2>4, FlattenPair
  <2> HIDE DEF ends
  <2>7. FlattenSeq(front) = FlattenSeq(<<x>>) \o FlattenSeq(F)
    BY <2>2, FlattenConcat
  <2> HIDE DEF front
  <2>8. FlattenSeq(front \o ends) = FlattenSeq(front) \o FlattenSeq(ends)
    BY <2>2, <2>3, FlattenConcat
  <2>9. QED
    BY <2>5, <2>6, <2>7, <2>8 DEF front, ends
<1> HIDE DEF y
<1>8. x \o y \in R /\ Messages(x \o y) = <<h>> \o InRecords(fr) /\ Rest(x \o y) = <<>>
  <2>1. /\ x \o y \in R /\ Messages(x \o y) = Messages(x) \o Messages(y)
        /\ Rest(x \o y) = Rest(y)
    BY <1>5, <1>6, WholeFramesBefore, Zenon
  <2>2. QED
    BY <1>5, <1>6, <2>1, Zenon
<1>9. z \in R /\ Messages(z) = <<c>> \o <<e>>
  <2>1. u \o v \in R /\ Messages(u \o v) = Messages(u) \o Messages(v)
    BY <1>5, WholeFramesBefore, Zenon
  <2>2. QED
    BY <1>5, <2>1, Zenon
<1> HIDE DEF z
<1> DEFINE xy == x \o y
<1>10. xy \in R /\ Messages(xy) = <<h>> \o InRecords(fr) /\ Rest(xy) = <<>>
  BY <1>8
<1> HIDE DEF xy
<1>11. xy \o z \in R /\ Messages(xy \o z) = Messages(xy) \o Messages(z)
  BY <1>9, <1>10, WholeFramesBefore
<1> DEFINE all == Messages(xy \o z)
           first == <<h>>
           mid == InRecords(fr)
           end == <<c>> \o <<e>>
           last == HandshakeData(end)
<1>12. first \in Seq(RecordBodies) /\ HandshakeData(first) = Hello
  BY <1>2, HandshakeDataOfOne
<1>13. mid \in Seq(RecordBodies) /\ HandshakeData(mid) = second
  BY <1>3, HandshakeDataOfFragments
<1>14. end \in Seq(RecordBodies)
  BY <1>2
<1>15. all = (first \o mid) \o end
  BY <1>9, <1>10, <1>11
<1> HIDE DEF all, first, mid, end
<1>16. first \o mid \in Seq(RecordBodies)
  BY <1>12, <1>13
<1>17. HandshakeData(first \o mid) = Hello \o second
  BY <1>12, <1>13, HandshakeDataConcat
<1>18. HandshakeData((first \o mid) \o end) = HandshakeData(first \o mid) \o HandshakeData(end)
  BY <1>14, <1>16, HandshakeDataConcat
<1>19. last \in Stream(MessageBodies) /\ last = Sealed
  <2>1. /\ <<c>> \in Seq(RecordBodies) /\ HandshakeData(<<c>>) = <<>>
        /\ <<e>> \in Seq(RecordBodies) /\ HandshakeData(<<e>>) = Sealed
    BY <1>2, HandshakeDataOfOne
  <2>2. HandshakeData(<<c>> \o <<e>>) = <<>> \o Sealed
    BY <2>1, HandshakeDataConcat
  <2>3. Sealed \in Stream(MessageBodies)
    BY HandshakeFrames
  <2>4. <<>> \o Sealed = Sealed
    BY <2>3, ConcatEmptySeq DEF Stream
  <2>5. QED
    BY <2>2, <2>3, <2>4 DEF end
<1> HIDE DEF last
<1>20. Hello \in Stream(MessageBodies)
  BY HandshakeFrames
<1>21. (Hello \o second) \o last = Hello \o (second \o last)
  BY <1>1, <1>19, <1>20, StreamAssociative
<1>22. HandshakeData(all) = Hello \o (second \o last)
  BY <1>15, <1>17, <1>18, <1>21 DEF last
<1>23. Flight(certs, asked, n) = xy \o z
  BY <1>4, <1>7 DEF xy
<1>24. QED
  BY <1>11, <1>19, <1>22, <1>23 DEF all, second

\* A flight that is read to its end without a refusal has no list to refuse.
LEMMA FlightSeen ==
  ASSUME NEW certs \in Presentations, NEW n \in FragmentSizes,
         ~HasRefused(CompleteMessages(Flight(certs, TRUE, n)))
  PROVE  ~Refused(certs)
<1> DEFINE C == CertificateFrame(certs)
           K == KeyExchange
           m == Message("certificate", certs)
           g == Message("hello", None)
           last == Sealed
<1>1. HandshakeData(Messages(Flight(certs, TRUE, n)))
        = Hello \o (SecondFlight(certs, TRUE) \o last)
  BY FlightFacts
<1>2. SecondFlight(certs, TRUE) = C \o K
  BY SecondFlightFacts
<1>3. /\ Hello \in Stream(MessageBodies) /\ Rest(Hello) = <<>> /\ Messages(Hello) = <<g>>
      /\ C \in Stream(MessageBodies) /\ Rest(C) = <<>> /\ Messages(C) = <<m>>
      /\ K \in Stream(MessageBodies) /\ last \in Stream(MessageBodies)
  BY HandshakeFrames
<1>4. m \in MessageBodies /\ g \in MessageBodies
  BY DEF Message, MessageBodies
<1> HIDE DEF C, K, last
<1>5. (C \o K) \o last = C \o (K \o last)
  BY <1>3, StreamAssociative
<1> DEFINE tail == K \o last
           rest == C \o tail
<1>6. tail \in Stream(MessageBodies)
  BY <1>3, StreamConcat
<1> HIDE DEF tail
<1>7. rest \in Stream(MessageBodies) /\ Messages(rest) = Messages(C) \o Messages(tail)
  BY <1>3, <1>6, WholeFramesBefore
<1> HIDE DEF rest
<1>8. Messages(Hello \o rest) = Messages(Hello) \o Messages(rest)
  BY <1>3, <1>7, WholeFramesBefore
<1>9. CompleteMessages(Flight(certs, TRUE, n)) = Messages(Hello \o rest)
  BY <1>1, <1>2, <1>5 DEF CompleteMessages, rest, tail
<1> DEFINE mg == <<g>>
           mm == <<m>>
           mt == Messages(tail)
           mr == Messages(rest)
<1>10. mg \in Seq(MessageBodies) /\ mm \in Seq(MessageBodies) /\ mm[1] = m /\ 1 \in DOMAIN mm
  BY <1>4
<1>11. mt \in Seq(MessageBodies) /\ mr \in Seq(MessageBodies)
  BY <1>6, <1>7, DecodedBodies
<1>12. mr = mm \o mt /\ ~HasRefused(mg \o mr)
  BY <1>3, <1>7, <1>8, <1>9
<1> HIDE DEF mg, mm, mt, mr
<1>13. ~HasRefused(mr)
  BY <1>10, <1>11, <1>12, RefusedConcat
<1>14. ~HasRefused(mm)
  BY <1>10, <1>11, <1>12, <1>13, RefusedConcat
<1>15. ~IsRefusedMessage(m)
  BY <1>10, <1>14 DEF HasRefused
<1>16. QED
  BY <1>15 DEF IsRefusedMessage, Message
-------------------------------------------------------------------------------
(* The invariant of the guard.                                             *)

\* The units d were handed over by TCP, and p of them to TLS: all, until one of
\* them completes a list that is refused.
Guarded ==
  \E d \in Stream(RecordBodies), p \in Stream(RecordBodies) :
    /\ flight = d \o wire /\ wire \in Stream(RecordBodies)
    /\ pushed = p /\ ~HasRefused(CompleteMessages(p))
    /\ rejected <=> HasRefused(CompleteMessages(d))
    /\ ~rejected => /\ p = d /\ clientBuffer = Rest(d)
                    /\ handshakeBuffer = Rest(HandshakeData(Messages(d)))

\* The connection was not closed by anybody else.
ClosedByGuard == rejected => stage = "closed"

GuardInv == Guarded /\ ClosedByGuard

\* Nothing that leaves the guard's state alone disturbs it.
LEMMA GuardUntouched ==
  ASSUME Guarded, UNCHANGED <<flight, guardVars>>
  PROVE  Guarded'
<1>1. PICK d \in Stream(RecordBodies), p \in Stream(RecordBodies) :
        /\ flight = d \o wire /\ wire \in Stream(RecordBodies)
        /\ pushed = p /\ ~HasRefused(CompleteMessages(p))
        /\ rejected <=> HasRefused(CompleteMessages(d))
        /\ ~rejected => /\ p = d /\ clientBuffer = Rest(d)
                        /\ handshakeBuffer = Rest(HandshakeData(Messages(d)))
  BY DEF Guarded
<1>2. UNCHANGED <<flight, wire, clientBuffer, handshakeBuffer, pushed, rejected>>
  BY DEF guardVars
<1>3. /\ flight' = d \o wire' /\ wire' \in Stream(RecordBodies)
      /\ pushed' = p /\ ~HasRefused(CompleteMessages(p))
      /\ rejected' <=> HasRefused(CompleteMessages(d))
      /\ ~rejected' => /\ p = d /\ clientBuffer' = Rest(d)
                       /\ handshakeBuffer' = Rest(HandshakeData(Messages(d)))
  BY <1>1, <1>2
<1>4. QED
  BY <1>3 DEF Guarded

\* The same, for every delivery at once.
LEMMA TwoDecodersAgree ==
  \A d, c \in Stream(RecordBodies) : \A assembled :
    assembled = Rest(HandshakeData(Messages(d)))
                  \o HandshakeData(Messages(Rest(d) \o c))
    => /\ Rest(d \o c) = Rest(Rest(d) \o c)
       /\ Rest(HandshakeData(Messages(d \o c))) = Rest(assembled)
       /\ HasRefused(CompleteMessages(d \o c))
            <=> HasRefused(CompleteMessages(d)) \/ HasRefused(Messages(assembled))
BY TwoDecoders

LEMMA ChunkGuarded ==
  ASSUME GuardInv, NEW k \in 1..Len(wire), Deny(k) \/ Forward(k)
  PROVE  GuardInv'
<1>1. PICK d \in Stream(RecordBodies), p \in Stream(RecordBodies) :
        /\ flight = d \o wire /\ wire \in Stream(RecordBodies)
        /\ pushed = p /\ ~HasRefused(CompleteMessages(p))
        /\ rejected <=> HasRefused(CompleteMessages(d))
        /\ ~rejected => /\ p = d /\ clientBuffer = Rest(d)
                        /\ handshakeBuffer = Rest(HandshakeData(Messages(d)))
  BY DEF GuardInv, Guarded
<1> DEFINE c == SubSeq(wire, 1, k)
           left == SubSeq(wire, k + 1, Len(wire))
           assembled == Assembled(k)
           more == d \o c
<1>2. /\ ~rejected /\ wire' = left /\ flight' = flight
  BY DEF Deny, Forward, TakeChunk, given
<1>3. Received(k) = Rest(d) \o c
  BY <1>1, <1>2 DEF Received
<1>4. assembled = Rest(HandshakeData(Messages(d))) \o HandshakeData(Messages(Rest(d) \o c))
  BY <1>1, <1>2, <1>3 DEF Assembled
<1>5. /\ c \in Stream(RecordBodies) /\ left \in Stream(RecordBodies)
      /\ more \in Stream(RecordBodies) /\ d \o wire = more \o left
  <2>1. c \in Stream(RecordBodies) /\ left \in Stream(RecordBodies) /\ c \o left = wire
    BY <1>1, StreamCut
  <2> HIDE DEF c, left
  <2>2. c \in Stream(RecordBodies) /\ left \in Stream(RecordBodies)
    BY <2>1
  <2>3. d \o c \in Stream(RecordBodies)
    BY <2>2, StreamConcat
  <2>4. (d \o c) \o left = d \o (c \o left)
    BY <2>2, StreamAssociative, SMTT(20)
  <2>5. QED
    BY <2>1, <2>3, <2>4
<1> HIDE DEF c, left, assembled
<1>6. /\ Rest(more) = Rest(Rest(d) \o c)
      /\ Rest(HandshakeData(Messages(more))) = Rest(assembled)
      /\ HasRefused(CompleteMessages(more))
           <=> HasRefused(CompleteMessages(d)) \/ HasRefused(Messages(assembled))
  <2>1. d \in Stream(RecordBodies) /\ c \in Stream(RecordBodies)
    BY <1>1, <1>5
  <2>2. /\ Rest(d \o c) = Rest(Rest(d) \o c)
        /\ Rest(HandshakeData(Messages(d \o c))) = Rest(assembled)
        /\ HasRefused(CompleteMessages(d \o c))
             <=> HasRefused(CompleteMessages(d)) \/ HasRefused(Messages(assembled))
    <3>1. \A a : a = Rest(HandshakeData(Messages(d)))
                       \o HandshakeData(Messages(Rest(d) \o c))
            => /\ Rest(d \o c) = Rest(Rest(d) \o c)
               /\ Rest(HandshakeData(Messages(d \o c))) = Rest(a)
               /\ HasRefused(CompleteMessages(d \o c))
                    <=> HasRefused(CompleteMessages(d)) \/ HasRefused(Messages(a))
      BY <2>1, TwoDecodersAgree
    <3>2. QED
      BY <1>4, <3>1
  <2>3. QED
    BY <2>2
<1>7. flight' = more \o wire' /\ wire' \in Stream(RecordBodies)
  BY <1>1, <1>2, <1>5
<1>8. /\ ~HasRefused(CompleteMessages(d)) /\ p = d /\ pushed = d
      /\ HasRefused(CompleteMessages(more)) <=> HasRefused(Messages(assembled))
  BY <1>1, <1>2, <1>6
<1> HIDE DEF more
<1>9. CASE Deny(k)
  <2>1. /\ HasRefused(Messages(assembled)) /\ rejected' /\ stage' = "closed"
        /\ pushed' = pushed
    BY <1>9 DEF Deny, assembled
  <2>2. /\ pushed' = p /\ ~HasRefused(CompleteMessages(p))
        /\ rejected' <=> HasRefused(CompleteMessages(more))
    BY <1>1, <1>8, <2>1
  <2>3. Guarded'
    BY <1>5, <1>7, <2>1, <2>2 DEF Guarded
  <2>4. QED
    BY <2>1, <2>3 DEF GuardInv, ClosedByGuard
<1>10. CASE Forward(k)
  <2>1. /\ ~HasRefused(Messages(assembled)) /\ rejected' = rejected
        /\ clientBuffer' = Rest(Received(k)) /\ handshakeBuffer' = Rest(assembled)
        /\ pushed' = pushed \o c
    BY <1>10 DEF Forward, assembled, c
  <2>2. /\ pushed' = more /\ ~HasRefused(CompleteMessages(more)) /\ ~rejected'
        /\ clientBuffer' = Rest(more)
        /\ handshakeBuffer' = Rest(HandshakeData(Messages(more)))
    BY <1>2, <1>3, <1>6, <1>8, <2>1 DEF more
  <2>3. Guarded'
    BY <1>5, <1>7, <2>2 DEF Guarded
  <2>4. QED
    BY <2>2, <2>3 DEF GuardInv, ClosedByGuard
<1>11. QED
  BY <1>9, <1>10

LEMMA OtherGuarded ==
  ASSUME GuardInv, [Next]_vars, ~\E k \in 1..Len(wire) : Deny(k) \/ Forward(k)
  PROVE  GuardInv'
<1>1. UNCHANGED <<flight, guardVars>> /\ (stage = "closed" => stage' = "closed")
  <2>1. CASE Handover
    BY <2>1 DEF Handover, FailHandshake, TurnAway, Greet, Connected, given
  <2>2. CASE Disconnect
    BY <2>2 DEF Disconnect, given
  <2>3. ASSUME NEW clid \in Clids, NEW password \in Passwords, NEW supported \in BOOLEAN,
               Login(clid, password, supported) \/ RefuseLogin(clid, password, supported)
        PROVE  UNCHANGED <<flight, guardVars>> /\ (stage = "closed" => stage' = "closed")
    BY <2>3 DEF Login, RefuseLogin, CountLogin, given
  <2>4. CASE Logout
    BY <2>4 DEF Logout, CountLogin, given
  <2>5. CASE UNCHANGED vars
    BY <2>5 DEF vars, given
  <2>6. QED
    BY <2>1, <2>2, <2>3, <2>4, <2>5 DEF Next, Chunk
<1>2. UNCHANGED rejected
  BY <1>1 DEF guardVars
<1>3. Guarded'
  BY <1>1, GuardUntouched DEF GuardInv
<1>4. QED
  BY <1>1, <1>2, <1>3 DEF GuardInv, ClosedByGuard

LEMMA NextGuarded == GuardInv /\ [Next]_vars => GuardInv'
BY ChunkGuarded, OtherGuarded

LEMMA NothingSent ==
  /\ <<>> \in Stream(RecordBodies)
  /\ Rest(<<>>) = <<>> /\ Rest(HandshakeData(Messages(<<>>))) = <<>>
  /\ ~HasRefused(CompleteMessages(<<>>))
<1> DEFINE none == <<>>
<1>1. none \in Stream(RecordBodies) /\ none \in Stream(MessageBodies) /\ none \in Seq(RecordBodies)
  BY DEF Stream
<1>2. Rest(<<>>) = <<>> /\ Messages(<<>>) = <<>>
  BY <1>1, NothingMore
<1>3. HandshakeData(<<>>) = <<>>
  <2>1. Payloads(none) \in Seq(Stream(MessageBodies)) /\ Len(Payloads(none)) = Len(none)
        /\ HandshakeData(none) = FlattenSeq(Payloads(none))
    BY <1>1, PayloadsFacts
  <2>2. Payloads(none) = <<>>
    BY <2>1
  <2>3. FlattenSeq(<<>>) = <<>>
    <3>1. none \in Seq(Seq(RecordBodies))
      OBVIOUS
    <3>2. QED
      BY <3>1, FlattenFacts
  <2>4. QED
    BY <2>1, <2>2, <2>3
<1>4. ~HasRefused(<<>>)
  BY DEF HasRefused
<1>5. QED
  BY <1>1, <1>2, <1>3, <1>4 DEF CompleteMessages

\* The settings, the client and what it sends stay what they are.
Situation ==
  \E c \in Settings, n \in FragmentSizes :
    \E certs \in IF c.tls /\ c.requireCert THEN Presentations ELSE {<<>>} :
      /\ settings = c /\ presented = certs
      /\ flight = IF RejectsVariations(c) THEN Flight(certs, c.requireCert, n) ELSE <<>>

LEMMA SettingFacts ==
  ASSUME NEW c \in Settings
  PROVE  /\ c.tls \in BOOLEAN /\ c.requireCert \in BOOLEAN
         /\ c.store \in SUBSET Certs /\ IsFiniteSet(c.store)
<1>1. IsSetting(c)
  BY SettingAssumption
<1>2. QED
  BY <1>1 DEF IsSetting

LEMMA InitialSituation == Init => Situation
BY DEF Init, Situation

LEMMA InitialGuarded ==
  ASSUME Init
  PROVE  GuardInv
<1>1. PICK n \in FragmentSizes :
        flight = IF RejectsVariations(settings)
                 THEN Flight(presented, settings.requireCert, n) ELSE <<>>
  BY DEF Init
<1>2. presented \in Presentations \cup {<<>>} /\ settings.requireCert \in BOOLEAN
  BY SettingFacts DEF Init
<1>3. Flight(presented, settings.requireCert, n) \in Stream(RecordBodies)
  BY <1>2, FlightFacts
<1>4. flight \in Stream(RecordBodies)
  BY <1>1, <1>3, NothingSent
<1>5. flight = <<>> \o flight
  BY <1>4, ConcatEmptySeq DEF Stream
<1>6. /\ wire = flight /\ pushed = <<>> /\ ~rejected /\ clientBuffer = <<>> /\ handshakeBuffer = <<>>
  BY DEF Init
<1>7. Guarded
  BY <1>4, <1>5, <1>6, NothingSent DEF Guarded
<1>8. QED
  BY <1>6, <1>7 DEF GuardInv, ClosedByGuard

\* What was delivered is what is not on the wire any more.
LEMMA DeliveredFacts ==
  ASSUME NEW d \in Stream(RecordBodies), wire \in Stream(RecordBodies), flight = d \o wire
  PROVE  Delivered = d
<1> DEFINE U == [body : RecordBodies, size : Nat]
<1>1. d \in Seq(U) /\ wire \in Seq(U)
  BY DEF Stream
<1> HIDE DEF U
<1>2. /\ flight \in Seq(U) /\ Len(flight) = Len(d) + Len(wire)
      /\ Len(d) \in Nat /\ Len(wire) \in Nat /\ \A i \in 1..Len(d) : flight[i] = d[i]
  BY <1>1, ConcatFacts
<1>3. Len(flight) - Len(wire) = Len(d) /\ Len(d) =< Len(flight)
  BY <1>2
<1> DEFINE s == SubSeq(flight, 1, Len(d))
<1>4. s \in Seq(U) /\ Len(s) = Len(d) /\ \A i \in 1..Len(d) : s[i] = flight[i]
  BY <1>2, <1>3
<1> HIDE DEF s
<1>5. s = d
  BY <1>1, <1>2, <1>4, SameSequence
<1>6. QED
  BY <1>3, <1>5 DEF Delivered, s

LEMMA GuardInvStops == GuardInv => GuardStopsInTime
<1> SUFFICES ASSUME GuardInv PROVE GuardStopsInTime
  OBVIOUS
<1>1. PICK d \in Stream(RecordBodies), p \in Stream(RecordBodies) :
        /\ flight = d \o wire /\ wire \in Stream(RecordBodies)
        /\ pushed = p /\ ~HasRefused(CompleteMessages(p))
        /\ rejected <=> HasRefused(CompleteMessages(d))
  BY DEF GuardInv, Guarded
<1>2. Delivered = d
  BY <1>1, DeliveredFacts
<1>3. QED
  BY <1>1, <1>2 DEF GuardStopsInTime

\* However a client cuts its handshake into records, and TCP the records into
\* chunks: the guard (TlsWireCertGuard) closes the connection exactly when a
\* certificate list it refuses has arrived whole, and TLS is never given all of it.
THEOREM GuardAlwaysStopsInTime == Spec => []GuardStopsInTime
<1>1. Init => GuardInv
  BY InitialGuarded
<1>2. QED
  BY <1>1, NextGuarded, GuardInvStops, PTL DEF Spec-------------------------------------------------------------------------------
(* The chain that TLS shows the filter behind the guard.                   *)

\* A chain as it was, or with one more certificate.
IsStep(chain, longer, R) == longer = chain \/ \E e \in R : longer = Append(chain, e)

IsStepBy(m, chain, longer, certs) == longer = Append(chain, certs[m])

\* The first of the list that issued the last of the chain.
IsNext(m, chain, certs) ==
  /\ certs[m] \in IssuersOf(chain, Range(certs))
  /\ \A j \in 1..(m - 1) : certs[j] \notin IssuersOf(chain, Range(certs))

\* The issuer added to a chain: the first one that the client sent, if it sent any.
LEMMA ExtendedFacts ==
  ASSUME NEW R, NEW certs \in Seq(R), NEW store \in SUBSET R, NEW chain \in Seq(R)
  PROVE  /\ IsStep(chain, Extended(chain, certs, store), R)
         /\ \A m \in DOMAIN certs :
              IsNext(m, chain, certs) => IsStepBy(m, chain, Extended(chain, certs, store), certs)
<1> DEFINE sent == IssuersOf(chain, Range(certs))
           kept == IssuersOf(chain, store)
           T == {i \in DOMAIN certs : certs[i] \in sent}
           IsFirst(i) == certs[i] \in sent /\ \A j \in 1..(i - 1) : certs[j] \notin sent
           first == CHOOSE i \in DOMAIN certs : IsFirst(i)
           e == CHOOSE c \in kept : TRUE
<1>1. Len(certs) \in Nat /\ DOMAIN certs = 1..Len(certs) /\ \A i \in DOMAIN certs : certs[i] \in R
  OBVIOUS
<1>2. Extended(chain, certs, store) =
        IF sent # {} THEN Append(chain, certs[first])
        ELSE IF kept # {} THEN Append(chain, e) ELSE chain
  BY DEF Extended
<1>3. sent # {} => T # {}
  BY DEF IssuersOf, Range
<1>4. kept \in SUBSET R
  BY DEF IssuersOf
<1> HIDE DEF sent, kept
<1>5. ASSUME sent # {}
      PROVE  first \in DOMAIN certs /\ IsFirst(first)
  <2>1. T \in SUBSET Nat /\ T # {} /\ T \subseteq DOMAIN certs
    BY <1>1, <1>3, <1>5
  <2>2. \A i \in DOMAIN certs : i \in T <=> certs[i] \in sent
    OBVIOUS
  <2> HIDE DEF T
  <2>3. PICK i \in T : \A j \in T : i =< j
    BY <2>1, Least
  <2>4. ASSUME NEW j \in 1..(i - 1)
        PROVE  certs[j] \notin sent
    <3>1. i \in 1..Len(certs)
      BY <1>1, <2>1, <2>3
    <3>2. j \in 1..Len(certs) /\ ~(i =< j)
      BY <1>1, <3>1
    <3>3. QED
      BY <1>1, <2>2, <2>3, <3>2
  <2>5. i \in DOMAIN certs /\ IsFirst(i)
    BY <2>1, <2>2, <2>3, <2>4
  <2> HIDE DEF IsFirst
  <2>6. QED
    BY <2>5
<1>6. ASSUME NEW m \in DOMAIN certs, IsFirst(m)
      PROVE  m = first
  <2>1. sent # {}
    BY <1>6
  <2>2. first \in DOMAIN certs /\ IsFirst(first)
    BY <1>5, <2>1
  <2> HIDE DEF first
  <2>3. ~(m < first) /\ ~(first < m)
    <3>1. m < first => m \in 1..(first - 1)
      BY <1>1, <2>2
    <3>2. first < m => first \in 1..(m - 1)
      BY <1>1, <2>2
    <3>3. QED
      BY <1>6, <2>2, <3>1, <3>2
  <2>4. QED
    BY <1>1, <2>2, <2>3
<1>7. kept # {} => e \in R
  BY <1>4
<1> HIDE DEF first, e, T
<1>8. \/ Extended(chain, certs, store) = chain
      \/ \E c \in R : Extended(chain, certs, store) = Append(chain, c)
  BY <1>1, <1>2, <1>5, <1>7
<1>9. ASSUME NEW m \in DOMAIN certs, IsFirst(m)
      PROVE  Extended(chain, certs, store) = Append(chain, certs[m])
  BY <1>2, <1>6, <1>9
<1>10. QED
  BY <1>8, <1>9 DEF sent, IsStep, IsStepBy, IsNext

\* The walk from issuer to issuer.
ChainWalk(f, certs, store, n) ==
  f = [j \in 1..n |-> IF j = 1 THEN <<certs[1]>> ELSE Extended(f[j - 1], certs, store)]

LEMMA ChainWalkExists ==
  ASSUME NEW certs, NEW store, NEW n \in Nat
  PROVE  \E f : ChainWalk(f, certs, store, n)
<1> DEFINE S == {m \in Nat : \E f : ChainWalk(f, certs, store, m)}
<1>1. 0 \in S
  <2> DEFINE f == [j \in 1..0 |-> 0]
  <2>1. ChainWalk(f, certs, store, 0)
    BY DEF ChainWalk
  <2>2. QED
    BY <2>1
<1>2. ASSUME NEW m \in 0..(n - 1), m \in S
      PROVE  m + 1 \in S
  <2>1. PICK f : ChainWalk(f, certs, store, m)
    BY <1>2
  <2> DEFINE g == [j \in 1..(m + 1) |->
                     IF j = 1 THEN <<certs[1]>> ELSE Extended(f[j - 1], certs, store)]
  <2>2. ASSUME NEW i \in 1..m
        PROVE  g[i] = f[i]
    BY <2>1 DEF ChainWalk
  <2> HIDE DEF g
  <2>3. \A j \in 1..(m + 1) : j # 1 => j - 1 \in 1..m
    OBVIOUS
  <2>4. g = [j \in 1..(m + 1) |->
               IF j = 1 THEN <<certs[1]>> ELSE Extended(g[j - 1], certs, store)]
    BY <2>2, <2>3 DEF g
  <2>5. ChainWalk(g, certs, store, m + 1) /\ m + 1 \in Nat
    BY <2>4 DEF ChainWalk
  <2>6. QED
    BY <2>5
<1>3. n \in 0..n
  OBVIOUS
<1> HIDE DEF S
<1>4. n \in S
  BY <1>1, <1>2, <1>3, UpTo
<1>5. QED
  BY <1>4 DEF S
\* p is the beginning of q.
Leads(p, q) == Len(p) =< Len(q) /\ \A i \in 1..Len(p) : p[i] = q[i]

LEMMA AppendFacts ==
  ASSUME NEW R, NEW p \in Seq(R), NEW e \in R
  PROVE  /\ Append(p, e) \in Seq(R) /\ Len(Append(p, e)) = Len(p) + 1
         /\ \A i \in 1..Len(p) : Append(p, e)[i] = p[i]
         /\ Append(p, e)[Len(p) + 1] = e
OBVIOUS

\* What a walk of n chains of certificates of R is: each the beginning of the last.
IsWalked(f, certs, store, n, R) ==
  /\ \A k \in 1..n : f[k] \in Seq(R) /\ Len(f[k]) > 0 /\ Leads(f[k], f[n])
  /\ \A k \in 1..(n - 1) : f[k + 1] = Extended(f[k], certs, store)
  /\ f[1] = <<certs[1]>>

LEMMA ChainWalkFacts ==
  ASSUME NEW R, NEW certs \in Seq(R), certs # <<>>, NEW store \in SUBSET R,
         NEW n \in Nat \ {0}, NEW f, ChainWalk(f, certs, store, n)
  PROVE  IsWalked(f, certs, store, n, R)
<1>1. f[1] = <<certs[1]>>
  <2>1. 1 \in 1..n
    OBVIOUS
  <2>2. QED
    BY <2>1 DEF ChainWalk
<1>2. ASSUME NEW k \in 1..(n - 1)
      PROVE  f[k + 1] = Extended(f[k], certs, store)
  <2>1. k + 1 \in 1..n /\ k + 1 # 1 /\ k + 1 - 1 = k
    OBVIOUS
  <2>2. QED
    BY <2>1 DEF ChainWalk
<1>3. certs[1] \in R
  OBVIOUS
<1>4. ASSUME NEW k \in 1..(n - 1), f[k] \in Seq(R), Len(f[k]) > 0
      PROVE  f[k + 1] \in Seq(R) /\ Len(f[k + 1]) > 0 /\ Leads(f[k], f[k + 1])
  <2> DEFINE p == f[k]
  <2>1. p \in Seq(R) /\ Len(p) > 0
    BY <1>4
  <2> HIDE DEF p
  <2>2. Extended(f[k], certs, store) = Extended(p, certs, store)
    BY DEF p
  <2>10. f[k + 1] = p \/ \E e \in R : f[k + 1] = Append(p, e)
    <3>1. IsStep(p, Extended(p, certs, store), R)
      BY <2>1, ExtendedFacts
    <3>2. QED
      BY <1>2, <2>2, <3>1 DEF IsStep
  <2>3. ASSUME NEW e \in R
        PROVE  /\ Append(p, e) \in Seq(R) /\ Len(Append(p, e)) = Len(p) + 1
               /\ \A i \in 1..Len(p) : Append(p, e)[i] = p[i]
    BY <2>1, AppendFacts
  <2>4. Len(p) \in Nat /\ Leads(p, p)
    BY <2>1 DEF Leads
  <2>5. ASSUME NEW e \in R
        PROVE  Len(Append(p, e)) > 0 /\ Leads(p, Append(p, e))
    BY <2>3, <2>4 DEF Leads
  <2>6. f[k + 1] \in Seq(R) /\ Len(f[k + 1]) > 0 /\ Leads(p, f[k + 1])
    BY <2>1, <2>10, <2>3, <2>4, <2>5
  <2>7. QED
    BY <2>6 DEF p
<1> DEFINE S == {k \in Nat : k < n => f[k + 1] \in Seq(R) /\ Len(f[k + 1]) > 0}
<1>5. 0 \in S
  <2>1. f[1] \in Seq(R) /\ Len(f[1]) > 0
    <3> DEFINE one == <<certs[1]>>
    <3>1. one \in Seq(R) /\ Len(one) > 0
      BY <1>3
    <3>2. QED
      BY <1>1, <3>1
  <2>2. 0 + 1 = 1
    OBVIOUS
  <2>3. QED
    BY <2>1, <2>2
<1>6. ASSUME NEW k \in 0..(n - 1), k \in S
      PROVE  k + 1 \in S
  <2>1. CASE k + 1 < n
    <3>1. k + 1 \in 1..(n - 1) /\ f[k + 1] \in Seq(R) /\ Len(f[k + 1]) > 0
      BY <1>6, <2>1
    <3>2. f[k + 1 + 1] \in Seq(R) /\ Len(f[k + 1 + 1]) > 0
      BY <1>4, <3>1
    <3>3. QED
      BY <3>2
  <2>2. CASE ~(k + 1 < n)
    BY <2>2
  <2>3. QED
    BY <2>1, <2>2
<1>7. \A k \in 0..n : k \in S
  <2> HIDE DEF S
  <2>1. QED
    BY <1>5, <1>6, UpTo
<1>8. ASSUME NEW k \in 1..n
      PROVE  f[k] \in Seq(R) /\ Len(f[k]) > 0
  <2>1. k - 1 \in 0..n /\ k - 1 < n /\ k - 1 + 1 = k
    OBVIOUS
  <2>2. k - 1 \in S
    BY <1>7, <2>1
  <2>3. QED
    BY <2>1, <2>2
<1> HIDE DEF S
<1> DEFINE D == {k \in Nat : k < n => Leads(f[n - k], f[n])}
<1>9. 0 \in D
  <2>1. f[n] \in Seq(R) /\ n - 0 = n
    BY <1>8
  <2>2. Leads(f[n], f[n])
    BY <2>1 DEF Leads
  <2>3. QED
    BY <2>1, <2>2
<1>10. ASSUME NEW k \in 0..(n - 1), k \in D
       PROVE  k + 1 \in D
  <2>1. CASE k + 1 < n
    <3> DEFINE m == n - (k + 1)
               p == f[m]
               q == f[m + 1]
               last == f[n]
    <3>1. m \in 1..(n - 1) /\ m + 1 = n - k /\ m \in 1..n /\ n - k \in 1..n
      BY <2>1
    <3>2. Leads(f[n - k], f[n])
      BY <1>10, <3>1
    <3>3. p \in Seq(R) /\ Len(p) > 0
      BY <1>8, <3>1
    <3>4. q \in Seq(R) /\ Leads(p, q) /\ Leads(q, last) /\ last \in Seq(R)
      BY <1>4, <1>8, <3>1, <3>2, <3>3
    <3> HIDE DEF p, q, last
    <3>5. Leads(p, last)
      <4>1. Len(p) \in Nat /\ Len(q) \in Nat /\ Len(last) \in Nat
        BY <3>3, <3>4
      <4>2. QED
        BY <3>4, <4>1 DEF Leads
    <3>6. QED
      BY <3>5 DEF p, last
  <2>2. CASE ~(k + 1 < n)
    BY <2>2
  <2>3. QED
    BY <2>1, <2>2
<1>11. \A k \in 0..n : k \in D
  <2> HIDE DEF D
  <2>1. QED
    BY <1>9, <1>10, UpTo
<1>12. ASSUME NEW k \in 1..n
       PROVE  Leads(f[k], f[n])
  <2>1. n - k \in 0..n /\ n - k < n /\ n - (n - k) = k
    OBVIOUS
  <2>2. n - k \in D
    BY <1>11, <2>1
  <2>3. QED
    BY <2>1, <2>2
<1> HIDE DEF D
<1>13. QED
  BY <1>1, <1>2, <1>8, <1>12 DEF IsWalked

\* A chain that is the beginning of a list, and the next certificate of the list
\* has the name the last one was issued under, which no certificate before it has.
IsFollowed(n, chain, certs) ==
  /\ \A i \in 1..n : chain[i] = certs[i]
  /\ Subject[certs[n + 1]] = Issuer[certs[n]]
  /\ \A i \in 1..n : Subject[certs[i]] # Issuer[certs[n]]

\* The next certificate of such a list is then the next of the chain.
LEMMA ListFollowed ==
  ASSUME NEW R, NEW certs \in Seq(R), NEW store \in SUBSET R,
         NEW n \in 1..(Len(certs) - 1), NEW chain \in Seq(R), Len(chain) = n,
         IsFollowed(n, chain, certs)
  PROVE  Extended(chain, certs, store) = Append(chain, certs[n + 1])
<1> DEFINE m == n + 1
<1>1. /\ Len(certs) \in Nat /\ DOMAIN certs = 1..Len(certs) /\ m \in DOMAIN certs
      /\ n \in 1..n /\ DOMAIN chain = 1..n /\ m - 1 = n
  OBVIOUS
<1> USE DEF IsFollowed
<1>2. Last(chain) = certs[n]
  BY <1>1 DEF Last
<1>3. \A i \in 1..n : certs[i] \in Range(chain)
  BY <1>1 DEF Range
<1>4. certs[m] \notin Range(chain) /\ certs[m] \in Range(certs)
  BY <1>1 DEF Range
<1>5. certs[m] \in IssuersOf(chain, Range(certs))
  BY <1>1, <1>2, <1>4 DEF IssuersOf
<1>6. \A j \in 1..(m - 1) : certs[j] \notin IssuersOf(chain, Range(certs))
  BY <1>1, <1>3 DEF IssuersOf
<1> HIDE DEF m
<1>7. Extended(chain, certs, store) = Append(chain, certs[m])
  <2>1. m \in DOMAIN certs /\ IsNext(m, chain, certs)
    BY <1>1, <1>5, <1>6 DEF IsNext
  <2>2. IsStepBy(m, chain, Extended(chain, certs, store), certs)
    BY <2>1, ExtendedFacts
  <2>3. QED
    BY <2>2 DEF IsStepBy
<1>8. QED
  BY <1>7 DEF m
\* How many certificates the walk may meet.
LEMMA ReachFacts ==
  ASSUME NEW certs \in Seq(Certs), certs # <<>>, NEW store \in SUBSET Certs, IsFiniteSet(store)
  PROVE  /\ IsFiniteSet(Range(certs) \cup store)
         /\ Cardinality(Range(certs) \cup store) \in Nat \ {0}
         /\ certs \in Seq(Range(certs) \cup store)
<1> DEFINE T == Range(certs)
           R == T \cup store
           I == 1..Len(certs)
<1>1. Len(certs) \in Nat \ {0} /\ DOMAIN certs = I /\ 1 \in I /\ certs \in [I -> Certs]
  BY EmptySeq
<1>2. \A i \in I : certs[i] \in T
  BY <1>1 DEF Range
<1>3. certs \in Surjection(I, T)
  BY <1>1, <1>2 DEF Surjection, Range
<1>4. IsFiniteSet(I)
  BY <1>1, FS_Interval
<1> HIDE DEF I
<1>5. IsFiniteSet(T)
  <2> HIDE DEF T
  <2>1. QED
    BY <1>3, <1>4, FS_Surjection
<1>6. R # {}
  BY <1>1, <1>2
<1> DEFINE card == Cardinality(R)
<1>7. IsFiniteSet(R)
  <2> HIDE DEF T
  <2>1. QED
    BY <1>5, FS_Union
<1>8. \A i \in 1..Len(certs) : certs[i] \in R
  BY <1>2 DEF I
<1> HIDE DEF T, R
<1>9. card \in Nat
  BY <1>7, FS_CardinalityType
<1>10. card # 0
  BY <1>6, <1>7, FS_EmptySet
<1>11. certs \in Seq(R)
  BY <1>1, <1>8
<1>12. QED
  BY <1>7, <1>9, <1>10, <1>11 DEF R, T

LEMMA PeerChainFacts ==
  ASSUME NEW certs \in Seq(Certs), certs # <<>>, NEW store \in SUBSET Certs, IsFiniteSet(store)
  PROVE  \E w : /\ ChainWalk(w, certs, store, Cardinality(Range(certs) \cup store))
                /\ PeerChain(certs, store) = w[Cardinality(Range(certs) \cup store)]
<1> DEFINE n == Cardinality(Range(certs) \cup store)
           w == CHOOSE f : ChainWalk(f, certs, store, n)
<1>1. n \in Nat
  BY ReachFacts
<1>2. \E f : ChainWalk(f, certs, store, n)
  <2> HIDE DEF n
  <2>1. QED
    BY <1>1, ChainWalkExists
<1>3. ChainWalk(w, certs, store, n)
  BY <1>2
<1>4. PeerChain(certs, store) = w[n]
  BY DEF PeerChain, ChainWalk
<1>5. QED
  BY <1>3, <1>4

\* The chain the filter accepts: no certificate is issued under the name of one
\* that is not behind it.
LEMMA AcceptedChainFacts ==
  ASSUME NEW R, NEW chain \in Seq(R), Len(chain) > 0, AcceptsChain(chain)
  PROVE  /\ chain[1] \in AllowedLeaves /\ chain = <<chain[1]>> \o CanonicalChain
         /\ Range(CanonicalChain) \subseteq R
         /\ \A i \in 1..Len(chain) : \A j \in 1..i : Issuer[chain[i]] # Subject[chain[j]]
<1> DEFINE leaf == chain[1]
           whole == <<leaf>> \o CanonicalChain
<1>1. leaf \in AllowedLeaves /\ Tail(chain) = CanonicalChain
  BY DEF AcceptsChain
<1>2. chain = <<Head(chain)>> \o Tail(chain) /\ Tail(chain) \in Seq(R)
  <2>1. Tail(chain) \in Seq(R) /\ Head(chain) \in R
    BY EmptySeq, HeadTailProperties
  <2> DEFINE t == Tail(chain)
             h == <<Head(chain)>>
             q == h \o t
  <2>2. /\ Len(t) = Len(chain) - 1 /\ \A i \in 1..Len(t) : t[i] = chain[i + 1]
        /\ Len(chain) \in Nat /\ Head(chain) = chain[1]
    BY EmptySeq
  <2>3. h \in Seq(R) /\ Len(h) = 1 /\ h[1] = chain[1]
    BY <2>1, <2>2
  <2>4. h \in Seq(R) /\ t \in Seq(R)
    BY <2>1, <2>3
  <2> HIDE DEF h, t
  <2>5. /\ q \in Seq(R) /\ Len(q) = Len(h) + Len(t)
        /\ \A i \in 1..Len(h) : q[i] = h[i]
        /\ \A i \in 1..Len(t) : q[Len(h) + i] = t[i]
    BY <2>4, ConcatFacts
  <2> HIDE DEF q
  <2>6. ASSUME NEW i \in 1..Len(q)
        PROVE  q[i] = chain[i]
    <3>1. CASE i = 1
      BY <2>3, <2>5, <3>1
    <3>2. CASE i # 1
      <4>1. i - 1 \in 1..Len(t) /\ 1 + (i - 1) = i /\ (i - 1) + 1 = i
        BY <2>2, <2>3, <2>5, <3>2
      <4>2. q[1 + (i - 1)] = t[i - 1] /\ t[i - 1] = chain[(i - 1) + 1]
        BY <2>2, <2>3, <2>5, <4>1
      <4>3. QED
        BY <4>1, <4>2
    <3>3. QED
      BY <3>1, <3>2
  <2>7. Len(q) = Len(chain)
    BY <2>2, <2>3, <2>5
  <2>8. q = chain
    BY <2>5, <2>6, <2>7, SameSequence
  <2>9. QED
    BY <2>4, <2>8 DEF q, h, t
<1>3. Head(chain) = leaf
  BY EmptySeq
<1>4. chain = whole
  BY <1>1, <1>2, <1>3
<1>5. \A i \in DOMAIN whole : \A j \in 1..i : Issuer[whole[i]] # Subject[whole[j]]
  BY <1>1, ChainAssumption
<1>6. DOMAIN chain = 1..Len(chain)
  OBVIOUS
<1>7. \A i \in 1..Len(chain) : \A j \in 1..i : Issuer[chain[i]] # Subject[chain[j]]
  <2> HIDE DEF whole
  <2>1. QED
    BY <1>4, <1>5, <1>6
<1>8. Range(CanonicalChain) \subseteq R
  BY <1>1, <1>2 DEF Range
<1>9. QED
  BY <1>1, <1>4, <1>7, <1>8
\* A list that is not refused, and whose chain is accepted, is the beginning of
\* the accepted chain: the chain follows the list to its end, and what it adds
\* comes from the store.
LEMMA ChainIsCanonical ==
  ASSUME NEW certs \in Seq(Certs), certs # <<>>, certs # None, ~Refused(certs),
         NEW store \in SUBSET Certs, IsFiniteSet(store),
         AcceptsChain(PeerChain(certs, store))
  PROVE  \E leaf \in AllowedLeaves :
           /\ IsPrefix(certs, <<leaf>> \o CanonicalChain)
           /\ Range(CanonicalChain) \subseteq Range(certs) \cup store
<1> DEFINE R == Range(certs) \cup store
           n == Cardinality(R)
           c == Len(certs)
<1>1. n \in Nat \ {0} /\ IsFiniteSet(R) /\ certs \in Seq(R) /\ store \in SUBSET R
  BY ReachFacts
<1>2. PICK w : ChainWalk(w, certs, store, n) /\ PeerChain(certs, store) = w[n]
  BY PeerChainFacts
<1> DEFINE F == w[n]
<1>3. c \in Nat \ {0} /\ \A i \in 1..c : certs[i] \in R
  <2> HIDE DEF R
  <2>1. QED
    BY <1>1, EmptySeq
<1>4. \A i \in 1..(c - 1) : Issuer[certs[i]] = Subject[certs[i + 1]]
  BY DEF Refused, HasLinkBreak
<1> HIDE DEF R, n
<1>5. /\ \A k \in 1..n : w[k] \in Seq(R) /\ Len(w[k]) > 0 /\ Leads(w[k], F)
      /\ \A k \in 1..(n - 1) : w[k + 1] = Extended(w[k], certs, store)
      /\ w[1] = <<certs[1]>>
  <2>1. IsWalked(w, certs, store, n, R)
    BY <1>1, <1>2, ChainWalkFacts
  <2>2. QED
    BY <2>1 DEF IsWalked
<1>6. F \in Seq(R) /\ Len(F) > 0 /\ AcceptsChain(F) /\ Len(F) \in Nat
  <2>1. n \in 1..n
    BY <1>1
  <2>2. QED
    BY <1>2, <1>5, <2>1
<1> HIDE DEF F, c
<1>7. /\ F[1] \in AllowedLeaves /\ F = <<F[1]>> \o CanonicalChain
      /\ Range(CanonicalChain) \subseteq R
      /\ \A i \in 1..Len(F) : \A j \in 1..i : Issuer[F[i]] # Subject[F[j]]
  BY <1>6, AcceptedChainFacts
<1> DEFINE Agrees(k) == Len(w[k]) = k /\ \A i \in 1..k : w[k][i] = certs[i]
<1>8. ASSUME NEW k \in 1..n, Agrees(k)
      PROVE  k =< Len(F) /\ \A i \in 1..k : F[i] = certs[i]
  <2>1. Leads(w[k], F)
    BY <1>5
  <2>2. QED
    BY <1>8, <2>1 DEF Leads
<1>9. Agrees(1)
  <2>1. \A i \in 1..1 : i = 1
    OBVIOUS
  <2>2. QED
    BY <1>5, <2>1
<1>10. ASSUME NEW k \in 1..(n - 1), k < c, Agrees(k)
       PROVE  Agrees(k + 1)
  <2> DEFINE p == w[k]
             e == certs[k + 1]
             q == w[k + 1]
  <2>1. /\ k \in 1..n /\ k \in 1..(c - 1) /\ k \in 1..k /\ k \in Nat /\ k + 1 \in 1..c
        /\ \A i \in 1..k : i \in 1..c
    BY <1>1, <1>3, <1>10
  <2>2. k \in 1..Len(F) /\ \A i \in 1..k : F[i] = certs[i]
    BY <1>8, <1>10, <2>1
  <2>3. \A i \in 1..k : Subject[certs[i]] # Issuer[certs[k]]
    BY <1>7, <2>1, <2>2
  <2>4. Subject[e] = Issuer[certs[k]]
    BY <1>4, <2>1
  <2>5. p \in Seq(R) /\ Len(p) = k /\ \A i \in 1..k : p[i] = certs[i]
    BY <1>5, <1>10, <2>1
  <2>6. q = Extended(p, certs, store)
    BY <1>5
  <2>7. e \in R
    BY <1>3, <2>1
  <2> HIDE DEF p, q
  <2>8. Extended(p, certs, store) = Append(p, certs[k + 1])
    <3>1. IsFollowed(k, p, certs) /\ k \in 1..(Len(certs) - 1)
      BY <2>1, <2>3, <2>4, <2>5 DEF IsFollowed, c
    <3>2. QED
      BY <1>1, <2>5, <3>1, ListFollowed
  <2> HIDE DEF e
  <2>9. q = Append(p, e)
    BY <2>6, <2>8 DEF e
  <2>10. Len(q) = k + 1 /\ (\A i \in 1..k : q[i] = certs[i]) /\ q[k + 1] = e
    BY <2>5, <2>7, <2>9, AppendFacts
  <2>11. \A i \in 1..(k + 1) : i \in 1..k \/ i = k + 1
    BY <2>1
  <2>12. Len(q) = k + 1 /\ \A i \in 1..(k + 1) : q[i] = certs[i]
    BY <2>10, <2>11 DEF e
  <2>13. QED
    BY <2>12 DEF q
<1> DEFINE S == {k \in Nat : k < n /\ k < c => Agrees(k + 1)}
<1>11. 0 \in S
  <2>1. 0 + 1 = 1
    OBVIOUS
  <2> HIDE DEF Agrees
  <2>2. QED
    BY <1>9, <2>1
<1>12. ASSUME NEW k \in 0..(n - 1), k \in S
       PROVE  k + 1 \in S
  <2> HIDE DEF Agrees
  <2>1. CASE k + 1 < n /\ k + 1 < c
    <3>1. k + 1 \in 1..(n - 1) /\ Agrees(k + 1)
      BY <1>1, <1>3, <1>12, <2>1
    <3>2. Agrees(k + 1 + 1)
      BY <1>10, <2>1, <3>1
    <3>3. QED
      BY <3>2
  <2>2. CASE ~(k + 1 < n /\ k + 1 < c)
    BY <2>2
  <2>3. QED
    BY <2>1, <2>2
<1> HIDE DEF Agrees
<1>13. \A k \in 0..n : k \in S
  <2> HIDE DEF S
  <2>1. QED
    BY <1>1, <1>11, <1>12, UpTo
<1>14. ASSUME NEW k \in 1..n, k =< c
       PROVE  k =< Len(F) /\ \A i \in 1..k : F[i] = certs[i]
  <2>1. k - 1 \in 0..n /\ k - 1 < n /\ k - 1 < c /\ k - 1 + 1 = k
    BY <1>1, <1>3, <1>14
  <2>2. k - 1 \in S
    BY <1>13, <2>1
  <2>3. Agrees(k)
    BY <2>1, <2>2
  <2>4. QED
    BY <1>8, <2>3
<1> HIDE DEF S
<1>15. c =< n
  <2>1. ASSUME c > n
        PROVE  FALSE
    <3> DEFINE I == 1..(n + 1)
               g == [i \in I |-> certs[i]]
    <3>1. n \in 1..n /\ n =< c /\ \A i \in I : i \in 1..c
      BY <1>1, <1>3, <2>1
    <3>2. n =< Len(F) /\ \A i \in 1..n : F[i] = certs[i]
      BY <1>14, <3>1
    <3>3. ASSUME NEW i \in I, NEW j \in I, j < i
          PROVE  certs[i] # certs[j]
      <4>1. i - 1 \in 1..n /\ j \in 1..n /\ j \in 1..(i - 1) /\ i - 1 \in 1..Len(F) /\ i - 1 + 1 = i
            /\ i - 1 \in 1..(c - 1)
        BY <1>1, <1>3, <1>6, <2>1, <3>2, <3>3
      <4>2. Issuer[F[i - 1]] # Subject[F[j]]
        BY <1>7, <4>1
      <4>3. F[i - 1] = certs[i - 1] /\ F[j] = certs[j]
        BY <3>2, <4>1
      <4>4. Issuer[certs[i - 1]] = Subject[certs[i]]
        BY <1>4, <4>1 DEF c
      <4>5. QED
        BY <4>2, <4>3, <4>4
    <3>4. \A i, j \in I : i < j \/ j < i \/ i = j
      BY <1>1
    <3>5. g \in [I -> R]
      BY <1>3, <3>1
    <3>6. \A i, j \in I : g[i] = g[j] => i = j
      BY <3>3, <3>4
    <3>7. g \in Injection(I, R)
      BY <3>5, <3>6 DEF Injection, IsInjective
    <3>8. Cardinality(I) = n + 1
      BY <1>1, FS_Interval
    <3> HIDE DEF I, g
    <3>9. Cardinality(I) =< Cardinality(R)
      BY <1>1, <3>7, FS_Injection
    <3>10. QED
      BY <1>1, <3>8, <3>9 DEF n
  <2>2. QED
    BY <1>1, <1>3, <2>1
<1>16. c =< Len(F) /\ \A i \in 1..c : F[i] = certs[i]
  <2>1. c \in 1..n /\ c =< c
    BY <1>1, <1>3, <1>15
  <2>2. QED
    BY <1>14, <2>1
<1>17. IsPrefix(certs, F)
  <2> DEFINE s == SubSeq(certs, 1, Len(certs))
             t == SubSeq(F, 1, Len(certs))
  <2>1. certs \in Seq(R) /\ Len(certs) = c
    BY <1>1 DEF c
  <2>2. s \in Seq(R) /\ Len(s) = c /\ \A i \in 1..c : s[i] = certs[i]
    BY <1>3, <2>1
  <2>3. t \in Seq(R) /\ Len(t) = c /\ \A i \in 1..c : t[i] = F[i]
    BY <1>3, <1>6, <1>16, <2>1
  <2> HIDE DEF s, t
  <2>4. s = t
    BY <1>16, <2>2, <2>3, SameSequence
  <2>5. QED
    BY <1>16, <2>1, <2>4 DEF s, t, IsPrefix
<1>18. QED
  BY <1>7, <1>17 DEF R
-------------------------------------------------------------------------------
(* Who is greeted.                                                         *)

\* A greeted client has sent all of its handshake, and passed the filter.
GreetInv ==
  stage = "greeted" => wire = <<>> /\ presented # None /\ ~IsFiltered

LEMMA GivenStays == [Next]_vars => UNCHANGED given
<1> SUFFICES ASSUME [Next]_vars PROVE UNCHANGED given
  OBVIOUS
<1>1. CASE Chunk
  BY <1>1 DEF Chunk, Deny, Forward, TakeChunk
<1>2. CASE Handover
  BY <1>2 DEF Handover, FailHandshake, TurnAway, Greet
<1>3. CASE Disconnect
  BY <1>3 DEF Disconnect
<1>4. ASSUME NEW clid \in Clids, NEW password \in Passwords, NEW supported \in BOOLEAN,
             Login(clid, password, supported) \/ RefuseLogin(clid, password, supported)
      PROVE  UNCHANGED given
  BY <1>4 DEF Login, RefuseLogin, CountLogin
<1>5. CASE Logout
  BY <1>5 DEF Logout, CountLogin
<1>6. CASE UNCHANGED vars
  BY <1>6 DEF vars
<1>7. QED
  BY <1>1, <1>2, <1>3, <1>4, <1>5, <1>6 DEF Next

LEMMA SituationStays == Situation /\ [Next]_vars => Situation'
<1> SUFFICES ASSUME Situation, [Next]_vars PROVE Situation'
  OBVIOUS
<1>1. UNCHANGED <<settings, presented, flight>>
  BY GivenStays DEF given
<1>2. PICK c \in Settings, n \in FragmentSizes :
        \E certs \in IF c.tls /\ c.requireCert THEN Presentations ELSE {<<>>} :
          /\ settings = c /\ presented = certs
          /\ flight = IF RejectsVariations(c) THEN Flight(certs, c.requireCert, n) ELSE <<>>
  BY DEF Situation
<1>3. QED
  BY <1>1, <1>2 DEF Situation

\* The filter's decision depends on nothing that changes.
LEMMA FilterStays ==
  ASSUME UNCHANGED given
  PROVE  IsFiltered' <=> IsFiltered
<1>1. UNCHANGED <<settings, presented>>
  BY DEF given
<1>2. Exposed' = Exposed
  BY <1>1 DEF Exposed
<1>3. RejectsVariations(settings)' <=> RejectsVariations(settings)
  BY <1>1 DEF RejectsVariations
<1>4. AcceptsChain(Exposed)' <=> AcceptsChain(Exposed)
  BY <1>2 DEF AcceptsChain
<1>5. QED
  BY <1>1, <1>3, <1>4 DEF IsFiltered

LEMMA NextGreets == GreetInv /\ [Next]_vars => GreetInv'
<1> SUFFICES ASSUME GreetInv, [Next]_vars PROVE GreetInv'
  OBVIOUS
<1>1. UNCHANGED presented /\ (IsFiltered' <=> IsFiltered)
  <2>1. UNCHANGED given
    BY GivenStays
  <2>2. QED
    BY <2>1, FilterStays DEF given
<1>2. SUFFICES ASSUME stage' = "greeted"
               PROVE  wire' = <<>> /\ presented # None /\ ~IsFiltered
  BY <1>1 DEF GreetInv
<1>3. stage = "greeted" => wire = <<>> /\ presented # None /\ ~IsFiltered
  BY DEF GreetInv
<1>4. CASE Chunk
  BY <1>2, <1>4 DEF Chunk, Deny, Forward, TakeChunk
<1>5. CASE Handover
  BY <1>2, <1>5 DEF Handover, FailHandshake, TurnAway, Greet, Connected, guardVars
<1>6. CASE Disconnect
  BY <1>2, <1>6 DEF Disconnect
<1>7. ASSUME NEW clid \in Clids, NEW password \in Passwords, NEW supported \in BOOLEAN,
             Login(clid, password, supported) \/ RefuseLogin(clid, password, supported)
      PROVE  wire' = <<>> /\ presented # None /\ ~IsFiltered
  BY <1>2, <1>3, <1>7 DEF Login, RefuseLogin, CountLogin, guardVars
<1>8. CASE Logout
  BY <1>2, <1>3, <1>8 DEF Logout, CountLogin, guardVars
<1>9. CASE UNCHANGED vars
  BY <1>2, <1>3, <1>9 DEF vars, guardVars
<1>10. QED
  BY <1>4, <1>5, <1>6, <1>7, <1>8, <1>9 DEF Next

LEMMA GreetedFacts == Situation /\ GuardInv /\ GreetInv => GreetedIsCanonical
<1> SUFFICES ASSUME Situation, GuardInv, GreetInv,
                    stage = "greeted", RejectsVariations(settings)
             PROVE  \E leaf \in AllowedLeaves :
                      /\ presented # <<>>
                      /\ IsPrefix(presented, <<leaf>> \o CanonicalChain)
                      /\ Range(CanonicalChain) \subseteq Range(presented) \cup settings.store
  BY DEF GreetedIsCanonical
<1>1. wire = <<>> /\ presented # None /\ AcceptsChain(Exposed)
  BY DEF GreetInv, IsFiltered
<1>2. /\ settings.tls /\ settings.requireCert
      /\ AcceptsChain(PeerChain(presented, settings.store)) /\ presented # <<>>
  <2>1. Exposed # <<>>
    BY <1>1 DEF AcceptsChain
  <2>2. settings.tls /\ settings.requireCert /\ Exposed = PeerChain(presented, settings.store)
    BY <2>1 DEF Exposed
  <2>3. presented # <<>>
    BY <2>1, <2>2 DEF PeerChain
  <2>4. QED
    BY <1>1, <2>2, <2>3
<1>3. PICK c \in Settings, n \in FragmentSizes :
        \E certs \in IF c.tls /\ c.requireCert THEN Presentations ELSE {<<>>} :
          /\ settings = c /\ presented = certs
          /\ flight = IF RejectsVariations(c) THEN Flight(certs, c.requireCert, n) ELSE <<>>
  BY DEF Situation
<1>4. /\ settings \in Settings /\ presented \in Presentations
      /\ flight = Flight(presented, settings.requireCert, n)
  BY <1>2, <1>3
<1>5. settings.requireCert = TRUE
  BY <1>2, <1>4, SettingFacts
<1>6. ~HasRefused(CompleteMessages(flight))
  <2>1. PICK d \in Stream(RecordBodies) :
          flight = d \o wire /\ (rejected <=> HasRefused(CompleteMessages(d)))
    BY DEF GuardInv, Guarded
  <2>2. d \o <<>> = d
    BY ConcatEmptySeq DEF Stream
  <2>3. ~rejected
    BY DEF GuardInv, ClosedByGuard
  <2>4. QED
    BY <1>1, <2>1, <2>2, <2>3
<1>7. ~Refused(presented)
  BY <1>4, <1>5, <1>6, FlightSeen
<1>8. presented \in Seq(Certs)
  BY <1>1, <1>4, CertificateAssumption
<1>9. settings.store \in SUBSET Certs /\ IsFiniteSet(settings.store)
  BY <1>4, SettingFacts
<1> DEFINE store == settings.store
<1>10. /\ store \in SUBSET Certs /\ IsFiniteSet(store)
       /\ AcceptsChain(PeerChain(presented, store))
  BY <1>2, <1>9
<1> HIDE DEF store
<1>11. \E leaf \in AllowedLeaves :
         /\ IsPrefix(presented, <<leaf>> \o CanonicalChain)
         /\ Range(CanonicalChain) \subseteq Range(presented) \cup store
  BY <1>1, <1>2, <1>7, <1>8, <1>10, ChainIsCanonical
<1>12. QED
  BY <1>2, <1>11 DEF store

\* With TRUST_CERT_VARIATIONS=false, whoever is greeted (temporaryDebugCertDecision
\* after the guard) sent an allowed leaf and the canonical issuers behind it; only
\* what the server's store has may be missing.
THEOREM GreetedIsAlwaysCanonical == Spec => []GreetedIsCanonical
<1>1. Init => GuardInv /\ GreetInv /\ Situation
  BY InitialGuarded, InitialSituation DEF Init, GreetInv
<1>2. QED
  BY <1>1, NextGuarded, NextGreets, SituationStays, GreetedFacts, PTL DEF Spec
-------------------------------------------------------------------------------
(* Who is turned away.                                                     *)

\* Every message of a flight, in whatever records, is one that the client made: the
\* only certificate list that the guard can come across is the one presented.
LEMMA FlightHoldsOneList ==
  ASSUME NEW certs \in Presentations \cup {<<>>}, NEW asked \in BOOLEAN, NEW n \in FragmentSizes,
         HasRefused(CompleteMessages(Flight(certs, asked, n)))
  PROVE  Refused(certs)
<1> DEFINE hello == Message("hello", None)
           list == Message("certificate", certs)
           exchange == Message("keyExchange", None)
           sealed == Message("sealed", None)
           B == {hello, list, exchange, sealed}
           second == SecondFlight(certs, asked)
           data == Hello \o (second \o Sealed)
<1>1. /\ \A m \in B : IsRefusedMessage(m) => Refused(certs)
      /\ hello \in B /\ list \in B /\ exchange \in B /\ sealed \in B
  BY DEF IsRefusedMessage, Message
<1> HIDE DEF hello, list, exchange, sealed, B
<1>2. /\ Hello \in Stream(B) /\ CertificateFrame(certs) \in Stream(B)
      /\ KeyExchange \in Stream(B) /\ Sealed \in Stream(B)
  <2>1. 2 \in Nat /\ 0 \in Nat
    OBVIOUS
  <2>2. /\ Encode(hello, 2) \in Stream(B) /\ Encode(list, 2) \in Stream(B)
        /\ Encode(exchange, 2) \in Stream(B) /\ Encode(sealed, 0) \in Stream(B)
    BY <1>1, <2>1, EncodeFacts
  <2>3. QED
    BY <2>2 DEF Hello, CertificateFrame, KeyExchange, Sealed, hello, list, exchange, sealed
<1>3. second \in Stream(B)
  <2>1. <<>> \in Stream(B)
    BY DEF Stream
  <2>2. CertificateFrame(certs) \o KeyExchange \in Stream(B) /\ <<>> \o KeyExchange \in Stream(B)
    BY <1>2, <2>1, StreamConcat
  <2>3. second = (IF asked THEN CertificateFrame(certs) ELSE <<>>) \o KeyExchange
    BY DEF SecondFlight, CertificateFrame, KeyExchange
  <2>4. QED
    BY <2>2, <2>3
<1> HIDE DEF second
<1>4. data \in Stream(B)
  <2>1. second \o Sealed \in Stream(B)
    BY <1>2, <1>3, StreamConcat
  <2>2. QED
    BY <1>2, <2>1, StreamConcat
<1>5. CompleteMessages(Flight(certs, asked, n)) = Messages(data)
  BY FlightFacts DEF CompleteMessages, second
<1> HIDE DEF data
<1>6. Messages(data) \in Seq(B)
  BY <1>4, DecodedBodies
<1> DEFINE found == Messages(data)
<1>7. found \in Seq(B) /\ HasRefused(found)
  BY <1>5, <1>6
<1> HIDE DEF found
<1>8. PICK i \in DOMAIN found : IsRefusedMessage(found[i])
  BY <1>7 DEF HasRefused
<1>9. found[i] \in B
  BY <1>7
<1>10. QED
  BY <1>1, <1>8, <1>9

LEMMA RejectedFacts == Situation /\ GuardInv => (rejected => RejectsVariations(settings) /\ Refused(presented))
<1> SUFFICES ASSUME Situation, GuardInv, rejected
             PROVE  RejectsVariations(settings) /\ Refused(presented)
  OBVIOUS
<1>1. PICK d \in Stream(RecordBodies) :
        /\ flight = d \o wire /\ wire \in Stream(RecordBodies)
        /\ HasRefused(CompleteMessages(d))
  BY DEF GuardInv, Guarded
<1>2. HasRefused(CompleteMessages(flight))
  BY <1>1, TwoDecodersAgree
<1>3. PICK c \in Settings, n \in FragmentSizes :
        \E certs \in IF c.tls /\ c.requireCert THEN Presentations ELSE {<<>>} :
          /\ settings = c /\ presented = certs
          /\ flight = IF RejectsVariations(c) THEN Flight(certs, c.requireCert, n) ELSE <<>>
  BY DEF Situation
<1>4. /\ presented \in Presentations \cup {<<>>} /\ settings.requireCert \in BOOLEAN
      /\ flight = IF RejectsVariations(settings) THEN Flight(presented, settings.requireCert, n)
                  ELSE <<>>
  BY <1>3, SettingFacts
<1>5. RejectsVariations(settings)
  BY <1>2, <1>4, NothingSent
<1>6. Refused(presented)
  BY <1>2, <1>4, <1>5, FlightHoldsOneList
<1>7. QED
  BY <1>5, <1>6

\* However a handshake is cut into records and chunks, the guard closes no
\* connection but one that has to present certificates, is told not to accept
\* variations, and carries a list that starts with no known leaf or has a link that
\* does not fit: nothing else on the wire is ever taken for such a list.
THEOREM GuardRefusesNothingElse ==
  Spec => [](rejected => RejectsVariations(settings) /\ Refused(presented))
<1>1. Init => GuardInv /\ Situation
  BY InitialGuarded, InitialSituation
<1>2. QED
  BY <1>1, NextGuarded, SituationStays, RejectedFacts, PTL DEF Spec

\* Each certificate of the list is issued by the next one.
IsLinked(certs) == \A i \in 1..(Len(certs) - 1) : Issuer[certs[i]] = Subject[certs[i + 1]]

\* None of them by itself or one before it.
NeverTurnsBack(certs) ==
  \A i \in 1..Len(certs) : \A j \in 1..i : Issuer[certs[i]] # Subject[certs[j]]

\* The store does not have the issuer of the last one.
EndsOutside(certs, store) == \A e \in store : Subject[e] # Issuer[certs[Len(certs)]]

\* The chain goes along such a list.
LEMMA LinkFollowed ==
  ASSUME NEW certs, NEW n \in 1..(Len(certs) - 1), NEW chain,
         \A i \in 1..n : chain[i] = certs[i], IsLinked(certs), NeverTurnsBack(certs)
  PROVE  IsFollowed(n, chain, certs)
<1>1. Subject[certs[n + 1]] = Issuer[certs[n]]
  BY DEF IsLinked
<1>2. \A i \in 1..n : Subject[certs[i]] # Issuer[certs[n]]
  BY DEF NeverTurnsBack
<1>3. QED
  BY <1>1, <1>2 DEF IsFollowed

\* A list that goes from issuer to issuer without coming back repeats nothing.  (The
\* last certificate may be issued under a name that occurs before.)
LEMMA DistinctAlong ==
  ASSUME NEW R, IsFiniteSet(R), NEW certs \in Seq(R), IsLinked(certs),
         \A i \in 1..(Len(certs) - 1) : \A j \in 1..i : Issuer[certs[i]] # Subject[certs[j]]
  PROVE  Len(certs) =< Cardinality(R)
<1> DEFINE c == Len(certs)
           I == 1..c
<1>1. c \in Nat
  OBVIOUS
<1>2. ASSUME NEW i \in I, NEW j \in I, j < i
      PROVE  certs[i] # certs[j]
  <2>1. i - 1 \in 1..(c - 1) /\ j \in 1..(i - 1) /\ i - 1 + 1 = i
    BY <1>1, <1>2
  <2>2. Issuer[certs[i - 1]] = Subject[certs[i]] /\ Issuer[certs[i - 1]] # Subject[certs[j]]
    BY <2>1 DEF IsLinked
  <2>3. QED
    BY <2>2
<1>3. \A i, j \in I : i < j \/ j < i \/ i = j
  BY <1>1
<1>4. certs \in [I -> R]
  OBVIOUS
<1>5. \A i, j \in I : certs[i] = certs[j] => i = j
  BY <1>2, <1>3
<1>6. certs \in Injection(I, R)
  BY <1>4, <1>5 DEF Injection, IsInjective
<1> HIDE DEF c
<1>7. Cardinality(I) = c
  <2>1. 1..c = I /\ c - 1 + 1 = c /\ (1 > c => c = 0)
    BY <1>1
  <2>2. QED
    BY <1>1, <2>1, FS_Interval
<1> HIDE DEF I
<1>8. Cardinality(I) =< Cardinality(R)
  BY <1>6, FS_Injection
<1>9. QED
  BY <1>7, <1>8 DEF c

\* A list that leads from issuer to issuer without coming back is a part of the
\* walk: the walk goes along it, whatever the store has.
LEMMA ListIsWalked ==
  ASSUME NEW R, IsFiniteSet(R), NEW certs \in Seq(R), certs # <<>>, NEW store \in SUBSET R,
         NEW n \in Nat \ {0}, n = Cardinality(R),
         NEW w, ChainWalk(w, certs, store, n), IsLinked(certs), NeverTurnsBack(certs)
  PROVE  Len(certs) \in 1..n /\ w[Len(certs)] = certs
<1> DEFINE c == Len(certs)
<1>1. c \in Nat \ {0} /\ \A i \in 1..c : certs[i] \in R
  BY EmptySeq
<1>2. /\ \A k \in 1..n : w[k] \in Seq(R)
      /\ \A k \in 1..(n - 1) : w[k + 1] = Extended(w[k], certs, store)
      /\ w[1] = <<certs[1]>>
  <2>1. IsWalked(w, certs, store, n, R)
    BY ChainWalkFacts
  <2>2. QED
    BY <2>1 DEF IsWalked
<1>3. c =< n
  <2>1. \A i \in 1..(c - 1) : \A j \in 1..i : Issuer[certs[i]] # Subject[certs[j]]
    BY <1>1 DEF NeverTurnsBack
  <2>2. QED
    BY <2>1, DistinctAlong
<1> DEFINE Agrees(k) == Len(w[k]) = k /\ \A i \in 1..k : w[k][i] = certs[i]
<1>4. Agrees(1)
  <2>1. \A i \in 1..1 : i = 1
    OBVIOUS
  <2>2. QED
    BY <1>2, <2>1
<1> HIDE DEF c
<1>5. ASSUME NEW k \in 1..(n - 1), k < c, Agrees(k)
      PROVE  Agrees(k + 1)
  <2> DEFINE p == w[k]
             e == certs[k + 1]
             q == w[k + 1]
  <2>1. /\ k \in 1..n /\ k \in 1..(c - 1) /\ k \in Nat /\ k + 1 \in 1..c
    BY <1>1, <1>5
  <2>2. p \in Seq(R) /\ Len(p) = k /\ \A i \in 1..k : p[i] = certs[i]
    BY <1>2, <1>5, <2>1
  <2>3. q = Extended(p, certs, store)
    BY <1>2
  <2>4. e \in R
    BY <1>1, <2>1
  <2> HIDE DEF p, q
  <2>5. Extended(p, certs, store) = Append(p, certs[k + 1])
    <3>1. k \in 1..(Len(certs) - 1)
      BY <2>1 DEF c
    <3>2. IsFollowed(k, p, certs)
      BY <2>2, <3>1, LinkFollowed
    <3>3. QED
      BY <2>2, <3>1, <3>2, ListFollowed
  <2> HIDE DEF e
  <2>6. q = Append(p, e)
    BY <2>3, <2>5 DEF e
  <2>7. Len(q) = k + 1 /\ (\A i \in 1..k : q[i] = certs[i]) /\ q[k + 1] = e
    BY <2>2, <2>4, <2>6, AppendFacts
  <2>8. \A i \in 1..(k + 1) : i \in 1..k \/ i = k + 1
    BY <2>1
  <2>9. Len(q) = k + 1 /\ \A i \in 1..(k + 1) : q[i] = certs[i]
    BY <2>7, <2>8 DEF e
  <2>10. QED
    BY <2>9 DEF q
<1> HIDE DEF Agrees
<1> DEFINE S == {k \in Nat : k < c => Agrees(k + 1)}
<1>6. 0 \in S
  BY <1>4
<1>7. ASSUME NEW k \in 0..(c - 1), k \in S
      PROVE  k + 1 \in S
  <2>1. SUFFICES ASSUME k + 1 < c
                 PROVE  Agrees(k + 1 + 1)
    BY <1>1
  <2>2. k + 1 \in 1..(n - 1) /\ Agrees(k + 1)
    BY <1>1, <1>3, <1>7, <2>1
  <2>3. QED
    BY <1>5, <2>1, <2>2
<1>8. c - 1 \in S
  <2> HIDE DEF S
  <2>1. \A k \in 0..c : k \in S
    BY <1>1, <1>6, <1>7, UpTo
  <2>2. c - 1 \in 0..c
    BY <1>1
  <2>3. QED
    BY <2>1, <2>2
<1>9. Agrees(c)
  <2>1. c - 1 < c /\ c - 1 + 1 = c
    BY <1>1
  <2>2. QED
    BY <1>8, <2>1
<1>10. w[c] = certs
  <2> DEFINE p == w[c]
  <2>1. p \in Seq(R) /\ Len(p) = Len(certs) /\ \A i \in 1..Len(p) : p[i] = certs[i]
    <3>1. c \in 1..n
      BY <1>1, <1>3
    <3>2. QED
      BY <1>2, <1>9, <3>1 DEF c, Agrees
  <2> HIDE DEF p
  <2>2. p = certs
    BY <2>1, SameSequence
  <2>3. QED
    BY <2>2 DEF p
<1>11. QED
  BY <1>1, <1>3, <1>10 DEF c

\* If the store does not have the issuer of the last of the list, the list is the
\* whole chain that TLS shows.
LEMMA ListIsItsChain ==
  ASSUME NEW certs \in Seq(Certs), certs # <<>>, NEW store \in SUBSET Certs, IsFiniteSet(store),
         IsLinked(certs), NeverTurnsBack(certs), EndsOutside(certs, store)
  PROVE  PeerChain(certs, store) = certs
<1> DEFINE R == Range(certs) \cup store
           n == Cardinality(R)
           c == Len(certs)
<1>1. n \in Nat \ {0} /\ IsFiniteSet(R) /\ certs \in Seq(R) /\ store \in SUBSET R
  BY ReachFacts
<1>2. PICK w : ChainWalk(w, certs, store, n) /\ PeerChain(certs, store) = w[n]
  BY PeerChainFacts
<1> HIDE DEF R
<1>3. c \in 1..n /\ w[c] = certs
  BY <1>1, <1>2, ListIsWalked
<1> HIDE DEF n
<1>4. \A k \in 1..(n - 1) : w[k + 1] = Extended(w[k], certs, store)
  <2>1. IsWalked(w, certs, store, n, R)
    BY <1>1, <1>2, ChainWalkFacts
  <2>2. QED
    BY <2>1 DEF IsWalked
<1>5. Extended(certs, certs, store) = certs
  <2>1. IssuersOf(certs, Range(certs)) = {}
    BY DEF IssuersOf
  <2>2. Last(certs) = certs[Len(certs)]
    BY DEF Last
  <2>3. IssuersOf(certs, store) = {}
    BY <2>2 DEF IssuersOf, EndsOutside
  <2>4. QED
    BY <2>1, <2>3 DEF Extended
<1> HIDE DEF c
<1> DEFINE S == {k \in Nat : c + k =< n => w[c + k] = certs}
<1>6. 0 \in S
  BY <1>1, <1>3
<1>7. ASSUME NEW k \in 0..((n - c) - 1), k \in S
      PROVE  k + 1 \in S
  <2>1. c + k \in 1..(n - 1) /\ w[c + k] = certs /\ c + (k + 1) = c + k + 1
    BY <1>1, <1>3, <1>7
  <2>2. w[c + k + 1] = certs
    BY <1>4, <1>5, <2>1
  <2>3. QED
    BY <2>1, <2>2
<1>8. n - c \in S
  <2> HIDE DEF S
  <2>1. n - c \in Nat /\ n - c \in 0..(n - c)
    BY <1>1, <1>3
  <2> DEFINE m == n - c
  <2>2. m \in Nat /\ \A k \in 0..(m - 1) : k \in S => k + 1 \in S
    BY <1>7, <2>1
  <2> HIDE DEF m
  <2>3. \A k \in 0..m : k \in S
    BY <1>6, <2>2, UpTo
  <2>4. QED
    BY <2>1, <2>3 DEF m
<1>9. c + (n - c) = n
  BY <1>1, <1>3
<1>10. QED
  BY <1>1, <1>2, <1>8, <1>9

\* If it has, TLS shows more than the list.
LEMMA ListLedOn ==
  ASSUME NEW certs \in Seq(Certs), certs # <<>>, NEW store \in SUBSET Certs, IsFiniteSet(store),
         IsLinked(certs), NeverTurnsBack(certs), ~EndsOutside(certs, store)
  PROVE  Tail(PeerChain(certs, store)) # Tail(certs)
<1> DEFINE R == Range(certs) \cup store
           n == Cardinality(R)
           c == Len(certs)
<1>1. n \in Nat \ {0} /\ IsFiniteSet(R) /\ certs \in Seq(R) /\ store \in SUBSET R
  BY ReachFacts
<1>2. PICK w : ChainWalk(w, certs, store, n) /\ PeerChain(certs, store) = w[n]
  BY PeerChainFacts
<1>3. PICK e \in store : Subject[e] = Issuer[certs[c]]
  BY DEF EndsOutside
<1> HIDE DEF R
<1>4. c \in 1..n /\ w[c] = certs
  BY <1>1, <1>2, ListIsWalked
<1>5. c \in 1..c /\ c \in Nat /\ DOMAIN certs = 1..c /\ Last(certs) = certs[c]
  BY <1>4 DEF Last
<1>6. \A j \in 1..c : Issuer[certs[c]] # Subject[certs[j]]
  BY <1>5 DEF NeverTurnsBack
<1>7. Subject[Last(certs)] # Issuer[Last(certs)] /\ Subject[e] = Issuer[Last(certs)]
  BY <1>3, <1>5, <1>6
<1>8. e \notin Range(certs)
  BY <1>3, <1>5, <1>6 DEF Range
<1>9. Len(Extended(certs, certs, store)) = c + 1
  <2> DEFINE kept == IssuersOf(certs, store)
             k == CHOOSE x \in kept : TRUE
  <2>1. IssuersOf(certs, Range(certs)) = {}
    BY DEF IssuersOf
  <2>2. e \in kept /\ kept \subseteq R
    BY <1>1, <1>7, <1>8 DEF IssuersOf
  <2>3. Extended(certs, certs, store) = Append(certs, k)
    BY <2>1, <2>2 DEF Extended
  <2>4. k \in R
    BY <2>2
  <2> HIDE DEF k
  <2>5. QED
    BY <1>1, <2>3, <2>4, AppendFacts
<1>10. c + 1 =< n
  <2> DEFINE q == Append(certs, e)
  <2>1. /\ q \in Seq(R) /\ Len(q) = c + 1
        /\ \A i \in 1..c : q[i] = certs[i]
        /\ q[c + 1] = e
    BY <1>1, <1>3, AppendFacts
  <2> HIDE DEF q, c
  <2>2. ASSUME NEW i \in 1..c
        PROVE  Issuer[q[i]] = Subject[q[i + 1]]
    <3>1. CASE i = c
      BY <1>3, <1>5, <2>1, <3>1
    <3>2. CASE i # c
      <4>1. i \in 1..(c - 1) /\ i + 1 \in 1..c
        BY <1>5, <3>2
      <4>2. Issuer[certs[i]] = Subject[certs[i + 1]]
        BY <4>1 DEF IsLinked, c
      <4>3. QED
        BY <2>1, <4>1, <4>2
    <3>3. QED
      BY <3>1, <3>2
  <2>3. ASSUME NEW i \in 1..c, NEW j \in 1..i
        PROVE  Issuer[q[i]] # Subject[q[j]]
    <3>1. j \in 1..c
      BY <1>5
    <3>2. Issuer[certs[i]] # Subject[certs[j]]
      BY DEF NeverTurnsBack, c
    <3>3. QED
      BY <2>1, <3>1, <3>2
  <2>4. Len(q) - 1 = c
    BY <1>5, <2>1
  <2>5. IsLinked(q)
    BY <2>2, <2>4 DEF IsLinked
  <2>6. \A i \in 1..(Len(q) - 1) : \A j \in 1..i : Issuer[q[i]] # Subject[q[j]]
    BY <2>3, <2>4
  <2>7. Len(q) =< Cardinality(R)
    BY <1>1, <2>1, <2>5, <2>6, DistinctAlong
  <2>8. QED
    BY <2>1, <2>7
<1> HIDE DEF n, c
<1>11. IsWalked(w, certs, store, n, R)
  BY <1>1, <1>2, ChainWalkFacts
<1>12. c \in 1..(n - 1) /\ c + 1 \in 1..n
  BY <1>1, <1>4, <1>10
<1>13. w[c + 1] = Extended(certs, certs, store)
  BY <1>4, <1>11, <1>12 DEF IsWalked
<1>14. Len(w[c + 1]) =< Len(w[n])
  BY <1>11, <1>12 DEF IsWalked, Leads
<1>15. Len(Tail(w[n])) # Len(Tail(certs))
  <2> DEFINE p == w[n]
  <2>1. p \in Seq(R) /\ c + 1 =< Len(p)
    BY <1>1, <1>9, <1>11, <1>13, <1>14 DEF IsWalked
  <2> HIDE DEF p
  <2>2. Len(p) \in Nat /\ p # <<>> /\ certs # <<>>
    BY <1>4, <1>5, <2>1
  <2>3. Len(Tail(p)) = Len(p) - 1 /\ Len(Tail(certs)) = Len(certs) - 1
    BY <1>1, <2>1, <2>2
  <2>4. QED
    BY <1>5, <2>1, <2>2, <2>3 DEF c, p
<1>16. QED
  BY <1>2, <1>15

\* The server closes a connection in the handshake for one of three reasons.
ClosedInv == stage = "closed" => rejected \/ presented = None \/ IsFiltered

LEMMA NextCloses == ClosedInv /\ [Next]_vars => ClosedInv'
<1> SUFFICES ASSUME ClosedInv, [Next]_vars, stage' = "closed"
             PROVE  rejected' \/ presented' = None \/ IsFiltered'
  BY DEF ClosedInv
<1>1. UNCHANGED presented /\ (IsFiltered' <=> IsFiltered)
  <2>1. UNCHANGED given
    BY GivenStays
  <2>2. QED
    BY <2>1, FilterStays DEF given
<1>2. stage = "closed" => rejected \/ presented = None \/ IsFiltered
  BY DEF ClosedInv
<1>3. CASE Chunk
  BY <1>1, <1>2, <1>3 DEF Chunk, Deny, Forward, TakeChunk
<1>4. CASE Handover
  BY <1>1, <1>4 DEF Handover, FailHandshake, TurnAway, Greet
<1>5. CASE Disconnect
  BY <1>5 DEF Disconnect
<1>6. ASSUME NEW clid \in Clids, NEW password \in Passwords, NEW supported \in BOOLEAN,
             Login(clid, password, supported) \/ RefuseLogin(clid, password, supported)
      PROVE  rejected' \/ presented' = None \/ IsFiltered'
  BY <1>1, <1>2, <1>6 DEF Login, RefuseLogin, CountLogin, guardVars
<1>7. CASE Logout
  BY <1>1, <1>2, <1>7 DEF Logout, CountLogin, guardVars
<1>8. CASE UNCHANGED vars
  BY <1>1, <1>2, <1>8 DEF vars, guardVars
<1>9. QED
  BY <1>3, <1>4, <1>5, <1>6, <1>7, <1>8 DEF Next

LEMMA CanonicalListFacts ==
  ASSUME NEW certs \in Seq(Certs), Len(certs) > 0, AcceptsChain(certs)
  PROVE  IsLinked(certs) /\ NeverTurnsBack(certs) /\ ~Refused(certs)
<1>1. /\ certs[1] \in AllowedLeaves /\ certs = <<certs[1]>> \o CanonicalChain
      /\ \A i \in 1..Len(certs) : \A j \in 1..i : Issuer[certs[i]] # Subject[certs[j]]
  BY AcceptedChainFacts
<1>2. IsLinked(certs)
  <2> DEFINE chain == <<certs[1]>> \o CanonicalChain
  <2>1. \A i \in 1..(Len(chain) - 1) : Issuer[chain[i]] = Subject[chain[i + 1]]
    BY <1>1, ChainAssumption
  <2>2. chain = certs
    BY <1>1
  <2> HIDE DEF chain
  <2>3. QED
    BY <2>1, <2>2 DEF IsLinked
<1>3. NeverTurnsBack(certs)
  BY <1>1 DEF NeverTurnsBack
<1>4. 1 \in LeafIndexes(certs)
  BY <1>1 DEF LeafIndexes
<1>5. ~HasLinkBreak(certs)
  BY <1>2 DEF HasLinkBreak, IsLinked
<1>6. QED
  BY <1>2, <1>3, <1>4, <1>5 DEF Refused

\* What the filter decides about a canonical client is where the store ends.
LEMMA CanonicalClientFacts ==
  ASSUME Situation, IsCanonicalClient
  PROVE  presented # None /\ ~Refused(presented) /\ (IsFiltered <=> StoreLeadsOn)
<1>1. /\ settings.requireCert /\ presented # None /\ presented # <<>>
      /\ presented[1] \in AllowedLeaves /\ Tail(presented) = CanonicalChain
  BY DEF IsCanonicalClient
<1>2. PICK c \in Settings :
        settings = c /\ presented \in IF c.tls /\ c.requireCert THEN Presentations ELSE {<<>>}
  BY DEF Situation
<1>3. settings \in Settings /\ presented \in Seq(Certs)
  BY <1>1, <1>2, CertificateAssumption
<1>4. Len(presented) > 0
  BY <1>1, <1>3, EmptySeq
<1>5. AcceptsChain(presented)
  BY <1>1 DEF AcceptsChain
<1>6. IsLinked(presented) /\ NeverTurnsBack(presented) /\ ~Refused(presented)
  BY <1>3, <1>4, <1>5, CanonicalListFacts
<1>7. settings.store \in SUBSET Certs /\ IsFiniteSet(settings.store)
  BY <1>3, SettingFacts
<1> DEFINE store == settings.store
           certs == presented
<1>8. StoreLeadsOn <=> RejectsVariations(settings) /\ ~EndsOutside(certs, store)
  <2>1. Last(presented) = presented[Len(presented)]
    BY DEF Last
  <2>2. QED
    BY <2>1 DEF StoreLeadsOn, EndsOutside
<1>9. ASSUME RejectsVariations(settings)
      PROVE  Exposed = PeerChain(certs, store)
  BY <1>1, <1>9 DEF Exposed, RejectsVariations
<1>10. /\ certs \in Seq(Certs) /\ certs # <<>> /\ store \in SUBSET Certs
       /\ IsFiniteSet(store) /\ IsLinked(certs) /\ NeverTurnsBack(certs)
  BY <1>1, <1>3, <1>6, <1>7
<1> HIDE DEF store, certs
<1>11. EndsOutside(certs, store) => PeerChain(certs, store) = certs
  BY <1>10, ListIsItsChain
<1>12. ~EndsOutside(certs, store) => Tail(PeerChain(certs, store)) # Tail(certs)
  BY <1>10, ListLedOn
<1>13. EndsOutside(certs, store) <=> AcceptsChain(PeerChain(certs, store))
  <2>1. Tail(certs) = CanonicalChain /\ AcceptsChain(certs)
    BY <1>1, <1>5 DEF certs
  <2>2. AcceptsChain(PeerChain(certs, store)) => Tail(PeerChain(certs, store)) = CanonicalChain
    BY DEF AcceptsChain
  <2>3. QED
    BY <1>11, <1>12, <2>1, <2>2
<1>14. QED
  BY <1>1, <1>6, <1>8, <1>9, <1>13 DEF IsFiltered

\* A client with the canonical certificates is closed by the server, whichever way
\* its bytes arrive, exactly when the server refuses variations and its store has
\* the issuer of the last of them (EPP_TLS_CA, or Node's own roots when it is not
\* set): apart from that neither guard nor filter errs.
THEOREM OnlyTheStoreTurnsThemAway ==
  Spec => [](IsCanonicalClient => /\ stage = "closed" => StoreLeadsOn
                                  /\ stage = "greeted" => ~StoreLeadsOn)
<1>1. Init => GuardInv /\ GreetInv /\ Situation /\ ClosedInv
  BY InitialGuarded, InitialSituation DEF Init, GreetInv, ClosedInv
<1>2. Situation /\ GuardInv /\ GreetInv /\ ClosedInv =>
        (IsCanonicalClient => /\ stage = "closed" => StoreLeadsOn
                              /\ stage = "greeted" => ~StoreLeadsOn)
  BY CanonicalClientFacts, RejectedFacts DEF GreetInv, ClosedInv
<1>3. QED
  BY <1>1, <1>2, NextGuarded, NextGreets, NextCloses, SituationStays, PTL DEF Spec
===============================================================================
