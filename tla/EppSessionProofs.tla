--------------------------- MODULE EppSessionProofs ---------------------------
(***************************************************************************)
(* Proofs about EppSession for every value of its constants.               *)
(*                                                                         *)
(* RunsAsLoggedIn speaks of answers only, so it says nothing of what the   *)
(* next command will run as.  IInv adds the session: while it is           *)
(* authenticated, the last login or logout that was answered is the login  *)
(* of its client identifier.                                               *)
(*                                                                         *)
(* MalformedRunsNothing depends on the decoder: once a malformed length is *)
(* answered, it stands in front of the buffer and nothing is in the inbox  *)
(* (MInv), and such a buffer stays malformed however it goes on.           *)
(*                                                                         *)
(* FramesInOrder compares what is to be answered with what was sent;       *)
(* OrderInv adds that no part of a frame is on the way that was not sent   *)
(* whole, and it rests on Decoding: a stream that is cut into chunks gives *)
(* the messages it gives in one piece.                                     *)
(*                                                                         *)
(* NoMessageLostUnread needs where a message goes between being shown and  *)
(* being acknowledged: QueueInv keeps every message to one queue and every *)
(* showing to the registrar of that queue, and AckInv follows an           *)
(* acknowledgement through wire, buffer and inbox.                         *)
(*                                                                         *)
(* QuietIsAnswered is the safety half of EveryFrameAnswered: with nothing  *)
(* left to do, only a malformed frame or part of one is unanswered.  It    *)
(* adds that a buffer with an empty inbox holds no whole frame (BufferInv).*)
(*                                                                         *)
(* The last part is about EppClient, whose server is one of these          *)
(* sessions: what it has decoded is what was answered (TranscriptInv), and *)
(* it writes no more than an open client may (SentInv).  While no answer   *)
(* is split, it writes one message on each answer (ScriptInv).             *)
(***************************************************************************)
EXTENDS EppSession, EppFramingProofs

-------------------------------------------------------------------------------
(* Sequences of answers.                                                   *)

IsSequence(q) == \E S : q \in Seq(S)

LEMMA AppendFacts ==
  ASSUME NEW q, IsSequence(q), NEW a
  PROVE  /\ IsSequence(Append(q, a))
         /\ Len(q) \in Nat
         /\ Len(Append(q, a)) = Len(q) + 1
         /\ \A i \in 1..Len(q) : Append(q, a)[i] = q[i]
         /\ Append(q, a)[Len(q) + 1] = a
<1>1. PICK S : q \in Seq(S)
  BY DEF IsSequence
<1> DEFINE T == S \cup {a}
<1>2. q \in Seq(T) /\ a \in T
  BY <1>1
<1> HIDE DEF T
<1>3. Append(q, a) \in Seq(T)
  BY <1>2
<1>4. /\ Len(q) \in Nat
      /\ Len(Append(q, a)) = Len(q) + 1
      /\ \A i \in 1..Len(q) : Append(q, a)[i] = q[i]
      /\ Append(q, a)[Len(q) + 1] = a
  BY <1>2
<1>5. QED
  BY <1>3, <1>4 DEF IsSequence

\* The last of the first n answers about logins accepts the login of r.
IsLoginOf(q, n, r) ==
  \E j \in 1..n :
    /\ q[j] = AnswerOf("loggedIn", r, None)
    /\ \A k \in (j + 1)..n : ~EndsLogin(q[k])

RunCodes == {"done", "message", "acked"}

\* RunsAsLoggedIn, on one connection.
RunsInOrder(q) ==
  \A i \in 1..Len(q) : q[i].code \in RunCodes => IsLoginOf(q, i - 1, q[i].clid)

\* A further answer changes nothing for the answers before it.
LEMMA IsLoginOfFacts ==
  ASSUME NEW q, IsSequence(q), NEW a, NEW r, NEW n \in 0..Len(q)
  PROVE  IsLoginOf(Append(q, a), n, r) <=> IsLoginOf(q, n, r)
<1> DEFINE p == Append(q, a)
<1>1. Len(q) \in Nat /\ \A i \in 1..Len(q) : p[i] = q[i]
  BY AppendFacts
<1> HIDE DEF p
<1>2. \A j \in 1..n : p[j] = q[j] /\ \A k \in (j + 1)..n : p[k] = q[k]
  BY <1>1
<1>3. QED
  BY <1>2 DEF IsLoginOf, p

LEMMA RunsInOrderFacts ==
  ASSUME NEW q, IsSequence(q), RunsInOrder(q), NEW a,
         a.code \in RunCodes => IsLoginOf(q, Len(q), a.clid)
  PROVE  RunsInOrder(Append(q, a))
<1> DEFINE p == Append(q, a)
<1>1. /\ Len(q) \in Nat
      /\ Len(p) = Len(q) + 1
      /\ \A i \in 1..Len(q) : p[i] = q[i]
      /\ p[Len(q) + 1] = a
  BY AppendFacts
<1>2. \A n \in 0..Len(q) : \A r : IsLoginOf(p, n, r) <=> IsLoginOf(q, n, r)
  BY IsLoginOfFacts
<1> HIDE DEF p
<1>3. ASSUME NEW i \in 1..Len(p), p[i].code \in RunCodes
      PROVE  IsLoginOf(p, i - 1, p[i].clid)
  <2>1. CASE i = Len(q) + 1
    <3>1. p[i] = a /\ i - 1 = Len(q) /\ Len(q) \in 0..Len(q)
      BY <1>1, <2>1
    <3>2. IsLoginOf(q, Len(q), a.clid)
      BY <1>3, <3>1
    <3>3. QED
      BY <1>2, <3>1, <3>2
  <2>2. CASE i # Len(q) + 1
    <3>1. i \in 1..Len(q) /\ p[i] = q[i] /\ i - 1 \in 0..Len(q)
      BY <1>1, <2>2
    <3>2. IsLoginOf(q, i - 1, q[i].clid)
      BY <1>3, <3>1 DEF RunsInOrder
    <3>3. QED
      BY <1>2, <3>1, <3>2
  <2>3. QED
    BY <2>1, <2>2
<1>4. QED
  BY <1>3 DEF RunsInOrder, p

\* An answer that neither accepts a login nor ends one leaves the login in force.
LEMMA LoginStays ==
  ASSUME NEW q, IsSequence(q), NEW a, ~EndsLogin(a), NEW r, IsLoginOf(q, Len(q), r)
  PROVE  IsLoginOf(Append(q, a), Len(Append(q, a)), r)
<1> DEFINE p == Append(q, a)
<1>1. /\ Len(q) \in Nat
      /\ Len(p) = Len(q) + 1
      /\ \A i \in 1..Len(q) : p[i] = q[i]
      /\ p[Len(q) + 1] = a
  BY AppendFacts
<1> HIDE DEF p
<1>2. PICK j \in 1..Len(q) :
        q[j] = AnswerOf("loggedIn", r, None) /\ \A k \in (j + 1)..Len(q) : ~EndsLogin(q[k])
  BY DEF IsLoginOf
<1>3. j \in 1..Len(p) /\ p[j] = AnswerOf("loggedIn", r, None)
  BY <1>1, <1>2
<1>4. ASSUME NEW k \in (j + 1)..Len(p)
      PROVE  ~EndsLogin(p[k])
  <2>1. CASE k = Len(q) + 1
    BY <1>1, <2>1
  <2>2. CASE k # Len(q) + 1
    <3>1. k \in (j + 1)..Len(q) /\ k \in 1..Len(q)
      BY <1>1, <2>2
    <3>2. QED
      BY <1>1, <1>2, <3>1
  <2>3. QED
    BY <2>1, <2>2
<1>5. QED
  BY <1>3, <1>4 DEF IsLoginOf, p

\* An accepted login is the one in force.
LEMMA LoginBegins ==
  ASSUME NEW q, IsSequence(q), NEW r
  PROVE  LET p == Append(q, AnswerOf("loggedIn", r, None)) IN IsLoginOf(p, Len(p), r)
<1> DEFINE a == AnswerOf("loggedIn", r, None)
           p == Append(q, a)
<1>1. Len(q) \in Nat /\ Len(p) = Len(q) + 1 /\ p[Len(q) + 1] = a
  BY AppendFacts
<1> HIDE DEF p
<1>2. Len(p) \in 1..Len(p) /\ (Len(p) + 1)..Len(p) = {}
  BY <1>1
<1>3. IsLoginOf(p, Len(p), r)
  BY <1>1, <1>2 DEF IsLoginOf
<1>4. QED
  BY <1>3 DEF p

-------------------------------------------------------------------------------
(* The invariant.                                                          *)

\* The identifiers a client logs in with are whatever its XML says.
SessionsOK == \E R : session \in [Sessions -> [authenticated : BOOLEAN, clid : R]]

ConnectionOK(s) ==
  /\ IsSequence(answers[s])
  /\ RunsInOrder(answers[s])
  /\ session[s].authenticated => IsLoginOf(answers[s], Len(answers[s]), session[s].clid)

IInv ==
  /\ SessionsOK
  /\ DOMAIN answers = Sessions
  /\ \A s \in Sessions : ConnectionOK(s)

\* No answer is written and no session changes.
LEMMA SilentStep ==
  ASSUME IInv, UNCHANGED <<answers, session>>
  PROVE  IInv'
BY DEF IInv, SessionsOK, ConnectionOK

\* One answer is written on one connection.
LEMMA AnswerStep ==
  ASSUME IInv, NEW s \in Sessions, NEW a,
         answers' = [answers EXCEPT ![s] = Append(@, a)],
         a.code \in RunCodes => IsLoginOf(answers[s], Len(answers[s]), a.clid),
         SessionsOK',
         \A t \in Sessions \ {s} : session'[t] = session[t],
         session'[s].authenticated =>
           IsLoginOf(Append(answers[s], a), Len(Append(answers[s], a)), session'[s].clid)
  PROVE  IInv'
<1>1. /\ DOMAIN answers = Sessions
      /\ \A t \in Sessions : ConnectionOK(t)
  BY DEF IInv
<1>2. /\ DOMAIN answers' = Sessions
      /\ answers'[s] = Append(answers[s], a)
      /\ \A t \in Sessions \ {s} : answers'[t] = answers[t]
  BY <1>1
<1>3. ConnectionOK(s)'
  <2>1. IsSequence(answers[s]) /\ RunsInOrder(answers[s])
    BY <1>1 DEF ConnectionOK
  <2>2. IsSequence(answers'[s])
    BY <1>2, <2>1, AppendFacts
  <2>3. RunsInOrder(answers'[s])
    BY <1>2, <2>1, RunsInOrderFacts
  <2>4. QED
    BY <1>2, <2>2, <2>3 DEF ConnectionOK
<1>4. ASSUME NEW t \in Sessions \ {s}
      PROVE  ConnectionOK(t)'
  <2>1. answers'[t] = answers[t] /\ session'[t] = session[t] /\ ConnectionOK(t)
    BY <1>1, <1>2
  <2>2. QED
    BY <2>1 DEF ConnectionOK
<1>5. QED
  BY <1>2, <1>3, <1>4 DEF IInv

\* The answer neither accepts a login nor ends one, and what it runs, it runs for
\* the registrar of an authenticated session.
LEMMA ReplyAsStep ==
  ASSUME IInv, NEW s \in Sessions, NEW code, NEW clid, NEW id,
         ReplyAs(s, code, clid, id), UNCHANGED session,
         code \notin {"loggedIn", "ended"},
         code \in RunCodes => session[s].authenticated /\ clid = session[s].clid
  PROVE  IInv'
<1> DEFINE a == AnswerOf(code, clid, id)
<1>1. a.code = code /\ a.clid = clid /\ ~EndsLogin(a)
  BY DEF AnswerOf, EndsLogin
<1>2. answers' = [answers EXCEPT ![s] = Append(@, a)]
  BY DEF ReplyAs
<1> HIDE DEF a
<1>3. ConnectionOK(s)
  BY DEF IInv
<1>4. a.code \in RunCodes => IsLoginOf(answers[s], Len(answers[s]), a.clid)
  BY <1>1, <1>3 DEF ConnectionOK
<1>5. session'[s].authenticated =>
        IsLoginOf(Append(answers[s], a), Len(Append(answers[s], a)), session'[s].clid)
  BY <1>1, <1>3, LoginStays DEF ConnectionOK
<1>6. SessionsOK' /\ \A t \in Sessions \ {s} : session'[t] = session[t]
  BY DEF IInv, SessionsOK
<1>7. QED
  BY <1>2, <1>4, <1>5, <1>6, AnswerStep

LEMMA ReplyStep ==
  ASSUME IInv, NEW s \in Sessions, NEW code, Reply(s, code), UNCHANGED session,
         code \notin RunCodes \cup {"loggedIn", "ended"}
  PROVE  IInv'
<1>1. ReplyAs(s, code, None, None)
  BY DEF Reply, ReplyAs
<1>2. QED
  BY <1>1, ReplyAsStep

-------------------------------------------------------------------------------
(* The handlers that change the session.                                   *)

LEMMA LoginStep ==
  ASSUME IInv, NEW s \in Sessions, Login(s)
  PROVE  IInv'
<1> DEFINE m == Head(inbox[s])
<1>1. CASE m.valid
  <2>1. /\ session' = [session EXCEPT ![s] = [authenticated |-> TRUE, clid |-> m.clid]]
        /\ answers' = [answers EXCEPT ![s] = Append(@, AnswerOf("loggedIn", m.clid, None))]
    BY <1>1 DEF Login, ReplyAs
  <2>2. PICK R : session \in [Sessions -> [authenticated : BOOLEAN, clid : R]]
    BY DEF IInv, SessionsOK
  <2>3. session' \in [Sessions -> [authenticated : BOOLEAN, clid : R \cup {m.clid}]]
    BY <2>1, <2>2
  <2>4. SessionsOK'
    BY <2>3 DEF SessionsOK
  <2>5. /\ session'[s].clid = m.clid
        /\ \A t \in Sessions \ {s} : session'[t] = session[t]
    BY <2>1, <2>2
  <2>6. IsSequence(answers[s])
    BY DEF IInv, ConnectionOK
  <2> DEFINE a == AnswerOf("loggedIn", m.clid, None)
  <2>7. a.code \notin RunCodes
    BY DEF AnswerOf, RunCodes
  <2>8. IsLoginOf(Append(answers[s], a), Len(Append(answers[s], a)), session'[s].clid)
    BY <2>5, <2>6, LoginBegins
  <2>9. answers' = [answers EXCEPT ![s] = Append(@, a)]
    BY <2>1
  <2> HIDE DEF a
  <2>10. QED
    BY <2>4, <2>5, <2>7, <2>8, <2>9, AnswerStep
<1>2. CASE ~m.valid
  <2>1. Reply(s, "refused") /\ UNCHANGED session
    BY <1>2 DEF Login
  <2>2. QED
    BY <2>1, ReplyStep DEF RunCodes
<1>3. QED
  BY <1>1, <1>2

LEMMA LogoutStep ==
  ASSUME IInv, NEW s \in Sessions, Logout(s)
  PROVE  IInv'
<1> DEFINE a == AnswerOf("ended", None, None)
<1>1. /\ session' = [session EXCEPT ![s].authenticated = FALSE]
      /\ answers' = [answers EXCEPT ![s] = Append(@, a)]
  BY DEF Logout, Reply
<1>2. PICK R : session \in [Sessions -> [authenticated : BOOLEAN, clid : R]]
  BY DEF IInv, SessionsOK
<1>3. session' \in [Sessions -> [authenticated : BOOLEAN, clid : R]]
  BY <1>1, <1>2
<1>4. SessionsOK'
  BY <1>3 DEF SessionsOK
<1>5. /\ ~session'[s].authenticated
      /\ \A t \in Sessions \ {s} : session'[t] = session[t]
  BY <1>1, <1>2
<1>6. a.code \notin RunCodes
  BY DEF AnswerOf, RunCodes
<1> HIDE DEF a
<1>7. QED
  BY <1>1, <1>4, <1>5, <1>6, AnswerStep

LEMMA RouteStep ==
  ASSUME IInv, NEW s \in Sessions, Route(s)
  PROVE  IInv'
<1>1. CASE Hello(s)
  BY <1>1, ReplyStep DEF Hello, RunCodes
<1>2. CASE Login(s)
  BY <1>2, LoginStep
<1>3. CASE Refuse(s)
  BY <1>3, ReplyStep DEF Refuse, RunCodes
<1>4. CASE Logout(s)
  BY <1>4, LogoutStep
<1>5. CASE Command(s)
  BY <1>5, ReplyAsStep DEF Command, IsLoggedIn
<1>6. CASE Unknown(s)
  BY <1>6, ReplyStep DEF Unknown, RunCodes
<1>7. CASE Poll(s)
  <2> DEFINE queue == queues[session[s].clid]
  <2>1. UNCHANGED session /\ session[s].authenticated
    BY <1>7 DEF Poll, IsLoggedIn
  <2>2. CASE queue = <<>>
    <3>1. Reply(s, "noMessages")
      BY <1>7, <2>2 DEF Poll
    <3>2. QED
      BY <2>1, <3>1, ReplyStep DEF RunCodes
  <2>3. CASE queue # <<>>
    <3>1. ReplyAs(s, "message", session[s].clid, Head(queue))
      BY <1>7, <2>3 DEF Poll
    <3>2. QED
      BY <2>1, <3>1, ReplyAsStep
  <2>4. QED
    BY <2>2, <2>3
<1>8. CASE Ack(s)
  <2>1. /\ UNCHANGED session /\ session[s].authenticated
        /\ ReplyAs(s, "acked", session[s].clid, Head(inbox[s]).id)
    BY <1>8 DEF Ack, IsLoggedIn
  <2>2. QED
    BY <2>1, ReplyAsStep
<1>9. CASE AckUnknown(s)
  BY <1>9, ReplyStep DEF AckUnknown, RunCodes
<1>10. CASE Fail(s)
  BY <1>10, ReplyStep DEF Fail, RunCodes
<1>11. QED
  BY <1>1, <1>2, <1>3, <1>4, <1>5, <1>6, <1>7, <1>8, <1>9, <1>10 DEF Route

LEMMA DataStep ==
  ASSUME IInv, NEW s \in Sessions, Data(s)
  PROVE  IInv'
<1>1. PICK k \in 1..Len(wire[s]) : Receive(s, k) \/ ReceiveMalformed(s, k)
  BY DEF Data
<1>2. CASE Receive(s, k)
  BY <1>2, SilentStep DEF Receive
<1>3. CASE ReceiveMalformed(s, k)
  BY <1>3, ReplyStep DEF ReceiveMalformed, RunCodes
<1>4. QED
  BY <1>1, <1>2, <1>3

-------------------------------------------------------------------------------
(* The theorems.                                                           *)

LEMMA InitInvariant == Init => IInv
<1> SUFFICES ASSUME Init PROVE IInv
  OBVIOUS
<1> DEFINE greeting == AnswerOf("greeting", None, None)
<1>1. session \in [Sessions -> [authenticated : BOOLEAN, clid : {None}]]
  BY DEF Init
<1>2. DOMAIN answers = Sessions
  BY DEF Init
<1>3. ASSUME NEW s \in Sessions
      PROVE  ConnectionOK(s)
  <2>1. answers[s] = <<greeting>> /\ ~session[s].authenticated
    BY <1>3 DEF Init
  <2>2. <<greeting>> \in Seq({greeting}) /\ Len(<<greeting>>) = 1 /\ <<greeting>>[1] = greeting
    OBVIOUS
  <2>3. greeting.code \notin RunCodes
    BY DEF AnswerOf, RunCodes
  <2> HIDE DEF greeting
  <2>4. IsSequence(answers[s])
    BY <2>1, <2>2 DEF IsSequence
  <2>5. \A i \in 1..Len(answers[s]) : answers[s][i] = greeting
    BY <2>1, <2>2
  <2>6. RunsInOrder(answers[s])
    BY <2>3, <2>5 DEF RunsInOrder
  <2>7. QED
    BY <2>1, <2>4, <2>6 DEF ConnectionOK
<1>4. SessionsOK
  BY <1>1 DEF SessionsOK
<1>5. QED
  BY <1>2, <1>3, <1>4 DEF IInv

LEMMA NextInvariant == IInv /\ [Next]_vars => IInv'
<1> SUFFICES ASSUME IInv, [Next]_vars PROVE IInv'
  OBVIOUS
<1>1. ASSUME NEW s \in Sessions, Data(s) \/ Route(s)
      PROVE  IInv'
  BY <1>1, DataStep, RouteStep
<1>2. ASSUME NEW s \in Sessions, NEW frame \in Frames, Send(s, frame)
      PROVE  IInv'
  BY <1>2, SilentStep DEF Send
<1>3. ASSUME NEW r \in Registrars, Post(r)
      PROVE  IInv'
  BY <1>3, SilentStep DEF Post
<1>4. CASE UNCHANGED vars
  BY <1>4, SilentStep DEF vars
<1>5. QED
  BY <1>1, <1>2, <1>3, <1>4 DEF Next

\* The session, as the router's gate and the handlers read it, always stands for
\* the last login that was answered on its connection.
THEOREM Inductive == Spec => []IInv
<1>1. Init => IInv
  BY InitInvariant
<1>2. IInv /\ [Next]_vars => IInv'
  BY NextInvariant
<1>3. QED
  BY <1>1, <1>2, PTL DEF Spec

\* A command, a poll message and an acknowledgement run for the registrar whose
\* login is the last one accepted on their connection, and never after its logout,
\* for any number of connections, any frames and any cuts of their bytes.
THEOREM AlwaysRunsAsLoggedIn == Spec => []RunsAsLoggedIn
<1>1. IInv => RunsAsLoggedIn
  BY DEF IInv, ConnectionOK, RunsInOrder, RunCodes, IsLoginOf, RunsAsLoggedIn
<1>2. QED
  BY <1>1, Inductive, PTL

-------------------------------------------------------------------------------
(* Connections behind a malformed length.                                  *)

HasMalformed(q) == \E i \in 1..Len(q) : q[i].code = "malformed"

\* MalformedRunsNothing, on one connection.
StaysMalformed(q) ==
  \A i, j \in 1..Len(q) : q[i].code = "malformed" /\ i < j => q[j].code = "malformed"

\* The length that no frame can have stays in front of the buffer.
MalformedOK(s) ==
  /\ StaysMalformed(answers[s])
  /\ HasMalformed(answers[s]) =>
       IsMalformed(buffer[s]) /\ inbox[s] = <<>>

MInv ==
  /\ buffer \in [Sessions -> Stream(Message)]
  /\ wire \in [Sessions -> Stream(Message)]
  /\ DOMAIN inbox = Sessions
  /\ \A s \in Sessions : MalformedOK(s)

\* Answers after a malformed length are 2400, whatever the answers before it.
LEMMA StaysMalformedFacts ==
  ASSUME NEW q, IsSequence(q), StaysMalformed(q), NEW a,
         HasMalformed(q) => a.code = "malformed"
  PROVE  /\ StaysMalformed(Append(q, a))
         /\ a.code # "malformed" => ~HasMalformed(Append(q, a))
<1> DEFINE p == Append(q, a)
<1>1. /\ Len(q) \in Nat
      /\ Len(p) = Len(q) + 1
      /\ \A i \in 1..Len(q) : p[i] = q[i]
      /\ p[Len(q) + 1] = a
  BY AppendFacts
<1> HIDE DEF p
<1>2. ASSUME NEW i \in 1..Len(p), NEW j \in 1..Len(p), p[i].code = "malformed", i < j
      PROVE  p[j].code = "malformed"
  <2>1. i \in 1..Len(q) /\ q[i].code = "malformed"
    BY <1>1, <1>2
  <2>2. CASE j = Len(q) + 1
    BY <1>1, <2>1, <2>2 DEF HasMalformed
  <2>3. CASE j # Len(q) + 1
    <3>1. j \in 1..Len(q) /\ p[j] = q[j]
      BY <1>1, <2>3
    <3>2. QED
      BY <1>2, <2>1, <3>1 DEF StaysMalformed
  <2>4. QED
    BY <2>2, <2>3
<1>3. ASSUME a.code # "malformed", NEW i \in 1..Len(p), p[i].code = "malformed"
      PROVE  FALSE
  <2>1. i \in 1..Len(q) /\ q[i].code = "malformed"
    BY <1>1, <1>3
  <2>2. QED
    BY <1>3, <2>1 DEF HasMalformed
<1>4. StaysMalformed(p)
  BY <1>2 DEF StaysMalformed
<1>5. a.code # "malformed" => ~HasMalformed(p)
  BY <1>3 DEF HasMalformed
<1>6. QED
  BY <1>4, <1>5 DEF p

\* What a chunk leaves of the streams, and what it is decoded from.
LEMMA ChunkFacts ==
  ASSUME MInv, NEW s \in Sessions, NEW k \in 1..Len(wire[s]), TakeChunk(s, k)
  PROVE  /\ Received(s, k) \in Stream(Message)
         /\ buffer' \in [Sessions -> Stream(Message)]
         /\ wire' \in [Sessions -> Stream(Message)]
         /\ buffer'[s] = Rest(Received(s, k))
         /\ \A t \in Sessions \ {s} : buffer'[t] = buffer[t]
         /\ inbox[s] = <<>>
         /\ HasMalformed(answers[s]) => IsMalformed(Received(s, k))
<1> DEFINE chunk == SubSeq(wire[s], 1, k)
           left == SubSeq(wire[s], k + 1, Len(wire[s]))
<1>1. buffer[s] \in Stream(Message) /\ wire[s] \in Stream(Message)
  BY DEF MInv
<1>2. k \in 1..Len(wire[s])
  OBVIOUS
<1>3. chunk \in Stream(Message) /\ left \in Stream(Message)
  BY <1>1, <1>2, StreamCut
<1> HIDE DEF chunk
<1>4. Received(s, k) = buffer[s] \o chunk
  BY DEF Received, chunk
<1>5. Received(s, k) \in Stream(Message)
  BY <1>1, <1>3, <1>4, StreamConcat
<1>6. Rest(Received(s, k)) \in Stream(Message)
  BY <1>5, RestFacts
<1>7. /\ wire' = [wire EXCEPT ![s] = SubSeq(@, k + 1, Len(@))]
      /\ buffer' = [buffer EXCEPT ![s] = Rest(Received(s, k))]
      /\ inbox[s] = <<>>
  BY DEF TakeChunk, Idle
<1>8. /\ buffer' \in [Sessions -> Stream(Message)]
      /\ buffer'[s] = Rest(Received(s, k))
      /\ \A t \in Sessions \ {s} : buffer'[t] = buffer[t]
  BY <1>6, <1>7 DEF MInv
<1>9. wire' \in [Sessions -> Stream(Message)]
  BY <1>3, <1>7 DEF MInv
<1>10. ASSUME HasMalformed(answers[s])
       PROVE  IsMalformed(Received(s, k))
  <2>1. IsMalformed(buffer[s])
    BY <1>10 DEF MInv, MalformedOK
  <2>2. QED
    BY <1>1, <1>3, <1>4, <2>1, MalformedStays
<1>11. QED
  BY <1>5, <1>7, <1>8, <1>9, <1>10

LEMMA ReceiveKeeps ==
  ASSUME MInv, NEW s \in Sessions, NEW k \in 1..Len(wire[s]), Receive(s, k)
  PROVE  MInv'
<1>1. /\ TakeChunk(s, k)
      /\ ~IsMalformed(Received(s, k))
      /\ inbox' = [inbox EXCEPT ![s] = Messages(Received(s, k))]
      /\ answers' = answers
  BY DEF Receive
<1>2. ~HasMalformed(answers[s]) /\ StaysMalformed(answers[s])
  BY <1>1, ChunkFacts DEF MInv, MalformedOK
<1>3. MalformedOK(s)'
  BY <1>1, <1>2 DEF MalformedOK
<1>4. ASSUME NEW t \in Sessions \ {s}
      PROVE  MalformedOK(t)'
  <2>1. inbox'[t] = inbox[t] /\ buffer'[t] = buffer[t] /\ answers'[t] = answers[t]
    BY <1>1, ChunkFacts DEF MInv
  <2>2. QED
    BY <2>1 DEF MInv, MalformedOK
<1>5. DOMAIN inbox' = Sessions
  BY <1>1 DEF MInv
<1>6. QED
  BY <1>1, <1>3, <1>4, <1>5, ChunkFacts DEF MInv

LEMMA ReceiveMalformedKeeps ==
  ASSUME IInv, MInv, NEW s \in Sessions, NEW k \in 1..Len(wire[s]), ReceiveMalformed(s, k)
  PROVE  MInv'
<1> DEFINE a == AnswerOf("malformed", None, None)
<1>1. /\ TakeChunk(s, k)
      /\ IsMalformed(Received(s, k))
      /\ answers' = [answers EXCEPT ![s] = Append(@, a)]
      /\ inbox' = inbox
  BY DEF ReceiveMalformed, Reply
<1>2. a.code = "malformed"
  BY DEF AnswerOf
<1> HIDE DEF a
<1>3. IsSequence(answers[s]) /\ StaysMalformed(answers[s])
  BY DEF IInv, ConnectionOK, MInv, MalformedOK
<1>4. answers'[s] = Append(answers[s], a) /\ \A t \in Sessions \ {s} : answers'[t] = answers[t]
  BY <1>1 DEF IInv
<1>5. StaysMalformed(answers'[s])
  BY <1>2, <1>3, <1>4, StaysMalformedFacts
<1>6. IsMalformed(buffer'[s])
  <2>1. buffer'[s] = Rest(Received(s, k)) /\ Received(s, k) \in Stream(Message)
    BY <1>1, ChunkFacts
  <2>2. Rest(Rest(Received(s, k))) = Rest(Received(s, k))
    BY <2>1, NothingMore
  <2>3. QED
    BY <1>1, <2>1, <2>2 DEF IsMalformed
<1>7. MalformedOK(s)'
  <2>1. inbox'[s] = <<>>
    BY <1>1, ChunkFacts
  <2>2. QED
    BY <1>5, <1>6, <2>1 DEF MalformedOK
<1>8. ASSUME NEW t \in Sessions \ {s}
      PROVE  MalformedOK(t)'
  <2>1. inbox'[t] = inbox[t] /\ buffer'[t] = buffer[t] /\ answers'[t] = answers[t]
    BY <1>1, <1>4, ChunkFacts
  <2>2. QED
    BY <2>1 DEF MInv, MalformedOK
<1>9. QED
  BY <1>1, <1>7, <1>8, ChunkFacts DEF MInv

\* A message is routed only on a connection without a malformed length.
LEMMA RouteFacts ==
  ASSUME NEW s \in Sessions, Route(s)
  PROVE  /\ inbox[s] # <<>>
         /\ \E x : inbox' = [inbox EXCEPT ![s] = x]
         /\ \E a : a.code # "malformed" /\ answers' = [answers EXCEPT ![s] = Append(@, a)]
         /\ UNCHANGED <<buffer, wire>>
<1> DEFINE Answers(code) ==
             \E clid, id : answers' = [answers EXCEPT ![s] = Append(@, AnswerOf(code, clid, id))]
<1>1. ASSUME NEW code, code # "malformed", Answers(code)
      PROVE  \E a : a.code # "malformed" /\ answers' = [answers EXCEPT ![s] = Append(@, a)]
  <2>1. PICK clid, id : answers' = [answers EXCEPT ![s] = Append(@, AnswerOf(code, clid, id))]
    BY <1>1
  <2>2. AnswerOf(code, clid, id).code # "malformed"
    BY <1>1 DEF AnswerOf
  <2>3. QED
    BY <2>1, <2>2
<1>2. inbox[s] # <<>> /\ UNCHANGED <<buffer, wire>>
  BY DEF Route, Hello, Login, Refuse, Logout, Command, Unknown, Poll, Ack, AckUnknown, Fail,
         IsNext, streams
<1>3. \E x : inbox' = [inbox EXCEPT ![s] = x]
  <2>1. inbox' = [inbox EXCEPT ![s] = Tail(@)] \/ inbox' = [inbox EXCEPT ![s] = <<>>]
    BY DEF Route, Hello, Login, Refuse, Logout, Command, Unknown, Poll, Ack, AckUnknown, Fail,
           PopInbox
  <2>2. QED
    BY <2>1
<1>4. \E code : code # "malformed" /\ Answers(code)
  <2>1. CASE Hello(s) \/ Refuse(s) \/ Logout(s) \/ Unknown(s) \/ AckUnknown(s) \/ Fail(s)
    <3>1. PICK code \in {"greeting", "unauthorized", "ended", "unknown", "noMessages", "failed"} :
            Reply(s, code)
      BY <2>1 DEF Hello, Refuse, Logout, Unknown, AckUnknown, Fail
    <3>2. code # "malformed"
      BY <3>1
    <3>3. QED
      BY <3>1, <3>2 DEF Reply
  <2>2. CASE Login(s)
    <3>1. Answers("loggedIn") \/ Answers("refused")
      BY <2>2 DEF Login, Reply, ReplyAs
    <3>2. QED
      BY <3>1
  <2>3. CASE Command(s) \/ Ack(s)
    <3>1. Answers("done") \/ Answers("acked")
      BY <2>3 DEF Command, Ack, ReplyAs
    <3>2. QED
      BY <3>1
  <2>4. CASE Poll(s)
    <3>1. Answers("noMessages") \/ Answers("message")
      BY <2>4 DEF Poll, Reply, ReplyAs
    <3>2. QED
      BY <3>1
  <2>5. QED
    BY <2>1, <2>2, <2>3, <2>4 DEF Route
<1>5. QED
  BY <1>1, <1>2, <1>3, <1>4

LEMMA RouteKeeps ==
  ASSUME IInv, MInv, NEW s \in Sessions, Route(s)
  PROVE  MInv'
<1>1. PICK x : inbox' = [inbox EXCEPT ![s] = x]
  BY RouteFacts
<1>2. PICK a : a.code # "malformed" /\ answers' = [answers EXCEPT ![s] = Append(@, a)]
  BY RouteFacts
<1>3. inbox[s] # <<>> /\ buffer' = buffer /\ wire' = wire
  BY RouteFacts
<1>4. IsSequence(answers[s]) /\ StaysMalformed(answers[s]) /\ ~HasMalformed(answers[s])
  BY <1>3 DEF IInv, ConnectionOK, MInv, MalformedOK
<1>5. answers'[s] = Append(answers[s], a) /\ \A t \in Sessions \ {s} : answers'[t] = answers[t]
  BY <1>2 DEF IInv
<1>6. MalformedOK(s)'
  BY <1>2, <1>4, <1>5, StaysMalformedFacts DEF MalformedOK
<1>7. ASSUME NEW t \in Sessions \ {s}
      PROVE  MalformedOK(t)'
  <2>1. inbox'[t] = inbox[t] /\ buffer'[t] = buffer[t] /\ answers'[t] = answers[t]
    BY <1>1, <1>3, <1>5 DEF MInv
  <2>2. QED
    BY <2>1 DEF MInv, MalformedOK
<1>8. DOMAIN inbox' = Sessions
  BY <1>1 DEF MInv
<1>9. QED
  BY <1>3, <1>6, <1>7, <1>8 DEF MInv

LEMMA SendKeeps ==
  ASSUME MInv, NEW s \in Sessions, NEW frame \in Frames, Send(s, frame)
  PROVE  MInv'
<1> DEFINE units == Encode(frame.body, frame.size)
<1>1. units \in Stream(Message)
  BY FrameAssumption, EncodeFacts
<1>2. /\ wire' = [wire EXCEPT ![s] = @ \o units]
      /\ UNCHANGED <<buffer, inbox, answers>>
  BY DEF Send
<1> HIDE DEF units
<1>3. wire[s] \o units \in Stream(Message)
  BY <1>1, StreamConcat DEF MInv
<1>4. wire' \in [Sessions -> Stream(Message)]
  BY <1>2, <1>3 DEF MInv
<1>5. QED
  BY <1>2, <1>4 DEF MInv, MalformedOK

LEMMA InitStreams == Init => MInv
<1> SUFFICES ASSUME Init PROVE MInv
  OBVIOUS
<1> DEFINE greeting == AnswerOf("greeting", None, None)
<1>1. buffer \in [Sessions -> Stream(Message)] /\ wire \in [Sessions -> Stream(Message)]
  BY DEF Init, Stream
<1>2. DOMAIN inbox = Sessions
  BY DEF Init
<1>3. ASSUME NEW s \in Sessions
      PROVE  MalformedOK(s)
  <2>1. answers[s] = <<greeting>>
    BY <1>3 DEF Init
  <2>2. greeting.code # "malformed"
    BY DEF AnswerOf
  <2> HIDE DEF greeting
  <2>3. \A i \in 1..Len(answers[s]) : answers[s][i].code # "malformed"
    BY <2>1, <2>2
  <2>4. QED
    BY <2>3 DEF MalformedOK, StaysMalformed, HasMalformed
<1>4. QED
  BY <1>1, <1>2, <1>3 DEF MInv

LEMMA NextStreams == IInv /\ MInv /\ [Next]_vars => MInv'
<1> SUFFICES ASSUME IInv, MInv, [Next]_vars PROVE MInv'
  OBVIOUS
<1>1. ASSUME NEW s \in Sessions, Data(s)
      PROVE  MInv'
  <2>1. PICK k \in 1..Len(wire[s]) : Receive(s, k) \/ ReceiveMalformed(s, k)
    BY <1>1 DEF Data
  <2>2. QED
    BY <2>1, ReceiveKeeps, ReceiveMalformedKeeps
<1>2. ASSUME NEW s \in Sessions, Route(s)
      PROVE  MInv'
  BY <1>2, RouteKeeps
<1>3. ASSUME NEW s \in Sessions, NEW frame \in Frames, Send(s, frame)
      PROVE  MInv'
  BY <1>3, SendKeeps
<1>4. ASSUME NEW r \in Registrars, Post(r)
      PROVE  MInv'
  BY <1>4 DEF Post, streams, MInv, MalformedOK
<1>5. CASE UNCHANGED vars
  BY <1>5 DEF vars, MInv, MalformedOK
<1>6. QED
  BY <1>1, <1>2, <1>3, <1>4, <1>5 DEF Next

\* After a length field that no frame can have, the connection runs nothing any
\* more: the decoder never finds its way back into the stream, however the bytes
\* behind the length look and are cut.
THEOREM MalformedAlwaysRunsNothing == Spec => []MalformedRunsNothing
<1>1. Init => MInv
  BY InitStreams
<1>2. IInv /\ MInv /\ [Next]_vars => MInv'
  BY NextStreams
<1>3. MInv => MalformedRunsNothing
  BY DEF MInv, MalformedOK, StaysMalformed, MalformedRunsNothing
<1>4. QED
  BY <1>1, <1>2, <1>3, Inductive, PTL DEF Spec

-------------------------------------------------------------------------------
(* Types.                                                                  *)

\* The first occurrence of e is taken out of q: the other elements stay.
LEMMA RemoveFirstFacts ==
  ASSUME NEW S, NEW q \in Seq(S), NEW e, \E i \in 1..Len(q) : q[i] = e
  PROVE  /\ RemoveFirst(q, e) \in Seq(S)
         /\ \A i \in 1..Len(RemoveFirst(q, e)) : \E j \in 1..Len(q) : RemoveFirst(q, e)[i] = q[j]
         /\ \A j \in 1..Len(q) : q[j] # e =>
              \E i \in 1..Len(RemoveFirst(q, e)) : RemoveFirst(q, e)[i] = q[j]
<1> DEFINE I == {i \in 1..Len(q) : q[i] = e}
           m == CHOOSE i \in I : \A n \in I : i =< n
           front == SubSeq(q, 1, m - 1)
           back == SubSeq(q, m + 1, Len(q))
           p == front \o back
<1>1. Len(q) \in Nat
  OBVIOUS
<1>2. m \in 1..Len(q) /\ q[m] = e
  <2>1. I \in SUBSET Nat /\ I # {}
    OBVIOUS
  <2> HIDE DEF I
  <2>2. \E i \in I : \A n \in I : i =< n
    BY <2>1, Least
  <2>3. m \in I
    BY <2>2
  <2>4. QED
    BY <2>3 DEF I
<1>3. RemoveFirst(q, e) = p
  BY DEF RemoveFirst, SelectInSeq, Min, RemoveAt
<1> HIDE DEF m
<1>4. front \in Seq(S) /\ Len(front) = m - 1 /\ \A i \in 1..(m - 1) : front[i] = q[i]
  BY <1>1, <1>2
<1>5. /\ back \in Seq(S) /\ Len(back) = Len(q) - m
      /\ \A i \in 1..(Len(q) - m) : back[i] = q[m + i]
  BY <1>1, <1>2, BehindFacts
<1> HIDE DEF front, back
<1>6. /\ p \in Seq(S) /\ Len(p) = Len(q) - 1
      /\ \A i \in 1..(m - 1) : p[i] = q[i]
      /\ \A i \in 1..(Len(q) - m) : p[(m - 1) + i] = q[m + i]
  <2>1. /\ p \in Seq(S) /\ Len(p) = Len(front) + Len(back)
        /\ \A i \in 1..Len(front) : p[i] = front[i]
        /\ \A i \in 1..Len(back) : p[Len(front) + i] = back[i]
    <3>1. front \in Seq(S) /\ back \in Seq(S)
      BY <1>4, <1>5
    <3>2. QED
      BY <3>1, ConcatFacts
  <2> HIDE DEF p
  <2>2. Len(front) = m - 1 /\ Len(back) = Len(q) - m /\ m \in Nat /\ Len(q) \in Nat
    BY <1>1, <1>2, <1>4, <1>5
  <2>3. p \in Seq(S) /\ Len(p) = Len(q) - 1
    BY <2>1, <2>2
  <2>4. \A i \in 1..(m - 1) : p[i] = q[i]
    BY <1>4, <2>1, <2>2
  <2>5. \A i \in 1..(Len(q) - m) : p[(m - 1) + i] = q[m + i]
    BY <1>5, <2>1, <2>2
  <2>6. QED
    BY <2>3, <2>4, <2>5
<1> HIDE DEF p
<1>7. ASSUME NEW i \in 1..Len(p)
      PROVE  \E j \in 1..Len(q) : p[i] = q[j]
  <2>1. CASE i =< m - 1
    <3>1. i \in 1..(m - 1) /\ i \in 1..Len(q)
      BY <1>1, <1>2, <2>1
    <3>2. QED
      BY <1>6, <3>1
  <2>2. CASE i > m - 1
    <3>1. /\ i - (m - 1) \in 1..(Len(q) - m) /\ (m - 1) + (i - (m - 1)) = i
          /\ m + (i - (m - 1)) \in 1..Len(q)
      BY <1>1, <1>2, <1>6, <2>2
    <3>2. QED
      BY <1>6, <3>1
  <2>3. QED
    BY <1>2, <1>6, <2>1, <2>2
<1>8. ASSUME NEW j \in 1..Len(q), q[j] # e
      PROVE  \E i \in 1..Len(p) : p[i] = q[j]
  <2>1. CASE j < m
    <3>1. j \in 1..(m - 1) /\ j \in 1..Len(p)
      BY <1>1, <1>2, <1>6, <2>1
    <3>2. QED
      BY <1>6, <3>1
  <2>2. CASE j > m
    <3>1. j - m \in 1..(Len(q) - m) /\ m + (j - m) = j /\ (m - 1) + (j - m) \in 1..Len(p)
      BY <1>1, <1>2, <1>6, <2>2
    <3>2. QED
      BY <1>6, <3>1
  <2>3. QED
    BY <1>2, <1>8, <2>1, <2>2
<1>9. QED
  BY <1>3, <1>6, <1>7, <1>8

\* What clients send: a login that is accepted names a registrar.
ClientMessages == {frame.body : frame \in Frames}

LEMMA ClientMessagesFacts ==
  /\ ClientMessages \subseteq Message
  /\ \A m \in ClientMessages :
       /\ m.clid \in Registrars \cup {None} /\ m.id \in Ids \cup {None} /\ m.valid \in BOOLEAN
       /\ m.op = "login" /\ m.valid => m.clid \in Registrars
<1>1. ASSUME NEW frame \in Frames
      PROVE  /\ frame.body \in Message
             /\ frame.body.op = "login" /\ frame.body.valid => frame.body.clid # None
  BY FrameAssumption
<1>2. ASSUME NEW m \in Message
      PROVE  m.clid \in Registrars \cup {None} /\ m.id \in Ids \cup {None} /\ m.valid \in BOOLEAN
  BY DEF Message
<1>3. QED
  BY <1>1, <1>2 DEF ClientMessages

\* TypeOK, of messages that clients send.
TInv ==
  /\ sent \in [Sessions -> Seq(ClientMessages)]
  /\ wire \in [Sessions -> Stream(ClientMessages)]
  /\ buffer \in [Sessions -> Stream(ClientMessages)]
  /\ inbox \in [Sessions -> Seq(ClientMessages)]
  /\ session \in [Sessions -> [authenticated : BOOLEAN, clid : Registrars \cup {None}]]
  /\ \A s \in Sessions : session[s].authenticated => session[s].clid # None
  /\ answers \in [Sessions -> Seq(Answer)]
  /\ queues \in [Registrars -> Seq(Ids)]
  /\ posted \in 0..MaxPosted

LEMMA ReplyAsTyped ==
  ASSUME TInv, NEW s \in Sessions, NEW code \in Codes,
         NEW clid \in Registrars \cup {None}, NEW id \in Ids \cup {None},
         ReplyAs(s, code, clid, id)
  PROVE  answers' \in [Sessions -> Seq(Answer)]
<1> DEFINE a == AnswerOf(code, clid, id)
<1>1. a \in Answer
  BY DEF AnswerOf, Answer
<1>2. answers' = [answers EXCEPT ![s] = Append(@, a)] /\ answers \in [Sessions -> Seq(Answer)]
  BY DEF ReplyAs, TInv
<1> HIDE DEF a
<1>3. Append(answers[s], a) \in Seq(Answer)
  BY <1>1, <1>2
<1>4. QED
  BY <1>2, <1>3

LEMMA ReplyTyped ==
  ASSUME TInv, NEW s \in Sessions, NEW code \in Codes, Reply(s, code)
  PROVE  answers' \in [Sessions -> Seq(Answer)]
<1>1. ReplyAs(s, code, None, None)
  BY DEF Reply, ReplyAs
<1>2. QED
  BY <1>1, ReplyAsTyped

\* A routed message either leaves the inbox, or all of them do.
LEMMA RouteShape ==
  ASSUME NEW s \in Sessions, Route(s)
  PROVE  /\ inbox[s] # <<>> /\ UNCHANGED <<streams, posted>>
         /\ PopInbox(s) \/ Fail(s)
BY DEF Route, Hello, Login, Refuse, Logout, Command, Unknown, Poll, Ack, AckUnknown, Fail,
       IsNext

\* What the handlers find: a message some client sent, and a session that stands
\* for a registrar while it is logged in.
LEMMA HandlerFacts ==
  ASSUME TInv, NEW s \in Sessions, inbox[s] # <<>>
  PROVE  /\ Head(inbox[s]) \in ClientMessages
         /\ Tail(inbox[s]) \in Seq(ClientMessages)
         /\ session[s].clid \in Registrars \cup {None}
         /\ IsLoggedIn(s) => session[s].clid \in Registrars
         /\ \A r \in Registrars : queues[r] \in Seq(Ids)
<1>1. inbox[s] \in Seq(ClientMessages)
  BY DEF TInv
<1>2. Head(inbox[s]) \in ClientMessages /\ Tail(inbox[s]) \in Seq(ClientMessages)
  BY <1>1
<1>3. session[s].clid \in Registrars \cup {None} /\ (session[s].authenticated => session[s].clid # None)
  BY DEF TInv
<1>4. QED
  BY <1>2, <1>3 DEF TInv, IsLoggedIn

LEMMA RouteTyped ==
  ASSUME TInv, NEW s \in Sessions, Route(s)
  PROVE  TInv'
<1> DEFINE m == Head(inbox[s])
           clid == session[s].clid
           AnswersTyped == answers' \in [Sessions -> Seq(Answer)]
           SessionTyped ==
             /\ session' \in [Sessions -> [authenticated : BOOLEAN, clid : Registrars \cup {None}]]
             /\ \A t \in Sessions : session'[t].authenticated => session'[t].clid # None
           QueuesTyped == queues' \in [Registrars -> Seq(Ids)]
<1>1. inbox[s] # <<>> /\ UNCHANGED <<sent, wire, buffer, posted>>
  BY RouteShape DEF streams
<1>2. m \in ClientMessages /\ m.clid \in Registrars \cup {None} /\ m.id \in Ids \cup {None}
  BY <1>1, HandlerFacts, ClientMessagesFacts
<1>3. inbox' \in [Sessions -> Seq(ClientMessages)]
  <2>1. inbox' = [inbox EXCEPT ![s] = Tail(@)] \/ inbox' = [inbox EXCEPT ![s] = <<>>]
    BY RouteShape DEF PopInbox, Fail
  <2>2. Tail(inbox[s]) \in Seq(ClientMessages) /\ <<>> \in Seq(ClientMessages)
    BY <1>1, HandlerFacts
  <2>3. QED
    BY <2>1, <2>2 DEF TInv
<1>4. ASSUME UNCHANGED session
      PROVE  SessionTyped
  BY <1>4 DEF TInv
<1>5. ASSUME UNCHANGED queues
      PROVE  QueuesTyped
  BY <1>5 DEF TInv
<1>6. SessionTyped /\ AnswersTyped /\ QueuesTyped
  <2>1. CASE Hello(s) \/ Refuse(s) \/ Unknown(s) \/ AckUnknown(s) \/ Fail(s)
    <3>1. \E code \in {"greeting", "unauthorized", "unknown", "noMessages", "failed"} : Reply(s, code)
      BY <2>1 DEF Hello, Refuse, Unknown, AckUnknown, Fail
    <3>2. AnswersTyped
      BY <3>1, ReplyTyped DEF Codes
    <3>3. UNCHANGED <<session, queues>>
      BY <2>1 DEF Hello, Refuse, Unknown, AckUnknown, Fail
    <3>4. QED
      BY <1>4, <1>5, <3>2, <3>3
  <2>2. CASE Login(s)
    <3>1. UNCHANGED queues /\ m.op = "login"
      BY <2>2 DEF Login, IsNext
    <3>2. CASE m.valid
      <4>1. /\ session' = [session EXCEPT ![s] = [authenticated |-> TRUE, clid |-> m.clid]]
            /\ ReplyAs(s, "loggedIn", m.clid, None)
        BY <2>2, <3>2 DEF Login
      <4>2. m.clid \in Registrars /\ m.clid # None
        BY <1>2, <3>1, <3>2, ClientMessagesFacts, NoneAssumption
      <4>3. SessionTyped
        BY <4>1, <4>2 DEF TInv
      <4>4. AnswersTyped
        BY <1>2, <4>1, ReplyAsTyped DEF Codes
      <4>5. QED
        BY <1>5, <3>1, <4>3, <4>4
    <3>3. CASE ~m.valid
      <4>1. Reply(s, "refused") /\ UNCHANGED session
        BY <2>2, <3>3 DEF Login
      <4>2. AnswersTyped
        BY <4>1, ReplyTyped DEF Codes
      <4>3. QED
        BY <1>4, <1>5, <3>1, <4>1, <4>2
    <3>4. QED
      BY <3>2, <3>3
  <2>3. CASE Logout(s)
    <3>1. /\ session' = [session EXCEPT ![s].authenticated = FALSE]
          /\ Reply(s, "ended") /\ UNCHANGED queues
      BY <2>3 DEF Logout
    <3>2. SessionTyped
      BY <3>1 DEF TInv
    <3>3. AnswersTyped
      BY <3>1, ReplyTyped DEF Codes
    <3>4. QED
      BY <1>5, <3>1, <3>2, <3>3
  <2>4. CASE Command(s)
    <3>1. ReplyAs(s, "done", clid, None) /\ UNCHANGED <<session, queues>>
      BY <2>4 DEF Command
    <3>2. AnswersTyped
      BY <1>1, <3>1, HandlerFacts, ReplyAsTyped DEF Codes
    <3>3. QED
      BY <1>4, <1>5, <3>1, <3>2
  <2>5. CASE Poll(s)
    <3>1. UNCHANGED <<session, queues>> /\ clid \in Registrars /\ queues[clid] \in Seq(Ids)
      BY <1>1, <2>5, HandlerFacts DEF Poll
    <3>2. CASE queues[clid] = <<>>
      <4>1. Reply(s, "noMessages")
        BY <2>5, <3>2 DEF Poll
      <4>2. AnswersTyped
        BY <4>1, ReplyTyped DEF Codes
      <4>3. QED
        BY <1>4, <1>5, <3>1, <4>2
    <3>3. CASE queues[clid] # <<>>
      <4>1. ReplyAs(s, "message", clid, Head(queues[clid]))
        BY <2>5, <3>3 DEF Poll
      <4>2. Head(queues[clid]) \in Ids
        BY <3>1, <3>3
      <4>3. AnswersTyped
        BY <3>1, <4>1, <4>2, ReplyAsTyped DEF Codes
      <4>4. QED
        BY <1>4, <1>5, <3>1, <4>3
    <3>4. QED
      BY <3>2, <3>3
  <2>6. CASE Ack(s)
    <3>1. /\ UNCHANGED session /\ clid \in Registrars /\ queues[clid] \in Seq(Ids)
          /\ IsQueued(clid, m.id) /\ ReplyAs(s, "acked", clid, m.id)
          /\ queues' = [queues EXCEPT ![clid] = RemoveFirst(@, m.id)]
      BY <1>1, <2>6, HandlerFacts DEF Ack
    <3>2. RemoveFirst(queues[clid], m.id) \in Seq(Ids)
      BY <3>1, RemoveFirstFacts DEF IsQueued
    <3>3. QueuesTyped
      BY <3>1, <3>2 DEF TInv
    <3>4. AnswersTyped
      BY <1>2, <3>1, ReplyAsTyped DEF Codes
    <3>5. QED
      BY <1>4, <3>1, <3>3, <3>4
  <2>7. QED
    BY <2>1, <2>2, <2>3, <2>4, <2>5, <2>6 DEF Route
<1>7. QED
  BY <1>1, <1>3, <1>6 DEF TInv

\* A chunk and what was in the buffer before it.
LEMMA ReceivedTyped ==
  ASSUME TInv, NEW s \in Sessions, NEW k \in 1..Len(wire[s])
  PROVE  /\ Received(s, k) \in Stream(ClientMessages)
         /\ SubSeq(wire[s], k + 1, Len(wire[s])) \in Stream(ClientMessages)
         /\ buffer[s] \in Stream(ClientMessages) /\ wire[s] \in Stream(ClientMessages)
         /\ Received(s, k) \o SubSeq(wire[s], k + 1, Len(wire[s])) = InTransit(s)
<1> DEFINE before == buffer[s]
           chunk == SubSeq(wire[s], 1, k)
           left == SubSeq(wire[s], k + 1, Len(wire[s]))
<1>1. before \in Stream(ClientMessages) /\ wire[s] \in Stream(ClientMessages)
  BY DEF TInv
<1>2. k \in 1..Len(wire[s])
  OBVIOUS
<1>3. chunk \in Stream(ClientMessages) /\ left \in Stream(ClientMessages)
  BY <1>1, <1>2, StreamCut
<1>9. chunk \o left = wire[s]
  BY <1>1, <1>2, StreamCut
<1>4. Received(s, k) = before \o chunk
  BY DEF Received
<1> HIDE DEF before, chunk, left
<1>5. Received(s, k) \in Stream(ClientMessages)
  BY <1>1, <1>3, <1>4, StreamConcat
<1>6. (before \o chunk) \o left = before \o (chunk \o left)
  <2>1. \A x, y, z \in Stream(ClientMessages) : (x \o y) \o z = x \o (y \o z)
    BY StreamAssociative, SMTT(30)
  <2>2. QED
    BY <1>1, <1>3, <2>1, Zenon
<1>7. Received(s, k) \o left = before \o wire[s]
  BY <1>4, <1>6, <1>9
<1>8. QED
  BY <1>1, <1>3, <1>5, <1>7 DEF left, before, InTransit

LEMMA DataTyped ==
  ASSUME TInv, NEW s \in Sessions, Data(s)
  PROVE  TInv'
<1>1. PICK k \in 1..Len(wire[s]) : Receive(s, k) \/ ReceiveMalformed(s, k)
  BY DEF Data
<1>2. wire' \in [Sessions -> Stream(ClientMessages)]
  <2>1. wire' = [wire EXCEPT ![s] = SubSeq(@, k + 1, Len(@))]
    BY <1>1 DEF Receive, ReceiveMalformed, TakeChunk
  <2>2. QED
    BY <2>1, ReceivedTyped DEF TInv
<1>3. buffer' \in [Sessions -> Stream(ClientMessages)]
  <2>1. buffer' = [buffer EXCEPT ![s] = Rest(Received(s, k))]
    BY <1>1 DEF Receive, ReceiveMalformed, TakeChunk
  <2>2. Rest(Received(s, k)) \in Stream(ClientMessages)
    BY ReceivedTyped, RestFacts
  <2>3. QED
    BY <2>1, <2>2 DEF TInv
<1>4. UNCHANGED <<sent, session, queues, posted>>
  BY <1>1 DEF Receive, ReceiveMalformed
<1>5. CASE Receive(s, k)
  <2>1. inbox' = [inbox EXCEPT ![s] = Messages(Received(s, k))] /\ UNCHANGED answers
    BY <1>5 DEF Receive
  <2>2. Messages(Received(s, k)) \in Seq(ClientMessages)
    BY ReceivedTyped, DecodedBodies
  <2>3. inbox' \in [Sessions -> Seq(ClientMessages)]
    BY <2>1, <2>2 DEF TInv
  <2>4. QED
    BY <1>2, <1>3, <1>4, <2>1, <2>3 DEF TInv
<1>6. CASE ReceiveMalformed(s, k)
  <2>1. Reply(s, "malformed") /\ UNCHANGED inbox
    BY <1>6 DEF ReceiveMalformed
  <2>2. answers' \in [Sessions -> Seq(Answer)]
    BY <2>1, ReplyTyped DEF Codes
  <2>3. QED
    BY <1>2, <1>3, <1>4, <2>1, <2>2 DEF TInv
<1>7. QED
  BY <1>1, <1>5, <1>6

LEMMA SendTyped ==
  ASSUME TInv, NEW s \in Sessions, NEW frame \in Frames, Send(s, frame)
  PROVE  TInv'
<1> DEFINE units == Encode(frame.body, frame.size)
<1>1. frame.body \in ClientMessages /\ frame.size \in Nat
  BY FrameAssumption DEF ClientMessages
<1>2. units \in Stream(ClientMessages)
  BY <1>1, EncodeFacts
<1> HIDE DEF units
<1>3. /\ sent' = [sent EXCEPT ![s] = Append(@, frame.body)]
      /\ wire' = [wire EXCEPT ![s] = @ \o units]
      /\ UNCHANGED <<buffer, inbox, session, answers, queues, posted>>
  BY DEF Send, units
<1>4. wire[s] \o units \in Stream(ClientMessages)
  BY <1>2, StreamConcat DEF TInv
<1>5. Append(sent[s], frame.body) \in Seq(ClientMessages)
  BY <1>1 DEF TInv
<1>6. QED
  BY <1>3, <1>4, <1>5 DEF TInv

LEMMA PostTyped ==
  ASSUME TInv, NEW r \in Registrars, Post(r)
  PROVE  TInv'
<1>1. /\ posted < MaxPosted /\ posted' = posted + 1
      /\ queues' = [queues EXCEPT ![r] = Append(@, posted + 1)]
      /\ UNCHANGED <<sent, wire, buffer, inbox, session, answers>>
  BY DEF Post, streams
<1>2. posted' \in 0..MaxPosted /\ posted + 1 \in Ids
  BY <1>1, BoundAssumption DEF TInv, Ids
<1>3. Append(queues[r], posted + 1) \in Seq(Ids)
  BY <1>2 DEF TInv
<1>4. queues' \in [Registrars -> Seq(Ids)]
  BY <1>1, <1>3 DEF TInv
<1>5. QED
  BY <1>1, <1>2, <1>4 DEF TInv

LEMMA InitTyped == Init => TInv
<1> SUFFICES ASSUME Init PROVE TInv
  OBVIOUS
<1> DEFINE greeting == AnswerOf("greeting", None, None)
<1>1. greeting \in Answer
  BY DEF AnswerOf, Answer, Codes
<1>2. <<greeting>> \in Seq(Answer)
  <2> HIDE DEF greeting
  <2>1. QED
    BY <1>1
<1>3. answers = [s \in Sessions |-> <<greeting>>]
  BY DEF Init
<1>4. answers \in [Sessions -> Seq(Answer)]
  BY <1>2, <1>3
<1>5. <<>> \in Stream(ClientMessages) /\ <<>> \in Seq(ClientMessages)
  BY DEF Stream
<1>6. /\ sent \in [Sessions -> Seq(ClientMessages)]
      /\ wire \in [Sessions -> Stream(ClientMessages)]
      /\ buffer \in [Sessions -> Stream(ClientMessages)]
      /\ inbox \in [Sessions -> Seq(ClientMessages)]
  BY <1>5 DEF Init
<1>7. /\ session \in [Sessions -> [authenticated : BOOLEAN, clid : Registrars \cup {None}]]
      /\ \A s \in Sessions : session[s].authenticated => session[s].clid # None
      /\ queues \in [Registrars -> Seq(Ids)]
      /\ posted \in 0..MaxPosted
  BY BoundAssumption DEF Init
<1>8. QED
  BY <1>4, <1>6, <1>7 DEF TInv

LEMMA NextTyped == TInv /\ [Next]_vars => TInv'
<1> SUFFICES ASSUME TInv, [Next]_vars PROVE TInv'
  OBVIOUS
<1>1. CASE UNCHANGED vars
  BY <1>1 DEF vars, TInv
<1>2. QED
  BY <1>1, RouteTyped, DataTyped, SendTyped, PostTyped DEF Next

LEMMA TypeInductive == Spec => []TInv
<1>1. QED
  BY InitTyped, NextTyped, PTL DEF Spec

\* What is decoded of any cuts of the clients' bytes are messages they sent, a
\* session that is logged in stands for a registrar, and the poll queues hold
\* messages that were posted.
THEOREM TypeCorrect == Spec => []TypeOK
<1>1. ClientMessages \subseteq Message
  BY ClientMessagesFacts
<1>2. ASSUME NEW q \in Seq(ClientMessages)
      PROVE  q \in Seq(Message)
  BY <1>1
<1>3. ASSUME NEW b \in Stream(ClientMessages)
      PROVE  b \in Seq([body : Message, size : Nat])
  <2>1. [body : ClientMessages, size : Nat] \subseteq [body : Message, size : Nat]
    BY <1>1
  <2>2. b \in Seq([body : ClientMessages, size : Nat])
    BY StreamFacts
  <2>3. QED
    BY <2>1, <2>2, SeqMonotonic
<1>4. TInv => TypeOK
  BY <1>2, <1>3 DEF TInv, TypeOK
<1>5. QED
  BY <1>4, TypeInductive, PTL

-------------------------------------------------------------------------------
(* Frames in order.                                                        *)

LEMMA TailOfConcat ==
  ASSUME NEW T, NEW q \in Seq(T), NEW p \in Seq(T), q # <<>>
  PROVE  q \o p # <<>> /\ Tail(q \o p) = Tail(q) \o p
OBVIOUS

\* The messages in q and then those in p are all from the n-th on.
AreLeft(q, p, all, n) == q \o p = SubSeq(all, n, Len(all))

\* The first of what is to be answered is answered.
LEMMA OneAnswered ==
  ASSUME NEW T, NEW q \in Seq(T), NEW p \in Seq(T), NEW all \in Seq(T), NEW n \in Nat \ {0},
         q # <<>>, AreLeft(q, p, all, n)
  PROVE  n =< Len(all) /\ AreLeft(Tail(q), p, all, n + 1)
<1>1. SubSeq(all, n, Len(all)) # <<>> /\ Tail(SubSeq(all, n, Len(all))) = Tail(q) \o p
  <2>1. q \o p # <<>> /\ Tail(q \o p) = Tail(q) \o p
    BY TailOfConcat
  <2>2. QED
    BY <2>1, Zenon DEF AreLeft
<1>2. Len(all) \in Nat
  BY ElementsOf
<1>3. n =< Len(all)
  <2>1. CASE Len(all) < n
    BY <1>1, <1>2, <2>1, SubSeqEmpty
  <2>2. QED
    BY <1>2, <2>1
<1>4. n \in 1..Len(all) /\ Len(all) \in n..Len(all)
  BY <1>2, <1>3
<1>5. Tail(SubSeq(all, n, Len(all))) = SubSeq(all, n + 1, Len(all))
  BY <1>4, HeadTailOfSubSeq
<1>6. QED
  BY <1>1, <1>3, <1>5, Zenon DEF AreLeft

\* One more message is sent.
LEMMA SubSeqOfAppend ==
  ASSUME NEW T, NEW all \in Seq(T), NEW m \in T, NEW n \in 1..(Len(all) + 1)
  PROVE  /\ Len(Append(all, m)) = Len(all) + 1
         /\ SubSeq(Append(all, m), n, Len(all) + 1) = SubSeq(all, n, Len(all)) \o <<m>>
OBVIOUS

LEMMA OneSent ==
  ASSUME NEW T, NEW p \in Seq(T), NEW all \in Seq(T), NEW m \in T, NEW n \in 1..(Len(all) + 1),
         AreLeft(<<>>, p, all, n)
  PROVE  AreLeft(<<>>, p \o <<m>>, Append(all, m), n)
<1>1. <<>> \o p = p
  BY ConcatEmptySeq
<1>2. <<>> \o (p \o <<m>>) = p \o <<m>>
  <2>1. <<m>> \in Seq(T)
    OBVIOUS
  <2>2. p \o <<m>> \in Seq(T)
    BY <2>1, ConcatProperties
  <2>3. QED
    BY <2>2, ConcatEmptySeq
<1>3. /\ Len(Append(all, m)) = Len(all) + 1
      /\ SubSeq(Append(all, m), n, Len(all) + 1) = SubSeq(all, n, Len(all)) \o <<m>>
  BY SubSeqOfAppend
<1>4. p = SubSeq(all, n, Len(all))
  BY <1>1, Zenon DEF AreLeft
<1>5. QED
  BY <1>2, <1>3, <1>4, Zenon DEF AreLeft

\* Messages are decoded: they are in the inbox instead of on the way.
LEMMA SomeDecoded ==
  ASSUME NEW T, NEW q \in Seq(T), NEW p \in Seq(T), NEW all, NEW n,
         AreLeft(<<>>, q \o p, all, n)
  PROVE  AreLeft(q, p, all, n)
<1>1. q \o p \in Seq(T)
  BY ConcatProperties
<1>2. <<>> \o (q \o p) = q \o p
  BY <1>1, ConcatEmptySeq
<1>3. QED
  BY <1>2, Zenon DEF AreLeft

IsIntact(s) == ~HasFailed(s) /\ ~IsMalformed(InTransit(s))

\* FramesInOrder, and what makes it inductive: no part of a frame is on the way
\* but the frames that are wholly sent, and at most the greeting and one answer
\* for each of them is written.
OrderOK(s) ==
  /\ Len(answers[s]) > 0
  /\ IsIntact(s) =>
       /\ Rest(InTransit(s)) = <<>>
       /\ Len(answers[s]) =< Len(sent[s]) + 1
       /\ AreLeft(inbox[s], Messages(InTransit(s)), sent[s], Len(answers[s]))

OrderInv == \A s \in Sessions : OrderOK(s)

\* A connection on which nothing happens.
LEMMA OrderUntouched ==
  ASSUME NEW s, OrderOK(s), sent'[s] = sent[s], wire'[s] = wire[s], buffer'[s] = buffer[s],
         inbox'[s] = inbox[s], answers'[s] = answers[s]
  PROVE  OrderOK(s)'
BY DEF OrderOK, IsIntact, HasFailed, InTransit

\* A further answer leaves the connection as failed as it was.
LEMMA FailureStays ==
  ASSUME TInv, NEW s \in Sessions, NEW a, answers' = [answers EXCEPT ![s] = Append(@, a)]
  PROVE  /\ Len(answers[s]) \in Nat /\ Len(answers'[s]) = Len(answers[s]) + 1
         /\ HasFailed(s) => HasFailed(s)'
         /\ a.code \in {"failed", "malformed"} => HasFailed(s)'
         /\ \A t \in Sessions \ {s} : answers'[t] = answers[t]
<1>1. answers[s] \in Seq(Answer) /\ DOMAIN answers = Sessions
  BY DEF TInv
<1>2. IsSequence(answers[s])
  BY <1>1 DEF IsSequence
<1>3. answers'[s] = Append(answers[s], a) /\ \A t \in Sessions \ {s} : answers'[t] = answers[t]
  BY <1>1
<1>4. /\ Len(answers[s]) \in Nat /\ Len(answers'[s]) = Len(answers[s]) + 1
      /\ \A i \in 1..Len(answers[s]) : answers'[s][i] = answers[s][i]
      /\ answers'[s][Len(answers[s]) + 1] = a
  BY <1>2, <1>3, AppendFacts
<1>5. HasFailed(s) => HasFailed(s)'
  BY <1>4 DEF HasFailed
<1>6. a.code \in {"failed", "malformed"} => HasFailed(s)'
  <2>1. Len(answers[s]) + 1 \in 1..Len(answers'[s])
    BY <1>4
  <2>2. QED
    BY <1>4, <2>1 DEF HasFailed
<1>7. QED
  BY <1>3, <1>4, <1>5, <1>6

LEMMA RouteOrder ==
  ASSUME TInv, OrderInv, NEW s \in Sessions, Route(s)
  PROVE  OrderInv'
<1>1. inbox[s] # <<>> /\ sent' = sent /\ wire' = wire /\ buffer' = buffer
  BY RouteShape DEF streams
<1>2. PICK a : answers' = [answers EXCEPT ![s] = Append(@, a)]
  BY RouteFacts
<1>3. /\ Len(answers[s]) \in Nat /\ Len(answers'[s]) = Len(answers[s]) + 1
      /\ HasFailed(s) => HasFailed(s)'
      /\ \A t \in Sessions \ {s} : answers'[t] = answers[t]
  BY <1>2, FailureStays
<1>4. \A t \in Sessions \ {s} : inbox'[t] = inbox[t]
  BY RouteFacts DEF TInv
<1>5. Len(answers[s]) > 0
  BY DEF OrderInv, OrderOK
<1>6. InTransit(s)' = InTransit(s)
  BY <1>1 DEF InTransit
<1>7. OrderOK(s)'
  <2>1. CASE Fail(s)
    <3>1. answers' = [answers EXCEPT ![s] = Append(@, AnswerOf("failed", None, None))]
      BY <2>1 DEF Fail, Reply
    <3>2. AnswerOf("failed", None, None).code = "failed"
      BY DEF AnswerOf
    <3>3. HasFailed(s)'
      BY <3>1, <3>2, FailureStays
    <3>4. QED
      BY <1>3, <1>5, <3>3 DEF OrderOK, IsIntact
  <2>2. CASE PopInbox(s) /\ IsIntact(s)'
    <3> DEFINE p == Messages(InTransit(s))
    <3>1. IsIntact(s)
      BY <1>3, <1>6, <2>2 DEF IsIntact
    <3>2. /\ Rest(InTransit(s)) = <<>> /\ Len(answers[s]) =< Len(sent[s]) + 1
          /\ AreLeft(inbox[s], p, sent[s], Len(answers[s]))
      BY <3>1 DEF OrderInv, OrderOK
    <3>3. p \in Seq(ClientMessages)
      <4>1. InTransit(s) \in Stream(ClientMessages)
        BY StreamConcat DEF TInv, InTransit
      <4>2. QED
        BY <4>1, DecodedBodies
    <3>4. inbox[s] \in Seq(ClientMessages) /\ sent[s] \in Seq(ClientMessages)
      BY DEF TInv
    <3>5. Len(answers[s]) \in Nat \ {0}
      BY <1>3, <1>5
    <3> HIDE DEF p
    <3>6. /\ Len(answers[s]) =< Len(sent[s])
          /\ AreLeft(Tail(inbox[s]), p, sent[s], Len(answers[s]) + 1)
      BY <1>1, <3>2, <3>3, <3>4, <3>5, OneAnswered
    <3>7. inbox'[s] = Tail(inbox[s])
      BY <2>2 DEF PopInbox, TInv
    <3>8. Len(sent[s]) \in Nat
      BY <3>4
    <3>9. Messages(InTransit(s)') = p /\ Rest(InTransit(s)') = <<>>
      BY <1>6, <3>2 DEF p
    <3>10. QED
      BY <1>1, <1>3, <1>5, <3>6, <3>7, <3>8, <3>9 DEF OrderOK
  <2>3. CASE PopInbox(s) /\ ~IsIntact(s)'
    BY <1>3, <1>5, <2>3 DEF OrderOK
  <2>4. QED
    BY <2>1, <2>2, <2>3, RouteShape
<1>8. ASSUME NEW t \in Sessions \ {s}
      PROVE  OrderOK(t)'
  BY <1>1, <1>3, <1>4, OrderUntouched DEF OrderInv
<1>9. QED
  BY <1>7, <1>8 DEF OrderInv

LEMMA DataOrder ==
  ASSUME TInv, OrderInv, NEW s \in Sessions, Data(s)
  PROVE  OrderInv'
<1>1. PICK k \in 1..Len(wire[s]) : Receive(s, k) \/ ReceiveMalformed(s, k)
  BY DEF Data
<1> DEFINE got == Received(s, k)
           left == SubSeq(wire[s], k + 1, Len(wire[s]))
<1>2. got \in Stream(ClientMessages) /\ left \in Stream(ClientMessages) /\ got \o left = InTransit(s)
  BY ReceivedTyped
<1>3. /\ wire' = [wire EXCEPT ![s] = left]
      /\ buffer' = [buffer EXCEPT ![s] = Rest(got)]
      /\ inbox[s] = <<>> /\ sent' = sent
  BY <1>1 DEF Receive, ReceiveMalformed, TakeChunk, Idle
<1> HIDE DEF got, left
<1>4. \A t \in Sessions \ {s} : wire'[t] = wire[t] /\ buffer'[t] = buffer[t]
  BY <1>3 DEF TInv
<1>5. InTransit(s)' = Rest(got) \o left
  BY <1>3 DEF TInv, InTransit
<1>6. /\ Messages(InTransit(s)) = Messages(got) \o Messages(InTransit(s)')
      /\ Rest(InTransit(s)) = Rest(InTransit(s)')
  <2>1. /\ Messages(got \o left) = Messages(got) \o Messages(Rest(got) \o left)
        /\ Rest(got \o left) = Rest(Rest(got) \o left)
    BY <1>2, Decoding
  <2>2. QED
    BY <1>2, <1>5, <2>1
<1>7. CASE Receive(s, k)
  <2>1. inbox' = [inbox EXCEPT ![s] = Messages(got)] /\ answers' = answers
    BY <1>7 DEF Receive, got
  <2>2. inbox'[s] = Messages(got) /\ \A t \in Sessions \ {s} : inbox'[t] = inbox[t]
    BY <2>1 DEF TInv
  <2>3. IsIntact(s)' <=> IsIntact(s)
    <3>1. HasFailed(s)' <=> HasFailed(s)
      BY <2>1 DEF HasFailed
    <3>2. IsMalformed(InTransit(s)') <=> IsMalformed(InTransit(s))
      BY <1>6 DEF IsMalformed
    <3>3. QED
      BY <3>1, <3>2 DEF IsIntact
  <2>4. Messages(got) \in Seq(ClientMessages) /\ Messages(InTransit(s)') \in Seq(ClientMessages)
    <3>1. InTransit(s)' \in Stream(ClientMessages)
      BY <1>2, <1>5, RestFacts, StreamConcat
    <3>2. QED
      BY <1>2, <3>1, DecodedBodies
  <2>5. ASSUME AreLeft(inbox[s], Messages(InTransit(s)), sent[s], Len(answers[s]))
        PROVE  AreLeft(inbox'[s], Messages(InTransit(s)'), sent[s], Len(answers[s]))
    BY <1>3, <1>6, <2>2, <2>4, <2>5, SomeDecoded
  <2>6. OrderOK(s)'
    BY <1>3, <1>6, <2>1, <2>3, <2>5 DEF OrderInv, OrderOK
  <2>7. ASSUME NEW t \in Sessions \ {s}
        PROVE  OrderOK(t)'
    BY <1>3, <1>4, <2>1, <2>2, OrderUntouched DEF OrderInv
  <2>8. QED
    BY <2>6, <2>7 DEF OrderInv
<1>8. CASE ReceiveMalformed(s, k)
  <2>1. /\ answers' = [answers EXCEPT ![s] = Append(@, AnswerOf("malformed", None, None))]
        /\ inbox' = inbox
    BY <1>8 DEF ReceiveMalformed, Reply
  <2>2. AnswerOf("malformed", None, None).code = "malformed"
    BY DEF AnswerOf
  <2>3. /\ HasFailed(s)' /\ Len(answers[s]) \in Nat /\ Len(answers'[s]) = Len(answers[s]) + 1
        /\ \A t \in Sessions \ {s} : answers'[t] = answers[t]
    BY <2>1, <2>2, FailureStays
  <2>4. OrderOK(s)'
    BY <2>3 DEF OrderOK, IsIntact
  <2>5. ASSUME NEW t \in Sessions \ {s}
        PROVE  OrderOK(t)'
    BY <1>3, <1>4, <2>1, <2>3, OrderUntouched DEF OrderInv
  <2>6. QED
    BY <2>4, <2>5 DEF OrderInv
<1>9. QED
  BY <1>1, <1>7, <1>8

LEMMA SendOrder ==
  ASSUME TInv, OrderInv, NEW s \in Sessions, NEW frame \in Frames, Send(s, frame)
  PROVE  OrderInv'
<1> DEFINE units == Encode(frame.body, frame.size)
           m == frame.body
           before == InTransit(s)
<1>1. m \in ClientMessages /\ frame.size \in Nat
  BY FrameAssumption DEF ClientMessages
<1>2. units \in Stream(ClientMessages)
  BY <1>1, EncodeFacts
<1>3. /\ sent' = [sent EXCEPT ![s] = Append(@, m)]
      /\ wire' = [wire EXCEPT ![s] = @ \o units]
      /\ buffer' = buffer /\ inbox' = inbox /\ answers' = answers
      /\ inbox[s] = <<>>
  BY DEF Send, Idle
<1>4. /\ (frame.size = 0 => IsMalformed(units))
      /\ (frame.size # 0 => Rest(units) = <<>> /\ Messages(units) = <<m>>)
  BY <1>1, EncodeFacts
<1> HIDE DEF units, m
<1>5. \A t \in Sessions \ {s} : wire'[t] = wire[t] /\ sent'[t] = sent[t]
  BY <1>3 DEF TInv
<1>6. before \in Stream(ClientMessages)
  BY StreamConcat DEF TInv, InTransit
<1>7. InTransit(s)' = before \o units
  <2>1. wire'[s] = wire[s] \o units /\ buffer'[s] = buffer[s]
    BY <1>3 DEF TInv
  <2>2. \A x, y, z \in Stream(ClientMessages) : (x \o y) \o z = x \o (y \o z)
    BY StreamAssociative
  <2>3. buffer[s] \in Stream(ClientMessages) /\ wire[s] \in Stream(ClientMessages)
    BY DEF TInv
  <2>4. (buffer[s] \o wire[s]) \o units = buffer[s] \o (wire[s] \o units)
    BY <1>2, <2>2, <2>3, Zenon
  <2>5. QED
    BY <2>1, <2>4 DEF InTransit
<1>8. ASSUME IsIntact(s)'
      PROVE  OrderOK(s)'
  <2>1. HasFailed(s)' <=> HasFailed(s)
    BY <1>3 DEF HasFailed
  <2>2. ~IsMalformed(before)
    <3>1. ~IsMalformed(before \o units)
      BY <1>7, <1>8 DEF IsIntact
    <3>2. QED
      BY <1>2, <1>6, <3>1, MalformedStays
  <2>3. IsIntact(s)
    BY <1>8, <2>1, <2>2 DEF IsIntact
  <2>4. /\ Len(answers[s]) > 0 /\ Rest(before) = <<>> /\ Len(answers[s]) =< Len(sent[s]) + 1
        /\ AreLeft(inbox[s], Messages(before), sent[s], Len(answers[s]))
    BY <2>3 DEF OrderInv, OrderOK
  <2>5. /\ Messages(before \o units) = Messages(before) \o Messages(Rest(before) \o units)
        /\ Rest(before \o units) = Rest(Rest(before) \o units)
    BY <1>2, <1>6, Decoding
  <2>6. Rest(before) \o units = units
    <3>1. units \in Seq([body : ClientMessages, size : Nat])
      BY <1>2, StreamFacts
    <3>2. <<>> \o units = units
      BY <3>1, ConcatEmptySeq
    <3>3. QED
      BY <2>4, <3>2
  <2>7. frame.size # 0
    <3>1. Rest(InTransit(s)') = Rest(units)
      BY <1>7, <2>5, <2>6
    <3>2. ~IsMalformed(units)
      BY <1>8, <3>1 DEF IsIntact, IsMalformed
    <3>3. QED
      BY <1>4, <3>2
  <2>8. Rest(InTransit(s)') = <<>> /\ Messages(InTransit(s)') = Messages(before) \o <<m>>
    BY <1>4, <1>7, <2>5, <2>6, <2>7
  <2>9. Messages(before) \in Seq(ClientMessages) /\ sent[s] \in Seq(ClientMessages)
    BY <1>6, DecodedBodies DEF TInv
  <2>10. Len(answers[s]) \in 1..(Len(sent[s]) + 1) /\ Len(sent[s]) \in Nat
    <3>1. answers[s] \in Seq(Answer)
      BY DEF TInv
    <3>2. Len(answers[s]) \in Nat /\ Len(sent[s]) \in Nat
      BY <2>9, <3>1
    <3>3. QED
      BY <2>4, <3>2
  <2>11. sent'[s] = Append(sent[s], m) /\ Len(sent'[s]) = Len(sent[s]) + 1
    BY <1>1, <1>3, <2>9 DEF TInv
  <2>12. AreLeft(<<>>, Messages(before) \o <<m>>, Append(sent[s], m), Len(answers[s]))
    BY <1>1, <1>3, <2>4, <2>9, <2>10, OneSent
  <2>13. AreLeft(inbox'[s], Messages(InTransit(s)'), sent'[s], Len(answers'[s]))
    BY <1>3, <2>8, <2>11, <2>12
  <2>14. Len(answers'[s]) > 0 /\ Len(answers'[s]) =< Len(sent'[s]) + 1
    BY <1>3, <2>10, <2>11
  <2>15. QED
    BY <2>8, <2>13, <2>14 DEF OrderOK
<1>9. OrderOK(s)'
  <2>1. Len(answers'[s]) > 0
    BY <1>3 DEF OrderInv, OrderOK
  <2>2. ASSUME ~IsIntact(s)'
        PROVE  OrderOK(s)'
    BY <2>1, <2>2 DEF OrderOK
  <2>3. QED
    BY <1>8, <2>2
<1>10. ASSUME NEW t \in Sessions \ {s}
       PROVE  OrderOK(t)'
  BY <1>3, <1>5, OrderUntouched DEF OrderInv
<1>11. QED
  BY <1>9, <1>10 DEF OrderInv

LEMMA InitOrder == Init => OrderInv
<1> SUFFICES ASSUME Init, NEW s \in Sessions PROVE OrderOK(s)
  BY DEF OrderInv
<1>1. /\ sent[s] = <<>> /\ wire[s] = <<>> /\ buffer[s] = <<>> /\ inbox[s] = <<>>
      /\ Len(answers[s]) = 1
  BY DEF Init
<1>2. InTransit(s) = <<>>
  BY <1>1 DEF InTransit
<1>3. <<>> \in Stream(ClientMessages)
  BY DEF Stream
<1>4. Rest(<<>>) = <<>> /\ Messages(<<>>) = <<>>
  BY <1>3, NothingMore
<1>5. AreLeft(<<>>, <<>>, <<>>, 1) /\ Len(<<>>) = 0
  <2>1. <<>> \o <<>> = <<>> /\ SubSeq(<<>>, 1, 0) = <<>> /\ Len(<<>>) = 0
    OBVIOUS
  <2>2. QED
    BY <2>1 DEF AreLeft
<1>6. QED
  BY <1>1, <1>2, <1>4, <1>5 DEF OrderOK

LEMMA NextOrder == TInv /\ OrderInv /\ [Next]_vars => OrderInv'
<1> SUFFICES ASSUME TInv, OrderInv, [Next]_vars PROVE OrderInv'
  OBVIOUS
<1>1. ASSUME NEW r \in Registrars, Post(r)
      PROVE  OrderInv'
  BY <1>1, OrderUntouched DEF Post, streams, OrderInv
<1>2. CASE UNCHANGED vars
  BY <1>2, OrderUntouched DEF vars, OrderInv
<1>3. QED
  BY <1>1, <1>2, RouteOrder, DataOrder, SendOrder DEF Next

\* However TCP cuts the bytes of a connection into chunks, and however many frames a
\* chunk completes, the messages still to be answered are those the client sent
\* behind the ones answered already: the decoder and the loop over its frames lose,
\* double and reorder none.
THEOREM AlwaysInOrder == Spec => []FramesInOrder
<1>1. OrderInv => FramesInOrder
  BY DEF OrderInv, OrderOK, IsIntact, AreLeft, FramesInOrder
<1>2. QED
  BY <1>1, InitOrder, NextOrder, TypeInductive, PTL DEF Spec
-------------------------------------------------------------------------------
(* Nothing is forgotten.                                                   *)

\* What the decoder keeps is less than a frame, unless it has thrown.
BufferOK(s) ==
  /\ Messages(buffer[s]) = <<>>
  /\ Rest(buffer[s]) = buffer[s]
  /\ IsMalformed(buffer[s]) => HasFailed(s)

BufferInv == \A s \in Sessions : BufferOK(s)

\* A connection whose buffer is as it was, and as failed as it was.
LEMMA BufferUntouched ==
  ASSUME NEW s, BufferOK(s), buffer'[s] = buffer[s], HasFailed(s) => HasFailed(s)'
  PROVE  BufferOK(s)'
BY DEF BufferOK

LEMMA RouteBuffer ==
  ASSUME TInv, BufferInv, NEW s \in Sessions, Route(s)
  PROVE  BufferInv'
<1>1. buffer' = buffer
  BY RouteShape DEF streams
<1>2. PICK a : answers' = [answers EXCEPT ![s] = Append(@, a)]
  BY RouteFacts
<1>3. HasFailed(s) => HasFailed(s)'
  BY <1>2, FailureStays
<1>4. ASSUME NEW t \in Sessions \ {s}
      PROVE  HasFailed(t) => HasFailed(t)'
  BY <1>2, FailureStays DEF HasFailed
<1>5. QED
  BY <1>1, <1>3, <1>4, BufferUntouched DEF BufferInv

LEMMA DataBuffer ==
  ASSUME TInv, BufferInv, NEW s \in Sessions, Data(s)
  PROVE  BufferInv'
<1>1. PICK k \in 1..Len(wire[s]) : Receive(s, k) \/ ReceiveMalformed(s, k)
  BY DEF Data
<1> DEFINE got == Received(s, k)
<1>2. got \in Stream(ClientMessages)
  BY ReceivedTyped
<1>3. Rest(Rest(got)) = Rest(got) /\ Messages(Rest(got)) = <<>>
  BY <1>2, NothingMore
<1>4. buffer' = [buffer EXCEPT ![s] = Rest(got)]
  BY <1>1 DEF Receive, ReceiveMalformed, TakeChunk
<1> HIDE DEF got
<1>5. buffer'[s] = Rest(got) /\ \A t \in Sessions \ {s} : buffer'[t] = buffer[t]
  BY <1>4 DEF TInv
<1>6. IsMalformed(Rest(got)) <=> IsMalformed(got)
  BY <1>3 DEF IsMalformed
<1>7. CASE Receive(s, k)
  <2>1. ~IsMalformed(got) /\ answers' = answers
    BY <1>7 DEF Receive, got
  <2>2. BufferOK(s)'
    BY <1>3, <1>5, <1>6, <2>1 DEF BufferOK
  <2>3. ASSUME NEW t \in Sessions \ {s}
        PROVE  BufferOK(t)'
    BY <1>5, <2>1, BufferUntouched DEF BufferInv, HasFailed
  <2>4. QED
    BY <2>2, <2>3 DEF BufferInv
<1>8. CASE ReceiveMalformed(s, k)
  <2>1. answers' = [answers EXCEPT ![s] = Append(@, AnswerOf("malformed", None, None))]
    BY <1>8 DEF ReceiveMalformed, Reply
  <2>2. AnswerOf("malformed", None, None).code = "malformed"
    BY DEF AnswerOf
  <2>3. HasFailed(s)' /\ \A t \in Sessions \ {s} : answers'[t] = answers[t]
    BY <2>1, <2>2, FailureStays
  <2>4. BufferOK(s)'
    BY <1>3, <1>5, <2>3 DEF BufferOK
  <2>5. ASSUME NEW t \in Sessions \ {s}
        PROVE  BufferOK(t)'
    BY <1>5, <2>3, BufferUntouched DEF BufferInv, HasFailed
  <2>6. QED
    BY <2>4, <2>5 DEF BufferInv
<1>9. QED
  BY <1>1, <1>7, <1>8

LEMMA InitBuffer == Init => BufferInv
<1> SUFFICES ASSUME Init, NEW s \in Sessions PROVE BufferOK(s)
  BY DEF BufferInv
<1>1. buffer[s] = <<>>
  BY DEF Init
<1>2. <<>> \in Stream(ClientMessages)
  BY DEF Stream
<1>3. Rest(<<>>) = <<>> /\ Messages(<<>>) = <<>>
  BY <1>2, NothingMore
<1>4. ~IsMalformed(<<>>)
  BY <1>3 DEF IsMalformed
<1>5. QED
  BY <1>1, <1>3, <1>4 DEF BufferOK

LEMMA NextBuffer == TInv /\ BufferInv /\ [Next]_vars => BufferInv'
<1> SUFFICES ASSUME TInv, BufferInv, [Next]_vars PROVE BufferInv'
  OBVIOUS
<1>1. ASSUME NEW s \in Sessions, NEW frame \in Frames, Send(s, frame)
      PROVE  BufferInv'
  BY <1>1, BufferUntouched DEF Send, BufferInv, HasFailed
<1>2. ASSUME NEW r \in Registrars, Post(r)
      PROVE  BufferInv'
  BY <1>2, BufferUntouched DEF Post, streams, BufferInv, HasFailed
<1>3. CASE UNCHANGED vars
  BY <1>3, BufferUntouched DEF vars, BufferInv, HasFailed
<1>4. QED
  BY <1>1, <1>2, <1>3, RouteBuffer, DataBuffer DEF Next

\* Nothing of what this connection's client sent is on its way to an answer.
IsQuiet(s) == wire[s] = <<>> /\ inbox[s] = <<>>

\* A connection that has nothing left to do has answered every frame and greeted
\* once, unless it failed on one: no frame is left in the decoder's buffer behind
\* the last chunk.  This is the safety half of EveryFrameAnswered.
THEOREM QuietIsAnswered ==
  Spec => [](\A s \in Sessions : IsQuiet(s) => HasFailed(s) \/ Len(answers[s]) = Len(sent[s]) + 1)
<1>1. ASSUME TInv, OrderInv, BufferInv, NEW s \in Sessions, IsQuiet(s), ~HasFailed(s)
      PROVE  Len(answers[s]) = Len(sent[s]) + 1
  <2>1. buffer[s] \in Seq([body : ClientMessages, size : Nat])
    BY <1>1, StreamFacts DEF TInv
  <2>2. InTransit(s) = buffer[s]
    BY <1>1, <2>1, ConcatEmptySeq DEF InTransit, IsQuiet
  <2>3. Messages(buffer[s]) = <<>> /\ IsIntact(s)
    BY <1>1, <2>2 DEF BufferInv, BufferOK, IsIntact
  <2>4. /\ Len(answers[s]) > 0 /\ Len(answers[s]) =< Len(sent[s]) + 1
        /\ AreLeft(<<>>, <<>>, sent[s], Len(answers[s]))
    BY <1>1, <2>2, <2>3 DEF OrderInv, OrderOK, IsQuiet
  <2>5. sent[s] \in Seq(ClientMessages) /\ answers[s] \in Seq(Answer)
    BY <1>1 DEF TInv
  <2>6. Len(sent[s]) \in Nat /\ Len(answers[s]) \in Nat
    BY <2>5
  <2>7. SubSeq(sent[s], Len(answers[s]), Len(sent[s])) = <<>>
    <3>1. <<>> \o <<>> = <<>>
      OBVIOUS
    <3>2. QED
      BY <2>4, <3>1 DEF AreLeft
  <2>8. CASE Len(answers[s]) =< Len(sent[s])
    <3>1. Len(SubSeq(sent[s], Len(answers[s]), Len(sent[s]))) = Len(sent[s]) - Len(answers[s]) + 1
      BY <2>4, <2>5, <2>6, <2>8
    <3>2. QED
      BY <2>6, <2>7, <2>8, <3>1
  <2>9. QED
    BY <2>4, <2>6, <2>8
<1>2. TInv /\ OrderInv /\ BufferInv
        => \A s \in Sessions : IsQuiet(s) => HasFailed(s) \/ Len(answers[s]) = Len(sent[s]) + 1
  BY <1>1
<1>3. QED
  BY <1>2, InitOrder, NextOrder, InitBuffer, NextBuffer, TypeInductive, PTL DEF Spec
-------------------------------------------------------------------------------
(* Poll messages.                                                          *)

\* Some connection has been given the message id of registrar r.
Shows(r, id) ==
  \E s \in Sessions : \E i \in 1..Len(answers[s]) : answers[s][i] = AnswerOf("message", r, id)

\* A message is posted before it is queued or shown, stands in one queue, and is
\* shown to the registrar of that queue only.
QueueInv ==
  /\ \A r \in Registrars : \A id : IsQueued(r, id) => id \in 1..posted
  /\ \A r, t \in Registrars : \A id : IsQueued(r, id) /\ IsQueued(t, id) => r = t
  /\ \A r \in Registrars : \A id :
       Shows(r, id) => id \in 1..posted /\ \A t \in Registrars : IsQueued(t, id) => t = r

\* The messages of a connection that are not answered yet.
Pending(s) ==
  Bodies(buffer[s]) \cup Bodies(wire[s]) \cup {inbox[s][i] : i \in 1..Len(inbox[s])}

\* Whatever is going to be acknowledged has been shown.
AckInv == \A s \in Sessions : \A m \in Pending(s) : m.op = "ack" => IsShown(m.id)

LEMMA ShownFacts == \A id : IsShown(id) <=> \E r \in Registrars : Shows(r, id)
BY DEF IsShown, Shows

\* The answer a gives registrar r the message id.
GivesMessage(a, r, id) == a = AnswerOf("message", r, id)

LEMMA OneMoreAnswer ==
  ASSUME TInv, NEW s \in Sessions, NEW a,
         answers' = [answers EXCEPT ![s] = Append(@, a)]
  PROVE  \A r : \A id : /\ Shows(r, id) => Shows(r, id)'
                        /\ Shows(r, id)' => Shows(r, id) \/ GivesMessage(a, r, id)
<1>1. /\ answers[s] \in Seq(Answer) /\ answers'[s] = Append(answers[s], a)
      /\ \A t \in Sessions \ {s} : answers'[t] = answers[t]
  BY DEF TInv
<1>2. /\ Len(answers[s]) \in Nat /\ Len(answers'[s]) = Len(answers[s]) + 1
      /\ answers'[s][Len(answers[s]) + 1] = a
      /\ \A i \in 1..Len(answers[s]) : answers'[s][i] = answers[s][i]
  BY <1>1, AppendFacts
<1> SUFFICES ASSUME NEW r, NEW id
             PROVE  /\ Shows(r, id) => Shows(r, id)'
                    /\ Shows(r, id)' => Shows(r, id) \/ GivesMessage(a, r, id)
  OBVIOUS
<1> DEFINE e == AnswerOf("message", r, id)
<1> HIDE DEF e
<1>3. Shows(r, id) <=> \E t \in Sessions : \E i \in 1..Len(answers[t]) : answers[t][i] = e
  BY DEF Shows, e
<1>4. Shows(r, id)' <=> \E t \in Sessions : \E i \in 1..Len(answers'[t]) : answers'[t][i] = e
  BY DEF Shows, e, AnswerOf
<1>5. ASSUME NEW t \in Sessions, NEW i \in 1..Len(answers[t]), answers[t][i] = e
      PROVE  \E u \in Sessions : \E j \in 1..Len(answers'[u]) : answers'[u][j] = e
  <2>1. i \in 1..Len(answers'[t]) /\ answers'[t][i] = e
    BY <1>1, <1>2, <1>5
  <2>2. QED
    BY <2>1
<1>6. ASSUME NEW t \in Sessions, NEW i \in 1..Len(answers'[t]), answers'[t][i] = e, a # e
      PROVE  \E u \in Sessions : \E j \in 1..Len(answers[u]) : answers[u][j] = e
  <2>1. i \in 1..Len(answers[t]) /\ answers[t][i] = e
    BY <1>1, <1>2, <1>6
  <2>2. QED
    BY <2>1
<1>7. QED
  BY <1>3, <1>4, <1>5, <1>6 DEF e, GivesMessage

\* A routed message is answered once, and only a poll of a queue that is not empty
\* is answered by a message, the head of it.
LEMMA RouteAnswers ==
  ASSUME TInv, NEW s \in Sessions, Route(s)
  PROVE  \E a : /\ answers' = [answers EXCEPT ![s] = Append(@, a)]
                /\ \A r : \A id : GivesMessage(a, r, id) =>
                     /\ queues' = queues
                     /\ r \in Registrars /\ queues[r] # <<>> /\ id = Head(queues[r])
<1> DEFINE Silent(a) == \A r : \A id : ~GivesMessage(a, r, id)
<1>1. ASSUME NEW code, NEW clid, NEW id, ReplyAs(s, code, clid, id), code # "message"
      PROVE  \E a : answers' = [answers EXCEPT ![s] = Append(@, a)] /\ Silent(a)
  <2>1. Silent(AnswerOf(code, clid, id))
    BY <1>1 DEF GivesMessage, AnswerOf
  <2>2. QED
    BY <1>1, <2>1 DEF ReplyAs
<1>2. ASSUME NEW code, Reply(s, code), code # "message"
      PROVE  \E a : answers' = [answers EXCEPT ![s] = Append(@, a)] /\ Silent(a)
  BY <1>1, <1>2 DEF Reply, ReplyAs
<1> DEFINE clid == session[s].clid
           Shown(a) == \A r : \A id : GivesMessage(a, r, id) =>
                         /\ queues' = queues
                         /\ r \in Registrars /\ queues[r] # <<>> /\ id = Head(queues[r])
<1>3. CASE Poll(s) /\ queues[clid] # <<>>
  <2>1. answers' = [answers EXCEPT ![s] = Append(@, AnswerOf("message", clid, Head(queues[clid])))]
    BY <1>3 DEF Poll, ReplyAs
  <2>2. queues' = queues /\ clid \in Registrars
    <3>1. inbox[s] # <<>> /\ IsLoggedIn(s) /\ queues' = queues
      BY <1>3 DEF Poll, IsNext
    <3>2. QED
      BY <3>1, HandlerFacts
  <2>3. Shown(AnswerOf("message", clid, Head(queues[clid])))
    BY <1>3, <2>2 DEF GivesMessage, AnswerOf
  <2>4. QED
    BY <2>1, <2>3
<1>4. CASE ~(Poll(s) /\ queues[clid] # <<>>)
  <2>1. \/ \E code \in {"greeting", "refused", "unauthorized", "unknown", "noMessages",
                        "failed", "ended"} : Reply(s, code)
        \/ \E code \in {"loggedIn", "done", "acked"} : \E c, id : ReplyAs(s, code, c, id)
    BY <1>4 DEF Route, Hello, Login, Refuse, Logout, Command, Unknown, Poll, Ack, AckUnknown, Fail
  <2>2. \E a : answers' = [answers EXCEPT ![s] = Append(@, a)] /\ Silent(a)
    <3> HIDE DEF Silent
    <3>1. QED
      BY <1>1, <1>2, <2>1
  <2>3. QED
    BY <2>2
<1>5. QED
  BY <1>3, <1>4

\* Only an acknowledgement takes something from a queue: what it names, from the
\* queue of the registrar the session stands for.
LEMMA AckFacts ==
  ASSUME TInv, NEW s \in Sessions, Ack(s)
  PROVE  /\ session[s].clid \in Registrars
         /\ inbox[s] # <<>> /\ Head(inbox[s]).op = "ack"
         /\ \A r \in Registrars : \A id :
              /\ IsQueued(r, id)' => IsQueued(r, id)
              /\ IsQueued(r, id) /\ ~IsQueued(r, id)' =>
                   r = session[s].clid /\ id = Head(inbox[s]).id
<1> DEFINE clid == session[s].clid
           m == Head(inbox[s])
           left == RemoveFirst(queues[clid], m.id)
<1>1. /\ inbox[s] # <<>> /\ m.op = "ack" /\ IsLoggedIn(s) /\ IsQueued(clid, m.id)
      /\ queues' = [queues EXCEPT ![clid] = left]
  BY DEF Ack, IsNext
<1>2. clid \in Registrars /\ queues[clid] \in Seq(Ids)
  BY <1>1, HandlerFacts
<1>3. /\ \A i \in 1..Len(left) : \E j \in 1..Len(queues[clid]) : left[i] = queues[clid][j]
      /\ \A j \in 1..Len(queues[clid]) : queues[clid][j] # m.id =>
           \E i \in 1..Len(left) : left[i] = queues[clid][j]
  <2> DEFINE q == queues[clid]
             e == m.id
  <2>1. q \in Seq(Ids) /\ \E i \in 1..Len(q) : q[i] = e
    BY <1>1, <1>2 DEF IsQueued
  <2> HIDE DEF q, e, m, clid
  <2>2. /\ \A i \in 1..Len(RemoveFirst(q, e)) : \E j \in 1..Len(q) : RemoveFirst(q, e)[i] = q[j]
        /\ \A j \in 1..Len(q) : q[j] # e =>
             \E i \in 1..Len(RemoveFirst(q, e)) : RemoveFirst(q, e)[i] = q[j]
    BY <2>1, RemoveFirstFacts, SMTT(20)
  <2>3. QED
    BY <2>2 DEF q, e
<1> HIDE DEF left, m
<1>4. queues'[clid] = left /\ \A r \in Registrars \ {clid} : queues'[r] = queues[r]
  BY <1>1, <1>2 DEF TInv
<1> HIDE DEF clid
<1>5. ASSUME NEW r \in Registrars, NEW id
      PROVE  /\ IsQueued(r, id)' => IsQueued(r, id)
             /\ IsQueued(r, id) /\ ~IsQueued(r, id)' => r = clid /\ id = m.id
  <2>1. CASE r = clid
    BY <1>3, <1>4, <2>1 DEF IsQueued
  <2>2. CASE r # clid
    BY <1>4, <2>2 DEF IsQueued
  <2>3. QED
    BY <2>1, <2>2
<1>6. QED
  BY <1>1, <1>2, <1>5 DEF m, clid

LEMMA RouteQueues ==
  ASSUME NEW s \in Sessions, Route(s)
  PROVE  queues' = queues \/ Ack(s)
BY DEF Route, Hello, Login, Refuse, Logout, Command, Unknown, Poll, AckUnknown, Fail

LEMMA RouteQueueInv ==
  ASSUME TInv, QueueInv, NEW s \in Sessions, Route(s)
  PROVE  QueueInv'
<1>1. PICK a : /\ answers' = [answers EXCEPT ![s] = Append(@, a)]
               /\ \A r : \A id : GivesMessage(a, r, id) =>
                    /\ queues' = queues
                    /\ r \in Registrars /\ queues[r] # <<>> /\ id = Head(queues[r])
  BY RouteAnswers
<1>2. \A r : \A id : Shows(r, id)' => Shows(r, id) \/ GivesMessage(a, r, id)
  <2>1. answers' = [answers EXCEPT ![s] = Append(@, a)]
    BY <1>1
  <2>2. QED
    BY <2>1, OneMoreAnswer
<1>3. posted' = posted
  BY RouteShape
<1>4. \A r \in Registrars : \A id : IsQueued(r, id)' => IsQueued(r, id)
  BY RouteQueues, AckFacts, SMTT(20) DEF IsQueued
<1>5. ASSUME NEW r \in Registrars, NEW id, Shows(r, id)'
      PROVE  id \in 1..posted /\ \A t \in Registrars : IsQueued(t, id)' => t = r
  <2>1. CASE Shows(r, id)
    BY <1>4, <2>1 DEF QueueInv
  <2>2. CASE GivesMessage(a, r, id)
    <3>1. r \in Registrars /\ queues[r] # <<>> /\ id = Head(queues[r]) /\ queues[r] \in Seq(Ids)
      BY <1>1, <2>2 DEF TInv
    <3>2. 1 \in 1..Len(queues[r]) /\ queues[r][1] = id
      BY <3>1
    <3>3. IsQueued(r, id)
      BY <3>2 DEF IsQueued
    <3>4. QED
      BY <1>4, <3>1, <3>3 DEF QueueInv
  <2>3. QED
    BY <1>2, <1>5, <2>1, <2>2
<1>6. QED
  BY <1>3, <1>4, <1>5 DEF QueueInv

\* Whatever is shown stays shown.
LEMMA StaysShown ==
  ASSUME TInv, NEW s \in Sessions, NEW id, IsShown(id),
         \E a : answers' = [answers EXCEPT ![s] = Append(@, a)]
  PROVE  IsShown(id)'
<1>1. PICK r \in Registrars : Shows(r, id)
  BY ShownFacts
<1>2. Shows(r, id)'
  BY <1>1, OneMoreAnswer
<1>3. QED
  BY <1>2 DEF Shows, IsShown

LEMMA RouteAckInv ==
  ASSUME TInv, AckInv, NEW s \in Sessions, Route(s)
  PROVE  AckInv'
<1>1. \E a : answers' = [answers EXCEPT ![s] = Append(@, a)]
  BY RouteAnswers
<1>2. buffer' = buffer /\ wire' = wire
  BY RouteShape DEF streams
<1>3. inbox[s] # <<>> /\ inbox[s] \in Seq(ClientMessages)
  BY RouteShape DEF TInv
<1>4. \A i \in 1..Len(inbox'[s]) : \E j \in 1..Len(inbox[s]) : inbox'[s][i] = inbox[s][j]
  <2>1. inbox'[s] = Tail(inbox[s]) \/ inbox'[s] = <<>>
    BY RouteShape DEF PopInbox, Fail, TInv
  <2>2. \A i \in 1..Len(Tail(inbox[s])) :
          i + 1 \in 1..Len(inbox[s]) /\ Tail(inbox[s])[i] = inbox[s][i + 1]
    BY <1>3
  <2>3. \A i \in 1..Len(<<>>) : FALSE
    OBVIOUS
  <2>4. QED
    BY <2>1, <2>2, <2>3
<1>5. \A t \in Sessions \ {s} : inbox'[t] = inbox[t]
  BY RouteShape DEF PopInbox, Fail, TInv
<1>6. ASSUME NEW t \in Sessions, NEW m \in Pending(t)'
      PROVE  m \in Pending(t)
  BY <1>2, <1>4, <1>5 DEF Pending
<1>7. QED
  BY <1>1, <1>6, StaysShown DEF AckInv

LEMMA DataAnswers ==
  ASSUME NEW s \in Sessions, Data(s)
  PROVE  /\ answers' = answers \/ Reply(s, "malformed")
         /\ queues' = queues /\ posted' = posted
BY DEF Data, Receive, ReceiveMalformed

LEMMA DataQueueInv ==
  ASSUME TInv, QueueInv, NEW s \in Sessions, Data(s)
  PROVE  QueueInv'
<1>1. \A r : \A id : Shows(r, id)' <=> Shows(r, id)
  <2>1. CASE answers' = answers
    BY <2>1 DEF Shows
  <2>2. CASE Reply(s, "malformed")
    <3>1. answers' = [answers EXCEPT ![s] = Append(@, AnswerOf("malformed", None, None))]
      BY <2>2 DEF Reply
    <3>2. \A r : \A id : ~GivesMessage(AnswerOf("malformed", None, None), r, id)
      BY DEF GivesMessage, AnswerOf
    <3>3. QED
      BY <3>1, <3>2, OneMoreAnswer
  <2>3. QED
    BY <2>1, <2>2, DataAnswers
<1>2. QED
  BY <1>1, DataAnswers DEF QueueInv, IsQueued

\* A chunk moves messages from the wire to the buffer and the inbox; a malformed
\* length loses those in front of it.
LEMMA DataPending ==
  ASSUME TInv, NEW s \in Sessions, Data(s)
  PROVE  \A t \in Sessions : Pending(t)' \subseteq Pending(t)
<1>1. PICK k \in 1..Len(wire[s]) : Receive(s, k) \/ ReceiveMalformed(s, k)
  BY DEF Data
<1> DEFINE got == Received(s, k)
           left == SubSeq(wire[s], k + 1, Len(wire[s]))
<1>2. /\ wire' = [wire EXCEPT ![s] = left]
      /\ buffer' = [buffer EXCEPT ![s] = Rest(got)]
      /\ inbox' = [inbox EXCEPT ![s] = Messages(got)] \/ inbox' = inbox
  BY <1>1 DEF Receive, ReceiveMalformed, TakeChunk
<1>3. /\ got \in Stream(ClientMessages) /\ left \in Stream(ClientMessages)
      /\ buffer[s] \in Stream(ClientMessages) /\ wire[s] \in Stream(ClientMessages)
      /\ got \o left = InTransit(s)
  BY ReceivedTyped
<1> HIDE DEF got, left
<1>4. Bodies(got) \cup Bodies(left) = Bodies(buffer[s]) \cup Bodies(wire[s])
  <2>1. Bodies(got \o left) = Bodies(got) \cup Bodies(left)
    BY <1>3, BodiesFacts, ZenonT(30)
  <2>2. Bodies(buffer[s] \o wire[s]) = Bodies(buffer[s]) \cup Bodies(wire[s])
    BY <1>3, BodiesFacts
  <2>3. QED
    BY <1>3, <2>1, <2>2 DEF InTransit
<1>5. /\ Bodies(Rest(got)) \subseteq Bodies(got)
      /\ \A n \in 1..Len(Messages(got)) : Messages(got)[n] \in Bodies(got)
  BY <1>3, DecodedBodies
<1>6. /\ wire'[s] = left /\ buffer'[s] = Rest(got)
      /\ inbox'[s] = Messages(got) \/ inbox'[s] = inbox[s]
      /\ \A t \in Sessions \ {s} : wire'[t] = wire[t] /\ buffer'[t] = buffer[t] /\ inbox'[t] = inbox[t]
  BY <1>2 DEF TInv
<1>7. ASSUME NEW m \in Pending(s)'
      PROVE  m \in Pending(s)
  BY <1>4, <1>5, <1>6 DEF Pending
<1>8. ASSUME NEW t \in Sessions \ {s}
      PROVE  Pending(t)' = Pending(t)
  BY <1>6 DEF Pending
<1>9. QED
  BY <1>7, <1>8

LEMMA DataAckInv ==
  ASSUME TInv, AckInv, NEW s \in Sessions, Data(s)
  PROVE  AckInv'
<1>1. \A id : IsShown(id) => IsShown(id)'
  <2>1. CASE answers' = answers
    BY <2>1 DEF IsShown
  <2>2. CASE Reply(s, "malformed")
    BY <2>2, StaysShown DEF Reply
  <2>3. QED
    BY <2>1, <2>2, DataAnswers
<1>2. QED
  BY <1>1, DataPending DEF AckInv

LEMMA SendAckInv ==
  ASSUME TInv, AckInv, NEW s \in Sessions, NEW frame \in Frames, Send(s, frame)
  PROVE  AckInv'
<1> DEFINE units == Encode(frame.body, frame.size)
<1>1. frame.body \in ClientMessages /\ frame.size \in Nat
  BY FrameAssumption DEF ClientMessages
<1>2. units \in Stream(ClientMessages) /\ \A m \in Bodies(units) : m = frame.body
  BY <1>1, EncodeFacts
<1> HIDE DEF units
<1>3. /\ wire' = [wire EXCEPT ![s] = @ \o units]
      /\ buffer' = buffer /\ inbox' = inbox /\ answers' = answers
      /\ frame.body.op = "ack" => IsShown(frame.body.id)
  BY DEF Send, units
<1>4. wire'[s] = wire[s] \o units /\ \A t \in Sessions \ {s} : wire'[t] = wire[t]
  BY <1>3 DEF TInv
<1>5. Bodies(wire'[s]) = Bodies(wire[s]) \cup Bodies(units)
  BY <1>2, <1>4, BodiesFacts DEF TInv
<1>6. \A id : IsShown(id)' <=> IsShown(id)
  BY <1>3 DEF IsShown
<1>7. ASSUME NEW t \in Sessions, NEW m \in Pending(t)'
      PROVE  m \in Pending(t) \/ m = frame.body
  BY <1>2, <1>3, <1>4, <1>5 DEF Pending
<1>8. QED
  BY <1>3, <1>6, <1>7 DEF AckInv

LEMMA PostQueueInv ==
  ASSUME TInv, QueueInv, NEW r \in Registrars, Post(r)
  PROVE  QueueInv'
<1>1. /\ posted' = posted + 1 /\ posted \in Nat
      /\ queues' = [queues EXCEPT ![r] = Append(@, posted + 1)]
      /\ answers' = answers
  BY DEF Post, TInv
<1>2. queues[r] \in Seq(Ids) /\ queues'[r] = Append(queues[r], posted + 1)
  BY <1>1 DEF TInv
<1>3. /\ Len(queues'[r]) = Len(queues[r]) + 1 /\ queues'[r][Len(queues[r]) + 1] = posted + 1
      /\ Len(queues[r]) \in Nat
      /\ \A i \in 1..Len(queues[r]) : queues'[r][i] = queues[r][i]
  BY <1>2, AppendFacts
<1>4. \A t \in Registrars \ {r} : queues'[t] = queues[t]
  BY <1>1 DEF TInv
<1>5. ASSUME NEW t \in Registrars, NEW id
      PROVE  IsQueued(t, id)' => IsQueued(t, id) \/ (t = r /\ id = posted + 1)
  BY <1>3, <1>4 DEF IsQueued
<1>6. \A t : \A id : Shows(t, id)' <=> Shows(t, id)
  BY <1>1 DEF Shows
<1>7. posted + 1 \notin 1..posted /\ 1..posted \subseteq 1..posted' /\ posted + 1 \in 1..posted'
  BY <1>1
<1>8. QED
  BY <1>5, <1>6, <1>7 DEF QueueInv

LEMMA InitPoll == Init => QueueInv /\ AckInv
<1> SUFFICES ASSUME Init PROVE QueueInv /\ AckInv
  OBVIOUS
<1>1. \A r \in Registrars : queues[r] = <<>>
  BY DEF Init
<1>2. \A s \in Sessions : /\ buffer[s] = <<>> /\ wire[s] = <<>> /\ inbox[s] = <<>>
                          /\ answers[s] = <<AnswerOf("greeting", None, None)>>
  BY DEF Init
<1>3. \A i \in 1..Len(<<>>) : FALSE
  OBVIOUS
<1>4. ASSUME NEW r, NEW id, Shows(r, id)
      PROVE  FALSE
  <2>1. PICK s \in Sessions : \E i \in 1..Len(answers[s]) : answers[s][i] = AnswerOf("message", r, id)
    BY <1>4 DEF Shows
  <2>2. PICK i \in 1..Len(answers[s]) : answers[s][i] = AnswerOf("message", r, id)
    BY <2>1
  <2>3. answers[s][i] = AnswerOf("greeting", None, None)
    <3> DEFINE a == AnswerOf("greeting", None, None)
    <3> HIDE DEF a
    <3>1. answers[s] = <<a>>
      BY <1>2 DEF a
    <3>2. QED
      BY <2>2, <3>1 DEF a
  <2>4. QED
    BY <2>2, <2>3 DEF AnswerOf
<1>5. QueueInv
  BY <1>1, <1>3, <1>4 DEF QueueInv, IsQueued
<1>6. AckInv
  BY <1>2, <1>3 DEF AckInv, Pending, Bodies
<1>7. QED
  BY <1>5, <1>6

LEMMA NextPoll == TInv /\ QueueInv /\ AckInv /\ [Next]_vars => QueueInv' /\ AckInv'
<1> SUFFICES ASSUME TInv, QueueInv, AckInv, [Next]_vars PROVE QueueInv' /\ AckInv'
  OBVIOUS
<1>1. CASE UNCHANGED vars
  <2>1. QueueInv'
    BY <1>1 DEF vars, QueueInv, Shows, IsQueued
  <2>2. AckInv'
    BY <1>1 DEF vars, AckInv, Pending, IsShown
  <2>3. QED
    BY <2>1, <2>2
<1>2. ASSUME NEW s \in Sessions, Data(s) \/ Route(s)
      PROVE  QueueInv' /\ AckInv'
  BY <1>2, DataQueueInv, DataAckInv, RouteQueueInv, RouteAckInv
<1>3. ASSUME NEW s \in Sessions, NEW frame \in Frames, Send(s, frame)
      PROVE  QueueInv' /\ AckInv'
  <2>1. queues' = queues /\ answers' = answers /\ posted' = posted
    BY <1>3 DEF Send
  <2>2. QueueInv'
    BY <2>1 DEF QueueInv, Shows, IsQueued
  <2>3. QED
    BY <1>3, <2>2, SendAckInv
<1>4. ASSUME NEW r \in Registrars, Post(r)
      PROVE  QueueInv' /\ AckInv'
  <2>1. buffer' = buffer /\ wire' = wire /\ inbox' = inbox /\ answers' = answers
    BY <1>4 DEF Post, streams
  <2>2. AckInv'
    BY <2>1 DEF AckInv, Pending, IsShown
  <2>3. QED
    BY <1>4, <2>2, PostQueueInv
<1>5. QED
  BY <1>1, <1>2, <1>3, <1>4 DEF Next

\* Nothing but an acknowledgement of a message that was shown to the same registrar
\* takes it from a queue.
LEMMA NextRemoves ==
  TInv /\ QueueInv /\ AckInv /\ [Next]_vars => RemovalStep
<1> SUFFICES ASSUME TInv, QueueInv, AckInv, [Next]_vars,
                    NEW r \in Registrars, NEW id, IsQueued(r, id), ~IsQueued(r, id)'
             PROVE  Shows(r, id)
  BY DEF RemovalStep, Shows
<1>1. PICK s \in Sessions : Ack(s)
  <2>1. queues' # queues
    BY DEF IsQueued
  <2>2. ~UNCHANGED vars
    BY <2>1 DEF vars
  <2>3. ASSUME NEW t \in Registrars, Post(t)
        PROVE  FALSE
    <3>1. /\ queues' = [queues EXCEPT ![t] = Append(@, posted + 1)] /\ queues[t] \in Seq(Ids)
      BY <2>3 DEF Post, TInv
    <3>2. /\ Len(queues'[t]) = Len(queues[t]) + 1 /\ Len(queues[t]) \in Nat
          /\ \A i \in 1..Len(queues[t]) : queues'[t][i] = queues[t][i]
          /\ \A u \in Registrars \ {t} : queues'[u] = queues[u]
      BY <3>1, AppendFacts DEF TInv
    <3>3. QED
      BY <3>2 DEF IsQueued
  <2>4. ASSUME NEW s \in Sessions, NEW frame \in Frames, Send(s, frame)
        PROVE  FALSE
    BY <2>1, <2>4 DEF Send
  <2>5. QED
    BY <2>1, <2>2, <2>3, <2>4, DataAnswers, RouteQueues DEF Next
<1> DEFINE m == Head(inbox[s])
<1>2. r = session[s].clid /\ id = m.id /\ m.op = "ack" /\ inbox[s] # <<>>
  BY <1>1, AckFacts
<1>3. m \in Pending(s)
  <2>1. inbox[s] \in Seq(ClientMessages)
    BY DEF TInv
  <2>2. 1 \in 1..Len(inbox[s]) /\ inbox[s][1] = m
    BY <1>2, <2>1
  <2>3. QED
    BY <2>2 DEF Pending
<1> HIDE DEF m
<1>4. PICK t \in Registrars : Shows(t, id)
  BY <1>2, <1>3, ShownFacts DEF AckInv
<1>5. t = r
  BY <1>4 DEF QueueInv
<1>6. QED
  BY <1>4, <1>5

\* However many sessions of a registrar poll and acknowledge at the same time, and
\* however often they acknowledge the same message, the poll queue of a registrar
\* loses no message that was not shown to that registrar.
THEOREM NeverLosesUnread == Spec => NoMessageLostUnread
<1>1. TInv /\ QueueInv /\ AckInv /\ [Next]_vars => [RemovalStep]_vars
  BY NextRemoves
<1>2. QED
  BY <1>1, TypeInductive, InitPoll, NextPoll, PTL DEF Spec, NoMessageLostUnread
-------------------------------------------------------------------------------
(* The dashboard's client, in front of the server of this module.  Its module *)
(* takes framing and sequences in by EXTENDS, so they have names of their own. *)

CONSTANTS dashboard, user, Requests, AnswerSize

VARIABLES request, autoLogin, accepted, read, backlog, frames, outcome

Client == INSTANCE EppClient

LEMMA SameFraming ==
  /\ \A b : Client!Rest(b) = Rest(b) /\ Client!Messages(b) = Messages(b)
  /\ \A body, size : Client!Encode(body, size) = Encode(body, size)
<1>1. \A b, p : Client!IsWhole(b, p) = IsWhole(b, p)
  BY DEF Client!IsWhole, IsWhole
<1>2. \A b : Client!Position(b) = Position(b)
  BY <1>1 DEF Client!Position, Position, Client!IsWhole, IsWhole
<1>3. \A b : Client!Rest(b) = Rest(b)
  BY <1>2 DEF Client!Rest, Rest, Client!Consumed, Consumed
<1>4. \A b : Client!Messages(b) = Messages(b)
  BY <1>2 DEF Client!Messages, Messages, Client!Turns, Turns
<1>5. \A body, size : Client!Encode(body, size) = Encode(body, size)
  BY DEF Client!Encode, Encode
<1>6. QED
  BY <1>3, <1>4, <1>5

\* The answers on their way back are whole frames behind each other.
Back(n) == FlattenSeq([i \in 1..n |-> Encode(i, AnswerSize)])

LEMMA SameDownlink == Client!Downlink = Back(Len(answers[dashboard]))
<1> DEFINE n == Len(answers[dashboard])
           back == [i \in 1..n |-> Client!Encode(i, AnswerSize)]
           forth == [i \in 1..n |-> Encode(i, AnswerSize)]
<1>1. \A i : Client!Encode(i, AnswerSize) = Encode(i, AnswerSize)
  BY SameFraming
<1>2. back = forth
  BY <1>1
<1>3. \A q : Client!FlattenSeq(q) = FlattenSeq(q)
  BY DEF Client!FlattenSeq, FlattenSeq
<1>4. Client!Downlink = Client!FlattenSeq(back) /\ Back(n) = FlattenSeq(forth)
  BY DEF Client!Downlink, Back
<1> HIDE DEF back, forth
<1>5. QED
  BY <1>2, <1>3, <1>4


Numbers(n) == [i \in 1..n |-> i]

LEMMA BackFacts ==
  ASSUME AnswerSize \in Nat \ {0}, NEW n \in Nat
  PROVE  /\ Back(n) \in Stream(Nat) /\ Len(Back(n)) \in Nat
         /\ Messages(Back(n)) = Numbers(n) /\ Rest(Back(n)) = <<>>
<1> DEFINE q == [i \in 1..n |-> Encode(i, AnswerSize)]
           m == Numbers(n)
<1>1. ASSUME NEW i \in 1..n
      PROVE  /\ Encode(i, AnswerSize) \in Stream(Nat)
             /\ Rest(Encode(i, AnswerSize)) = <<>>
             /\ Messages(Encode(i, AnswerSize)) = <<i>>
  <2>1. i \in Nat /\ AnswerSize \in Nat /\ AnswerSize # 0
    OBVIOUS
  <2>2. QED
    BY <2>1, EncodeFacts
<1>2. q \in Seq(Stream(Nat)) /\ Len(q) = n
  BY <1>1, FunctionIsSequence
<1>3. m \in Seq(Nat) /\ Len(m) = n
  BY FunctionIsSequence DEF Numbers
<1>4. \A i \in 1..Len(q) : Rest(q[i]) = <<>> /\ Messages(q[i]) = <<m[i]>>
  BY <1>1, <1>2 DEF Numbers
<1>5. Back(n) = FlattenSeq(q)
  BY DEF Back
<1> HIDE DEF q, m
<1>6. Back(n) \in Stream(Nat) /\ Messages(Back(n)) = m /\ Rest(Back(n)) = <<>>
  BY <1>2, <1>3, <1>4, <1>5, FramesDecoded
<1>7. QED
  BY <1>6, StreamFacts DEF m

LEMMA EncodedLength ==
  ASSUME AnswerSize \in Nat \ {0}, NEW n
  PROVE  Len(Encode(n, AnswerSize)) = AnswerSize
BY DEF Encode

\* One answer more is one frame more on the way back.
LEMMA BackGrows ==
  ASSUME AnswerSize \in Nat \ {0}, NEW n \in Nat
  PROVE  /\ Back(n + 1) = Back(n) \o Encode(n + 1, AnswerSize)
         /\ Encode(n + 1, AnswerSize) \in Stream(Nat)
         /\ Len(Back(n + 1)) = Len(Back(n)) + AnswerSize
<1> DEFINE U == [body : Nat, size : Nat]
           e == Encode(n + 1, AnswerSize)
           q == [i \in 1..n |-> Encode(i, AnswerSize)]
           r == [i \in 1..(n + 1) |-> Encode(i, AnswerSize)]
<1>1. ASSUME NEW i \in 1..(n + 1)
      PROVE  Encode(i, AnswerSize) \in Seq(U)
  <2>1. i \in Nat /\ AnswerSize \in Nat
    OBVIOUS
  <2>2. Encode(i, AnswerSize) \in Stream(Nat)
    BY <2>1, EncodeFacts
  <2>3. QED
    BY <2>2 DEF Stream
<1>2. e \in Seq(U) /\ n + 1 \in Nat
  BY <1>1
<1>3. q \in Seq(Seq(U)) /\ Len(q) = n
  BY <1>1, FunctionIsSequence
<1>4. r \in Seq(Seq(U)) /\ Len(r) = n + 1
  BY <1>1, <1>2, FunctionIsSequence
<1>5. <<e>> \in Seq(Seq(U))
  BY <1>2
<1>6. /\ q \o <<e>> \in Seq(Seq(U)) /\ Len(q \o <<e>>) = n + 1 /\ (q \o <<e>>)[n + 1] = e
      /\ \A i \in 1..n : (q \o <<e>>)[i] = q[i]
  <2>1. q \o <<e>> \in Seq(Seq(U))
    BY <1>3, <1>5, ConcatFacts
  <2>2. /\ Len(q \o <<e>>) = Len(q) + 1 /\ (q \o <<e>>)[Len(q) + 1] = e
        /\ \A i \in 1..Len(q) : (q \o <<e>>)[i] = q[i]
    BY <1>2, <1>3, OneMore
  <2>3. QED
    BY <1>3, <2>1, <2>2
<1>7. r = q \o <<e>>
  <2>1. ASSUME NEW i \in 1..Len(r)
        PROVE  r[i] = (q \o <<e>>)[i]
    <3>1. i \in 1..n \/ i = n + 1
      BY <1>4
    <3>2. ASSUME i \in 1..n
          PROVE  r[i] = q[i]
      BY <3>2
    <3>3. r[n + 1] = e
      OBVIOUS
    <3>4. QED
      BY <1>6, <3>1, <3>2, <3>3
  <2> DEFINE z == q \o <<e>>
             V == Seq(U)
  <2>2. r \in Seq(V) /\ z \in Seq(V) /\ Len(r) = Len(z) /\ \A i \in 1..Len(r) : r[i] = z[i]
    BY <1>4, <1>6, <2>1
  <2> HIDE DEF r, z, V
  <2>3. r = z
    BY <2>2, SameSequence
  <2>4. QED
    BY <2>3 DEF z
<1>8. Back(n) = FlattenSeq(q) /\ Back(n + 1) = FlattenSeq(r)
  BY DEF Back
<1>9. FlattenSeq(<<e>>) = e
  BY <1>2, FlattenOne
<1> HIDE DEF q, r
<1>10. FlattenSeq(q \o <<e>>) = FlattenSeq(q) \o FlattenSeq(<<e>>)
  BY <1>3, <1>5, FlattenConcat
<1>11. Back(n + 1) = Back(n) \o e
  BY <1>7, <1>8, <1>9, <1>10
<1>12. e \in Stream(Nat)
  BY <1>2 DEF Stream
<1>13. Len(Back(n) \o e) = Len(Back(n)) + Len(e)
  BY <1>12, BackFacts, ConcatFacts DEF Stream
<1>14. QED
  BY <1>11, <1>12, <1>13, EncodedLength

-------------------------------------------------------------------------------
(* What the client has read of it.                                         *)

\* The first units of a stream stay the first ones when the stream grows.
LEMMA CutOfConcat ==
  ASSUME NEW B, NEW x \in Stream(B), NEW y \in Stream(B), NEW r \in 0..Len(x)
  PROVE  SubSeq(x \o y, 1, r) = SubSeq(x, 1, r)
<1> DEFINE U == [body : B, size : Nat]
<1>1. x \in Seq(U) /\ y \in Seq(U)
  BY DEF Stream
<1> HIDE DEF U
<1>2. QED
  BY <1>1

\* A part of a stream, and the part behind it.
LEMMA TwoCuts ==
  ASSUME NEW B, NEW x \in Stream(B), NEW r \in 0..Len(x), NEW n \in r..Len(x)
  PROVE  /\ SubSeq(x, 1, r) \in Stream(B) /\ SubSeq(x, r + 1, n) \in Stream(B)
         /\ SubSeq(x, 1, n) = SubSeq(x, 1, r) \o SubSeq(x, r + 1, n)
         /\ SubSeq(x, 1, Len(x)) = x /\ SubSeq(x, 1, 0) = <<>>
<1> DEFINE U == [body : B, size : Nat]
<1>1. x \in Seq(U) /\ Len(x) \in Nat
  BY StreamFacts
<1> HIDE DEF U
<1>2. SubSeq(x, 1, r) \in Seq(U) /\ SubSeq(x, r + 1, n) \in Seq(U)
  BY <1>1
<1>3. 1 \in 1..(Len(x) + 1) /\ r \in (1 - 1)..Len(x) /\ n \in r..Len(x)
  BY <1>1
<1>4. SubSeq(x, 1, r) \o SubSeq(x, r + 1, n) = SubSeq(x, 1, n)
  BY <1>1, <1>3, ConcatAdjacentSubSeq
<1>5. SubSeq(x, 1, Len(x)) = x /\ SubSeq(x, 1, 0) = <<>>
  BY <1>1
<1>6. QED
  BY <1>2, <1>4, <1>5 DEF U, Stream

Got(n, r) == SubSeq(Back(n), 1, r)

LEMMA GotFacts ==
  ASSUME AnswerSize \in Nat \ {0}, NEW n \in Nat, NEW r \in 0..Len(Back(n))
  PROVE  /\ Got(n, r) \in Stream(Nat)
         /\ Len(Messages(Got(n, r))) \in 0..n
         /\ \A i \in 1..Len(Messages(Got(n, r))) : Messages(Got(n, r))[i] = i
         /\ Got(n + 1, r) = Got(n, r)
         /\ r \in 0..Len(Back(n + 1))
<1> DEFINE x == Back(n)
           got == SubSeq(x, 1, r)
           behind == SubSeq(x, r + 1, Len(x))
           p == Messages(got)
           p2 == Messages(Rest(got) \o behind)
<1>1. x \in Stream(Nat) /\ Len(x) \in Nat /\ Messages(x) = Numbers(n)
  BY BackFacts
<1> HIDE DEF x
<1>2. got \in Stream(Nat) /\ behind \in Stream(Nat) /\ got \o behind = x
  <2>1. r \in 0..Len(x) /\ Len(x) \in r..Len(x)
    BY <1>1 DEF x
  <2>2. /\ SubSeq(x, 1, r) \in Stream(Nat) /\ SubSeq(x, r + 1, Len(x)) \in Stream(Nat)
        /\ SubSeq(x, 1, Len(x)) = SubSeq(x, 1, r) \o SubSeq(x, r + 1, Len(x))
        /\ SubSeq(x, 1, Len(x)) = x
    <3>1. \A m \in r..Len(x) :
            /\ SubSeq(x, 1, r) \in Stream(Nat) /\ SubSeq(x, r + 1, m) \in Stream(Nat)
            /\ SubSeq(x, 1, m) = SubSeq(x, 1, r) \o SubSeq(x, r + 1, m)
            /\ SubSeq(x, 1, Len(x)) = x
      BY <1>1, <2>1, TwoCuts
    <3>2. QED
      BY <2>1, <3>1
  <2>3. QED
    BY <2>2
<1> HIDE DEF got, behind
<1>3. Messages(x) = p \o p2
  BY <1>2, Decoding
<1>4. p \in Seq(Nat) /\ p2 \in Seq(Nat)
  <2>1. Rest(got) \o behind \in Stream(Nat)
    BY <1>2, RestFacts, StreamConcat
  <2>2. QED
    BY <1>2, <2>1, DecodedBodies
<1> HIDE DEF p, p2
<1>5. Numbers(n) \in Seq(Nat) /\ Len(Numbers(n)) = n /\ \A i \in 1..n : Numbers(n)[i] = i
  BY FunctionIsSequence DEF Numbers
<1>6. Len(p) \in Nat /\ Len(p2) \in Nat /\ n = Len(p) + Len(p2)
  BY <1>1, <1>3, <1>4, <1>5, ConcatFacts
<1>7. \A i \in 1..Len(p) : Numbers(n)[i] = p[i]
  BY <1>1, <1>3, <1>4, ConcatFacts
<1>8. Len(p) \in 0..n /\ \A i \in 1..Len(p) : p[i] = i
  <2>1. Len(p) \in 0..n /\ \A i \in 1..Len(p) : i \in 1..n
    BY <1>6
  <2>2. QED
    BY <1>5, <1>7, <2>1
<1>9. Got(n + 1, r) = Got(n, r) /\ r \in 0..Len(Back(n + 1))
  <2>1. Back(n + 1) = x \o Encode(n + 1, AnswerSize) /\ Encode(n + 1, AnswerSize) \in Stream(Nat)
    BY BackGrows DEF x
  <2>2. r \in 0..Len(x)
    BY DEF x
  <2>3. SubSeq(Back(n + 1), 1, r) = SubSeq(x, 1, r)
    BY <1>1, <2>1, <2>2, CutOfConcat
  <2>4. Len(Back(n + 1)) = Len(x) + AnswerSize
    BY BackGrows DEF x
  <2>5. QED
    BY <1>1, <2>2, <2>3, <2>4 DEF Got, x
<1>10. QED
  BY <1>2, <1>8, <1>9 DEF Got, got, p, x

\* A chunk more is read.
LEMMA GotMore ==
  ASSUME AnswerSize \in Nat \ {0}, NEW n \in Nat, NEW r \in 0..Len(Back(n)),
         NEW k \in 1..(Len(Back(n)) - r)
  PROVE  LET received == Rest(Got(n, r)) \o SubSeq(Back(n), r + 1, r + k) IN
         /\ r + k \in 0..Len(Back(n))
         /\ received \in Stream(Nat)
         /\ Messages(Got(n, r + k)) = Messages(Got(n, r)) \o Messages(received)
         /\ Rest(Got(n, r + k)) = Rest(received)
<1> DEFINE x == Back(n)
           got == SubSeq(x, 1, r)
           chunk == SubSeq(x, r + 1, r + k)
<1>1. x \in Stream(Nat) /\ Len(x) \in Nat
  BY BackFacts
<1>2. r \in 0..Len(x) /\ r + k \in r..Len(x) /\ r + k \in 0..Len(x)
  BY <1>1
<1> HIDE DEF x
<1>3. got \in Stream(Nat) /\ chunk \in Stream(Nat) /\ SubSeq(x, 1, r + k) = got \o chunk
  BY <1>1, <1>2, TwoCuts
<1> HIDE DEF got, chunk
<1>4. /\ Messages(got \o chunk) = Messages(got) \o Messages(Rest(got) \o chunk)
      /\ Rest(got \o chunk) = Rest(Rest(got) \o chunk)
  BY <1>3, Decoding
<1>5. Rest(got) \o chunk \in Stream(Nat)
  BY <1>3, RestFacts, StreamConcat
<1>6. Got(n, r) = got /\ Got(n, r + k) = got \o chunk
  BY <1>3 DEF Got, got, x
<1>7. QED
  BY <1>2, <1>4, <1>5, <1>6 DEF x, chunk
-------------------------------------------------------------------------------
(* The result is the transcript.                                           *)

FrameTypes == {"greeting", "login", "command"}

\* How many answers the server has written, and the frames of what is read of them.
Written == Len(answers[dashboard])

FramesRead == Messages(Got(Written, read))

\* The client's buffer is what is read of the answers without their whole frames,
\* which are the result's, each typed by its place.
TranscriptInv ==
  /\ DOMAIN answers = {dashboard} /\ IsSequence(answers[dashboard])
  /\ read \in 0..Len(Back(Written))
  /\ backlog = Rest(Got(Written, read))
  /\ frames \in Seq([type : FrameTypes, answer : Nat])
  /\ Len(frames) = Len(FramesRead)
  /\ \A i \in 1..Len(frames) : frames[i].answer = i /\ frames[i].type = Client!FrameType(i - 1)
  /\ outcome = "resolved" => Len(frames) >= Client!ExpectedFrames

\* The server answers once or not at all, and sends nothing itself.
LEMMA ServerShape ==
  ASSUME Client!ServerStep
  PROVE  /\ answers' = answers \/ \E a : answers' = [answers EXCEPT ![dashboard] = Append(@, a)]
         /\ wire' = wire
              \/ \E k \in 1..Len(wire[dashboard]) :
                   wire' = [wire EXCEPT ![dashboard] = SubSeq(@, k + 1, Len(@))]
         /\ UNCHANGED <<sent, Client!client>>
<1> DEFINE One == \E a : answers' = [answers EXCEPT ![dashboard] = Append(@, a)]
           Cut == \E k \in 1..Len(wire[dashboard]) :
                    wire' = [wire EXCEPT ![dashboard] = SubSeq(@, k + 1, Len(@))]
<1>1. ASSUME NEW code, Client!Server!Reply(dashboard, code)
      PROVE  One
  BY <1>1 DEF Client!Server!Reply
<1>2. ASSUME NEW code, NEW clid, NEW id, Client!Server!ReplyAs(dashboard, code, clid, id)
      PROVE  One
  BY <1>2 DEF Client!Server!ReplyAs
<1>3. CASE Client!Server!Data(dashboard)
  <2>1. PICK k \in 1..Len(wire[dashboard]) :
          Client!Server!Receive(dashboard, k) \/ Client!Server!ReceiveMalformed(dashboard, k)
    BY <1>3 DEF Client!Server!Data
  <2>2. wire' = [wire EXCEPT ![dashboard] = SubSeq(@, k + 1, Len(@))] /\ UNCHANGED sent
    BY <2>1 DEF Client!Server!Receive, Client!Server!ReceiveMalformed, Client!Server!TakeChunk
  <2>3. answers' = answers \/ One
    BY <1>1, <2>1 DEF Client!Server!Receive, Client!Server!ReceiveMalformed
  <2>4. Cut
    BY <2>2
  <2>5. QED
    BY <2>2, <2>3, <2>4 DEF Client!ServerStep
<1>4. CASE Client!Server!Route(dashboard)
  <2>1. UNCHANGED <<wire, sent>>
    BY <1>4 DEF Client!Server!Route, Client!Server!Hello, Client!Server!Login,
       Client!Server!Refuse, Client!Server!Logout, Client!Server!Command, Client!Server!Unknown,
       Client!Server!Poll, Client!Server!Ack, Client!Server!AckUnknown, Client!Server!Fail,
       Client!Server!streams
  <2>2. One
    <3>1. CASE \/ Client!Server!Hello(dashboard) \/ Client!Server!Refuse(dashboard)
               \/ Client!Server!Logout(dashboard) \/ Client!Server!Unknown(dashboard)
               \/ Client!Server!AckUnknown(dashboard) \/ Client!Server!Fail(dashboard)
      BY <1>1, <3>1 DEF Client!Server!Hello, Client!Server!Refuse, Client!Server!Logout,
         Client!Server!Unknown, Client!Server!AckUnknown, Client!Server!Fail
    <3>2. CASE Client!Server!Login(dashboard) \/ Client!Server!Command(dashboard)
      BY <1>1, <1>2, <3>2 DEF Client!Server!Login, Client!Server!Command
    <3>3. CASE Client!Server!Poll(dashboard) \/ Client!Server!Ack(dashboard)
      BY <1>1, <1>2, <3>3 DEF Client!Server!Poll, Client!Server!Ack
    <3>4. QED
      BY <1>4, <3>1, <3>2, <3>3 DEF Client!Server!Route
  <2>3. QED
    BY <2>1, <2>2 DEF Client!ServerStep
<1>5. QED
  BY <1>3, <1>4 DEF Client!ServerStep

\* What the server writes meanwhile is behind what is read.
LEMMA ServerTranscript ==
  ASSUME AnswerSize \in Nat \ {0}, TranscriptInv, Client!ServerStep
  PROVE  TranscriptInv'
<1>1. UNCHANGED <<request, autoLogin, read, backlog, frames, outcome>>
  BY ServerShape DEF Client!client
<1>2. CASE answers' = answers
  BY <1>1, <1>2 DEF TranscriptInv, Written, FramesRead, Got, Back, Client!ExpectedFrames,
     Client!IsHello, Client!FrameType
<1>3. ASSUME NEW a, answers' = [answers EXCEPT ![dashboard] = Append(@, a)]
      PROVE  TranscriptInv'
  <2>1. /\ DOMAIN answers' = {dashboard} /\ answers'[dashboard] = Append(answers[dashboard], a)
        /\ IsSequence(answers[dashboard])
    BY <1>3 DEF TranscriptInv
  <2>2. IsSequence(answers'[dashboard]) /\ Written \in Nat /\ Written' = Written + 1
    BY <2>1, AppendFacts DEF Written
  <2>3. read \in 0..Len(Back(Written))
    BY DEF TranscriptInv
  <2>4. Got(Written + 1, read) = Got(Written, read) /\ read \in 0..Len(Back(Written + 1))
    BY <2>2, <2>3, GotFacts
  <2>5. FramesRead' = FramesRead
    <3>1. FramesRead' = Messages(Got(Written', read'))
      BY DEF FramesRead, Got, Back
    <3>2. QED
      BY <1>1, <2>2, <2>4, <3>1 DEF FramesRead
  <2>6. Back(Written)' = Back(Written') /\ Got(Written, read)' = Got(Written', read')
    BY DEF Back, Got
  <2>7. read' \in 0..Len(Back(Written)') /\ backlog' = Rest(Got(Written, read)')
    BY <1>1, <2>2, <2>4, <2>6 DEF TranscriptInv
  <2>8. /\ Client!ExpectedFrames' = Client!ExpectedFrames
        /\ \A i : Client!FrameType(i)' = Client!FrameType(i)
    BY <1>1 DEF Client!ExpectedFrames, Client!IsHello, Client!FrameType
  <2>9. QED
    BY <1>1, <2>1, <2>2, <2>5, <2>7, <2>8 DEF TranscriptInv
<1>4. QED
  BY <1>2, <1>3, ServerShape

\* The frames a chunk completes, numbered on from those of the result.
LEMMA TypedFacts ==
  ASSUME NEW numbers \in Seq(Nat)
  PROVE  /\ Client!Typed(numbers) \in Seq([type : FrameTypes, answer : Nat])
         /\ Len(Client!Typed(numbers)) = Len(numbers)
         /\ \A i \in 1..Len(numbers) :
              /\ Client!Typed(numbers)[i].answer = numbers[i]
              /\ Client!Typed(numbers)[i].type = Client!FrameType(Len(frames) + i - 1)
<1>1. Len(numbers) \in Nat /\ \A i \in 1..Len(numbers) : numbers[i] \in Nat
  BY ElementsOf
<1>2. \A i : Client!FrameType(i) \in FrameTypes
  BY DEF Client!FrameType, FrameTypes
<1>3. Client!Typed(numbers) \in [1..Len(numbers) -> [type : FrameTypes, answer : Nat]]
  BY <1>1, <1>2 DEF Client!Typed
<1>4. \A i \in 1..Len(numbers) :
        /\ Client!Typed(numbers)[i].answer = numbers[i]
        /\ Client!Typed(numbers)[i].type = Client!FrameType(Len(frames) + i - 1)
  BY DEF Client!Typed
<1>5. QED
  BY <1>1, <1>3, <1>4, FunctionIsSequence

LEMMA ChunkTranscript ==
  ASSUME AnswerSize \in Nat \ {0}, TranscriptInv,
         NEW k \in 1..(Len(Client!Downlink) - read), Client!ClientData(k)
  PROVE  TranscriptInv' /\ Len(frames') = Len(Messages(Got(Written, read + k)))
<1> DEFINE received == Rest(Got(Written, read)) \o SubSeq(Back(Written), read + 1, read + k)
           all == frames \o Client!Typed(Messages(received))
           before == Messages(Got(Written, read))
           after == Messages(Got(Written, read + k))
<1>1. Written \in Nat /\ read \in 0..Len(Back(Written)) /\ Client!Downlink = Back(Written)
  BY AppendFacts, SameDownlink DEF TranscriptInv, Written
<1>2. k \in 1..(Len(Back(Written)) - read) /\ Len(Back(Written)) \in Nat
  BY <1>1, BackFacts
<1>3. /\ read + k \in 0..Len(Back(Written)) /\ received \in Stream(Nat)
      /\ after = before \o Messages(received)
      /\ Rest(Got(Written, read + k)) = Rest(received)
  BY <1>1, <1>2, GotMore
<1>4. /\ backlog' = Rest(received) /\ frames' = all /\ read' = read + k
      /\ outcome' = IF Len(all) >= Client!ExpectedFrames THEN "resolved" ELSE "open"
      /\ answers' = answers /\ request' = request /\ autoLogin' = autoLogin
  <2>1. backlog \o SubSeq(Client!Downlink, read + 1, read + k) = received
    BY <1>1 DEF TranscriptInv
  <2> HIDE DEF received
  <2>2. QED
    BY <2>1, SameFraming DEF Client!ClientData
<1> HIDE DEF received
<1>5. Messages(received) \in Seq(Nat) /\ before \in Seq(Nat)
  BY <1>1, <1>3, GotFacts, DecodedBodies
<1>6. /\ Client!Typed(Messages(received)) \in Seq([type : FrameTypes, answer : Nat])
      /\ Len(Client!Typed(Messages(received))) = Len(Messages(received))
      /\ \A i \in 1..Len(Messages(received)) :
           /\ Client!Typed(Messages(received))[i].answer = Messages(received)[i]
           /\ Client!Typed(Messages(received))[i].type = Client!FrameType(Len(frames) + i - 1)
  BY <1>5, TypedFacts
<1>7. /\ frames \in Seq([type : FrameTypes, answer : Nat]) /\ Len(frames) = Len(before)
      /\ \A i \in 1..Len(frames) :
           frames[i].answer = i /\ frames[i].type = Client!FrameType(i - 1)
  BY DEF TranscriptInv, FramesRead
<1> DEFINE typed == Client!Typed(Messages(received))
<1>8. \A i \in 1..Len(after) : after[i] = i
  BY <1>1, <1>3, GotFacts
<1> HIDE DEF before, after, typed
<1>9. /\ Len(before) \in Nat /\ Len(Messages(received)) \in Nat
      /\ Len(after) = Len(before) + Len(Messages(received))
      /\ \A i \in 1..Len(Messages(received)) : after[Len(before) + i] = Messages(received)[i]
  BY <1>3, <1>5, ConcatFacts
<1>10. /\ all \in Seq([type : FrameTypes, answer : Nat])
       /\ Len(all) = Len(frames) + Len(Messages(received))
       /\ \A i \in 1..Len(frames) : all[i] = frames[i]
       /\ \A i \in 1..Len(Messages(received)) : all[Len(frames) + i] = typed[i]
  <2> DEFINE V == [type : FrameTypes, answer : Nat]
  <2>1. frames \in Seq(V) /\ typed \in Seq(V) /\ Len(typed) = Len(Messages(received))
    BY <1>6, <1>7 DEF typed
  <2>2. all = frames \o typed
    BY DEF typed
  <2> HIDE DEF V, all
  <2>3. /\ frames \o typed \in Seq(V) /\ Len(frames \o typed) = Len(frames) + Len(typed)
        /\ \A i \in 1..Len(frames) : (frames \o typed)[i] = frames[i]
        /\ \A i \in 1..Len(typed) : (frames \o typed)[Len(frames) + i] = typed[i]
    <3>1. \A x, y \in Seq(V) :
            /\ x \o y \in Seq(V) /\ Len(x \o y) = Len(x) + Len(y)
            /\ \A i \in 1..Len(x) : (x \o y)[i] = x[i]
            /\ \A i \in 1..Len(y) : (x \o y)[Len(x) + i] = y[i]
      BY ConcatFacts
    <3>2. QED
      BY <2>1, <3>1
  <2>4. QED
    BY <2>1, <2>2, <2>3 DEF V
<1>11. ASSUME NEW i \in 1..Len(all)
       PROVE  all[i].answer = i /\ all[i].type = Client!FrameType(i - 1)
  <2>1. CASE i \in 1..Len(frames)
    BY <1>7, <1>10, <2>1
  <2>2. CASE i \notin 1..Len(frames)
    <3>1. PICK j \in 1..Len(Messages(received)) : i = Len(before) + j
      <4>1. i - Len(before) \in 1..Len(Messages(received)) /\ i = Len(before) + (i - Len(before))
        BY <1>7, <1>9, <1>10, <2>2
      <4>2. QED
        BY <4>1
    <3>2. all[i] = typed[j] /\ after[i] = Messages(received)[j]
      BY <1>7, <1>9, <1>10, <3>1
    <3>3. i \in 1..Len(after)
      BY <1>7, <1>9, <1>10
    <3>4. QED
      BY <1>6, <1>7, <1>8, <3>1, <3>2, <3>3 DEF typed
  <2>3. QED
    BY <2>1, <2>2
<1> HIDE DEF all
<1>12. /\ Written' = Written /\ Back(Written)' = Back(Written)
       /\ Got(Written, read)' = Got(Written, read + k)
       /\ FramesRead' = after
  BY <1>4 DEF Written, Got, Back, FramesRead, after
<1>13. Len(all) = Len(after)
  BY <1>7, <1>9, <1>10
<1>14. outcome' = "resolved" => Len(all) >= Client!ExpectedFrames
  BY <1>4
<1>15. /\ Client!ExpectedFrames' = Client!ExpectedFrames
       /\ \A i : Client!FrameType(i)' = Client!FrameType(i)
  BY <1>4 DEF Client!ExpectedFrames, Client!IsHello, Client!FrameType
<1>16. DOMAIN answers' = {dashboard} /\ IsSequence(answers'[dashboard])
  BY <1>4 DEF TranscriptInv
<1>17. TranscriptInv'
  BY <1>3, <1>4, <1>10, <1>11, <1>12, <1>13, <1>14, <1>15, <1>16 DEF TranscriptInv
<1>18. QED
  BY <1>4, <1>13, <1>17 DEF after

LEMMA InitTranscript ==
  ASSUME AnswerSize \in Nat \ {0}, Client!Init
  PROVE  TranscriptInv
<1>1. /\ answers = [s \in {dashboard} |-> <<Client!Server!AnswerOf("greeting", None, None)>>]
      /\ read = 0 /\ backlog = <<>> /\ frames = <<>> /\ outcome = "open"
  BY DEF Client!Init, Client!Server!Init
<1>2. DOMAIN answers = {dashboard} /\ IsSequence(answers[dashboard]) /\ Written = 1
  <2>1. answers[dashboard] \in Seq({Client!Server!AnswerOf("greeting", None, None)})
    BY <1>1
  <2>2. QED
    BY <1>1, <2>1 DEF IsSequence, Written
<1>3. Back(Written) \in Stream(Nat) /\ Len(Back(Written)) \in Nat
  BY <1>2, BackFacts
<1>4. read \in 0..Len(Back(Written)) /\ 0 \in 0..Len(Back(Written)) /\ Len(Back(Written)) \in 0..Len(Back(Written))
  BY <1>1, <1>3
<1>5. Got(Written, read) = <<>>
  BY <1>1, <1>3, <1>4, TwoCuts DEF Got
<1>6. Rest(<<>>) = <<>> /\ Messages(<<>>) = <<>>
  BY <1>3, NothingMore
<1>7. frames \in Seq([type : FrameTypes, answer : Nat]) /\ Len(frames) = 0 /\ Len(<<>>) = 0
  BY <1>1
<1>8. QED
  BY <1>1, <1>2, <1>4, <1>5, <1>6, <1>7 DEF TranscriptInv, FramesRead

LEMMA NextTranscript ==
  ASSUME AnswerSize \in Nat \ {0}, TranscriptInv, [Client!Next]_Client!vars
  PROVE  TranscriptInv'
<1>1. ASSUME UNCHANGED <<answers, request, autoLogin, read, backlog, frames>>,
             outcome' # "resolved" \/ outcome' = outcome
      PROVE  TranscriptInv'
  BY <1>1 DEF TranscriptInv, Written, FramesRead, Got, Back, Client!ExpectedFrames,
     Client!IsHello, Client!FrameType
<1>2. CASE Client!Timeout \/ Client!SocketError
  <2>1. Client!Reject
    BY <1>2 DEF Client!Timeout, Client!SocketError
  <2>2. QED
    BY <1>1, <2>1 DEF Client!Reject, Client!server
<1>3. CASE UNCHANGED Client!vars
  BY <1>1, <1>3 DEF Client!vars, Client!server, Client!client
<1>4. QED
  BY <1>2, <1>3, ServerTranscript, ChunkTranscript DEF Client!Next

\* However TCP cuts and batches the answers on their way back, and whatever the
\* server does meanwhile, the frames of the client's result are the server's answers
\* from the greeting on, each once and in their order; and the promise is resolved
\* only with as many of them as the request has answers.
THEOREM ResultIsAlwaysTheTranscript ==
  ASSUME AnswerSize \in Nat \ {0}
  PROVE  Client!Spec => []Client!ResultIsTheTranscript
<1>1. Client!Init => TranscriptInv
  BY InitTranscript
<1>2. TranscriptInv /\ [Client!Next]_Client!vars => TranscriptInv'
  BY NextTranscript
<1>3. TranscriptInv => Client!ResultIsTheTranscript
  BY DEF TranscriptInv, Client!ResultIsTheTranscript
<1>4. QED
  BY <1>1, <1>2, <1>3, PTL DEF Client!Spec
-------------------------------------------------------------------------------
(* The dashboard's client is one of the clients EppSession leaves open.    *)

\* What the client may send.
Asked == Requests \cup Client!Logins

LEMMA OneSum ==
  ASSUME NEW d, NEW f, f[d] \in Nat
  PROVE  Client!Server!SumFunctionOnSet(f, {d}) = f[d]
<1> DEFINE IsSum(g) ==
             g = [s \in SUBSET {d} |->
                    IF s = {} THEN 0
                    ELSE f[CHOOSE x \in s : TRUE] + g[s \ {CHOOSE x \in s : TRUE}]]
           sum == [s \in SUBSET {d} |-> IF s = {} THEN 0 ELSE f[d]]
<1>1. \A s \in SUBSET {d} : s = {} \/ s = {d}
  OBVIOUS
<1>2. (CHOOSE x \in {d} : TRUE) = d /\ {d} \ {d} = {} /\ {} \in SUBSET {d} /\ {d} \in SUBSET {d}
  OBVIOUS
<1>3. ASSUME NEW g, DOMAIN g = SUBSET {d}, g[{}] = 0
      PROVE  \A s \in SUBSET {d} : s # {} =>
               f[CHOOSE x \in s : TRUE] + g[s \ {CHOOSE x \in s : TRUE}] = f[d]
  <2>1. SUFFICES ASSUME NEW s \in SUBSET {d}, s # {}
                 PROVE  f[CHOOSE x \in s : TRUE] + g[s \ {CHOOSE x \in s : TRUE}] = f[d]
    OBVIOUS
  <2>2. s = {d}
    BY <1>1, <2>1
  <2>3. (CHOOSE x \in s : TRUE) = d /\ s \ {d} = {}
    BY <1>2, <2>2
  <2>4. f[d] + g[{}] = f[d]
    BY <1>3
  <2>5. QED
    BY <2>3, <2>4
<1>4. IsSum(sum)
  BY <1>2, <1>3
<1>5. Client!Server!SumFunctionOnSet(f, {d}) = (CHOOSE g : IsSum(g))[{d}]
  BY DEF Client!Server!SumFunctionOnSet, Client!Server!FoldFunctionOnSet,
     Client!Server!MapThenFoldSet
<1>6. IsSum(CHOOSE g : IsSum(g))
  BY <1>4
<1> DEFINE h == CHOOSE g : IsSum(g)
<1>7. h = [s \in SUBSET {d} |->
             IF s = {} THEN 0
             ELSE f[CHOOSE x \in s : TRUE] + h[s \ {CHOOSE x \in s : TRUE}]]
  BY <1>6
<1> HIDE DEF h
<1>8. DOMAIN h = SUBSET {d} /\ h[{}] = 0
  BY <1>2, <1>7
<1>9. h[{d}] = f[d]
  BY <1>2, <1>3, <1>7, <1>8
<1>10. QED
  BY <1>5, <1>9 DEF h

\* Three frames on the way back take three answers' units.
LEMMA BackOfThree ==
  ASSUME AnswerSize \in Nat \ {0}
  PROVE  /\ Len(Back(0)) = 0 /\ Len(Back(1)) = AnswerSize
         /\ Len(Back(2)) = 2 * AnswerSize /\ Len(Back(3)) = 3 * AnswerSize
<1>1. Len(Back(0)) = 0
  <2>1. [i \in 1..0 |-> Encode(i, AnswerSize)] = <<>>
    OBVIOUS
  <2>2. <<>> \in Seq(Seq(Nat))
    OBVIOUS
  <2>3. FlattenSeq(<<>>) = <<>>
    BY <2>2, FlattenFacts
  <2>4. QED
    BY <2>1, <2>3 DEF Back
<1>2. \A n \in Nat : Len(Back(n + 1)) = Len(Back(n)) + AnswerSize
  BY BackGrows
<1>3. Len(Back(1)) = Len(Back(0)) + AnswerSize
  BY <1>2, 0 + 1 = 1
<1>4. Len(Back(2)) = Len(Back(1)) + AnswerSize
  BY <1>2, 1 + 1 = 2
<1>5. Len(Back(3)) = Len(Back(2)) + AnswerSize
  BY <1>2, 2 + 1 = 3
<1>6. QED
  BY <1>1, <1>3, <1>4, <1>5

LEMMA FewRead ==
  ASSUME AnswerSize \in Nat \ {0}, NEW n \in Nat, NEW r \in 0..Len(Back(n)),
         Len(Messages(Got(n, r))) < 3
  PROVE  r < 3 * AnswerSize
<1> DEFINE a == 3 * AnswerSize
<1>1. Back(n) \in Stream(Nat) /\ Len(Back(n)) \in Nat /\ a \in Nat
  BY BackFacts
<1>2. CASE n < 3
  <2>1. n = 0 \/ n = 1 \/ n = 2
    BY <1>2
  <2>2. Len(Back(n)) < a
    BY <2>1, BackOfThree
  <2>3. QED
    BY <1>1, <2>2
<1>3. CASE n >= 3 /\ r >= a
  <2> DEFINE S == {j \in Nat : SubSeq(Back(3 + j), 1, a) = Back(3) /\ Len(Back(3 + j)) >= a}
  <2>1. 0 \in S
    <3>1. Back(3) \in Stream(Nat) /\ Len(Back(3)) = a /\ 3 \in Nat
      BY BackFacts, BackOfThree
    <3>2. 0 \in 0..Len(Back(3)) /\ Len(Back(3)) \in 0..Len(Back(3))
      BY <1>1, <3>1
    <3>3. SubSeq(Back(3), 1, Len(Back(3))) = Back(3)
      BY <3>1, <3>2, TwoCuts
    <3>4. QED
      BY <3>1, <3>3
  <2>2. ASSUME NEW j \in 0..((n - 3) - 1), j \in S
        PROVE  j + 1 \in S
    <3>1. 3 + j \in Nat /\ (3 + j) + 1 = 3 + (j + 1) /\ j + 1 \in Nat
      OBVIOUS
    <3> DEFINE x == Back(3 + j)
               y == Encode((3 + j) + 1, AnswerSize)
    <3>2. /\ Back(3 + (j + 1)) = x \o y /\ x \in Stream(Nat) /\ y \in Stream(Nat)
          /\ Len(Back(3 + (j + 1))) = Len(x) + AnswerSize /\ Len(x) \in Nat
      BY <3>1, BackGrows, BackFacts
    <3>3. SubSeq(x, 1, a) = Back(3) /\ Len(x) >= a
      BY <2>2
    <3> HIDE DEF x, y, a
    <3>4. a \in 0..Len(x)
      BY <1>1, <3>2, <3>3
    <3>5. SubSeq(x \o y, 1, a) = SubSeq(x, 1, a)
      BY <3>2, <3>4, CutOfConcat
    <3>6. Len(Back(3 + (j + 1))) >= a
      BY <1>1, <3>2, <3>3
    <3>7. QED
      BY <3>1, <3>2, <3>3, <3>5, <3>6
  <2>3. n - 3 \in Nat /\ n - 3 \in 0..(n - 3) /\ 3 + (n - 3) = n
    BY <1>3
  <2> HIDE DEF S
  <2>4. n - 3 \in S
    BY <2>1, <2>2, <2>3, UpTo
  <2>5. SubSeq(Back(n), 1, a) = Back(3)
    BY <2>3, <2>4 DEF S
  <2> DEFINE behind == SubSeq(Back(n), a + 1, r)
  <2>6. a \in 0..Len(Back(n)) /\ r \in a..Len(Back(n))
    BY <1>1, <1>3
  <2> HIDE DEF a
  <2>7. behind \in Stream(Nat) /\ SubSeq(Back(n), 1, r) = SubSeq(Back(n), 1, a) \o behind
    BY <1>1, <2>6, TwoCuts
  <2>8. Got(n, r) = Back(3) \o behind
    BY <2>5, <2>7 DEF Got
  <2> HIDE DEF behind
  <2>9. /\ Back(3) \in Stream(Nat) /\ Rest(Back(3)) = <<>> /\ Messages(Back(3)) = Numbers(3)
        /\ Numbers(3) \in Seq(Nat) /\ Len(Numbers(3)) = 3
    <3>1. Numbers(3) \in [1..3 -> Nat]
      BY DEF Numbers
    <3>2. Numbers(3) \in Seq(Nat) /\ Len(Numbers(3)) = 3
      BY <3>1, FunctionIsSequence
    <3>3. QED
      BY <3>2, BackFacts
  <2>10. Messages(Got(n, r)) = Numbers(3) \o Messages(behind)
    BY <2>7, <2>8, <2>9, WholeFramesBefore
  <2>11. Messages(behind) \in Seq(Nat)
    BY <2>7, DecodedBodies
  <2>12. Len(Messages(Got(n, r))) = 3 + Len(Messages(behind)) /\ Len(Messages(behind)) \in Nat
    <3>1. \A x, y \in Seq(Nat) : Len(x \o y) = Len(x) + Len(y) /\ Len(y) \in Nat
      BY ConcatFacts
    <3>2. QED
      BY <2>9, <2>10, <2>11, <3>1
  <2>13. QED
    BY <2>12
<1>4. QED
  BY <1>1, <1>2, <1>3
\* Every message the client has sent, it sent on data it had read.
SentInv ==
  /\ request \in Requests /\ accepted \in BOOLEAN
  /\ sent \in [{dashboard} -> Seq(Asked)]
  /\ wire \in [{dashboard} -> Stream(Asked)]
  /\ Len(sent[dashboard]) =< read

\* No poll message is posted here, so the user has none to acknowledge.
NoAcks == \A m \in Requests : m.op # "ack"

UnitOf(m) == [body |-> m, size |-> 1]

\* A data event writes one message or none, and none once it has three frames.
LEMMA WritesFacts ==
  ASSUME request \in Requests, accepted \in BOOLEAN, NEW n \in Nat
  PROVE  \/ Client!Writes(n) = <<>>
         \/ n < 3 /\ \E m \in Asked : Client!Writes(n) = <<m>>
<1>1. Client!LoginMessage \in Asked
  BY DEF Client!LoginMessage, Client!Logins, Asked
<1>2. request \in Asked
  BY DEF Asked
<1>3. QED
  BY <1>1, <1>2 DEF Client!Writes

\* The units of what is written.
LEMMA WrittenUnits ==
  /\ Len(<<>>) = 0
  /\ [i \in 1..Len(<<>>) |-> UnitOf((<<>>)[i])] = <<>>
  /\ \A m : [i \in 1..Len(<<m>>) |-> UnitOf((<<m>>)[i])] = <<UnitOf(m)>>
  /\ \A m : Client!Server!Encode(m, 1) = <<UnitOf(m)>>
<1>1. Len(<<>>) = 0 /\ [i \in 1..0 |-> UnitOf((<<>>)[i])] = <<>>
  OBVIOUS
<1>2. ASSUME NEW m
      PROVE  [i \in 1..Len(<<m>>) |-> UnitOf((<<m>>)[i])] = <<UnitOf(m)>>
  OBVIOUS
<1>3. ASSUME NEW m
      PROVE  Client!Server!Encode(m, 1) = <<UnitOf(m)>>
  BY DEF Client!Server!Encode, UnitOf
<1>4. QED
  BY <1>1, <1>2, <1>3

LEMMA WriteNothing ==
  ASSUME SentInv, Client!Write(<<>>)
  PROVE  sent' = sent /\ wire' = wire
<1>1. sent[dashboard] \o <<>> = sent[dashboard]
  BY ConcatEmptySeq DEF SentInv
<1>2. wire[dashboard] \o <<>> = wire[dashboard]
  BY ConcatEmptySeq DEF SentInv, Stream
<1>3. [i \in 1..Len(<<>>) |-> [body |-> (<<>>)[i], size |-> 1]] = <<>>
  BY WrittenUnits DEF UnitOf
<1>4. /\ sent' = [sent EXCEPT ![dashboard] = @ \o <<>>]
      /\ wire' = [wire EXCEPT ![dashboard] = @ \o <<>>]
  BY <1>3 DEF Client!Write
<1>5. QED
  BY <1>1, <1>2, <1>4 DEF SentInv

LEMMA WriteOne ==
  ASSUME SentInv, NEW m \in Asked, Client!Write(<<m>>)
  PROVE  /\ sent' = [sent EXCEPT ![dashboard] = Append(@, m)]
         /\ wire' = [wire EXCEPT ![dashboard] = @ \o Client!Server!Encode(m, 1)]
         /\ wire' = [wire EXCEPT ![dashboard] = @ \o <<UnitOf(m)>>]
         /\ sent' \in [{dashboard} -> Seq(Asked)] /\ wire' \in [{dashboard} -> Stream(Asked)]
         /\ Len(sent[dashboard]) \in Nat
         /\ Len(sent'[dashboard]) = Len(sent[dashboard]) + 1
<1>1. sent[dashboard] \o <<m>> = Append(sent[dashboard], m)
  BY DEF SentInv
<1>2. [i \in 1..Len(<<m>>) |-> [body |-> (<<m>>)[i], size |-> 1]] = <<UnitOf(m)>>
  BY WrittenUnits DEF UnitOf
<1>3. /\ sent' = [sent EXCEPT ![dashboard] = @ \o <<m>>]
      /\ wire' = [wire EXCEPT ![dashboard] = @ \o <<UnitOf(m)>>]
  BY <1>2 DEF Client!Write
<1>4. sent' = [sent EXCEPT ![dashboard] = Append(@, m)]
  BY <1>1, <1>3
<1>5. <<UnitOf(m)>> \in Stream(Asked)
  BY DEF Stream, UnitOf
<1>6. wire[dashboard] \o <<UnitOf(m)>> \in Stream(Asked)
  BY <1>5, StreamConcat DEF SentInv
<1>7. /\ Append(sent[dashboard], m) \in Seq(Asked) /\ Len(sent[dashboard]) \in Nat
      /\ Len(Append(sent[dashboard], m)) = Len(sent[dashboard]) + 1
  BY DEF SentInv
<1>8. wire' = [wire EXCEPT ![dashboard] = @ \o Client!Server!Encode(m, 1)]
  BY <1>3, WrittenUnits
<1>9. sent' \in [{dashboard} -> Seq(Asked)] /\ Len(sent'[dashboard]) = Len(sent[dashboard]) + 1
  BY <1>4, <1>7 DEF SentInv
<1>10. wire' \in [{dashboard} -> Stream(Asked)]
  BY <1>3, <1>6 DEF SentInv
<1>11. QED
  BY <1>3, <1>4, <1>7, <1>8, <1>9, <1>10

\* A data event of the client is a step of the server's clients: nothing is sent,
\* or one frame is.
LEMMA ChunkSends ==
  ASSUME AnswerSize \in Nat \ {0}, TranscriptInv, SentInv,
         NEW k \in 1..(Len(Client!Downlink) - read), Client!ClientData(k)
  PROVE  SentInv' /\ (NoAcks => [Client!Server!Next]_Client!Server!vars)
<1> DEFINE n == Len(frames')
<1>1. /\ n = Len(Messages(Got(Written, read + k))) /\ Client!Write(Client!Writes(n))
      /\ Client!Server!Idle /\ read' = read + k
      /\ UNCHANGED <<request, accepted, buffer, inbox, session, answers, queues, posted>>
  <2>1. n = Len(Messages(Got(Written, read + k)))
    BY ChunkTranscript
  <2>2. Client!Write(Client!Writes(n))
    BY DEF Client!ClientData
  <2>3. QED
    BY <2>1, <2>2 DEF Client!ClientData
<1>2. /\ Written \in Nat /\ read \in Nat /\ read + k \in 0..Len(Back(Written))
  <2>1. Written \in Nat /\ read \in 0..Len(Back(Written)) /\ Client!Downlink = Back(Written)
    BY AppendFacts, SameDownlink DEF TranscriptInv, Written
  <2>2. Len(Back(Written)) \in Nat
    BY <2>1, BackFacts
  <2>3. QED
    BY <2>1, <2>2
<1>3. n \in Nat
  BY <1>1, <1>2, GotFacts
<1> HIDE DEF n
<1>4. Len(sent[dashboard]) \in Nat /\ Len(sent[dashboard]) =< read /\ k \in Nat \ {0}
  BY ElementsOf DEF SentInv
<1>5. CASE Client!Writes(n) = <<>>
  <2>1. sent' = sent /\ wire' = wire
    BY <1>1, <1>5, WriteNothing
  <2>2. UNCHANGED Client!Server!vars
    BY <1>1, <2>1 DEF Client!Server!vars
  <2>3. SentInv'
    BY <1>1, <1>2, <1>4, <2>1 DEF SentInv
  <2>4. QED
    BY <2>2, <2>3
<1>6. ASSUME n < 3, NEW m \in Asked, Client!Writes(n) = <<m>>
      PROVE  SentInv' /\ (NoAcks => [Client!Server!Next]_Client!Server!vars)
  <2> DEFINE frame == UnitOf(m)
  <2>1. /\ sent' = [sent EXCEPT ![dashboard] = Append(@, m)]
        /\ wire' = [wire EXCEPT ![dashboard] = @ \o Client!Server!Encode(m, 1)]
        /\ sent' \in [{dashboard} -> Seq(Asked)] /\ wire' \in [{dashboard} -> Stream(Asked)]
        /\ Len(sent'[dashboard]) = Len(sent[dashboard]) + 1
    BY <1>1, <1>6, WriteOne
  <2>2. SentInv'
    BY <1>1, <1>2, <1>4, <2>1 DEF SentInv
  <2>3. read + k < 3 * AnswerSize
    BY <1>1, <1>2, <1>6, FewRead
  <2>4. Client!Server!SentFrames < 3 * AnswerSize
    <3> DEFINE f == [s \in {dashboard} |-> Len(sent[s])]
    <3>1. f[dashboard] = Len(sent[dashboard]) /\ DOMAIN f = {dashboard}
      OBVIOUS
    <3>2. Client!Server!SumFunction(f) = Client!Server!SumFunctionOnSet(f, {dashboard})
      BY <3>1 DEF Client!Server!SumFunction
    <3>3. Client!Server!SentFrames = Client!Server!SumFunction(f)
      BY DEF Client!Server!SentFrames
    <3> HIDE DEF f
    <3>4. Client!Server!SentFrames = Len(sent[dashboard])
      BY <1>4, <3>1, <3>2, <3>3, OneSum
    <3>5. QED
      BY <1>2, <1>4, <2>3, <3>4
  <2>5. NoAcks => m.op # "ack"
    BY DEF NoAcks, Asked, Client!Logins
  <2>6. frame.body = m /\ frame.size = 1
    BY DEF UnitOf
  <2>7. NoAcks => Client!Server!Send(dashboard, frame)
    BY <1>1, <2>1, <2>4, <2>5, <2>6 DEF Client!Server!Send
  <2>8. frame \in [body : Requests \cup Client!Logins, size : {1}]
    BY DEF UnitOf, Asked
  <2> HIDE DEF frame
  <2>9. NoAcks => Client!Server!Next
    BY <2>7, <2>8 DEF Client!Server!Next
  <2>10. QED
    BY <2>2, <2>9
<1>7. QED
  BY <1>1, <1>3, <1>5, <1>6, WritesFacts DEF SentInv

LEMMA ServerSends ==
  ASSUME SentInv, Client!ServerStep
  PROVE  SentInv' /\ Client!Server!Next
<1>1. UNCHANGED <<request, accepted, read, sent>>
  BY ServerShape DEF Client!client
<1>2. wire' \in [{dashboard} -> Stream(Asked)]
  <2>1. CASE wire' = wire
    BY <2>1 DEF SentInv
  <2>2. ASSUME NEW k \in 1..Len(wire[dashboard]),
               wire' = [wire EXCEPT ![dashboard] = SubSeq(@, k + 1, Len(@))]
        PROVE  wire' \in [{dashboard} -> Stream(Asked)]
    <3>1. wire[dashboard] \in Stream(Asked)
      BY DEF SentInv
    <3>2. SubSeq(wire[dashboard], k + 1, Len(wire[dashboard])) \in Stream(Asked)
      BY <3>1, StreamCut
    <3>3. QED
      BY <2>2, <3>2 DEF SentInv
  <2>3. QED
    BY <2>1, <2>2, ServerShape
<1>3. Client!Server!Next
  BY DEF Client!ServerStep, Client!Server!Next
<1>4. QED
  BY <1>1, <1>2, <1>3 DEF SentInv

LEMMA InitSent ==
  ASSUME Client!Init
  PROVE  SentInv
<1>1. /\ sent = [s \in {dashboard} |-> <<>>] /\ wire = [s \in {dashboard} |-> <<>>]
      /\ read = 0 /\ request \in Requests /\ accepted \in BOOLEAN
  BY DEF Client!Init, Client!Server!Init
<1>2. <<>> \in Seq(Asked) /\ <<>> \in Stream(Asked) /\ Len(<<>>) = 0
  BY DEF Stream
<1>3. QED
  BY <1>1, <1>2 DEF SentInv

LEMMA NextSent ==
  ASSUME AnswerSize \in Nat \ {0}, TranscriptInv, SentInv, [Client!Next]_Client!vars
  PROVE  SentInv' /\ (NoAcks => [Client!Server!Next]_Client!Server!vars)
<1>1. ASSUME UNCHANGED <<Client!server, request, accepted, read>>
      PROVE  SentInv' /\ [Client!Server!Next]_Client!Server!vars
  BY <1>1 DEF SentInv, Client!server, Client!Server!vars
<1>2. CASE Client!Timeout \/ Client!SocketError
  BY <1>1, <1>2 DEF Client!Timeout, Client!SocketError, Client!Reject
<1>3. CASE UNCHANGED Client!vars
  BY <1>1, <1>3 DEF Client!vars, Client!client
<1>4. QED
  BY <1>2, <1>3, ServerSends, ChunkSends DEF Client!Next

\* What the dashboard's client does to the server is what some client of EppSession
\* may do: it sends one of its frames at a time, never more of them than it has read
\* units, and changes nothing else.  What AlwaysInOrder, AlwaysRunsAsLoggedIn,
\* MalformedAlwaysRunsNothing and QuietIsAnswered say of every client holds for it.
THEOREM ClientIsAnOpenClient ==
  ASSUME AnswerSize \in Nat \ {0}, NoAcks
  PROVE  Client!Spec => Client!ImplementsOpenClient
<1>1. Client!Init => TranscriptInv /\ SentInv /\ Client!Server!Init
  BY InitTranscript, InitSent DEF Client!Init
<1>2. TranscriptInv /\ SentInv /\ [Client!Next]_Client!vars
        => TranscriptInv' /\ SentInv' /\ [Client!Server!Next]_Client!Server!vars
  BY NextTranscript, NextSent
<1>3. QED
  BY <1>1, <1>2, PTL DEF Client!Spec, Client!ImplementsOpenClient, Client!Server!Spec
-------------------------------------------------------------------------------
(* Answers that TCP does not split.                                        *)

\* As far as the server goes: every frame of the client is a unit, so the decoder
\* keeps nothing, and each frame that was sent is answered at most once.
PlainInv ==
  /\ inbox \in [{dashboard} -> Seq(Asked)]
  /\ buffer = [s \in {dashboard} |-> <<>>]
  /\ \A i \in 1..Len(wire[dashboard]) : wire[dashboard][i].size = 1
  /\ Len(wire[dashboard]) + Len(inbox[dashboard]) + Written =< Len(sent[dashboard]) + 1

\* What the client sends in all.
Script ==
  IF Client!IsHello THEN <<>>
  ELSE IF autoLogin THEN <<Client!LoginMessage, request>> ELSE <<request>>

\* The client sends the next message of its script on each answer.
ScriptInv ==
  /\ Client!IsHello => ~autoLogin
  /\ Len(sent[dashboard]) =< Len(Script)
  /\ \A i \in 1..Len(sent[dashboard]) : sent[dashboard][i] = Script[i]
  /\ outcome = "open" => Len(sent[dashboard]) = read

LEMMA SameServerFraming ==
  \A b : Client!Server!Rest(b) = Rest(b) /\ Client!Server!Messages(b) = Messages(b)
<1>1. \A b : Client!Server!Position(b) = Position(b)
  BY DEF Client!Server!Position, Position, Client!Server!IsWhole, IsWhole
<1>2. \A b : Client!Server!Rest(b) = Rest(b)
  BY <1>1 DEF Client!Server!Rest, Rest, Client!Server!Consumed, Consumed
<1>3. \A b : Client!Server!Messages(b) = Messages(b)
  BY <1>1 DEF Client!Server!Messages, Messages, Client!Server!Turns, Turns
<1>4. QED
  BY <1>2, <1>3

\* Answers of one unit: what is read is the first whole answers.
LEMMA UnsplitGot ==
  ASSUME AnswerSize = 1, NEW n \in Nat, NEW r \in 0..n
  PROVE  Len(Back(n)) = n /\ Len(Messages(Got(n, r))) = r
<1> DEFINE S == {j \in Nat : Len(Back(j)) = j}
           T == {j \in Nat : Got(r + j, r) = Back(r)}
<1>1. AnswerSize \in Nat \ {0} /\ r \in Nat
  OBVIOUS
<1>2. 0 \in S
  BY <1>1, BackOfThree
<1>3. ASSUME NEW m \in Nat, NEW j \in 0..(m - 1), j \in S
      PROVE  j + 1 \in S
  <2>1. j \in Nat /\ Len(Back(j)) = j
    BY <1>3
  <2>2. Len(Back(j + 1)) = Len(Back(j)) + AnswerSize
    BY <1>1, <2>1, BackGrows
  <2>3. QED
    BY <2>1, <2>2
<1> HIDE DEF S
<1>4. ASSUME NEW m \in Nat
      PROVE  Len(Back(m)) = m
  <2>1. \A j \in 0..(m - 1) : j \in S => j + 1 \in S
    BY <1>3
  <2>2. \A j \in 0..m : j \in S
    BY <1>2, <2>1, UpTo
  <2>3. QED
    BY <2>2 DEF S
<1>5. 0 \in T
  <2>1. Back(r) \in Stream(Nat) /\ Len(Back(r)) = r
    BY <1>1, <1>4, BackFacts
  <2>2. 0 \in 0..Len(Back(r)) /\ Len(Back(r)) \in 0..Len(Back(r))
    BY <1>1, <2>1
  <2>3. SubSeq(Back(r), 1, Len(Back(r))) = Back(r)
    BY <2>1, <2>2, TwoCuts
  <2>4. r + 0 = r
    BY <1>1
  <2>5. QED
    BY <2>1, <2>3, <2>4 DEF Got
<1>6. ASSUME NEW j \in 0..((n - r) - 1), j \in T
      PROVE  j + 1 \in T
  <2>1. r + j \in Nat /\ j + 1 \in Nat /\ (r + j) + 1 = r + (j + 1) /\ r \in 0..(r + j)
    BY <1>1
  <2>2. r \in 0..Len(Back(r + j))
    BY <1>4, <2>1
  <2>3. Got((r + j) + 1, r) = Got(r + j, r)
    BY <1>1, <2>1, <2>2, GotFacts
  <2>4. QED
    BY <1>6, <2>1, <2>3
<1> HIDE DEF T
<1>7. n - r \in Nat /\ n - r \in 0..(n - r) /\ r + (n - r) = n
  BY <1>1
<1>8. n - r \in T
  BY <1>5, <1>6, <1>7, UpTo
<1>9. Got(n, r) = Back(r)
  BY <1>7, <1>8 DEF T
<1>10. Messages(Back(r)) = Numbers(r)
  BY <1>1, BackFacts
<1>11. Numbers(r) \in [1..r -> Nat]
  BY <1>1 DEF Numbers
<1>12. Len(Numbers(r)) = r
  BY <1>1, <1>11, FunctionIsSequence
<1>13. QED
  BY <1>4, <1>9, <1>10, <1>12

\* Counts of what is on the way and answered, against what was sent.
LEMMA StillBalanced ==
  ASSUME NEW w \in Nat, NEW i \in Nat, NEW a \in Nat, NEW s \in Nat, w + i + a =< s + 1,
         NEW j \in Nat, NEW b \in Nat, j =< i - 1, b =< a + 1
  PROVE  w + j + b =< s + 1
OBVIOUS

LEMMA AllAnswered ==
  ASSUME NEW w \in Nat, NEW i \in Nat, NEW a \in Nat, NEW s \in Nat, w + i + a =< s + 1
  PROVE  a =< s + 1 /\ (a = s + 1 => w = 0 /\ i = 0)
OBVIOUS

LEMMA ServerPlain ==
  ASSUME AnswerSize = 1, TranscriptInv, SentInv, PlainInv, Client!ServerStep
  PROVE  PlainInv'
<1>1. /\ sent' = sent /\ Written \in Nat /\ (Written' = Written \/ Written' = Written + 1)
      /\ answers' = answers => Written' = Written
  <2>1. DOMAIN answers = {dashboard} /\ IsSequence(answers[dashboard])
    BY DEF TranscriptInv
  <2>2. ASSUME NEW a, answers' = [answers EXCEPT ![dashboard] = Append(@, a)]
        PROVE  Written' = Written + 1
    <3>1. answers'[dashboard] = Append(answers[dashboard], a)
      BY <2>1, <2>2
    <3>2. QED
      BY <2>1, <3>1, AppendFacts DEF Written
  <2>3. Written \in Nat /\ (answers' = answers => Written' = Written)
    BY <2>1, AppendFacts DEF Written
  <2>4. QED
    BY <2>2, <2>3, ServerShape
<1>2. /\ wire[dashboard] \in Stream(Asked) /\ Len(wire[dashboard]) \in Nat
      /\ inbox[dashboard] \in Seq(Asked) /\ Len(inbox[dashboard]) \in Nat
      /\ Len(sent[dashboard]) \in Nat
  <2>1. wire[dashboard] \in Stream(Asked) /\ inbox[dashboard] \in Seq(Asked)
        /\ sent[dashboard] \in Seq(Asked)
    BY DEF SentInv, PlainInv
  <2>2. QED
    BY <2>1, ElementsOf, StreamFacts
<1>3. CASE Client!Server!Data(dashboard)
  <2>1. PICK k \in 1..Len(wire[dashboard]) :
          Client!Server!Receive(dashboard, k) \/ Client!Server!ReceiveMalformed(dashboard, k)
    BY <1>3 DEF Client!Server!Data
  <2> DEFINE w == wire[dashboard]
             chunk == SubSeq(w, 1, k)
             left == SubSeq(w, k + 1, Len(w))
  <2>2. k \in 1..Len(w)
    OBVIOUS
  <2>3. /\ chunk \in Stream(Asked) /\ Len(chunk) = k /\ \A i \in 1..Len(chunk) : chunk[i].size = 1
        /\ Len(left) = Len(w) - k /\ \A i \in 1..Len(left) : left[i].size = 1
    <3>1. w \in Seq([body : Asked, size : Nat]) /\ Len(w) \in Nat
      BY <1>2, StreamFacts
    <3>2. \A i \in 1..Len(w) : w[i].size = 1
      BY DEF PlainInv
    <3>3. chunk \in Stream(Asked)
      BY <1>2, StreamCut
    <3> DEFINE U == [body : Asked, size : Nat]
    <3> HIDE DEF U, w
    <3>4. w \in Seq(U)
      BY <3>1 DEF U
    <3>5. Len(chunk) = k /\ \A i \in 1..k : chunk[i] = w[i]
      BY <2>2, <3>4
    <3>6. Len(left) = Len(w) - k /\ \A i \in 1..(Len(w) - k) : left[i] = w[k + i]
      BY <2>2, <3>4
    <3>7. \A i \in 1..k : i \in 1..Len(w)
      BY <2>2, <3>1
    <3>8. \A i \in 1..(Len(w) - k) : k + i \in 1..Len(w)
      BY <2>2, <3>1
    <3>9. QED
      BY <3>2, <3>3, <3>5, <3>6, <3>7, <3>8
  <2>4. Client!Server!Received(dashboard, k) = chunk
    <3>1. <<>> \o chunk = chunk
      BY <2>3, ConcatEmptySeq DEF Stream
    <3>2. QED
      BY <3>1 DEF Client!Server!Received, PlainInv
  <2>5. wire' = [wire EXCEPT ![dashboard] = left] /\ inbox[dashboard] = <<>>
    BY <2>1 DEF Client!Server!Receive, Client!Server!ReceiveMalformed, Client!Server!TakeChunk,
       Client!Server!Idle
  <2>6. wire'[dashboard] = left
    BY <2>5 DEF SentInv
  <2> HIDE DEF w, chunk, left
  <2>7. Rest(chunk) = <<>> /\ Messages(chunk) \in Seq(Asked) /\ Len(Messages(chunk)) = k
    BY <2>3, UnitsDecoded
  <2>8. ~Client!Server!ReceiveMalformed(dashboard, k)
    BY <2>4, <2>7, SameServerFraming
       DEF Client!Server!ReceiveMalformed, Client!Server!IsMalformed
  <2>9. /\ inbox' = [inbox EXCEPT ![dashboard] = Messages(chunk)]
        /\ buffer' = [buffer EXCEPT ![dashboard] = <<>>] /\ answers' = answers
    BY <2>1, <2>4, <2>7, <2>8, SameServerFraming
       DEF Client!Server!Receive, Client!Server!TakeChunk
  <2>10. inbox' \in [{dashboard} -> Seq(Asked)] /\ inbox'[dashboard] = Messages(chunk)
    BY <2>7, <2>9 DEF PlainInv
  <2>11. buffer' = [s \in {dashboard} |-> <<>>]
    BY <2>9 DEF PlainInv
  <2>12. Len(left) + Len(Messages(chunk)) + Written' =< Len(sent'[dashboard]) + 1
    <3>1. Len(w) + 0 + Written =< Len(sent[dashboard]) + 1
      <4>1. Len(inbox[dashboard]) = 0
        BY <2>5
      <4>2. QED
        BY <4>1 DEF PlainInv, w
    <3>2. k \in Nat /\ Len(w) \in Nat
      BY <1>2, <2>2 DEF w
    <3>3. QED
      BY <1>1, <1>2, <2>3, <2>7, <2>9, <3>1, <3>2
  <2>13. QED
    BY <2>3, <2>6, <2>10, <2>11, <2>12 DEF PlainInv
<1>4. CASE Client!Server!Route(dashboard)
  <2>1. UNCHANGED <<wire, buffer>>
    BY <1>4 DEF Client!Server!Route, Client!Server!Hello, Client!Server!Login,
       Client!Server!Refuse, Client!Server!Logout, Client!Server!Command, Client!Server!Unknown,
       Client!Server!Poll, Client!Server!Ack, Client!Server!AckUnknown, Client!Server!Fail,
       Client!Server!streams
  <2>2. /\ inbox[dashboard] # <<>>
        /\ \/ inbox' = [inbox EXCEPT ![dashboard] = Tail(@)]
           \/ inbox' = [inbox EXCEPT ![dashboard] = <<>>]
    BY <1>4 DEF Client!Server!Route, Client!Server!Hello, Client!Server!Login,
       Client!Server!Refuse, Client!Server!Logout, Client!Server!Command, Client!Server!Unknown,
       Client!Server!Poll, Client!Server!Ack, Client!Server!AckUnknown, Client!Server!Fail,
       Client!Server!PopInbox, Client!Server!IsNext
  <2>3. /\ Len(inbox[dashboard]) > 0 /\ Tail(inbox[dashboard]) \in Seq(Asked)
        /\ Len(Tail(inbox[dashboard])) = Len(inbox[dashboard]) - 1
        /\ <<>> \in Seq(Asked) /\ Len(<<>>) = 0
    BY <1>2, <2>2
  <2>4. /\ inbox' \in [{dashboard} -> Seq(Asked)] /\ Len(inbox'[dashboard]) \in Nat
        /\ Len(inbox'[dashboard]) =< Len(inbox[dashboard]) - 1
    <3>1. CASE inbox' = [inbox EXCEPT ![dashboard] = Tail(@)]
      <4>1. inbox' \in [{dashboard} -> Seq(Asked)] /\ inbox'[dashboard] = Tail(inbox[dashboard])
        BY <2>3, <3>1 DEF PlainInv
      <4>2. QED
        BY <1>2, <2>3, <4>1
    <3>2. CASE inbox' = [inbox EXCEPT ![dashboard] = <<>>]
      <4>1. inbox' \in [{dashboard} -> Seq(Asked)] /\ inbox'[dashboard] = <<>>
        BY <2>3, <3>2 DEF PlainInv
      <4>2. QED
        BY <1>2, <2>3, <4>1
    <3>3. QED
      BY <2>2, <3>1, <3>2
  <2>5. Len(wire[dashboard]) + Len(inbox'[dashboard]) + Written' =< Len(sent[dashboard]) + 1
    <3>1. Len(wire[dashboard]) + Len(inbox[dashboard]) + Written =< Len(sent[dashboard]) + 1
      BY DEF PlainInv
    <3>2. Written \in Nat /\ Written' \in Nat /\ Written' =< Written + 1
      BY <1>1
    <3>3. /\ Len(wire[dashboard]) \in Nat /\ Len(inbox[dashboard]) \in Nat
          /\ Len(sent[dashboard]) \in Nat
      BY <1>2
    <3>4. Len(inbox'[dashboard]) \in Nat /\ Len(inbox'[dashboard]) =< Len(inbox[dashboard]) - 1
      BY <2>4
    <3>5. QED
      BY <3>1, <3>2, <3>3, <3>4, StillBalanced, ZenonT(30)
  <2>6. QED
    BY <1>1, <2>1, <2>4, <2>5 DEF PlainInv
<1>5. QED
  BY <1>3, <1>4 DEF Client!ServerStep

\* The script, by what kind of request it is for.
LEMMA ScriptFacts ==
  ASSUME request \in Requests, accepted \in BOOLEAN, Client!IsHello => ~autoLogin
  PROVE  /\ Len(Script) \in 0..2 /\ Client!ExpectedFrames = Len(Script) + 1
         /\ \A n \in 1..Len(Script) : Client!Writes(n) = <<Script[n]>> /\ Script[n] \in Asked
         /\ Client!Writes(Len(Script) + 1) = <<>>
         /\ \A n \in 1..Len(Script) : Client!FrameType(n) = "command" => Script[n] = request
<1>1. Client!LoginMessage \in Asked /\ request \in Asked
  BY DEF Client!LoginMessage, Client!Logins, Asked
<1>2. CASE Client!IsHello
  <2>1. Script = <<>> /\ Len(Script) = 0 /\ Client!ExpectedFrames = 1 /\ ~autoLogin
    BY <1>2 DEF Script, Client!ExpectedFrames
  <2>2. Client!Writes(1) = <<>>
    BY <1>2, <2>1 DEF Client!Writes
  <2>3. QED
    BY <2>1, <2>2
<1>3. CASE ~Client!IsHello /\ ~autoLogin
  <2>1. Script = <<request>> /\ Len(Script) = 1 /\ Client!ExpectedFrames = 2
    BY <1>3 DEF Script, Client!ExpectedFrames
  <2>2. Client!Writes(1) = <<request>> /\ Client!Writes(2) = <<>>
    BY <1>3 DEF Client!Writes
  <2>3. Script[1] = request /\ \A n \in 1..Len(Script) : n = 1
    BY <2>1
  <2>4. QED
    BY <1>1, <2>1, <2>2, <2>3
<1>4. CASE ~Client!IsHello /\ autoLogin
  <2>1. /\ Script = <<Client!LoginMessage, request>> /\ Len(Script) = 2
        /\ Client!ExpectedFrames = 3
    BY <1>4 DEF Script, Client!ExpectedFrames
  <2>2. /\ Client!Writes(1) = <<Client!LoginMessage>> /\ Client!Writes(2) = <<request>>
        /\ Client!Writes(3) = <<>>
    BY <1>4 DEF Client!Writes
  <2>3. /\ Script[1] = Client!LoginMessage /\ Script[2] = request
        /\ \A n \in 1..Len(Script) : n = 1 \/ n = 2
    BY <2>1
  <2>4. Client!FrameType(1) = "login"
    BY <1>4 DEF Client!FrameType
  <2>5. QED
    BY <1>1, <2>1, <2>2, <2>3, <2>4
<1>5. QED
  BY <1>2, <1>3, <1>4

LEMMA ChunkUnsplit ==
  ASSUME AnswerSize = 1, TranscriptInv, SentInv, PlainInv, ScriptInv,
         NEW k \in 1..(Len(Client!Downlink) - read), Client!ClientData(k)
  PROVE  PlainInv' /\ ScriptInv'
<1> DEFINE n == Len(frames')
           now == sent[dashboard]
<1>1. /\ n = Len(Messages(Got(Written, read + k))) /\ Client!Write(Client!Writes(n))
      /\ outcome = "open" /\ read' = read + k
      /\ outcome' = IF n >= Client!ExpectedFrames THEN "resolved" ELSE "open"
      /\ UNCHANGED <<request, autoLogin, accepted, buffer, inbox, answers>>
  <2>1. AnswerSize \in Nat \ {0}
    OBVIOUS
  <2>2. n = Len(Messages(Got(Written, read + k)))
    BY <2>1, ChunkTranscript
  <2>3. QED
    BY <2>2 DEF Client!ClientData, Client!IsOpen
<1>2. Written \in Nat /\ read \in Nat /\ Len(Client!Downlink) = Written /\ k \in 1..(Written - read)
  <2>1. Written \in Nat /\ read \in 0..Len(Back(Written)) /\ Client!Downlink = Back(Written)
    BY AppendFacts, SameDownlink DEF TranscriptInv, Written
  <2>2. 0 \in 0..Written
    BY <2>1
  <2>3. Len(Back(Written)) = Written
    BY <2>1, <2>2, UnsplitGot
  <2>4. QED
    BY <2>1, <2>3
<1>3. n = read + k
  <2>1. read + k \in 0..Written
    BY <1>2
  <2>2. QED
    BY <1>1, <1>2, <2>1, UnsplitGot
<1>4. /\ now \in Seq(Asked) /\ Len(now) \in Nat /\ Len(now) = read
      /\ Len(wire[dashboard]) \in Nat /\ Len(inbox[dashboard]) \in Nat
      /\ Len(wire[dashboard]) + Len(inbox[dashboard]) + Written =< Len(now) + 1
  <2>1. now \in Seq(Asked) /\ wire[dashboard] \in Stream(Asked) /\ inbox[dashboard] \in Seq(Asked)
    BY DEF SentInv, PlainInv
  <2>2. Len(now) \in Nat /\ Len(wire[dashboard]) \in Nat /\ Len(inbox[dashboard]) \in Nat
    BY <2>1, ElementsOf, StreamFacts
  <2>3. Len(now) = read
    BY <1>1 DEF ScriptInv
  <2>4. Len(wire[dashboard]) + Len(inbox[dashboard]) + Written =< Len(now) + 1
    BY DEF PlainInv
  <2>5. QED
    BY <2>1, <2>2, <2>3, <2>4
<1>5. /\ k = 1 /\ n = Len(now) + 1 /\ read' = Len(now) + 1 /\ Written = Len(now) + 1
      /\ Len(wire[dashboard]) = 0 /\ Len(inbox[dashboard]) = 0
  <2>1. /\ Written =< Len(now) + 1
        /\ Written = Len(now) + 1 => Len(wire[dashboard]) = 0 /\ Len(inbox[dashboard]) = 0
    BY <1>2, <1>4, AllAnswered, ZenonT(30)
  <2> DEFINE l == Len(now)
  <2>2. l \in Nat /\ l = read /\ Written =< l + 1
    BY <1>4, <2>1
  <2> HIDE DEF l
  <2>3. k = 1 /\ Written = l + 1 /\ read + k = l + 1
    BY <1>2, <2>2
  <2>4. QED
    BY <1>1, <1>3, <2>1, <2>3 DEF l
<1>6. /\ Len(Script) \in 0..2 /\ Client!ExpectedFrames = Len(Script) + 1
      /\ \A i \in 1..Len(Script) : Client!Writes(i) = <<Script[i]>> /\ Script[i] \in Asked
      /\ Client!Writes(Len(Script) + 1) = <<>>
      /\ Len(now) =< Len(Script) /\ \A i \in 1..Len(now) : now[i] = Script[i]
      /\ (Client!IsHello => ~autoLogin)
  BY ScriptFacts DEF SentInv, ScriptInv
<1>7. Script' = Script /\ Client!IsHello' = Client!IsHello /\ Written' = Written
  BY <1>1 DEF Script, Client!IsHello, Client!LoginMessage, Written
<1> HIDE DEF n, now
<1>8. CASE Len(now) = Len(Script)
  <2>1. Client!Writes(n) = <<>> /\ outcome' = "resolved"
    BY <1>1, <1>4, <1>5, <1>6, <1>8
  <2>2. sent' = sent /\ wire' = wire
    BY <1>1, <2>1, WriteNothing
  <2>3. PlainInv'
    BY <1>1, <1>7, <2>2 DEF PlainInv
  <2>4. ScriptInv'
    BY <1>1, <1>6, <1>7, <2>1, <2>2 DEF ScriptInv, now
  <2>5. QED
    BY <2>3, <2>4
<1>9. CASE Len(now) < Len(Script)
  <2> DEFINE m == Script[n]
  <2>1. n \in 1..Len(Script) /\ n = Len(now) + 1
    BY <1>4, <1>5, <1>6, <1>9
  <2>2. Client!Writes(n) = <<m>> /\ m \in Asked
    BY <1>6, <2>1
  <2> HIDE DEF m
  <2>3. /\ sent' = [sent EXCEPT ![dashboard] = Append(@, m)]
        /\ wire' = [wire EXCEPT ![dashboard] = @ \o <<UnitOf(m)>>]
    BY <1>1, <2>2, WriteOne
  <2>4. sent'[dashboard] = Append(now, m) /\ wire'[dashboard] = wire[dashboard] \o <<UnitOf(m)>>
    BY <2>3 DEF SentInv, now
  <2>5. /\ Len(sent'[dashboard]) = Len(now) + 1
        /\ \A i \in 1..Len(now) : sent'[dashboard][i] = now[i]
        /\ sent'[dashboard][Len(now) + 1] = m
    BY <1>4, <2>2, <2>4
  <2>6. /\ Len(wire'[dashboard]) = Len(wire[dashboard]) + 1
        /\ \A i \in 1..Len(wire'[dashboard]) : wire'[dashboard][i].size = 1
    <3> DEFINE U == [body : Asked, size : Nat]
               u == UnitOf(m)
               w == wire[dashboard]
    <3>1. w \in Seq(U) /\ u \in U /\ u.size = 1 /\ \A i \in 1..Len(w) : w[i].size = 1
      BY <2>2 DEF SentInv, PlainInv, Stream, UnitOf
    <3> HIDE DEF U, u
    <3>2. /\ Len(w \o <<u>>) = Len(w) + 1 /\ (w \o <<u>>)[Len(w) + 1] = u
          /\ \A i \in 1..Len(w) : (w \o <<u>>)[i] = w[i]
      BY <3>1, OneMore
    <3>3. \A i \in 1..(Len(w) + 1) : i \in 1..Len(w) \/ i = Len(w) + 1
      BY <1>4
    <3>4. wire'[dashboard] = w \o <<u>>
      BY <2>4 DEF u
    <3>5. QED
      BY <3>1, <3>2, <3>3, <3>4
  <2>7. Len(wire'[dashboard]) + Len(inbox'[dashboard]) + Written' =< Len(sent'[dashboard]) + 1
    <3>1. inbox'[dashboard] = inbox[dashboard] /\ Written' = Len(now) + 1
      BY <1>1, <1>5, <1>7
    <3>2. Len(wire'[dashboard]) = 1 /\ Len(inbox'[dashboard]) = 0
      BY <1>5, <2>6, <3>1
    <3>3. 1 + 0 + (Len(now) + 1) =< (Len(now) + 1) + 1
      BY <1>4
    <3>4. QED
      BY <2>5, <3>1, <3>2, <3>3
  <2>8. PlainInv'
    BY <1>1, <2>6, <2>7 DEF PlainInv
  <2>9. \A i \in 1..Len(sent'[dashboard]) : sent'[dashboard][i] = Script[i]
    <3>1. \A i \in 1..(Len(now) + 1) : i \in 1..Len(now) \/ i = Len(now) + 1
      BY <1>4
    <3>2. QED
      BY <1>6, <2>1, <2>5, <3>1 DEF m
  <2>10. Len(sent'[dashboard]) =< Len(Script) /\ Len(sent'[dashboard]) = read'
    BY <1>4, <1>5, <1>6, <1>9, <2>5
  <2>11. ScriptInv'
    BY <1>1, <1>6, <1>7, <2>9, <2>10 DEF ScriptInv
  <2>12. QED
    BY <2>8, <2>11
<1>10. QED
  BY <1>4, <1>6, <1>8, <1>9

LEMMA InitUnsplit ==
  ASSUME Client!Init
  PROVE  PlainInv /\ ScriptInv
<1>1. /\ sent = [s \in {dashboard} |-> <<>>] /\ wire = [s \in {dashboard} |-> <<>>]
      /\ buffer = [s \in {dashboard} |-> <<>>] /\ inbox = [s \in {dashboard} |-> <<>>]
      /\ answers = [s \in {dashboard} |-> <<Client!Server!AnswerOf("greeting", None, None)>>]
      /\ read = 0 /\ (Client!IsHello => ~autoLogin)
      /\ request \in Requests /\ accepted \in BOOLEAN
  BY DEF Client!Init, Client!Server!Init
<1>2. /\ sent[dashboard] = <<>> /\ wire[dashboard] = <<>> /\ inbox[dashboard] = <<>>
      /\ Written = 1 /\ Len(<<>>) = 0 /\ <<>> \in Seq(Asked)
  BY <1>1 DEF Written
<1>3. inbox \in [{dashboard} -> Seq(Asked)]
  BY <1>1, <1>2
<1>4. PlainInv
  BY <1>1, <1>2, <1>3 DEF PlainInv
<1>5. Len(Script) \in 0..2
  BY <1>1, ScriptFacts
<1>6. ScriptInv
  BY <1>1, <1>2, <1>5 DEF ScriptInv
<1>7. QED
  BY <1>4, <1>6

LEMMA NextUnsplit ==
  ASSUME AnswerSize = 1, TranscriptInv, SentInv, PlainInv, ScriptInv, [Client!Next]_Client!vars
  PROVE  PlainInv' /\ ScriptInv'
<1>1. ASSUME UNCHANGED <<sent, request, autoLogin, accepted, read>>,
             outcome' # "open" \/ outcome' = outcome
      PROVE  ScriptInv'
  BY <1>1 DEF ScriptInv, Script, Client!IsHello, Client!LoginMessage
<1>2. CASE Client!Timeout \/ Client!SocketError
  <2>1. Client!Reject
    BY <1>2 DEF Client!Timeout, Client!SocketError
  <2>2. ScriptInv'
    BY <1>1, <2>1 DEF Client!Reject, Client!server
  <2>3. PlainInv'
    BY <2>1 DEF Client!Reject, Client!server, PlainInv, Written
  <2>4. QED
    BY <2>2, <2>3
<1>3. CASE UNCHANGED Client!vars
  <2>1. ScriptInv'
    BY <1>1, <1>3 DEF Client!vars, Client!server, Client!client
  <2>2. PlainInv'
    BY <1>3 DEF Client!vars, Client!server, PlainInv, Written
  <2>3. QED
    BY <2>1, <2>2
<1>4. CASE Client!ServerStep
  <2>1. ScriptInv'
    BY <1>1, <1>4, ServerShape DEF Client!client
  <2>2. QED
    BY <1>4, <2>1, ServerPlain
<1>5. QED
  BY <1>2, <1>3, <1>4, ChunkUnsplit DEF Client!Next

\* An answer that arrives in one piece is never mistaken: while TCP splits none, the
\* client sends one message on each answer and waits, so the frame it types "command"
\* answers the user's request.  What CommandFrameAnswersRequest fails on is a split
\* answer, and nothing else.
THEOREM UnsplitAnswersAreMatched ==
  ASSUME AnswerSize = 1
  PROVE  Client!Spec => []Client!CommandFrameAnswersRequest
<1>1. AnswerSize \in Nat \ {0}
  OBVIOUS
<1>2. Client!Init => TranscriptInv /\ SentInv /\ PlainInv /\ ScriptInv
  BY <1>1, InitTranscript, InitSent, InitUnsplit
<1>3. TranscriptInv /\ SentInv /\ PlainInv /\ ScriptInv /\ [Client!Next]_Client!vars
        => TranscriptInv' /\ SentInv' /\ PlainInv' /\ ScriptInv'
  BY <1>1, NextTranscript, NextSent, NextUnsplit
<1>4. ASSUME TranscriptInv, SentInv, PlainInv, ScriptInv, NEW i \in 1..Len(frames),
             frames[i].type = "command"
      PROVE  sent[dashboard][frames[i].answer - 1] = request
  <2>1. Written \in Nat /\ read \in 0..Len(Back(Written))
    BY <1>4, AppendFacts DEF TranscriptInv, Written
  <2>2. Len(Back(Written)) = Written
    <3>1. 0 \in 0..Written
      BY <2>1
    <3>2. QED
      BY <2>1, <3>1, UnsplitGot
  <2>3. Len(frames) = read
    <3>1. read \in 0..Written
      BY <2>1, <2>2
    <3>2. Len(FramesRead) = read
      BY <2>1, <3>1, UnsplitGot DEF FramesRead
    <3>3. QED
      BY <1>4, <3>2 DEF TranscriptInv
  <2>4. frames[i].answer = i /\ Client!FrameType(i - 1) = "command" /\ i \in 1..read
    BY <1>4, <2>3 DEF TranscriptInv
  <2>5. i # 1
    BY <2>4 DEF Client!FrameType
  <2>6. Written =< Len(sent[dashboard]) + 1 /\ Len(sent[dashboard]) \in Nat
    <3>1. sent[dashboard] \in Seq(Asked) /\ wire[dashboard] \in Stream(Asked)
          /\ inbox[dashboard] \in Seq(Asked)
      BY <1>4 DEF SentInv, PlainInv
    <3>2. Len(sent[dashboard]) \in Nat /\ Len(wire[dashboard]) \in Nat
          /\ Len(inbox[dashboard]) \in Nat
      BY <3>1, ElementsOf, StreamFacts
    <3>3. QED
      BY <1>4, <2>1, <3>2 DEF PlainInv
  <2>7. i - 1 \in 1..Len(sent[dashboard])
    BY <2>1, <2>2, <2>4, <2>5, <2>6
  <2>8. /\ sent[dashboard][i - 1] = Script[i - 1] /\ i - 1 \in 1..Len(Script)
        /\ \A n \in 1..Len(Script) : Client!FrameType(n) = "command" => Script[n] = request
    <3>1. Len(Script) \in 0..2
      BY <1>4, ScriptFacts DEF SentInv, ScriptInv
    <3>2. Len(sent[dashboard]) =< Len(Script)
          /\ \A n \in 1..Len(sent[dashboard]) : sent[dashboard][n] = Script[n]
      BY <1>4 DEF ScriptInv
    <3>3. \A n \in 1..Len(Script) : Client!FrameType(n) = "command" => Script[n] = request
      BY <1>4, ScriptFacts DEF SentInv, ScriptInv
    <3>4. QED
      BY <2>6, <2>7, <3>1, <3>2, <3>3
  <2>9. QED
    BY <2>4, <2>8
<1>5. TranscriptInv /\ SentInv /\ PlainInv /\ ScriptInv => Client!CommandFrameAnswersRequest
  BY <1>4 DEF Client!CommandFrameAnswersRequest
<1>6. QED
  BY <1>2, <1>3, <1>5, PTL DEF Client!Spec
===============================================================================
