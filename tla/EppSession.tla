------------------------------ MODULE EppSession ------------------------------
(***************************************************************************)
(* EPP connections to the server: the frame decoder, the loop over the     *)
(* frames of one chunk, the router's login gate, the session state, and    *)
(* the poll queues that sessions of one registrar share.                   *)
(*                                                                         *)
(* A socket's data event decodes its chunk and then routes the decoded     *)
(* frames one after the other.  No await on the way waits for anything but *)
(* settled promises, so no other event runs before the last frame of the   *)
(* chunk is answered.  What the clients send is left open: they pipeline,  *)
(* log in again, send XML that does not parse and lengths that no frame    *)
(* can have.                                                               *)
(***************************************************************************)
EXTENDS EppFraming, FiniteSets, SequencesExt

CONSTANTS
  Sessions,         \* connections
  Registrars,       \* client identifiers
  Frames,           \* the frames clients send: [body: Message, size: Nat]
  None,             \* no registrar, no poll message
  MaxFrames,        \* bound: frames sent on all connections together
  MaxPosted         \* bound: poll messages posted

Ids == 1..MaxPosted

Message ==
  [op    : {"hello", "login", "logout", "poll", "ack", "command", "unknown", "garbage"},
   clid  : Registrars \cup {None},      \* login: as whom
   valid : BOOLEAN,                     \* login: whether every check accepts it
   id    : Ids \cup {None}]             \* ack: of which message

Codes ==
  {"greeting", "loggedIn", "refused", "ended", "unauthorized", "unknown",
   "failed", "malformed", "done", "message", "noMessages", "acked"}

Answer == [code : Codes, clid : Registrars \cup {None}, id : Ids \cup {None}]

\* A login that is accepted names a registrar: one of the configured users.
ASSUME FrameAssumption ==
  /\ Frames \subseteq [body : Message, size : Nat]
  /\ \A frame \in Frames :
       frame.body.op = "login" /\ frame.body.valid => frame.body.clid # None

ASSUME NoneAssumption == None \notin Registrars \cup Ids

ASSUME BoundAssumption == MaxFrames \in Nat /\ MaxPosted \in Nat

VARIABLES
  sent,             \* per connection, the messages its client has sent
  wire,             \* per connection, the units not yet received
  buffer,           \* per connection, the decoder's buffer
  inbox,            \* per connection, decoded messages of the current chunk
  session,          \* per connection, the session
  answers,          \* per connection, the answers written, greeting first
  queues,           \* per registrar, the identifiers of its poll messages
  posted            \* how many poll messages were ever posted

streams == <<sent, wire, buffer>>
vars == <<sent, wire, buffer, inbox, session, answers, queues, posted>>

AnswerOf(code, clid, id) == [code |-> code, clid |-> clid, id |-> id]

Reply(s, code) == answers' = [answers EXCEPT ![s] = Append(@, AnswerOf(code, None, None))]

ReplyAs(s, code, clid, id) ==
  answers' = [answers EXCEPT ![s] = Append(@, AnswerOf(code, clid, id))]

\* Between two data events no decoded message is left to route.
Idle == \A s \in Sessions : inbox[s] = <<>>

-------------------------------------------------------------------------------
(* The network: a chunk is any part of what was sent and not yet received. *)

Received(s, k) == buffer[s] \o SubSeq(wire[s], 1, k)

TakeChunk(s, k) ==
  /\ Idle
  /\ wire' = [wire EXCEPT ![s] = SubSeq(@, k + 1, Len(@))]
  /\ buffer' = [buffer EXCEPT ![s] = Rest(Received(s, k))]

\* The frames a chunk completes become the messages to route.
Receive(s, k) ==
  /\ TakeChunk(s, k)
  /\ ~IsMalformed(Received(s, k))
  /\ inbox' = [inbox EXCEPT ![s] = Messages(Received(s, k))]
  /\ UNCHANGED <<sent, session, answers, queues, posted>>

\* Mutant: the decoder starts afresh after a malformed length.
ResyncMalformed(s, k) ==
  /\ Idle
  /\ IsMalformed(Received(s, k))
  /\ wire' = [wire EXCEPT ![s] = SubSeq(@, k + 1, Len(@))]
  /\ buffer' = [buffer EXCEPT ![s] = <<>>]
  /\ Reply(s, "malformed")
  /\ UNCHANGED <<sent, inbox, session, queues, posted>>

\* The decoder throws: one answer, and the frames before the malformed one are
\* lost with it.  The malformed length stays in front of everything to come.
ReceiveMalformed(s, k) ==
  /\ TakeChunk(s, k)
  /\ IsMalformed(Received(s, k))
  /\ Reply(s, "malformed")
  /\ UNCHANGED <<sent, inbox, session, queues, posted>>

-------------------------------------------------------------------------------
(* The router and the handlers it calls.                                   *)

IsNext(s, op) == inbox[s] # <<>> /\ Head(inbox[s]).op = op

PopInbox(s) == inbox' = [inbox EXCEPT ![s] = Tail(@)]

\* Mutant: the gate asks for a client identifier instead of a login in force.
IsKnown(s) == session[s].clid # None

IsLoggedIn(s) == session[s].authenticated

Hello(s) ==
  /\ IsNext(s, "hello")
  /\ PopInbox(s)
  /\ Reply(s, "greeting")
  /\ UNCHANGED <<streams, session, queues, posted>>

\* Mutant: a login forgets to note whose it is.
LoginWithoutClid(s) ==
  /\ IsNext(s, "login")
  /\ PopInbox(s)
  /\ session' = [session EXCEPT ![s].authenticated = Head(inbox[s]).valid]
  /\ Reply(s, "refused")
  /\ UNCHANGED <<streams, queues, posted>>

\* A refused login leaves the session as it was, also one already logged in.
Login(s) ==
  /\ IsNext(s, "login")
  /\ PopInbox(s)
  /\ LET m == Head(inbox[s]) IN
     IF m.valid
       THEN /\ session' = [session EXCEPT ![s] = [authenticated |-> TRUE, clid |-> m.clid]]
            /\ ReplyAs(s, "loggedIn", m.clid, None)
       ELSE /\ UNCHANGED session
            /\ Reply(s, "refused")
  /\ UNCHANGED <<streams, queues, posted>>

\* Every other known command of a session that is not logged in.
Refuse(s) ==
  /\ \E op \in {"logout", "poll", "ack", "command"} : IsNext(s, op)
  /\ ~IsLoggedIn(s)
  /\ PopInbox(s)
  /\ Reply(s, "unauthorized")
  /\ UNCHANGED <<streams, session, queues, posted>>

\* The connection stays open and the client identifier stays on the session.
Logout(s) ==
  /\ IsNext(s, "logout")
  /\ IsLoggedIn(s)
  /\ PopInbox(s)
  /\ session' = [session EXCEPT ![s].authenticated = FALSE]
  /\ Reply(s, "ended")
  /\ UNCHANGED <<streams, queues, posted>>

\* A domain, contact or host command, run for the session's registrar.
Command(s) ==
  /\ IsNext(s, "command")
  /\ IsLoggedIn(s)
  /\ PopInbox(s)
  /\ ReplyAs(s, "done", session[s].clid, None)
  /\ UNCHANGED <<streams, session, queues, posted>>

Unknown(s) ==
  /\ IsNext(s, "unknown")
  /\ PopInbox(s)
  /\ Reply(s, "unknown")
  /\ UNCHANGED <<streams, session, queues, posted>>

\* The message at the head of the queue is shown and left there.
Poll(s) ==
  /\ IsNext(s, "poll")
  /\ IsLoggedIn(s)
  /\ PopInbox(s)
  /\ LET queue == queues[session[s].clid] IN
     IF queue = <<>> THEN Reply(s, "noMessages")
                     ELSE ReplyAs(s, "message", session[s].clid, Head(queue))
  /\ UNCHANGED <<streams, session, queues, posted>>

\* Mutant: an acknowledgement takes the head of the queue, whichever it names.
AckHead(s) ==
  /\ IsNext(s, "ack")
  /\ IsLoggedIn(s)
  /\ queues[session[s].clid] # <<>>
  /\ PopInbox(s)
  /\ queues' = [queues EXCEPT ![session[s].clid] = Tail(@)]
  /\ ReplyAs(s, "acked", session[s].clid, Head(inbox[s]).id)
  /\ UNCHANGED <<streams, session, posted>>

IsQueued(r, id) == \E i \in 1..Len(queues[r]) : queues[r][i] = id

\* An acknowledged message is looked for by its identifier, wherever it stands.
Ack(s) ==
  /\ IsNext(s, "ack")
  /\ IsLoggedIn(s)
  /\ IsQueued(session[s].clid, Head(inbox[s]).id)
  /\ PopInbox(s)
  /\ queues' = [queues EXCEPT ![session[s].clid] = RemoveFirst(@, Head(inbox[s]).id)]
  /\ ReplyAs(s, "acked", session[s].clid, Head(inbox[s]).id)
  /\ UNCHANGED <<streams, session, posted>>

AckUnknown(s) ==
  /\ IsNext(s, "ack")
  /\ IsLoggedIn(s)
  /\ ~IsQueued(session[s].clid, Head(inbox[s]).id)
  /\ PopInbox(s)
  /\ Reply(s, "noMessages")
  /\ UNCHANGED <<streams, session, queues, posted>>

\* XML that does not parse, or a handler that fails on an error it does not
\* know: one answer, and the messages behind it in the chunk are dropped.
Fail(s) ==
  /\ IsNext(s, "garbage") \/ (IsNext(s, "command") /\ IsLoggedIn(s))
  /\ inbox' = [inbox EXCEPT ![s] = <<>>]
  /\ Reply(s, "failed")
  /\ UNCHANGED <<streams, session, queues, posted>>

Route(s) ==
  \/ Hello(s) \/ Login(s) \/ Refuse(s) \/ Logout(s) \/ Command(s)
  \/ Unknown(s) \/ Poll(s) \/ Ack(s) \/ AckUnknown(s) \/ Fail(s)

Data(s) ==
  \E k \in 1..Len(wire[s]) : Receive(s, k) \/ ReceiveMalformed(s, k)

-------------------------------------------------------------------------------
(* The clients, and the commands of others that post poll messages.        *)

\* The poll messages some connection has been given.
IsShown(id) ==
  \E s \in Sessions, r \in Registrars :
    \E i \in 1..Len(answers[s]) : answers[s][i] = AnswerOf("message", r, id)

SentFrames == SumFunction([s \in Sessions |-> Len(sent[s])])

\* Identifiers are random: a client can only acknowledge what was shown.
Send(s, frame) ==
  /\ Idle
  /\ SentFrames < MaxFrames
  /\ frame.body.op = "ack" => IsShown(frame.body.id)
  /\ sent' = [sent EXCEPT ![s] = Append(@, frame.body)]
  /\ wire' = [wire EXCEPT ![s] = @ \o Encode(frame.body, frame.size)]
  /\ UNCHANGED <<buffer, inbox, session, answers, queues, posted>>

Post(r) ==
  /\ Idle
  /\ posted < MaxPosted
  /\ posted' = posted + 1
  /\ queues' = [queues EXCEPT ![r] = Append(@, posted + 1)]
  /\ UNCHANGED <<streams, inbox, session, answers>>

-------------------------------------------------------------------------------
Init ==
  /\ sent = [s \in Sessions |-> <<>>]
  /\ wire = [s \in Sessions |-> <<>>]
  /\ buffer = [s \in Sessions |-> <<>>]
  /\ inbox = [s \in Sessions |-> <<>>]
  /\ session = [s \in Sessions |-> [authenticated |-> FALSE, clid |-> None]]
  /\ answers = [s \in Sessions |-> <<AnswerOf("greeting", None, None)>>]
  /\ queues = [r \in Registrars |-> <<>>]
  /\ posted = 0

Next ==
  \/ \E s \in Sessions : Data(s) \/ Route(s)
  \/ \E s \in Sessions, frame \in Frames : Send(s, frame)
  \/ \E r \in Registrars : Post(r)

Spec == Init /\ [][Next]_vars

\* The event loop: bytes on the way are delivered, a decoded message is routed.
Fairness == \A s \in Sessions : WF_vars(Data(s)) /\ WF_vars(Route(s))

FairSpec == Spec /\ Fairness

-------------------------------------------------------------------------------
(* Invariants.                                                             *)

TypeOK ==
  /\ sent \in [Sessions -> Seq(Message)]
  /\ wire \in [Sessions -> Seq([body : Message, size : Nat])]
  /\ buffer \in [Sessions -> Seq([body : Message, size : Nat])]
  /\ inbox \in [Sessions -> Seq(Message)]
  /\ session \in [Sessions -> [authenticated : BOOLEAN, clid : Registrars \cup {None}]]
  /\ \A s \in Sessions : session[s].authenticated => session[s].clid # None
  /\ answers \in [Sessions -> Seq(Answer)]
  /\ queues \in [Registrars -> Seq(Ids)]
  /\ posted \in 0..MaxPosted

HasFailed(s) ==
  \E i \in 1..Len(answers[s]) : answers[s][i].code \in {"failed", "malformed"}

InTransit(s) == buffer[s] \o wire[s]

\* However the stream is cut into chunks, and until something on it fails, what
\* is still to be answered is exactly what the client sent behind the frames
\* already answered, in its order: no frame is lost, doubled or overtaken.
FramesInOrder ==
  \A s \in Sessions :
    ~HasFailed(s) /\ ~IsMalformed(InTransit(s)) =>
      inbox[s] \o Messages(InTransit(s)) = SubSeq(sent[s], Len(answers[s]), Len(sent[s]))

EndsLogin(answer) == answer.code \in {"loggedIn", "ended"}

\* Whatever runs for a registrar was preceded on its connection by that
\* registrar's accepted login, with no logout and no other login in between:
\* refused logins and pipelined frames never change whom a session stands for.
RunsAsLoggedIn ==
  \A s \in Sessions : \A i \in 1..Len(answers[s]) :
    answers[s][i].code \in {"done", "message", "acked"} =>
      \E j \in 1..(i - 1) :
        /\ answers[s][j] = AnswerOf("loggedIn", answers[s][i].clid, None)
        /\ \A k \in (j + 1)..(i - 1) : ~EndsLogin(answers[s][k])

\* After a length field no frame can have, the connection runs nothing any more:
\* payload bytes are never taken for a frame, and every chunk is answered 2400.
MalformedRunsNothing ==
  \A s \in Sessions : \A i, j \in 1..Len(answers[s]) :
    answers[s][i].code = "malformed" /\ i < j => answers[s][j].code = "malformed"

-------------------------------------------------------------------------------
(* Action properties and liveness.                                         *)

RemovalStep ==
  \A r \in Registrars : \A id \in Ids :
    IsQueued(r, id) /\ ~IsQueued(r, id)' =>
      \E s \in Sessions : \E i \in 1..Len(answers[s]) :
        answers[s][i] = AnswerOf("message", r, id)

\* A poll message leaves its registrar's queue only after a session logged in as
\* that registrar was shown it, also when sessions poll at the same time and
\* acknowledge the same message twice.
NoMessageLostUnread == [][RemovalStep]_vars

\* Under the event loop's fairness every frame is answered, unless an earlier
\* failure on the connection dropped it.
EveryFrameAnswered ==
  \A s \in Sessions :
    Len(answers[s]) =< Len(sent[s]) ~> HasFailed(s) \/ Len(answers[s]) > Len(sent[s])

===============================================================================
