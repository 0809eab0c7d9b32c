------------------------------- MODULE EppClient ------------------------------
(***************************************************************************)
(* The dashboard's EPP client, connected to the server of EppSession: it   *)
(* waits for the greeting, logs in when asked to, sends the user's one     *)
(* request, and settles its promise with all frames, an error or a         *)
(* timeout.  Answers travel back as a byte stream of their own, which TCP  *)
(* may cut anywhere.                                                       *)
(***************************************************************************)
EXTENDS EppFraming, FiniteSets, SequencesExt

CONSTANTS
  dashboard,        \* the connection
  user,             \* the registrar the client logs in as
  None,
  Requests,         \* messages the user may want to send
  AnswerSize        \* units of one answer on the way back

\* An answer is never empty.
ASSUME AnswerAssumption == AnswerSize \in Nat \ {0}

VARIABLES sent, wire, buffer, inbox, session, answers, queues, posted

VARIABLES
  request,          \* the user's message
  autoLogin,        \* whether to log in first
  accepted,         \* whether the server will accept that login
  read,             \* units of the answers received so far
  backlog,          \* the client's decoder buffer
  frames,           \* the frames of the result: [type, answer]
  outcome           \* of the promise: "open", "resolved" or "rejected"

server == <<sent, wire, buffer, inbox, session, answers, queues, posted>>
client == <<request, autoLogin, accepted, read, backlog, frames, outcome>>
vars == <<server, client>>

Logins == [op : {"login"}, clid : {user}, valid : BOOLEAN, id : {None}]

\* What the client sends, and when, is decided here; of EppSession's open clients
\* it is one that sends these frames, never more than one per unit it has read.
Server == INSTANCE EppSession WITH
  Sessions <- {dashboard}, Registrars <- {user},
  Frames <- [body : Requests \cup Logins, size : {1}],
  MaxFrames <- 3 * AnswerSize, MaxPosted <- 0

-------------------------------------------------------------------------------
IsHello == request.op = "hello"

ExpectedFrames == IF IsHello THEN 1 ELSE IF autoLogin THEN 3 ELSE 2

LoginMessage == [op |-> "login", clid |-> user, valid |-> accepted, id |-> None]

\* The answers as units on their way back, each naming the answer by its number.
Downlink == FlattenSeq([i \in 1..Len(answers[dashboard]) |-> Encode(i, AnswerSize)])

FrameType(index) ==
  CASE index = 0 -> "greeting"
    [] autoLogin /\ index = 1 -> "login"
    [] OTHER -> "command"

Typed(numbers) ==
  [i \in 1..Len(numbers) |->
     [type |-> FrameType(Len(frames) + i - 1), answer |-> numbers[i]]]

\* What a data event writes depends on how many frames there are by now, also
\* when its chunk completed none.
Writes(count) ==
  IF ~IsHello /\ count = 1 THEN <<IF autoLogin THEN LoginMessage ELSE request>>
  ELSE IF autoLogin /\ count = 2 THEN <<request>>
  ELSE <<>>

Write(messages) ==
  /\ sent' = [sent EXCEPT ![dashboard] = @ \o messages]
  /\ wire' = [wire EXCEPT ![dashboard] =
                @ \o [i \in 1..Len(messages) |-> [body |-> messages[i], size |-> 1]]]

IsOpen == outcome = "open"

ClientData(k) ==
  /\ Server!Idle
  /\ IsOpen
  /\ read + k =< Len(Downlink)
  /\ LET received == backlog \o SubSeq(Downlink, read + 1, read + k)
         all      == frames \o Typed(Messages(received))
     IN  /\ backlog' = Rest(received)
         /\ frames' = all
         /\ Write(Writes(Len(all)))
         /\ outcome' = IF Len(all) >= ExpectedFrames THEN "resolved" ELSE "open"
  /\ read' = read + k
  /\ UNCHANGED <<request, autoLogin, accepted>>
  /\ UNCHANGED <<buffer, inbox, session, answers, queues, posted>>

Reject ==
  /\ outcome' = "rejected"
  /\ UNCHANGED <<server, request, autoLogin, accepted, read, backlog, frames>>

\* Mutant: the first data already disarms the timer.
TimeoutBeforeData == Server!Idle /\ outcome = "open" /\ read = 0 /\ Reject

Timeout == Server!Idle /\ outcome = "open" /\ Reject

SocketError == Server!Idle /\ outcome = "open" /\ Reject

ServerStep ==
  /\ Server!Data(dashboard) \/ Server!Route(dashboard)
  /\ UNCHANGED client

-------------------------------------------------------------------------------
Init ==
  /\ Server!Init
  /\ request \in Requests
  /\ autoLogin \in BOOLEAN
  /\ IsHello => ~autoLogin
  /\ accepted \in BOOLEAN
  /\ read = 0
  /\ backlog = <<>>
  /\ frames = <<>>
  /\ outcome = "open"

Next ==
  \/ \E k \in 1..(Len(Downlink) - read) : ClientData(k)
  \/ Timeout
  \/ SocketError
  \/ ServerStep

\* The timer fires, and the routing of a chunk ends; nothing else is promised,
\* least of all that the server's bytes arrive.
Spec ==
  /\ Init /\ [][Next]_vars
  /\ WF_vars(Timeout)
  /\ WF_vars(Server!Route(dashboard) /\ UNCHANGED client)

-------------------------------------------------------------------------------
(* Properties.                                                             *)

\* However the answers are cut and batched, the result lists them all from the
\* greeting on, each once and in the server's order.
ResultIsTheTranscript ==
  /\ \A i \in 1..Len(frames) : frames[i].answer = i
  /\ outcome = "resolved" => Len(frames) >= ExpectedFrames

\* Towards the server the client is one of those that EppSession leaves open, so
\* what holds for any client there holds for the dashboard's.
ImplementsOpenClient == Server!Spec

\* Every request settles, whatever the server and the network do: the timer is only
\* cleared by what settles it.
RequestSettles == <>(outcome # "open")

-------------------------------------------------------------------------------
(* What the source says, and the code does not ensure.                     *)

\* frameType calls the frame after the login's answer "command"
\* (src/src/epp/eppClient.ts:126): it answers the user's request.
CommandFrameAnswersRequest ==
  outcome = "resolved" =>
    \A i \in 1..Len(frames) : frames[i].type = "command" =>
      sent[dashboard][frames[i].answer - 1] = request
===============================================================================
