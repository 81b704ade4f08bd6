------------------------------ MODULE WebChild ------------------------------
(***************************************************************************)
(* Up2webCommPrc, the child process that serves the web server: it accepts *)
(* one connection, reads and answers requests until the client disconnects *)
(* and accepts the next.  The stream has no frames: a read takes whatever  *)
(* waits, and json_loadb wants exactly one object.  What an answer says is *)
(* the matter of LogQueries.  The parent, in Processes, is here what holds *)
(* the mutexes that the child wants; the pump's bridge is what BLE_send    *)
(* writes to.                                                              *)
(***************************************************************************)
EXTENDS Integers, Sequences, SequencesExt, FiniteSetsExt

CONSTANTS
  MaxLinks,     \* bound: connections made
  MaxRequests,  \* bound: requests sent
  Backlog       \* BACKLOG of listen()

ASSUME WebAssumption ==
  /\ MaxLinks \in Nat /\ MaxRequests \in Nat /\ Backlog \in Nat

VARIABLES
  pc,          \* where the child is: "accept", "read", "serve", "asleep" or "dead"
  client_fd,   \* the connection accepted last, closed or not, or 0
  root,        \* the request that was parsed last, by its number, or 0
  links,       \* connections: client's end open, child's end, bytes to the child
  sent,        \* requests sent: their connection and tag
  rest,        \* the client has written half of its last request
  bridge,      \* to BLE_send: "silent", its address unknown, "heard" or "gone"
  patient,     \* history: the client has always waited for its answers
  out          \* requests acted on: answered, or sent on to the pump

web_vars == <<pc, client_fd, root, links, sent, rest, bridge, patient, out>>

Tag == {"TAG_REQSNAP", "TAG_CMDRESETALARM", "TAG_DB", "unknown"}
Piece == [req : 1..MaxRequests, part : {"whole", "head", "tail"}]
Link == [open : BOOLEAN, end : {"queued", "served", "closed"}, inbox : Seq(Piece)]

Put(n, r, part) == [links EXCEPT ![n].inbox = Append(@, [req |-> r, part |-> part])]

WebInit ==
  /\ pc = "accept"
  /\ client_fd = 0
  /\ root = 0
  /\ links = <<>>
  /\ sent = <<>>
  /\ rest = FALSE
  /\ bridge = "silent"
  /\ patient = TRUE
  /\ out = <<>>

-----------------------------------------------------------------------------
\* Faulty forms, named for what goes wrong in them; each shows that one of
\* the properties below can fail.
LeftByPeek(s) == s
AnsweredAlways(tag) == tag \in Tag
AnsweredSnap(tag) == tag = "TAG_REQSNAP"
ClosedForgotten(n) == links
AfterEofRead == "read"

\* A read takes what waits, whole requests or not.
LeftByRead(s) == <<>>

\* json_loadb: one object, nothing before or after it.
OneObject(s) ==
  \/ \E r \in 1..Len(sent) : s = <<[req |-> r, part |-> "whole"]>>
  \/ \E r \in 1..Len(sent) : s = <<[req |-> r, part |-> "head"], [req |-> r, part |-> "tail"]>>

\* The tags whose case writes to the client, an answer or an error.
Answered(tag) == tag \in {"TAG_REQSNAP", "TAG_DB"}

\* close(client_fd)
Closed(n) == [links EXCEPT ![n].end = "closed"]

\* "go to outer while(1) waiting new connection"
AfterEof == "accept"

-----------------------------------------------------------------------------
(***************************************************************************)
(* The client.  Only one connects (comment of the code); it may come back. *)
(***************************************************************************)
Open(n) == n \in 1..Len(links) /\ links[n].open
Expects(r) == sent[r].tag \in {"TAG_REQSNAP", "TAG_DB"}

\* A patient client has one request outstanding at most; one that gets no
\* answer it sends last, and it leaves only when it has all its answers.
MaySend(n) == \A r \in 1..Len(sent) : sent[r].link = n => Expects(r) /\ r \in ToSet(out)
MayLeave(n) == \A r \in 1..Len(sent) : sent[r].link = n /\ Expects(r) => r \in ToSet(out)

Connect ==
  /\ pc # "dead"
  /\ \A n \in 1..Len(links) : ~links[n].open
  /\ Len(links) < MaxLinks
  /\ Cardinality({n \in 1..Len(links) : links[n].end = "queued"}) <= Backlog
  /\ links' = Append(links, [open |-> TRUE, end |-> "queued", inbox |-> <<>>])
  /\ UNCHANGED <<pc, client_fd, root, sent, rest, bridge, out, patient>>

\* A request goes out in one write or in two.
Send(n, tag) ==
  /\ Open(n) /\ links[n].end # "closed"
  /\ ~rest
  /\ Len(sent) < MaxRequests
  /\ sent' = Append(sent, [link |-> n, tag |-> tag])
  /\ \/ links' = Put(n, Len(sent) + 1, "whole") /\ rest' = FALSE
     \/ links' = Put(n, Len(sent) + 1, "head") /\ rest' = TRUE
  /\ patient' = (patient /\ MaySend(n) /\ ~rest')
  /\ UNCHANGED <<pc, client_fd, root, bridge, out>>

SendRest(n) ==
  /\ Open(n) /\ links[n].end # "closed"
  /\ rest
  /\ links' = Put(n, Len(sent), "tail")
  /\ rest' = FALSE
  /\ UNCHANGED <<pc, client_fd, root, sent, bridge, out, patient>>

Disconnect(n) ==
  /\ Open(n)
  /\ links' = [links EXCEPT ![n].open = FALSE]
  /\ rest' = FALSE
  /\ patient' = (patient /\ MayLeave(n))
  /\ UNCHANGED <<pc, client_fd, root, sent, bridge, out>>

\* The parent hears from the pump and learns its address.
UpdatePPmeshAddr ==
  /\ bridge = "silent"
  /\ bridge' = "heard"
  /\ UNCHANGED <<pc, client_fd, root, links, sent, rest, out, patient>>

\* The UART server closes its end.  Before the address is known that makes no
\* difference: nothing is written.
Hangup ==
  /\ bridge = "heard"
  /\ bridge' = "gone"
  /\ UNCHANGED <<pc, client_fd, root, links, sent, rest, out, patient>>

-----------------------------------------------------------------------------
(***************************************************************************)
(* The child.                                                              *)
(***************************************************************************)
Accept ==
  /\ pc = "accept"
  /\ LET queued == {n \in 1..Len(links) : links[n].end = "queued"}
     IN  /\ queued # {}
         /\ client_fd' = Min(queued)
         /\ links' = [links EXCEPT ![Min(queued)].end = "served"]
  /\ pc' = "read"
  /\ UNCHANGED <<root, sent, rest, bridge, out, patient>>

\* What does not parse is dropped, and the child reads on.
Read ==
  /\ pc = "read"
  /\ links[client_fd].inbox # <<>>
  /\ links' = [links EXCEPT ![client_fd].inbox = LeftByRead(@)]
  /\ IF OneObject(links[client_fd].inbox)
     THEN pc' = "serve" /\ root' = links[client_fd].inbox[1].req
     ELSE UNCHANGED <<pc, root, patient>>
  /\ UNCHANGED <<client_fd, sent, rest, bridge, out, patient>>

\* read() returns 0 when the client has gone and all it sent is read; a read
\* that fails is tried again, and changes nothing.
Eof ==
  /\ pc = "read"
  /\ links[client_fd].inbox = <<>>
  /\ ~links[client_fd].open
  /\ links' = Closed(client_fd)
  /\ pc' = AfterEof
  /\ UNCHANGED <<client_fd, root, sent, rest, bridge, out, patient>>

\* The cases that take a mutex: pump_mutex in Serialize, ble_mutex in BLE_send.
Locking(tag) == tag \in {"TAG_REQSNAP", "TAG_CMDRESETALARM"}

\* The parent has the mutex.  Its unlock does not wake a sleeper of another
\* process, std::mutex being private to one; a signal does (CTRL+Z, SIGCONT).
SleepOnMutex ==
  /\ pc = "serve" /\ Locking(sent[root].tag)
  /\ pc' = "asleep"
  /\ UNCHANGED <<client_fd, root, links, sent, rest, bridge, out, patient>>

Wake ==
  /\ pc = "asleep"
  /\ pc' = "serve"
  /\ UNCHANGED <<client_fd, root, links, sent, rest, bridge, out, patient>>

\* SIGPIPE ends the process and closes its sockets.
Die ==
  /\ pc' = "dead"
  /\ links' = [n \in 1..Len(links) |-> [links[n] EXCEPT !.end = "closed"]]
  /\ UNCHANGED out

\* The switch on the tag.  A write to a client that has gone raises SIGPIPE.
Answer ==
  /\ pc = "serve" /\ Answered(sent[root].tag)
  /\ IF links[client_fd].open
     THEN out' = Append(out, root) /\ pc' = "read" /\ UNCHANGED links
     ELSE Die
  /\ UNCHANGED <<client_fd, root, sent, rest, bridge, patient>>

\* The cases that do not write to the client.  An unknown tag is dropped, and
\* so is a command until BLE_send knows the pump's address; the write to a
\* bridge that has gone raises SIGPIPE.
Command ==
  /\ pc = "serve" /\ ~Answered(sent[root].tag)
  /\ IF sent[root].tag # "TAG_CMDRESETALARM" \/ bridge = "silent"
     THEN pc' = "read" /\ UNCHANGED <<links, out>>
     ELSE IF bridge = "gone" THEN Die
     ELSE out' = Append(out, root) /\ pc' = "read" /\ UNCHANGED links
  /\ UNCHANGED <<client_fd, root, sent, rest, bridge, patient>>

WebNext ==
  \/ Connect
  \/ \E n \in 1..MaxLinks : SendRest(n) \/ Disconnect(n)
  \/ \E n \in 1..MaxLinks, tag \in Tag : Send(n, tag)
  \/ UpdatePPmeshAddr \/ Hangup
  \/ Accept
  \/ Read
  \/ Eof
  \/ SleepOnMutex \/ Wake
  \/ Answer
  \/ Command

\* The child runs whenever it can; the client need do nothing, and nothing
\* need wake a sleeper.
WebFairness == WF_web_vars(Accept \/ Read \/ Eof \/ Answer \/ Command)

WebSpec == WebInit /\ [][WebNext]_web_vars /\ WebFairness

-----------------------------------------------------------------------------
\* Shape of the state; one connection is served, and only while the child
\* is in its inner loop.
WebTypeOK ==
  /\ pc \in {"accept", "read", "serve", "asleep", "dead"}
  /\ client_fd \in 0..Len(links)
  /\ root \in 0..Len(sent)
  /\ links \in Seq(Link)
  /\ sent \in Seq([link : 1..MaxLinks, tag : Tag])
  /\ rest \in BOOLEAN /\ patient \in BOOLEAN /\ bridge \in {"silent", "heard", "gone"}
  /\ out \in Seq(1..Len(sent))
  /\ \A n \in 1..Len(links) :
       links[n].end = "served" <=> n = client_fd /\ pc \in {"read", "serve", "asleep"}

\* No request is acted on twice, and none before one that was sent earlier,
\* over all connections: a client that comes back while its old connection
\* is still being read does not overtake it (Up2webCommPrc).
ActedInOrder == \A i, j \in 1..Len(out) : i < j => out[i] < out[j]

\* While the UART server stays connected, a patient client never ends the
\* child, however long the child slept before it answers: no answer is written
\* to a connection that the client has closed (up2web_comm.cpp:120-170).
ServerSurvives == patient /\ bridge # "gone" => pc # "dead"

\* What the parent and the UART server can do to the child: it sleeps on a
\* mutex, or a command has ended it.
Stuck == pc = "asleep" \/ (pc = "dead" /\ bridge = "gone")

\* A patient client gets an answer to each request, unless the child is stuck.
PatientServed ==
  \A r \in 1..MaxRequests :
    (r <= Len(sent) /\ Expects(r)) ~> (r \in ToSet(out) \/ Stuck \/ ~patient)

Unread(r) == \E n \in 1..Len(links) : \E p \in ToSet(links[n].inbox) : p.req = r

\* A command of a patient client that waits to be read when the pump's
\* address is known is sent on to it, though the client may have gone, unless
\* the child is stuck (TAG_CMDRESETALARM, BLE_send).
CommandsSent ==
  \A r \in 1..MaxRequests :
    (Unread(r) /\ sent[r].tag = "TAG_CMDRESETALARM" /\ bridge = "heard")
      ~> (r \in ToSet(out) \/ Stuck \/ ~patient)

Left(n) == n <= Len(links) /\ ~links[n].open

\* After a patient client has disconnected the child waits for the next,
\* unless it is stuck.
PatientMayLeave ==
  \A n \in 1..MaxLinks : Left(n) ~> (pc = "accept" \/ client_fd > n \/ Stuck \/ ~patient)

=============================================================================
