----------------------------- MODULE SDKClient -----------------------------
(***************************************************************************)
(* The Python client (sdk/python/src/kuhhandel/client.py): coroutines that *)
(* share one Client on an asyncio loop, so that a step here is what runs   *)
(* between two awaits.  A request is one call of _request, a socket one    *)
(* WebSocket connection with the task that reads it; reconnect is close,   *)
(* connect and a request.                                                  *)
(*                                                                         *)
(* The server's side is what Connections allows it to send: replies,       *)
(* refusals, states published out of order or ahead of a reply, and errors *)
(* that answer nothing.  A socket is attached to one game at most.         *)
(*                                                                         *)
(* A definition whose name starts with Slip is the next one as a plausible *)
(* mistake would have it; nothing uses it.                                 *)
(***************************************************************************)
EXTENDS Naturals, Sequences

CONSTANTS
  Requests,    \* calls of _request, each with its id
  Sockets,     \* WebSocket connections, dialled one by one
  Subscribers, \* calls of snapshots()
  Games,
  QueueSize,   \* capacity of a subscriber's queue, 32 in the code
  InFlight,    \* bound: messages on their way to the client on a socket
  MaxVersion,  \* bound: versions of a game the server sends
  Nil

ASSUME ClientAssumption ==
  /\ QueueSize \in Nat \ {0} /\ InFlight \in Nat /\ MaxVersion \in Nat
  /\ Nil \notin Requests /\ Nil \notin Sockets /\ Nil \notin Games
  /\ Nil \notin {"timed out", "cancelled"}

VARIABLES
  connection,  \* self._connection, or Nil; self._reader is its reader
  reading,     \* the sockets whose reader task runs
  socket,      \* each socket: "unused", "dialling", "open", "lost", "closing" or "closed"
  pending,     \* the keys of self._pending
  future,      \* of each request: "open", or how it was completed
  call,        \* where the coroutine of a request is, and its locals
  session,     \* the game of self._session, or Nil
  snapshot,    \* self._snapshot, or Nil
  queue,       \* of each subscriber; Nil while it is not in self._subscribers
  seen,        \* what the subscriber was last given
  sent,        \* requests the server has not answered, per socket
  inbox,       \* messages the client has not read, per socket
  seat,        \* the game a socket is attached to at the server
  owed         \* the request that attached it, until it is answered

state == <<session, snapshot>>
subscriber == <<queue, seen>>
server == <<sent, seat, owed>>
vars == <<connection, reading, socket, pending, future, call, state, subscriber, server, inbox>>

Lost == [game |-> Nil, version |-> 0]  \* an error in a subscriber's queue

Unused == [stage |-> "unused", on |-> Nil, game |-> Nil, end |-> Nil]

Init ==
  /\ connection = Nil /\ reading = {}
  /\ socket = [c \in Sockets |-> "unused"]
  /\ pending = {} /\ future = [r \in Requests |-> "open"] /\ call = [r \in Requests |-> Unused]
  /\ session = Nil /\ snapshot = Nil
  /\ queue = [u \in Subscribers |-> Nil] /\ seen = [u \in Subscribers |-> Nil]
  /\ sent = [c \in Sockets |-> <<>>] /\ inbox = [c \in Sockets |-> <<>>]
  /\ seat = [c \in Sockets |-> Nil] /\ owed = [c \in Sockets |-> Nil]

-----------------------------------------------------------------------------
(* Subscribers, and telling them and the requests of a loss *)

SlipReplaceIfFull(waiting, value) == Append(waiting, value)

SlipDropTheNewest(waiting, value) == IF Len(waiting) < QueueSize THEN Append(waiting, value) ELSE waiting

\* _replace_if_full: the oldest update makes room.
ReplaceIfFull(waiting, value) ==
  Append(IF Len(waiting) < QueueSize THEN waiting ELSE Tail(waiting), value)

Publish(value) ==
  queue' = [u \in Subscribers |-> IF queue[u] = Nil THEN Nil ELSE ReplaceIfFull(queue[u], value)]

SlipFailPending(others) ==
  /\ future' = [r \in Requests |-> IF r \in others /\ future[r] = "open" THEN "lost" ELSE future[r]]
  /\ pending' = others

\* _fail_pending
FailPending(others) ==
  /\ future' = [r \in Requests |-> IF r \in others /\ future[r] = "open" THEN "lost" ELSE future[r]]
  /\ pending' = {}

\* The client forgets its connection: close, _drop and the end of _read have this in common.
LetGo(others) == connection' = Nil /\ FailPending(others) /\ Publish(Lost)

\* snapshots(): a subscriber starts with the current state.
Subscribe(u) ==
  /\ queue[u] = Nil
  /\ queue' = [queue EXCEPT ![u] = IF snapshot = Nil THEN <<>> ELSE <<snapshot>>]
  /\ UNCHANGED <<connection, reading, socket, pending, future, call, state, seen, server, inbox>>

Leave(u) == queue' = [queue EXCEPT ![u] = Nil] /\ seen' = [seen EXCEPT ![u] = Nil]

\* The next update is yielded, or is the error that ends the iteration; the application
\* may also leave the iteration on its own.
NextUpdate(u) ==
  /\ queue[u] # Nil
  /\ \/ /\ queue[u] # <<>> /\ Head(queue[u]) # Lost
        /\ queue' = [queue EXCEPT ![u] = Tail(@)]
        /\ seen' = [seen EXCEPT ![u] = Head(queue[u])]
     \/ Leave(u)
  /\ UNCHANGED <<connection, reading, socket, pending, future, call, state, server, inbox>>

-----------------------------------------------------------------------------
(* connect and close *)

\* connect() up to its await ...
Dial(c) ==
  /\ connection = Nil
  /\ socket[c] = "unused"
  /\ socket' = [socket EXCEPT ![c] = "dialling"]
  /\ UNCHANGED <<connection, reading, pending, future, call, state, subscriber, server, inbox>>

\* ... and after it, whatever has become of the client meanwhile.
Connected(c) ==
  /\ socket[c] = "dialling"
  /\ \/ /\ socket' = [socket EXCEPT ![c] = "open"]
        /\ connection' = c /\ reading' = reading \cup {c}
     \/ /\ socket' = [socket EXCEPT ![c] = "closed"]
        /\ UNCHANGED <<connection, reading>>
  /\ UNCHANGED <<pending, future, call, state, subscriber, server, inbox>>

\* close() up to the await of the closing handshake.
Close ==
  /\ LetGo(pending)
  /\ socket' = [c \in Sockets |-> IF c = connection THEN "closing" ELSE socket[c]]
  /\ UNCHANGED <<reading, call, state, seen, server, inbox>>

\* The handshake is done or has timed out: close and _drop go on and cancel the reader.
Closed(c) ==
  /\ socket[c] = "closing"
  /\ socket' = [socket EXCEPT ![c] = "closed"]
  /\ reading' = reading \ {c}
  /\ sent' = [sent EXCEPT ![c] = <<>>] /\ inbox' = [inbox EXCEPT ![c] = <<>>]
  /\ seat' = [seat EXCEPT ![c] = Nil] /\ owed' = [owed EXCEPT ![c] = Nil]
  /\ call' = [r \in Requests |-> IF call[r].stage = "dropping" /\ call[r].on = c
                                 THEN [call[r] EXCEPT !.stage = "ended"] ELSE call[r]]
  /\ UNCHANGED <<connection, pending, future, state, subscriber>>

-----------------------------------------------------------------------------
(* _request *)

SendLockFree == \A r \in Requests : call[r].stage # "sending"

\* Its exceptions but for the client's own errors: forget the request and drop the connection,
\* unless the client has let go of it already.
Fail(r, c, game, end) ==
  LET At(stage) == [stage |-> stage, on |-> c, game |-> game, end |-> end]
  IN  IF connection = c
      THEN /\ LetGo(pending \ {r})
           /\ socket' = [socket EXCEPT ![c] = "closing"]
           /\ call' = [call EXCEPT ![r] = At("dropping")]
      ELSE /\ pending' = pending \ {r}
           /\ call' = [call EXCEPT ![r] = At("ended")]
           /\ UNCHANGED <<connection, future, queue, socket>>

\* connection.send() up to its await: the message is written, or it raises.
Transmit(r, c, game) ==
  \/ /\ socket[c] = "open"
     /\ sent' = [sent EXCEPT ![c] = Append(@, r)]
     /\ call' = [call EXCEPT ![r] = [stage |-> "sending", on |-> c, game |-> game, end |-> Nil]]
     /\ pending' = pending \cup {r}
     /\ UNCHANGED <<connection, future, queue, socket>>
  \/ /\ socket[c] # "open"
     /\ Fail(r, c, game, "lost")
     /\ UNCHANGED sent

\* A call that enters a game (create, join or resume) or, with game Nil, commands in it.
\* The send lock is fair: who finds another waiting for it waits as well.
Request(r, game) ==
  /\ call[r] = Unused /\ connection # Nil
  /\ \/ /\ \A x \in Requests : call[x].stage \notin {"queued", "sending"}
        /\ Transmit(r, connection, game)
     \/ /\ \E x \in Requests : call[x].stage \in {"queued", "sending"}
        /\ call' = [call EXCEPT ![r] = [stage |-> "queued", on |-> connection, game |-> game, end |-> Nil]]
        /\ pending' = pending \cup {r}
        /\ UNCHANGED <<connection, future, queue, socket, sent>>
  /\ UNCHANGED <<reading, state, seen, inbox, seat, owed>>

SlipAcquire(r) ==
  /\ call[r].stage = "queued" /\ SendLockFree
  /\ Transmit(r, call[r].on, call[r].game)
  /\ UNCHANGED <<reading, state, seen, inbox, seat, owed>>

\* The send lock is taken after waiting for it; the connection may be another by now.
Acquire(r) ==
  /\ call[r].stage = "queued" /\ SendLockFree
  /\ \/ connection = call[r].on /\ Transmit(r, connection, call[r].game)
     \/ /\ connection # call[r].on
        /\ pending' = pending \ {r}
        /\ call' = [call EXCEPT ![r].stage = "ended", ![r].end = "lost"]
        /\ UNCHANGED <<connection, future, queue, socket, sent>>
  /\ UNCHANGED <<reading, state, seen, inbox, seat, owed>>

\* send() returns, or raises because the socket went down under it.
Sent(r) ==
  /\ call[r].stage = "sending"
  /\ \/ /\ call' = [call EXCEPT ![r].stage = "waiting"]
        /\ UNCHANGED <<connection, pending, future, queue, socket>>
     \/ socket[call[r].on] # "open" /\ Fail(r, call[r].on, call[r].game, "lost")
  /\ UNCHANGED <<reading, state, seen, server, inbox>>

Return(r) ==
  /\ call[r].stage = "waiting" /\ future[r] # "open"
  /\ pending' = pending \ {r}
  /\ call' = [call EXCEPT ![r].stage = "ended", ![r].end = future[r]]
  /\ UNCHANGED <<connection, reading, socket, future, state, subscriber, server, inbox>>

SlipTimeout(r) ==
  /\ call[r].stage = "waiting" /\ future[r] = "open" /\ call[r].on = connection
  /\ Fail(r, call[r].on, call[r].game, "timed out")
  /\ UNCHANGED <<reading, state, seen, server, inbox>>

Timeout(r) ==
  /\ call[r].stage = "waiting" /\ future[r] = "open"
  /\ Fail(r, call[r].on, call[r].game, "timed out")
  /\ UNCHANGED <<reading, state, seen, server, inbox>>

\* The application cancels the task of the request.
Cancel(r) ==
  /\ call[r].stage \in {"queued", "sending", "waiting"}
  /\ Fail(r, call[r].on, call[r].game, "cancelled")
  /\ UNCHANGED <<reading, state, seen, server, inbox>>

-----------------------------------------------------------------------------
(* The reader: _read and _receive *)

\* The reader ends for itself, on what is not the end of the connection it may even leave open.
StopReading(c) ==
  /\ reading' = reading \ {c}
  /\ IF connection = c THEN LetGo(pending) ELSE UNCHANGED <<connection, pending, future, queue>>

\* A reply completes the future of its request, if that is still wanted.
Complete(r, how) ==
  /\ pending' = pending \ {r}
  /\ future' = [x \in Requests |-> IF x = r /\ x \in pending /\ future[x] = "open" THEN how ELSE future[x]]

SlipMismatch(message) == FALSE

Mismatch(message) ==
  ~message.session /\ session # Nil /\ message.game # session

Backwards(message) ==
  snapshot # Nil /\ snapshot.game = message.game /\ message.version < snapshot.version

\* _receive: an error, or a snapshot that passes both checks, is taken in; what fails one
\* ends the reader.  The session of a reply is kept even if its snapshot is refused.
Receive(c) ==
  /\ c \in reading /\ inbox[c] # <<>>
  /\ LET message == Head(inbox[c])
         fresh == [game |-> message.game, version |-> message.version]
     IN  \/ /\ message.error /\ message.for # Nil
            /\ Complete(message.for, "refused")
            /\ UNCHANGED <<connection, reading, state, queue>>
         \/ /\ message.error /\ message.for = Nil
            /\ StopReading(c)
            /\ UNCHANGED state
         \/ /\ ~message.error /\ Mismatch(message)
            /\ StopReading(c)
            /\ UNCHANGED state
         \/ /\ ~message.error /\ ~Mismatch(message)
            /\ session' = IF message.session THEN message.game ELSE session
            /\ \/ Backwards(message) /\ StopReading(c) /\ UNCHANGED snapshot
               \/ /\ ~Backwards(message)
                  /\ snapshot' = fresh
                  /\ Publish(fresh)
                  /\ Complete(message.for, "snapshot")
                  /\ UNCHANGED <<connection, reading>>
  /\ inbox' = [inbox EXCEPT ![c] = Tail(@)]
  /\ UNCHANGED <<socket, call, seen, server>>

\* recv() raises: the peer is gone and everything it sent has been read.
ConnectionEnds(c) ==
  /\ c \in reading /\ socket[c] = "lost" /\ inbox[c] = <<>>
  /\ StopReading(c)
  /\ UNCHANGED <<socket, call, state, seen, server, inbox>>

-----------------------------------------------------------------------------
(* The server and the network *)

Deliver(c, message) ==
  /\ Len(inbox[c]) < InFlight
  /\ inbox' = [inbox EXCEPT ![c] = Append(@, message)]

client == <<connection, reading, socket, pending, future, call, state, subscriber>>

Says(game, v, r, withSession) ==
  [error |-> FALSE, game |-> game, version |-> v, for |-> r, session |-> withSession]

Complains(r) == [error |-> TRUE, game |-> Nil, version |-> 0, for |-> r, session |-> FALSE]

Reachable(c) == socket[c] \in {"open", "closing"}

\* A create, join or resume is carried out and the socket attached; the reply comes later.
Admit(c) ==
  /\ Reachable(c) /\ sent[c] # <<>> /\ seat[c] = Nil
  /\ call[Head(sent[c])].game # Nil
  /\ seat' = [seat EXCEPT ![c] = call[Head(sent[c])].game]
  /\ owed' = [owed EXCEPT ![c] = Head(sent[c])]
  /\ UNCHANGED <<client, sent, inbox>>

\* A published state may be overtaken by a newer one on its way, so it is any version.
Reply(c) ==
  /\ Reachable(c) /\ sent[c] # <<>> /\ seat[c] # Nil
  /\ LET r == Head(sent[c])
         entered == call[r].game # Nil
     IN  /\ entered => owed[c] = r
         /\ \E v \in 1..MaxVersion : Deliver(c, Says(seat[c], v, r, entered))
  /\ sent' = [sent EXCEPT ![c] = Tail(@)]
  /\ owed' = [owed EXCEPT ![c] = Nil]
  /\ UNCHANGED <<client, seat>>

\* An attached socket may not enter another game.
Refuse(c) ==
  /\ Reachable(c) /\ sent[c] # <<>> /\ owed[c] # Head(sent[c])
  /\ Deliver(c, Complains(Head(sent[c])))
  /\ sent' = [sent EXCEPT ![c] = Tail(@)]
  /\ UNCHANGED <<client, seat, owed>>

Broadcast(c) ==
  /\ Reachable(c) /\ seat[c] # Nil
  /\ \/ \E v \in 1..MaxVersion : Deliver(c, Says(seat[c], v, Nil, FALSE))
     \/ Deliver(c, Complains(Nil))
  /\ UNCHANGED <<client, server>>

LoseSocket(c) ==
  /\ socket[c] = "open"
  /\ socket' = [socket EXCEPT ![c] = "lost"]
  /\ sent' = [sent EXCEPT ![c] = <<>>]
  /\ seat' = [seat EXCEPT ![c] = Nil] /\ owed' = [owed EXCEPT ![c] = Nil]
  /\ UNCHANGED <<connection, reading, pending, future, call, state, subscriber, inbox>>

-----------------------------------------------------------------------------
Next ==
  \/ Close
  \/ \E u \in Subscribers : Subscribe(u) \/ NextUpdate(u)
  \/ \E c \in Sockets : \/ Dial(c) \/ Connected(c) \/ Closed(c) \/ Receive(c) \/ ConnectionEnds(c)
                        \/ Admit(c) \/ Reply(c) \/ Refuse(c) \/ Broadcast(c) \/ LoseSocket(c)
  \/ \E r \in Requests, game \in Games \cup {Nil} : Request(r, game)
  \/ \E r \in Requests : Acquire(r) \/ Sent(r) \/ Return(r) \/ Timeout(r) \/ Cancel(r)

Spec == Init /\ [][Next]_vars

\* The loop runs what is ready, timers fire, a send ends (the library's keepalive gives up on
\* a dead peer) and so does a closing handshake (close_timeout).  Nothing is assumed of the
\* server, the network and the application.
Fairness ==
  /\ \A r \in Requests : /\ WF_vars(Acquire(r)) /\ WF_vars(Sent(r))
                         /\ WF_vars(Return(r)) /\ WF_vars(Timeout(r))
  /\ \A c \in Sockets : WF_vars(Closed(c))

FairSpec == Spec /\ Fairness

-----------------------------------------------------------------------------
(* Properties *)

Snapshots == [game : Games, version : Nat]

Messages == [error : BOOLEAN, game : Games \cup {Nil}, version : Nat,
             for : Requests \cup {Nil}, session : BOOLEAN]

\* The values the variables range over; a subscriber's queue never exceeds its capacity.
TypeOK ==
  /\ connection \in Sockets \cup {Nil} /\ reading \subseteq Sockets
  /\ socket \in [Sockets -> {"unused", "dialling", "open", "lost", "closing", "closed"}]
  /\ pending \subseteq Requests
  /\ future \in [Requests -> {"open", "snapshot", "refused", "lost"}]
  /\ call \in [Requests ->
       [stage : {"unused", "queued", "sending", "waiting", "dropping", "ended"},
        on : Sockets \cup {Nil}, game : Games \cup {Nil},
        end : {Nil, "snapshot", "refused", "lost", "timed out", "cancelled"}]]
  /\ session \in Games \cup {Nil} /\ snapshot \in Snapshots \cup {Nil}
  /\ \A u \in Subscribers :
       queue[u] # Nil => queue[u] \in Seq(Snapshots \cup {Lost}) /\ Len(queue[u]) <= QueueSize
  /\ seen \in [Subscribers -> Snapshots \cup {Nil}]
  /\ sent \in [Sockets -> Seq(Requests)] /\ inbox \in [Sockets -> Seq(Messages)]
  /\ seat \in [Sockets -> Games \cup {Nil}] /\ owed \in [Sockets -> Requests \cup {Nil}]

\* self._pending holds exactly the calls that still wait for their future: no late reply
\* reaches a call that has ended, and no call waits where no reply can reach it.
PendingIsWhoWaits ==
  \A r \in Requests :
    r \in pending <=> call[r].stage \in {"queued", "sending", "waiting"} /\ future[r] = "open"

\* A request is never put on the wire after its caller was told that the connection is
\* lost, nor on a connection on which another request timed out or was cancelled: that
\* one may have reached the server, and the state must be resumed first.
NothingSentAfterDoubt ==
  [][\A r \in Requests :
       call'[r].stage = "sending" /\ call[r].stage # "sending" =>
         /\ future[r] = "open"
         /\ \A x \in Requests : call[x].on = call'[r].on => call[x].end \notin {"timed out", "cancelled"}]_vars

\* What the application sees of a game is of the game it has the session of, whichever
\* connections have fed it.
SessionMatchesSnapshot ==
  session # Nil /\ snapshot # Nil => snapshot.game = session

\* A subscriber that takes what is in its queue ends up with the client's present state
\* or with the error that ended the connection, however slow it was.
SubscriberCatchesUp ==
  \A u \in Subscribers :
    queue[u] # Nil /\ snapshot # Nil =>
      LET updates == <<seen[u]>> \o queue[u]
      IN  updates[Len(updates)] \in {snapshot, Lost}

\* Every call of _request returns or raises, whatever the server does.
EveryRequestEnds ==
  \A r \in Requests : call[r].stage \notin {"unused", "ended"} ~> call[r].stage = "ended"
=============================================================================
