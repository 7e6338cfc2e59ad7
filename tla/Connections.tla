---------------------------- MODULE Connections ----------------------------
(***************************************************************************)
(* The WebSocket connections of one game: serveWebSocket, which reads the  *)
(* requests of a connection one after the other, handle and execute, which *)
(* carry each one out, the registry of connections with attach and detach, *)
(* publish, which sends every player the state after a command, and the    *)
(* outbound queues with enqueue and write (internal/server/server.go and   *)
(* protocol.go).                                                           *)
(*                                                                         *)
(* The game itself is a version that every accepted command raises: what a *)
(* call of its runtime does, GameRuntime models.  A request that handle    *)
(* refuses, for whatever reason, is answered with an error.                *)
(*                                                                         *)
(* A definition whose name starts with Slip is the next one as a plausible *)
(* mistake would have it; nothing uses it.                                 *)
(***************************************************************************)
EXTENDS Naturals, Sequences, FiniteSets

CONSTANTS
  Peers,       \* connections, from when they are accepted
  Players,     \* identities that newIdentity can return
  Buffer,      \* capacity of an outbound queue, 32 in the code
  MaxVersion,  \* bound: no command is accepted beyond this version
  Nil

ASSUME ConnectionsAssumption ==
  /\ Buffer \in Nat \ {0} /\ MaxVersion \in Nat
  /\ Nil \notin Players /\ Nil \notin Peers

VARIABLES
  version,   \* of the aggregate; 0 before the room is created
  born,      \* the version at which a player joined, or 0
  listed,    \* is the game in server.games?
  registry,  \* server.connections: the player a connection is attached as, or Nil
  handler,   \* what the goroutine of serveWebSocket is doing, with its locals
  session,   \* its currentSession
  done,      \* is the context of the connection cancelled?
  send,      \* the outbound queue
  got,       \* the newest version its client has received
  tokens,    \* the players whose sessions clients know
  owing,     \* does its client still lack the reply to the last request?
  audience,  \* history: who was attached when the latest version was published
  cut        \* history: who of them it was not fetched for, everyone if it was never published

news == <<audience, cut>>
game == <<version, born, news>>
client == <<done, send, got, tokens, owing>>
vars == <<version, born, listed, registry, handler, session, done, send, got, tokens, owing, news>>

Kinds == {"create", "join", "resume", "command"}

At(stage) == [stage |-> stage, kind |-> Nil, player |-> Nil, own |-> 0, todo |-> {}, to |-> Nil, version |-> 0]

Snapshot(v, reply) == [version |-> v, reply |-> reply]
Error(reply) == [version |-> 0, reply |-> reply]

Init ==
  /\ version = 0 /\ born = [x \in Players |-> 0] /\ listed = FALSE
  /\ registry = [p \in Peers |-> Nil]
  /\ handler = [p \in Peers |-> At("reading")]
  /\ session = [p \in Peers |-> Nil]
  /\ done = [p \in Peers |-> FALSE]
  /\ send = [p \in Peers |-> <<>>]
  /\ got = [p \in Peers |-> 0]
  /\ tokens = {}
  /\ owing = [p \in Peers |-> FALSE]
  /\ audience = {} /\ cut = {}

-----------------------------------------------------------------------------
(* The outbound queue *)

\* What a cancelled connection still had in its queue is never written, and nobody waits
\* for its replies.
Cancel(peers) ==
  /\ done' = [q \in Peers |-> done[q] \/ q \in peers]
  /\ send' = [q \in Peers |-> IF q \in peers THEN <<>> ELSE send[q]]
  /\ got' = [q \in Peers |-> IF q \in peers THEN 0 ELSE got[q]]
  /\ owing' = [q \in Peers |-> owing[q] /\ q \notin peers]

Put(q, message) ==
  /\ send' = [send EXCEPT ![q] = Append(@, message)]
  /\ owing' = [owing EXCEPT ![q] = @ /\ ~message.reply]
  /\ UNCHANGED <<done, got>>

Ignore == UNCHANGED <<done, send, got, owing>>

SlipEnqueueUnbounded(q, message) == IF done[q] THEN Ignore ELSE Put(q, message)

SlipEnqueueDrops(q, message) ==
  \/ (done[q] \/ (Len(send[q]) = Buffer /\ ~message.reply)) /\ Ignore
  \/ ~done[q] /\ Len(send[q]) < Buffer /\ Put(q, message)
  \/ ~done[q] /\ Len(send[q]) = Buffer /\ message.reply /\ Cancel({q})

SlipEnqueueWaits(q, message) ==
  \/ done[q] /\ Ignore
  \/ ~done[q] /\ Len(send[q]) < Buffer /\ Put(q, message)

\* A full queue ends the connection.
Enqueue(q, message) ==
  \/ done[q] /\ Ignore
  \/ ~done[q] /\ Len(send[q]) < Buffer /\ Put(q, message)
  \/ ~done[q] /\ Len(send[q]) = Buffer /\ Cancel({q})

Larger(m, n) == IF m > n THEN m ELSE n

\* write: the client learns the session from the reply to its create, join or resume.
Write(p) ==
  /\ ~done[p] /\ send[p] # <<>>
  /\ send' = [send EXCEPT ![p] = Tail(@)]
  /\ got' = [got EXCEPT ![p] = Larger(@, Head(send[p]).version)]
  /\ tokens' = IF Head(send[p]).reply /\ Head(send[p]).version > 0
               THEN tokens \cup ({registry[p]} \ {Nil}) ELSE tokens
  /\ UNCHANGED <<game, listed, registry, handler, session, done, owing>>

-----------------------------------------------------------------------------
(* A connection and its requests *)

\* The client hangs up, or a write fails.
Lose(p) ==
  /\ ~done[p]
  /\ Cancel({p})
  /\ UNCHANGED <<game, listed, registry, handler, session, tokens>>

SlipLeave(p) ==
  /\ handler[p].stage = "reading" /\ done[p]
  /\ handler' = [handler EXCEPT ![p] = At("gone")]
  /\ UNCHANGED <<game, listed, registry, session, client>>

\* A cancelled connection reads nothing more: detach.  Its goroutine ends, and with it its locals.
Leave(p) ==
  /\ handler[p].stage = "reading" /\ done[p]
  /\ handler' = [handler EXCEPT ![p] = At("gone")]
  /\ registry' = [registry EXCEPT ![p] = Nil]
  /\ session' = [session EXCEPT ![p] = Nil]
  /\ UNCHANGED <<game, listed, client>>

\* newIdentity returns one that nobody else has.
Fresh(player) == born[player] = 0 /\ \A q \in Peers : handler[q].player # player

\* What has no valid id, or no valid type, is answered with an error that names no request.
Misread(p) ==
  /\ handler[p].stage = "reading" /\ ~done[p]
  /\ Enqueue(p, Error(FALSE))
  /\ UNCHANGED <<game, listed, registry, handler, session, tokens>>

\* A request is read, one that handle does not refuse for its kind alone.  Other games are other instances: here the room is created once.
Ask(p, kind, player) ==
  /\ handler[p].stage = "reading" /\ ~done[p]
  /\ kind = "command" \/ session[p] = Nil
  /\ CASE kind = "create"  -> version = 0 /\ Fresh(player) /\ \A q \in Peers : handler[q].kind # "create"
       [] kind = "join"    -> Fresh(player)
       [] kind = "resume"  -> player \in tokens
       [] kind = "command" -> player = session[p]
  /\ handler' = [handler EXCEPT ![p] = [At("asked") EXCEPT !.kind = kind, !.player = player]]
  /\ owing' = [owing EXCEPT ![p] = TRUE]
  /\ UNCHANGED <<game, listed, registry, session, done, send, got, tokens>>

Refuse(p) ==
  /\ handler[p].stage = "asked"
  /\ handler' = [handler EXCEPT ![p] = At("reading")]
  /\ Enqueue(p, Error(TRUE))
  /\ UNCHANGED <<game, listed, registry, session, tokens>>

\* What the runtime does with an accepted create, join or command.
Accept(p) ==
  LET kind == handler[p].kind
  IN  /\ version < MaxVersion
      /\ kind # "resume" /\ (kind = "join" => listed)
      /\ version' = version + 1
      /\ born' = IF kind = "command" THEN born ELSE [born EXCEPT ![handler[p].player] = version + 1]

AfterAccept(kind) == CASE kind = "create" -> "listing" [] kind = "join" -> "attaching" [] OTHER -> "capturing"

Execute(p) ==
  /\ handler[p].stage = "asked" /\ Accept(p)
  /\ handler' = [handler EXCEPT ![p].stage = AfterAccept(handler[p].kind), ![p].own = version + 1]
  /\ audience' = {} /\ cut' = {}
  /\ UNCHANGED <<listed, registry, session, client>>

Authenticate(p) ==
  /\ handler[p].stage = "asked" /\ handler[p].kind = "resume"
  /\ handler' = [handler EXCEPT ![p].stage = "attaching"]
  /\ UNCHANGED <<game, listed, registry, session, client>>

Attached == {q \in Peers : registry[q] # Nil}

\* The connection is cancelled while its runtime is at work: the error goes nowhere, and
\* the command may have been accepted.  A room created so is never listed.
Abandon(p) ==
  /\ handler[p].stage = "asked" /\ done[p]
  /\ handler' = [handler EXCEPT ![p] = At("reading")]
  /\ \/ UNCHANGED game
     \/ handler[p].kind # "create" /\ Accept(p) /\ audience' = Attached /\ cut' = Attached
  /\ UNCHANGED <<listed, registry, session, client>>

List(p) ==
  /\ handler[p].stage = "listing"
  /\ listed' = TRUE
  /\ handler' = [handler EXCEPT ![p].stage = "attaching"]
  /\ UNCHANGED <<game, registry, session, client>>

SlipAttach(p) ==
  /\ handler[p].stage = "attaching"
  /\ registry' = [registry EXCEPT ![p] = handler[p].player]
  /\ handler' = [handler EXCEPT ![p].stage = "capturing"]
  /\ UNCHANGED <<game, listed, session, client>>

\* attach: other connections of the player are removed and cancelled.
Attach(p) ==
  LET player == handler[p].player
      older == {q \in Peers \ {p} : registry[q] = player}
  IN  /\ handler[p].stage = "attaching"
      /\ registry' = [q \in Peers |-> IF q = p THEN player ELSE IF q \in older THEN Nil ELSE registry[q]]
      /\ Cancel(older)
      /\ handler' = [handler EXCEPT ![p].stage = "capturing"]
      /\ UNCHANGED <<game, listed, session, tokens>>

-----------------------------------------------------------------------------
(* publish *)

SlipCapture(p) ==
  /\ handler[p].stage = "capturing"
  /\ handler' = [handler EXCEPT ![p].stage = "publishing",
                                ![p].todo = Attached \ {p}]
  /\ audience' = IF handler[p].own = version THEN Attached ELSE audience
  /\ UNCHANGED <<version, born, cut, listed, registry, session, client>>

Capture(p) ==
  /\ handler[p].stage = "capturing"
  /\ handler' = [handler EXCEPT ![p].stage = "publishing", ![p].todo = Attached]
  /\ audience' = IF handler[p].own = version THEN Attached ELSE audience
  /\ UNCHANGED <<version, born, cut, listed, registry, session, client>>

Address(p, q, v) ==
  /\ handler[p].stage = "publishing" /\ q \in handler[p].todo
  /\ handler' = [handler EXCEPT ![p].stage = "sending", ![p].to = q, ![p].version = v]
  /\ UNCHANGED <<version, born, audience, listed, registry, session, client>>

OwnAtHand(p, q) == q = p /\ handler[p].own > 0

\* The requester of a command gets the snapshot execute returned, the others a new one.
Fetch(p, q) ==
  /\ Address(p, q, IF OwnAtHand(p, q) THEN handler[p].own ELSE version)
  /\ UNCHANGED cut

\* The snapshots are asked for under the context of the requester.
FetchFails(p, q) ==
  /\ done[p] /\ ~OwnAtHand(p, q)
  /\ Address(p, q, 0)
  /\ cut' = IF handler[p].own = version THEN cut \cup {q} ELSE cut

\* An error stands in for a snapshot without a request id.
Forward(p) ==
  LET v == handler[p].version
      q == handler[p].to
  IN  /\ handler[p].stage = "sending"
      /\ Enqueue(q, IF v = 0 THEN Error(FALSE) ELSE Snapshot(v, q = p))
      /\ handler' = [handler EXCEPT ![p].stage = "publishing", ![p].todo = @ \ {q}, ![p].to = Nil, ![p].version = 0]
      /\ UNCHANGED <<game, listed, registry, session, tokens>>

Finish(p) ==
  /\ handler[p].stage = "publishing" /\ handler[p].todo = {}
  /\ session' = [session EXCEPT ![p] = handler[p].player]
  /\ handler' = [handler EXCEPT ![p] = At("reading")]
  /\ UNCHANGED <<game, listed, registry, client>>

-----------------------------------------------------------------------------
Work(p) ==
  \/ Refuse(p) \/ Execute(p) \/ Authenticate(p) \/ Abandon(p)
  \/ List(p) \/ Attach(p) \/ Capture(p)
  \/ \E q \in Peers : Fetch(p, q) \/ FetchFails(p, q)
  \/ Forward(p) \/ Finish(p) \/ Leave(p)

Next ==
  \E p \in Peers :
    \/ Lose(p) \/ Write(p) \/ Misread(p)
    \/ \E kind \in Kinds, player \in Players : Ask(p, kind, player)
    \/ Work(p)

Spec == Init /\ [][Next]_vars

\* Goroutines keep running and the runtime keeps answering; clients need not read.
FairSpec == Spec /\ \A p \in Peers : WF_vars(Work(p))

-----------------------------------------------------------------------------
(* Properties *)

Stages == {"reading", "asked", "listing", "attaching", "capturing",
           "publishing", "sending", "gone"}

Versions == 0..MaxVersion

\* The values the variables range over; a queue never holds more than its capacity.
TypeOK ==
  /\ version \in Versions /\ born \in [Players -> Versions]
  /\ listed \in BOOLEAN /\ audience \subseteq Peers /\ cut \subseteq Peers
  /\ registry \in [Peers -> Players \cup {Nil}] /\ session \in [Peers -> Players \cup {Nil}]
  /\ \A p \in Peers :
       LET h == handler[p]
       IN  /\ h.stage \in Stages /\ h.kind \in Kinds \cup {Nil} /\ h.player \in Players \cup {Nil}
           /\ h.own \in Versions /\ h.todo \subseteq Peers /\ h.to \in Peers \cup {Nil} /\ h.version \in Versions
  /\ done \in [Peers -> BOOLEAN] /\ owing \in [Peers -> BOOLEAN]
  /\ \A p \in Peers : /\ Len(send[p]) <= Buffer
                      /\ \A n \in DOMAIN send[p] : send[p][n] \in [version : Versions, reply : BOOLEAN]
  /\ got \in [Peers -> Versions] /\ tokens \subseteq Players

\* A player acts through one connection: the registry holds no second one, and a
\* connection that has lost its place there to a newer one is cancelled.
OneConnectionPerPlayer ==
  /\ \A p, q \in Peers : registry[p] # Nil /\ registry[p] = registry[q] => p = q
  /\ \A p \in Peers : session[p] # Nil /\ registry[p] # session[p] => done[p]

\* When a connection turns to its next request, the last one has been answered.
EveryRequestIsAnswered ==
  \A p \in Peers : handler[p].stage = "reading" /\ ~done[p] => ~owing[p]

\* The newest version a client has received or will find in its queue.
Received(p) == {got[p]} \cup {send[p][n].version : n \in DOMAIN send[p]}
Newest(p) == CHOOSE v \in Received(p) : \A w \in Received(p) : w <= v

Quiet == \A p \in Peers : handler[p].stage \in {"reading", "gone"}

\* Once nothing is under way every attached client has, or is about to get, the latest
\* state.  There are two exceptions: the requester of the latest command lost its connection
\* before the state was fetched for this client; and a player who was not yet attached when
\* that command was published has the state of his joining.
StaleOnlyWithCause ==
  Quiet => \A p \in Attached : ~done[p] =>
             \/ Newest(p) = version \/ p \in cut
             \/ p \notin audience /\ Newest(p) = born[registry[p]]

\* The snapshots sent over a connection never go back to an older version.
SnapshotsInOrder ==
  \A p \in Peers : ~done[p] =>
    LET sent == SelectSeq(send[p], LAMBDA m : m.version > 0)
    IN  \A n \in DOMAIN sent : sent[n].version >= IF n = 1 THEN got[p] ELSE sent[n - 1].version

\* The handler of a connection always comes back to read its next request, however slow
\* the other clients are.
HandlersReturn ==
  \A p \in Peers : handler[p].stage = "asked" ~> handler[p].stage \in {"reading", "gone"}

\* A connection that was revoked or lost leaves the registry.
LostConnectionsLeave == \A p \in Peers : done[p] ~> registry[p] = Nil /\ handler[p].stage = "gone"
=============================================================================
