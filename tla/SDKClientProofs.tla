-------------------------- MODULE SDKClientProofs --------------------------
(***************************************************************************)
(* With any number of requests, sockets, subscribers and games: a call is  *)
(* pending as long as it waits, nothing is sent on a doubtful connection,  *)
(* and what the application sees is the state of its session.              *)
(***************************************************************************)
EXTENDS SDKClient, SequenceTheorems, TLAPS

LEMMA NilIsApart == Nil \notin Requests /\ Nil \notin Sockets /\ Nil \notin Games
BY ClientAssumption, Zenon

LEMMA SomeRoom == QueueSize \in Nat \ {0}
BY ClientAssumption, Zenon

USE NilIsApart

-----------------------------------------------------------------------------
(* The inductive invariant *)

Ends == {Nil, "snapshot", "refused", "lost", "timed out", "cancelled"}

Calls == [stage : {"unused", "queued", "sending", "waiting", "dropping", "ended"},
          on : Sockets \cup {Nil}, game : Games \cup {Nil}, end : Ends]

Futures == {"open", "snapshot", "refused", "lost"}

Updates == Snapshots \cup {Lost}

\* A message with a state says which game it is of.
Sound == {m \in Messages : m.error \/ m.game \in Games}

ClientType ==
  /\ connection \in Sockets \cup {Nil} /\ reading \subseteq Sockets
  /\ socket \in [Sockets -> {"unused", "dialling", "open", "lost", "closing", "closed"}]
  /\ pending \subseteq Requests /\ future \in [Requests -> Futures]
  /\ call \in [Requests -> Calls]

StateType == session \in Games \cup {Nil} /\ snapshot \in Snapshots \cup {Nil}

QueueType ==
  /\ DOMAIN queue = Subscribers
  /\ \A u \in Subscribers : queue[u] # Nil => queue[u] \in Seq(Updates) /\ Len(queue[u]) <= QueueSize
  /\ seen \in [Subscribers -> Snapshots \cup {Nil}]

ServerType ==
  /\ sent \in [Sockets -> Seq(Requests)] /\ inbox \in [Sockets -> Seq(Sound)]
  /\ seat \in [Sockets -> Games \cup {Nil}] /\ owed \in [Sockets -> Requests \cup {Nil}]

Fresh == {"unused", "dialling"}
Doubt == {"timed out", "cancelled"}
Failures == {"lost", "timed out", "cancelled"}

\* A call is tied to a socket that was dialled before it began, so no later connection is
\* its own.  While it is queued on the present connection nothing has completed it, and
\* the connection of a call that ended in doubt is not the present one.
RequestInv ==
  /\ PendingIsWhoWaits
  /\ connection # Nil => socket[connection] \notin Fresh
  /\ \A r \in Requests :
       /\ call[r].stage = "unused" => call[r] = Unused /\ future[r] = "open"
       /\ call[r].stage # "unused" => call[r].on \in Sockets /\ socket[call[r].on] \notin Fresh
       /\ call[r].stage = "queued" /\ connection = call[r].on => future[r] = "open"
       /\ call[r].end \in Doubt => connection # call[r].on

\* The server answers only what has been written.
Asked(r) == call[r].stage \notin {"unused", "queued"}

MessageInv ==
  /\ \A c \in Sockets : \A i \in 1..Len(sent[c]) : Asked(sent[c][i])
  /\ \A c \in Sockets : \A i \in 1..Len(inbox[c]) :
       inbox[c][i].for # Nil => Asked(inbox[c][i].for)

LatestUpdate(u) == IF queue[u] = <<>> THEN seen[u] ELSE queue[u][Len(queue[u])]

CaughtUp ==
  \A u \in Subscribers : queue[u] # Nil /\ snapshot # Nil => LatestUpdate(u) \in {snapshot, Lost}

IInv ==
  /\ ClientType /\ StateType /\ QueueType /\ ServerType
  /\ RequestInv /\ MessageInv /\ SessionMatchesSnapshot /\ CaughtUp

-----------------------------------------------------------------------------
(* What the helpers do *)

\* The newest update is the last in the queue, however full it was.
LEMMA ReplaceIfFullFacts ==
  ASSUME NEW waiting \in Seq(Updates), Len(waiting) <= QueueSize, NEW value \in Updates
  PROVE  /\ ReplaceIfFull(waiting, value) \in Seq(Updates)
         /\ Len(ReplaceIfFull(waiting, value)) <= QueueSize
         /\ ReplaceIfFull(waiting, value) # <<>>
         /\ ReplaceIfFull(waiting, value)[Len(ReplaceIfFull(waiting, value))] = value
<1> USE SomeRoom
<1>1. CASE Len(waiting) < QueueSize
  <2>1. ReplaceIfFull(waiting, value) = Append(waiting, value) BY <1>1 DEF ReplaceIfFull
  <2> QED BY <1>1, <2>1
<1>2. CASE ~(Len(waiting) < QueueSize)
  <2>1. ReplaceIfFull(waiting, value) = Append(Tail(waiting), value) BY <1>2 DEF ReplaceIfFull
  <2>2. waiting # <<>> BY <1>2
  <2>3. Tail(waiting) \in Seq(Updates) /\ Len(Tail(waiting)) = Len(waiting) - 1 BY <2>2
  <2> QED BY <1>2, <2>1, <2>3
<1> QED BY <1>1, <1>2

LEMMA PublishFacts ==
  ASSUME QueueType, NEW value \in Updates, Publish(value), UNCHANGED seen
  PROVE  /\ QueueType'
         /\ \A u \in Subscribers : queue'[u] # Nil => LatestUpdate(u)' = value
<1>1. queue' = [u \in Subscribers |-> IF queue[u] = Nil THEN Nil ELSE ReplaceIfFull(queue[u], value)]
  BY DEF Publish
<1>2. ASSUME NEW u \in Subscribers, queue'[u] # Nil
      PROVE  /\ queue'[u] \in Seq(Updates) /\ Len(queue'[u]) <= QueueSize
             /\ LatestUpdate(u)' = value
  <2>1. queue[u] # Nil /\ queue'[u] = ReplaceIfFull(queue[u], value) BY <1>1, <1>2
  <2>2. queue[u] \in Seq(Updates) /\ Len(queue[u]) <= QueueSize BY <2>1 DEF QueueType
  <2> QED BY <2>1, <2>2, ReplaceIfFullFacts DEF LatestUpdate
<1> QED BY <1>1, <1>2 DEF QueueType

LEMMA DoubtMeansUsed ==
  ASSUME RequestInv, NEW r \in Requests, call[r].end \in Doubt
  PROVE  call[r].stage # "unused"
<1>1. Nil \notin Doubt BY ClientAssumption, Zenon DEF Doubt
<1>2. ASSUME call[r] = Unused PROVE FALSE
  <2>1. call[r].end = Nil BY <1>2 DEF Unused
  <2> QED BY <1>1, <2>1
<1> QED BY <1>2 DEF RequestInv

LEMMA FailureNames == "lost" \in Failures /\ "timed out" \in Failures /\ "cancelled" \in Failures
BY Zenon DEF Failures

LEMMA EndNames ==
  /\ {Nil, "snapshot", "refused", "lost"} \subseteq Ends /\ Failures \subseteq Ends /\ Doubt \subseteq Ends
  /\ {Nil, "lost", "refused", "snapshot"} \cap Doubt = {}
BY ClientAssumption, Zenon DEF Ends, Failures, Doubt

LEMMA LostIsUpdate == Lost \in Updates
BY DEF Updates

\* Telling everyone of a loss.
LEMMA LetGoFacts ==
  ASSUME ClientType, QueueType, NEW others \in SUBSET pending, LetGo(others), UNCHANGED <<seen, snapshot>>
  PROVE  /\ connection' = Nil /\ pending' = {} /\ future' \in [Requests -> Futures]
         /\ QueueType' /\ CaughtUp'
         /\ \A r \in Requests :
              future'[r] = IF r \in others /\ future[r] = "open" THEN "lost" ELSE future[r]
<1>1. connection' = Nil /\ pending' = {} /\ Publish(Lost) BY DEF LetGo, FailPending
<1>2. future' = [r \in Requests |-> IF r \in others /\ future[r] = "open" THEN "lost" ELSE future[r]]
  BY DEF LetGo, FailPending
<1>3. future' \in [Requests -> Futures] BY <1>2 DEF ClientType, Futures
<1>4. QueueType' /\ \A u \in Subscribers : queue'[u] # Nil => LatestUpdate(u)' = Lost
  BY <1>1, LostIsUpdate, PublishFacts
<1>5. CaughtUp' BY <1>4 DEF CaughtUp
<1> QED BY <1>1, <1>2, <1>3, <1>4, <1>5

\* Letting go of the connection leaves no call pending, whichever sockets go down with it.
LEMMA LetGoKeeps ==
  ASSUME ClientType, QueueType, RequestInv, LetGo(pending), UNCHANGED <<seen, snapshot, call>>,
         \A c \in Sockets : socket[c] \notin Fresh => socket'[c] \notin Fresh
  PROVE  RequestInv'
<1>1. /\ connection' = Nil /\ pending' = {}
      /\ \A r \in Requests :
           future'[r] = IF r \in pending /\ future[r] = "open" THEN "lost" ELSE future[r]
  BY LetGoFacts
<1>2. PendingIsWhoWaits' BY <1>1 DEF RequestInv, PendingIsWhoWaits
<1>3. ASSUME NEW r \in Requests
      PROVE  /\ call[r].stage = "unused" => call[r] = Unused /\ future'[r] = "open"
             /\ call[r].stage # "unused" => call[r].on \in Sockets /\ socket'[call[r].on] \notin Fresh
             /\ call[r].stage = "queued" /\ connection' = call[r].on => future'[r] = "open"
             /\ call[r].end \in Doubt => connection' # call[r].on
  <2>1. call[r].stage = "unused" => r \notin pending BY DEF RequestInv, PendingIsWhoWaits
  <2>2. call[r].stage # "unused" => call[r].on # Nil BY DEF RequestInv
  <2>3. call[r].end \in Doubt => call[r].stage # "unused" BY DoubtMeansUsed
  <2> QED BY <1>1, <2>1, <2>2, <2>3 DEF RequestInv
<1> QED BY <1>1, <1>2, <1>3 DEF RequestInv

\* A call that fails on a socket takes the client's connection with it if it is this one.
LEMMA FailFacts ==
  ASSUME ClientType, QueueType, RequestInv, CaughtUp,
         NEW r \in Requests, NEW c \in Sockets, socket[c] \notin Fresh,
         NEW game \in Games \cup {Nil}, NEW end \in Failures,
         Fail(r, c, game, end), UNCHANGED <<reading, seen, snapshot>>
  PROVE  /\ ClientType' /\ QueueType' /\ RequestInv' /\ CaughtUp'
         /\ Asked(r)' /\ \A x \in Requests \ {r} : call'[x] = call[x]
<1>1. CASE connection = c
  <2> DEFINE after == [stage |-> "dropping", on |-> c, game |-> game, end |-> end]
  <2>1. /\ LetGo(pending \ {r}) /\ socket' = [socket EXCEPT ![c] = "closing"]
        /\ call' = [call EXCEPT ![r] = after]
    BY <1>1 DEF Fail
  <2>2. after \in Calls BY EndNames DEF Calls
  <2>3. after.stage = "dropping" /\ after.on = c OBVIOUS
  <2> HIDE DEF after
  <2>4. /\ connection' = Nil /\ pending' = {} /\ future' \in [Requests -> Futures]
        /\ QueueType' /\ CaughtUp'
        /\ \A x \in Requests :
             future'[x] = IF x \in pending \ {r} /\ future[x] = "open" THEN "lost" ELSE future[x]
    BY <2>1, LetGoFacts
  <2>5. call' \in [Requests -> Calls] BY <2>1, <2>2 DEF ClientType
  <2>6. socket' \in [Sockets -> {"unused", "dialling", "open", "lost", "closing", "closed"}]
    BY <2>1 DEF ClientType
  <2>7. ClientType' BY <2>4, <2>5, <2>6 DEF ClientType
  <2>8. call'[r] = after /\ \A x \in Requests \ {r} : call'[x] = call[x]
    BY <2>1 DEF ClientType
  <2>9. \A s \in Sockets : socket[s] \notin Fresh => socket'[s] \notin Fresh
    BY <2>1 DEF ClientType, Fresh
  <2>10. PendingIsWhoWaits'
    BY <2>3, <2>4, <2>8 DEF RequestInv, PendingIsWhoWaits
  <2>11. ASSUME NEW x \in Requests \ {r}
         PROVE  /\ call[x].stage = "unused" => call[x] = Unused /\ future'[x] = "open"
                /\ call[x].stage # "unused" => call[x].on \in Sockets /\ socket'[call[x].on] \notin Fresh
                /\ call[x].stage = "queued" /\ connection' = call[x].on => future'[x] = "open"
                /\ call[x].end \in Doubt => connection' # call[x].on
    <3>1. call[x].stage = "unused" => x \notin pending BY DEF RequestInv, PendingIsWhoWaits
    <3>2. call[x].stage # "unused" => call[x].on # Nil BY DEF RequestInv
    <3>3. call[x].end \in Doubt => call[x].stage # "unused" BY DoubtMeansUsed
    <3> QED BY <2>4, <2>9, <3>1, <3>2, <3>3 DEF RequestInv
  <2>12. /\ call'[r].stage = "dropping" /\ call'[r].on \in Sockets
         /\ socket'[call'[r].on] \notin Fresh /\ connection' # call'[r].on
    BY <2>3, <2>4, <2>8, <2>9
  <2>13. RequestInv' BY <2>4, <2>8, <2>10, <2>11, <2>12 DEF RequestInv
  <2> QED BY <2>4, <2>7, <2>8, <2>12, <2>13 DEF Asked
<1>2. CASE connection # c
  <2> DEFINE after == [stage |-> "ended", on |-> c, game |-> game, end |-> end]
  <2>1. /\ pending' = pending \ {r} /\ call' = [call EXCEPT ![r] = after]
        /\ UNCHANGED <<connection, future, queue, socket>>
    BY <1>2 DEF Fail
  <2>2. after \in Calls BY EndNames DEF Calls
  <2>3. after.stage = "ended" /\ after.on = c OBVIOUS
  <2> HIDE DEF after
  <2>4. ClientType' BY <2>1, <2>2 DEF ClientType
  <2>5. call'[r] = after /\ \A x \in Requests \ {r} : call'[x] = call[x]
    BY <2>1 DEF ClientType
  <2>6. QueueType' /\ CaughtUp' BY <2>1 DEF QueueType, CaughtUp, LatestUpdate
  <2>7. RequestInv'
    BY <1>2, <2>1, <2>3, <2>5 DEF RequestInv, PendingIsWhoWaits
  <2> QED BY <2>3, <2>4, <2>5, <2>6, <2>7 DEF Asked
<1> QED BY <1>1, <1>2

-----------------------------------------------------------------------------
(* The beginning, and the steps of the application and of connect and close *)

LEMMA Initially == Init => IInv
<1> SUFFICES ASSUME Init PROVE IInv OBVIOUS
<1>1. call = [r \in Requests |-> Unused] /\ connection = Nil /\ pending = {} BY DEF Init
<1>2. Unused \in Calls /\ Unused.stage = "unused" BY EndNames DEF Unused, Calls
<1>3. ClientType
  <2>1. call \in [Requests -> Calls] BY <1>1, <1>2
  <2> QED BY <2>1 DEF Init, ClientType, Futures
<1>4. StateType BY DEF Init, StateType
<1>5. QueueType BY DEF Init, QueueType
<1>6. ServerType BY DEF Init, ServerType
<1>7. RequestInv
  <2>1. ASSUME NEW r \in Requests PROVE call[r] = Unused /\ call[r].end \notin Doubt
    <3>1. Unused.end = Nil BY DEF Unused
    <3> QED BY <1>1, <3>1, EndNames
  <2>2. \A r \in Requests : future[r] = "open" BY DEF Init
  <2> QED BY <1>1, <1>2, <2>1, <2>2 DEF RequestInv, PendingIsWhoWaits
<1>8. MessageInv BY DEF Init, MessageInv
<1>9. SessionMatchesSnapshot /\ CaughtUp BY DEF Init, SessionMatchesSnapshot, CaughtUp
<1> QED BY <1>3, <1>4, <1>5, <1>6, <1>7, <1>8, <1>9 DEF IInv

\* What a step leaves alone keeps its part of the invariant.
LEMMA MessagesStay ==
  ASSUME ServerType, MessageInv, UNCHANGED <<sent, inbox>>,
         \A r \in Requests : Asked(r) => Asked(r)'
  PROVE  MessageInv'
<1>1. \A r \in Requests : call[r].stage \notin {"unused", "queued"} => call'[r].stage \notin {"unused", "queued"}
  BY DEF Asked
<1>2. ASSUME NEW c \in Sockets, NEW i \in 1..Len(sent[c])
      PROVE  call'[sent[c][i]].stage \notin {"unused", "queued"}
  <2>1. sent[c] \in Seq(Requests) BY DEF ServerType
  <2>2. sent[c][i] \in Requests BY <2>1
  <2> QED BY <1>1, <2>2 DEF MessageInv, Asked
<1>3. ASSUME NEW c \in Sockets, NEW i \in 1..Len(inbox[c]), inbox[c][i].for # Nil
      PROVE  call'[inbox[c][i].for].stage \notin {"unused", "queued"}
  <2>1. inbox[c] \in Seq(Sound) BY DEF ServerType
  <2>2. inbox[c][i] \in Messages BY <2>1 DEF Sound
  <2>3. inbox[c][i].for \in Requests BY <1>3, <2>2 DEF Messages
  <2> QED BY <1>1, <1>3, <2>3 DEF MessageInv, Asked
<1> QED BY <1>2, <1>3 DEF MessageInv, Asked

LEMMA RequestsStay ==
  ASSUME RequestInv, UNCHANGED <<connection, socket, pending, future, call>>
  PROVE  RequestInv'
BY DEF RequestInv, PendingIsWhoWaits

LEMMA UpdatesStay ==
  ASSUME QueueType, CaughtUp, UNCHANGED <<queue, seen, snapshot>>
  PROVE  QueueType' /\ CaughtUp'
BY DEF QueueType, CaughtUp, LatestUpdate

LEMMA CloseKeeps ==
  ASSUME IInv, Close
  PROVE  IInv'
<1> USE DEF IInv
<1>1. /\ LetGo(pending) /\ socket' = [c \in Sockets |-> IF c = connection THEN "closing" ELSE socket[c]]
      /\ UNCHANGED <<reading, call, state, seen, server, inbox>>
  BY DEF Close
<1>2. UNCHANGED <<session, snapshot, sent, seat, owed>> BY <1>1 DEF state, server
<1>3. /\ connection' = Nil /\ pending' = {} /\ future' \in [Requests -> Futures]
      /\ QueueType' /\ CaughtUp'
  BY <1>1, <1>2, LetGoFacts
<1>4. ClientType' BY <1>1, <1>3 DEF ClientType
<1>5. \A c \in Sockets : socket[c] \notin Fresh => socket'[c] \notin Fresh BY <1>1 DEF Fresh
<1>6. RequestInv' BY <1>1, <1>2, <1>5, LetGoKeeps
<1>7. MessageInv' BY <1>1, <1>2, MessagesStay DEF Asked
<1>8. StateType' /\ ServerType' /\ SessionMatchesSnapshot'
  BY <1>1, <1>2 DEF StateType, ServerType, SessionMatchesSnapshot
<1> QED BY <1>3, <1>4, <1>6, <1>7, <1>8

\* Only the queues and what subscribers have seen change.
LEMMA QueuesOnlyKeep ==
  ASSUME IInv, QueueType', CaughtUp',
         UNCHANGED <<connection, reading, socket, pending, future, call, state, server, inbox>>
  PROVE  IInv'
<1> USE DEF IInv
<1>1. UNCHANGED <<session, snapshot, sent, seat, owed>> BY DEF state, server
<1>2. ClientType' BY DEF ClientType
<1>3. StateType' /\ ServerType' /\ SessionMatchesSnapshot'
  BY <1>1 DEF StateType, ServerType, SessionMatchesSnapshot
<1>4. RequestInv' BY RequestsStay
<1>5. MessageInv' BY <1>1, MessagesStay DEF Asked
<1> QED BY <1>2, <1>3, <1>4, <1>5

LEMMA SubscribeKeeps ==
  ASSUME IInv, NEW u \in Subscribers, Subscribe(u)
  PROVE  IInv'
<1> DEFINE first == IF snapshot = Nil THEN <<>> ELSE <<snapshot>>
<1>1. /\ queue' = [queue EXCEPT ![u] = first]
      /\ UNCHANGED <<connection, reading, socket, pending, future, call, state, seen, server, inbox>>
  BY DEF Subscribe
<1>2. /\ first \in Seq(Updates) /\ Len(first) <= QueueSize
      /\ snapshot # Nil => first # <<>> /\ first[Len(first)] = snapshot
  <2>1. CASE snapshot = Nil
    <3>1. first = <<>> BY <2>1
    <3> HIDE DEF first
    <3> QED BY <2>1, <3>1, SomeRoom
  <2>2. CASE snapshot # Nil
    <3>1. snapshot \in Updates BY <2>2 DEF IInv, StateType, Updates
    <3>2. first = <<snapshot>> BY <2>2
    <3> HIDE DEF first
    <3>3. first \in Seq(Updates) /\ Len(first) = 1 /\ first[1] = snapshot BY <3>1, <3>2
    <3> QED BY <3>3, SomeRoom
  <2> QED BY <2>1, <2>2
<1>3. QueueType' BY <1>1, <1>2 DEF IInv, QueueType
<1>4. CaughtUp'
  <2>1. UNCHANGED snapshot BY <1>1 DEF state
  <2>2. ASSUME NEW w \in Subscribers, queue'[w] # Nil, snapshot' # Nil
        PROVE  LatestUpdate(w)' \in {snapshot, Lost}
    <3>1. CASE w = u
      <4>1. queue'[u] = first BY <1>1 DEF IInv, QueueType
      <4> QED BY <1>2, <2>1, <2>2, <3>1, <4>1 DEF LatestUpdate
    <3>2. CASE w # u
      <4>1. queue'[w] = queue[w] BY <1>1, <3>2 DEF IInv, QueueType
      <4> QED BY <1>1, <2>1, <2>2, <4>1 DEF IInv, CaughtUp, LatestUpdate
    <3> QED BY <3>1, <3>2
  <2> QED BY <2>1, <2>2 DEF CaughtUp
<1> QED BY <1>1, <1>3, <1>4, QueuesOnlyKeep

LEMMA NextUpdateKeeps ==
  ASSUME IInv, NEW u \in Subscribers, NextUpdate(u)
  PROVE  IInv'
<1>1. UNCHANGED <<connection, reading, socket, pending, future, call, state, server, inbox>>
  BY DEF NextUpdate
<1>2. UNCHANGED snapshot BY <1>1 DEF state
<1>3. CASE Leave(u)
  <2>1. QueueType' BY <1>3 DEF Leave, IInv, QueueType
  <2>2. CaughtUp' BY <1>2, <1>3 DEF Leave, IInv, QueueType, CaughtUp, LatestUpdate
  <2> QED BY <1>1, <2>1, <2>2, QueuesOnlyKeep
<1>4. CASE /\ queue[u] # <<>> /\ Head(queue[u]) # Lost
           /\ queue' = [queue EXCEPT ![u] = Tail(queue[u])]
           /\ seen' = [seen EXCEPT ![u] = Head(queue[u])]
  <2>1. queue[u] # Nil BY DEF NextUpdate
  <2>2. queue[u] \in Seq(Updates) /\ Len(queue[u]) <= QueueSize BY <2>1 DEF IInv, QueueType
  <2>3. /\ Head(queue[u]) \in Updates /\ Head(queue[u]) = queue[u][1]
        /\ Tail(queue[u]) \in Seq(Updates) /\ Len(Tail(queue[u])) = Len(queue[u]) - 1
        /\ \A i \in 1..(Len(queue[u]) - 1) : Tail(queue[u])[i] = queue[u][i + 1]
    BY <1>4, <2>2
  <2>4. Head(queue[u]) \in Snapshots BY <1>4, <2>3 DEF Updates
  <2>5. /\ queue'[u] = Tail(queue[u]) /\ seen'[u] = Head(queue[u])
        /\ \A w \in Subscribers \ {u} : queue'[w] = queue[w] /\ seen'[w] = seen[w]
    BY <1>4 DEF IInv, QueueType
  <2>6. LatestUpdate(u)' = LatestUpdate(u)
    <3>1. PICK n \in Nat \ {0} : Len(queue[u]) = n BY <1>4, <2>2
    <3>2. Tail(queue[u]) \in Seq(Updates) /\ Len(Tail(queue[u])) = n - 1 BY <2>3, <3>1
    <3>3. CASE n = 1
      <4>1. \A s \in Seq(Updates) : s # <<>> => Len(s) \in Nat \ {0} BY EmptySeq
      <4>2. Len(Tail(queue[u])) = 0 BY <3>2, <3>3
      <4>3. Tail(queue[u]) = <<>> BY <3>2, <4>1, <4>2
      <4> QED BY <1>4, <2>3, <2>5, <3>1, <3>3, <4>3 DEF LatestUpdate
    <3>4. CASE n # 1
      <4>1. Tail(queue[u]) # <<>> BY <3>2, <3>4
      <4>2. n - 1 \in 1..(n - 1) /\ (n - 1) + 1 = n BY <3>4
      <4>3. Tail(queue[u])[n - 1] = queue[u][n] BY <2>3, <3>1, <4>2
      <4> QED BY <1>4, <2>3, <2>5, <3>1, <3>2, <4>1, <4>3 DEF LatestUpdate
    <3> QED BY <3>3, <3>4
  <2>7. QueueType'
    <3>1. seen' \in [Subscribers -> Snapshots \cup {Nil}] BY <1>4, <2>4 DEF IInv, QueueType
    <3>2. DOMAIN queue' = Subscribers BY <1>4 DEF IInv, QueueType
    <3>3. Len(queue[u]) \in Nat /\ QueueSize \in Nat BY <2>2, SomeRoom
    <3> QED BY <2>2, <2>3, <2>5, <3>1, <3>2, <3>3 DEF IInv, QueueType
  <2>8. CaughtUp'
    <3>1. \A w \in Subscribers \ {u} : LatestUpdate(w)' = LatestUpdate(w) BY <2>5 DEF LatestUpdate
    <3> QED BY <1>2, <2>1, <2>5, <2>6, <3>1 DEF IInv, CaughtUp
  <2> QED BY <1>1, <2>7, <2>8, QueuesOnlyKeep
<1> QED BY <1>3, <1>4 DEF NextUpdate

LEMMA DialKeeps ==
  ASSUME IInv, NEW c \in Sockets, Dial(c)
  PROVE  IInv'
<1> USE DEF IInv
<1>1. /\ connection = Nil /\ socket[c] = "unused" /\ socket' = [socket EXCEPT ![c] = "dialling"]
      /\ UNCHANGED <<connection, reading, pending, future, call, session, snapshot, queue, seen, sent, inbox, seat, owed>>
  BY DEF Dial, state, subscriber, server
<1>2. ClientType' BY <1>1 DEF ClientType
<1>3. StateType' /\ ServerType' /\ SessionMatchesSnapshot'
  BY <1>1 DEF StateType, ServerType, SessionMatchesSnapshot
<1>4. QueueType' /\ CaughtUp' BY <1>1, UpdatesStay
<1>5. MessageInv' BY <1>1, MessagesStay DEF Asked
<1>6. \A s \in Sockets : socket[s] \notin Fresh => socket'[s] \notin Fresh
  BY <1>1 DEF ClientType, Fresh
<1>7. RequestInv' BY <1>1, <1>6 DEF RequestInv, PendingIsWhoWaits
<1> QED BY <1>2, <1>3, <1>4, <1>5, <1>7

\* A socket that has just been dialled is no call's own.
LEMMA ConnectedKeeps ==
  ASSUME IInv, NEW c \in Sockets, Connected(c)
  PROVE  IInv'
<1> USE DEF IInv
<1>1. /\ socket[c] = "dialling"
      /\ UNCHANGED <<pending, future, call, session, snapshot, queue, seen, sent, inbox, seat, owed>>
  BY DEF Connected, state, subscriber, server
<1>2. \/ socket' = [socket EXCEPT ![c] = "open"] /\ connection' = c /\ reading' = reading \cup {c}
      \/ socket' = [socket EXCEPT ![c] = "closed"] /\ UNCHANGED <<connection, reading>>
  BY DEF Connected
<1>3. ClientType' BY <1>1, <1>2 DEF ClientType
<1>4. StateType' /\ ServerType' /\ SessionMatchesSnapshot'
  BY <1>1 DEF StateType, ServerType, SessionMatchesSnapshot
<1>5. QueueType' /\ CaughtUp' BY <1>1, UpdatesStay
<1>6. MessageInv' BY <1>1, MessagesStay DEF Asked
<1>7. /\ socket'[c] \notin Fresh
      /\ \A s \in Sockets : socket[s] \notin Fresh => socket'[s] \notin Fresh
  BY <1>2 DEF ClientType, Fresh
<1>8. RequestInv'
  <2>1. \A r \in Requests : call[r].stage # "unused" => call[r].on # c
    BY <1>1 DEF RequestInv, Fresh
  <2>2. \A r \in Requests : call[r].end \in Doubt => call[r].stage # "unused" BY DoubtMeansUsed
  <2>3. connection' = c \/ connection' = connection BY <1>2
  <2>4. connection' # Nil => socket'[connection'] \notin Fresh
    BY <1>7, <2>3 DEF ClientType, RequestInv
  <2>5. PendingIsWhoWaits' BY <1>1 DEF RequestInv, PendingIsWhoWaits
  <2>6. ASSUME NEW r \in Requests
        PROVE  /\ call[r].stage = "unused" => call[r] = Unused /\ future[r] = "open"
               /\ call[r].stage # "unused" => call[r].on \in Sockets /\ socket'[call[r].on] \notin Fresh
               /\ call[r].stage = "queued" /\ connection' = call[r].on => future[r] = "open"
               /\ call[r].end \in Doubt => connection' # call[r].on
    BY <1>7, <2>1, <2>2, <2>3 DEF RequestInv
  <2> QED BY <1>1, <2>4, <2>5, <2>6 DEF RequestInv
<1> QED BY <1>3, <1>4, <1>5, <1>6, <1>8

LEMMA LoseSocketKeeps ==
  ASSUME IInv, NEW c \in Sockets, LoseSocket(c)
  PROVE  IInv'
<1> USE DEF IInv
<1>1. /\ socket' = [socket EXCEPT ![c] = "lost"] /\ sent' = [sent EXCEPT ![c] = <<>>]
      /\ seat' = [seat EXCEPT ![c] = Nil] /\ owed' = [owed EXCEPT ![c] = Nil]
      /\ UNCHANGED <<connection, reading, pending, future, call, session, snapshot, queue, seen, inbox>>
  BY DEF LoseSocket, state, subscriber
<1>2. ClientType' BY <1>1 DEF ClientType
<1>3. StateType' /\ SessionMatchesSnapshot' BY <1>1 DEF StateType, SessionMatchesSnapshot
<1>4. ServerType' BY <1>1 DEF ServerType
<1>5. QueueType' /\ CaughtUp' BY <1>1, UpdatesStay
<1>6. \A s \in Sockets : socket[s] \notin Fresh => socket'[s] \notin Fresh
  BY <1>1 DEF ClientType, Fresh
<1>7. RequestInv' BY <1>1, <1>6 DEF RequestInv, PendingIsWhoWaits
<1>8. MessageInv'
  <2>1. \A s \in Sockets : sent'[s] = IF s = c THEN <<>> ELSE sent[s] BY <1>1 DEF ServerType
  <2> QED BY <1>1, <2>1 DEF MessageInv, Asked
<1> QED BY <1>2, <1>3, <1>4, <1>5, <1>7, <1>8

LEMMA ClosedKeeps ==
  ASSUME IInv, NEW c \in Sockets, Closed(c)
  PROVE  IInv'
<1> USE DEF IInv
<1>1. /\ socket' = [socket EXCEPT ![c] = "closed"] /\ reading' = reading \ {c}
      /\ sent' = [sent EXCEPT ![c] = <<>>] /\ inbox' = [inbox EXCEPT ![c] = <<>>]
      /\ seat' = [seat EXCEPT ![c] = Nil] /\ owed' = [owed EXCEPT ![c] = Nil]
      /\ UNCHANGED <<connection, pending, future, session, snapshot, queue, seen>>
  BY DEF Closed, state, subscriber
<1>2. call' = [r \in Requests |-> IF call[r].stage = "dropping" /\ call[r].on = c
                                  THEN [call[r] EXCEPT !.stage = "ended"] ELSE call[r]]
  BY DEF Closed
<1>3. ASSUME NEW r \in Requests
      PROVE  \/ call'[r] = call[r]
             \/ /\ call[r].stage = "dropping" /\ call'[r].stage = "ended" /\ call'[r] \in Calls
                /\ call'[r].on = call[r].on /\ call'[r].end = call[r].end
  <2>1. call[r] \in Calls BY DEF ClientType
  <2> QED BY <1>2, <2>1 DEF Calls
<1>4. ClientType'
  <2>1. call' \in [Requests -> Calls] BY <1>2, <1>3 DEF ClientType
  <2> QED BY <1>1, <2>1 DEF ClientType
<1>5. StateType' /\ SessionMatchesSnapshot' BY <1>1 DEF StateType, SessionMatchesSnapshot
<1>6. ServerType' BY <1>1 DEF ServerType
<1>7. QueueType' /\ CaughtUp' BY <1>1, UpdatesStay
<1>8. \A s \in Sockets : socket[s] \notin Fresh => socket'[s] \notin Fresh
  BY <1>1 DEF ClientType, Fresh
<1>9. RequestInv' BY <1>1, <1>3, <1>8 DEF RequestInv, PendingIsWhoWaits
<1>10. MessageInv'
  <2>1. \A s \in Sockets : /\ sent'[s] = IF s = c THEN <<>> ELSE sent[s]
                           /\ inbox'[s] = IF s = c THEN <<>> ELSE inbox[s]
    BY <1>1 DEF ServerType
  <2>2. ASSUME NEW s \in Sockets, NEW i \in 1..Len(sent'[s])
        PROVE  call'[sent'[s][i]].stage \notin {"unused", "queued"}
    <3>1. s # c /\ sent'[s] = sent[s] BY <2>1, <2>2
    <3>2. sent[s] \in Seq(Requests) BY DEF ServerType
    <3>3. sent[s][i] \in Requests /\ call[sent[s][i]].stage \notin {"unused", "queued"}
      BY <2>2, <3>1, <3>2 DEF MessageInv, Asked
    <3> QED BY <1>3, <3>1, <3>3
  <2>3. ASSUME NEW s \in Sockets, NEW i \in 1..Len(inbox'[s]), inbox'[s][i].for # Nil
        PROVE  call'[inbox'[s][i].for].stage \notin {"unused", "queued"}
    <3>1. s # c /\ inbox'[s] = inbox[s] BY <2>1, <2>3
    <3>2. inbox[s] \in Seq(Sound) BY DEF ServerType
    <3>3. inbox[s][i] \in Messages BY <2>3, <3>1, <3>2 DEF Sound
    <3>4. inbox[s][i].for \in Requests BY <2>3, <3>1, <3>3 DEF Messages
    <3>5. call[inbox[s][i].for].stage \notin {"unused", "queued"}
      BY <2>3, <3>1 DEF MessageInv, Asked
    <3> QED BY <1>3, <3>1, <3>4, <3>5
  <2> QED BY <2>2, <2>3 DEF MessageInv, Asked
<1> QED BY <1>4, <1>5, <1>6, <1>7, <1>9, <1>10

-----------------------------------------------------------------------------
(* The steps of a request *)

LEMMA FailKeeps ==
  ASSUME IInv, NEW r \in Requests, NEW c \in Sockets, socket[c] \notin Fresh,
         NEW game \in Games \cup {Nil}, NEW end \in Failures,
         Fail(r, c, game, end),
         UNCHANGED <<reading, session, snapshot, seen, sent, inbox, seat, owed>>
  PROVE  IInv'
<1> USE DEF IInv
<1>1. /\ ClientType' /\ QueueType' /\ RequestInv' /\ CaughtUp'
      /\ Asked(r)' /\ \A x \in Requests \ {r} : call'[x] = call[x]
  <2>1. ClientType /\ QueueType /\ RequestInv /\ CaughtUp OBVIOUS
  <2>2. UNCHANGED <<reading, seen, snapshot>> OBVIOUS
  <2> HIDE DEF IInv
  <2> QED BY <2>1, <2>2, FailFacts
<1>2. \A x \in Requests : Asked(x) => Asked(x)' BY <1>1 DEF Asked
<1>3. MessageInv' BY <1>2, MessagesStay
<1>4. StateType' /\ ServerType' /\ SessionMatchesSnapshot'
  BY DEF StateType, ServerType, SessionMatchesSnapshot
<1> QED BY <1>1, <1>3, <1>4

\* One call moves on; the client's connection and the future of the call stay.
LEMMA MovesOn ==
  ASSUME IInv, NEW r \in Requests, NEW after \in Calls,
         call' = [call EXCEPT ![r] = after], after.stage # "unused",
         after.on \in Sockets, socket[after.on] \notin Fresh,
         after.stage = "queued" /\ connection = after.on => future[r] = "open",
         after.end \in Doubt => connection # after.on,
         Asked(r) => Asked(r)',
         pending' \subseteq Requests, \A x \in Requests \ {r} : x \in pending' <=> x \in pending,
         r \in pending' <=> after.stage \in {"queued", "sending", "waiting"} /\ future[r] = "open",
         UNCHANGED <<connection, reading, socket, future, queue, seen, session, snapshot>>
  PROVE  /\ ClientType' /\ QueueType' /\ RequestInv' /\ CaughtUp' /\ StateType' /\ SessionMatchesSnapshot'
         /\ \A x \in Requests : Asked(x) => Asked(x)'
         /\ call'[r] = after
<1> USE DEF IInv
<1>1. call'[r] = after /\ \A x \in Requests \ {r} : call'[x] = call[x] BY DEF ClientType
<1>2. ClientType' BY DEF ClientType
<1>3. QueueType' /\ CaughtUp' BY UpdatesStay
<1>4. PendingIsWhoWaits' BY <1>1 DEF RequestInv, PendingIsWhoWaits
<1>5. RequestInv' BY <1>1, <1>4 DEF RequestInv
<1>6. \A x \in Requests : Asked(x) => Asked(x)' BY <1>1 DEF Asked
<1>7. StateType' /\ SessionMatchesSnapshot' BY DEF StateType, SessionMatchesSnapshot
<1> QED BY <1>1, <1>2, <1>3, <1>5, <1>6, <1>7

LEMMA TransmitKeeps ==
  ASSUME IInv, NEW r \in Requests, NEW c \in Sockets, connection = c,
         NEW game \in Games \cup {Nil}, future[r] = "open", Transmit(r, c, game),
         UNCHANGED <<reading, session, snapshot, seen, inbox, seat, owed>>
  PROVE  IInv'
<1> USE DEF IInv
<1>1. socket[c] \notin Fresh BY DEF RequestInv, ClientType
<1>2. CASE socket[c] # "open" /\ Fail(r, c, game, "lost") /\ UNCHANGED sent
  BY <1>1, <1>2, FailureNames, FailKeeps
<1>3. CASE /\ sent' = [sent EXCEPT ![c] = Append(sent[c], r)]
           /\ call' = [call EXCEPT ![r] = [stage |-> "sending", on |-> c, game |-> game, end |-> Nil]]
           /\ pending' = pending \cup {r}
           /\ UNCHANGED <<connection, future, queue, socket>>
  <2> DEFINE after == [stage |-> "sending", on |-> c, game |-> game, end |-> Nil]
  <2>1. after \in Calls /\ after.stage = "sending" /\ after.on = c /\ after.end \notin Doubt
    BY EndNames DEF Calls
  <2>2. call' = [call EXCEPT ![r] = after] BY <1>3
  <2> HIDE DEF after
  <2>3. pending' \subseteq Requests BY <1>3 DEF ClientType
  <2>4. Asked(r)' BY <2>1, <2>2 DEF Asked, ClientType
  <2>5. /\ ClientType' /\ QueueType' /\ RequestInv' /\ CaughtUp' /\ StateType' /\ SessionMatchesSnapshot'
        /\ \A x \in Requests : Asked(x) => Asked(x)'
    BY <1>1, <1>3, <2>1, <2>2, <2>3, <2>4, MovesOn
  <2>6. sent[c] \in Seq(Requests) /\ inbox \in [Sockets -> Seq(Sound)] BY DEF ServerType
  <2>7. /\ Append(sent[c], r) \in Seq(Requests) /\ Len(Append(sent[c], r)) = Len(sent[c]) + 1
        /\ \A i \in 1..Len(sent[c]) : Append(sent[c], r)[i] = sent[c][i]
        /\ Append(sent[c], r)[Len(sent[c]) + 1] = r /\ Len(sent[c]) \in Nat
    BY <2>6
  <2>8. \A s \in Sockets : sent'[s] = IF s = c THEN Append(sent[c], r) ELSE sent[s]
    BY <1>3 DEF ServerType
  <2>9. ServerType' BY <1>3, <2>7 DEF ServerType
  <2>10. MessageInv'
    <3>1. \A x \in Requests : call[x].stage \notin {"unused", "queued"} => call'[x].stage \notin {"unused", "queued"}
      BY <2>5 DEF Asked
    <3>2. ASSUME NEW s \in Sockets, NEW i \in 1..Len(sent'[s])
          PROVE  call'[sent'[s][i]].stage \notin {"unused", "queued"}
      <4>1. CASE s # c
        <5>1. sent'[s] = sent[s] /\ sent[s] \in Seq(Requests) BY <2>8, <4>1 DEF ServerType
        <5>2. sent[s][i] \in Requests /\ call[sent[s][i]].stage \notin {"unused", "queued"}
          BY <3>2, <5>1 DEF MessageInv, Asked
        <5> QED BY <3>1, <5>1, <5>2
      <4>2. CASE s = c /\ i \in 1..Len(sent[c])
        <5>1. sent'[s][i] = sent[c][i] BY <2>7, <2>8, <4>2
        <5>2. sent[c][i] \in Requests /\ call[sent[c][i]].stage \notin {"unused", "queued"}
          BY <2>6, <4>2 DEF MessageInv, Asked
        <5> QED BY <3>1, <5>1, <5>2
      <4>3. CASE s = c /\ i = Len(sent[c]) + 1
        <5>1. sent'[s][i] = r BY <2>7, <2>8, <4>3
        <5> QED BY <2>4, <5>1 DEF Asked
      <4>4. ASSUME s = c PROVE i \in 1..Len(sent[c]) \/ i = Len(sent[c]) + 1
        <5>1. PICK n \in Nat : Len(sent[c]) = n BY <2>7
        <5>2. Len(sent'[s]) = n + 1 BY <2>7, <2>8, <4>4, <5>1
        <5>3. i \in 1..(n + 1) BY <3>2, <5>2
        <5> QED BY <5>1, <5>3
      <4> QED BY <4>1, <4>2, <4>3, <4>4
    <3>3. ASSUME NEW s \in Sockets, NEW i \in 1..Len(inbox[s]), inbox[s][i].for # Nil
          PROVE  call'[inbox[s][i].for].stage \notin {"unused", "queued"}
      <4>1. inbox[s] \in Seq(Sound) BY <2>6
      <4>2. inbox[s][i] \in Messages BY <4>1 DEF Sound
      <4>3. inbox[s][i].for \in Requests BY <3>3, <4>2 DEF Messages
      <4> QED BY <3>1, <3>3, <4>3 DEF MessageInv, Asked
    <3> QED BY <3>2, <3>3 DEF MessageInv, Asked
  <2> QED BY <2>5, <2>9, <2>10
<1> QED BY <1>2, <1>3 DEF Transmit

LEMMA RequestKeeps ==
  ASSUME IInv, NEW r \in Requests, NEW game \in Games \cup {Nil}, Request(r, game)
  PROVE  IInv'
<1> USE DEF IInv
<1>1. /\ call[r] = Unused /\ connection \in Sockets /\ socket[connection] \notin Fresh
      /\ UNCHANGED <<reading, session, snapshot, seen, inbox, seat, owed>>
  BY DEF Request, state, ClientType, RequestInv
<1>2. call[r].stage = "unused" /\ future[r] = "open"
  <2>1. call[r].stage = "unused" BY <1>1 DEF Unused
  <2> QED BY <2>1 DEF RequestInv
<1>3. CASE Transmit(r, connection, game)
  BY <1>1, <1>2, <1>3, TransmitKeeps
<1>4. CASE /\ call' = [call EXCEPT ![r] = [stage |-> "queued", on |-> connection, game |-> game, end |-> Nil]]
           /\ pending' = pending \cup {r}
           /\ UNCHANGED <<connection, future, queue, socket, sent>>
  <2> DEFINE after == [stage |-> "queued", on |-> connection, game |-> game, end |-> Nil]
  <2>1. after \in Calls /\ after.stage = "queued" /\ after.on = connection /\ after.end \notin Doubt
    BY <1>1, EndNames DEF Calls
  <2>2. call' = [call EXCEPT ![r] = after] BY <1>4
  <2> HIDE DEF after
  <2>3. pending' \subseteq Requests BY <1>4 DEF ClientType
  <2>4. Asked(r) => Asked(r)' BY <1>2 DEF Asked
  <2>5. /\ ClientType' /\ QueueType' /\ RequestInv' /\ CaughtUp' /\ StateType' /\ SessionMatchesSnapshot'
        /\ \A x \in Requests : Asked(x) => Asked(x)'
    BY <1>1, <1>2, <1>4, <2>1, <2>2, <2>3, <2>4, MovesOn
  <2>6. ServerType' BY <1>1, <1>4 DEF ServerType
  <2>7. MessageInv' BY <1>1, <1>4, <2>5, MessagesStay
  <2> QED BY <2>5, <2>6, <2>7
<1> QED BY <1>3, <1>4 DEF Request

LEMMA UsedHasSocket ==
  ASSUME IInv, NEW r \in Requests, call[r].stage # "unused"
  PROVE  /\ call[r] \in Calls /\ call[r].on \in Sockets /\ socket[call[r].on] \notin Fresh
         /\ call[r].game \in Games \cup {Nil} /\ (call[r].end \in Doubt => connection # call[r].on)
<1>1. call[r] \in Calls BY DEF IInv, ClientType
<1> QED BY <1>1 DEF IInv, RequestInv, Calls

\* A call ends, or goes on to wait, and is pending as long as it waits.
LEMMA EndsOrWaits ==
  ASSUME IInv, NEW r \in Requests, Asked(r) \/ call[r].stage = "queued",
         NEW stage \in {"waiting", "ended"}, NEW end,
         end \in {call[r].end, "lost", "refused", "snapshot"},
         call' = [call EXCEPT ![r].stage = stage, ![r].end = end],
         pending' = IF stage = "ended" THEN pending \ {r} ELSE pending,
         stage = "waiting" => call[r].stage = "sending",
         UNCHANGED <<connection, reading, socket, future, queue, seen, session, snapshot, sent, inbox, seat, owed>>
  PROVE  IInv'
<1> DEFINE after == [call[r] EXCEPT !.stage = stage, !.end = end]
<1>1. call[r].stage # "unused" BY DEF Asked
<1>2. /\ call[r] \in Calls /\ call[r].on \in Sockets /\ socket[call[r].on] \notin Fresh
      /\ (call[r].end \in Doubt => connection # call[r].on)
  BY <1>1, UsedHasSocket
<1>3. after \in Calls /\ after.stage = stage /\ after.on = call[r].on /\ after.end = end
  <2>1. end \in Ends BY <1>2, EndNames DEF Calls
  <2> QED BY <1>2, <2>1 DEF Calls
<1>4. call' = [call EXCEPT ![r] = after] BY DEF IInv, ClientType
<1> HIDE DEF after
<1>5. after.end \in Doubt => connection # after.on
  <2>1. end \in {"lost", "refused", "snapshot"} => end \notin Doubt BY EndNames
  <2> QED BY <1>2, <1>3, <2>1
<1>6. pending' \subseteq Requests BY DEF IInv, ClientType
<1>7. Asked(r)' BY <1>3, <1>4 DEF Asked, IInv, ClientType
<1>8. /\ r \in pending' <=> after.stage \in {"queued", "sending", "waiting"} /\ future[r] = "open"
      /\ \A x \in Requests \ {r} : x \in pending' <=> x \in pending
  BY <1>3 DEF IInv, RequestInv, PendingIsWhoWaits
<1>9. /\ ClientType' /\ QueueType' /\ RequestInv' /\ CaughtUp' /\ StateType' /\ SessionMatchesSnapshot'
      /\ \A x \in Requests : Asked(x) => Asked(x)'
  BY <1>2, <1>3, <1>4, <1>5, <1>6, <1>7, <1>8, MovesOn
<1>10. ServerType' BY DEF IInv, ServerType
<1>11. MessageInv' BY <1>9, MessagesStay DEF IInv
<1> QED BY <1>9, <1>10, <1>11 DEF IInv

LEMMA AcquireKeeps ==
  ASSUME IInv, NEW r \in Requests, Acquire(r)
  PROVE  IInv'
<1>1. call[r].stage = "queued" BY DEF Acquire
<1>2. UNCHANGED <<reading, session, snapshot, seen, inbox, seat, owed>> BY DEF Acquire, state
<1>3. /\ call[r] \in Calls /\ call[r].on \in Sockets /\ call[r].game \in Games \cup {Nil}
  BY <1>1, UsedHasSocket
<1>4. CASE connection = call[r].on /\ Transmit(r, connection, call[r].game)
  <2>1. future[r] = "open" BY <1>1, <1>4 DEF IInv, RequestInv
  <2> QED BY <1>2, <1>3, <1>4, <2>1, TransmitKeeps
<1>5. CASE /\ pending' = pending \ {r}
           /\ call' = [call EXCEPT ![r].stage = "ended", ![r].end = "lost"]
           /\ UNCHANGED <<connection, future, queue, socket, sent>>
  BY <1>1, <1>2, <1>5, EndsOrWaits
<1> QED BY <1>4, <1>5 DEF Acquire

\* A call that waits, or is being sent, fails.
LEMMA GivesUp ==
  ASSUME IInv, NEW r \in Requests, call[r].stage \in {"queued", "sending", "waiting"},
         NEW end \in Failures, Fail(r, call[r].on, call[r].game, end),
         UNCHANGED <<reading, state, seen, server, inbox>>
  PROVE  IInv'
<1>1. /\ call[r].on \in Sockets /\ socket[call[r].on] \notin Fresh /\ call[r].game \in Games \cup {Nil}
  BY UsedHasSocket
<1>2. UNCHANGED <<reading, session, snapshot, seen, sent, inbox, seat, owed>> BY DEF state, server
<1> QED BY <1>1, <1>2, FailKeeps

LEMMA SentKeeps ==
  ASSUME IInv, NEW r \in Requests, Sent(r)
  PROVE  IInv'
<1>1. call[r].stage = "sending" /\ UNCHANGED <<reading, state, seen, server, inbox>> BY DEF Sent
<1>2. CASE /\ call' = [call EXCEPT ![r].stage = "waiting"]
           /\ UNCHANGED <<connection, pending, future, queue, socket>>
  <2>1. call[r] \in Calls BY <1>1, UsedHasSocket
  <2>2. [call[r] EXCEPT !.stage = "waiting"] = [call[r] EXCEPT !.stage = "waiting", !.end = call[r].end]
    BY <2>1 DEF Calls
  <2>3. call' = [call EXCEPT ![r].stage = "waiting", ![r].end = call[r].end]
    BY <1>2, <2>2
  <2>4. UNCHANGED <<session, snapshot, sent, seat, owed>> BY <1>1 DEF state, server
  <2>5. Asked(r) BY <1>1 DEF Asked
  <2> QED BY <1>1, <1>2, <2>3, <2>4, <2>5, EndsOrWaits
<1>3. CASE Fail(r, call[r].on, call[r].game, "lost")
  BY <1>1, <1>3, FailureNames, GivesUp
<1> QED BY <1>2, <1>3 DEF Sent

LEMMA ReturnKeeps ==
  ASSUME IInv, NEW r \in Requests, Return(r)
  PROVE  IInv'
<1>1. /\ call[r].stage = "waiting" /\ future[r] # "open" /\ pending' = pending \ {r}
      /\ call' = [call EXCEPT ![r].stage = "ended", ![r].end = future[r]]
      /\ UNCHANGED <<connection, reading, socket, future, queue, seen, session, snapshot, sent, inbox, seat, owed>>
  BY DEF Return, state, subscriber, server
<1>2. future[r] \in {"lost", "refused", "snapshot"} BY <1>1 DEF IInv, ClientType, Futures
<1>3. Asked(r) BY <1>1 DEF Asked
<1> QED BY <1>1, <1>2, <1>3, EndsOrWaits

LEMMA TimeoutKeeps ==
  ASSUME IInv, NEW r \in Requests, Timeout(r)
  PROVE  IInv'
<1>1. \E end \in Failures : Fail(r, call[r].on, call[r].game, end)
  BY FailureNames, Zenon DEF Timeout
<1>2. call[r].stage = "waiting" /\ UNCHANGED <<reading, state, seen, server, inbox>>
  BY Zenon DEF Timeout
<1> QED BY <1>1, <1>2, GivesUp

LEMMA CancelKeeps ==
  ASSUME IInv, NEW r \in Requests, Cancel(r)
  PROVE  IInv'
<1>1. \E end \in Failures : Fail(r, call[r].on, call[r].game, end)
  BY FailureNames, Zenon DEF Cancel
<1>2. /\ call[r].stage \in {"queued", "sending", "waiting"}
      /\ UNCHANGED <<reading, state, seen, server, inbox>>
  BY Zenon DEF Cancel
<1> QED BY <1>1, <1>2, GivesUp

-----------------------------------------------------------------------------
(* The steps of the server *)

\* The client stays as it is: only what is on the way changes.
LEMMA ClientStays ==
  ASSUME IInv, ServerType', MessageInv', UNCHANGED client
  PROVE  IInv'
<1>1. UNCHANGED <<connection, reading, socket, pending, future, call, session, snapshot, queue, seen>>
  BY DEF client, state, subscriber
<1>2. ClientType' BY <1>1 DEF IInv, ClientType
<1>3. StateType' /\ SessionMatchesSnapshot' BY <1>1 DEF IInv, StateType, SessionMatchesSnapshot
<1>4. QueueType' /\ CaughtUp' BY <1>1, UpdatesStay DEF IInv
<1>5. RequestInv' BY <1>1, RequestsStay DEF IInv
<1> QED BY <1>2, <1>3, <1>4, <1>5 DEF IInv

\* A request is answered or not, and a message may be added, for a call the server was asked by.
LEMMA ServerMoves ==
  ASSUME IInv, UNCHANGED call, NEW c \in Sockets,
         \/ UNCHANGED sent
         \/ sent[c] # <<>> /\ sent' = [sent EXCEPT ![c] = Tail(sent[c])],
         \/ UNCHANGED inbox
         \/ \E m \in Sound : /\ inbox' = [inbox EXCEPT ![c] = Append(inbox[c], m)]
                             /\ m.for # Nil => Asked(m.for)
  PROVE  /\ MessageInv' /\ sent' \in [Sockets -> Seq(Requests)] /\ inbox' \in [Sockets -> Seq(Sound)]
<1>1. /\ sent \in [Sockets -> Seq(Requests)] /\ inbox \in [Sockets -> Seq(Sound)] /\ MessageInv
  BY DEF IInv, ServerType
<1>2. /\ sent' \in [Sockets -> Seq(Requests)]
      /\ \A s \in Sockets : \A i \in 1..Len(sent'[s]) : call'[sent'[s][i]].stage \notin {"unused", "queued"}
  <2>1. CASE UNCHANGED sent BY <1>1, <2>1 DEF MessageInv, Asked
  <2>2. CASE sent[c] # <<>> /\ sent' = [sent EXCEPT ![c] = Tail(sent[c])]
    <3>1. PICK n \in Nat : Len(sent[c]) = n + 1
      <4>1. PICK k \in Nat \ {0} : Len(sent[c]) = k BY <1>1, <2>2
      <4>2. k - 1 \in Nat /\ k = (k - 1) + 1 OBVIOUS
      <4> QED BY <4>1, <4>2
    <3>2. /\ Tail(sent[c]) \in Seq(Requests) /\ Len(Tail(sent[c])) = n
          /\ \A i \in 1..n : Tail(sent[c])[i] = sent[c][i + 1]
      BY <1>1, <2>2, <3>1
    <3>3. \A s \in Sockets : sent'[s] = IF s = c THEN Tail(sent[c]) ELSE sent[s] BY <1>1, <2>2
    <3>4. sent' \in [Sockets -> Seq(Requests)] BY <1>1, <2>2, <3>2
    <3>5. ASSUME NEW i \in 1..n PROVE call[Tail(sent[c])[i]].stage \notin {"unused", "queued"}
      <4>1. i + 1 \in 1..(n + 1) BY <3>5
      <4> QED BY <1>1, <3>1, <3>2, <3>5, <4>1 DEF MessageInv, Asked
    <3> QED BY <1>1, <3>2, <3>3, <3>4, <3>5 DEF MessageInv, Asked
  <2> QED BY <2>1, <2>2
<1>3. /\ inbox' \in [Sockets -> Seq(Sound)]
      /\ \A s \in Sockets : \A i \in 1..Len(inbox'[s]) :
           inbox'[s][i].for # Nil => call'[inbox'[s][i].for].stage \notin {"unused", "queued"}
  <2>1. CASE UNCHANGED inbox BY <1>1, <2>1 DEF MessageInv, Asked
  <2>2. ASSUME NEW m \in Sound, inbox' = [inbox EXCEPT ![c] = Append(inbox[c], m)], m.for # Nil => Asked(m.for)
        PROVE  /\ inbox' \in [Sockets -> Seq(Sound)]
               /\ \A s \in Sockets : \A i \in 1..Len(inbox'[s]) :
                    inbox'[s][i].for # Nil => call'[inbox'[s][i].for].stage \notin {"unused", "queued"}
    <3>1. PICK n \in Nat : Len(inbox[c]) = n BY <1>1
    <3>2. /\ Append(inbox[c], m) \in Seq(Sound) /\ Len(Append(inbox[c], m)) = n + 1
          /\ \A i \in 1..n : Append(inbox[c], m)[i] = inbox[c][i]
          /\ Append(inbox[c], m)[n + 1] = m
      BY <1>1, <3>1
    <3>3. \A s \in Sockets : inbox'[s] = IF s = c THEN Append(inbox[c], m) ELSE inbox[s] BY <1>1, <2>2
    <3>4. inbox' \in [Sockets -> Seq(Sound)] BY <1>1, <2>2, <3>2
    <3>5. ASSUME NEW i \in 1..(n + 1), Append(inbox[c], m)[i].for # Nil
          PROVE  call[Append(inbox[c], m)[i].for].stage \notin {"unused", "queued"}
      <4>1. i = n + 1 \/ i \in 1..n BY <3>5
      <4> QED BY <1>1, <2>2, <3>1, <3>2, <3>5, <4>1 DEF MessageInv, Asked
    <3> QED BY <1>1, <3>2, <3>3, <3>4, <3>5 DEF MessageInv, Asked
  <2> QED BY <2>1, <2>2
<1> QED BY <1>2, <1>3 DEF MessageInv, Asked

LEMMA AdmitKeeps ==
  ASSUME IInv, NEW c \in Sockets, Admit(c)
  PROVE  IInv'
<1>1. /\ sent[c] # <<>> /\ call[Head(sent[c])].game # Nil
      /\ seat' = [seat EXCEPT ![c] = call[Head(sent[c])].game]
      /\ owed' = [owed EXCEPT ![c] = Head(sent[c])]
      /\ UNCHANGED <<client, call, sent, inbox>>
  BY DEF Admit, client
<1>2. Head(sent[c]) \in Requests
  <2>1. sent[c] \in Seq(Requests) BY DEF IInv, ServerType
  <2> QED BY <1>1, <2>1
<1>3. call[Head(sent[c])].game \in Games BY <1>1, <1>2 DEF IInv, ClientType, Calls
<1>4. ServerType' BY <1>1, <1>2, <1>3 DEF IInv, ServerType
<1>5. MessageInv' BY <1>1, ServerMoves
<1> QED BY <1>1, <1>4, <1>5, ClientStays

\* The first request on a socket has been written there.
LEMMA FirstWasAsked ==
  ASSUME IInv, NEW c \in Sockets, sent[c] # <<>>
  PROVE  Head(sent[c]) \in Requests /\ Asked(Head(sent[c]))
<1>1. sent[c] \in Seq(Requests) BY DEF IInv, ServerType
<1>2. Head(sent[c]) \in Requests /\ Head(sent[c]) = sent[c][1] /\ 1 \in 1..Len(sent[c]) BY <1>1
<1> QED BY <1>2 DEF IInv, MessageInv, Asked

LEMMA ReplyKeeps ==
  ASSUME IInv, NEW c \in Sockets, Reply(c)
  PROVE  IInv'
<1> DEFINE r == Head(sent[c])
           entered == call[r].game # Nil
<1>1. /\ sent[c] # <<>> /\ seat[c] # Nil /\ UNCHANGED <<client, call, seat>>
      /\ sent' = [sent EXCEPT ![c] = Tail(sent[c])] /\ owed' = [owed EXCEPT ![c] = Nil]
  BY DEF Reply, client
<1>2. PICK v \in 1..MaxVersion : Deliver(c, Says(seat[c], v, r, entered)) BY Zenon DEF Reply
<1>3. r \in Requests /\ Asked(r) BY <1>1, FirstWasAsked
<1>4. seat[c] \in Games /\ v \in Nat /\ entered \in BOOLEAN
  <2>1. seat[c] \in Games BY <1>1 DEF IInv, ServerType
  <2>2. v \in Nat BY <1>2
  <2>3. entered \in BOOLEAN OBVIOUS
  <2> QED BY <2>1, <2>2, <2>3
<1> HIDE DEF r, entered
<1>5. Says(seat[c], v, r, entered) \in Sound /\ Says(seat[c], v, r, entered).for = r
  BY <1>3, <1>4 DEF Says, Sound, Messages
<1>6. inbox' = [inbox EXCEPT ![c] = Append(inbox[c], Says(seat[c], v, r, entered))]
  BY <1>2 DEF Deliver
<1>7. \E m \in Sound : inbox' = [inbox EXCEPT ![c] = Append(inbox[c], m)] /\ (m.for # Nil => Asked(m.for))
  BY <1>3, <1>5, <1>6
<1>8. /\ MessageInv' /\ sent' \in [Sockets -> Seq(Requests)] /\ inbox' \in [Sockets -> Seq(Sound)]
  BY <1>1, <1>7, ServerMoves
<1>9. ServerType' BY <1>1, <1>8 DEF IInv, ServerType
<1> QED BY <1>1, <1>8, <1>9, ClientStays

LEMMA ComplaintIsSound ==
  ASSUME NEW r \in Requests \cup {Nil}
  PROVE  Complains(r) \in Sound /\ Complains(r).for = r
BY DEF Complains, Sound, Messages

LEMMA RefuseKeeps ==
  ASSUME IInv, NEW c \in Sockets, Refuse(c)
  PROVE  IInv'
<1> DEFINE r == Head(sent[c])
<1>1. /\ sent[c] # <<>> /\ UNCHANGED <<client, call, seat, owed>>
      /\ sent' = [sent EXCEPT ![c] = Tail(sent[c])]
      /\ inbox' = [inbox EXCEPT ![c] = Append(inbox[c], Complains(r))]
  BY DEF Refuse, client, Deliver
<1>2. r \in Requests /\ Asked(r) BY <1>1, FirstWasAsked
<1> HIDE DEF r
<1>3. \E m \in Sound : inbox' = [inbox EXCEPT ![c] = Append(inbox[c], m)] /\ (m.for # Nil => Asked(m.for))
  BY <1>1, <1>2, ComplaintIsSound
<1>4. /\ MessageInv' /\ sent' \in [Sockets -> Seq(Requests)] /\ inbox' \in [Sockets -> Seq(Sound)]
  BY <1>1, <1>3, ServerMoves
<1>5. ServerType' BY <1>1, <1>4 DEF IInv, ServerType
<1> QED BY <1>1, <1>4, <1>5, ClientStays

LEMMA BroadcastKeeps ==
  ASSUME IInv, NEW c \in Sockets, Broadcast(c)
  PROVE  IInv'
<1>1. seat[c] \in Games /\ UNCHANGED <<client, call, sent, seat, owed>>
  BY DEF Broadcast, client, server, IInv, ServerType
<1>2. \E m \in Sound : inbox' = [inbox EXCEPT ![c] = Append(inbox[c], m)] /\ (m.for # Nil => Asked(m.for))
  <2>1. CASE \E v \in 1..MaxVersion : Deliver(c, Says(seat[c], v, Nil, FALSE))
    <3>1. PICK v \in 1..MaxVersion : Deliver(c, Says(seat[c], v, Nil, FALSE)) BY <2>1
    <3>2. v \in Nat BY <3>1
    <3>3. Says(seat[c], v, Nil, FALSE) \in Sound /\ Says(seat[c], v, Nil, FALSE).for = Nil
      BY <1>1, <3>2 DEF Says, Sound, Messages
    <3> QED BY <3>1, <3>3 DEF Deliver
  <2>2. CASE Deliver(c, Complains(Nil))
    BY <2>2, ComplaintIsSound DEF Deliver
  <2> QED BY <2>1, <2>2 DEF Broadcast
<1>3. /\ MessageInv' /\ sent' \in [Sockets -> Seq(Requests)] /\ inbox' \in [Sockets -> Seq(Sound)]
  BY <1>1, <1>2, ServerMoves
<1>4. ServerType' BY <1>1, <1>3 DEF IInv, ServerType
<1> QED BY <1>1, <1>3, <1>4, ClientStays

-----------------------------------------------------------------------------
(* The steps of the reader *)

LEMMA StopReadingKeeps ==
  ASSUME IInv, NEW c \in Sockets, StopReading(c), UNCHANGED <<socket, call, seen, snapshot>>
  PROVE  ClientType' /\ QueueType' /\ RequestInv' /\ CaughtUp'
<1> USE DEF IInv
<1>1. reading' = reading \ {c} BY DEF StopReading
<1>2. CASE connection = c /\ LetGo(pending)
  <2>1. /\ connection' = Nil /\ pending' = {} /\ future' \in [Requests -> Futures]
        /\ QueueType' /\ CaughtUp'
    BY <1>2, LetGoFacts
  <2>2. ClientType' BY <1>1, <2>1 DEF ClientType
  <2>3. RequestInv' BY <1>2, LetGoKeeps
  <2> QED BY <2>1, <2>2, <2>3
<1>3. CASE UNCHANGED <<connection, pending, future, queue>>
  <2>1. ClientType' BY <1>1, <1>3 DEF ClientType
  <2>2. QueueType' /\ CaughtUp' BY <1>3, UpdatesStay
  <2>3. RequestInv' BY <1>3, RequestsStay
  <2> QED BY <2>1, <2>2, <2>3
<1> QED BY <1>2, <1>3 DEF StopReading

LEMMA ConnectionEndsKeeps ==
  ASSUME IInv, NEW c \in Sockets, ConnectionEnds(c)
  PROVE  IInv'
<1>1. StopReading(c) /\ UNCHANGED <<socket, call, seen, session, snapshot, sent, inbox, seat, owed>>
  BY DEF ConnectionEnds, state, server
<1>2. ClientType' /\ QueueType' /\ RequestInv' /\ CaughtUp' BY <1>1, StopReadingKeeps
<1>3. StateType' /\ ServerType' /\ SessionMatchesSnapshot'
  BY <1>1 DEF IInv, StateType, ServerType, SessionMatchesSnapshot
<1>4. MessageInv' BY <1>1, MessagesStay DEF Asked, IInv
<1> QED BY <1>2, <1>3, <1>4 DEF IInv

\* A reply is for a call that was written, so that it leaves no queued call complete.
LEMMA CompleteKeeps ==
  ASSUME IInv, NEW r, r \in Requests => Asked(r), NEW how \in Futures \ {"open"}, Complete(r, how),
         UNCHANGED <<connection, reading, socket, call>>
  PROVE  ClientType' /\ RequestInv'
<1> USE DEF IInv
<1>1. /\ pending' = pending \ {r}
      /\ future' = [x \in Requests |-> IF x = r /\ x \in pending /\ future[x] = "open" THEN how ELSE future[x]]
  BY DEF Complete
<1>2. ClientType'
  <2>1. future' \in [Requests -> Futures] BY <1>1 DEF ClientType
  <2> QED BY <1>1, <2>1 DEF ClientType
<1>3. PendingIsWhoWaits' BY <1>1 DEF RequestInv, PendingIsWhoWaits
<1>4. \A x \in Requests : call[x].stage \in {"unused", "queued"} => future'[x] = future[x]
  BY <1>1 DEF Asked
<1>5. RequestInv' BY <1>3, <1>4 DEF RequestInv
<1> QED BY <1>2, <1>5

LEMMA ReceiveKeeps ==
  ASSUME IInv, NEW c \in Sockets, Receive(c)
  PROVE  IInv'
<1> DEFINE message == Head(inbox[c])
           fresh == [game |-> message.game, version |-> message.version]
<1>1. /\ inbox[c] # <<>> /\ inbox' = [inbox EXCEPT ![c] = Tail(inbox[c])]
      /\ UNCHANGED <<socket, call, seen, sent, seat, owed>>
  BY DEF Receive, server
<1>2. /\ sent \in [Sockets -> Seq(Requests)] /\ inbox \in [Sockets -> Seq(Sound)] /\ MessageInv
  BY DEF IInv, ServerType
<1>3. PICK n \in Nat : Len(inbox[c]) = n + 1
  <2>1. PICK k \in Nat \ {0} : Len(inbox[c]) = k BY <1>1, <1>2
  <2>2. k - 1 \in Nat /\ k = (k - 1) + 1 OBVIOUS
  <2> QED BY <2>1, <2>2
<1>4. /\ message \in Sound /\ message = inbox[c][1]
      /\ Tail(inbox[c]) \in Seq(Sound) /\ Len(Tail(inbox[c])) = n
      /\ \A i \in 1..n : Tail(inbox[c])[i] = inbox[c][i + 1]
  BY <1>1, <1>2, <1>3
<1>5. message.for # Nil => Asked(message.for)
  <2>1. 1 \in 1..(n + 1) OBVIOUS
  <2>2. 1 \in 1..Len(inbox[c]) BY <1>3, <2>1
  <2>3. inbox[c][1].for # Nil => Asked(inbox[c][1].for) BY <1>2, <2>2 DEF MessageInv
  <2> QED BY <1>4, <2>3
<1>6. ServerType' BY <1>1, <1>4 DEF IInv, ServerType
<1>7. MessageInv'
  <2>1. \A s \in Sockets : inbox'[s] = IF s = c THEN Tail(inbox[c]) ELSE inbox[s] BY <1>1, <1>2
  <2>2. ASSUME NEW i \in 1..n, Tail(inbox[c])[i].for # Nil
        PROVE  call[Tail(inbox[c])[i].for].stage \notin {"unused", "queued"}
    <3>1. i + 1 \in 1..(n + 1) BY <2>2
    <3>2. i + 1 \in 1..Len(inbox[c]) BY <1>3, <3>1
    <3>3. inbox[c][i + 1].for # Nil => Asked(inbox[c][i + 1].for) BY <1>2, <3>2 DEF MessageInv
    <3>4. Tail(inbox[c])[i] = inbox[c][i + 1] BY <1>4, <2>2
    <3> QED BY <2>2, <3>3, <3>4 DEF Asked
  <2>3. \A s \in Sockets : \A i \in 1..Len(sent'[s]) : call'[sent'[s][i]].stage \notin {"unused", "queued"}
    BY <1>1, <1>2 DEF MessageInv, Asked
  <2>4. \A s \in Sockets : \A i \in 1..Len(inbox'[s]) :
          inbox'[s][i].for # Nil => call'[inbox'[s][i].for].stage \notin {"unused", "queued"}
    BY <1>1, <1>2, <1>4, <2>1, <2>2 DEF MessageInv, Asked
  <2> QED BY <2>3, <2>4 DEF MessageInv, Asked
<1>8. /\ message.for \in Requests \cup {Nil} /\ message.game \in Games \cup {Nil} /\ message.version \in Nat
      /\ message.session \in BOOLEAN
      /\ ~message.error => message.game \in Games
  BY <1>4 DEF Sound, Messages
<1>9. message.for \in Requests => Asked(message.for) BY <1>5
<1>10. \/ /\ Complete(message.for, "refused") /\ UNCHANGED <<connection, reading, session, snapshot, queue>>
       \/ StopReading(c) /\ UNCHANGED <<session, snapshot>>
       \/ /\ ~message.error /\ ~Mismatch(message) /\ StopReading(c) /\ UNCHANGED snapshot /\ Backwards(message)
          /\ session' = IF message.session THEN message.game ELSE session
       \/ /\ ~message.error /\ ~Mismatch(message) /\ Complete(message.for, "snapshot")
          /\ session' = IF message.session THEN message.game ELSE session
          /\ snapshot' = fresh /\ Publish(fresh) /\ UNCHANGED <<connection, reading>>
  BY Zenon DEF Receive, state
<1> HIDE DEF message
<1>11. CASE Complete(message.for, "refused") /\ UNCHANGED <<connection, reading, session, snapshot, queue>>
  <2>1. ClientType' /\ RequestInv' BY <1>1, <1>9, <1>11, CompleteKeeps DEF Futures
  <2>2. QueueType' /\ CaughtUp' BY <1>1, <1>11, UpdatesStay DEF IInv
  <2>3. StateType' /\ SessionMatchesSnapshot' BY <1>11 DEF IInv, StateType, SessionMatchesSnapshot
  <2> QED BY <1>6, <1>7, <2>1, <2>2, <2>3 DEF IInv
<1>12. CASE StopReading(c) /\ UNCHANGED <<session, snapshot>>
  <2>1. ClientType' /\ QueueType' /\ RequestInv' /\ CaughtUp' BY <1>1, <1>12, StopReadingKeeps
  <2>2. StateType' /\ SessionMatchesSnapshot' BY <1>12 DEF IInv, StateType, SessionMatchesSnapshot
  <2> QED BY <1>6, <1>7, <2>1, <2>2 DEF IInv
<1>13. CASE /\ ~message.error /\ ~Mismatch(message) /\ StopReading(c) /\ UNCHANGED snapshot /\ Backwards(message)
            /\ session' = IF message.session THEN message.game ELSE session
  <2>1. ClientType' /\ QueueType' /\ RequestInv' /\ CaughtUp' BY <1>1, <1>13, StopReadingKeeps
  <2>2. StateType' BY <1>8, <1>13 DEF IInv, StateType
  <2>3. snapshot.game = message.game BY <1>13 DEF Backwards
  <2>4. SessionMatchesSnapshot' BY <1>13, <2>3 DEF IInv, SessionMatchesSnapshot
  <2> QED BY <1>6, <1>7, <2>1, <2>2, <2>4 DEF IInv
<1>14. CASE /\ ~message.error /\ ~Mismatch(message) /\ Complete(message.for, "snapshot")
            /\ session' = IF message.session THEN message.game ELSE session
            /\ snapshot' = fresh /\ Publish(fresh) /\ UNCHANGED <<connection, reading>>
  <2>1. ClientType' /\ RequestInv' BY <1>1, <1>9, <1>14, CompleteKeeps DEF Futures
  <2>2. fresh \in Snapshots /\ fresh.game = message.game BY <1>8, <1>14 DEF Snapshots
  <2> HIDE DEF fresh
  <2>3. fresh \in Updates BY <2>2 DEF Updates
  <2>4. QueueType' /\ \A u \in Subscribers : queue'[u] # Nil => LatestUpdate(u)' = fresh
    BY <1>1, <1>14, <2>3, PublishFacts DEF IInv
  <2>5. CaughtUp' BY <1>14, <2>4 DEF CaughtUp
  <2>6. StateType' BY <1>8, <1>14, <2>2 DEF IInv, StateType
  <2>7. SessionMatchesSnapshot'
    BY <1>8, <1>14, <2>2 DEF Mismatch, SessionMatchesSnapshot
  <2> QED BY <1>6, <1>7, <2>1, <2>4, <2>5, <2>6, <2>7 DEF IInv
<1> QED BY <1>10, <1>11, <1>12, <1>13, <1>14

-----------------------------------------------------------------------------
(* The theorems *)

LEMMA StepKeeps == IInv /\ [Next]_vars => IInv'
<1> SUFFICES ASSUME IInv, [Next]_vars PROVE IInv' OBVIOUS
<1>1. CASE Close BY <1>1, CloseKeeps
<1>2. ASSUME NEW u \in Subscribers, Subscribe(u) PROVE IInv' BY <1>2, SubscribeKeeps
<1>3. ASSUME NEW u \in Subscribers, NextUpdate(u) PROVE IInv' BY <1>3, NextUpdateKeeps
<1>4. ASSUME NEW c \in Sockets,
             Dial(c) \/ Connected(c) \/ Closed(c) \/ LoseSocket(c) PROVE IInv'
  BY <1>4, DialKeeps, ConnectedKeeps, ClosedKeeps, LoseSocketKeeps
<1>5. ASSUME NEW c \in Sockets, Receive(c) \/ ConnectionEnds(c) PROVE IInv'
  BY <1>5, ReceiveKeeps, ConnectionEndsKeeps
<1>6. ASSUME NEW c \in Sockets, Admit(c) \/ Reply(c) \/ Refuse(c) \/ Broadcast(c) PROVE IInv'
  BY <1>6, AdmitKeeps, ReplyKeeps, RefuseKeeps, BroadcastKeeps
<1>7. ASSUME NEW r \in Requests, NEW game \in Games \cup {Nil}, Request(r, game) PROVE IInv'
  BY <1>7, RequestKeeps
<1>8. ASSUME NEW r \in Requests, Acquire(r) \/ Sent(r) \/ Return(r) \/ Timeout(r) \/ Cancel(r) PROVE IInv'
  BY <1>8, AcquireKeeps, SentKeeps, ReturnKeeps, TimeoutKeeps, CancelKeeps
<1>9. CASE UNCHANGED vars
  <2>1. UNCHANGED <<connection, reading, socket, pending, future, call, state, server, inbox, queue, seen, snapshot>>
    BY <1>9 DEF vars, state, subscriber
  <2>2. QueueType' /\ CaughtUp' BY <2>1, UpdatesStay DEF IInv
  <2> QED BY <2>1, <2>2, QueuesOnlyKeep
<1> QED BY <1>1, <1>2, <1>3, <1>4, <1>5, <1>6, <1>7, <1>8, <1>9 DEF Next

\* The invariant holds in every reachable state, for any number of requests, sockets,
\* subscribers and games and for queues of any capacity.
THEOREM Invariant == Spec => []IInv
<1>1. Init => IInv BY Initially
<1>2. IInv /\ [Next]_vars => IInv' BY StepKeeps
<1> QED BY <1>1, <1>2, PTL DEF Spec

\* Every variable keeps its type, and a subscriber's queue never exceeds its capacity.
THEOREM TypeCorrect == Spec => []TypeOK
<1>1. IInv => TypeOK
  <2> SUFFICES ASSUME IInv PROVE TypeOK OBVIOUS
  <2>1. Sound \subseteq Messages BY DEF Sound
  <2>2. Seq(Sound) \subseteq Seq(Messages)
    <3>1. ASSUME NEW s \in Seq(Sound) PROVE s \in Seq(Messages)
      <4>1. Len(s) \in Nat /\ s \in [1..Len(s) -> Sound] BY <3>1
      <4>2. s \in [1..Len(s) -> Messages] BY <2>1, <4>1
      <4> QED BY <4>1, <4>2, SeqDef
    <3> QED BY <3>1
  <2>3. inbox \in [Sockets -> Seq(Messages)] BY <2>2 DEF IInv, ServerType
  <2>4. call \in [Requests ->
          [stage : {"unused", "queued", "sending", "waiting", "dropping", "ended"},
           on : Sockets \cup {Nil}, game : Games \cup {Nil},
           end : {Nil, "snapshot", "refused", "lost", "timed out", "cancelled"}]]
    BY Zenon DEF IInv, ClientType, Calls, Ends
  <2>5. \A u \in Subscribers :
          queue[u] # Nil => queue[u] \in Seq(Snapshots \cup {Lost}) /\ Len(queue[u]) <= QueueSize
    BY DEF IInv, QueueType, Updates
  <2>6. future \in [Requests -> {"open", "snapshot", "refused", "lost"}] BY DEF IInv, ClientType, Futures
  <2>7. /\ connection \in Sockets \cup {Nil} /\ reading \subseteq Sockets
        /\ socket \in [Sockets -> {"unused", "dialling", "open", "lost", "closing", "closed"}]
        /\ pending \subseteq Requests /\ session \in Games \cup {Nil} /\ snapshot \in Snapshots \cup {Nil}
        /\ seen \in [Subscribers -> Snapshots \cup {Nil}] /\ sent \in [Sockets -> Seq(Requests)]
        /\ seat \in [Sockets -> Games \cup {Nil}] /\ owed \in [Sockets -> Requests \cup {Nil}]
    BY DEF IInv, ClientType, StateType, QueueType, ServerType
  <2> QED BY <2>3, <2>4, <2>5, <2>6, <2>7, Zenon DEF TypeOK
<1> QED BY <1>1, Invariant, PTL

\* _pending holds exactly the calls that still wait for their future: a call that timed out,
\* was cancelled or lost its connection has left it, and none waits where no reply finds it.
THEOREM PendingCallsWait == Spec => []PendingIsWhoWaits
<1>1. IInv => PendingIsWhoWaits BY DEF IInv, RequestInv
<1> QED BY <1>1, Invariant, PTL

\* The state the application sees is of the game it has the session of, whatever
\* connections and late replies have fed it.
THEOREM SessionIsShown == Spec => []SessionMatchesSnapshot
<1>1. IInv => SessionMatchesSnapshot BY DEF IInv
<1> QED BY <1>1, Invariant, PTL

\* A subscriber ends up with the present state or the error that ended the connection,
\* however many updates its queue had no room for.
THEOREM SubscribersCatchUp == Spec => []SubscriberCatchesUp
<1>1. IInv => SubscriberCatchesUp
  <2> SUFFICES ASSUME IInv, NEW u \in Subscribers, queue[u] # Nil, snapshot # Nil
               PROVE  (<<seen[u]>> \o queue[u])[Len(<<seen[u]>> \o queue[u])] \in {snapshot, Lost}
    BY Zenon DEF SubscriberCatchesUp
  <2>1. queue[u] \in Seq(Updates \cup {Nil}) /\ seen[u] \in Updates \cup {Nil}
    <3>1. queue[u] \in Seq(Updates) /\ seen[u] \in Snapshots \cup {Nil} BY DEF IInv, QueueType
    <3>2. Len(queue[u]) \in Nat /\ queue[u] \in [1..Len(queue[u]) -> Updates] BY <3>1
    <3>3. queue[u] \in [1..Len(queue[u]) -> Updates \cup {Nil}] BY <3>2
    <3>4. queue[u] \in Seq(Updates \cup {Nil}) BY <3>2, <3>3, SeqDef
    <3> QED BY <3>1, <3>4 DEF Updates
  <2>2. PICK n \in Nat : Len(queue[u]) = n BY <2>1
  <2>3. <<seen[u]>> \in Seq(Updates \cup {Nil}) /\ Len(<<seen[u]>>) = 1 /\ <<seen[u]>>[1] = seen[u]
    BY <2>1
  <2> DEFINE updates == <<seen[u]>> \o queue[u]
  <2>4. /\ Len(updates) = n + 1
        /\ \A i \in 1..(n + 1) : updates[i] = IF i <= 1 THEN <<seen[u]>>[i] ELSE queue[u][i - 1]
    BY <2>1, <2>2, <2>3, ConcatProperties
  <2> HIDE DEF updates
  <2>5. updates[n + 1] = LatestUpdate(u)
    <3>1. CASE n = 0
      <4>1. queue[u] = <<>> BY <2>1, <2>2, <3>1, EmptySeq
      <4> QED BY <2>3, <2>4, <3>1, <4>1 DEF LatestUpdate
    <3>2. CASE n # 0
      <4>1. queue[u] # <<>> BY <2>2, <3>2
      <4>2. updates[n + 1] = queue[u][n] BY <2>4, <3>2
      <4> QED BY <2>2, <4>1, <4>2 DEF LatestUpdate
    <3> QED BY <3>1, <3>2
  <2>6. LatestUpdate(u) \in {snapshot, Lost} BY DEF IInv, CaughtUp
  <2> QED BY <2>4, <2>5, <2>6 DEF updates
<1> QED BY <1>1, Invariant, PTL

\* When a call comes to be sent, it is on the client's connection, which no call in doubt was on.
SentSafely(r) ==
  call'[r].stage = "sending" /\ call[r].stage # "sending" =>
    /\ future[r] = "open"
    /\ \A x \in Requests : call[x].on = call'[r].on => call[x].end \notin Doubt

LEMMA TransmitIsSafe ==
  ASSUME IInv, NEW r \in Requests, NEW c \in Sockets, connection = c, future[r] = "open",
         NEW game \in Games \cup {Nil}, Transmit(r, c, game)
  PROVE  \A s \in Requests : SentSafely(s)
<1>1. call \in [Requests -> Calls] BY DEF IInv, ClientType
<1>2. \A x \in Requests : call[x].end \in Doubt => connection # call[x].on BY DEF IInv, RequestInv
<1>3. CASE call' = [call EXCEPT ![r] = [stage |-> "sending", on |-> c, game |-> game, end |-> Nil]]
  <2>1. call'[r].on = c /\ \A x \in Requests \ {r} : call'[x] = call[x] BY <1>1, <1>3
  <2> QED BY <1>2, <2>1 DEF SentSafely
<1>4. CASE Fail(r, c, game, "lost")
  <2>1. call'[r].stage \in {"dropping", "ended"} /\ \A x \in Requests \ {r} : call'[x] = call[x]
    BY <1>1, <1>4 DEF Fail
  <2> QED BY <2>1 DEF SentSafely
<1> QED BY <1>3, <1>4 DEF Transmit

\* Nothing but a request and the send lock brings a call to be sent; one that fails does not.
LEMMA FailedIsNotSent ==
  ASSUME IInv, NEW r \in Requests, NEW c, NEW game, NEW end, Fail(r, c, game, end)
  PROVE  \A s \in Requests : SentSafely(s)
<1>1. call \in [Requests -> Calls] BY DEF IInv, ClientType
<1>2. call'[r].stage \in {"dropping", "ended"} /\ \A x \in Requests \ {r} : call'[x] = call[x]
  BY <1>1 DEF Fail
<1> QED BY <1>2 DEF SentSafely

LEMMA SendsAreSafe ==
  ASSUME IInv, Next
  PROVE  \A r \in Requests : SentSafely(r)
<1>0. call \in [Requests -> Calls] BY DEF IInv, ClientType
<1>1. CASE UNCHANGED call BY <1>1 DEF SentSafely
<1>2. ASSUME NEW c \in Sockets, Closed(c) PROVE \A r \in Requests : SentSafely(r)
  <2>1. \A r \in Requests : call'[r] = call[r] \/ call'[r] = [call[r] EXCEPT !.stage = "ended"]
    BY <1>2 DEF Closed
  <2>2. \A r \in Requests : call'[r] = call[r] \/ call'[r].stage = "ended"
    BY <1>0, <2>1 DEF Calls
  <2> QED BY <2>2 DEF SentSafely
<1>3. ASSUME NEW r \in Requests, NEW game \in Games \cup {Nil}, Request(r, game)
      PROVE  \A s \in Requests : SentSafely(s)
  <2>1. call[r] = Unused /\ connection \in Sockets BY <1>3 DEF Request, IInv, ClientType
  <2>2. future[r] = "open"
    <3>1. call[r].stage = "unused" BY <2>1 DEF Unused
    <3> QED BY <3>1 DEF IInv, RequestInv
  <2>3. CASE Transmit(r, connection, game) BY <2>1, <2>2, <2>3, TransmitIsSafe
  <2>4. CASE call' = [call EXCEPT ![r] = [stage |-> "queued", on |-> connection, game |-> game, end |-> Nil]]
    BY <1>0, <2>4 DEF SentSafely
  <2> QED BY <1>3, <2>3, <2>4 DEF Request
<1>4. ASSUME NEW r \in Requests, Acquire(r) PROVE \A s \in Requests : SentSafely(s)
  <2>1. call[r].stage = "queued" BY <1>4 DEF Acquire
  <2>2. call[r].on \in Sockets /\ call[r].game \in Games \cup {Nil} BY <2>1, UsedHasSocket
  <2>3. CASE connection = call[r].on /\ Transmit(r, connection, call[r].game)
    <3>1. future[r] = "open" BY <2>1, <2>3 DEF IInv, RequestInv
    <3> QED BY <2>2, <2>3, <3>1, TransmitIsSafe
  <2>4. CASE call' = [call EXCEPT ![r].stage = "ended", ![r].end = "lost"]
    <3>1. call'[r].stage = "ended" /\ \A x \in Requests \ {r} : call'[x] = call[x]
      BY <1>0, <2>4 DEF Calls
    <3> QED BY <3>1 DEF SentSafely
  <2> QED BY <1>4, <2>3, <2>4 DEF Acquire
<1>5. ASSUME NEW r \in Requests, Sent(r) \/ Return(r) \/ Timeout(r) \/ Cancel(r)
      PROVE  \A s \in Requests : SentSafely(s)
  <2>1. CASE \E c, game, end : Fail(r, c, game, end) BY <2>1, FailedIsNotSent
  <2>2. CASE call' = [call EXCEPT ![r].stage = "waiting"]
    <3>1. call'[r].stage = "waiting" /\ \A x \in Requests \ {r} : call'[x] = call[x]
      BY <1>0, <2>2 DEF Calls
    <3> QED BY <3>1 DEF SentSafely
  <2>3. CASE call' = [call EXCEPT ![r].stage = "ended", ![r].end = future[r]]
    <3>1. call'[r].stage = "ended" /\ \A x \in Requests \ {r} : call'[x] = call[x]
      BY <1>0, <2>3 DEF Calls
    <3> QED BY <3>1 DEF SentSafely
  <2> QED BY <1>5, <2>1, <2>2, <2>3, Zenon DEF Sent, Return, Timeout, Cancel
<1>6. ASSUME NEW c \in Sockets, \/ Dial(c) \/ Connected(c) \/ Receive(c) \/ ConnectionEnds(c)
                                \/ Admit(c) \/ Reply(c) \/ Refuse(c) \/ Broadcast(c) \/ LoseSocket(c)
      PROVE  UNCHANGED call
  BY <1>6, Zenon DEF Dial, Connected, Receive, ConnectionEnds, Admit, Reply, Refuse, Broadcast, LoseSocket, client
<1>7. Close \/ (\E u \in Subscribers : Subscribe(u) \/ NextUpdate(u)) => UNCHANGED call
  BY Zenon DEF Close, Subscribe, NextUpdate
<1> QED BY <1>1, <1>2, <1>3, <1>4, <1>5, <1>6, <1>7, Zenon DEF Next

\* No request is put on the wire after its caller was told of a loss, nor on a connection on
\* which another call timed out or was cancelled.
THEOREM NoSendAfterDoubt == Spec => NothingSentAfterDoubt
<1>1. IInv /\ Next => \A r \in Requests :
        call'[r].stage = "sending" /\ call[r].stage # "sending" =>
          /\ future[r] = "open"
          /\ \A x \in Requests : call[x].on = call'[r].on => call[x].end \notin {"timed out", "cancelled"}
  BY SendsAreSafe, Zenon DEF SentSafely, Doubt
<1> QED BY <1>1, Invariant, PTL DEF Spec, NothingSentAfterDoubt
=============================================================================
