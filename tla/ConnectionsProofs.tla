------------------------- MODULE ConnectionsProofs -------------------------
(***************************************************************************)
(* With any number of connections and players and queues of any length:    *)
(* types are kept, a player has one connection, every request gets its     *)
(* answer, and the latest state comes to everyone it is meant for.         *)
(***************************************************************************)
EXTENDS Connections, TLAPS

USE ConnectionsAssumption

-----------------------------------------------------------------------------
(* The inductive invariant *)

Messages == [version : Versions, reply : BOOLEAN]

Handlers ==
  [stage : Stages, kind : Kinds \cup {Nil}, player : Players \cup {Nil}, own : Versions,
   todo : SUBSET Peers, to : Peers \cup {Nil}, version : Versions]

\* The variables that only requests and the runtime change.
GameType ==
  /\ version \in Versions /\ born \in [Players -> Versions]
  /\ listed \in BOOLEAN /\ audience \subseteq Peers /\ cut \subseteq Peers
  /\ registry \in [Peers -> Players \cup {Nil}] /\ session \in [Peers -> Players \cup {Nil}]
  /\ tokens \subseteq Players

\* What the queues change.
QueueType ==
  /\ done \in [Peers -> BOOLEAN] /\ owing \in [Peers -> BOOLEAN]
  /\ got \in [Peers -> Versions]
  /\ send \in [Peers -> Seq(Messages)]
  /\ \A p \in Peers : Len(send[p]) <= Buffer

HandlerType == handler \in [Peers -> Handlers]

\* Nobody has a session, or a state to show, before there is a room.
NoRoomYet ==
  version = 0 =>
    /\ tokens = {}
    /\ \A p \in Peers :
         /\ session[p] = Nil
         /\ handler[p].stage \in {"reading", "asked", "gone"}
         /\ handler[p].stage = "asked" => handler[p].kind \notin {"resume", "command"}
         /\ \A n \in 1..Len(send[p]) : send[p][n].version = 0

\* What a handler may rely on at each of its stages.
StageInv ==
  \A p \in Peers :
    /\ handler[p].stage \notin {"reading", "gone"} =>
         handler[p].player \in Players /\ handler[p].kind \in Kinds
    /\ handler[p].stage \in {"listing", "attaching"} => handler[p].kind # "command"
    /\ handler[p].stage \in {"asked", "listing", "attaching"} =>
         session[p] = IF handler[p].kind = "command" THEN handler[p].player ELSE Nil
    /\ handler[p].stage \in {"capturing", "publishing", "sending"} =>
         registry[p] = handler[p].player \/ done[p]
    /\ handler[p].stage = "sending" => handler[p].to \in Peers

\* As long as a connection is owed a reply, its handler has it still before it.
AnswerInv ==
  \A p \in Peers : owing[p] /\ ~done[p] =>
    \/ handler[p].stage \in {"asked", "listing", "attaching", "capturing"}
    \/ handler[p].stage = "publishing" /\ p \in handler[p].todo
    \/ handler[p].stage = "sending" /\ IF handler[p].to = p THEN handler[p].version > 0
                                                           ELSE p \in handler[p].todo

IInv ==
  /\ GameType /\ QueueType /\ HandlerType
  /\ NoRoomYet /\ StageInv /\ OneConnectionPerPlayer /\ AnswerInv

-----------------------------------------------------------------------------
(* The outbound queues *)

\* Whatever happens to the queues, a cancelled connection stays so, and nobody comes to
\* be owed a reply.
QueuesOnly ==
  /\ QueueType'
  /\ \A p \in Peers : (done[p] => done'[p]) /\ (owing'[p] => owing[p])

LEMMA CancelFacts ==
  ASSUME QueueType, NEW peers \in SUBSET Peers, Cancel(peers)
  PROVE  /\ QueuesOnly
         /\ \A p \in peers : done'[p]
         /\ \A p \in Peers : send'[p] \in {<<>>, send[p]}
<1>1. \A p \in Peers : send'[p] \in {<<>>, send[p]} BY DEF Cancel
<1>2. send' \in [Peers -> Seq(Messages)] BY DEF Cancel, QueueType
<1>3. \A p \in Peers : Len(send'[p]) <= Buffer BY <1>1 DEF QueueType
<1>4. got' \in [Peers -> Versions] BY DEF Cancel, QueueType, Versions
<1>5. done' \in [Peers -> BOOLEAN] /\ owing' \in [Peers -> BOOLEAN]
  BY DEF Cancel, QueueType
<1>6. \A p \in Peers : (done[p] => done'[p]) /\ (owing'[p] => owing[p]) BY DEF Cancel
<1>7. \A p \in peers : done'[p] BY DEF Cancel
<1> QED BY <1>1, <1>2, <1>3, <1>4, <1>5, <1>6, <1>7 DEF QueuesOnly, QueueType

\* A reply put into a queue is owed no longer; the other queues are left alone.
LEMMA EnqueueFacts ==
  ASSUME QueueType, NEW q \in Peers, NEW message \in Messages, Enqueue(q, message)
  PROVE  /\ QueuesOnly
         /\ message.reply => done'[q] \/ ~owing'[q]
         /\ \A p \in Peers : send'[p] \in {<<>>, send[p], Append(send[p], message)}
<1>1. CASE done[q] /\ Ignore
  BY <1>1 DEF Ignore, QueuesOnly, QueueType
<1>2. CASE Len(send[q]) < Buffer /\ Put(q, message)
  <2>1. send' = [send EXCEPT ![q] = Append(send[q], message)] BY <1>2 DEF Put
  <2>2. send[q] \in Seq(Messages) BY DEF QueueType
  <2>3. Append(send[q], message) \in Seq(Messages)
        /\ Len(Append(send[q], message)) = Len(send[q]) + 1 BY <2>2
  <2>4. Len(send[q]) \in Nat BY <2>2
  <2>5. Len(Append(send[q], message)) <= Buffer BY <1>2, <2>3, <2>4
  <2>6. send' \in [Peers -> Seq(Messages)] /\ \A p \in Peers : Len(send'[p]) <= Buffer
    BY <2>1, <2>3, <2>5 DEF QueueType
  <2>7. \A p \in Peers : send'[p] \in {send[p], Append(send[p], message)}
    BY <2>1 DEF QueueType
  <2>8. message.reply \in BOOLEAN BY DEF Messages
  <2>9. owing' = [owing EXCEPT ![q] = owing[q] /\ ~message.reply] BY <1>2 DEF Put
  <2>10. owing' \in [Peers -> BOOLEAN] BY <2>9, <2>8 DEF QueueType
  <2>11. \A p \in Peers : owing'[p] => owing[p] BY <2>9, <2>8 DEF QueueType
  <2>12. message.reply => ~owing'[q] BY <2>9, <2>8 DEF QueueType
  <2> QED BY <1>2, <2>6, <2>7, <2>10, <2>11, <2>12 DEF Put, QueuesOnly, QueueType
<1>3. CASE Cancel({q})
  BY <1>3, CancelFacts
<1> QED BY <1>1, <1>2, <1>3 DEF Enqueue

\* Messages without a version leave the queues without one before there is a room.
LEMMA EarlyQueues ==
  ASSUME QueueType, NEW q \in Peers, NEW message \in Messages, Enqueue(q, message),
         message.version = 0, \A p \in Peers : \A n \in 1..Len(send[p]) : send[p][n].version = 0
  PROVE  \A p \in Peers : \A n \in 1..Len(send'[p]) : send'[p][n].version = 0
<1> SUFFICES ASSUME NEW p \in Peers, NEW n \in 1..Len(send'[p])
             PROVE  send'[p][n].version = 0
  OBVIOUS
<1>1. send[p] \in Seq(Messages) BY DEF QueueType
<1>2. send'[p] \in {<<>>, send[p], Append(send[p], message)} BY EnqueueFacts
<1>3. CASE send'[p] = Append(send[p], message)
  BY <1>1, <1>3
<1> QED BY <1>1, <1>2, <1>3

-----------------------------------------------------------------------------
(* The steps *)

LEMMA Initially == Init => IInv
<1> SUFFICES ASSUME Init PROVE IInv OBVIOUS
<1>1. GameType
  <2>1. listed \in BOOLEAN /\ audience \subseteq Peers /\ cut \subseteq Peers BY Zenon DEF Init
  <2>2. version = 0 /\ born = [x \in Players |-> 0] /\ tokens = {}
        /\ registry = [p \in Peers |-> Nil] /\ session = [p \in Peers |-> Nil]
    BY Zenon DEF Init
  <2> QED BY <2>1, <2>2 DEF GameType, Versions
<1>2. QueueType BY DEF Init, QueueType, Versions
<1>3. HandlerType BY DEF Init, HandlerType, Handlers, At, Stages, Versions
<1>4. NoRoomYet BY DEF Init, NoRoomYet, At
<1>5. StageInv BY DEF Init, StageInv, At
<1>6. OneConnectionPerPlayer BY DEF Init, OneConnectionPerPlayer
<1>7. AnswerInv BY DEF Init, AnswerInv
<1> QED BY <1>1, <1>2, <1>3, <1>4, <1>5, <1>6, <1>7 DEF IInv

\* The registry and the sessions stay as they are: a connection may still be cancelled.
LEMMA StillOne ==
  ASSUME IInv, UNCHANGED <<registry, session>>, \A p \in Peers : done[p] => done'[p]
  PROVE  OneConnectionPerPlayer'
BY DEF IInv, OneConnectionPerPlayer

LEMMA LoseKeeps ==
  ASSUME IInv, NEW p \in Peers, Lose(p)
  PROVE  IInv'
<1>1. Cancel({p}) /\ UNCHANGED <<version, born, cut, audience, listed, registry, handler, session, tokens>>
  BY DEF Lose, game, news
<1>2. QueuesOnly /\ \A q \in Peers : send'[q] \in {<<>>, send[q]}
  BY <1>1, CancelFacts DEF IInv
<1>3. GameType' /\ QueueType' /\ HandlerType'
  BY <1>1, <1>2 DEF IInv, GameType, HandlerType, QueuesOnly
<1>4. NoRoomYet'
  BY <1>1, <1>2 DEF IInv, NoRoomYet
<1>5. StageInv'
  BY <1>1, <1>2 DEF IInv, StageInv, QueuesOnly
<1>6. OneConnectionPerPlayer'
  BY <1>1, <1>2, StillOne DEF QueuesOnly
<1>7. AnswerInv'
  BY <1>1, <1>2 DEF IInv, AnswerInv, QueuesOnly
<1> QED BY <1>3, <1>4, <1>5, <1>6, <1>7 DEF IInv

LEMMA WriteKeeps ==
  ASSUME IInv, NEW p \in Peers, Write(p)
  PROVE  IInv'
<1>1. UNCHANGED <<version, born, cut, audience, listed, registry, handler, session, done, owing>>
  BY DEF Write, game, news
<1>2. send[p] \in Seq(Messages) /\ send[p] # <<>> BY DEF Write, IInv, QueueType
<1>3. Head(send[p]) \in Messages /\ Head(send[p]) = send[p][1] /\ Len(send[p]) \in Nat \ {0} BY <1>2
<1>4. /\ Tail(send[p]) \in Seq(Messages) /\ Len(Tail(send[p])) = Len(send[p]) - 1
      /\ \A n \in 1..Len(Tail(send[p])) : Tail(send[p])[n] = send[p][n + 1]
  BY <1>2
<1>5. send' = [send EXCEPT ![p] = Tail(send[p])] BY DEF Write
<1>6. got' \in [Peers -> Versions]
  <2>1. Head(send[p]).version \in Versions BY <1>3 DEF Messages
  <2> QED BY <2>1 DEF Write, Larger, IInv, QueueType
<1>7. QueueType'
  <2>1. send' \in [Peers -> Seq(Messages)] BY <1>4, <1>5 DEF IInv, QueueType
  <2>2. \A q \in Peers : Len(send'[q]) <= Buffer
    <3>1. Len(Tail(send[p])) <= Buffer BY <1>3, <1>4 DEF IInv, QueueType
    <3> QED BY <3>1, <1>5 DEF IInv, QueueType
  <2> QED BY <1>1, <1>6, <2>1, <2>2 DEF IInv, QueueType
<1>8. tokens' \subseteq Players
  BY DEF Write, IInv, GameType
<1>9. GameType' /\ HandlerType'
  BY <1>1, <1>8 DEF IInv, GameType, HandlerType
<1>10. NoRoomYet'
  <2>1. version = 0 => Head(send[p]).version = 0 BY <1>3 DEF IInv, NoRoomYet
  <2>2. version = 0 => tokens' = {} BY <2>1 DEF Write, IInv, NoRoomYet
  <2>3. ASSUME version = 0, NEW q \in Peers, NEW n \in 1..Len(send'[q]) PROVE send'[q][n].version = 0
    BY <2>3, <1>3, <1>4, <1>5 DEF IInv, NoRoomYet, QueueType
  <2> QED BY <1>1, <2>2, <2>3 DEF IInv, NoRoomYet
<1>11. StageInv' /\ AnswerInv'
  BY <1>1 DEF IInv, StageInv, AnswerInv
<1>12. OneConnectionPerPlayer'
  BY <1>1, StillOne
<1> QED BY <1>7, <1>9, <1>10, <1>11, <1>12 DEF IInv

LEMMA LeaveKeeps ==
  ASSUME IInv, NEW p \in Peers, Leave(p)
  PROVE  IInv'
<1> USE DEF IInv
<1>1. UNCHANGED <<version, born, cut, audience, listed, done, send, got, tokens, owing>>
  BY DEF Leave, game, news, client
<1>2. /\ handler[p].stage = "reading" /\ done[p]
      /\ handler' = [handler EXCEPT ![p] = At("gone")]
      /\ registry' = [registry EXCEPT ![p] = Nil] /\ session' = [session EXCEPT ![p] = Nil]
  BY DEF Leave
<1>3. GameType' /\ QueueType' BY <1>1, <1>2 DEF GameType, QueueType
<1>4. HandlerType' BY <1>2 DEF HandlerType, Handlers, At, Stages, Versions
<1>5. NoRoomYet' BY <1>1, <1>2 DEF NoRoomYet, At, HandlerType, GameType
<1>6. StageInv' BY <1>1, <1>2 DEF StageInv, At, HandlerType, GameType
<1>7. OneConnectionPerPlayer' BY <1>1, <1>2 DEF OneConnectionPerPlayer, GameType
<1>8. AnswerInv' BY <1>1, <1>2 DEF AnswerInv, At, HandlerType
<1> QED BY <1>3, <1>4, <1>5, <1>6, <1>7, <1>8

LEMMA AskKeeps ==
  ASSUME IInv, NEW p \in Peers, NEW kind \in Kinds, NEW player \in Players, Ask(p, kind, player)
  PROVE  IInv'
<1> USE DEF IInv
<1>1. UNCHANGED <<version, born, cut, audience, listed, registry, session, done, send, got, tokens>>
  BY DEF Ask, game, news
<1>2. handler[p].stage = "reading" /\ (kind = "command" \/ session[p] = Nil) BY DEF Ask
<1>3. handler' = [handler EXCEPT ![p] = [At("asked") EXCEPT !.kind = kind, !.player = player]]
  BY DEF Ask
<1>4. (kind = "resume" => player \in tokens) /\ (kind = "command" => player = session[p]) BY DEF Ask
<1>5. owing' = [owing EXCEPT ![p] = TRUE] BY DEF Ask
<1>6. handler'[p] = [At("asked") EXCEPT !.kind = kind, !.player = player] /\ handler'[p] \in Handlers
  <2>1. At("asked") \in Handlers BY DEF At, Handlers, Stages, Versions
  <2>2. [At("asked") EXCEPT !.kind = kind, !.player = player] \in Handlers
    BY <2>1 DEF Handlers
  <2> QED BY <1>3, <2>2 DEF HandlerType
<1>7. /\ handler'[p].stage = "asked" /\ handler'[p].kind = kind /\ handler'[p].player = player
      /\ \A q \in Peers \ {p} : handler'[q] = handler[q]
  BY <1>3, <1>6 DEF HandlerType, At
<1>8. GameType' BY <1>1 DEF GameType
<1>9. owing' \in [Peers -> BOOLEAN] /\ QueueType' BY <1>1, <1>5 DEF QueueType
<1>10. HandlerType' BY <1>3, <1>6 DEF HandlerType
<1>11. NoRoomYet'
  <2>1. version = 0 => kind \notin {"resume", "command"}
    BY <1>4 DEF NoRoomYet
  <2> QED BY <1>1, <1>7, <2>1 DEF NoRoomYet
<1>12. StageInv'
  BY <1>1, <1>2, <1>4, <1>7 DEF StageInv
<1>13. OneConnectionPerPlayer' BY <1>1, StillOne
<1>14. AnswerInv' BY <1>1, <1>5, <1>7 DEF AnswerInv, QueueType
<1> QED BY <1>8, <1>9, <1>10, <1>11, <1>12, <1>13, <1>14

LEMMA RefuseKeeps ==
  ASSUME IInv, NEW p \in Peers, Refuse(p)
  PROVE  IInv'
<1> USE DEF IInv
<1> DEFINE message == Error(TRUE)
<1>1. UNCHANGED <<version, born, cut, audience, listed, registry, session, tokens>> BY DEF Refuse, game, news
<1>2. handler' = [handler EXCEPT ![p] = At("reading")] BY DEF Refuse
<1>3. Enqueue(p, message) BY DEF Refuse
<1>4. message \in Messages /\ message.version = 0 /\ message.reply
  BY DEF Error, Messages, Versions
<1> HIDE DEF message
<1>5. QueuesOnly /\ (done'[p] \/ ~owing'[p]) BY <1>3, <1>4, EnqueueFacts
<1>6. GameType' /\ QueueType' BY <1>1, <1>5 DEF GameType, QueuesOnly
<1>7. HandlerType' BY <1>2 DEF HandlerType, Handlers, At, Stages, Versions
<1>8. handler'[p].stage = "reading" /\ \A q \in Peers \ {p} : handler'[q] = handler[q]
  BY <1>2 DEF HandlerType, At
<1>9. NoRoomYet'
  <2> SUFFICES ASSUME version = 0 PROVE NoRoomYet' BY <1>1 DEF NoRoomYet
  <2>1. \A q \in Peers : \A n \in 1..Len(send'[q]) : send'[q][n].version = 0
    BY <1>3, <1>4, EarlyQueues DEF NoRoomYet
  <2> QED BY <2>1, <1>1, <1>8 DEF NoRoomYet
<1>10. StageInv' BY <1>1, <1>5, <1>8 DEF StageInv, QueuesOnly
<1>11. OneConnectionPerPlayer' BY <1>1, <1>5, StillOne DEF QueuesOnly
<1>12. AnswerInv' BY <1>5, <1>8 DEF AnswerInv, QueuesOnly
<1> QED BY <1>6, <1>7, <1>9, <1>10, <1>11, <1>12

LEMMA MisreadKeeps ==
  ASSUME IInv, NEW p \in Peers, Misread(p)
  PROVE  IInv'
<1> USE DEF IInv
<1> DEFINE message == Error(FALSE)
<1>1. UNCHANGED <<version, born, cut, audience, listed, registry, handler, session, tokens>>
  BY DEF Misread, game, news
<1>2. Enqueue(p, message) BY DEF Misread
<1>3. message \in Messages /\ message.version = 0 BY DEF Error, Messages, Versions
<1> HIDE DEF message
<1>4. QueuesOnly BY <1>2, <1>3, EnqueueFacts
<1>5. GameType' /\ QueueType' BY <1>1, <1>4 DEF GameType, QueuesOnly
<1>6. HandlerType' BY <1>1 DEF HandlerType
<1>7. NoRoomYet'
  <2> SUFFICES ASSUME version = 0 PROVE NoRoomYet' BY <1>1 DEF NoRoomYet
  <2>1. \A q \in Peers : \A n \in 1..Len(send'[q]) : send'[q][n].version = 0
    BY <1>2, <1>3, EarlyQueues DEF NoRoomYet
  <2> QED BY <2>1, <1>1 DEF NoRoomYet
<1>8. StageInv' BY <1>1, <1>4 DEF StageInv, QueuesOnly
<1>9. OneConnectionPerPlayer' BY <1>1, <1>4, StillOne DEF QueuesOnly
<1>10. AnswerInv' BY <1>1, <1>4 DEF AnswerInv, QueuesOnly
<1> QED BY <1>5, <1>6, <1>7, <1>8, <1>9, <1>10

\* What an accepted request does to the version and the births.
LEMMA AcceptFacts ==
  ASSUME IInv, NEW p \in Peers, handler[p].stage = "asked", Accept(p)
  PROVE  /\ version' = version + 1 /\ version' \in Versions \ {0}
         /\ born' \in [Players -> Versions]
         /\ handler[p].kind # "resume"
<1>1. version' = version + 1 /\ version < MaxVersion /\ handler[p].kind # "resume" BY DEF Accept
<1>2. version' \in Versions \ {0} BY <1>1 DEF IInv, GameType, Versions
<1>3. born' = born \/ born' = [born EXCEPT ![handler[p].player] = version'] BY DEF Accept
<1>4. born' \in [Players -> Versions] BY <1>2, <1>3 DEF IInv, GameType
<1> QED BY <1>1, <1>2, <1>4

LEMMA ExecuteKeeps ==
  ASSUME IInv, NEW p \in Peers, Execute(p)
  PROVE  IInv'
<1> USE DEF IInv
<1> DEFINE stage == AfterAccept(handler[p].kind)
<1>1. UNCHANGED <<listed, registry, session, done, send, got, tokens, owing>>
  BY DEF Execute, client
<1>2. handler[p].stage = "asked" /\ Accept(p) BY DEF Execute
<1>3. handler' = [handler EXCEPT ![p].stage = stage, ![p].own = version + 1] BY DEF Execute
<1>4. cut' = {} /\ audience' = {} BY DEF Execute
<1>5. /\ version' = version + 1 /\ version' \in Versions \ {0}
      /\ born' \in [Players -> Versions] /\ handler[p].kind # "resume"
  BY <1>2, AcceptFacts
<1>6. GameType' /\ QueueType' BY <1>1, <1>4, <1>5 DEF GameType, QueueType
<1>7. stage \in Stages BY DEF AfterAccept, Stages
<1>8. stage \in {"listing", "attaching", "capturing"}
      /\ (stage = "capturing" <=> handler[p].kind \notin {"create", "join"})
  BY DEF AfterAccept
<1> HIDE DEF stage
<1>9. HandlerType'
  <2>1. [handler[p] EXCEPT !.stage = stage, !.own = version + 1] \in Handlers
    <3>1. handler[p] \in Handlers BY DEF HandlerType
    <3>2. version + 1 \in Versions BY <1>5
    <3> QED BY <1>7, <3>1, <3>2 DEF Handlers
  <2> QED BY <1>3, <2>1 DEF HandlerType
<1>10. /\ handler'[p].stage = stage /\ handler'[p].kind = handler[p].kind
       /\ handler'[p].player = handler[p].player
       /\ \A q \in Peers \ {p} : handler'[q] = handler[q]
  BY <1>3 DEF HandlerType, Handlers
<1>11. NoRoomYet' BY <1>5 DEF NoRoomYet
<1>12. StageInv'
  <2>1. /\ handler[p].player \in Players /\ handler[p].kind \in Kinds
        /\ session[p] = IF handler[p].kind = "command" THEN handler[p].player ELSE Nil
    BY <1>2 DEF StageInv
  <2>2. stage = "capturing" => handler[p].kind = "command"
    BY <2>1, <1>5, <1>8 DEF Kinds
  <2>3. stage = "capturing" => registry[p] = handler[p].player \/ done[p]
    BY <2>1, <2>2 DEF OneConnectionPerPlayer
  <2> QED BY <1>1, <1>8, <1>10, <2>1, <2>3 DEF StageInv
<1>13. OneConnectionPerPlayer' BY <1>1, StillOne
<1>14. AnswerInv' BY <1>1, <1>8, <1>10 DEF AnswerInv
<1> QED BY <1>6, <1>9, <1>11, <1>12, <1>13, <1>14

LEMMA AbandonKeeps ==
  ASSUME IInv, NEW p \in Peers, Abandon(p)
  PROVE  IInv'
<1> USE DEF IInv
<1>1. UNCHANGED <<listed, registry, session, done, send, got, tokens, owing>>
  BY DEF Abandon, client
<1>2. handler[p].stage = "asked" /\ done[p] /\ handler' = [handler EXCEPT ![p] = At("reading")]
  BY DEF Abandon
<1>3. \/ UNCHANGED <<version, born, cut, audience>>
      \/ Accept(p) /\ audience' = Attached /\ cut' = Attached
  BY DEF Abandon, game, news
<1>4. audience' \subseteq Peers /\ cut' \subseteq Peers BY <1>3 DEF GameType, Attached
<1>5. /\ version' \in Versions /\ born' \in [Players -> Versions]
      /\ version' = 0 => version = 0
  BY <1>2, <1>3, AcceptFacts DEF GameType, Versions
<1>6. GameType' /\ QueueType' BY <1>1, <1>4, <1>5 DEF GameType, QueueType
<1>7. HandlerType' BY <1>2 DEF HandlerType, Handlers, At, Stages, Versions
<1>8. handler'[p].stage = "reading" /\ \A q \in Peers \ {p} : handler'[q] = handler[q]
  BY <1>2 DEF HandlerType, At
<1>9. NoRoomYet' BY <1>1, <1>5, <1>8 DEF NoRoomYet
<1>10. StageInv' BY <1>1, <1>8 DEF StageInv
<1>11. OneConnectionPerPlayer' BY <1>1, StillOne
<1>12. AnswerInv' BY <1>1, <1>2, <1>8 DEF AnswerInv
<1> QED BY <1>6, <1>7, <1>9, <1>10, <1>11, <1>12

LEMMA AuthenticateKeeps ==
  ASSUME IInv, NEW p \in Peers, Authenticate(p)
  PROVE  IInv'
<1> USE DEF IInv
<1>1. UNCHANGED <<version, born, cut, audience, listed, registry, session, done, send, got, tokens, owing>>
  BY DEF Authenticate, game, news, client
<1>2. /\ handler[p].stage = "asked" /\ handler[p].kind = "resume"
      /\ handler' = [handler EXCEPT ![p].stage = "attaching"]
  BY DEF Authenticate
<1>3. GameType' /\ QueueType' BY <1>1 DEF GameType, QueueType
<1>4. HandlerType' BY <1>2 DEF HandlerType, Handlers, Stages
<1>5. /\ handler'[p].stage = "attaching" /\ handler'[p].kind = "resume"
      /\ handler'[p].player = handler[p].player
      /\ \A q \in Peers \ {p} : handler'[q] = handler[q]
  BY <1>2 DEF HandlerType, Handlers
<1>6. version # 0 BY <1>2 DEF NoRoomYet
<1>7. NoRoomYet' BY <1>1, <1>6 DEF NoRoomYet
<1>8. StageInv' BY <1>1, <1>2, <1>5 DEF StageInv
<1>9. OneConnectionPerPlayer' BY <1>1, StillOne
<1>10. AnswerInv' BY <1>1, <1>5 DEF AnswerInv
<1> QED BY <1>3, <1>4, <1>7, <1>8, <1>9, <1>10

LEMMA ListKeeps ==
  ASSUME IInv, NEW p \in Peers, List(p)
  PROVE  IInv'
<1> USE DEF IInv
<1>1. UNCHANGED <<version, born, cut, audience, registry, session, done, send, got, tokens, owing>>
  BY DEF List, game, news, client
<1>2. handler[p].stage = "listing" /\ handler' = [handler EXCEPT ![p].stage = "attaching"]
  BY DEF List
<1>3. listed' \in BOOLEAN BY Zenon DEF List
<1>4. GameType' /\ QueueType' BY <1>1, <1>3 DEF GameType, QueueType
<1>5. HandlerType' BY <1>2 DEF HandlerType, Handlers, Stages
<1>6. /\ handler'[p].stage = "attaching" /\ handler'[p].kind = handler[p].kind
      /\ handler'[p].player = handler[p].player
      /\ \A q \in Peers \ {p} : handler'[q] = handler[q]
  BY <1>2 DEF HandlerType, Handlers
<1>7. NoRoomYet' BY <1>1, <1>2 DEF NoRoomYet
<1>8. StageInv' BY <1>1, <1>2, <1>6 DEF StageInv
<1>9. OneConnectionPerPlayer' BY <1>1, StillOne
<1>10. AnswerInv' BY <1>1, <1>6 DEF AnswerInv
<1> QED BY <1>4, <1>5, <1>7, <1>8, <1>9, <1>10

LEMMA AttachKeeps ==
  ASSUME IInv, NEW p \in Peers, Attach(p)
  PROVE  IInv'
<1> USE DEF IInv
<1> DEFINE player == handler[p].player
           older == {q \in Peers \ {p} : registry[q] = player}
<1>1. UNCHANGED <<version, born, cut, audience, listed, session, tokens>> BY DEF Attach, game, news
<1>2. handler[p].stage = "attaching" /\ handler' = [handler EXCEPT ![p].stage = "capturing"]
  BY DEF Attach
<1>3. /\ registry' = [q \in Peers |-> IF q = p THEN player
                                      ELSE IF q \in older THEN Nil ELSE registry[q]]
      /\ Cancel(older)
  BY DEF Attach
<1>4. /\ QueuesOnly /\ \A q \in older : done'[q]
      /\ \A q \in Peers : send'[q] \in {<<>>, send[q]}
  BY <1>3, CancelFacts
<1>5. player \in Players /\ session[p] = Nil /\ Nil \notin Players BY <1>2 DEF StageInv
<1>6. /\ registry'[p] = player
      /\ \A q \in Peers \ {p} : registry'[q] # player
      /\ \A q \in Peers \ {p} : registry'[q] = registry[q] \/ (done'[q] /\ registry'[q] = Nil)
  <2>1. registry'[p] = player BY <1>3
  <2>2. ASSUME NEW q \in Peers \ {p}, q \in older PROVE registry'[q] = Nil /\ done'[q]
    <3>1. registry'[q] = Nil BY <1>3, <2>2
    <3> QED BY <1>4, <2>2, <3>1
  <2>3. ASSUME NEW q \in Peers \ {p}, q \notin older
        PROVE  registry'[q] = registry[q] /\ registry[q] # player
    BY <1>3, <2>3
  <2>4. Nil # player BY <1>5
  <2> HIDE DEF older, player
  <2>5. ASSUME NEW q \in Peers \ {p}
        PROVE  /\ registry'[q] # player
               /\ registry'[q] = registry[q] \/ (done'[q] /\ registry'[q] = Nil)
    <3>1. CASE q \in older BY <2>2, <2>4, <3>1
    <3>2. CASE q \notin older BY <2>3, <3>2
    <3> QED BY <3>1, <3>2
  <2> QED BY <2>1, <2>5
<1>7. registry' \in [Peers -> Players \cup {Nil}] BY <1>3, <1>5 DEF GameType
<1>8. /\ handler'[p].stage = "capturing" /\ handler'[p].player = player
      /\ handler'[p].kind = handler[p].kind
      /\ \A q \in Peers \ {p} : handler'[q] = handler[q]
  BY <1>2 DEF HandlerType, Handlers
<1>9. HandlerType' BY <1>2 DEF HandlerType, Handlers, Stages
<1> HIDE DEF older
<1>10. GameType' /\ QueueType' BY <1>1, <1>4, <1>7 DEF GameType, QueuesOnly
<1>11. NoRoomYet' BY <1>1, <1>2, <1>4 DEF NoRoomYet
<1>12. StageInv'
  <2>1. handler[p].kind \in Kinds BY <1>2 DEF StageInv
  <2>2. \A q \in Peers : done[q] => done'[q] BY <1>4 DEF QueuesOnly
  <2> QED BY <1>1, <1>5, <1>6, <1>8, <2>1, <2>2 DEF StageInv
<1>13. OneConnectionPerPlayer'
  <2>1. \A q \in Peers : done[q] => done'[q] BY <1>4 DEF QueuesOnly
  <2>2. ASSUME NEW q \in Peers, NEW r \in Peers, registry'[q] # Nil, registry'[q] = registry'[r]
        PROVE  q = r
    BY <1>6, <2>2 DEF OneConnectionPerPlayer
  <2>3. ASSUME NEW q \in Peers, session'[q] # Nil, registry'[q] # session'[q]
        PROVE  done'[q]
    BY <1>1, <1>5, <1>6, <2>1, <2>3 DEF OneConnectionPerPlayer
  <2> QED BY <2>2, <2>3 DEF OneConnectionPerPlayer
<1>14. AnswerInv' BY <1>4, <1>8 DEF AnswerInv, QueuesOnly
<1> QED BY <1>9, <1>10, <1>11, <1>12, <1>13, <1>14

LEMMA CaptureKeeps ==
  ASSUME IInv, NEW p \in Peers, Capture(p)
  PROVE  IInv'
<1> USE DEF IInv
<1> DEFINE targets == Attached
<1>1. UNCHANGED <<version, born, cut, listed, registry, session, done, send, got, tokens, owing>>
  BY DEF Capture, client
<1>2. /\ handler[p].stage = "capturing"
      /\ handler' = [handler EXCEPT ![p].stage = "publishing", ![p].todo = targets]
  BY DEF Capture
<1>3. targets \in SUBSET Peers /\ audience' \in SUBSET Peers BY DEF Attached, Capture, GameType
<1>4. registry[p] # Nil => p \in targets BY DEF Attached
<1>5. registry[p] # Nil \/ done[p] BY <1>2 DEF StageInv
<1> HIDE DEF targets
<1>6. [handler[p] EXCEPT !.stage = "publishing", !.todo = targets] \in Handlers
  <2>1. handler[p] \in Handlers BY DEF HandlerType
  <2> QED BY <1>3, <2>1 DEF Handlers, Stages
<1>7. HandlerType' BY <1>2, <1>6 DEF HandlerType
<1>8. /\ handler'[p].stage = "publishing" /\ handler'[p].todo = targets
      /\ handler'[p].player = handler[p].player /\ handler'[p].kind = handler[p].kind
      /\ \A q \in Peers \ {p} : handler'[q] = handler[q]
  BY <1>2 DEF HandlerType, Handlers
<1>9. GameType' /\ QueueType' BY <1>1, <1>3 DEF GameType, QueueType
<1>10. NoRoomYet' BY <1>1, <1>2 DEF NoRoomYet
<1>11. StageInv' BY <1>1, <1>2, <1>8 DEF StageInv
<1>12. OneConnectionPerPlayer' BY <1>1, StillOne
<1>13. AnswerInv' BY <1>1, <1>4, <1>5, <1>8 DEF AnswerInv
<1> QED BY <1>7, <1>9, <1>10, <1>11, <1>12, <1>13

\* A message without a version is addressed only by a requester who is gone, or to others.
LEMMA AddressKeeps ==
  ASSUME IInv, NEW p \in Peers, NEW q \in Peers, NEW v \in Versions, Address(p, q, v),
         cut' \subseteq Peers, v > 0 \/ done[p]
  PROVE  IInv'
<1> USE DEF IInv
<1>1. UNCHANGED <<version, born, audience, listed, registry, session, done, send, got, tokens, owing>>
  BY DEF Address, client
<1>2. /\ handler[p].stage = "publishing" /\ q \in handler[p].todo
      /\ handler' = [handler EXCEPT ![p].stage = "sending", ![p].to = q, ![p].version = v]
  BY DEF Address
<1>3. [handler[p] EXCEPT !.stage = "sending", !.to = q, !.version = v] \in Handlers
  <2>1. handler[p] \in Handlers BY DEF HandlerType
  <2> QED BY <2>1 DEF Handlers, Stages
<1>4. HandlerType' BY <1>2, <1>3 DEF HandlerType
<1>5. /\ handler'[p].stage = "sending" /\ handler'[p].to = q /\ handler'[p].version = v
      /\ handler'[p].player = handler[p].player /\ handler'[p].kind = handler[p].kind
      /\ handler'[p].todo = handler[p].todo
      /\ \A r \in Peers \ {p} : handler'[r] = handler[r]
  BY <1>2 DEF HandlerType, Handlers
<1>6. GameType' /\ QueueType' BY <1>1 DEF GameType, QueueType
<1>7. NoRoomYet' BY <1>1, <1>2 DEF NoRoomYet
<1>8. StageInv'
  <2>1. /\ handler[p].player \in Players /\ handler[p].kind \in Kinds
        /\ registry[p] = handler[p].player \/ done[p]
    BY <1>2 DEF StageInv
  <2> QED BY <1>1, <1>5, <2>1 DEF StageInv
<1>9. OneConnectionPerPlayer' BY <1>1 DEF OneConnectionPerPlayer
<1>10. AnswerInv'
  <2>1. ASSUME NEW r \in Peers, owing[r], ~done[r], r # p
        PROVE  handler'[r] = handler[r] /\ UNCHANGED <<owing, done>>
    BY <1>1, <1>5, <2>1
  <2>2. ASSUME owing[p], ~done[p], q # p
        PROVE  p \in handler'[p].todo
    BY <1>2, <1>5, <2>2 DEF AnswerInv
  <2>3. ASSUME owing[p], ~done[p], q = p
        PROVE  handler'[p].version > 0
    BY <1>5, <2>3
  <2> HIDE DEF IInv
  <2> QED BY <1>1, <1>5, <2>1, <2>2, <2>3 DEF AnswerInv, IInv
<1> QED BY <1>4, <1>6, <1>7, <1>8, <1>9, <1>10

LEMMA FetchKeeps ==
  ASSUME IInv, NEW p \in Peers, NEW q \in Peers, Fetch(p, q) \/ FetchFails(p, q)
  PROVE  IInv'
<1>1. CASE Fetch(p, q)
  <2> DEFINE v == IF OwnAtHand(p, q) THEN handler[p].own ELSE version
  <2>1. Address(p, q, v) /\ cut' = cut BY <1>1 DEF Fetch
  <2>2. v \in Versions
    BY DEF IInv, GameType, HandlerType, Handlers
  <2>3. handler[p].stage = "publishing" BY <2>1 DEF Address
  <2>4. version > 0
    BY <2>3 DEF IInv, NoRoomYet, GameType, Versions
  <2>5. v > 0 BY <2>4 DEF OwnAtHand
  <2>6. cut' \subseteq Peers BY <2>1 DEF IInv, GameType
  <2> HIDE DEF v
  <2> QED BY <2>1, <2>2, <2>5, <2>6, AddressKeeps
<1>2. CASE FetchFails(p, q)
  <2>1. done[p] /\ Address(p, q, 0) BY <1>2 DEF FetchFails
  <2>2. cut' \subseteq Peers
    <3>1. cut' \in {cut, cut \cup {q}} BY <1>2 DEF FetchFails
    <3> QED BY <3>1 DEF IInv, GameType
  <2>3. 0 \in Versions BY DEF Versions
  <2> QED BY <2>1, <2>2, <2>3, AddressKeeps
<1> QED BY <1>1, <1>2

LEMMA ForwardKeeps ==
  ASSUME IInv, NEW p \in Peers, Forward(p)
  PROVE  IInv'
<1> USE DEF IInv
<1> DEFINE v == handler[p].version
           q == handler[p].to
           message == IF v = 0 THEN Error(FALSE) ELSE Snapshot(v, q = p)
<1>1. UNCHANGED <<version, born, cut, audience, listed, registry, session, tokens>> BY DEF Forward, game, news
<1>2. handler[p].stage = "sending" /\ Enqueue(q, message) BY DEF Forward
<1>3. handler' = [handler EXCEPT ![p].stage = "publishing", ![p].todo = handler[p].todo \ {q},
                                 ![p].to = Nil, ![p].version = 0]
  BY DEF Forward
<1>4. q \in Peers /\ v \in Versions /\ handler[p].todo \ {q} \in SUBSET Peers
  BY <1>2 DEF StageInv, HandlerType, Handlers
<1>5. message \in Messages
  BY <1>4 DEF Error, Snapshot, Messages, Versions
<1>6. v # 0 /\ q = p => message.reply BY DEF Snapshot
<1>7. version # 0 BY <1>2 DEF NoRoomYet
<1> HIDE DEF message
<1>8. QueuesOnly /\ (message.reply => done'[q] \/ ~owing'[q])
  BY <1>2, <1>4, <1>5, EnqueueFacts
<1>9. [handler[p] EXCEPT !.stage = "publishing", !.todo = handler[p].todo \ {q},
                         !.to = Nil, !.version = 0] \in Handlers
  <2>1. handler[p] \in Handlers BY DEF HandlerType
  <2>2. 0 \in Versions BY DEF Versions
  <2> QED BY <1>4, <2>1, <2>2 DEF Handlers, Stages
<1>10. HandlerType' BY <1>3, <1>9 DEF HandlerType
<1>11. /\ handler'[p].stage = "publishing" /\ handler'[p].todo = handler[p].todo \ {q}
       /\ handler'[p].player = handler[p].player /\ handler'[p].kind = handler[p].kind
       /\ \A r \in Peers \ {p} : handler'[r] = handler[r]
  BY <1>3 DEF HandlerType, Handlers
<1>12. GameType' /\ QueueType' BY <1>1, <1>8 DEF GameType, QueuesOnly
<1>13. NoRoomYet' BY <1>1, <1>7 DEF NoRoomYet
<1>14. StageInv' BY <1>1, <1>2, <1>8, <1>11 DEF StageInv, QueuesOnly
<1>15. OneConnectionPerPlayer' BY <1>1, <1>8, StillOne DEF QueuesOnly
<1>16. AnswerInv'
  <2> SUFFICES ASSUME NEW r \in Peers, owing'[r], ~done'[r]
               PROVE  AnswerInv!(r)'
    BY DEF AnswerInv
  <2>1. owing[r] /\ ~done[r] BY <1>8 DEF QueuesOnly
  <2>2. CASE r # p BY <1>11, <2>1, <2>2 DEF AnswerInv
  <2>3. CASE r = p
    <3>1. q = p => v > 0 BY <1>2, <2>1, <2>3 DEF AnswerInv
    <3>2. q # p BY <1>4, <1>6, <1>8, <2>3, <3>1
    <3> QED BY <1>2, <1>11, <2>1, <2>3, <3>2 DEF AnswerInv
  <2> QED BY <2>2, <2>3
<1> QED BY <1>10, <1>12, <1>13, <1>14, <1>15, <1>16

LEMMA FinishKeeps ==
  ASSUME IInv, NEW p \in Peers, Finish(p)
  PROVE  IInv'
<1> USE DEF IInv
<1>1. UNCHANGED <<version, born, cut, audience, listed, registry, done, send, got, tokens, owing>>
  BY DEF Finish, game, news, client
<1>2. /\ handler[p].stage = "publishing" /\ handler[p].todo = {}
      /\ session' = [session EXCEPT ![p] = handler[p].player]
      /\ handler' = [handler EXCEPT ![p] = At("reading")]
  BY DEF Finish
<1>3. handler[p].player \in Players /\ (registry[p] = handler[p].player \/ done[p])
  BY <1>2 DEF StageInv
<1>4. GameType' /\ QueueType' BY <1>1, <1>2, <1>3 DEF GameType, QueueType
<1>5. HandlerType' BY <1>2 DEF HandlerType, Handlers, At, Stages, Versions
<1>6. handler'[p].stage = "reading" /\ \A q \in Peers \ {p} : handler'[q] = handler[q]
  BY <1>2 DEF HandlerType, At
<1>7. NoRoomYet' BY <1>1, <1>2 DEF NoRoomYet
<1>8. StageInv' BY <1>1, <1>2, <1>6 DEF StageInv, GameType
<1>9. OneConnectionPerPlayer' BY <1>1, <1>2, <1>3 DEF OneConnectionPerPlayer, GameType
<1>10. AnswerInv' BY <1>1, <1>2, <1>6 DEF AnswerInv
<1> QED BY <1>4, <1>5, <1>7, <1>8, <1>9, <1>10

LEMMA StepKeeps == IInv /\ [Next]_vars => IInv'
<1> SUFFICES ASSUME IInv, [Next]_vars PROVE IInv' OBVIOUS
<1>1. ASSUME NEW p \in Peers, Work(p) PROVE IInv'
  BY <1>1, RefuseKeeps, ExecuteKeeps, AuthenticateKeeps, AbandonKeeps, ListKeeps, AttachKeeps,
     CaptureKeeps, FetchKeeps, ForwardKeeps, FinishKeeps, LeaveKeeps DEF Work
<1>2. CASE UNCHANGED vars
  BY <1>2 DEF vars, news, IInv, GameType, QueueType, HandlerType, NoRoomYet, StageInv,
              OneConnectionPerPlayer, AnswerInv
<1>3. ASSUME NEW p \in Peers, NEW kind \in Kinds, NEW player \in Players, Ask(p, kind, player)
      PROVE  IInv'
  BY <1>3, AskKeeps
<1> QED BY <1>1, <1>2, <1>3, LoseKeeps, WriteKeeps, MisreadKeeps DEF Next

\* IInv holds in every state the connections of a game can reach.
THEOREM Invariant == Spec => []IInv
BY Initially, StepKeeps, PTL DEF Spec

-----------------------------------------------------------------------------
(* What follows *)

\* Every variable keeps its type, and no queue grows beyond its capacity.
THEOREM TypeCorrect == Spec => []TypeOK
<1>1. ASSUME IInv PROVE TypeOK
  <2> USE <1>1 DEF IInv
  <2>1. ASSUME NEW p \in Peers
        PROVE  /\ handler[p].stage \in Stages /\ handler[p].kind \in Kinds \cup {Nil}
               /\ handler[p].player \in Players \cup {Nil} /\ handler[p].own \in Versions
               /\ handler[p].todo \subseteq Peers /\ handler[p].to \in Peers \cup {Nil}
               /\ handler[p].version \in Versions
    BY DEF HandlerType, Handlers
  <2>2. ASSUME NEW p \in Peers, NEW n \in DOMAIN send[p] PROVE send[p][n] \in Messages
    BY DEF QueueType
  <2> QED BY <2>1, <2>2 DEF TypeOK, GameType, QueueType, Messages
<1> QED BY <1>1, Invariant, PTL

\* However many connections resume the same session at once, the registry holds one of
\* them, and the others are cancelled before they can act for the player.
THEOREM PlayersHaveOneConnection == Spec => []OneConnectionPerPlayer
<1>1. IInv => OneConnectionPerPlayer BY DEF IInv
<1> QED BY <1>1, Invariant, PTL

\* A handler that turns to its next request has put the reply to the last one into the
\* queue, or the connection is cancelled, whoever else publishes meanwhile.
THEOREM RequestsAreAnswered == Spec => []EveryRequestIsAnswered
<1>1. IInv => EveryRequestIsAnswered BY DEF IInv, AnswerInv, EveryRequestIsAnswered
<1> QED BY <1>1, Invariant, PTL

-----------------------------------------------------------------------------
(* The state on its way to every connection *)

Joining == {"create", "join"}

\* No version that is on its way is ahead of the game.
NothingAhead ==
  /\ \A p \in Peers : handler[p].own <= version /\ handler[p].version <= version
  /\ \A p \in Peers : ~done[p] => \A v \in Received(p) : v <= version

\* Whoever acts in the game has joined it; who asks to join is nobody else.
MembersInv ==
  /\ \A x \in tokens : born[x] > 0
  /\ \A p \in Peers :
       /\ registry[p] # Nil => born[registry[p]] > 0
       /\ session[p] # Nil => born[session[p]] > 0
       /\ handler[p].stage = "asked" /\ handler[p].kind \in Joining =>
            /\ born[handler[p].player] = 0
            /\ \A q \in Peers \ {p} : handler[q].player # handler[p].player
       /\ handler[p].stage = "asked" /\ handler[p].kind \notin Joining => born[handler[p].player] > 0
       /\ handler[p].stage \notin {"reading", "asked", "gone"} => born[handler[p].player] > 0
       /\ handler[p].stage \in {"listing", "attaching"} =>
            handler[p].own = IF handler[p].kind = "resume" THEN 0 ELSE born[handler[p].player]
       /\ handler[p].stage = "asked" => handler[p].own = 0

\* A connection that is not attached has been sent no state, and will not be.
Unaddressed(p) ==
  \A q \in Peers : p \notin handler[q].todo /\ (handler[q].stage = "sending" => handler[q].to # p)

UnattachedInv ==
  \A p \in Peers : ~done[p] =>
    /\ registry[p] # Nil /\ session[p] = Nil =>
         handler[p].stage \in {"capturing", "publishing", "sending"}
    /\ registry[p] = Nil => /\ Unaddressed(p) /\ p \notin audience
                            /\ \A v \in Received(p) : v = 0

\* The publication of r has yet to come to p.
Ahead(r, p) ==
  \/ handler[r].stage \in {"listing", "attaching", "capturing"}
  \/ handler[r].stage \in {"publishing", "sending"} /\ p \in handler[r].todo

\* It will bring, or brings, the latest version.
Brings(r, p) ==
  /\ Ahead(r, p)
  /\ \/ handler[r].own = version
     \/ r = p /\ handler[r].own = 0 /\ handler[r].stage \in {"capturing", "publishing", "sending"}
  /\ handler[r].stage = "sending" /\ handler[r].to = p => handler[r].version = version

Served(p) == p \in cut \/ version \in Received(p) \/ \E r \in Peers : Brings(r, p)

\* A player who has just joined, too late for the latest version to be published to him, has
\* his own snapshot, and nothing else.
JustJoined(p) ==
  LET own == born[registry[p]]
  IN  /\ p \notin audience
      /\ \A v \in Received(p) : v \in {0, own}
      /\ handler[p].own \in {0, own}
      /\ \A r \in Peers : handler[r].stage = "sending" /\ handler[r].to = p =>
           handler[r].version \in {0, own, version}
      /\ \/ own \in Received(p)
         \/ /\ handler[p].stage # "listing" /\ Ahead(p, p) /\ handler[p].own = own
            /\ handler[p].stage = "sending" /\ handler[p].to = p => handler[p].version = own

PublishInv == \A p \in Peers : registry[p] # Nil /\ ~done[p] => Served(p) \/ JustJoined(p)

StateInv == NothingAhead /\ MembersInv /\ UnattachedInv /\ PublishInv

\* Received, element by element.
LEMMA ReceivedIs ==
  ASSUME QueueType, NEW p \in Peers
  PROVE  /\ \A v : v \in Received(p) <=> v = got[p] \/ \E n \in 1..Len(send[p]) : send[p][n].version = v
         /\ Received(p) \subseteq Versions
<1>1. send[p] \in Seq(Messages) /\ got[p] \in Versions BY DEF QueueType
<1>2. DOMAIN send[p] = 1..Len(send[p]) BY <1>1
<1>3. ASSUME NEW n \in 1..Len(send[p]) PROVE send[p][n].version \in Versions
  <2>1. send[p][n] \in Messages BY <1>1
  <2> QED BY <2>1 DEF Messages
<1> QED BY <1>1, <1>2, <1>3 DEF Received

\* A cancelled connection is left aside, the others keep what they had.
LEMMA CancelReceived ==
  ASSUME QueueType, NEW peers \in SUBSET Peers, Cancel(peers)
  PROVE  \A q \in Peers :
           /\ done[q] => done'[q]
           /\ q \in peers => done'[q]
           /\ q \notin peers => (done'[q] <=> done[q]) /\ Received(q)' = Received(q)
<1> SUFFICES ASSUME NEW q \in Peers
             PROVE  /\ done[q] => done'[q]
                    /\ q \in peers => done'[q]
                    /\ q \notin peers => (done'[q] <=> done[q]) /\ Received(q)' = Received(q)
  OBVIOUS
<1>1. done'[q] <=> done[q] \/ q \in peers BY DEF Cancel
<1>2. q \notin peers => send'[q] = send[q] /\ got'[q] = got[q] BY DEF Cancel
<1> QED BY <1>1, <1>2 DEF Received

\* What is put into a queue will be received through it, unless it ends the connection.
LEMMA EnqueueReceived ==
  ASSUME QueueType, NEW q \in Peers, NEW message \in Messages, Enqueue(q, message)
  PROVE  /\ \A r \in Peers : done[r] => done'[r]
         /\ \A r \in Peers \ {q} : (done'[r] <=> done[r]) /\ Received(r)' = Received(r)
         /\ ~done'[q] => Received(q)' = Received(q) \cup {message.version}
<1>1. CASE done[q] /\ Ignore
  BY <1>1 DEF Ignore, Received
<1>2. CASE Put(q, message)
  <2>1. send' = [send EXCEPT ![q] = Append(send[q], message)] /\ UNCHANGED <<done, got>>
    BY <1>2 DEF Put
  <2>2. send[q] \in Seq(Messages) BY DEF QueueType
  <2>3. PICK s \in Seq(Messages) : s = send[q] BY <2>2
  <2>4. /\ Len(Append(s, message)) = Len(s) + 1 /\ Len(s) \in Nat
        /\ \A n \in 1..Len(s) : Append(s, message)[n] = s[n]
        /\ Append(s, message)[Len(s) + 1] = message
        /\ DOMAIN Append(s, message) = 1..(Len(s) + 1) /\ DOMAIN s = 1..Len(s)
    BY <2>3
  <2>5. {Append(s, message)[n].version : n \in 1..(Len(s) + 1)}
          = {s[n].version : n \in 1..Len(s)} \cup {message.version}
    BY <2>4
  <2>6. send'[q] = Append(s, message) /\ \A r \in Peers \ {q} : send'[r] = send[r]
    BY <2>1, <2>3 DEF QueueType
  <2>7. Received(q)' = Received(q) \cup {message.version}
    BY <2>1, <2>3, <2>4, <2>5, <2>6 DEF Received
  <2>8. \A r \in Peers \ {q} : Received(r)' = Received(r)
    BY <2>1, <2>6 DEF Received
  <2> QED BY <2>1, <2>7, <2>8
<1>3. CASE Cancel({q})
  BY <1>3, CancelReceived
<1> QED BY <1>1, <1>2, <1>3 DEF Enqueue

\* Delivery loses nothing but versions that are outdated.
LEMMA WriteReceived ==
  ASSUME QueueType, NEW p \in Peers, Write(p)
  PROVE  /\ \A r \in Peers \ {p} : Received(r)' = Received(r)
         /\ Received(p)' \subseteq Received(p)
         /\ \A v \in Received(p) : (\A w \in Received(p) : w <= v) => v \in Received(p)'
         /\ Head(send[p]).version \in Received(p)
<1>1. send[p] # <<>> /\ send' = [send EXCEPT ![p] = Tail(send[p])]
      /\ got' = [got EXCEPT ![p] = Larger(got[p], Head(send[p]).version)]
  BY DEF Write
<1>2. PICK s \in Seq(Messages) : s = send[p] BY DEF QueueType
<1>3. /\ Len(s) \in Nat \ {0} /\ Head(s) = s[1] /\ Len(Tail(s)) = Len(s) - 1
      /\ \A n \in 1..(Len(s) - 1) : Tail(s)[n] = s[n + 1]
      /\ \A n \in 1..Len(s) : s[n] \in Messages
      /\ DOMAIN Tail(s) = 1..(Len(s) - 1) /\ DOMAIN s = 1..Len(s)
  BY <1>1, <1>2
<1> DEFINE k == Len(s)
<1>4. k \in Nat \ {0} BY <1>3
<1>5. send'[p] = Tail(s) /\ got'[p] = Larger(got[p], s[1].version)
      /\ \A r \in Peers \ {p} : send'[r] = send[r] /\ got'[r] = got[r]
  BY <1>1, <1>2, <1>3 DEF QueueType
<1>6. got[p] \in Nat /\ \A n \in 1..k : s[n].version \in Nat
  BY <1>3, <1>4 DEF QueueType, Messages, Versions
<1>7. Received(p) = {got[p]} \cup {s[n].version : n \in 1..k}
  BY <1>2, <1>3 DEF Received
<1>8. Received(p)' = {got'[p]} \cup {s[n + 1].version : n \in 1..(k - 1)}
  <2>1. {Tail(s)[n].version : n \in 1..(k - 1)} = {s[n + 1].version : n \in 1..(k - 1)}
    BY <1>3, <1>4
  <2>2. DOMAIN Tail(s) = 1..(k - 1) BY <1>3
  <2>3. Received(p)' = {got'[p]} \cup {Tail(s)[n].version : n \in DOMAIN Tail(s)}
    BY <1>5 DEF Received
  <2> QED BY <2>1, <2>2, <2>3
<1> HIDE DEF k
<1>9. \A n \in 1..k : n = 1 \/ (n - 1 \in 1..(k - 1) /\ s[(n - 1) + 1] = s[n])
  BY <1>4
<1>10. 1 \in 1..k /\ \A n \in 1..(k - 1) : n + 1 \in 1..k BY <1>4
<1>11. got'[p] \in {got[p], s[1].version} /\ got'[p] >= got[p] /\ got'[p] >= s[1].version
  BY <1>5, <1>6, <1>10 DEF Larger
<1>12. Received(p)' \subseteq Received(p)
  BY <1>7, <1>8, <1>10, <1>11
<1>13. ASSUME NEW v \in Received(p), \A w \in Received(p) : w <= v PROVE v \in Received(p)'
  <2>1. got'[p] \in Received(p) BY <1>7, <1>10, <1>11
  <2>2. got'[p] <= v BY <1>13, <2>1
  <2>3. CASE v = got[p] \/ v = s[1].version
    <3>1. got[p] \in Nat /\ s[1].version \in Nat BY <1>6, <1>10
    <3>2. got'[p] = v BY <1>11, <2>2, <2>3, <3>1
    <3> QED BY <1>8, <3>2
  <2>4. CASE \E n \in 1..k : n # 1 /\ v = s[n].version
    BY <1>8, <1>9, <2>4
  <2> QED BY <1>7, <1>13, <2>3, <2>4
<1>14. \A r \in Peers \ {p} : Received(r)' = Received(r)
  BY <1>5 DEF Received
<1> QED BY <1>2, <1>3, <1>7, <1>10, <1>12, <1>13, <1>14

\* What the queues may do on their own.
Kept ==
  \A q \in Peers : ~done'[q] =>
    /\ ~done[q] /\ Received(q)' \subseteq Received(q)
    /\ \A v \in Received(q) : (\A w \in Received(q) : w <= v) => v \in Received(q)'

LEMMA QueuesKeepState ==
  ASSUME IInv, StateInv, Kept, UNCHANGED <<version, born, cut, audience, registry, handler, session>>,
         \A x \in tokens' : born[x] > 0
  PROVE  StateInv'
<1>1. version \in Versions /\ born \in [Players -> Versions] /\ QueueType /\ HandlerType
  BY DEF IInv, GameType
<1>2. NothingAhead' BY DEF StateInv, NothingAhead, Kept
<1>3. MembersInv' BY DEF StateInv, MembersInv
<1>4. UnattachedInv' BY DEF StateInv, UnattachedInv, Unaddressed, Kept
<1>5. ASSUME NEW q \in Peers, registry'[q] # Nil, ~done'[q] PROVE Served(q)' \/ JustJoined(q)'
  <2>1. /\ registry[q] # Nil /\ ~done[q] /\ Received(q)' \subseteq Received(q)
        /\ \A v \in Received(q) : (\A w \in Received(q) : w <= v) => v \in Received(q)'
    BY <1>5 DEF Kept
  <2>2. \A v \in Received(q) : v <= version BY <2>1 DEF StateInv, NothingAhead
  <2>3. CASE Served(q)
    BY <2>1, <2>2, <2>3 DEF Served, Brings, Ahead
  <2>4. CASE JustJoined(q)
    <3>1. born[registry[q]] > 0 /\ born[registry[q]] \in Versions
      BY <1>1, <2>1 DEF StateInv, MembersInv, IInv, GameType
    <3>2. \A v \in Received(q) : v \in {0, born[registry[q]]} BY <2>4 DEF JustJoined
    <3>3. \A v \in Received(q) : v <= born[registry[q]] BY <3>1, <3>2 DEF Versions
    <3>4. born[registry[q]] \in Received(q) => born[registry[q]] \in Received(q)' BY <2>1, <3>3
    <3> QED BY <2>1, <2>4, <3>4 DEF JustJoined, Ahead
  <2> QED BY <2>1, <2>3, <2>4 DEF StateInv, PublishInv
<1> QED BY <1>2, <1>3, <1>4, <1>5 DEF StateInv, PublishInv

LEMMA LoseKeepsState ==
  ASSUME IInv, StateInv, NEW p \in Peers, Lose(p)
  PROVE  StateInv'
<1>1. Cancel({p}) /\ UNCHANGED <<version, born, cut, audience, registry, handler, session, tokens>>
  BY DEF Lose, game, news
<1>2. Kept BY <1>1, CancelReceived DEF Kept, IInv
<1> QED BY <1>1, <1>2, QueuesKeepState DEF StateInv, MembersInv

LEMMA WriteKeepsState ==
  ASSUME IInv, StateInv, NEW p \in Peers, Write(p)
  PROVE  StateInv'
<1>1. UNCHANGED <<version, born, cut, audience, registry, handler, session, done>> /\ ~done[p]
  BY DEF Write, game, news
<1>2. Kept
  BY <1>1, WriteReceived DEF Kept, IInv
<1>3. \A x \in tokens' : x \in tokens \/ (x = registry[p] /\ x # Nil) BY DEF Write
<1>4. \A x \in tokens' : born[x] > 0 BY <1>3 DEF StateInv, MembersInv
<1> QED BY <1>1, <1>2, <1>4, QueuesKeepState

\* A step of the handler of p that leaves the versions and the queues alone.
HandlerStep(p) ==
  /\ UNCHANGED <<version, born, registry, done, send, got, tokens>>
  /\ \A q \in Peers \ {p} : handler'[q] = handler[q]

LEMMA NothingReceived ==
  ASSUME NEW p \in Peers, HandlerStep(p)
  PROVE  \A q \in Peers : Received(q)' = Received(q)
BY DEF HandlerStep, Received

\* Nothing new for a connection, as far as it is concerned.
LEMMA HandlerStepKeeps ==
  ASSUME IInv, StateInv, NEW p \in Peers, HandlerStep(p), cut \subseteq cut',
         \A q \in audience' : q \in audience \/ Brings(p, q)',
         \A q \in Peers : registry[q] # Nil /\ ~done[q] /\ Brings(p, q) => Brings(p, q)' \/ q \in cut',
         \A q \in Peers : handler'[p].stage = "sending" /\ handler'[p].to = q =>
           handler'[p].version \in {0, version, IF p = q THEN handler[p].own ELSE 0},
         handler'[p].own \in {0, handler[p].own},
         registry[p] # Nil /\ ~done[p] /\ handler[p].own > 0 =>
           (Ahead(p, p) /\ handler[p].stage # "listing" =>
             /\ Ahead(p, p)' /\ handler'[p].stage # "listing" /\ handler'[p].own = handler[p].own
             /\ handler'[p].stage = "sending" /\ handler'[p].to = p => handler'[p].version = handler[p].own)
  PROVE  PublishInv'
<1> SUFFICES ASSUME NEW q \in Peers, registry[q] # Nil, ~done[q]
             PROVE  Served(q)' \/ JustJoined(q)'
  BY DEF PublishInv, HandlerStep
<1>1. Received(q)' = Received(q) BY NothingReceived
<1>2. UNCHANGED <<version, born, registry>> /\ \A r \in Peers \ {p} : handler'[r] = handler[r]
  BY DEF HandlerStep
<1>3. CASE Served(q)
  <2>1. \A r \in Peers \ {p} : Brings(r, q) => Brings(r, q)' BY <1>2 DEF Brings, Ahead
  <2> QED BY <1>1, <1>2, <1>3, <2>1 DEF Served
<1>4. CASE JustJoined(q) /\ q \in audience'
  <2>1. Brings(p, q)' BY <1>4 DEF JustJoined
  <2> QED BY <2>1 DEF Served
<1>5. CASE JustJoined(q) /\ q \notin audience'
  <2> DEFINE own == born[registry[q]]
  <2>1. own > 0 /\ own' = own BY <1>2 DEF StateInv, MembersInv
  <2>2. (\A v \in Received(q) : v \in {0, own}) /\ handler[q].own \in {0, own}
    BY <1>5 DEF JustJoined
  <2>3. handler'[q].own \in {0, own}
    BY <1>2, <1>5, <2>2
  <2>4. \A r \in Peers : handler'[r].stage = "sending" /\ handler'[r].to = q =>
           handler'[r].version \in {0, own, version}
    BY <1>2, <1>5, <2>2 DEF JustJoined
  <2>5. \/ own \in Received(q)
        \/ /\ handler'[q].stage # "listing" /\ Ahead(q, q)' /\ handler'[q].own = own
           /\ handler'[q].stage = "sending" /\ handler'[q].to = q => handler'[q].version = own
    <3>1. SUFFICES ASSUME own \notin Received(q)
                   PROVE  /\ handler'[q].stage # "listing" /\ Ahead(q, q)' /\ handler'[q].own = own
                          /\ handler'[q].stage = "sending" /\ handler'[q].to = q => handler'[q].version = own
      OBVIOUS
    <3>2. /\ handler[q].stage # "listing" /\ Ahead(q, q) /\ handler[q].own = own
          /\ handler[q].stage = "sending" /\ handler[q].to = q => handler[q].version = own
      BY <1>5, <3>1 DEF JustJoined
    <3>3. CASE q # p BY <1>2, <3>2, <3>3 DEF Ahead
    <3>4. CASE q = p BY <1>5, <2>1, <3>2, <3>4
    <3> QED BY <3>3, <3>4
  <2> HIDE DEF own
  <2> QED BY <1>1, <1>2, <1>5, <2>1, <2>2, <2>3, <2>4, <2>5 DEF JustJoined, own
<1> QED BY <1>3, <1>4, <1>5 DEF StateInv, PublishInv

LEMMA AskKeepsState ==
  ASSUME IInv, StateInv, NEW p \in Peers, NEW kind \in Kinds, NEW player \in Players, Ask(p, kind, player)
  PROVE  StateInv'
<1> USE DEF StateInv
<1>1. /\ handler[p].stage = "reading" /\ ~done[p] /\ HandlerType
      /\ UNCHANGED <<version, born, cut, audience, registry, session, done, send, got, tokens>>
      /\ handler' = [handler EXCEPT ![p] = [At("asked") EXCEPT !.kind = kind, !.player = player]]
  BY DEF Ask, game, news, IInv
<1>2. /\ handler'[p].stage = "asked" /\ handler'[p].kind = kind /\ handler'[p].player = player
      /\ handler'[p].own = 0 /\ handler'[p].version = 0 /\ handler'[p].todo = {}
      /\ \A q \in Peers \ {p} : handler'[q] = handler[q]
  BY <1>1 DEF HandlerType, At
<1>3. HandlerStep(p) BY <1>1, <1>2 DEF HandlerStep
<1>4. NothingAhead'
  BY <1>1, <1>2, <1>3, NothingReceived DEF NothingAhead, IInv, GameType, Versions
<1>5. MembersInv'
  <2>1. kind \in Joining =>
          born[player] = 0 /\ \A q \in Peers : handler[q].player # player
    BY DEF Ask, Fresh, Joining
  <2>2. kind \notin Joining => born[player] > 0
    <3>1. kind = "resume" => player \in tokens BY DEF Ask
    <3>2. kind = "command" => player = session[p] /\ session[p] # Nil
      BY ConnectionsAssumption DEF Ask
    <3> QED BY <3>1, <3>2 DEF Kinds, Joining, MembersInv
  <2>3. ASSUME NEW q \in Peers \ {p}, handler[q].stage = "asked", handler[q].kind \in Joining
        PROVE  player # handler[q].player
    <3>1. born[handler[q].player] = 0 BY <2>3 DEF MembersInv
    <3>2. kind \in Joining => player # handler[q].player BY <2>1
    <3> QED BY <2>2, <3>1, <3>2
  <2>4. \A q \in Peers \ {p} : handler'[q] = handler[q] BY <1>2
  <2> QED BY <1>1, <1>2, <2>1, <2>2, <2>3, <2>4 DEF MembersInv
<1>6. UnattachedInv' BY <1>1, <1>2, <1>3, NothingReceived DEF UnattachedInv, Unaddressed
<1>7. PublishInv'
  <2>1. \A q \in Peers : ~Ahead(p, q) BY <1>1 DEF Ahead
  <2> QED BY <1>1, <1>2, <1>3, <2>1, HandlerStepKeeps DEF Brings
<1> QED BY <1>4, <1>5, <1>6, <1>7

LEMMA AuthenticateKeepsState ==
  ASSUME IInv, StateInv, NEW p \in Peers, Authenticate(p)
  PROVE  StateInv'
<1> USE DEF StateInv
<1>1. /\ handler[p].stage = "asked" /\ handler[p].kind = "resume" /\ HandlerType
      /\ UNCHANGED <<version, born, cut, audience, registry, session, done, send, got, tokens>>
      /\ handler' = [handler EXCEPT ![p].stage = "attaching"]
  BY DEF Authenticate, game, news, client, IInv
<1>2. /\ handler'[p].stage = "attaching" /\ handler'[p].kind = "resume"
      /\ handler'[p].player = handler[p].player /\ handler'[p].own = handler[p].own
      /\ handler'[p].version = handler[p].version /\ handler'[p].todo = handler[p].todo
      /\ \A q \in Peers \ {p} : handler'[q] = handler[q]
  BY <1>1 DEF HandlerType, Handlers
<1>3. HandlerStep(p) BY <1>1, <1>2 DEF HandlerStep
<1>4. NothingAhead' BY <1>1, <1>2, <1>3, NothingReceived DEF NothingAhead
<1>5. MembersInv' BY <1>1, <1>2 DEF MembersInv, Joining
<1>6. UnattachedInv' BY <1>1, <1>2, <1>3, NothingReceived DEF UnattachedInv, Unaddressed
<1>7. PublishInv'
  <2>1. \A q \in Peers : ~Ahead(p, q) BY <1>1 DEF Ahead
  <2> QED BY <1>1, <1>2, <1>3, <2>1, HandlerStepKeeps DEF Brings
<1> QED BY <1>4, <1>5, <1>6, <1>7

LEMMA ListKeepsState ==
  ASSUME IInv, StateInv, NEW p \in Peers, List(p)
  PROVE  StateInv'
<1> USE DEF StateInv
<1>1. /\ handler[p].stage = "listing" /\ HandlerType
      /\ UNCHANGED <<version, born, cut, audience, registry, session, done, send, got, tokens>>
      /\ handler' = [handler EXCEPT ![p].stage = "attaching"]
  BY DEF List, game, news, client, IInv
<1>2. /\ handler'[p].stage = "attaching" /\ handler'[p].kind = handler[p].kind
      /\ handler'[p].player = handler[p].player /\ handler'[p].own = handler[p].own
      /\ handler'[p].version = handler[p].version /\ handler'[p].todo = handler[p].todo
      /\ \A q \in Peers \ {p} : handler'[q] = handler[q]
  BY <1>1 DEF HandlerType, Handlers
<1>3. HandlerStep(p) BY <1>1, <1>2 DEF HandlerStep
<1>4. NothingAhead' BY <1>1, <1>2, <1>3, NothingReceived DEF NothingAhead
<1>5. MembersInv' BY <1>1, <1>2 DEF MembersInv
<1>6. UnattachedInv' BY <1>1, <1>2, <1>3, NothingReceived DEF UnattachedInv, Unaddressed
<1>7. PublishInv'
  <2>1. \A q \in Peers : Brings(p, q) => Brings(p, q)' BY <1>1, <1>2 DEF Brings, Ahead
  <2> QED BY <1>1, <1>2, <1>3, <2>1, HandlerStepKeeps
<1> QED BY <1>4, <1>5, <1>6, <1>7

LEMMA CaptureKeepsState ==
  ASSUME IInv, StateInv, NEW p \in Peers, Capture(p)
  PROVE  StateInv'
<1> USE DEF StateInv
<1> DEFINE targets == Attached
<1>1. /\ handler[p].stage = "capturing" /\ HandlerType
      /\ UNCHANGED <<version, born, cut, registry, session, done, send, got, tokens>>
      /\ handler' = [handler EXCEPT ![p].stage = "publishing", ![p].todo = targets]
  BY DEF Capture, client, IInv
<1>2. /\ \A q : q \in targets <=> q \in Peers /\ registry[q] # Nil
      /\ audience' = IF handler[p].own = version THEN targets ELSE audience
  BY DEF Attached, Capture
<1> HIDE DEF targets
<1>3. /\ handler'[p].stage = "publishing" /\ handler'[p].kind = handler[p].kind
      /\ handler'[p].player = handler[p].player /\ handler'[p].own = handler[p].own
      /\ handler'[p].version = handler[p].version /\ handler'[p].todo = targets
      /\ \A q \in Peers \ {p} : handler'[q] = handler[q]
  BY <1>1 DEF HandlerType, Handlers
<1>4. HandlerStep(p) BY <1>1, <1>3 DEF HandlerStep
<1>5. NothingAhead' BY <1>1, <1>3, <1>4, NothingReceived DEF NothingAhead
<1>6. MembersInv'
  <2>1. /\ handler[p].stage = "capturing" /\ handler'[p].stage = "publishing"
        /\ handler'[p].player = handler[p].player
        /\ \A q \in Peers \ {p} : handler'[q] = handler[q]
        /\ UNCHANGED <<born, registry, session, tokens>>
    BY <1>1, <1>3
  <2> QED BY <2>1 DEF MembersInv
<1>7. UnattachedInv'
  <2>1. ASSUME NEW q \in Peers, registry[q] = Nil, ~done[q]
        PROVE  Unaddressed(q)' /\ q \notin audience'
    <3>1. Unaddressed(q) /\ q \notin audience BY <2>1 DEF UnattachedInv
    <3> QED BY <1>2, <1>3, <2>1, <3>1 DEF Unaddressed
  <2>2. ASSUME NEW q \in Peers, registry[q] # Nil, session[q] = Nil, ~done[q]
        PROVE  handler'[q].stage \in {"capturing", "publishing", "sending"}
    BY <1>3, <2>2 DEF UnattachedInv, Unaddressed
  <2> QED BY <1>1, <1>4, <2>1, <2>2, NothingReceived DEF UnattachedInv
<1>8. PublishInv'
  <2>1. \A q \in Peers : registry[q] # Nil /\ Brings(p, q) => Brings(p, q)'
    BY <1>1, <1>2, <1>3 DEF Brings, Ahead
  <2>2. registry[p] # Nil => Ahead(p, p)' BY <1>2, <1>3 DEF Ahead
  <2>3. \A q \in audience' : q \in audience \/ Brings(p, q)'
    BY <1>1, <1>2, <1>3 DEF Brings, Ahead
  <2> QED BY <1>1, <1>3, <1>4, <2>1, <2>2, <2>3, HandlerStepKeeps
<1> QED BY <1>5, <1>6, <1>7, <1>8

LEMMA FinishKeepsState ==
  ASSUME IInv, StateInv, NEW p \in Peers, Finish(p)
  PROVE  StateInv'
<1> USE DEF StateInv
<1>1. /\ handler[p].stage = "publishing" /\ handler[p].todo = {} /\ HandlerType
      /\ UNCHANGED <<version, born, cut, audience, registry, done, send, got, tokens>>
      /\ session' = [session EXCEPT ![p] = handler[p].player]
      /\ handler' = [handler EXCEPT ![p] = At("reading")]
  BY DEF Finish, game, news, client, IInv
<1>2. /\ handler'[p].stage = "reading" /\ handler'[p].player = Nil /\ handler'[p].own = 0
      /\ handler'[p].version = 0 /\ handler'[p].todo = {} /\ handler'[p].to = Nil
      /\ \A q \in Peers \ {p} : handler'[q] = handler[q]
  BY <1>1 DEF HandlerType, At
<1>3. HandlerStep(p) BY <1>1, <1>2 DEF HandlerStep
<1>4. NothingAhead'
  BY <1>1, <1>2, <1>3, NothingReceived DEF NothingAhead, IInv, GameType, Versions
<1>5. /\ session'[p] = handler[p].player /\ session'[p] # Nil /\ born[handler[p].player] > 0
      /\ \A q \in Peers \ {p} : session'[q] = session[q]
  BY <1>1 DEF IInv, GameType, StageInv, MembersInv
<1>6. MembersInv'
  <2>1. ASSUME NEW q \in Peers \ {p}, handler[q].stage = "asked", handler[q].kind \in Joining
        PROVE  handler[q].player # Nil
    BY <2>1 DEF IInv, StageInv
  <2> QED BY <1>1, <1>2, <1>5, <2>1 DEF MembersInv
<1>7. UnattachedInv' BY <1>1, <1>2, <1>3, <1>5, NothingReceived DEF UnattachedInv, Unaddressed
<1>8. PublishInv'
  <2>1. \A q \in Peers : ~Ahead(p, q) BY <1>1 DEF Ahead
  <2> QED BY <1>1, <1>2, <1>3, <2>1, HandlerStepKeeps DEF Brings
<1> QED BY <1>4, <1>6, <1>7, <1>8

LEMMA AddressKeepsState ==
  ASSUME IInv, StateInv, NEW p \in Peers, NEW q \in Peers, NEW v \in {0, version, handler[p].own},
         Address(p, q, v), cut \subseteq cut',
         v \notin {0, version} => p = q,
         p = q /\ ~done[p] => v = IF handler[p].own > 0 THEN handler[p].own ELSE version,
         v # version /\ handler[p].own = version => q \in cut'
  PROVE  StateInv'
<1> USE DEF StateInv
<1>1. /\ handler[p].stage = "publishing" /\ q \in handler[p].todo /\ HandlerType
      /\ UNCHANGED <<version, born, audience, registry, session, done, send, got, tokens>>
  BY DEF Address, client, IInv
<1>2. handler' = [handler EXCEPT ![p].stage = "sending", ![p].to = q, ![p].version = v]
  BY DEF Address
<1>3. /\ handler'[p].stage = "sending" /\ handler'[p].kind = handler[p].kind
      /\ handler'[p].player = handler[p].player /\ handler'[p].own = handler[p].own
      /\ handler'[p].version = v /\ handler'[p].todo = handler[p].todo /\ handler'[p].to = q
      /\ \A r \in Peers \ {p} : handler'[r] = handler[r]
  BY <1>1, <1>2 DEF HandlerType, Handlers
<1>4. HandlerStep(p) BY <1>1, <1>3 DEF HandlerStep
<1>5. version \in Nat /\ handler[p].own \in Nat
  BY DEF IInv, GameType, HandlerType, Handlers, Versions
<1>6. v <= version BY <1>5 DEF NothingAhead
<1>7. NothingAhead'
  <2>1. \A r \in Peers : handler'[r].own <= version /\ handler'[r].version <= version
    BY <1>3, <1>6 DEF NothingAhead
  <2> QED BY <1>1, <1>4, <2>1, NothingReceived DEF NothingAhead
<1>8. MembersInv'
  <2>1. /\ handler'[p].stage = "sending" /\ handler'[p].player = handler[p].player
        /\ \A r \in Peers \ {p} : handler'[r] = handler[r]
    BY <1>3
  <2> QED BY <1>1, <2>1 DEF MembersInv
<1>9. UnattachedInv' BY <1>1, <1>3, <1>4, NothingReceived DEF UnattachedInv, Unaddressed
<1>10. PublishInv'
  <2>1. ASSUME NEW r \in Peers, ~done[r], Brings(p, r) PROVE Brings(p, r)' \/ r \in cut'
    <3>1. Ahead(p, r)' BY <1>1, <1>3, <2>1 DEF Brings, Ahead
    <3>2. handler[p].own = version \/ (r = p /\ handler[p].own = 0) BY <2>1 DEF Brings
    <3>3. CASE r # q BY <1>1, <1>3, <2>1, <3>1, <3>2, <3>3 DEF Brings
    <3>4. CASE r = q /\ v = version BY <1>1, <1>3, <2>1, <3>1, <3>2, <3>4 DEF Brings
    <3>5. CASE r = q /\ v # version
      <4>1. CASE handler[p].own = version BY <3>5, <4>1
      <4>2. CASE r = p /\ handler[p].own = 0 BY <2>1, <3>5, <4>2
      <4> QED BY <3>2, <4>1, <4>2
    <3> QED BY <3>3, <3>4, <3>5
  <2>2. ASSUME NEW r \in Peers, handler'[p].to = r
        PROVE  handler'[p].version \in {0, version, IF p = r THEN handler[p].own ELSE 0}
    BY <1>3, <2>2
  <2>3. ~done[p] /\ handler[p].own > 0 => (handler'[p].to = p => handler'[p].version = handler[p].own)
    BY <1>3
  <2>4. Ahead(p, p) => Ahead(p, p)' BY <1>1, <1>3 DEF Ahead
  <2>5. \A r \in Peers : registry[r] # Nil /\ ~done[r] /\ Brings(p, r) => Brings(p, r)' \/ r \in cut'
    BY <2>1
  <2>6. handler'[p].stage # "listing" /\ handler'[p].own = handler[p].own BY <1>3
  <2> QED BY <1>1, <1>4, <2>2, <2>3, <2>4, <2>5, <2>6, HandlerStepKeeps
<1> QED BY <1>7, <1>8, <1>9, <1>10

LEMMA FetchKeepsState ==
  ASSUME IInv, StateInv, NEW p \in Peers, NEW q \in Peers, Fetch(p, q) \/ FetchFails(p, q)
  PROVE  StateInv'
<1>1. handler[p].own \in Nat BY DEF IInv, HandlerType, Handlers, Versions
<1>2. CASE Fetch(p, q)
  <2> DEFINE v == IF OwnAtHand(p, q) THEN handler[p].own ELSE version
  <2>1. Address(p, q, v) /\ cut' = cut BY <1>2 DEF Fetch
  <2>2. cut \subseteq cut' BY <2>1
  <2>3. /\ v \in {0, version, handler[p].own}
        /\ v \notin {0, version} => p = q
        /\ p = q => v = IF handler[p].own > 0 THEN handler[p].own ELSE version
        /\ v # version => handler[p].own # version
    BY DEF OwnAtHand
  <2> HIDE DEF v
  <2> QED BY <2>1, <2>2, <2>3, AddressKeepsState
<1>3. CASE FetchFails(p, q)
  <2>1. /\ done[p] /\ Address(p, q, 0)
        /\ cut' = IF handler[p].own = version THEN cut \cup {q} ELSE cut
    BY <1>3 DEF FetchFails
  <2>2. cut \subseteq cut' /\ (handler[p].own = version => q \in cut') BY <2>1
  <2> QED BY <2>1, <2>2, AddressKeepsState
<1> QED BY <1>2, <1>3

\* An accepted command is the business of its publication, or it is cut short.
LEMMA AcceptKeepsState ==
  ASSUME IInv, StateInv, NEW p \in Peers, handler[p].stage = "asked", Accept(p),
         UNCHANGED <<registry, session, done, send, got, tokens>>,
         \A q \in Peers \ {p} : handler'[q] = handler[q],
         handler'[p].own <= version + 1, handler'[p].version <= version + 1,
         handler'[p].player \in {handler[p].player, Nil}, handler'[p].todo \subseteq handler[p].todo,
         handler'[p].stage \notin {"asked", "sending"},
         handler'[p].stage \notin {"reading", "asked", "gone"} =>
           /\ handler'[p].player = handler[p].player /\ handler'[p].own = version + 1
           /\ handler'[p].stage \in {"listing", "attaching"} =>
                handler[p].kind \in Joining /\ handler'[p].kind = handler[p].kind,
         \A q \in audience' : registry[q] # Nil,
         Attached \subseteq cut'
           \/ (handler'[p].stage \in {"listing", "attaching", "capturing"} /\ handler'[p].own = version + 1)
  PROVE  StateInv'
<1> USE DEF StateInv
<1>1. /\ version' = version + 1 /\ version \in Nat
      /\ handler[p].player \in Players /\ born \in [Players -> Versions]
      /\ born' = IF handler[p].kind = "command" THEN born ELSE [born EXCEPT ![handler[p].player] = version + 1]
  BY DEF Accept, IInv, GameType, Versions, StageInv
<1>2. /\ \A x \in Players : born[x] > 0 => born'[x] > 0
      /\ \A x \in Players \ {handler[p].player} : born'[x] = born[x]
      /\ born'[handler[p].player] > 0
      /\ handler[p].kind \in Joining => born'[handler[p].player] = version + 1
  BY <1>1 DEF MembersInv, Joining, Versions, IInv, StageInv, Kinds, Accept
<1>3. \A q \in Peers : Received(q)' = Received(q) BY DEF Received
<1>4. NothingAhead'
  <2>1. \A q \in Peers : /\ handler[q].own \in Nat /\ handler[q].version \in Nat
                         /\ \A w \in Received(q) : w \in Nat
    BY ReceivedIs DEF IInv, HandlerType, Handlers, Versions
  <2> QED BY <1>1, <1>3, <2>1 DEF NothingAhead
<1>5. MembersInv'
  <2>1. /\ tokens \subseteq Players
        /\ \A q \in Peers : /\ registry[q] # Nil => registry[q] \in Players
                            /\ session[q] # Nil => session[q] \in Players
                            /\ handler[q].stage \notin {"reading", "gone"} => handler[q].player \in Players
    BY DEF IInv, GameType, StageInv
  <2>2. \A x \in tokens' : born'[x] > 0 BY <1>2, <2>1 DEF MembersInv
  <2>3. ASSUME NEW q \in Peers, registry[q] # Nil PROVE born'[registry[q]] > 0
    BY <1>2, <2>1, <2>3 DEF MembersInv
  <2>4. ASSUME NEW q \in Peers, session[q] # Nil PROVE born'[session[q]] > 0
    BY <1>2, <2>1, <2>4 DEF MembersInv
  <2>5. ASSUME NEW q \in Peers \ {p}, handler[q].stage = "asked", handler[q].kind \in Joining
        PROVE  /\ born'[handler[q].player] = 0
               /\ \A r \in Peers \ {q} : handler'[r].player # handler[q].player
    <3>1. \A r \in Peers \ {q} : handler[r].player # handler[q].player BY <2>5 DEF MembersInv
    <3>2. handler[q].player # handler[p].player /\ handler[q].player # Nil /\ handler[q].player \in Players
      BY <2>1, <2>5, <3>1
    <3> QED BY <1>2, <2>5, <3>1, <3>2 DEF MembersInv
  <2>6. ASSUME NEW q \in Peers \ {p}, handler[q].stage \in {"listing", "attaching"}
        PROVE  handler[q].own = IF handler[q].kind = "resume" THEN 0 ELSE born'[handler[q].player]
    <3>1. CASE handler[p].kind \in Joining
      <4>1. handler[q].player # handler[p].player BY <2>6, <3>1 DEF MembersInv
      <4> QED BY <1>2, <2>1, <2>6, <4>1 DEF MembersInv
    <3>2. CASE handler[p].kind \notin Joining
      <4>1. born' = born
        <5>1. handler[p].kind \in Kinds /\ handler[p].kind # "resume"
          BY DEF IInv, StageInv, Accept
        <5> QED BY <1>1, <3>2, <5>1 DEF Kinds, Joining
      <4> QED BY <2>6, <4>1 DEF MembersInv
    <3> QED BY <3>1, <3>2
  <2>7. ASSUME NEW q \in Peers \ {p}, handler[q].stage \notin {"reading", "gone"}
        PROVE  /\ handler[q].stage # "asked" => born'[handler[q].player] > 0
               /\ handler[q].stage = "asked" /\ handler[q].kind \notin Joining => born'[handler[q].player] > 0
    BY <1>2, <2>1, <2>7 DEF MembersInv
  <2>8. handler'[p].stage \notin {"reading", "gone"} =>
          /\ born'[handler'[p].player] > 0
          /\ handler'[p].stage \in {"listing", "attaching"} =>
               handler'[p].own = IF handler'[p].kind = "resume" THEN 0 ELSE born'[handler'[p].player]
    BY <1>2 DEF Joining
  <2> QED BY <2>2, <2>3, <2>4, <2>5, <2>6, <2>7, <2>8 DEF MembersInv
<1>6. UnattachedInv'
  <2>1. ASSUME NEW q \in Peers, ~done[q], registry[q] # Nil, session[q] = Nil
        PROVE  handler'[q].stage \in {"capturing", "publishing", "sending"}
    BY <2>1 DEF UnattachedInv, Unaddressed
  <2>2. ASSUME NEW q \in Peers, Unaddressed(q) PROVE Unaddressed(q)'
    BY <2>2 DEF Unaddressed
  <2>3. \A q \in Peers : registry'[q] = Nil => q \notin audience' OBVIOUS
  <2> QED BY <1>3, <2>1, <2>2, <2>3 DEF UnattachedInv
<1>7. PublishInv'
  <2>1. ASSUME NEW q \in Peers, registry[q] # Nil PROVE Served(q)'
    <3>1. CASE Attached \subseteq cut' BY <2>1, <3>1 DEF Served, Attached
    <3>2. CASE handler'[p].stage \in {"listing", "attaching", "capturing"} /\ handler'[p].own = version + 1
      <4>1. Brings(p, q)' BY <1>1, <3>2 DEF Brings, Ahead
      <4> QED BY <4>1 DEF Served
    <3> QED BY <3>1, <3>2
  <2> QED BY <2>1 DEF PublishInv
<1> QED BY <1>4, <1>5, <1>6, <1>7

LEMMA ExecuteKeepsState ==
  ASSUME IInv, StateInv, NEW p \in Peers, Execute(p)
  PROVE  StateInv'
<1> DEFINE stage == AfterAccept(handler[p].kind)
<1>1. /\ handler[p].stage = "asked" /\ Accept(p) /\ HandlerType
      /\ handler' = [handler EXCEPT ![p].stage = stage, ![p].own = version + 1]
      /\ UNCHANGED <<registry, session, done, send, got, tokens>> /\ audience' = {}
  BY DEF Execute, client, IInv
<1>2. /\ stage \in {"listing", "attaching", "capturing"}
      /\ stage \in {"listing", "attaching"} => handler[p].kind \in Joining
  BY DEF AfterAccept, Joining
<1> HIDE DEF stage
<1>3. /\ handler'[p].stage = stage /\ handler'[p].kind = handler[p].kind
      /\ handler'[p].player = handler[p].player /\ handler'[p].own = version + 1
      /\ handler'[p].version = handler[p].version /\ handler'[p].todo = handler[p].todo
      /\ \A q \in Peers \ {p} : handler'[q] = handler[q]
  BY <1>1 DEF HandlerType, Handlers
<1>4. version \in Nat /\ handler[p].version \in Nat /\ handler[p].version <= version
  BY DEF IInv, GameType, HandlerType, Handlers, Versions, StateInv, NothingAhead
<1>5. handler'[p].own <= version + 1 /\ handler'[p].version <= version + 1 BY <1>3, <1>4
<1> QED BY <1>1, <1>2, <1>3, <1>5, AcceptKeepsState

LEMMA AbandonKeepsState ==
  ASSUME IInv, StateInv, NEW p \in Peers, Abandon(p)
  PROVE  StateInv'
<1> USE DEF StateInv
<1>1. /\ handler[p].stage = "asked" /\ HandlerType
      /\ UNCHANGED <<registry, session, done, send, got, tokens>>
  BY DEF Abandon, client, IInv
<1>2. handler' = [handler EXCEPT ![p] = At("reading")] BY DEF Abandon
<1>3. /\ handler'[p].stage = "reading" /\ handler'[p].player = Nil /\ handler'[p].own = 0
      /\ handler'[p].version = 0 /\ handler'[p].todo = {}
      /\ \A q \in Peers \ {p} : handler'[q] = handler[q]
  BY <1>1, <1>2 DEF HandlerType, At
<1>4. version \in Nat BY DEF IInv, GameType, Versions
<1>5. CASE Accept(p) /\ audience' = Attached /\ cut' = Attached
  <2>1. 0 <= version + 1 /\ \A q \in audience' : registry[q] # Nil BY <1>4, <1>5 DEF Attached
  <2> QED BY <1>1, <1>3, <1>5, <2>1, AcceptKeepsState
<1>6. CASE UNCHANGED game
  <2>1. UNCHANGED <<version, born, cut, audience>> BY <1>6 DEF game, news
  <2>2. HandlerStep(p) BY <1>1, <1>3, <2>1 DEF HandlerStep
  <2>3. NothingAhead' BY <1>1, <1>3, <1>4, <2>1, <2>2, NothingReceived DEF NothingAhead
  <2>4. MembersInv'
    <3>1. ASSUME NEW q \in Peers \ {p}, handler[q].stage = "asked", handler[q].kind \in Joining
          PROVE  handler[q].player # Nil
      BY <3>1 DEF IInv, StageInv
    <3> QED BY <1>1, <1>3, <2>1, <3>1 DEF MembersInv
  <2>5. UnattachedInv' BY <1>1, <1>3, <2>1, <2>2, NothingReceived DEF UnattachedInv, Unaddressed
  <2>6. PublishInv'
    <3>1. \A q \in Peers : ~Ahead(p, q) BY <1>1 DEF Ahead
    <3> QED BY <1>3, <2>1, <2>2, <3>1, HandlerStepKeeps DEF Brings
  <2> QED BY <2>3, <2>4, <2>5, <2>6
<1> QED BY <1>5, <1>6 DEF Abandon

LEMMA LeaveKeepsState ==
  ASSUME IInv, StateInv, NEW p \in Peers, Leave(p)
  PROVE  StateInv'
<1> USE DEF StateInv
<1>1. /\ handler[p].stage = "reading" /\ done[p] /\ HandlerType
      /\ UNCHANGED <<version, born, cut, audience, done, send, got, tokens>>
  BY DEF Leave, game, news, client, IInv
<1>2. /\ handler' = [handler EXCEPT ![p] = At("gone")]
      /\ registry' = [registry EXCEPT ![p] = Nil] /\ session' = [session EXCEPT ![p] = Nil]
  BY DEF Leave
<1>3. /\ handler'[p].stage = "gone" /\ handler'[p].player = Nil /\ handler'[p].own = 0
      /\ handler'[p].version = 0 /\ handler'[p].todo = {}
      /\ registry'[p] = Nil /\ session'[p] = Nil
      /\ \A q \in Peers \ {p} :
           handler'[q] = handler[q] /\ registry'[q] = registry[q] /\ session'[q] = session[q]
  BY <1>1, <1>2 DEF HandlerType, At, IInv, GameType
<1>4. \A q \in Peers : Received(q)' = Received(q) BY <1>1 DEF Received
<1>5. version \in Nat BY DEF IInv, GameType, Versions
<1>6. NothingAhead' BY <1>1, <1>3, <1>4, <1>5 DEF NothingAhead
<1>7. MembersInv'
  <2>1. ASSUME NEW q \in Peers \ {p}, handler[q].stage = "asked", handler[q].kind \in Joining
        PROVE  handler[q].player # Nil
    BY <2>1 DEF IInv, StageInv
  <2> QED BY <1>1, <1>3, <2>1 DEF MembersInv
<1>8. UnattachedInv' BY <1>1, <1>3, <1>4 DEF UnattachedInv, Unaddressed
<1>9. PublishInv'
  <2> SUFFICES ASSUME NEW q \in Peers, registry'[q] # Nil, ~done[q]
               PROVE  Served(q)' \/ JustJoined(q)'
    BY <1>1 DEF PublishInv
  <2>1. q # p /\ registry[q] # Nil /\ registry'[q] = registry[q] /\ handler'[q] = handler[q]
    BY <1>3
  <2>2. \A r \in Peers : (handler[r].stage = "reading" /\ r = p) \/ handler'[r] = handler[r]
    BY <1>1, <1>3
  <2>3. CASE Served(q)
    <3>1. \A r \in Peers : Brings(r, q) => Brings(r, q)' BY <1>1, <2>2 DEF Brings, Ahead
    <3> QED BY <1>1, <1>4, <2>3, <3>1 DEF Served
  <2>4. CASE JustJoined(q)
    BY <1>1, <1>3, <1>4, <2>1, <2>2, <2>4 DEF JustJoined, Ahead
  <2> QED BY <2>1, <2>3, <2>4 DEF PublishInv
<1> QED BY <1>6, <1>7, <1>8, <1>9

LEMMA AttachKeepsState ==
  ASSUME IInv, StateInv, NEW p \in Peers, Attach(p)
  PROVE  StateInv'
<1> USE DEF StateInv
<1> DEFINE player == handler[p].player
           older == {q \in Peers \ {p} : registry[q] = player}
<1>1. /\ handler[p].stage = "attaching" /\ HandlerType
      /\ UNCHANGED <<version, born, cut, audience, session, tokens>>
  BY DEF Attach, game, news, IInv
<1>2. handler' = [handler EXCEPT ![p].stage = "capturing"] BY DEF Attach
<1>3. /\ registry' = [q \in Peers |-> IF q = p THEN player
                                      ELSE IF q \in older THEN Nil ELSE registry[q]]
      /\ Cancel(older)
  BY DEF Attach
<1>4. /\ player \in Players /\ Nil # player /\ session[p] = Nil /\ handler[p].kind # "command"
      /\ handler[p].kind \in Kinds
  BY <1>1, ConnectionsAssumption DEF IInv, StageInv
<1>5. \A q \in Peers : /\ done[q] => done'[q]
                       /\ ~done'[q] => q \notin older /\ ~done[q] /\ Received(q)' = Received(q)
  BY <1>3, CancelReceived DEF IInv
<1>6. /\ registry'[p] = player
      /\ \A q \in Peers \ {p} : q \notin older => registry'[q] = registry[q]
      /\ \A q \in Peers \ {p} : registry'[q] = registry[q] \/ (done'[q] /\ registry'[q] = Nil)
  <2>1. \A q \in older : done'[q] BY <1>5
  <2>2. \A q \in Peers \ {p} : registry'[q] = IF q \in older THEN Nil ELSE registry[q] BY <1>3
  <2>3. registry'[p] = player BY <1>3
  <2> HIDE DEF older, player
  <2> QED BY <2>1, <2>2, <2>3
<1> HIDE DEF older
<1>7. /\ handler'[p].stage = "capturing" /\ handler'[p].kind = handler[p].kind
      /\ handler'[p].player = player /\ handler'[p].own = handler[p].own
      /\ handler'[p].version = handler[p].version /\ handler'[p].todo = handler[p].todo
      /\ \A q \in Peers \ {p} : handler'[q] = handler[q]
  BY <1>1, <1>2 DEF HandlerType, Handlers
<1>8. /\ born[player] > 0 /\ born[player] \in Nat
      /\ handler[p].own = IF handler[p].kind = "resume" THEN 0 ELSE born[player]
  BY <1>1, <1>4 DEF MembersInv, IInv, GameType, Versions
<1> HIDE DEF player
<1>9. NothingAhead' BY <1>1, <1>5, <1>7 DEF NothingAhead
<1>10. MembersInv'
  <2>1. \A q \in Peers : registry'[q] # Nil => born[registry'[q]] > 0
    BY <1>6, <1>8 DEF MembersInv
  <2>2. /\ handler[p].player = player /\ handler'[p].player = player /\ handler'[p].stage = "capturing"
        /\ \A q \in Peers \ {p} : handler'[q] = handler[q]
    BY <1>7 DEF player
  <2> QED BY <1>1, <1>8, <2>1, <2>2 DEF MembersInv
<1>11. UnattachedInv'
  <2>1. ASSUME NEW q \in Peers, ~done'[q], registry'[q] = Nil
        PROVE  /\ q # p /\ registry[q] = Nil /\ ~done[q] /\ q \notin audience'
               /\ Received(q)' = Received(q)
    BY <1>1, <1>4, <1>5, <1>6, <2>1 DEF UnattachedInv
  <2>2. ASSUME NEW q \in Peers, Unaddressed(q) PROVE Unaddressed(q)'
    BY <1>7, <2>2 DEF Unaddressed
  <2>3. ASSUME NEW q \in Peers, ~done'[q], registry'[q] # Nil, session'[q] = Nil
        PROVE  handler'[q].stage \in {"capturing", "publishing", "sending"}
    <3>1. CASE q = p BY <1>7, <3>1
    <3>2. CASE q # p BY <1>1, <1>5, <1>6, <1>7, <2>3, <3>2 DEF UnattachedInv, Unaddressed
    <3> QED BY <3>1, <3>2
  <2> QED BY <2>1, <2>2, <2>3 DEF UnattachedInv
<1>12. PublishInv'
  <2> SUFFICES ASSUME NEW q \in Peers, registry'[q] # Nil, ~done'[q]
               PROVE  Served(q)' \/ JustJoined(q)'
    BY DEF PublishInv
  <2>1. ~done[q] /\ Received(q)' = Received(q) BY <1>5
  <2>2. CASE q = p /\ handler[p].kind = "resume"
    <3>1. Brings(p, p)' BY <1>7, <1>8, <2>2 DEF Brings, Ahead
    <3> QED BY <2>2, <3>1 DEF Served
  <2>3. CASE q = p /\ handler[p].kind # "resume"
    <3>1. registry[p] = Nil BY <1>1, <1>4, <2>1, <2>3 DEF UnattachedInv, Unaddressed
    <3>2. Unaddressed(p) /\ p \notin audience /\ \A v \in Received(p) : v = 0
      BY <2>1, <2>3, <3>1 DEF UnattachedInv
    <3>3. ASSUME NEW r \in Peers, handler'[r].stage = "sending", handler'[r].to = p
          PROVE  FALSE
      BY <1>7, <3>2, <3>3 DEF Unaddressed
    <3>4. Ahead(p, p)' /\ handler'[p].own = born[player] /\ born'[registry'[p]] = born[player]
      BY <1>1, <1>6, <1>7, <1>8, <2>3 DEF Ahead
    <3>5. \A v \in Received(p)' : v = 0 BY <2>1, <2>3, <3>2
    <3>6. handler'[p].stage # "sending" /\ handler'[p].stage # "listing" BY <1>7
    <3> QED BY <1>1, <2>3, <3>2, <3>3, <3>4, <3>5, <3>6 DEF JustJoined
  <2>4. CASE q # p
    <3>1. registry[q] # Nil /\ registry'[q] = registry[q] /\ handler'[q] = handler[q]
      BY <1>5, <1>6, <1>7, <2>4
    <3>2. CASE Served(q)
      <4>1. \A r \in Peers : Brings(r, q) => Brings(r, q)' BY <1>1, <1>7, <2>4 DEF Brings, Ahead
      <4> QED BY <1>1, <2>1, <3>2, <4>1 DEF Served
    <3>3. CASE JustJoined(q)
      <4>1. \A r \in Peers : handler'[r].stage = "sending" => handler'[r] = handler[r] BY <1>7
      <4> QED BY <1>1, <2>1, <3>1, <3>3, <4>1 DEF JustJoined, Ahead
    <3> QED BY <2>1, <3>1, <3>2, <3>3 DEF PublishInv
  <2> QED BY <2>2, <2>3, <2>4
<1> QED BY <1>9, <1>10, <1>11, <1>12

LEMMA RefuseKeepsState ==
  ASSUME IInv, StateInv, NEW p \in Peers, Refuse(p)
  PROVE  StateInv'
<1> USE DEF StateInv
<1>1. /\ handler[p].stage = "asked" /\ HandlerType /\ QueueType
      /\ UNCHANGED <<version, born, cut, audience, registry, session, tokens>>
  BY DEF Refuse, game, news, IInv
<1>2. handler' = [handler EXCEPT ![p] = At("reading")] /\ Enqueue(p, Error(TRUE)) BY DEF Refuse
<1>3. /\ handler'[p].stage = "reading" /\ handler'[p].player = Nil /\ handler'[p].own = 0
      /\ handler'[p].version = 0 /\ handler'[p].todo = {}
      /\ \A q \in Peers \ {p} : handler'[q] = handler[q]
  BY <1>1, <1>2 DEF HandlerType, At
<1>4. Error(TRUE) \in Messages /\ Error(TRUE).version = 0 BY DEF Error, Messages, Versions
<1>5. /\ \A q \in Peers : ~done'[q] => ~done[q]
      /\ \A q \in Peers \ {p} : Received(q)' = Received(q)
      /\ ~done'[p] => Received(p)' = Received(p) \cup {0}
  BY <1>1, <1>2, <1>4, EnqueueReceived
<1>6. version \in Nat BY DEF IInv, GameType, Versions
<1>7. NothingAhead' BY <1>1, <1>3, <1>5, <1>6 DEF NothingAhead
<1>8. MembersInv'
  <2>1. ASSUME NEW q \in Peers \ {p}, handler[q].stage = "asked", handler[q].kind \in Joining
        PROVE  handler[q].player # Nil
    BY <2>1 DEF IInv, StageInv
  <2> QED BY <1>1, <1>3, <2>1 DEF MembersInv
<1>9. UnattachedInv'
  <2>1. ASSUME NEW q \in Peers, Unaddressed(q) PROVE Unaddressed(q)'
    BY <1>3, <2>1 DEF Unaddressed
  <2>2. ASSUME NEW q \in Peers, ~done'[q], \A v \in Received(q) : v = 0
        PROVE  \A v \in Received(q)' : v = 0
    BY <1>5, <2>2
  <2> QED BY <1>1, <1>3, <1>5, <2>1, <2>2 DEF UnattachedInv
<1>10. PublishInv'
  <2> SUFFICES ASSUME NEW q \in Peers, registry[q] # Nil, ~done'[q]
               PROVE  Served(q)' \/ JustJoined(q)'
    BY <1>1 DEF PublishInv
  <2>1. Received(q)' \in {Received(q), Received(q) \cup {0}} /\ ~done[q] BY <1>5
  <2>2. CASE Served(q)
    <3>1. \A r \in Peers : Brings(r, q) => Brings(r, q)' BY <1>1, <1>3 DEF Brings, Ahead
    <3> QED BY <1>1, <2>1, <2>2, <3>1 DEF Served
  <2>3. CASE JustJoined(q)
    <3>1. \A r \in Peers : handler'[r].stage = "sending" => handler'[r] = handler[r] BY <1>3
    <3>2. Ahead(q, q) => handler'[q] = handler[q] BY <1>1, <1>3 DEF Ahead
    <3>3. handler'[q].own \in {0, handler[q].own} BY <1>3
    <3> QED BY <1>1, <2>1, <2>3, <3>1, <3>2, <3>3 DEF JustJoined, Ahead
  <2> QED BY <2>1, <2>2, <2>3 DEF PublishInv
<1> QED BY <1>7, <1>8, <1>9, <1>10

LEMMA MisreadKeepsState ==
  ASSUME IInv, StateInv, NEW p \in Peers, Misread(p)
  PROVE  StateInv'
<1> USE DEF StateInv
<1>1. /\ QueueType /\ Enqueue(p, Error(FALSE))
      /\ UNCHANGED <<version, born, cut, audience, registry, handler, session, tokens>>
  BY DEF Misread, game, news, IInv
<1>2. Error(FALSE) \in Messages /\ Error(FALSE).version = 0 BY DEF Error, Messages, Versions
<1>3. \A q \in Peers : ~done'[q] =>
        ~done[q] /\ Received(q)' \in {Received(q), Received(q) \cup {0}}
  BY <1>1, <1>2, EnqueueReceived
<1>4. version \in Nat BY DEF IInv, GameType, Versions
<1>5. NothingAhead' BY <1>1, <1>3, <1>4 DEF NothingAhead
<1>6. MembersInv' BY <1>1 DEF MembersInv
<1>7. UnattachedInv' BY <1>1, <1>3 DEF UnattachedInv, Unaddressed
<1>8. PublishInv'
  <2> SUFFICES ASSUME NEW q \in Peers, registry[q] # Nil, ~done'[q]
               PROVE  Served(q)' \/ JustJoined(q)'
    BY <1>1 DEF PublishInv
  <2>1. ~done[q] /\ Received(q)' \in {Received(q), Received(q) \cup {0}} BY <1>3
  <2>2. CASE Served(q) BY <1>1, <2>1, <2>2 DEF Served, Brings, Ahead
  <2>3. CASE JustJoined(q) BY <1>1, <2>1, <2>3 DEF JustJoined, Ahead
  <2> QED BY <2>1, <2>2, <2>3 DEF PublishInv
<1> QED BY <1>5, <1>6, <1>7, <1>8

LEMMA ForwardKeepsState ==
  ASSUME IInv, StateInv, NEW p \in Peers, Forward(p)
  PROVE  StateInv'
<1> USE DEF StateInv
<1>1. /\ handler[p].stage = "sending" /\ HandlerType /\ QueueType
      /\ UNCHANGED <<version, born, cut, audience, registry, session, tokens>>
  BY DEF Forward, game, news, IInv
<1>2. PICK q \in Peers, v \in Versions : q = handler[p].to /\ v = handler[p].version
  BY <1>1 DEF IInv, StageInv, HandlerType, Handlers
<1> DEFINE message == IF v = 0 THEN Error(FALSE) ELSE Snapshot(v, q = p)
<1>3. /\ Enqueue(q, message)
      /\ handler' = [handler EXCEPT ![p].stage = "publishing", ![p].todo = @ \ {q},
                                    ![p].to = Nil, ![p].version = 0]
  BY <1>2 DEF Forward
<1>4. message \in Messages /\ message.version = v
  BY <1>3 DEF Error, Snapshot, Messages, Versions
<1>5. /\ handler'[p].stage = "publishing" /\ handler'[p].kind = handler[p].kind
      /\ handler'[p].player = handler[p].player /\ handler'[p].own = handler[p].own
      /\ handler'[p].version = 0 /\ handler'[p].todo = handler[p].todo \ {q}
      /\ \A r \in Peers \ {p} : handler'[r] = handler[r]
  BY <1>1, <1>3 DEF HandlerType, Handlers
<1> HIDE DEF message
<1>6. /\ \A r \in Peers : ~done'[r] => ~done[r]
      /\ \A r \in Peers \ {q} : Received(r)' = Received(r)
      /\ ~done'[q] => Received(q)' = Received(q) \cup {v}
  BY <1>1, <1>3, <1>4, EnqueueReceived
<1>7. handler[p].to = q /\ handler[p].version = v BY <1>2
<1>8. version \in Nat /\ v <= version /\ handler[p].own <= version
  BY <1>7 DEF IInv, GameType, Versions, NothingAhead
<1>9. NothingAhead' BY <1>1, <1>5, <1>6, <1>8 DEF NothingAhead
<1>10. MembersInv'
  <2>1. /\ handler'[p].stage = "publishing" /\ handler'[p].player = handler[p].player
        /\ \A r \in Peers \ {p} : handler'[r] = handler[r]
    BY <1>5
  <2> QED BY <1>1, <2>1 DEF MembersInv
<1>11. UnattachedInv'
  <2>1. ASSUME NEW r \in Peers, Unaddressed(r) PROVE Unaddressed(r)' /\ r # q
    BY <1>1, <1>5, <1>7, <2>1 DEF Unaddressed
  <2>2. ASSUME NEW r \in Peers, ~done'[r], registry[r] # Nil, session[r] = Nil
        PROVE  handler'[r].stage \in {"capturing", "publishing", "sending"}
    BY <1>5, <1>6, <2>2 DEF UnattachedInv
  <2> QED BY <1>1, <1>6, <2>1, <2>2 DEF UnattachedInv
<1>12. PublishInv'
  <2> SUFFICES ASSUME NEW r \in Peers, registry[r] # Nil, ~done'[r]
               PROVE  Served(r)' \/ JustJoined(r)'
    BY <1>1 DEF PublishInv
  <2>1. ~done[r] /\ Received(r)' = IF r = q THEN Received(r) \cup {v} ELSE Received(r) BY <1>6
  <2>2. CASE Served(r)
    <3>1. ASSUME NEW s \in Peers, Brings(s, r) PROVE Brings(s, r)' \/ version \in Received(r)'
      <4>1. CASE s # p BY <1>1, <1>5, <3>1, <4>1 DEF Brings, Ahead
      <4>2. CASE s = p /\ r # q BY <1>1, <1>5, <3>1, <4>2 DEF Brings, Ahead
      <4>3. CASE s = p /\ r = q
        <5>1. v = version BY <1>1, <1>7, <3>1, <4>3 DEF Brings
        <5> QED BY <2>1, <4>3, <5>1
      <4> QED BY <4>1, <4>2, <4>3
    <3> QED BY <1>1, <2>1, <2>2, <3>1 DEF Served
  <2>3. CASE JustJoined(r) /\ ~(r = q /\ v = version)
    <3> DEFINE own == born[registry[r]]
    <3>1. r = q => v \in {0, own} BY <1>1, <1>7, <2>3 DEF JustJoined
    <3>2. \A w \in Received(r)' : w \in {0, own} BY <2>1, <2>3, <3>1 DEF JustJoined
    <3>3. handler'[r].own = handler[r].own /\ handler[r].own \in {0, own} BY <1>5, <2>3 DEF JustJoined
    <3>4. \A s \in Peers : handler'[s].stage = "sending" => handler'[s] = handler[s] BY <1>5
    <3>5. \/ own \in Received(r)'
          \/ handler'[r].stage # "listing" /\ Ahead(r, r)' /\ handler[r].own = own
               /\ (handler'[r].stage = "sending" /\ handler'[r].to = r => handler'[r].version = own)
      <4>1. CASE own \in Received(r) BY <2>1, <4>1
      <4>2. CASE own \notin Received(r)
        <5>1. /\ handler[r].stage # "listing" /\ Ahead(r, r) /\ handler[r].own = own
              /\ handler[r].stage = "sending" /\ handler[r].to = r => handler[r].version = own
          BY <2>3, <4>2 DEF JustJoined
        <5>2. CASE r # p BY <1>5, <5>1, <5>2 DEF Ahead
        <5>3. CASE r = p /\ r # q BY <1>1, <1>5, <5>1, <5>3 DEF Ahead
        <5>4. CASE r = p /\ r = q BY <1>1, <1>7, <2>1, <5>1, <5>4
        <5> QED BY <5>2, <5>3, <5>4
      <4> QED BY <4>1, <4>2
    <3>6. born'[registry'[r]] = own BY <1>1
    <3> HIDE DEF own
    <3>7. \A s \in Peers : handler'[s].stage = "sending" /\ handler'[s].to = r =>
            handler'[s].version \in {0, own, version}
      BY <2>3, <3>4 DEF JustJoined, own
    <3>8. r \notin audience' BY <1>1, <2>3 DEF JustJoined
    <3> QED BY <1>1, <3>2, <3>3, <3>5, <3>6, <3>7, <3>8 DEF JustJoined
  <2>4. CASE r = q /\ v = version
    BY <1>1, <2>1, <2>4 DEF Served
  <2> QED BY <2>1, <2>2, <2>3, <2>4 DEF PublishInv
<1> QED BY <1>9, <1>10, <1>11, <1>12

\* Every step keeps it.
LEMMA StepKeepsState == IInv /\ StateInv /\ [Next]_vars => StateInv'
<1> SUFFICES ASSUME IInv, StateInv, [Next]_vars PROVE StateInv' OBVIOUS
<1>1. ASSUME NEW p \in Peers, Work(p) PROVE StateInv'
  BY <1>1, RefuseKeepsState, ExecuteKeepsState, AuthenticateKeepsState, AbandonKeepsState,
     ListKeepsState, AttachKeepsState, CaptureKeepsState, FetchKeepsState, ForwardKeepsState,
     FinishKeepsState, LeaveKeepsState DEF Work
<1>2. CASE UNCHANGED vars
  <2>1. /\ UNCHANGED <<version, born, cut, audience, registry, handler, session, tokens>>
        /\ UNCHANGED <<done, send, got>>
    BY <1>2 DEF vars, news
  <2>2. Kept BY <2>1 DEF Kept, Received
  <2> QED BY <2>1, <2>2, QueuesKeepState DEF StateInv, MembersInv
<1>3. ASSUME NEW p \in Peers, NEW kind \in Kinds, NEW player \in Players, Ask(p, kind, player)
      PROVE  StateInv'
  BY <1>3, AskKeepsState
<1> QED BY <1>1, <1>2, <1>3, LoseKeepsState, WriteKeepsState, MisreadKeepsState DEF Next

LEMMA NothingToKnow == Init => StateInv
<1> SUFFICES ASSUME Init PROVE StateInv OBVIOUS
<1>1. /\ version = 0 /\ tokens = {} /\ audience = {}
      /\ \A p \in Peers : /\ registry[p] = Nil /\ session[p] = Nil /\ got[p] = 0 /\ send[p] = <<>>
                          /\ handler[p].stage = "reading" /\ handler[p].own = 0
                          /\ handler[p].version = 0 /\ handler[p].todo = {}
  BY DEF Init, At
<1>2. \A p \in Peers : Received(p) = {0} BY <1>1 DEF Received
<1> QED BY <1>1, <1>2 DEF StateInv, NothingAhead, MembersInv, UnattachedInv, Unaddressed, PublishInv

\* Once nothing is under way the latest state has come to every attached connection, or it
\* is known why not, whatever was lost, replaced or overtaken on the way.
THEOREM NobodyIsLeftBehind == Spec => []StaleOnlyWithCause
<1>1. ASSUME IInv, StateInv PROVE StaleOnlyWithCause
  <2> SUFFICES ASSUME Quiet, NEW p \in Peers, registry[p] # Nil, ~done[p], p \notin cut
               PROVE  \/ Newest(p) = version
                      \/ p \notin audience /\ Newest(p) = born[registry[p]]
    BY DEF StaleOnlyWithCause, Attached
  <2>1. \A q \in Peers : ~Ahead(q, p) BY DEF Quiet, Ahead
  <2>2. /\ \A v \in Received(p) : v \in Nat /\ v <= version
        /\ version \in Nat /\ born[registry[p]] \in Nat \ {0}
    <3>1. \A v \in Received(p) : v \in Nat BY <1>1, ReceivedIs DEF IInv, Versions
    <3>2. version \in Nat /\ registry[p] \in Players /\ born \in [Players -> Versions]
      BY <1>1 DEF IInv, GameType, Versions
    <3>3. born[registry[p]] > 0 BY <1>1 DEF StateInv, MembersInv
    <3> QED BY <1>1, <3>1, <3>2, <3>3 DEF StateInv, NothingAhead, Versions
  <2>3. ASSUME NEW m \in Received(p), \A w \in Received(p) : w <= m PROVE Newest(p) = m
    <3>1. \A v \in Received(p) : (\A w \in Received(p) : w <= v) => v = m BY <2>2, <2>3
    <3> QED BY <2>3, <3>1 DEF Newest
  <2>4. CASE Served(p)
    <3>1. version \in Received(p) BY <2>1, <2>4 DEF Served, Brings
    <3> QED BY <2>2, <2>3, <3>1
  <2>5. CASE JustJoined(p)
    <3>1. /\ born[registry[p]] \in Received(p) /\ p \notin audience
          /\ \A v \in Received(p) : v \in {0, born[registry[p]]}
      BY <2>1, <2>5 DEF JustJoined
    <3>2. \A v \in Received(p) : v <= born[registry[p]] BY <2>2, <3>1
    <3> QED BY <2>3, <3>1, <3>2
  <2> QED BY <1>1, <2>4, <2>5 DEF StateInv, PublishInv
<1>2. Spec => [](IInv /\ StateInv)
  BY Initially, StepKeeps, NothingToKnow, StepKeepsState, PTL DEF Spec
<1> QED BY <1>1, <1>2, PTL
=============================================================================
