# Kuhhandel: a formal model

TLA+ modules of the Kuhhandel game server, the TLC runs that check them on small
instances, and TLAPS proofs of what holds for every instance. Everything is translated
from the source in `src/`; `PROJECT.json` maps each definition to its lines.

## The system

| Part | State | Operations | Interacts with |
|---|---|---|---|
| Rules engine (`internal/game/game.go`, `money.go`) | one aggregate per game: status, phase, turn, deck, bank, every player's money and animals, the auction or trade going on | `Decide` checks a command and returns an event, `Apply` changes the state, `Snapshot` shows a player what he may see and do | called by the runtime; replayed from the store |
| Event store (`internal/store/sqlite.go`) | rows of `game_events`, unique by game and version and by game and command id | `Append` (one transaction), `Load`, `GameIDs`, `RecentGameIDs` | runtime, server start, archive |
| Game runtime (`internal/server/runtime.go`) | the goroutine that owns an aggregate; a reply channel per call | `execute`, `snapshot`, `authenticate`, through `submitResult` | one per game, shared by all its connections |
| Connections and protocol (`internal/server/server.go`, `protocol.go`) | `Server.games`, `Server.connections`; per socket its session, context and outbound queue | create, join, resume, the eight game commands; attach, detach, publish, enqueue, write | clients over WebSocket, runtimes |
| Identity and validation (`identity.go`, `validation.go`) | none | new identities, seeds, JSON checks | protocol |
| History API and archive page (`history.go`, `web*.go`) | none on the server; list, selection and playback in the page | list, replay; load, select, play | store |
| Python SDK (`sdk/python`) | connection, reader task, pending requests, session, last snapshot, subscribers | connect, request, reconnect, close | server |
| Simulation (`internal/strategy/simulation.go`) | an aggregate, the seat to ask and the passes of a round | `Play`, `runAuction` | rules engine, policies |
| Policies (`policy.go`, `linear*.go`, `money.go`) | what each learned player infers of the others, when it last traded | heuristic and learned choices for every phase, observing views, picking notes | simulation |
| Rollouts (`rollout.go`, `cmd/kuhhandel-rollout`) | goroutines, a channel of indices, results by index | `Rollout`, the line protocol | simulation, trainer |
| Training (`learning`) | weights, optimiser, baseline, best weights, the seeds used | the training loop, checkpoints, roll-back | rollout worker |
| Commands (`cmd/kuhhandel`, `cmd/kuhhandel-strategy`) | none | flags, start and stop | server, simulation |

What is hard in it: an event is stored before it is applied, so nothing that was accepted
may ever fail; payments are checked commands before they are taken; the goroutine of a
game, the handlers of its players and a second process may interleave anywhere; a caller
may stop waiting for what is still being done; a snapshot is taken in one place and sent
in another; queues are finite and sockets die at any moment. Computer players choose from a snapshot what the
aggregate then checks; games are played in parallel and must count as if they were not; and
a training measures what it selected on games it must not have selected on. `PROJECT.json` lists these
hazards with the line where each bites and the properties that would catch it.

## The modules

| Module | What it models |
|---|---|
| `Banknotes` | `Money`: piles of notes with signed counts, as payments arrive in JSON |
| `Aggregate` | the rules engine: for every command what `Decide` demands and what `Apply` does |
| `AggregateProperties` | what makes it correct, and its inductive invariant |
| `AggregateProofs` | the theorems about it |
| `CommandLog` | the abstract promise of a server about one game |
| `GameRuntime` | runtime goroutine, submitting handlers, store and the life of processes |
| `GameRuntimeProofs` | that it implements `CommandLog`, and the other theorems about it |
| `Connections` | the sockets of one game, from reading a request to writing the messages |
| `ConnectionsProofs` | the theorems about them |
| `SDKClient` | the Python client: calls, sockets and readers, subscribers |
| `SDKClientProofs` | the theorems about it |
| `Archive` | the archive page and the paged list of the history API |
| `ArchiveProofs` | the theorems about playback, selection and the list |
| `Payments` | which piles a computer player considers: the best for each total it can pay |
| `PaymentsProofs` | that they are, for every purse |
| `Policies` | the moves heuristic and learned players choose from, over `AggregateProperties` |
| `LinearHistory` | what a learned player infers of the hidden purses |
| `Simulation` | `Play` and `runAuction`: `Policies` and `LinearHistory` composed with the aggregate |
| `SimulationProofs` | the theorems about it |
| `Rollouts` | the rollout worker: requests, goroutines, channel, combination |
| `Training` | the trainer over that worker: seeds, checkpoints, promotion, roll-back |
| `TrainingProofs` | the theorems about both |
| `MC...` | small instances for TLC |

The layers meet where the code's do. `GameRuntime` takes from `Aggregate` only which
sequences of commands are legal (the constant `Games`) and that `Apply` does not refuse
what `Decide` accepted (theorem `AcceptedEventsApply`). `Connections` takes from
`GameRuntime` that a call of the runtime happens at one instant, between its start and its
end, and may have happened though its caller gave it up. `SDKClient` takes from
`Connections` what a server may send: states out of order or ahead of the reply, and errors
that answer nothing. `Simulation` plays the very actions of `Aggregate`, with the policies in
place of the clients. `Training` takes from `Simulation` that a game ends, with a result or
an error; it runs the actions of `Rollouts` as its worker.

### Aggregate

One action per command (`CreateRoom`, `JoinRoom`, `StartGame`, `BeginAuction`, `PlaceBid`,
`CloseAuction`, `ResolveAuction`, `BeginTrade`, `AcceptTrade`, `CounterTrade`,
`ReofferTrade`). Each is the conjunction of `Decide...`, the conditions in the order of the
code, and `Apply...`, the assignments. `Apply` has error paths of its own (a subtraction
that would go below zero); they set `applyError`, so that never taking them is a property
and not an assumption. Turns pass as in `advanceTurn`. Players are seats, because the code
finds them by index. The deck is the number of cards of each species left in it; a card
drawn is any of them, which covers every shuffle. Bids and offers are chosen from small sets
that include a pile with a negative count.

### GameRuntime

A handler is in `submitResult`: offering its operation, waiting for the reply, or idle. The
runtime goroutine takes an operation (`Take`: a query is answered at once, an illegal
command refused), stores its event (`AppendEvent`, or `AppendFails`, which also covers a
commit that reached the disk and was reported as failed), applies it and answers
(`ApplyEvent`). `GiveUp` is the select that sees a cancelled context; the channel goes with the call, so
`TypeOK` demands that a result is only in the channel of a call that waits for it. `Close`, `Stop`,
`Crash` and `Start` are the process. Two processes may have the store open at once. The
model starts when the room exists.

### Connections

The goroutine of `serveWebSocket` reads a request (`Ask`; one without a valid id or type is
`Misread`, answered with an error that names no request) and carries it out: `Execute` or
`Authenticate` or `Refuse`, then `List` (a created game becomes known), `Attach`, `Capture`
(the recipients, under the read lock), and for each recipient, in any order, `Fetch` or
`FetchFails` and `Forward`. `Abandon` is a cancelled context during the call of the runtime:
the command may have been accepted. `Enqueue` cancels a connection whose queue is full.
`Write` delivers to the client. A cancelled connection's queue, and what its client
remembers of it, is forgotten; nothing reads it again. `audience` and `cut` are history, for
`StaleOnlyWithCause` alone: who was attached when the recipients of the latest version were
captured, and for which of them its snapshot could not be fetched. A version accepted for a
handler that had given its call up is never published; then everyone attached is in both.

### SDKClient

Coroutines on one loop, so a step is what runs between two awaits. A call of `_request` is
`Request`, `Acquire` when it had to wait for the send lock, `Sent`, and then `Return`,
`Timeout` or `Cancel`; the last two and a failing `send` go through `Fail`, which is
`_drop`. `Dial` and `Connected` are the two halves of `connect`, `Close` and `Closed` those
of `close`. `Receive` is the reader with both checks of `_receive`; `StopReading` is the end
of `_read`, which gives the connection up but does not close it. A socket that another
`connect` replaced keeps its reader, as in the code. Subscribers' queues make room for the
newest update. The server and the network are actions too (`Admit`, `Reply`, `Refuse`,
`Broadcast`, `LoseSocket`), without fairness.

### Archive

A step is a callback of the browser. `Refresh` and `LoadMore` are `loadGames` up to its
await, `ServeList` is the server cutting the page, `ReceiveList` and `LoadFails` are what
follows, with the rest of `start()` after its own load. `Choose` and `Chosen` are the halves
of `selectGame`; `Current` is its check of `loadSequence`. `Play` is a game that gets an
event: in the order pages are cut from it moves up to any place, or stays, since the order is by
`MAX(occurred_at)` as text (`sqlite.go:164`), and a new game comes in anywhere. `ticking` counts the intervals
that exist, `timer` is the one the page could clear. `moved` and `overlapped` are history,
for the statement of `UnchangedGamesAreListed` alone.

### Simulation

`Play` is a single loop, so each action is one turn of it, with everything a decision entails
(`ApplyObserved`: decide, apply, and the observation of the new view by every policy). `Turn`,
`FirstRefusal`, `RespondTrade` and `OfferAgain` are its phases; `RunAuction`, `AskForBid`,
`SkipSeat` and `CloseRound` are the loop of `runAuction`, whose locals are `round`. Every
player is asked in `Policies` for the moves it might make. Those are exact where the code is:
which actions, targets, animals and piles can be chosen, the trade the guide insists on,
the priorities once the deck is empty, the trade that is not made twice in a row. What
floating-point scores and random draws decide is left open: a heuristic may be ready to spend
any of `Caps`, and a learned policy takes its guide's move or any candidate of its own.
`Payments` builds the options of a purse as the code does, denomination by denomination.
`declined` and `hidden` are history, for two of the properties.

`smallestOffer` would hand out a five hundred from an empty hand. That this is never reached
is what `ZerosKept` says, which is proved of the aggregate: two zero cards never leave a hand.

### Rollouts and Training

`AskShape` ... `HeldOutKnown` are what the trainer does between an answer and its next
request; an error in an answer ends the training (`Raise`). While a request is out only the
worker runs: `AnswerAtOnce`, or `BeginRollout`, then `SendIndex`, `PlaySeed` and
`GoroutineEnds` of each goroutine, and `Combine`; `WorkerStops` is its death. A game is its
seed and whether it failed. Weights are the set of the steps they contain, and so are the
moments of the optimiser and the baseline, since what matters is which batch has had an influence
on what. `earlier` and `rejected` are history. Seeds are counted from `--seed`.

## What the runs check

| Run | Bounds | Properties |
|---|---|---|
| `aggregate_money` | 3 players, donkeys only, bids of 10 and 20, offers zero, 20, 50 and a forged pile | `TypeOK`, `ApplyNeverFails`, `MoneyConserved`, `ZerosKept`, `PendingCovered`, `LegalActionsAreDecidable` |
| `aggregate_table` | 5 players, two species, no bids, zero offers | `AnimalsConserved`, `SomeoneCanMove`, `FinishedWithCompleteSets`, `CompleteSetsArePermanent` |
| `runtime_overlap` | 2 processes with a handler each, games of up to 4 commands | `TypeOK`, `MemoryIsPrefix`, `AnswersAreTrue`, `Promises` |
| `runtime_live` | 1 process, 2 handlers | `CallsReturn`, `CloseCompletes` |
| `connections_registry` | 3 connections, 2 players, queues of 1, 3 versions | `TypeOK`, `OneConnectionPerPlayer`, `EveryRequestIsAnswered`, `StaleOnlyWithCause` |
| `connections_live` | 2 connections, the same | `HandlersReturn`, `LostConnectionsLeave` |
| `connections_order` | 2 connections, 4 versions | `SnapshotsInOrder`, violated |
| `sdk_calls` | 2 calls, 2 sockets, 2 games, 2 versions, one message in flight per socket | `PendingIsWhoWaits`, `SessionMatchesSnapshot`, `NothingSentAfterDoubt` |
| `sdk_updates` | 1 call, 2 sockets, 1 subscriber with a queue of 1 | `TypeOK`, `SubscriberCatchesUp`, `EveryRequestEnds` |
| `archive_page` | 2 games, pages of one, 2 loads and 2 selections at a time, 3 frames | `ViewerShowsSelection`, `OnePlayback`, `UnchangedGamesAreListed` |
| `simulation` | 3 players, one of them learned, donkeys only, 16 events | `CommandsAreLegal`, `PaymentsAreBest`, `InferenceIsExplained`, `EveryoneHasPassed`, `PlayEnds` |
| `training` | 3 goroutines, 1 to 3 steps, batches of 1 to 3, checkpoints after every 1 to 4 steps | `FreshSeeds`, `RejectedStepsLeaveNoTrace`, `EverySeedCountsOnce`, `TrainingEnds` |

Why the bounds are enough. In `aggregate_money` the donkeys alone make the money move: all
four bonuses are paid, every payment of one note or several is made, ties and second rounds
occur, and three players give a winner, a loser and a bystander; `aggregate_table` has the
full table, for which the bank is stocked to the last note, and a second species, so that
some players can trade and others not. Neither bounds the length of a game. In
`runtime_overlap` one of the two processes is always the stale one, commands share ids and
alternate in kind, so that what a stale aggregate lets through would be illegal in the log.
Two handlers at one process compete for the goroutine in `runtime_live`. Three connections
are one to publish, one to receive and one to replace either; a queue of one fills with the
first message nobody reads; three versions are the room, the second player and a command.
Two calls of the client are
one that holds the send lock and one that waits for it, two sockets one that was let go of
and its successor; the liveness run has a single call, so that waiting for the lock is
covered by `sdk_calls` only. Two games make two pages of one, enough for a game to move
above the page that was loaded, for the same game to come twice and for two answers to
arrive in either order. In `simulation` the four donkeys make four auctions with all four
bonuses, so purses come to hold notes of every kind; three players are an auctioneer, a
leader and one to ask, and a learned player meets heuristic ones; 16 events are enough for
the last card and the trades after it, and few enough that some games are given up.
In `training` there are fewer, as many and more seeds than goroutines, checkpoints that
divide the number of steps and others that do not, and every run of promotions, ties and
roll-backs over three of them. In the connection and client models everything stops when all sockets
are used up, and a game stops when it is finished: those runs do not check for deadlock. `runtime_overlap`,
`runtime_live` and `archive_page` do. A simulated game and a training end, so theirs do not.

Each property of a passing run is shown to have teeth by a mutant of the code (`Slip...`
beside the definition it replaces): a dropped guard, a missing reset, a channel without a
buffer, a queue that drops.

### Fairness

`FairSpec` of `GameRuntime`: goroutines that can run do run (weak fairness of receiving or
giving up, of the store and of applying); handlers that wait to send to the runtime are
queued by Go in order, so one that is offering over and over is taken in the end although the
goroutine is busy in between (strong fairness of `Take`); and a `select` with several ready
cases picks each of them sooner or later (strong fairness of `Stop`). Clients, failures,
crashes and starts have none. `FairSpec` of `Connections`: each handler goroutine keeps
running; writing to a client has no fairness, because a client may stop reading. `FairSpec`
of `SDKClient`: the loop runs what is ready, timers fire, and both a send and a closing
handshake end, the first because the library's keepalive gives up on a dead peer
(`client.py:75`), the second by `close_timeout`. `PlaySpec`: the loop of `Play` goes on (it calls nothing that
waits). `TrainingSpec`: the trainer goes on when it has its answer, the main goroutine of
the worker when it can, and the Go scheduler runs each goroutine that is able to run.

## What is proved

For every value of the constants, from the named assumptions only (`ConstantsAssumption`:
there is a species, bids are integers, offers are piles; `RuntimeAssumption`: the room's creation is a
legal game, every handler is at a process; `ConnectionsAssumption` and `ClientAssumption`: a
queue has a place; `ArchiveAssumption`: a page has a place and there are finitely many games;
`PoliciesAssumption` and `SimulationAssumption`: three to five players, fractions of at most the
whole; `RolloutsAssumption` and `TrainingAssumption`: the numbers of a command line are positive,
as `positive_int` of `train.py` sees to; and in each that `Nil` is none of the values beside it).

`AggregateProofs`. The invariant `IInv` adds to the properties what they rest on: in each
phase which of auction and trade exist (`PhaseInv`), that empty seats hold nothing
(`NothingElsewhere`), that the bank holds the bonuses still to be paid (`BankInv`), and that
the turn is with someone who can move (`TurnInv`). Each command has a lemma that it keeps
`IInv`, built on lemmas about paying, exchanging and moving cards. From `IInv` follow
`AcceptedEventsApply`, `MoneyIsConserved`, `AnimalsAreConserved`, `ZerosAreKept`,
`PendingIsCovered`, `FinishedIsComplete`, `TheGameNeverSticks`,
`LegalActionsAgreeWithDecide` and `SetsArePermanent`. `ZerosKept` is what the argument turns
on: offers never take a zero card out of a hand, so every challenge can be answered and every
tie replayed.

`GameRuntimeProofs`. `IInv` says that a job belongs to a handler that waits for it or to
none, was legal after what its process has in memory, and once stored is the event memory
lacks; that memory is a prefix of the log; and that answers under way are true. The crux is
`WhatIsStoredWasLegal`: an event passes the version check only if memory is as long as the
log, and a prefix of that length is the log. `StepOfTheLog` then gives `KeepsPromises`:
`Spec => Promises`, the refinement of `CommandLog`.

`ConnectionsProofs`, for any number of connections and players. `OneConnectionPerPlayer` and
`EveryRequestIsAnswered` are not inductive: `StageInv` says whose session a handler has at each
stage, and that from `Capture` on its connection is registered for its player or cancelled;
`AnswerInv` that a connection which is owed a reply is still before its handler, among the
recipients or in hand with a version; `NoRoomYet` that nobody has a session before there is a
version to show, because a snapshot without one would be taken for an error. With `IInv` they
give `PlayersHaveOneConnection`, `RequestsAreAnswered` and `TypeCorrect`.

A second invariant on top of it, `StateInv`, follows the state to the connections, for
`NobodyIsLeftBehind`. `PublishInv` says of every attached connection that it is served (the
latest version is in its client's hands or in its queue, or some handler will bring it:
`Brings`; or it is in `cut`), or that it was not in the `audience` of that version, and its player
has, or will be sent by his own handler, the version of his joining and nothing else
(`JustJoined`). For that, nothing under way may be ahead
of the game (`NothingAhead`), who acts must have joined it (`MembersInv`), and a connection that
is not attached must not be addressed (`UnattachedInv`): it would get a state it is not counted
for.

`SDKClientProofs`, for any number of calls, sockets, subscribers and games. `RequestInv`: a call
belongs to a socket dialled before it began, so no later connection is its own; while it is
queued on the present connection nothing has completed it; and the connection of a call that
timed out or was cancelled is not the present one. `MessageInv`: the server answers only what
was sent, so a late answer finds its call beyond the send lock, or gone. `CaughtUp`: the last of
what a subscriber has or will get is the present state or the end. From these follow
`PendingCallsWait`, `SessionIsShown`, `SubscribersCatchUp` and, as a property of steps,
`NoSendAfterDoubt`.

`ArchiveProofs`, for any number of games, frames, loads and selections in flight.
`PlaybackInv`: the frame is one of the loaded replay, and nothing plays before there is
one; `SelectInv`: the call that `loadSequence` belongs to waits for the selected game. They give
`OneInterval` and `TheSelectedGameIsShown`. The list has an invariant of its own, `ListInv`: all
that was fetched since it was begun anew stands, in the order of the moment, ahead of every game
that rested and was not fetched (`FetchedIsAhead`). So as many games are ahead of such a game as
the list has (`FewerAhead`, by counting), no page begins behind it, and a page that is the last
contains it: `RestingGamesAreListed`.

`PaymentsProofs`. `paymentOptions` goes through the denominations in turn; `Level` says that
after each the options are the best piles of the notes so far. The step rests on cancellation:
which of two piles of the same total is better does not change when the same notes are added to
both. There are five denominations, so the steps are five and no induction is needed:
`OptionsAreBestOfAll`.

`SimulationProofs`, for any species, learned players, caps and fractions. `PlayInv` is `IInv` of
`AggregateProofs` with what the game between computer players adds. `HistoryInv` and
`BidIsPaid`: what an observer saw of the auction is the open auction, and a bid is the total of
the notes that cover it. `RoundInv`: whoever sits between the leader and the seat to be asked
has declined, each counted once. Every policy's moves are shown to satisfy what `Decide` demands,
which needs `OptionsAreBestOfAll` (what is chosen from the options can be paid) and `ZerosKept`
(there always is an offer). So `NoCommandIsRefused`, `InferenceExplained`, `EveryonePasses` and
`PaymentsAlwaysBest`.

`TrainingProofs`, for any command line and any number of goroutines. `StepsInv`: while the
training runs, the weights are the steps done so far without the rejected ones, the candidate
is of these weights, and what is best is of `bestStep`; from this follows
`RejectedStepsAreGone`. `RolloutInv`: every index below `next` has its result or a goroutine
playing it, a goroutine that plays is alive, and nothing plays without a rollout, so that
once all have ended the results are complete: `SeedsCountOnce`. `SeedsInv`: batches have
played the seeds below `Done * batch`, evaluations those from `ValidationSeed` up to
the current checkpoint's, and there have been no more checkpoints than `CheckpointSteps`
has elements; so the held-out games are beyond all of them: `SeedsStayFresh`. Neither
property of seeds could be shown by itself, because nothing in it counts checkpoints.

Every safety invariant and action property the runs check is a theorem. Only model-checked are
the liveness properties (`CallsReturn`, `CloseCompletes`, `HandlersReturn`,
`LostConnectionsLeave`, `EveryRequestEnds`, `PlayEnds`, `TrainingEnds`), which need fairness, and
with it `ENABLED`; `SnapshotsInOrder`, which is false; and nothing shows but by reading that
`Connections` may treat a call of the runtime as one step. So that they can be
reasoned about, `Extended` of `Payments`, `Newest` of `Connections` and what `Play` and
`Unlisted` of `Archive` do to a sequence are written without recursion.

## What the models show

* An accepted event can always be applied, and the game never gets stuck: both hold for any
  number of species and any bids and offers.
* Two processes on one store cannot spoil a game, and an error reported for a commit that
  succeeded only makes the process refuse what follows until it is restarted.
* `connections_order`: two publications that overlap can deliver a newer snapshot before an
  older one to the same client. The SDK treats that as a broken server and disconnects.
* `StaleOnlyWithCause` says who else can be left with an old state. Of those who were attached
  when the latest command was published, only they whose snapshot was still to be fetched when
  its requester was cut off; all of them, if he was cut off before his call returned. Of the
  others, only a player whose join was carried out but who was not yet attached: he has the state
  of his joining until the next command.
* After a timeout or a cancellation nothing more is sent on that connection, as the SDK's
  README promises (`NothingSentAfterDoubt`).
* The archive's list misses no game that rested while it was being loaded, as long as it is
  not refreshed with a page under way; then older games may come first, and the button for
  more may vanish too early. When a full page of games has moved to the top since, the button
  finds nothing new until the list is refreshed.

* No choice of a computer player is ever refused, whatever its scores: games between them end
  regularly or at the limit of events, which chains of trades can reach.
* A learned player knows every purse but for offers in trades and for what an auctioneer
  overpays for want of small notes (`InferenceIsExplained`).
* Whatever the order in which goroutines finish, a rollout counts each seed once and reports
  the first one that failed; the held-out games of a training are games nothing was selected on.

Two disagreements of the code with itself were met that no run exhibits. `publish` sends every
recipient an error without request id when it cannot fetch his snapshot (`server.go:222`),
as when the requester's context is cancelled in between; the SDK takes such an error for a
protocol violation and disconnects (`client.py:240`). And two calls of `connect` that overlap
both pass the check for a connection (`client.py:68`), since it precedes an await; both
succeed. What is left of the first does no harm to the table of pending requests:
`PendingIsWhoWaits` and `SessionMatchesSnapshot` hold with it.

## What is not modelled, and the plan

Not modelled for good: parsing and JSON validation, random sources, HTTP assets, flags; the
server command, whose exit is `Close` in `GameRuntime`; the immutable values of the SDK's
`models.py`; the strategy command, a batch of simulated games and a report; the features of
`linear_features.go` and `linear_context.go`, scores, gradients and the arithmetic of the
optimiser, which are floating-point numbers that only decide among moves left open here; the
tallies of `linear_history.go`, which feed those features alone; reading and writing of
checkpoints in training.

Planned, in this order:

1. That `Connections` over `GameRuntime` may treat a call of the runtime as one step: a
   refinement, with the instant of the call as its mapping.
2. An abstract table of the printed rules (`rule.md`) that `Aggregate` implements.
3. The hazard at `server.go:182`: a client's hanging up as a state of its own.
