---------------------------- MODULE GameRuntime ----------------------------
(***************************************************************************)
(* How a server carries out the commands of one game: the goroutine of     *)
(* internal/server/runtime.go that owns the aggregate, the connection      *)
(* handlers that submit operations to it, the SQLite event store of        *)
(* internal/store/sqlite.go, and the life of the process around them       *)
(* (server.New, Server.Close, a crash).                                    *)
(*                                                                         *)
(* Several processes may have the same store open: nothing in the code     *)
(* prevents an old server from still closing while its successor runs.     *)
(*                                                                         *)
(* An event is the command that caused it; its version is its place in     *)
(* the log.  Decide is membership in Games, of which Aggregate is the      *)
(* model.  That Apply never refuses what Decide accepted is a theorem      *)
(* there (AcceptedEventsApply) and is used here.                           *)
(*                                                                         *)
(* A definition whose name starts with Slip is the next one as a plausible *)
(* mistake would have it; nothing uses it.                                 *)
(***************************************************************************)
EXTENDS Naturals, Sequences

CONSTANTS
  Commands, Games, Created,  \* as in CommandLog
  Query,      \* an operation without a command: a snapshot or an authentication
  Processes,  \* server processes on this store
  Handlers,   \* connections, each to one process
  At,         \* the process a connection is to
  Nil

ASSUME RuntimeAssumption ==
  /\ Created \in Commands
  /\ Games \subseteq Seq(Commands)
  /\ <<Created>> \in Games
  /\ Query \notin Commands
  /\ At \in [Handlers -> Processes]
  /\ Nil \notin Handlers

VARIABLES
  log,      \* the rows of game_events of this game
  running,  \* each process: "up", "closing" or "down"
  memory,   \* the events its aggregate has applied
  job,      \* the command its runtime goroutine is busy with, or NoJob
  call,     \* each handler: where it is in submitResult
  reply,    \* the reply channel of its current call: at most one result
  revoked   \* is the context of its connection done?

server  == <<running, memory>>
vars == <<log, running, memory, job, call, reply, revoked>>

NoJob   == [stage |-> "none"]
NoReply == [answer |-> "none"]
Idle    == [stage |-> "idle"]

Result(answer, version) == [answer |-> answer, version |-> version]

Init ==
  /\ log = <<Created>>
  /\ running = [p \in Processes |-> "up"]
  /\ memory = [p \in Processes |-> log]
  /\ job = [p \in Processes |-> NoJob]
  /\ call = [h \in Handlers |-> Idle]
  /\ reply = [h \in Handlers |-> NoReply]
  /\ revoked = [h \in Handlers |-> FALSE]

-----------------------------------------------------------------------------
(* A handler: execute, snapshot and authenticate, which call submitResult *)

\* A revoked connection reads no further command; publishing what its last one did
\* still asks for snapshots.
Submit(h, operation) ==
  /\ call[h] = Idle
  /\ running[At[h]] # "down"
  /\ operation = Query \/ ~revoked[h]
  /\ call' = [call EXCEPT ![h] = [stage |-> "offering", operation |-> operation]]
  /\ UNCHANGED <<log, server, job, reply, revoked>>

\* The result is there, though the context may be done as well: select takes either.
ReceiveReply(h) ==
  /\ call[h].stage = "waiting" /\ reply[h] # NoReply
  /\ call' = [call EXCEPT ![h] = Idle]
  /\ reply' = [reply EXCEPT ![h] = NoReply]
  /\ UNCHANGED <<log, server, job, revoked>>

\* As if the channel were the connection's, and not the call's: a late result is put into it.
SlipGiveUp(h) ==
  /\ call[h] # Idle
  /\ revoked[h] \/ running[At[h]] = "closing"
  /\ call' = [call EXCEPT ![h] = Idle]
  /\ reply' = [reply EXCEPT ![h] = NoReply]
  /\ UNCHANGED <<log, server, job, revoked>>

\* The connection or the runtime is cancelled.  The runtime finishes the command all
\* the same, but nobody listens: the next call has a channel of its own.
GiveUp(h) ==
  LET p == At[h]
  IN  /\ call[h] # Idle
      /\ revoked[h] \/ running[p] = "closing"
      /\ call' = [call EXCEPT ![h] = Idle]
      /\ reply' = [reply EXCEPT ![h] = NoReply]
      /\ job' = IF job[p] # NoJob /\ job[p].for = h THEN [job EXCEPT ![p].for = Nil] ELSE job
      /\ UNCHANGED <<log, server, revoked>>

\* The peer is replaced by a newer connection, too slow, or cannot be written to.
Revoke(h) ==
  /\ ~revoked[h]
  /\ revoked' = [revoked EXCEPT ![h] = TRUE]
  /\ UNCHANGED <<log, server, job, call, reply>>

Reconnect(h) ==
  /\ revoked[h] /\ call[h] = Idle /\ running[At[h]] = "up"
  /\ revoked' = [revoked EXCEPT ![h] = FALSE]
  /\ UNCHANGED <<log, server, job, call, reply>>

-----------------------------------------------------------------------------
(* The runtime goroutine: run *)

SlipEndJobUnbuffered(p, result) ==
  /\ job[p].for # Nil
  /\ job' = [job EXCEPT ![p] = NoJob]
  /\ reply' = [reply EXCEPT ![job[p].for] = result]

\* The reply channel has room for one result, so the goroutine never waits for a handler.
EndJob(p, result) ==
  /\ job' = [job EXCEPT ![p] = NoJob]
  /\ reply' = IF job[p].for = Nil THEN reply ELSE [reply EXCEPT ![job[p].for] = result]

Take(h) ==
  LET p == At[h]
      operation == call[h].operation
      Answer(result) == reply' = [reply EXCEPT ![h] = result] /\ UNCHANGED job
  IN  /\ running[p] # "down" /\ job[p] = NoJob
      /\ call[h].stage = "offering"
      /\ call' = [call EXCEPT ![h].stage = "waiting"]
      /\ \/ operation = Query /\ Answer(Result("snapshot", Len(memory[p])))
         \/ /\ operation # Query /\ Append(memory[p], operation) \notin Games
            /\ Answer(Result("rejected", 0))
         \/ /\ operation # Query /\ Append(memory[p], operation) \in Games
            /\ job' = [job EXCEPT ![p] = [stage |-> "append", command |-> operation, for |-> h]]
            /\ UNCHANGED reply
      /\ UNCHANGED <<log, server, revoked>>

SlipDuplicate(command) == FALSE
Duplicate(command) == \E n \in DOMAIN log : log[n].id = command.id

SlipFollows(p) == TRUE

\* The version of the event is the one after those in memory; the table's next is
\* the one after those in the log.
Follows(p) == Len(memory[p]) + 1 = Len(log) + 1

\* Any violated constraint is taken for that of the command ids.
SlipAppendEvent(p) ==
  /\ job[p].stage = "append"
  /\ IF Duplicate(job[p].command) \/ ~Follows(p)
     THEN EndJob(p, Result("duplicate", 0)) /\ UNCHANGED log
     ELSE /\ log' = Append(log, job[p].command)
          /\ job' = [job EXCEPT ![p].stage = "apply"]
          /\ UNCHANGED reply
  /\ UNCHANGED <<server, call, revoked>>

\* SQLite.Append, one transaction.
AppendEvent(p) ==
  /\ job[p].stage = "append"
  /\ LET command == job[p].command
     IN  \/ /\ Duplicate(command)
            /\ EndJob(p, Result("duplicate", 0))
            /\ UNCHANGED log
         \/ /\ ~Duplicate(command) /\ ~Follows(p)
            /\ EndJob(p, Result("failed", 0))
            /\ UNCHANGED log
         \/ /\ ~Duplicate(command) /\ Follows(p)
            /\ log' = Append(log, command)
            /\ job' = [job EXCEPT ![p].stage = "apply"]
            /\ UNCHANGED reply
  /\ UNCHANGED <<server, call, revoked>>

\* The transaction fails: its context is cancelled, or the database reports a fault.
\* A fault can be reported of a commit that has in fact reached the disk.
AppendFails(p) ==
  /\ job[p].stage = "append"
  /\ EndJob(p, Result("failed", 0))
  /\ \/ UNCHANGED log
     \/ /\ ~Duplicate(job[p].command) /\ Follows(p)
        /\ log' = Append(log, job[p].command)
  /\ UNCHANGED <<server, call, revoked>>

ApplyEvent(p) ==
  /\ job[p].stage = "apply"
  /\ memory' = [memory EXCEPT ![p] = Append(@, job[p].command)]
  /\ EndJob(p, Result("done", Len(memory[p]) + 1))
  /\ UNCHANGED <<log, running, call, revoked>>

-----------------------------------------------------------------------------
(* The process *)

\* Server.Close: cancels the runtimes and waits for them.
Close(p) ==
  /\ running[p] = "up"
  /\ running' = [running EXCEPT ![p] = "closing"]
  /\ UNCHANGED <<log, memory, job, call, reply, revoked>>

\* With the process go its goroutines and their channels.
End(p) ==
  /\ running' = [running EXCEPT ![p] = "down"]
  /\ memory' = [memory EXCEPT ![p] = <<>>]
  /\ job' = [job EXCEPT ![p] = NoJob]
  /\ call' = [h \in Handlers |-> IF At[h] = p THEN Idle ELSE call[h]]
  /\ reply' = [h \in Handlers |-> IF At[h] = p THEN NoReply ELSE reply[h]]
  /\ UNCHANGED <<log, revoked>>

\* The goroutine sees its context done; Close then closes the store.
Stop(p) == running[p] = "closing" /\ job[p] = NoJob /\ End(p)

Crash(p) == running[p] # "down" /\ End(p)

\* server.New replays the log.
Start(p) ==
  /\ running[p] = "down"
  /\ running' = [running EXCEPT ![p] = "up"]
  /\ memory' = [memory EXCEPT ![p] = log]
  /\ UNCHANGED <<log, job, call, reply, revoked>>

-----------------------------------------------------------------------------
Next ==
  \/ \E h \in Handlers, operation \in Commands \cup {Query} : Submit(h, operation)
  \/ \E h \in Handlers : ReceiveReply(h)
  \/ \E h \in Handlers : GiveUp(h)
  \/ \E h \in Handlers : Revoke(h)
  \/ \E h \in Handlers : Reconnect(h)
  \/ \E h \in Handlers : Take(h)
  \/ \E p \in Processes : AppendEvent(p)
  \/ \E p \in Processes : AppendFails(p)
  \/ \E p \in Processes : ApplyEvent(p)
  \/ \E p \in Processes : Close(p)
  \/ \E p \in Processes : Stop(p)
  \/ \E p \in Processes : Crash(p)
  \/ \E p \in Processes : Start(p)

Spec == Init /\ [][Next]_vars

\* Goroutines keep running; handlers waiting to send are served in the order they came,
\* and a select with several ready cases picks each of them sooner or later.
Fairness ==
  /\ \A h \in Handlers : WF_vars(ReceiveReply(h) \/ GiveUp(h)) /\ SF_vars(Take(h))
  /\ \A p \in Processes : /\ WF_vars(AppendEvent(p) \/ AppendFails(p)) /\ WF_vars(ApplyEvent(p))
                          /\ SF_vars(Stop(p))

FairSpec == Spec /\ Fairness

-----------------------------------------------------------------------------
(* Properties *)

Operations == Commands \cup {Query}

Jobs == [stage : {"append", "apply"}, command : Commands, for : Handlers \cup {Nil}]

Calls == [stage : {"offering", "waiting"}, operation : Operations]

Replies == [answer : {"snapshot", "rejected", "duplicate", "failed", "done"}, version : Nat]

\* The values the variables range over: a result is in the channel of a call that waits.
TypeOK ==
  /\ log \in Seq(Commands)
  /\ running \in [Processes -> {"up", "closing", "down"}]
  /\ memory \in [Processes -> Seq(Commands)]
  /\ job \in [Processes -> {NoJob} \cup Jobs]
  /\ call \in [Handlers -> {Idle} \cup Calls]
  /\ reply \in [Handlers -> {NoReply} \cup Replies]
  /\ \A h \in Handlers : reply[h] # NoReply => call[h].stage = "waiting"
  /\ revoked \in [Handlers -> BOOLEAN]

\* The server keeps the promises of CommandLog, across cancelled calls, failing
\* transactions, crashes and two processes on one store.
Log == INSTANCE CommandLog WITH history <- log
Promises == Log!LogSpec

\* A replayed or live aggregate is the log's, perhaps without its latest events.
MemoryIsPrefix ==
  \A p \in Processes : /\ Len(memory[p]) <= Len(log)
                       /\ \A n \in 1..Len(memory[p]) : memory[p][n] = log[n]

\* An answer that waits for its handler is true of the log, and as the log only grows it
\* stays true: "done" names the place the command has in it, "duplicate" means it is there.
AnswersAreTrue ==
  \A h \in Handlers :
    LET command == call[h].operation
        version == reply[h].version
    IN  /\ reply[h].answer = "done" => version \in DOMAIN log /\ log[version] = command
        /\ reply[h].answer = "duplicate" => Duplicate(command)

\* The inductive invariant: a job is one its handler still waits for or has given up, it
\* was legal after what is in memory, and once stored it is what memory lacks.
JobsInv ==
  \A p \in Processes : job[p] # NoJob =>
    /\ running[p] # "down"
    /\ job[p].for # Nil => /\ At[job[p].for] = p /\ reply[job[p].for] = NoReply
                          /\ call[job[p].for] = [stage |-> "waiting", operation |-> job[p].command]
    /\ job[p].stage = "append" => Append(memory[p], job[p].command) \in Games
    /\ job[p].stage = "apply" => /\ Len(memory[p]) < Len(log)
                                /\ log[Len(memory[p]) + 1] = job[p].command

IInv == TypeOK /\ MemoryIsPrefix /\ AnswersAreTrue /\ JobsInv

\* Every call of a handler ends: with its result, or because its connection or the
\* server is going down.
CallsReturn == \A h \in Handlers : call[h] # Idle ~> call[h] = Idle

\* Server.Close comes to its end though commands are still being carried out.
CloseCompletes == \A p \in Processes : running[p] = "closing" ~> running[p] = "down"
=============================================================================
