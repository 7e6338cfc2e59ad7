------------------------- MODULE GameRuntimeProofs -------------------------
(***************************************************************************)
(* For any number of processes and handlers and any rules of the game, the *)
(* runtime keeps the promises of CommandLog.                               *)
(***************************************************************************)
EXTENDS GameRuntime, TLAPS

-----------------------------------------------------------------------------
(* Sequences *)

\* Appending keeps what was there and puts the new element behind it.
LEMMA AppendFacts ==
  ASSUME NEW S, NEW s \in Seq(S), NEW e \in S
  PROVE  /\ Append(s, e) \in Seq(S)
         /\ Len(Append(s, e)) = Len(s) + 1
         /\ \A n \in 1..Len(s) : Append(s, e)[n] = s[n]
         /\ Append(s, e)[Len(s) + 1] = e
  OBVIOUS

\* Two sequences of the same length with the same elements are one.
LEMMA SameSequence ==
  ASSUME NEW S, NEW s \in Seq(S), NEW t \in Seq(S), Len(s) = Len(t),
         \A n \in 1..Len(s) : s[n] = t[n]
  PROVE  s = t
  OBVIOUS

-----------------------------------------------------------------------------
(* The log *)

\* What the invariant says of a process that is busy with a command.
LEMMA JobFacts ==
  ASSUME IInv, NEW p \in Processes, job[p] # NoJob
  PROVE  /\ job[p] \in Jobs /\ job[p].command \in Commands /\ running[p] # "down"
         /\ job[p].stage = "append" => Append(memory[p], job[p].command) \in Games
         /\ job[p].stage = "apply" => /\ Len(memory[p]) < Len(log)
                                     /\ log[Len(memory[p]) + 1] = job[p].command
         /\ job[p].for # Nil => /\ job[p].for \in Handlers /\ At[job[p].for] = p
                               /\ reply[job[p].for] = NoReply
                               /\ call[job[p].for] = [stage |-> "waiting", operation |-> job[p].command]
  <1>1. job[p] \in Jobs
    BY DEF IInv, TypeOK
  <1>2. job[p].command \in Commands /\ job[p].for \in Handlers \cup {Nil}
    BY <1>1 DEF Jobs
  <1> QED BY <1>1, <1>2 DEF IInv, JobsInv

\* What it says of the log and the memory of a process.
LEMMA LogFacts ==
  ASSUME IInv, NEW p \in Processes
  PROVE  /\ log \in Seq(Commands) /\ memory[p] \in Seq(Commands)
         /\ Len(log) \in Nat /\ Len(memory[p]) \in Nat
         /\ Len(memory[p]) <= Len(log)
         /\ \A n \in 1..Len(memory[p]) : memory[p][n] = log[n]
  <1>1. log \in Seq(Commands) /\ memory[p] \in Seq(Commands)
    BY DEF IInv, TypeOK
  <1> QED BY <1>1 DEF IInv, MemoryIsPrefix

\* Whatever is recorded follows the whole log: it was decided on a memory as long as
\* the log, which is the log.
LEMMA WhatIsStoredWasLegal ==
  ASSUME RuntimeAssumption, IInv, NEW p \in Processes, job[p].stage = "append", Follows(p)
  PROVE  Append(log, job[p].command) \in Games
  <1>1. /\ log \in Seq(Commands) /\ memory[p] \in Seq(Commands)
        /\ Append(memory[p], job[p].command) \in Games
    <2>1. job[p] # NoJob
      BY DEF NoJob
    <2> QED BY <2>1, JobFacts, LogFacts
  <1>2. Len(memory[p]) = Len(log)
    BY <1>1 DEF Follows
  <1>3. memory[p] = log
    BY <1>1, <1>2, SameSequence DEF IInv, MemoryIsPrefix
  <1> QED BY <1>1, <1>3

\* A step leaves the log alone or records one fresh and legal command.
LEMMA StepOfTheLog ==
  ASSUME RuntimeAssumption, IInv, Next
  PROVE  \/ log' = log
         \/ \E command \in Commands :
              /\ ~Duplicate(command) /\ Append(log, command) \in Games
              /\ log' = Append(log, command)
  <1>1. ASSUME NEW p \in Processes, AppendEvent(p) \/ AppendFails(p)
        PROVE  \/ log' = log
               \/ \E command \in Commands :
                    /\ ~Duplicate(command) /\ Append(log, command) \in Games
                    /\ log' = Append(log, command)
    <2>1. job[p].stage = "append"
      BY <1>1 DEF AppendEvent, AppendFails
    <2>2. job[p].command \in Commands
      <3>1. job[p] # NoJob
        BY <2>1 DEF NoJob
      <3> QED BY <3>1, JobFacts
    <2>3. CASE log' # log
      <3>1. /\ ~Duplicate(job[p].command) /\ Follows(p)
            /\ log' = Append(log, job[p].command)
        BY <1>1, <2>3 DEF AppendEvent, AppendFails
      <3> QED BY <2>1, <2>2, <3>1, WhatIsStoredWasLegal
    <2> QED BY <2>3
  <1>2. CASE \/ \E h \in Handlers, operation \in Commands \cup {Query} : Submit(h, operation)
             \/ \E h \in Handlers : \/ ReceiveReply(h) \/ GiveUp(h) \/ Revoke(h)
                                    \/ Reconnect(h) \/ Take(h)
    BY <1>2 DEF Submit, ReceiveReply, GiveUp, Revoke, Reconnect, Take
  <1>3. CASE \E p \in Processes : ApplyEvent(p) \/ Close(p) \/ Stop(p) \/ Crash(p) \/ Start(p)
    BY <1>3 DEF ApplyEvent, Close, Stop, Crash, Start, End
  <1> QED BY <1>1, <1>2, <1>3 DEF Next

-----------------------------------------------------------------------------
(* Every action keeps the invariant *)

\* What the invariant says of an answer that waits for its handler.
LEMMA ReplyFacts ==
  ASSUME IInv, NEW h \in Handlers
  PROVE  /\ call[h] \in {Idle} \cup Calls /\ reply[h] \in {NoReply} \cup Replies
         /\ reply[h] # NoReply => call[h].stage = "waiting"
         /\ reply[h].answer = "done" =>
              reply[h].version \in 1..Len(log) /\ log[reply[h].version] = call[h].operation
         /\ reply[h].answer = "duplicate" => Duplicate(call[h].operation)
  <1>1. call[h] \in {Idle} \cup Calls /\ reply[h] \in {NoReply} \cup Replies /\ log \in Seq(Commands)
    BY DEF IInv, TypeOK
  <1>2. DOMAIN log = 1..Len(log)
    BY <1>1
  <1> QED BY <1>1, <1>2 DEF IInv, TypeOK, AnswersAreTrue

\* A handler that submits an operation has no reply waiting.
LEMMA SubmitKeepsIInv ==
  ASSUME IInv, NEW h \in Handlers, NEW operation \in Operations, Submit(h, operation)
  PROVE  IInv'
  <1>1. /\ call[h] = Idle
        /\ call' = [call EXCEPT ![h] = [stage |-> "offering", operation |-> operation]]
        /\ log' = log /\ running' = running /\ memory' = memory /\ job' = job /\ reply' = reply
        /\ revoked' = revoked
    BY DEF Submit, server
  <1>2. reply[h] = NoReply
    BY <1>1, ReplyFacts DEF Idle
  <1>3. TypeOK'
    BY <1>1, <1>2 DEF IInv, TypeOK, Calls
  <1>4. MemoryIsPrefix'
    BY <1>1 DEF IInv, MemoryIsPrefix
  <1>5. AnswersAreTrue'
    BY <1>1, <1>2 DEF IInv, TypeOK, AnswersAreTrue, NoReply, Duplicate
  <1>6. JobsInv'
    BY <1>1, <1>2 DEF IInv, TypeOK, JobsInv, Idle
  <1> QED BY <1>3, <1>4, <1>5, <1>6 DEF IInv

\* Taking the result empties the channel.
LEMMA ReceiveReplyKeepsIInv ==
  ASSUME IInv, NEW h \in Handlers, ReceiveReply(h)
  PROVE  IInv'
  <1>1. /\ reply[h] # NoReply
        /\ call' = [call EXCEPT ![h] = Idle] /\ reply' = [reply EXCEPT ![h] = NoReply]
        /\ log' = log /\ running' = running /\ memory' = memory /\ job' = job
        /\ revoked' = revoked
    BY DEF ReceiveReply, server
  <1>2. TypeOK'
    BY <1>1 DEF IInv, TypeOK
  <1>3. MemoryIsPrefix'
    BY <1>1 DEF IInv, MemoryIsPrefix
  <1>4. AnswersAreTrue'
    BY <1>1 DEF IInv, TypeOK, AnswersAreTrue, NoReply, Duplicate
  <1>5. JobsInv'
    BY <1>1 DEF IInv, TypeOK, JobsInv
  <1> QED BY <1>2, <1>3, <1>4, <1>5 DEF IInv

\* A call given up leaves its job without a handler: no later answer reaches another call.
LEMMA GiveUpKeepsIInv ==
  ASSUME RuntimeAssumption, IInv, NEW h \in Handlers, GiveUp(h)
  PROVE  IInv'
  <1> DEFINE p == At[h]
  <1>1. /\ call' = [call EXCEPT ![h] = Idle] /\ reply' = [reply EXCEPT ![h] = NoReply]
        /\ job' = IF job[p] # NoJob /\ job[p].for = h THEN [job EXCEPT ![p].for = Nil] ELSE job
        /\ log' = log /\ running' = running /\ memory' = memory
        /\ revoked' = revoked
    BY DEF GiveUp, server
  <1>2. p \in Processes
    BY DEF RuntimeAssumption
  <1>3. \A q \in Processes :
          /\ job'[q] \in {NoJob} \cup Jobs
          /\ job'[q] # NoJob =>
               /\ job[q] # NoJob
               /\ job'[q].stage = job[q].stage /\ job'[q].command = job[q].command
               /\ job'[q].for = job[q].for \/ job'[q].for = Nil
               /\ job'[q].for # h
    <2> SUFFICES ASSUME NEW q \in Processes
                 PROVE  /\ job'[q] \in {NoJob} \cup Jobs
                        /\ job'[q] # NoJob =>
                             /\ job[q] # NoJob
                             /\ job'[q].stage = job[q].stage /\ job'[q].command = job[q].command
                             /\ job'[q].for = job[q].for \/ job'[q].for = Nil
                             /\ job'[q].for # h
      OBVIOUS
    <2>1. job \in [Processes -> {NoJob} \cup Jobs]
      BY DEF IInv, TypeOK
    <2>2. CASE q = p /\ job[p] # NoJob /\ job[p].for = h
      <3>1. job[p] \in Jobs
        BY <1>2, <2>2, JobFacts
      <3>2. job'[p] = [job[p] EXCEPT !.for = Nil]
        BY <1>1, <1>2, <2>1, <2>2
      <3> QED BY <2>2, <3>1, <3>2 DEF Jobs, RuntimeAssumption
    <2>3. CASE ~(q = p /\ job[p] # NoJob /\ job[p].for = h)
      <3>1. job'[q] = job[q]
        BY <1>1, <1>2, <2>1, <2>3
      <3>2. ASSUME job[q] # NoJob, job[q].for = h
            PROVE  FALSE
        <4>1. h # Nil
          BY DEF RuntimeAssumption
        <4>2. At[h] = q
          BY <3>2, <4>1, JobFacts
        <4> QED BY <2>3, <3>2, <4>2
      <3>3. job[q] \in {NoJob} \cup Jobs
        BY <2>1
      <3> QED BY <3>1, <3>2, <3>3
    <2> QED BY <2>2, <2>3
  <1>4. job' \in [Processes -> {NoJob} \cup Jobs]
    BY <1>1, <1>2, <1>3 DEF IInv, TypeOK
  <1> HIDE DEF p
  <1>5. TypeOK'
    BY <1>1, <1>4 DEF IInv, TypeOK
  <1>6. MemoryIsPrefix'
    BY <1>1 DEF IInv, MemoryIsPrefix
  <1>7. AnswersAreTrue'
    BY <1>1 DEF IInv, TypeOK, AnswersAreTrue, NoReply, Duplicate
  <1>8. JobsInv'
    <2>1. ASSUME NEW q \in Processes, job'[q] # NoJob
          PROVE  /\ running'[q] # "down"
                 /\ job'[q].for # Nil => /\ At[job'[q].for] = q /\ reply'[job'[q].for] = NoReply
                                        /\ call'[job'[q].for] = [stage |-> "waiting", operation |-> job'[q].command]
                 /\ job'[q].stage = "append" => Append(memory'[q], job'[q].command) \in Games
                 /\ job'[q].stage = "apply" => /\ Len(memory'[q]) < Len(log')
                                              /\ log'[Len(memory'[q]) + 1] = job'[q].command
      BY <1>1, <1>3, <2>1, JobFacts DEF IInv, TypeOK
    <2> QED BY <2>1 DEF JobsInv
  <1> QED BY <1>5, <1>6, <1>7, <1>8 DEF IInv

\* Whether a connection is revoked is nothing the invariant speaks of.
LEMMA RevocationKeepsIInv ==
  ASSUME IInv, NEW h \in Handlers, Revoke(h) \/ Reconnect(h)
  PROVE  IInv'
  <1>1. /\ revoked' \in [Handlers -> BOOLEAN]
        /\ UNCHANGED <<log, running, memory, job, call, reply>>
    BY DEF Revoke, Reconnect, server, IInv, TypeOK
  <1> QED BY <1>1 DEF IInv, TypeOK, MemoryIsPrefix, AnswersAreTrue, JobsInv, Duplicate

\* Taking an operation answers it at once or starts a job that is legal after memory.
LEMMA TakeKeepsIInv ==
  ASSUME RuntimeAssumption, IInv, NEW h \in Handlers, Take(h)
  PROVE  IInv'
  <1> DEFINE p == At[h]
  <1> DEFINE operation == call[h].operation
  <1>1. /\ p \in Processes /\ running[p] # "down" /\ job[p] = NoJob /\ call[h].stage = "offering"
        /\ call' = [call EXCEPT ![h].stage = "waiting"]
        /\ log' = log /\ running' = running /\ memory' = memory /\ revoked' = revoked
    BY DEF Take, server, RuntimeAssumption
  <1>2. call[h] \in Calls /\ operation \in Operations /\ reply[h] = NoReply
    BY <1>1, ReplyFacts DEF Idle, Calls
  <1>3. /\ call' \in [Handlers -> {Idle} \cup Calls]
        /\ call'[h] = [stage |-> "waiting", operation |-> operation]
        /\ \A g \in Handlers \ {h} : call'[g] = call[g]
    <2>1. [call[h] EXCEPT !.stage = "waiting"] = [stage |-> "waiting", operation |-> operation]
      BY <1>2 DEF Calls
    <2>2. [stage |-> "waiting", operation |-> operation] \in Calls
      BY <1>2 DEF Calls
    <2> QED BY <1>1, <2>1, <2>2 DEF IInv, TypeOK
  <1>4. \A q \in Processes : job[q] # NoJob => job[q].for # h
    BY <1>1, JobFacts DEF RuntimeAssumption
  <1>5. MemoryIsPrefix'
    BY <1>1 DEF IInv, MemoryIsPrefix
  <1>6. CASE /\ job' = job
             /\ \E result \in {Result("snapshot", Len(memory[p])), Result("rejected", 0)} :
                  reply' = [reply EXCEPT ![h] = result]
    <2>1. PICK result \in {Result("snapshot", Len(memory[p])), Result("rejected", 0)} :
            reply' = [reply EXCEPT ![h] = result]
      BY <1>6
    <2>2. result \in Replies /\ result.answer \in {"snapshot", "rejected"}
      BY <1>1, LogFacts DEF Result, Replies
    <2>3. /\ reply' \in [Handlers -> {NoReply} \cup Replies] /\ reply'[h] = result
          /\ \A g \in Handlers \ {h} : reply'[g] = reply[g]
      BY <2>1, <2>2 DEF IInv, TypeOK
    <2>4. TypeOK'
      BY <1>1, <1>3, <1>6, <2>3 DEF IInv, TypeOK
    <2>5. AnswersAreTrue'
      BY <1>1, <1>3, <2>2, <2>3 DEF IInv, AnswersAreTrue, Duplicate
    <2>6. JobsInv'
      <3>1. \A q \in Processes : job[q] # NoJob /\ job[q].for # Nil =>
              /\ job[q].for \in Handlers \ {h}
              /\ At[job[q].for] = q /\ reply[job[q].for] = NoReply
              /\ call[job[q].for] = [stage |-> "waiting", operation |-> job[q].command]
        BY <1>4, JobFacts
      <3> QED BY <1>1, <1>3, <1>6, <2>3, <3>1, JobFacts DEF JobsInv
    <2> QED BY <1>5, <2>4, <2>5, <2>6 DEF IInv
  <1>7. CASE /\ operation # Query /\ Append(memory[p], operation) \in Games /\ reply' = reply
             /\ job' = [job EXCEPT ![p] = [stage |-> "append", command |-> operation, for |-> h]]
    <2> DEFINE new == [stage |-> "append", command |-> operation, for |-> h]
    <2>1. new \in Jobs /\ h # Nil
      BY <1>2, <1>7 DEF Jobs, Operations, RuntimeAssumption
    <2>2. /\ job' \in [Processes -> {NoJob} \cup Jobs] /\ job'[p] = new
          /\ \A q \in Processes \ {p} : job'[q] = job[q]
      BY <1>1, <1>7, <2>1 DEF IInv, TypeOK
    <2>3. TypeOK'
      BY <1>1, <1>3, <1>7, <2>2 DEF IInv, TypeOK
    <2>4. AnswersAreTrue'
      BY <1>1, <1>2, <1>3, <1>7 DEF IInv, AnswersAreTrue, Duplicate, NoReply
    <2>5. JobsInv'
      <3>1. ASSUME NEW q \in Processes, job'[q] # NoJob
            PROVE  /\ running'[q] # "down"
                   /\ job'[q].for # Nil => /\ At[job'[q].for] = q /\ reply'[job'[q].for] = NoReply
                                          /\ call'[job'[q].for] = [stage |-> "waiting", operation |-> job'[q].command]
                   /\ job'[q].stage = "append" => Append(memory'[q], job'[q].command) \in Games
                   /\ job'[q].stage = "apply" => /\ Len(memory'[q]) < Len(log')
                                                /\ log'[Len(memory'[q]) + 1] = job'[q].command
        <4>1. CASE q = p
          BY <1>1, <1>2, <1>3, <1>7, <2>2, <4>1
        <4>2. CASE q # p
          <5>1. job'[q] = job[q]
            BY <2>2, <4>2
          <5>2. job[q].for # Nil =>
                  /\ job[q].for \in Handlers \ {h}
                  /\ At[job[q].for] = q /\ reply[job[q].for] = NoReply
                  /\ call[job[q].for] = [stage |-> "waiting", operation |-> job[q].command]
            BY <1>4, <3>1, <5>1, JobFacts
          <5>3. job'[q].for # Nil => /\ At[job'[q].for] = q /\ reply'[job'[q].for] = NoReply
                                    /\ call'[job'[q].for] = [stage |-> "waiting", operation |-> job'[q].command]
            BY <1>3, <1>7, <5>1, <5>2
          <5> QED BY <1>1, <3>1, <5>1, <5>3, JobFacts
        <4> QED BY <4>1, <4>2
      <3> QED BY <3>1 DEF JobsInv
    <2> QED BY <1>5, <2>3, <2>4, <2>5 DEF IInv
  <1> QED BY <1>6, <1>7 DEF Take

\* Recording a command leaves what stands in the log in its place.
LEMMA LogGrows ==
  ASSUME IInv, log' = log \/ \E command \in Commands : log' = Append(log, command)
  PROVE  /\ log' \in Seq(Commands) /\ Len(log') \in Nat /\ Len(log) <= Len(log')
         /\ \A n \in 1..Len(log) : n \in 1..Len(log') /\ log'[n] = log[n]
         /\ \A command : Duplicate(command) => \E n \in DOMAIN log' : log'[n].id = command.id
  <1>1. log \in Seq(Commands)
    BY DEF IInv, TypeOK
  <1>2. /\ log' \in Seq(Commands) /\ Len(log') \in Nat /\ Len(log) <= Len(log')
        /\ \A n \in 1..Len(log) : n \in 1..Len(log') /\ log'[n] = log[n]
    <2>1. CASE log' = log
      BY <1>1, <2>1
    <2>2. CASE \E command \in Commands : log' = Append(log, command)
      <3>1. PICK command \in Commands : log' = Append(log, command)
        BY <2>2
      <3>2. log' \in Seq(Commands) /\ Len(log') = Len(log) + 1
            /\ \A n \in 1..Len(log) : log'[n] = log[n]
        BY <1>1, <3>1, AppendFacts
      <3> QED BY <1>1, <3>2
    <2> QED BY <2>1, <2>2
  <1>3. DOMAIN log = 1..Len(log) /\ DOMAIN log' = 1..Len(log')
    BY <1>1, <1>2
  <1> QED BY <1>2, <1>3 DEF Duplicate

\* The end of a job concerns its process and its handler, and no other.
LEMMA EndOfAJob ==
  ASSUME RuntimeAssumption, IInv, NEW p \in Processes, job[p] # NoJob,
         NEW result \in Replies, EndJob(p, result)
  PROVE  /\ job' \in [Processes -> {NoJob} \cup Jobs] /\ job'[p] = NoJob
         /\ \A q \in Processes \ {p} : job'[q] = job[q]
         /\ reply' \in [Handlers -> {NoReply} \cup Replies]
         /\ \A g \in Handlers : \/ reply'[g] = reply[g]
                                \/ /\ reply'[g] = result
                                   /\ call[g] = [stage |-> "waiting", operation |-> job[p].command]
         /\ \A q \in Processes \ {p} : job[q] # NoJob /\ job[q].for # Nil => reply'[job[q].for] = NoReply
  <1>1. /\ job' \in [Processes -> {NoJob} \cup Jobs] /\ job'[p] = NoJob
        /\ \A q \in Processes \ {p} : job'[q] = job[q]
    BY DEF EndJob, IInv, TypeOK
  <1>2. reply \in [Handlers -> {NoReply} \cup Replies]
    BY DEF IInv, TypeOK
  <1>3. CASE job[p].for = Nil
    <2>1. reply' = reply
      BY <1>3 DEF EndJob
    <2> QED BY <1>1, <1>2, <2>1, JobFacts
  <1>4. CASE job[p].for # Nil
    <2> DEFINE h == job[p].for
    <2>1. /\ h \in Handlers /\ At[h] = p
          /\ call[h] = [stage |-> "waiting", operation |-> job[p].command]
      BY <1>4, JobFacts
    <2>2. reply' = [reply EXCEPT ![h] = result]
      BY <1>4 DEF EndJob
    <2>3. ASSUME NEW q \in Processes \ {p}, job[q] # NoJob, job[q].for # Nil
          PROVE  reply'[job[q].for] = NoReply
      <3>1. At[job[q].for] = q /\ job[q].for \in Handlers /\ reply[job[q].for] = NoReply
        BY <2>3, JobFacts
      <3>2. job[q].for # h
        BY <2>1, <3>1
      <3> QED BY <1>2, <2>2, <3>1, <3>2
    <2> QED BY <1>1, <1>2, <2>1, <2>2, <2>3
  <1> QED BY <1>3, <1>4

\* A job may end with any answer that is true of the log.
LEMMA EndJobKeepsIInv ==
  ASSUME RuntimeAssumption, IInv, NEW p \in Processes, job[p] # NoJob,
         NEW result \in Replies, EndJob(p, result), UNCHANGED <<call, running, revoked>>,
         log' = log \/ \E command \in Commands : log' = Append(log, command),
         memory' \in [Processes -> Seq(Commands)], MemoryIsPrefix',
         \A q \in Processes \ {p} : memory'[q] = memory[q],
         result.answer = "done" =>
           result.version \in 1..Len(log') /\ log'[result.version] = job[p].command,
         result.answer = "duplicate" => Duplicate(job[p].command)
  PROVE  IInv'
  <1>1. TypeOK'
    <2>1. ASSUME NEW h \in Handlers, reply'[h] # NoReply
          PROVE  call'[h].stage = "waiting"
      <3>1. \/ reply'[h] = reply[h]
            \/ reply'[h] = result /\ call[h] = [stage |-> "waiting", operation |-> job[p].command]
        BY EndOfAJob
      <3> QED BY <2>1, <3>1, ReplyFacts
    <2> QED BY <2>1, LogGrows, EndOfAJob DEF IInv, TypeOK
  <1>2. AnswersAreTrue'
    <2>1. ASSUME NEW h \in Handlers
          PROVE  /\ reply'[h].answer = "done" =>
                      reply'[h].version \in DOMAIN log' /\ log'[reply'[h].version] = call'[h].operation
                 /\ reply'[h].answer = "duplicate" =>
                      \E n \in DOMAIN log' : log'[n].id = call'[h].operation.id
      <3>1. DOMAIN log' = 1..Len(log') /\ call'[h] = call[h]
        BY LogGrows
      <3>2. CASE reply'[h] = reply[h]
        <4>1. ASSUME reply[h].answer = "done"
              PROVE  reply[h].version \in DOMAIN log' /\ log'[reply[h].version] = call[h].operation
          <5>1. reply[h].version \in 1..Len(log) /\ log[reply[h].version] = call[h].operation
            BY <4>1, ReplyFacts
          <5> QED BY <3>1, <5>1, LogGrows
        <4>2. ASSUME reply[h].answer = "duplicate"
              PROVE  \E n \in DOMAIN log' : log'[n].id = call[h].operation.id
          BY <4>2, ReplyFacts, LogGrows
        <4> QED BY <3>1, <3>2, <4>1, <4>2
      <3>3. CASE reply'[h] = result /\ call[h].operation = job[p].command
        <4>1. result.answer = "duplicate" => \E n \in DOMAIN log' : log'[n].id = job[p].command.id
          BY LogGrows
        <4> QED BY <3>1, <3>3, <4>1
      <3>4. \/ reply'[h] = reply[h]
            \/ reply'[h] = result /\ call[h] = [stage |-> "waiting", operation |-> job[p].command]
        BY EndOfAJob
      <3> QED BY <3>2, <3>3, <3>4
    <2> QED BY <2>1 DEF AnswersAreTrue, Duplicate
  <1>3. JobsInv'
    <2>1. ASSUME NEW q \in Processes, job'[q] # NoJob
          PROVE  /\ running'[q] # "down"
                 /\ job'[q].for # Nil => /\ At[job'[q].for] = q /\ reply'[job'[q].for] = NoReply
                                        /\ call'[job'[q].for] = [stage |-> "waiting", operation |-> job'[q].command]
                 /\ job'[q].stage = "append" => Append(memory'[q], job'[q].command) \in Games
                 /\ job'[q].stage = "apply" => /\ Len(memory'[q]) < Len(log')
                                              /\ log'[Len(memory'[q]) + 1] = job'[q].command
      <3>1. q # p /\ job'[q] = job[q] /\ memory'[q] = memory[q]
        BY <2>1, EndOfAJob
      <3>2. job[q].for # Nil => reply'[job[q].for] = NoReply
        BY <2>1, <3>1, EndOfAJob
      <3>3. ASSUME job[q].stage = "apply"
            PROVE  /\ Len(memory[q]) < Len(log')
                   /\ log'[Len(memory[q]) + 1] = job[q].command
        <4>1. Len(memory[q]) + 1 \in 1..Len(log) /\ log[Len(memory[q]) + 1] = job[q].command
          <5>1. Len(memory[q]) < Len(log) /\ log[Len(memory[q]) + 1] = job[q].command
            BY <2>1, <3>1, <3>3, JobFacts
          <5>2. Len(memory[q]) \in Nat /\ Len(log) \in Nat
            BY LogFacts
          <5> QED BY <5>1, <5>2
        <4>2. /\ Len(memory[q]) + 1 \in 1..Len(log')
              /\ log'[Len(memory[q]) + 1] = log[Len(memory[q]) + 1]
          BY <4>1, LogGrows
        <4>3. Len(memory[q]) \in Nat /\ Len(log') \in Nat
          BY LogFacts, LogGrows
        <4> QED BY <4>1, <4>2, <4>3
      <3> QED BY <2>1, <3>1, <3>2, <3>3, JobFacts
    <2> QED BY <2>1 DEF JobsInv
  <1> QED BY <1>1, <1>2, <1>3 DEF IInv

\* A log that only grows keeps every memory its prefix.
LEMMA PrefixOfMore ==
  ASSUME IInv, log' = log \/ \E command \in Commands : log' = Append(log, command),
         memory' = memory
  PROVE  MemoryIsPrefix'
  <1> SUFFICES ASSUME NEW p \in Processes
               PROVE  /\ Len(memory[p]) <= Len(log')
                      /\ \A n \in 1..Len(memory[p]) : memory[p][n] = log'[n]
    BY DEF MemoryIsPrefix
  <1> QED BY LogFacts, LogGrows

\* Whatever the transaction answers is true of the log it leaves.
LEMMA AppendEventKeepsIInv ==
  ASSUME RuntimeAssumption, IInv, NEW p \in Processes, AppendEvent(p)
  PROVE  IInv'
  <1>1. /\ job[p] # NoJob /\ job[p].stage = "append"
        /\ running' = running /\ memory' = memory /\ call' = call /\ revoked' = revoked
    BY DEF AppendEvent, server, NoJob
  <1>2. /\ job[p] \in Jobs /\ job[p].command \in Commands /\ running[p] # "down"
        /\ memory[p] \in Seq(Commands) /\ log \in Seq(Commands)
    BY <1>1, JobFacts, LogFacts
  <1>3. memory' \in [Processes -> Seq(Commands)]
    BY <1>1 DEF IInv, TypeOK
  <1>4. CASE \E result \in {Result("duplicate", 0), Result("failed", 0)} :
               /\ EndJob(p, result) /\ log' = log
               /\ result.answer = "duplicate" => Duplicate(job[p].command)
    <2>1. PICK result \in {Result("duplicate", 0), Result("failed", 0)} :
            /\ EndJob(p, result) /\ log' = log
            /\ result.answer = "duplicate" => Duplicate(job[p].command)
      BY <1>4
    <2>2. result \in Replies /\ result.answer # "done"
      BY DEF Result, Replies
    <2>3. MemoryIsPrefix'
      BY <1>1, <2>1, PrefixOfMore
    <2> QED BY <1>1, <1>3, <2>1, <2>2, <2>3, EndJobKeepsIInv
  <1>5. CASE /\ Follows(p) /\ log' = Append(log, job[p].command) /\ reply' = reply
             /\ job' = [job EXCEPT ![p].stage = "apply"]
    <2> DEFINE new == [stage |-> "apply", command |-> job[p].command, for |-> job[p].for]
    <2>1. /\ new \in Jobs /\ new = [job[p] EXCEPT !.stage = "apply"]
      BY <1>2 DEF Jobs
    <2>2. /\ job' \in [Processes -> {NoJob} \cup Jobs] /\ job'[p] = new
          /\ \A q \in Processes \ {p} : job'[q] = job[q]
      BY <1>5, <2>1 DEF IInv, TypeOK
    <2>3. log' \in Seq(Commands) /\ Len(log') = Len(log) + 1 /\ log'[Len(log) + 1] = job[p].command
      BY <1>2, <1>5, AppendFacts
    <2>4. Len(memory[p]) = Len(log)
      BY <1>2, <1>5 DEF Follows
    <2>5. TypeOK'
      BY <1>1, <1>5, <2>2, <2>3 DEF IInv, TypeOK
    <2>6. MemoryIsPrefix'
      BY <1>1, <1>2, <1>5, PrefixOfMore
    <2>7. AnswersAreTrue'
      <3>1. ASSUME NEW h \in Handlers
            PROVE  /\ reply[h].answer = "done" =>
                        reply[h].version \in DOMAIN log' /\ log'[reply[h].version] = call[h].operation
                   /\ reply[h].answer = "duplicate" =>
                        \E n \in DOMAIN log' : log'[n].id = call[h].operation.id
        <4>1. log' = Append(log, job[p].command) /\ DOMAIN log' = 1..Len(log')
          BY <1>5, <2>3
        <4>2. ASSUME reply[h].answer = "done"
              PROVE  reply[h].version \in DOMAIN log' /\ log'[reply[h].version] = call[h].operation
          <5>1. reply[h].version \in 1..Len(log) /\ log[reply[h].version] = call[h].operation
            BY <4>2, ReplyFacts
          <5> QED BY <1>2, <4>1, <5>1, LogGrows
        <4>3. ASSUME reply[h].answer = "duplicate"
              PROVE  \E n \in DOMAIN log' : log'[n].id = call[h].operation.id
          BY <1>2, <4>1, <4>3, ReplyFacts, LogGrows
        <4> QED BY <4>2, <4>3
      <3> QED BY <1>1, <1>5, <3>1 DEF AnswersAreTrue, Duplicate
    <2>8. JobsInv'
      <3>1. ASSUME NEW q \in Processes, job'[q] # NoJob
            PROVE  /\ running'[q] # "down"
                   /\ job'[q].for # Nil => /\ At[job'[q].for] = q /\ reply'[job'[q].for] = NoReply
                                          /\ call'[job'[q].for] = [stage |-> "waiting", operation |-> job'[q].command]
                   /\ job'[q].stage = "append" => Append(memory'[q], job'[q].command) \in Games
                   /\ job'[q].stage = "apply" => /\ Len(memory'[q]) < Len(log')
                                                /\ log'[Len(memory'[q]) + 1] = job'[q].command
        <4>1. CASE q = p
          <5>1. job'[q].stage = "apply" => /\ Len(memory'[q]) < Len(log')
                                          /\ log'[Len(memory'[q]) + 1] = job'[q].command
            BY <1>1, <1>2, <2>2, <2>3, <2>4, <4>1
          <5>2. /\ job'[q].stage = "apply" /\ job'[q].command = job[p].command
                /\ job'[q].for = job[p].for /\ running'[q] = running[p]
            BY <1>1, <2>2, <4>1
          <5>3. job[p].for # Nil => /\ At[job[p].for] = p /\ reply'[job[p].for] = NoReply
                                   /\ call'[job[p].for] = [stage |-> "waiting", operation |-> job[p].command]
            BY <1>1, <1>5, JobFacts
          <5> QED BY <1>2, <4>1, <5>1, <5>2, <5>3
        <4>2. CASE q # p
          <5>1. job'[q] = job[q] /\ log' = Append(log, job[p].command)
            BY <1>5, <2>2, <4>2
          <5>2. ASSUME job[q].stage = "apply"
                PROVE  /\ Len(memory[q]) < Len(log')
                       /\ log'[Len(memory[q]) + 1] = job[q].command
            <6>1. /\ Len(memory[q]) < Len(log) /\ log[Len(memory[q]) + 1] = job[q].command
                  /\ Len(memory[q]) \in Nat /\ Len(log) \in Nat
              BY <3>1, <5>1, <5>2, JobFacts, LogFacts
            <6> QED BY <1>2, <5>1, <6>1, AppendFacts
          <5> QED BY <1>1, <1>5, <3>1, <5>1, <5>2, JobFacts
        <4> QED BY <4>1, <4>2
      <3> QED BY <3>1 DEF JobsInv
    <2> QED BY <2>5, <2>6, <2>7, <2>8 DEF IInv
  <1> QED
    <2>1. CASE EndJob(p, Result("duplicate", 0)) /\ Duplicate(job[p].command) /\ log' = log
      BY <1>4, <2>1 DEF Result
    <2>2. CASE EndJob(p, Result("failed", 0)) /\ log' = log
      BY <1>4, <2>2 DEF Result
    <2> QED BY <1>5, <2>1, <2>2 DEF AppendEvent

\* A failure is reported, whether the event is in the log or not.
LEMMA AppendFailsKeepsIInv ==
  ASSUME RuntimeAssumption, IInv, NEW p \in Processes, AppendFails(p)
  PROVE  IInv'
  <1> DEFINE result == Result("failed", 0)
  <1>1. /\ job[p] # NoJob /\ EndJob(p, result)
        /\ running' = running /\ memory' = memory /\ call' = call /\ revoked' = revoked
    BY DEF AppendFails, server, NoJob
  <1>2. log' = log \/ \E command \in Commands : log' = Append(log, command)
    BY <1>1, JobFacts DEF AppendFails
  <1>3. result \in Replies /\ result.answer = "failed"
    BY DEF Result, Replies
  <1>4. memory' \in [Processes -> Seq(Commands)]
    BY <1>1 DEF IInv, TypeOK
  <1>5. MemoryIsPrefix'
    BY <1>1, <1>2, PrefixOfMore
  <1> HIDE DEF result
  <1> QED BY <1>1, <1>2, <1>3, <1>4, <1>5, EndJobKeepsIInv

\* The event applied is the one the log holds next, and its version is its place there.
LEMMA ApplyEventKeepsIInv ==
  ASSUME RuntimeAssumption, IInv, NEW p \in Processes, ApplyEvent(p)
  PROVE  IInv'
  <1> DEFINE result == Result("done", Len(memory[p]) + 1)
  <1>1. /\ job[p] # NoJob /\ job[p].stage = "apply" /\ EndJob(p, result)
        /\ memory' = [memory EXCEPT ![p] = Append(@, job[p].command)]
        /\ log' = log /\ running' = running /\ call' = call /\ revoked' = revoked
    BY DEF ApplyEvent, NoJob
  <1>2. /\ job[p].command \in Commands /\ memory[p] \in Seq(Commands)
        /\ Len(memory[p]) \in Nat /\ Len(log) \in Nat
        /\ Len(memory[p]) < Len(log) /\ log[Len(memory[p]) + 1] = job[p].command
    BY <1>1, JobFacts, LogFacts
  <1>3. result \in Replies /\ result.answer = "done" /\ result.version = Len(memory[p]) + 1
    BY <1>2 DEF Result, Replies
  <1>4. /\ memory' \in [Processes -> Seq(Commands)] /\ memory'[p] = Append(memory[p], job[p].command)
        /\ \A q \in Processes \ {p} : memory'[q] = memory[q]
    BY <1>1, <1>2, AppendFacts DEF IInv, TypeOK
  <1>5. MemoryIsPrefix'
    <2>1. ASSUME NEW q \in Processes
          PROVE  /\ Len(memory'[q]) <= Len(log)
                 /\ \A n \in 1..Len(memory'[q]) : memory'[q][n] = log[n]
      <3>1. CASE q # p
        BY <1>4, <3>1, LogFacts
      <3>2. CASE q = p
        <4>1. /\ Len(memory'[p]) = Len(memory[p]) + 1
              /\ \A n \in 1..Len(memory[p]) : memory'[p][n] = memory[p][n]
              /\ memory'[p][Len(memory[p]) + 1] = job[p].command
          BY <1>2, <1>4, AppendFacts
        <4>2. \A n \in 1..Len(memory[p]) : memory[p][n] = log[n]
          BY LogFacts
        <4> QED BY <1>2, <3>2, <4>1, <4>2
      <3> QED BY <3>1, <3>2
    <2> QED BY <1>1, <2>1 DEF MemoryIsPrefix
  <1>6. result.version \in 1..Len(log') /\ log'[result.version] = job[p].command
    BY <1>1, <1>2, <1>3
  <1> HIDE DEF result
  <1> QED BY <1>1, <1>3, <1>4, <1>5, <1>6, EndJobKeepsIInv

\* A closing process still answers what it has begun.
LEMMA CloseKeepsIInv ==
  ASSUME IInv, NEW p \in Processes, Close(p)
  PROVE  IInv'
  <1>1. /\ running' \in [Processes -> {"up", "closing", "down"}]
        /\ \A q \in Processes : running[q] # "down" => running'[q] # "down"
        /\ UNCHANGED <<log, memory, job, call, reply, revoked>>
    BY DEF Close, IInv, TypeOK
  <1> QED BY <1>1 DEF IInv, TypeOK, MemoryIsPrefix, AnswersAreTrue, JobsInv, Duplicate

\* With a process end its job, its calls and their answers, and no others.
LEMMA EndKeepsIInv ==
  ASSUME RuntimeAssumption, IInv, NEW p \in Processes, End(p)
  PROVE  IInv'
  <1>1. /\ running' \in [Processes -> {"up", "closing", "down"}]
        /\ \A q \in Processes \ {p} : running'[q] = running[q]
        /\ memory' \in [Processes -> Seq(Commands)] /\ memory'[p] = <<>>
        /\ \A q \in Processes \ {p} : memory'[q] = memory[q]
        /\ job' \in [Processes -> {NoJob} \cup Jobs] /\ job'[p] = NoJob
        /\ \A q \in Processes \ {p} : job'[q] = job[q]
        /\ log' = log /\ revoked' = revoked
    BY DEF End, IInv, TypeOK
  <1>2. /\ call' \in [Handlers -> {Idle} \cup Calls]
        /\ reply' \in [Handlers -> {NoReply} \cup Replies]
        /\ \A h \in Handlers : \/ At[h] = p /\ call'[h] = Idle /\ reply'[h] = NoReply
                               \/ At[h] # p /\ call'[h] = call[h] /\ reply'[h] = reply[h]
    BY DEF End, IInv, TypeOK
  <1>3. TypeOK'
    BY <1>1, <1>2 DEF IInv, TypeOK
  <1>4. MemoryIsPrefix'
    <2>1. ASSUME NEW q \in Processes
          PROVE  /\ Len(memory'[q]) <= Len(log)
                 /\ \A n \in 1..Len(memory'[q]) : memory'[q][n] = log[n]
      <3>1. CASE q = p
        BY <1>1, <3>1, LogFacts
      <3>2. CASE q # p
        BY <1>1, <3>2, LogFacts
      <3> QED BY <3>1, <3>2
    <2> QED BY <1>1, <2>1 DEF MemoryIsPrefix
  <1>5. AnswersAreTrue'
    <2>1. ASSUME NEW h \in Handlers
          PROVE  /\ reply'[h].answer = "done" =>
                      /\ reply'[h].version \in DOMAIN log
                      /\ log[reply'[h].version] = call'[h].operation
                 /\ reply'[h].answer = "duplicate" => \E n \in DOMAIN log : log[n].id = call'[h].operation.id
      <3>1. CASE reply'[h] = NoReply
        BY <3>1 DEF NoReply
      <3>2. CASE reply'[h] = reply[h] /\ call'[h] = call[h]
        BY <3>2 DEF IInv, AnswersAreTrue, Duplicate
      <3> QED BY <1>2, <3>1, <3>2
    <2> QED BY <1>1, <2>1 DEF AnswersAreTrue, Duplicate
  <1>6. JobsInv'
    <2>1. ASSUME NEW q \in Processes, job'[q] # NoJob
          PROVE  /\ running'[q] # "down"
                 /\ job'[q].for # Nil => /\ At[job'[q].for] = q /\ reply'[job'[q].for] = NoReply
                                        /\ call'[job'[q].for] = [stage |-> "waiting", operation |-> job'[q].command]
                 /\ job'[q].stage = "append" => Append(memory'[q], job'[q].command) \in Games
                 /\ job'[q].stage = "apply" => /\ Len(memory'[q]) < Len(log')
                                              /\ log'[Len(memory'[q]) + 1] = job'[q].command
      <3>1. q # p /\ job'[q] = job[q] /\ job[q] # NoJob
        BY <1>1, <2>1
      <3>2. job[q].for # Nil => /\ job[q].for \in Handlers /\ At[job[q].for] = q
                               /\ reply'[job[q].for] = NoReply
                               /\ call'[job[q].for] = [stage |-> "waiting", operation |-> job[q].command]
        BY <1>2, <3>1, JobFacts
      <3> QED BY <1>1, <3>1, <3>2, JobFacts
    <2> QED BY <2>1 DEF JobsInv
  <1> QED BY <1>3, <1>4, <1>5, <1>6 DEF IInv

\* A process starts with the whole log in memory and no work begun.
LEMMA StartKeepsIInv ==
  ASSUME IInv, NEW p \in Processes, Start(p)
  PROVE  IInv'
  <1>1. log \in Seq(Commands)
    BY LogFacts
  <1>2. /\ running[p] = "down"
        /\ running' \in [Processes -> {"up", "closing", "down"}]
        /\ \A q \in Processes \ {p} : running'[q] = running[q]
        /\ memory' \in [Processes -> Seq(Commands)] /\ memory'[p] = log
        /\ \A q \in Processes \ {p} : memory'[q] = memory[q]
        /\ log' = log /\ job' = job /\ call' = call /\ reply' = reply /\ revoked' = revoked
    BY <1>1 DEF Start, IInv, TypeOK
  <1>3. \A q \in Processes : job[q] # NoJob => q # p
    BY <1>2, JobFacts
  <1>4. TypeOK'
    BY <1>2 DEF IInv, TypeOK
  <1>5. MemoryIsPrefix'
    <2>1. ASSUME NEW q \in Processes
          PROVE  /\ Len(memory'[q]) <= Len(log)
                 /\ \A n \in 1..Len(memory'[q]) : memory'[q][n] = log[n]
      <3>1. CASE q = p
        BY <1>1, <1>2, <3>1
      <3>2. CASE q # p
        BY <1>2, <3>2, LogFacts
      <3> QED BY <3>1, <3>2
    <2> QED BY <1>2, <2>1 DEF MemoryIsPrefix
  <1>6. AnswersAreTrue'
    BY <1>2 DEF IInv, AnswersAreTrue, Duplicate
  <1>7. JobsInv'
    BY <1>2, <1>3 DEF IInv, JobsInv
  <1> QED BY <1>4, <1>5, <1>6, <1>7 DEF IInv

-----------------------------------------------------------------------------
(* The theorems *)

\* The server starts with a room and nothing else.
LEMMA InitHasIInv ==
  ASSUME RuntimeAssumption, Init
  PROVE  IInv
  <1>1. <<Created>> \in Seq(Commands) /\ Len(<<Created>>) = 1
    BY DEF RuntimeAssumption
  <1>2. TypeOK
    BY <1>1 DEF Init, TypeOK
  <1>3. MemoryIsPrefix
    BY <1>1 DEF Init, MemoryIsPrefix
  <1>4. AnswersAreTrue
    BY DEF Init, AnswersAreTrue, NoReply
  <1>5. JobsInv
    BY DEF Init, JobsInv
  <1> QED BY <1>2, <1>3, <1>4, <1>5 DEF IInv

\* Every step keeps the invariant.
LEMMA NextKeepsIInv ==
  ASSUME RuntimeAssumption, IInv, [Next]_vars
  PROVE  IInv'
  <1>1. ASSUME NEW h \in Handlers, NEW operation \in Commands \cup {Query}, Submit(h, operation)
        PROVE  IInv'
    BY <1>1, SubmitKeepsIInv DEF Operations
  <1>2. ASSUME NEW h \in Handlers,
               ReceiveReply(h) \/ GiveUp(h) \/ Revoke(h) \/ Reconnect(h) \/ Take(h)
        PROVE  IInv'
    BY <1>2, ReceiveReplyKeepsIInv, GiveUpKeepsIInv, RevocationKeepsIInv, TakeKeepsIInv
  <1>3. ASSUME NEW p \in Processes,
               \/ AppendEvent(p) \/ AppendFails(p) \/ ApplyEvent(p)
               \/ Close(p) \/ Stop(p) \/ Crash(p) \/ Start(p)
        PROVE  IInv'
    <2>1. CASE AppendEvent(p) \/ AppendFails(p) \/ ApplyEvent(p)
      BY <2>1, AppendEventKeepsIInv, AppendFailsKeepsIInv, ApplyEventKeepsIInv
    <2>2. CASE Close(p) \/ Start(p)
      BY <2>2, CloseKeepsIInv, StartKeepsIInv
    <2>3. CASE Stop(p) \/ Crash(p)
      BY <2>3, EndKeepsIInv DEF Stop, Crash
    <2> QED BY <1>3, <2>1, <2>2, <2>3
  <1>4. CASE UNCHANGED vars
    <2>1. UNCHANGED <<log, running, memory, job, call, reply, revoked>>
      BY <1>4 DEF vars
    <2> QED BY <2>1 DEF IInv, TypeOK, MemoryIsPrefix, AnswersAreTrue, JobsInv, Duplicate
  <1> QED BY <1>1, <1>2, <1>3, <1>4 DEF Next

\* The inductive invariant holds throughout, whatever commands, rules, processes and
\* handlers there are.
THEOREM Invariant == Spec => []IInv
  <1>1. Init => IInv
    BY InitHasIInv, RuntimeAssumption
  <1>2. IInv /\ [Next]_vars => IInv'
    BY NextKeepsIInv, RuntimeAssumption
  <1> QED BY <1>1, <1>2, PTL DEF Spec

\* The variables of the runtime keep their types.
THEOREM TypeCorrect == Spec => []TypeOK
  <1>1. IInv => TypeOK
    BY DEF IInv
  <1> QED BY <1>1, Invariant, PTL

\* The aggregate a process holds is a replay of the log, perhaps without its latest
\* events, also when another process writes to the store or a commit was misreported.
THEOREM MemoryReplaysTheLog == Spec => []MemoryIsPrefix
  <1>1. IInv => MemoryIsPrefix
    BY DEF IInv
  <1> QED BY <1>1, Invariant, PTL

\* No handler is told that a command was done, or done before, unless the log says so.
THEOREM AnswersAreTrueOfTheLog == Spec => []AnswersAreTrue
  <1>1. IInv => AnswersAreTrue
    BY DEF IInv
  <1> QED BY <1>1, Invariant, PTL

\* The runtime implements CommandLog: the log only grows, by commands that were legal
\* where they stand, and no command id stands in it twice.
THEOREM KeepsPromises == Spec => Promises
  <1>1. Init => Log!LogInit
    BY DEF Init, Log!LogInit
  <1>2. IInv /\ [Next]_vars => [Log!LogNext]_log
    <2> SUFFICES ASSUME IInv, [Next]_vars
                 PROVE  Log!LogNext \/ log' = log
      OBVIOUS
    <2>1. CASE UNCHANGED vars
      BY <2>1 DEF vars
    <2>2. CASE Next
      <3>1. CASE \E command \in Commands :
                   /\ ~Duplicate(command) /\ Append(log, command) \in Games
                   /\ log' = Append(log, command)
        BY <3>1 DEF Log!LogNext, Log!Record, Log!Fresh, Duplicate
      <3> QED BY <2>2, <3>1, StepOfTheLog, RuntimeAssumption
    <2> QED BY <2>1, <2>2
  <1> QED BY <1>1, <1>2, Invariant, PTL DEF Spec, Promises, Log!LogSpec
=============================================================================
