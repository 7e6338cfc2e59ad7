------------------------------ MODULE Rollouts ------------------------------
(***************************************************************************)
(* The rollout worker: kuhhandel-rollout answers one request line after    *)
(* another; a rollout plays the games of a range of seeds on several       *)
(* goroutines, which take the indices from an unbuffered channel and leave *)
(* their results in a slice, and combines them in the order of the seeds.  *)
(*                                                                         *)
(* What a game yields is left open but for its seed and whether it failed. *)
(***************************************************************************)
EXTENDS Naturals, Sequences, FiniteSetsExt

CONSTANTS
  Goroutines,  \* what GOMAXPROCS allows
  Nil

Request == [kind : {"shape", "rollout"}, seed : Nat, seeds : Nat]
Played  == [seed : Nat, failed : BOOLEAN]

ASSUME RolloutsAssumption ==
  /\ IsFiniteSet(Goroutines) /\ Goroutines # {}
  /\ Nil \notin Nat /\ Nil \notin Played

VARIABLES
  request,  \* the line on stdin, or Nil: [kind, seed, seeds]
  answer,   \* the line on stdout, or Nil: [error, at, counted]
  batch,    \* the rollout under way, or Nil
  next,     \* the index the main goroutine sends next
  alive,    \* the goroutines that have not ended
  jobs,     \* the index each goroutine plays, or Nil
  results   \* by index; Nil is the zero value

workerVars == <<request, answer, batch, next, alive, jobs, results>>

WorkerInit ==
  /\ request = Nil /\ answer = Nil /\ batch = Nil /\ next = 0
  /\ alive = {} /\ jobs = [g \in Goroutines |-> Nil] /\ results = <<>>

Seeds(r) == r.seed..(r.seed + r.seeds - 1)

Success(counted) == [error |-> "none", at |-> 0, counted |-> counted]
Failure(error, seed) == [error |-> error, at |-> seed, counted |-> <<>>]

\* handle, but for a rollout that is carried out: the shape, and weights that are not
\* those of a model (training may have driven them to infinity).
AnswerAtOnce ==
  /\ batch = Nil /\ request # Nil
  /\ answer' = IF request.kind = "shape" THEN Success(<<>>) ELSE Failure("weights", 0)
  /\ request' = Nil
  /\ UNCHANGED <<batch, next, alive, jobs, results>>

\* As many goroutines as there are seeds, if GOMAXPROCS allows them.
Workers(seeds) ==
  CHOOSE workers \in SUBSET Goroutines : Cardinality(workers) = Min({seeds, Cardinality(Goroutines)})

BeginRollout ==
  /\ batch = Nil /\ request # Nil /\ request.kind # "shape"
  /\ batch' = request /\ request' = Nil /\ next' = 0
  /\ results' = [i \in 0..(request.seeds - 1) |-> Nil]
  /\ alive' = Workers(request.seeds)
  /\ UNCHANGED <<answer, jobs>>

\* The channel has no buffer: sending an index and taking it are one step.
SendIndex(g) ==
  /\ batch # Nil /\ next < batch.seeds /\ g \in alive /\ jobs[g] = Nil
  /\ jobs' = [jobs EXCEPT ![g] = next]
  /\ next' = next + 1
  /\ UNCHANGED <<request, answer, batch, alive, results>>

PlaySeed(g) ==
  /\ jobs[g] # Nil
  /\ \E failed \in BOOLEAN :
       results' = [results EXCEPT ![jobs[g]] = [seed |-> batch.seed + jobs[g], failed |-> failed]]
  /\ jobs' = [jobs EXCEPT ![g] = Nil]
  /\ UNCHANGED <<request, answer, batch, next, alive>>

\* A mistake for the checks to notice: the channel is left open.
SlipChannelClosed == FALSE

ChannelClosed == next = batch.seeds

GoroutineEnds(g) ==
  /\ batch # Nil /\ ChannelClosed /\ g \in alive /\ jobs[g] = Nil
  /\ alive' = alive \ {g}
  /\ UNCHANGED <<request, answer, batch, next, jobs, results>>

\* A mistake for the checks to notice: the last games are not waited for.
SlipWaitedFor == ChannelClosed

WaitedFor == ChannelClosed /\ alive = {}

\* combineRollouts: the error of the first seed that failed, or all of them counted; a
\* result nobody wrote would count as no reward.
Failed(i) == results[i] # Nil /\ results[i].failed

FirstFailure ==
  \E i \in DOMAIN results :
    /\ Failed(i) /\ \A j \in 0..(i - 1) : ~Failed(j)
    /\ answer' = Failure("seed", results[i].seed)

AllCounted ==
  /\ \A i \in DOMAIN results : ~Failed(i)
  /\ answer' = Success([i \in 1..batch.seeds |->
                          IF results[i - 1] = Nil THEN Nil ELSE results[i - 1].seed])

Combine ==
  /\ batch # Nil /\ WaitedFor
  /\ FirstFailure \/ AllCounted
  /\ batch' = Nil
  /\ UNCHANGED <<request, next, alive, jobs, results>>

\* The process dies over a request: its reader finds the end of stdout.
WorkerStops ==
  /\ request # Nil \/ batch # Nil
  /\ answer' = Failure("stopped", 0)
  /\ request' = Nil /\ batch' = Nil /\ alive' = {} /\ jobs' = [g \in Goroutines |-> Nil]
  /\ UNCHANGED <<next, results>>

WorkerNext ==
  \/ AnswerAtOnce \/ BeginRollout \/ Combine \/ WorkerStops
  \/ \E g \in Goroutines : SendIndex(g) \/ PlaySeed(g) \/ GoroutineEnds(g)

\* The Go scheduler runs every goroutine that can run.
WorkerFairness ==
  /\ WF_workerVars(AnswerAtOnce \/ BeginRollout \/ Combine)
  /\ \A g \in Goroutines : WF_workerVars(SendIndex(g) \/ PlaySeed(g) \/ GoroutineEnds(g))
=============================================================================
