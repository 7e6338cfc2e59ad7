----------------------------- MODULE CommandLog -----------------------------
(***************************************************************************)
(* What a game server promises about one game, whatever it is built of:    *)
(* the accepted commands form one history that only grows, every command   *)
(* was legal where it stands in it, and none stands in it twice.           *)
(***************************************************************************)
EXTENDS Naturals, Sequences

CONSTANTS
  Commands,  \* records with a field id, the command id
  Games,     \* the sequences of commands that are legal games
  Created    \* the command that created the room

VARIABLE history  \* the accepted commands in order

Fresh(command) == \A n \in DOMAIN history : history[n].id # command.id

Record(command) ==
  /\ Fresh(command)
  /\ Append(history, command) \in Games
  /\ history' = Append(history, command)

LogInit == history = <<Created>>

LogNext == \E command \in Commands : Record(command)

LogSpec == LogInit /\ [][LogNext]_history
=============================================================================
