------------------------------ MODULE Archive ------------------------------
(***************************************************************************)
(* The archive page (internal/server/web_script.go): the list of games,    *)
(* loaded a page at a time from the history API while games go on, the     *)
(* game that is selected, and its replay.  A step is one callback of the   *)
(* browser: an event, a tick of an interval, or what follows an await.     *)
(* The game named in the page's address is an input, any game.             *)
(*                                                                         *)
(* A definition whose name starts with Slip is the next one as a plausible *)
(* mistake would have it; nothing uses it.                                 *)
(***************************************************************************)
EXTENDS Naturals, Sequences, SequencesExt

CONSTANTS
  Games,
  PageSize,   \* games in a page of the list, 30 in the code
  MaxFrames,  \* bound: events of a game
  Loads,      \* bound: calls of loadGames at a time
  Starting,   \* the one start() makes
  Selects,    \* bound: calls of selectGame at a time
  Nil

ASSUME ArchiveAssumption ==
  /\ PageSize \in Nat \ {0} /\ MaxFrames \in Nat \ {0}
  /\ Starting \in Loads /\ Nil \notin Games \cup Selects
  /\ IsFiniteSet(Games)

VARIABLES
  recent,    \* the games in the store, in the order they are listed
  games,     \* the list the page has loaded
  offset,    \* where its next page begins
  hasMore,
  disabled,  \* is the button for more games disabled?
  load,      \* of each call of loadGames: "idle", or what it waits for
  started,   \* has start() come to its end?
  selected,  \* selectedID
  latest,    \* the call of selectGame that loadSequence belongs to, while it lasts
  select,    \* the game each call of selectGame waits for, or Nil
  panel,     \* which of "welcome", "viewer" and "failure" is shown
  frames,    \* the game whose frames are loaded, and how many there are
  frame,     \* frameIndex
  timer,     \* is there an interval to be cleared?
  ticking,   \* how many intervals there are
  moved,     \* history: games with an event since the list was last begun anew
  overlapped \* history: was it begun anew with a page under way, or in vain?

list == <<games, offset, hasMore, disabled, load, started, overlapped>>
choice == <<selected, latest, select, panel>>
playback == <<frames, frame, timer, ticking>>
store == <<recent, moved>>
vars == <<store, list, choice, playback>>

Idle == [stage |-> "idle", offset |-> 0, page |-> <<>>, more |-> FALSE]
Asking(from) == [Idle EXCEPT !.stage = "asking", !.offset = from]

\* start() has begun to load the list.
Init ==
  /\ recent \in UNION {SetToSeqs(some) : some \in SUBSET Games}
  /\ games = <<>> /\ offset = 0 /\ hasMore = FALSE /\ disabled = TRUE /\ started = FALSE
  /\ load = [k \in Loads |-> IF k = Starting THEN Asking(0) ELSE Idle]
  /\ selected = Nil /\ latest = Nil /\ select = [s \in Selects |-> Nil] /\ panel = "welcome"
  /\ frames = [game |-> Nil, count |-> 0] /\ frame = 0 /\ timer = FALSE /\ ticking = 0
  /\ moved = {} /\ overlapped = FALSE

-----------------------------------------------------------------------------
(* Playback *)

StopPlayback == timer' = FALSE /\ ticking' = IF timer THEN ticking - 1 ELSE ticking

AtTheEnd == frame = frames.count - 1

\* The buttons, the slider and the arrow keys stop playback and go to a frame in range;
\* the keys work whatever is shown.
MoveTo(index) ==
  /\ index < frames.count
  /\ StopPlayback
  /\ frame' = index
  /\ UNCHANGED <<store, list, choice, frames>>

\* The play button or the space bar: at the end, it plays again from the start.
TogglePlayback ==
  /\ IF timer
     THEN StopPlayback /\ UNCHANGED frame
     ELSE /\ frames.count >= 2
          /\ timer' = TRUE /\ ticking' = ticking + 1
          /\ frame' = IF AtTheEnd THEN 0 ELSE frame
  /\ UNCHANGED <<store, list, choice, frames>>

SlipChangeSpeed ==
  /\ timer /\ ticking' = ticking + 1
  /\ UNCHANGED <<store, list, choice, frames, frame, timer>>

\* An interval takes the place of the one that runs, unless there is nothing to play.
ChangeSpeed ==
  /\ timer
  /\ IF frames.count < 2
     THEN StopPlayback /\ UNCHANGED frame
     ELSE UNCHANGED <<timer, ticking>> /\ frame' = IF AtTheEnd THEN 0 ELSE frame
  /\ UNCHANGED <<store, list, choice, frames>>

SlipTick ==
  /\ ticking > 0
  /\ frame' = frame + 1
  /\ UNCHANGED <<store, list, choice, frames, timer, ticking>>

Tick ==
  /\ ticking > 0
  /\ IF AtTheEnd THEN StopPlayback /\ UNCHANGED frame
                 ELSE frame' = frame + 1 /\ UNCHANGED <<timer, ticking>>
  /\ UNCHANGED <<store, list, choice, frames>>

-----------------------------------------------------------------------------
(* The selected game *)

SelectGame(s, g) ==
  /\ select[s] = Nil
  /\ StopPlayback
  /\ selected' = g /\ latest' = s
  /\ select' = [select EXCEPT ![s] = g]
  /\ panel' = "welcome"

\* A click on the list, Retry, or an address that names another game.
Choose(s, g) ==
  /\ (g = selected) => (panel = "failure" \/ g \in ToSet(games))
  /\ SelectGame(s, g)
  /\ UNCHANGED <<store, list, frames, frame>>

SlipCurrent(s) == TRUE

\* sequence === loadSequence
Current(s) == s = latest

\* The fetch is answered or fails; a game that was not the last one chosen is dropped.
Chosen(s) ==
  /\ select[s] # Nil
  /\ select' = [select EXCEPT ![s] = Nil]
  /\ latest' = IF Current(s) THEN Nil ELSE latest
  /\ \/ /\ Current(s)
        /\ \E count \in 1..MaxFrames : frames' = [game |-> select[s], count |-> count]
        /\ frame' = 0 /\ panel' = "viewer"
     \/ Current(s) /\ panel' = "failure" /\ UNCHANGED <<frames, frame>>
     \/ ~Current(s) /\ UNCHANGED <<frames, frame, panel>>
  /\ UNCHANGED <<store, list, selected, timer, ticking>>

-----------------------------------------------------------------------------
(* The list *)

\* A game gets an event, or is created with its first.  Its place is by the latest of the times
\* of its events as texts: an event can move it up, if not always to the top.
Play(g) ==
  /\ \/ g \notin ToSet(recent) /\ \E n \in 1..Len(recent) + 1 : recent' = InsertAt(recent, n, g)
     \/ \E n \in DOMAIN recent : \E m \in 1..n :
          recent[n] = g /\ recent' = InsertAt(RemoveAt(recent, n), m, g)
  /\ moved' = moved \cup {g}
  /\ UNCHANGED <<list, choice, playback>>

UnderWay == \E k \in Loads : load[k] # Idle

SlipAnew == games' = <<>> /\ UNCHANGED offset

Anew == games' = <<>> /\ offset' = 0

\* loadGames(true), for the refresh button, up to its await.
Refresh(k) ==
  /\ load[k] = Idle
  /\ Anew
  /\ load' = [load EXCEPT ![k] = Asking(offset')]
  /\ disabled' = TRUE
  /\ moved' = {} /\ overlapped' = UnderWay
  /\ UNCHANGED <<recent, hasMore, started, choice, playback>>

\* loadGames(false), for the button below the list.
LoadMore(k) ==
  /\ load[k] = Idle /\ hasMore /\ ~disabled
  /\ load' = [load EXCEPT ![k] = Asking(offset)]
  /\ disabled' = TRUE
  /\ UNCHANGED <<store, games, offset, hasMore, started, overlapped, choice, playback>>

\* serveHistoryList: RecentGameIDs reads a page of the order as it is now.
ServeList(k) ==
  /\ load[k].stage = "asking"
  /\ LET from == load[k].offset
         to == from + PageSize
     IN  load' = [load EXCEPT ![k] = [stage |-> "answered", offset |-> 0,
                                      page |-> SubSeq(recent, from + 1, IF to < Len(recent) THEN to ELSE Len(recent)),
                                      more |-> Len(recent) > to]]
  /\ UNCHANGED <<store, games, offset, hasMore, disabled, started, overlapped, choice, playback>>

\* After the first page start() selects the game of the address, or the first of the list.
AfterLoad(k) ==
  IF k = Starting /\ ~started
  THEN /\ started' = TRUE
       /\ UNCHANGED <<frames, frame>>
       /\ \/ \E s \in Selects, g \in Games : SelectGame(s, g)
          \/ games' # <<>> /\ \E s \in Selects : SelectGame(s, games'[1])
          \/ games' = <<>> /\ UNCHANGED <<choice, timer, ticking>>
  ELSE UNCHANGED <<started, choice, playback>>

\* The games of the page that are not in the list, in the order of the page.
Unlisted(page) ==
  {new \in SetToSeqs(ToSet(page) \ ToSet(games)) :
     \A m, n \in DOMAIN new : m < n =>
       \E i, j \in DOMAIN page : i < j /\ page[i] = new[m] /\ page[j] = new[n]}

ReceiveList(k) ==
  /\ load[k].stage = "answered"
  /\ \E new \in Unlisted(load[k].page) : games' = games \o new
  /\ offset' = Len(games') /\ hasMore' = load[k].more
  /\ disabled' = FALSE
  /\ load' = [load EXCEPT ![k] = Idle]
  /\ AfterLoad(k)
  /\ UNCHANGED <<store, overlapped>>

LoadFails(k) ==
  /\ load[k].stage = "asking"
  /\ disabled' = FALSE
  /\ load' = [load EXCEPT ![k] = Idle]
  /\ overlapped' = (overlapped \/ games = <<>>)
  /\ UNCHANGED <<games, offset, hasMore>>
  /\ AfterLoad(k)
  /\ UNCHANGED store

-----------------------------------------------------------------------------
Next ==
  \/ \E index \in 0..MaxFrames - 1 : MoveTo(index)
  \/ TogglePlayback \/ ChangeSpeed \/ Tick
  \/ \E s \in Selects, g \in Games : Choose(s, g)
  \/ \E s \in Selects : Chosen(s)
  \/ \E g \in Games : Play(g)
  \/ \E k \in Loads : Refresh(k) \/ LoadMore(k) \/ ServeList(k) \/ ReceiveList(k) \/ LoadFails(k)

Spec == Init /\ [][Next]_vars

-----------------------------------------------------------------------------
(* Properties *)

\* What is shown is the replay of the game that was chosen last, in whatever order the
\* answers came, and playback has a frame to show.
ViewerShowsSelection ==
  panel = "viewer" => frames.game = selected /\ frame < frames.count

\* Never two intervals, of which only one could be stopped.
OnePlayback == ticking = IF timer THEN 1 ELSE 0

\* Once the list says it is complete, every game that has had no event since it was begun
\* is in it, though the pages were cut from an order that changed between them.  Excepted is
\* a list that was begun anew with a page under way, or in vain: the first page failed.
UnchangedGamesAreListed ==
  (~hasMore /\ ~UnderWay /\ ~overlapped) => ToSet(recent) \ moved \subseteq ToSet(games)
=============================================================================
