--------------------------- MODULE ArchiveProofs ---------------------------
(***************************************************************************)
(* Whatever is listed and however the answers overtake each other: one     *)
(* interval at most, the replay that is shown is the one selected, and the *)
(* list misses no game that rested while it was loaded.                    *)
(***************************************************************************)
EXTENDS Archive, FiniteSetTheorems, TLAPS

USE ArchiveAssumption

-----------------------------------------------------------------------------
(* The inductive invariant *)

\* A frame is shown only of a replay that has it, and only then does anything play.
PlaybackInv ==
  /\ frames.count \in Nat /\ frame \in Nat /\ ticking \in Nat
  /\ frames.count > 0 => frame < frames.count
  /\ timer => frames.count > 0

\* The call that loadSequence belongs to waits for the selected game.
SelectInv ==
  /\ DOMAIN select = Selects
  /\ latest \in Selects \cup {Nil}
  /\ latest # Nil => select[latest] = selected
  /\ panel = "viewer" => frames.count > 0 /\ frames.game = selected

IInv == PlaybackInv /\ OnePlayback /\ SelectInv

LEMMA Initially == Init => IInv
<1> SUFFICES ASSUME Init PROVE IInv OBVIOUS
<1>1. ~timer /\ ticking = 0 BY Zenon DEF Init
<1>2. frames = [game |-> Nil, count |-> 0] /\ frame = 0 BY DEF Init
<1>3. SelectInv BY Zenon DEF Init, SelectInv
<1> QED BY <1>1, <1>2, <1>3 DEF IInv, PlaybackInv, OnePlayback

\* Stopping leaves no interval behind.
LEMMA Stopping ==
  ASSUME OnePlayback, StopPlayback
  PROVE  ~timer' /\ ticking' = 0
<1>1. ~timer' BY Zenon DEF StopPlayback
<1>2. ticking' = IF timer THEN ticking - 1 ELSE ticking BY Zenon DEF StopPlayback
<1> QED BY <1>1, <1>2 DEF OnePlayback

\* A selection keeps the invariant as long as the frames stay.
LEMMA SelectKeeps ==
  ASSUME IInv, NEW s \in Selects, NEW g, SelectGame(s, g), UNCHANGED <<frames, frame>>
  PROVE  IInv'
BY Stopping DEF IInv, PlaybackInv, OnePlayback, SelectInv, SelectGame

\* So does what start() does when its page has come or failed.
LEMMA AfterLoadKeeps ==
  ASSUME IInv, NEW k \in Loads, AfterLoad(k)
  PROVE  IInv'
<1>1. CASE UNCHANGED <<choice, playback>>
  BY <1>1 DEF choice, playback, IInv, PlaybackInv, OnePlayback, SelectInv
<1>2. CASE UNCHANGED <<frames, frame>> /\ \E s \in Selects, g \in Games : SelectGame(s, g)
  BY <1>2, SelectKeeps
<1>3. CASE UNCHANGED <<frames, frame>> /\ \E s \in Selects : SelectGame(s, games'[1])
  BY <1>3, SelectKeeps
<1>4. CASE UNCHANGED <<frames, frame, choice, timer, ticking>>
  BY <1>4, <1>1 DEF playback
<1> QED BY <1>1, <1>2, <1>3, <1>4 DEF AfterLoad

LEMMA StepKeeps == IInv /\ [Next]_vars => IInv'
<1> SUFFICES ASSUME IInv, [Next]_vars PROVE IInv' OBVIOUS
<1> USE DEF IInv, PlaybackInv, OnePlayback, SelectInv
<1>1. ASSUME NEW index \in 0..MaxFrames - 1, MoveTo(index) PROVE IInv'
  BY <1>1, Stopping DEF MoveTo, choice
<1>2. CASE TogglePlayback
  <2>1. UNCHANGED <<choice, frames>> BY <1>2 DEF TogglePlayback
  <2>2. CASE StopPlayback /\ UNCHANGED frame
    BY <2>1, <2>2, Stopping DEF choice
  <2>3. CASE /\ ~timer /\ frames.count >= 2
             /\ timer' = TRUE /\ ticking' = ticking + 1
             /\ frame' = IF AtTheEnd THEN 0 ELSE frame
    <3>1. timer' BY <2>3, Zenon
    <3> HIDE DEF IInv, PlaybackInv, OnePlayback, SelectInv
    <3>2. /\ ~timer /\ frames.count >= 2 /\ ticking' = ticking + 1
          /\ frame' = IF AtTheEnd THEN 0 ELSE frame
      BY <2>3
    <3>3. PlaybackInv' /\ OnePlayback'
      BY <2>1, <3>1, <3>2 DEF IInv, PlaybackInv, OnePlayback
    <3>4. SelectInv' BY <2>1 DEF IInv, SelectInv, choice
    <3> QED BY <3>3, <3>4 DEF IInv
  <2> QED BY <1>2, <2>2, <2>3 DEF TogglePlayback
<1>3. CASE ChangeSpeed
  <2>1. UNCHANGED <<choice, frames>> BY <1>3 DEF ChangeSpeed
  <2>2. CASE StopPlayback /\ UNCHANGED frame
    BY <2>1, <2>2, Stopping DEF choice
  <2>3. CASE UNCHANGED <<timer, ticking>> /\ frame' = IF AtTheEnd THEN 0 ELSE frame
    BY <2>1, <2>3 DEF choice, AtTheEnd
  <2> QED BY <1>3, <2>2, <2>3 DEF ChangeSpeed
<1>4. CASE Tick
  BY <1>4, Stopping DEF Tick, AtTheEnd, choice
<1>5. ASSUME NEW s \in Selects, NEW g \in Games, Choose(s, g) PROVE IInv'
  BY <1>5, SelectKeeps DEF Choose
<1>6. ASSUME NEW s \in Selects, Chosen(s) PROVE IInv'
  <2>1. CASE \E count \in 1..MaxFrames :
               /\ Current(s) /\ frames' = [game |-> select[s], count |-> count]
               /\ frame' = 0 /\ panel' = "viewer"
    BY <1>6, <2>1 DEF Chosen, Current
  <2>2. CASE ~(Current(s) /\ panel' = "viewer") /\ UNCHANGED <<frames, frame>>
    BY <1>6, <2>2 DEF Chosen, Current
  <2> QED BY <1>6, <2>1, <2>2 DEF Chosen
<1>7. CASE UNCHANGED <<choice, playback>>
  BY <1>7 DEF choice, playback
<1>8. ASSUME NEW k \in Loads, ReceiveList(k) \/ LoadFails(k) PROVE IInv'
  BY <1>8, AfterLoadKeeps DEF ReceiveList, LoadFails
<1>9. ASSUME NEW k \in Loads, Refresh(k) \/ LoadMore(k) \/ ServeList(k) PROVE IInv'
  BY <1>9, <1>7 DEF Refresh, LoadMore, ServeList
<1>10. ASSUME NEW g \in Games, Play(g) PROVE IInv'
  BY <1>10, <1>7 DEF Play
<1>11. CASE UNCHANGED vars BY <1>11, <1>7 DEF vars
<1> QED
  BY <1>1, <1>2, <1>3, <1>4, <1>5, <1>6, <1>8, <1>9, <1>10, <1>11 DEF Next

\* IInv holds in every state the page can reach.
THEOREM Invariant == Spec => []IInv
BY Initially, StepKeeps, PTL DEF Spec

-----------------------------------------------------------------------------
(* What follows *)

\* There is never an interval that no button could stop, whatever is pressed or answered
\* while another game loads.
THEOREM OneInterval == Spec => []OnePlayback
<1>1. IInv => OnePlayback BY DEF IInv
<1> QED BY <1>1, Invariant, PTL

\* The replay that is shown is that of the selected game and has the frame that is shown,
\* with any number of selections in flight.
THEOREM TheSelectedGameIsShown == Spec => []ViewerShowsSelection
<1>1. IInv => ViewerShowsSelection
  BY DEF IInv, PlaybackInv, SelectInv, ViewerShowsSelection
<1> QED BY <1>1, Invariant, PTL

-----------------------------------------------------------------------------
(* The list                                                                *)
(*                                                                         *)
(* What has been fetched since the list was begun anew stands in recent    *)
(* ahead of every game that rested and was not fetched: so there are as    *)
(* many games ahead of it as the offset says, and no page begins after it. *)

ListType ==
  /\ recent \in Seq(Games)
  /\ games \in Seq(Games) /\ IsInjective(games)
  /\ DOMAIN load = Loads /\ offset \in Nat
  /\ \A k \in Loads : load[k].page \in Seq(Games) /\ load[k].offset \in Nat

OneLoad ==
  /\ offset = Len(games)
  /\ UnderWay => disabled
  /\ \A j, k \in Loads : load[j] # Idle /\ load[k] # Idle => j = k
  /\ \A k \in Loads : load[k].stage = "asking" => load[k].offset = Len(games) /\ load[k].page = <<>>

Fetched == ToSet(games) \cup UNION {ToSet(load[k].page) : k \in Loads}

FetchedIsAhead ==
  \A n \in DOMAIN recent :
    recent[n] \notin moved \cup Fetched => \A g \in Fetched : \E m \in 1..n - 1 : recent[m] = g

NothingIsLeft == ToSet(recent) \subseteq moved \cup Fetched

EndIsKnown ==
  /\ \A k \in Loads : load[k].stage = "answered" /\ ~load[k].more => NothingIsLeft
  /\ ~hasMore /\ (games # <<>> \/ ~UnderWay) => NothingIsLeft

ListInv == ListType /\ (~overlapped => OneLoad /\ FetchedIsAhead /\ EndIsKnown)

LEMMA CountUp ==
  ASSUME NEW n \in Nat
  PROVE  IsFiniteSet(1..n) /\ Cardinality(1..n) = n
BY FS_Interval

\* An enumeration of a set has each of its games once.
LEMMA Enumeration ==
  ASSUME NEW S \in SUBSET Games, NEW s \in SetToSeqs(S)
  PROVE  s \in Seq(Games) /\ IsInjective(s) /\ ToSet(s) = S
<1> DEFINE D == 1..Cardinality(S)
<1>1. IsFiniteSet(S) /\ Cardinality(S) \in Nat
  BY FS_Subset, FS_CardinalityType
<1>2. s \in [D -> S] /\ \A i, j \in D : i # j => s[i] # s[j]
  BY DEF SetToSeqs
<1>3. s \in Injection(D, S)
  BY <1>2 DEF Injection, IsInjective
<1>4. IsFiniteSet(D) /\ Cardinality(D) = Cardinality(S)
  BY <1>1, CountUp
<1>5. s \in Surjection(D, S)
  BY <1>1, <1>3, <1>4, FS_Injection
<1>6. ToSet(s) = S
  BY <1>2, <1>5 DEF Surjection, ToSet
<1>7. s \in Seq(Games)
  BY <1>1, <1>2
<1> QED BY <1>2, <1>6, <1>7 DEF IsInjective

\* Games that all stand ahead of the n-th are fewer than n.
LEMMA FewerAhead ==
  ASSUME NEW s \in Seq(Games), IsInjective(s), NEW r, NEW n \in Nat \ {0},
         \A g \in ToSet(s) : \E m \in 1..n - 1 : r[m] = g
  PROVE  Len(s) < n
<1> DEFINE D == 1..Len(s)
           T == 1..n - 1
           f == [i \in D |-> CHOOSE m \in T : r[m] = s[i]]
<1>1. \A i \in D : \E m \in T : r[m] = s[i]
  BY DEF ToSet
<1>2. \A i \in D : f[i] \in T /\ r[f[i]] = s[i]
  BY <1>1
<1>3. f \in Injection(D, T)
  <2>1. f \in [D -> T] BY <1>2
  <2>2. DOMAIN f = D /\ DOMAIN s = D OBVIOUS
  <2> HIDE DEF f, D, T
  <2> QED BY <1>2, <2>1, <2>2 DEF Injection, IsInjective
<1>4. Len(s) \in Nat /\ n - 1 \in Nat OBVIOUS
<1>5. IsFiniteSet(T) /\ Cardinality(T) = n - 1 /\ Cardinality(D) = Len(s)
  BY <1>4, CountUp, Zenon
<1> HIDE DEF f, D, T
<1>6. Cardinality(D) <= Cardinality(T)
  BY <1>3, <1>5, FS_Injection
<1> QED BY <1>4, <1>5, <1>6

\* What stands where when g is put into the n-th place.
LEMMA Inserting ==
  ASSUME NEW s, NEW g, NEW n, NEW r, s \in Seq(Games), g \in Games, n \in 1..Len(s) + 1, r = InsertAt(s, n, g)
  PROVE  /\ r \in Seq(Games) /\ Len(r) = Len(s) + 1 /\ r[n] = g
         /\ \A i \in 1..Len(s) + 1 : i < n => r[i] = s[i]
         /\ \A i \in 1..Len(s) + 1 : i > n => r[i] = s[i - 1]
<1> DEFINE front == SubSeq(s, 1, n - 1)
           back == SubSeq(s, n, Len(s))
<1>1. n \in 1..Len(s) + 1 /\ Len(s) \in Nat OBVIOUS
<1>2. /\ front \in Seq(Games) /\ Len(front) = n - 1
      /\ \A i \in 1..n - 1 : front[i] = s[i]
  BY <1>1
<1>3. /\ back \in Seq(Games) /\ Len(back) = Len(s) + 1 - n
      /\ \A i \in 1..Len(s) + 1 - n : back[i] = s[i + n - 1]
  BY <1>1
<1>4. r = (front \o <<g>>) \o back BY DEF InsertAt
<1> HIDE DEF front, back
<1> DEFINE most == front \o <<g>>
<1>5. /\ most \in Seq(Games) /\ Len(most) = n /\ most[n] = g
      /\ \A i \in 1..n - 1 : most[i] = s[i]
  BY <1>1, <1>2
<1>6. r = most \o back BY <1>4
<1> HIDE DEF most
<1>7. /\ r \in Seq(Games) /\ Len(r) = Len(most) + Len(back)
      /\ \A i \in 1..Len(most) : r[i] = most[i]
      /\ \A i \in 1..Len(back) : r[i + Len(most)] = back[i]
  BY <1>3, <1>5, <1>6
<1>8. ASSUME NEW i \in 1..Len(s) + 1, i > n PROVE r[i] = s[i - 1]
  <2>1. i - n \in 1..Len(back) /\ (i - n) + Len(most) = i /\ (i - n) + n - 1 = i - 1 BY <1>1, <1>3, <1>5, <1>8
  <2>2. back[i - n] = s[(i - n) + n - 1] BY <1>1, <1>3, <2>1
  <2>3. r[(i - n) + Len(most)] = back[i - n] BY <1>7, <2>1
  <2> QED BY <2>1, <2>2, <2>3
<1>9. Len(r) = Len(s) + 1 BY <1>1, <1>3, <1>5, <1>7
<1>10. \A i \in 1..n : r[i] = most[i] BY <1>5, <1>7
<1> QED BY <1>1, <1>5, <1>7, <1>8, <1>9, <1>10

LEMMA Removing ==
  ASSUME NEW s \in Seq(Games), NEW k \in 1..Len(s), NEW r, r = RemoveAt(s, k)
  PROVE  /\ r \in Seq(Games) /\ Len(r) = Len(s) - 1
         /\ \A i \in 1..Len(s) - 1 : r[i] = IF i < k THEN s[i] ELSE s[i + 1]
<1> DEFINE front == SubSeq(s, 1, k - 1)
           back == SubSeq(s, k + 1, Len(s))
<1>1. k \in 1..Len(s) /\ Len(s) \in Nat OBVIOUS
<1>2. /\ front \in Seq(Games) /\ Len(front) = k - 1
      /\ \A i \in 1..k - 1 : front[i] = s[i]
  BY <1>1
<1>3. /\ back \in Seq(Games) /\ Len(back) = Len(s) - k
      /\ \A i \in 1..Len(s) - k : back[i] = s[i + k]
  BY <1>1
<1>4. r = front \o back BY DEF RemoveAt
<1> HIDE DEF front, back
<1>5. /\ r \in Seq(Games) /\ Len(r) = Len(front) + Len(back)
      /\ \A i \in 1..Len(front) : r[i] = front[i]
      /\ \A i \in 1..Len(back) : r[i + Len(front)] = back[i]
  BY <1>2, <1>3, <1>4
<1>6. ASSUME NEW i \in 1..Len(s) - 1 PROVE r[i] = IF i < k THEN s[i] ELSE s[i + 1]
  <2>1. CASE i < k
    <3>1. i \in 1..Len(front) /\ i \in 1..k - 1 BY <1>1, <1>2, <2>1
    <3> QED BY <1>2, <1>5, <2>1, <3>1
  <2>2. CASE ~(i < k)
    <3>1. i - (k - 1) \in 1..Len(back) /\ (i - (k - 1)) + Len(front) = i /\ (i - (k - 1)) + k = i + 1
      BY <1>1, <1>2, <1>3, <2>2
    <3>2. back[i - (k - 1)] = s[(i - (k - 1)) + k] BY <1>1, <1>3, <3>1
    <3>3. r[(i - (k - 1)) + Len(front)] = back[i - (k - 1)] BY <1>5, <3>1
    <3> QED BY <2>2, <3>1, <3>2, <3>3
  <2> QED BY <2>1, <2>2
<1>7. Len(r) = Len(s) - 1 BY <1>1, <1>2, <1>3, <1>5
<1> QED BY <1>5, <1>6, <1>7

\* A game that is played does not move down, and the others keep their order.
LEMMA Moving ==
  ASSUME ListType, NEW g \in Games, Play(g)
  PROVE  /\ recent' \in Seq(Games)
         /\ \A n \in DOMAIN recent' : recent'[n] # g =>
              \E m \in DOMAIN recent :
                /\ recent[m] = recent'[n]
                /\ \A i \in 1..m - 1 : \E j \in 1..n - 1 : recent'[j] = recent[i]
<1>1. recent \in Seq(Games) /\ Len(recent) \in Nat /\ DOMAIN recent = 1..Len(recent)
  BY DEF ListType
<1>2. ASSUME NEW m \in 1..Len(recent) + 1, recent' = InsertAt(recent, m, g)
      PROVE  /\ recent' \in Seq(Games)
             /\ \A n \in DOMAIN recent' : recent'[n] # g =>
                  \E old \in DOMAIN recent :
                    /\ recent[old] = recent'[n]
                    /\ \A i \in 1..old - 1 : \E j \in 1..n - 1 : recent'[j] = recent[i]
  <2>1. m \in 1..Len(recent) + 1 /\ g \in Games /\ recent \in Seq(Games) BY <1>1, <1>2
  <2> DEFINE after == InsertAt(recent, m, g)
  <2>2. /\ after \in Seq(Games) /\ Len(after) = Len(recent) + 1 /\ after[m] = g
        /\ \A i \in 1..Len(recent) + 1 : i < m => after[i] = recent[i]
        /\ \A i \in 1..Len(recent) + 1 : i > m => after[i] = recent[i - 1]
    BY <2>1, Inserting
  <2>3. recent' = after BY <1>2
  <2> HIDE DEF after
  <2>4. /\ recent' \in Seq(Games) /\ Len(recent') = Len(recent) + 1 /\ recent'[m] = g
        /\ \A i \in 1..Len(recent) + 1 : i < m => recent'[i] = recent[i]
        /\ \A i \in 1..Len(recent) + 1 : i > m => recent'[i] = recent[i - 1]
    BY <2>2, <2>3
  <2>5. ASSUME NEW n \in DOMAIN recent', recent'[n] # g
        PROVE  \E old \in DOMAIN recent :
                 /\ recent[old] = recent'[n]
                 /\ \A i \in 1..old - 1 : \E j \in 1..n - 1 : recent'[j] = recent[i]
    <3>1. n \in 1..Len(recent) + 1 /\ n # m BY <2>4, <2>5
    <3>2. CASE n < m
      <4>1. n \in DOMAIN recent /\ recent[n] = recent'[n] BY <1>1, <2>4, <3>1, <3>2
      <4>2. \A i \in 1..n - 1 : recent'[i] = recent[i] BY <1>1, <2>4, <3>1, <3>2
      <4> QED BY <4>1, <4>2
    <3>3. CASE n > m
      <4>1. n - 1 \in DOMAIN recent /\ recent[n - 1] = recent'[n] BY <1>1, <2>4, <3>1, <3>3
      <4>2. ASSUME NEW i \in 1..(n - 1) - 1 PROVE \E j \in 1..n - 1 : recent'[j] = recent[i]
        <5>1. CASE i < m
          <6>1. i \in 1..n - 1 /\ recent'[i] = recent[i] BY <1>1, <2>4, <3>1, <5>1
          <6> QED BY <6>1
        <5>2. CASE ~(i < m)
          <6>1. /\ i + 1 \in 1..n - 1 /\ i + 1 \in 1..Len(recent) + 1 /\ i + 1 > m /\ (i + 1) - 1 = i
            BY <1>1, <3>1, <5>2
          <6>2. recent'[i + 1] = recent[i] BY <2>4, <6>1
          <6> QED BY <6>1, <6>2
        <5> QED BY <5>1, <5>2
      <4> QED BY <4>1, <4>2
    <3> QED BY <1>2, <3>1, <3>2, <3>3
  <2> QED BY <2>4, <2>5
<1>3. ASSUME NEW k \in DOMAIN recent, NEW m \in 1..k, recent[k] = g,
             recent' = InsertAt(RemoveAt(recent, k), m, g)
      PROVE  /\ recent' \in Seq(Games)
             /\ \A n \in DOMAIN recent' : recent'[n] # g =>
                  \E old \in DOMAIN recent :
                    /\ recent[old] = recent'[n]
                    /\ \A i \in 1..old - 1 : \E j \in 1..n - 1 : recent'[j] = recent[i]
  <2> DEFINE rest == RemoveAt(recent, k)
  <2>1. k \in 1..Len(recent) /\ k \in Nat /\ m \in Nat /\ m >= 1 /\ m <= k BY <1>1
  <2>2. /\ rest \in Seq(Games) /\ Len(rest) = Len(recent) - 1
        /\ \A i \in 1..Len(recent) - 1 : rest[i] = IF i < k THEN recent[i] ELSE recent[i + 1]
    BY <1>1, <2>1, Removing
  <2>3. recent' = InsertAt(rest, m, g) BY <1>3
  <2> HIDE DEF rest
  <2>4. m \in 1..Len(rest) + 1 /\ Len(rest) + 1 = Len(recent) BY <1>1, <2>1, <2>2
  <2> DEFINE after == InsertAt(rest, m, g)
  <2>5. /\ after \in Seq(Games) /\ Len(after) = Len(rest) + 1 /\ after[m] = g
        /\ \A i \in 1..Len(rest) + 1 : i < m => after[i] = rest[i]
        /\ \A i \in 1..Len(rest) + 1 : i > m => after[i] = rest[i - 1]
    BY <2>2, <2>4, Inserting
  <2>6. recent' = after BY <2>3
  <2> HIDE DEF after
  <2>7. /\ recent' \in Seq(Games) /\ Len(recent') = Len(recent) /\ recent'[m] = g
        /\ \A i \in 1..Len(recent) : i < m => recent'[i] = rest[i]
        /\ \A i \in 1..Len(recent) : i > m => recent'[i] = rest[i - 1]
    BY <2>4, <2>5, <2>6
  <2>8. ASSUME NEW i \in 1..Len(recent)
        PROVE  /\ i < m => recent'[i] = recent[i]
               /\ i > m /\ i <= k => recent'[i] = recent[i - 1]
               /\ i > k => recent'[i] = recent[i]
    <3>1. CASE i < m
      <4>1. i \in 1..Len(recent) - 1 /\ i < k BY <1>1, <2>1, <3>1
      <4> QED BY <2>1, <2>2, <2>7, <3>1, <4>1
    <3>2. CASE i > m
      <4>1. /\ i - 1 \in 1..Len(recent) - 1 /\ (i - 1) + 1 = i /\ (i - 1 < k <=> i <= k)
        BY <1>1, <2>1, <3>2
      <4>2. recent'[i] = rest[i - 1] BY <2>7, <3>2
      <4>3. rest[i - 1] = IF i - 1 < k THEN recent[i - 1] ELSE recent[(i - 1) + 1] BY <2>2, <4>1
      <4> QED BY <2>1, <3>2, <4>1, <4>2, <4>3
    <3>3. CASE i = m BY <2>1, <3>3
    <3> QED BY <2>1, <3>1, <3>2, <3>3
  <2>9. ASSUME NEW n \in DOMAIN recent', recent'[n] # g
        PROVE  \E old \in DOMAIN recent :
                 /\ recent[old] = recent'[n]
                 /\ \A i \in 1..old - 1 : \E j \in 1..n - 1 : recent'[j] = recent[i]
    <3>1. n \in 1..Len(recent) /\ n # m /\ Len(recent) \in Nat BY <1>1, <2>7, <2>9
    <3>2. CASE n < m
      <4>1. n \in DOMAIN recent /\ recent[n] = recent'[n] BY <1>1, <2>8, <3>1, <3>2
      <4>2. \A i \in 1..n - 1 : i \in 1..Len(recent) /\ i < m BY <2>1, <3>1, <3>2
      <4>3. \A i \in 1..n - 1 : recent'[i] = recent[i] BY <2>8, <4>2
      <4> QED BY <4>1, <4>3
    <3>3. CASE n > m /\ n <= k
      <4>1. n - 1 \in DOMAIN recent /\ recent[n - 1] = recent'[n] BY <1>1, <2>1, <2>8, <3>1, <3>3
      <4>2. ASSUME NEW i \in 1..(n - 1) - 1 PROVE \E j \in 1..n - 1 : recent'[j] = recent[i]
        <5>1. CASE i < m
          <6>1. i \in 1..n - 1 /\ i \in 1..Len(recent) BY <3>1
          <6> QED BY <2>8, <5>1, <6>1
        <5>2. CASE ~(i < m)
          <6>1. /\ i + 1 \in 1..n - 1 /\ i + 1 \in 1..Len(recent) /\ i + 1 > m /\ i + 1 <= k /\ (i + 1) - 1 = i
            BY <2>1, <3>1, <3>3, <5>2
          <6>2. recent'[i + 1] = recent[i] BY <2>8, <6>1
          <6> QED BY <6>1, <6>2
        <5> QED BY <5>1, <5>2
      <4> QED BY <4>1, <4>2
    <3>4. CASE n > k
      <4>1. n \in DOMAIN recent /\ recent[n] = recent'[n] BY <1>1, <2>8, <3>1, <3>4
      <4>2. ASSUME NEW i \in 1..n - 1 PROVE \E j \in 1..n - 1 : recent'[j] = recent[i]
        <5>1. i \in 1..Len(recent) BY <3>1
        <5>2. CASE i < m \/ i > k BY <2>8, <5>1, <5>2
        <5>3. CASE i >= m /\ i < k
          <6>1. /\ i + 1 \in 1..n - 1 /\ i + 1 \in 1..Len(recent) /\ i + 1 > m /\ i + 1 <= k /\ (i + 1) - 1 = i
            BY <2>1, <3>1, <3>4, <5>3
          <6>2. recent'[i + 1] = recent[i] BY <2>8, <6>1
          <6> QED BY <6>1, <6>2
        <5>4. CASE i = k
          <6>1. m \in 1..n - 1 /\ recent'[m] = recent[i] BY <1>3, <2>1, <2>7, <3>1, <3>4, <5>4
          <6> QED BY <6>1
        <5> QED BY <2>1, <5>1, <5>2, <5>3, <5>4
      <4> QED BY <4>1, <4>2
    <3> QED BY <2>1, <3>1, <3>2, <3>3, <3>4
  <2> QED BY <2>7, <2>9
<1>4. \/ \E m \in 1..Len(recent) + 1 : recent' = InsertAt(recent, m, g)
      \/ \E k \in DOMAIN recent : \E m \in 1..k : recent[k] = g /\ recent' = InsertAt(RemoveAt(recent, k), m, g)
  BY DEF Play
<1> QED BY <1>2, <1>3, <1>4

LEMMA ListStays ==
  ASSUME ListInv, UNCHANGED <<store, games, offset, hasMore, disabled, load, overlapped>>
  PROVE  ListInv'
<1>1. UNCHANGED <<recent, moved>> BY DEF store
<1>2. ListType => ListType' BY <1>1 DEF ListType
<1>3. Fetched' = Fetched BY DEF Fetched
<1>4. FetchedIsAhead => FetchedIsAhead' BY <1>1, <1>3 DEF FetchedIsAhead
<1>5. OneLoad => OneLoad' BY DEF OneLoad, UnderWay
<1>6. EndIsKnown => EndIsKnown' BY <1>1, <1>3 DEF EndIsKnown, UnderWay, NothingIsLeft
<1> QED BY <1>2, <1>4, <1>5, <1>6 DEF ListInv

LEMMA PlayKeeps ==
  ASSUME ListInv, NEW g \in Games, Play(g)
  PROVE  ListInv'
<1>1. UNCHANGED <<games, offset, hasMore, disabled, load, overlapped>> /\ moved' = moved \cup {g}
  BY DEF Play, list
<1>2. ListType BY DEF ListInv
<1>3. ListType' BY <1>1, <1>2, Moving DEF ListType
<1>4. Fetched' = Fetched BY <1>1 DEF Fetched
<1>5. FetchedIsAhead => FetchedIsAhead'
  <2> SUFFICES ASSUME FetchedIsAhead, NEW n \in DOMAIN recent', recent'[n] \notin moved' \cup Fetched,
                      NEW h \in Fetched
               PROVE  \E j \in 1..n - 1 : recent'[j] = h
    BY <1>4 DEF FetchedIsAhead
  <2>1. recent'[n] # g BY <1>1
  <2>2. PICK m \in DOMAIN recent :
          /\ recent[m] = recent'[n]
          /\ \A i \in 1..m - 1 : \E j \in 1..n - 1 : recent'[j] = recent[i]
    BY <1>2, <2>1, Moving
  <2>3. \E i \in 1..m - 1 : recent[i] = h BY <1>1, <2>2 DEF FetchedIsAhead
  <2> QED BY <2>2, <2>3
<1>6. NothingIsLeft => NothingIsLeft'
  <2> SUFFICES ASSUME NothingIsLeft, NEW n \in DOMAIN recent', recent'[n] # g
               PROVE  recent'[n] \in moved \cup Fetched
    BY <1>1, <1>4 DEF NothingIsLeft, ToSet
  <2>1. \E m \in DOMAIN recent : recent[m] = recent'[n]
    BY <1>2, Moving
  <2> QED BY <2>1 DEF NothingIsLeft, ToSet
<1>7. EndIsKnown => EndIsKnown' BY <1>1, <1>6 DEF EndIsKnown, UnderWay
<1>8. OneLoad => OneLoad' BY <1>1 DEF OneLoad, UnderWay
<1> QED BY <1>1, <1>3, <1>5, <1>7, <1>8 DEF ListInv

\* What becomes of the call k, and only of it.
LEMMA OneCall ==
  ASSUME ListType, NEW k \in Loads, NEW r, load' = [load EXCEPT ![k] = r],
         r.page \in Seq(Games), r.offset \in Nat
  PROVE  /\ load'[k] = r /\ \A j \in Loads \ {k} : load'[j] = load[j]
         /\ DOMAIN load' = Loads
         /\ \A j \in Loads : load'[j].page \in Seq(Games) /\ load'[j].offset \in Nat
BY DEF ListType

LEMMA Records ==
  /\ Idle.stage = "idle" /\ Idle.page = <<>> /\ Idle.page \in Seq(Games) /\ Idle.offset \in Nat
  /\ \A from : /\ Asking(from).stage = "asking" /\ Asking(from).offset = from
               /\ Asking(from).page = <<>> /\ Asking(from) # Idle
<1>1. Idle.stage = "idle" /\ Idle.page = <<>> /\ Idle.offset = 0 BY DEF Idle
<1>3. Idle.offset \in Nat
  <2>1. 0 \in Nat OBVIOUS
  <2> QED BY <1>1, <2>1, Zenon
<1>2. \A from : /\ Asking(from).stage = "asking" /\ Asking(from).offset = from
                /\ Asking(from).page = <<>>
  BY DEF Asking, Idle
<1> QED BY <1>1, <1>2, <1>3

LEMMA RefreshKeeps ==
  ASSUME ListInv, NEW k \in Loads, Refresh(k)
  PROVE  ListInv'
<1>1. /\ load[k] = Idle /\ games' = <<>> /\ offset' = 0 /\ load' = [load EXCEPT ![k] = Asking(0)]
      /\ disabled' /\ UNCHANGED recent
  BY Zenon DEF Refresh, Anew
<1>2. ~overlapped' => \A j \in Loads : load[j] = Idle
  BY Zenon DEF Refresh, UnderWay
<1>3. ListType BY DEF ListInv
<1>4. /\ load'[k] = Asking(0) /\ \A j \in Loads \ {k} : load'[j] = load[j]
      /\ DOMAIN load' = Loads /\ \A j \in Loads : load'[j].page \in Seq(Games) /\ load'[j].offset \in Nat
  <2>1. Asking(0).page \in Seq(Games) /\ Asking(0).offset \in Nat
    <3>1. Asking(0).page = <<>> /\ Asking(0).offset = 0 BY Records, Zenon
    <3>2. <<>> \in Seq(Games) /\ 0 \in Nat OBVIOUS
    <3> QED BY <3>1, <3>2, Zenon
  <2> QED BY <1>1, <1>3, <2>1, OneCall
<1>5. ListType' BY <1>1, <1>3, <1>4 DEF ListType, IsInjective
<1>6. ASSUME ~overlapped' PROVE OneLoad' /\ FetchedIsAhead' /\ EndIsKnown'
  <2>1. \A j \in Loads : load'[j] = IF j = k THEN Asking(0) ELSE Idle BY <1>2, <1>4, <1>6
  <2>2. OneLoad' BY <1>1, <2>1, Records DEF OneLoad, UnderWay
  <2>3. Fetched' = {} BY <1>1, <2>1, Records DEF Fetched, ToSet
  <2>4. EndIsKnown' BY <1>1, <2>1, Records DEF EndIsKnown, UnderWay
  <2> QED BY <2>2, <2>3, <2>4 DEF FetchedIsAhead
<1> QED BY <1>5, <1>6 DEF ListInv

LEMMA LoadMoreKeeps ==
  ASSUME ListInv, NEW k \in Loads, LoadMore(k)
  PROVE  ListInv'
<1>1. /\ load[k] = Idle /\ hasMore /\ ~disabled /\ load' = [load EXCEPT ![k] = Asking(offset)] /\ disabled'
      /\ UNCHANGED <<recent, moved, games, offset, hasMore, overlapped>>
  BY DEF LoadMore, store
<1>2. ListType BY DEF ListInv
<1>3. /\ load'[k] = Asking(offset) /\ \A j \in Loads \ {k} : load'[j] = load[j]
      /\ DOMAIN load' = Loads /\ \A j \in Loads : load'[j].page \in Seq(Games) /\ load'[j].offset \in Nat
  <2>1. Asking(offset).page \in Seq(Games) /\ Asking(offset).offset \in Nat
    BY <1>2, Records DEF ListType
  <2> QED BY <1>1, <1>2, <2>1, OneCall
<1>4. ListType' BY <1>1, <1>2, <1>3 DEF ListType
<1>5. \A j \in Loads : load'[j].page = load[j].page BY <1>1, <1>3, Records
<1>6. Fetched' = Fetched BY <1>1, <1>5 DEF Fetched
<1>7. FetchedIsAhead => FetchedIsAhead' BY <1>1, <1>6 DEF FetchedIsAhead
<1>8. OneLoad => OneLoad'
  <2> SUFFICES ASSUME OneLoad PROVE OneLoad' OBVIOUS
  <2>1. \A j \in Loads : load[j] = Idle BY <1>1 DEF OneLoad, UnderWay
  <2> QED BY <1>1, <1>3, <2>1, Records DEF OneLoad, UnderWay
<1>9. EndIsKnown => EndIsKnown'
  BY <1>1, <1>3, <1>6, Records DEF EndIsKnown, NothingIsLeft
<1> QED BY <1>1, <1>4, <1>7, <1>8, <1>9 DEF ListInv

LEMMA ServeListKeeps ==
  ASSUME ListInv, NEW k \in Loads, ServeList(k)
  PROVE  ListInv'
<1> DEFINE from == load[k].offset
           last == IF from + PageSize < Len(recent) THEN from + PageSize ELSE Len(recent)
           page == SubSeq(recent, from + 1, last)
           answer == [stage |-> "answered", offset |-> 0, page |-> page, more |-> Len(recent) > from + PageSize]
<1>1. /\ load[k].stage = "asking" /\ load' = [load EXCEPT ![k] = answer]
      /\ UNCHANGED <<recent, moved, games, offset, hasMore, disabled, overlapped>>
  BY DEF ServeList, store
<1>2. ListType BY DEF ListInv
<1>3. recent \in Seq(Games) /\ games \in Seq(Games) /\ from \in Nat BY <1>2 DEF ListType
<1>4. /\ page \in Seq(Games)
      /\ \A i \in DOMAIN page : i + from \in 1..last /\ page[i] = recent[i + from]
      /\ \A n \in DOMAIN recent : n > from /\ n <= from + PageSize => recent[n] = page[n - from] /\ n - from \in DOMAIN page
  <2>1. last \in Nat /\ last <= Len(recent) /\ last <= from + PageSize
    BY <1>3
  <2>2. \A n \in DOMAIN recent : n <= from + PageSize => n <= last
    BY <1>3
  <2> HIDE DEF last, from
  <2>3. /\ page \in Seq(Games)
        /\ Len(page) = IF last <= from THEN 0 ELSE last - from
        /\ \A i \in 1..Len(page) : page[i] = recent[i + from]
    BY <1>3, <2>1
  <2> HIDE DEF page
  <2>4. ASSUME NEW i \in DOMAIN page PROVE i + from \in 1..last /\ page[i] = recent[i + from]
    <3>1. i \in 1..Len(page) BY <2>3
    <3> QED BY <1>3, <2>1, <2>3, <3>1
  <2>5. ASSUME NEW n \in DOMAIN recent, n > from, n <= from + PageSize
        PROVE  recent[n] = page[n - from] /\ n - from \in DOMAIN page
    <3>1. n \in Nat /\ n <= last BY <1>3, <2>2, <2>5
    <3>2. n - from \in 1..Len(page) /\ (n - from) + from = n BY <1>3, <2>1, <2>3, <2>5, <3>1
    <3> QED BY <2>3, <3>2
  <2> QED BY <2>3, <2>4, <2>5
<1> HIDE DEF page
<1>5. answer.page \in Seq(Games) /\ answer.offset \in Nat BY <1>4
<1>6. /\ load'[k] = answer /\ \A j \in Loads \ {k} : load'[j] = load[j]
      /\ DOMAIN load' = Loads /\ \A j \in Loads : load'[j].page \in Seq(Games) /\ load'[j].offset \in Nat
  BY <1>1, <1>2, <1>5, OneCall
<1>7. ListType' BY <1>1, <1>2, <1>6 DEF ListType
<1>8. CASE ~overlapped
  <2>1. OneLoad /\ FetchedIsAhead /\ EndIsKnown BY <1>8 DEF ListInv
  <2>2. from = Len(games) /\ from \in Nat /\ load[k].page = <<>>
    BY <1>1, <1>3, <2>1 DEF OneLoad
  <2>7. load[k] # Idle /\ answer # Idle BY <1>1, Records
  <2>8. OneLoad' BY <1>1, <2>1, <1>6, <2>7 DEF OneLoad, UnderWay
  <2>9. Fetched' = Fetched \cup ToSet(page)
    <3>1. load'[k].page = page /\ \A j \in Loads \ {k} : load'[j].page = load[j].page BY <1>6
    <3>2. ToSet(load[k].page) = {} BY <2>2 DEF ToSet
    <3> HIDE DEF answer
    <3> QED BY <1>1, <3>1, <3>2 DEF Fetched
  <2>10. ASSUME NEW n \in DOMAIN recent, recent[n] \notin moved \cup Fetched, recent[n] \notin ToSet(page)
         PROVE  n > from + PageSize
    <3>1. \A g \in ToSet(games) : \E m \in 1..n - 1 : recent[m] = g
      BY <2>1, <2>10 DEF FetchedIsAhead, Fetched
    <3>2. IsInjective(games) /\ n \in Nat \ {0} BY <1>2, <1>3 DEF ListType
    <3>3. Len(games) < n BY <1>3, <3>1, <3>2, FewerAhead
    <3> QED BY <2>2, <1>4, <2>10, <3>2, <3>3 DEF ToSet
  <2>11. FetchedIsAhead'
    <3> SUFFICES ASSUME NEW n \in DOMAIN recent, recent[n] \notin moved \cup Fetched, recent[n] \notin ToSet(page),
                        NEW g \in Fetched \cup ToSet(page)
                 PROVE  \E m \in 1..n - 1 : recent[m] = g
      BY <1>1, <2>9 DEF FetchedIsAhead
    <3>1. CASE g \in Fetched BY <2>1, <3>1 DEF FetchedIsAhead
    <3>2. CASE g \in ToSet(page)
      <4>1. PICK i \in DOMAIN page : page[i] = g BY <3>2 DEF ToSet
      <4>2. i + from \in 1..last /\ recent[i + from] = g BY <1>4, <4>1
      <4>3. n > from + PageSize BY <2>10
      <4>4. i + from \in 1..n - 1 BY <1>3, <2>2, <4>2, <4>3
      <4> QED BY <4>2, <4>4
    <3> QED BY <3>1, <3>2
  <2>12. ~(Len(recent) > from + PageSize) => NothingIsLeft'
    <3> SUFFICES ASSUME ~(Len(recent) > from + PageSize), NEW n \in DOMAIN recent
                 PROVE  recent[n] \in moved \cup Fetched \cup ToSet(page)
      BY <1>1, <2>9 DEF NothingIsLeft, ToSet
    <3> QED BY <1>3, <2>2, <2>10
  <2>13. NothingIsLeft => NothingIsLeft' BY <1>1, <2>9 DEF NothingIsLeft
  <2>14. EndIsKnown'
    <3>1. ASSUME NEW j \in Loads, load'[j].stage = "answered", ~load'[j].more PROVE NothingIsLeft'
      <4>1. CASE j = k
        <5>1. ~answer.more BY <1>6, <3>1, <4>1
        <5> QED BY <2>12, <5>1
      <4>2. CASE j # k BY <2>1, <1>6, <2>13, <3>1, <4>2 DEF EndIsKnown
      <4> QED BY <4>1, <4>2
    <3>2. ASSUME ~hasMore, games # <<>> \/ ~UnderWay' PROVE NothingIsLeft'
      <4>1. UnderWay' BY <1>6, <2>7 DEF UnderWay
      <4> QED BY <2>1, <2>13, <3>2, <4>1 DEF EndIsKnown
    <3> QED BY <1>1, <3>1, <3>2 DEF EndIsKnown
  <2> QED BY <1>7, <2>8, <2>11, <2>14 DEF ListInv
<1> QED BY <1>1, <1>7, <1>8 DEF ListInv

\* The list with the games of a page that it lacked has each of them once.
LEMMA Appending ==
  ASSUME ListType, NEW page \in Seq(Games), NEW new \in Unlisted(page)
  PROVE  /\ games \o new \in Seq(Games) /\ IsInjective(games \o new)
         /\ ToSet(games \o new) = ToSet(games) \cup ToSet(page)
<1>1. ToSet(page) \ ToSet(games) \in SUBSET Games
  BY DEF ToSet
<1>2. new \in SetToSeqs(ToSet(page) \ ToSet(games)) BY DEF Unlisted
<1>3. new \in Seq(Games) /\ IsInjective(new) /\ ToSet(new) = ToSet(page) \ ToSet(games)
  BY <1>1, <1>2, Enumeration
<1>4. games \in Seq(Games) /\ IsInjective(games) BY DEF ListType
<1> DEFINE both == games \o new
<1>5. /\ both \in Seq(Games) /\ Len(both) = Len(games) + Len(new) /\ Len(games) \in Nat /\ Len(new) \in Nat
      /\ \A i \in 1..Len(games) : both[i] = games[i]
      /\ \A i \in 1..Len(new) : both[i + Len(games)] = new[i]
  BY <1>3, <1>4
<1> HIDE DEF both
<1>6. \A i \in DOMAIN both : \/ i \in DOMAIN games /\ both[i] = games[i]
                             \/ i - Len(games) \in DOMAIN new /\ both[i] = new[i - Len(games)]
  <2>1. ASSUME NEW i \in DOMAIN both, i <= Len(games)
        PROVE  i \in DOMAIN games /\ both[i] = games[i]
    BY <1>4, <1>5, <2>1
  <2>2. ASSUME NEW i \in DOMAIN both, ~(i <= Len(games))
        PROVE  i - Len(games) \in DOMAIN new /\ both[i] = new[i - Len(games)]
    <3>1. i - Len(games) \in 1..Len(new) /\ (i - Len(games)) + Len(games) = i BY <1>5, <2>2
    <3> QED BY <1>3, <1>5, <3>1
  <2> QED BY <2>1, <2>2
<1>7. IsInjective(both)
  <2> SUFFICES ASSUME NEW i \in DOMAIN both, NEW j \in DOMAIN both, both[i] = both[j] PROVE i = j
    BY DEF IsInjective
  <2>1. i \in Nat /\ j \in Nat BY <1>5
  <2>2. CASE i \in DOMAIN games /\ both[i] = games[i]
    <3>1. both[i] \notin ToSet(new) BY <1>3, <2>2 DEF ToSet
    <3>2. j \in DOMAIN games /\ both[j] = games[j] BY <1>6, <3>1 DEF ToSet
    <3> QED BY <1>4, <2>2, <3>2 DEF IsInjective
  <2>3. CASE i - Len(games) \in DOMAIN new /\ both[i] = new[i - Len(games)]
    <3>1. both[i] \notin ToSet(games) BY <1>3, <2>3 DEF ToSet
    <3>2. j - Len(games) \in DOMAIN new /\ both[j] = new[j - Len(games)] BY <1>6, <3>1 DEF ToSet
    <3>3. i - Len(games) = j - Len(games) BY <1>3, <2>3, <3>2 DEF IsInjective
    <3> QED BY <1>5, <2>1, <3>3
  <2> QED BY <1>6, <2>2, <2>3
<1>8. ToSet(both) = ToSet(games) \cup ToSet(new)
  <2>1. ASSUME NEW i \in DOMAIN both PROVE both[i] \in ToSet(games) \cup ToSet(new)
    BY <1>6 DEF ToSet
  <2>2. ASSUME NEW i \in DOMAIN games PROVE games[i] \in ToSet(both)
    <3>1. i \in DOMAIN both /\ both[i] = games[i] BY <1>4, <1>5
    <3> QED BY <3>1 DEF ToSet
  <2>3. ASSUME NEW i \in DOMAIN new PROVE new[i] \in ToSet(both)
    <3>1. i + Len(games) \in DOMAIN both /\ both[i + Len(games)] = new[i] BY <1>3, <1>5
    <3> QED BY <3>1 DEF ToSet
  <2> QED BY <2>1, <2>2, <2>3 DEF ToSet
<1> QED BY <1>3, <1>5, <1>7, <1>8 DEF both

LEMMA ReceiveListKeeps ==
  ASSUME ListInv, NEW k \in Loads, ReceiveList(k)
  PROVE  ListInv'
<1>1. /\ load[k].stage = "answered" /\ load' = [load EXCEPT ![k] = Idle]
      /\ \E new \in Unlisted(load[k].page) : games' = games \o new
      /\ offset' = Len(games') /\ UNCHANGED <<recent, moved, overlapped>>
  BY DEF ReceiveList, store
<1>2. hasMore' = load[k].more BY Zenon DEF ReceiveList
<1>3. ListType BY DEF ListInv
<1>4. load[k].page \in Seq(Games) BY <1>3 DEF ListType
<1>5. /\ games' \in Seq(Games) /\ IsInjective(games')
      /\ ToSet(games') = ToSet(games) \cup ToSet(load[k].page)
  BY <1>1, <1>3, <1>4, Appending
<1>6. /\ load'[k] = Idle /\ \A j \in Loads \ {k} : load'[j] = load[j]
      /\ DOMAIN load' = Loads /\ \A j \in Loads : load'[j].page \in Seq(Games) /\ load'[j].offset \in Nat
  BY <1>1, <1>3, Records, OneCall
<1>7. ListType' BY <1>1, <1>3, <1>5, <1>6 DEF ListType
<1>8. CASE ~overlapped
  <2>1. OneLoad /\ FetchedIsAhead /\ EndIsKnown BY <1>8 DEF ListInv
  <2>2. load[k] # Idle BY <1>1, Records
  <2>3. \A j \in Loads : load'[j] = Idle BY <1>6, <2>1, <2>2 DEF OneLoad
  <2>4. OneLoad' BY <1>1, <2>3, Records DEF OneLoad, UnderWay
  <2>5. Fetched = ToSet(games) \cup ToSet(load[k].page)
    <3>1. \A j \in Loads \ {k} : load[j].page = <<>> BY <1>6, <2>3, Records
    <3>2. ToSet(<<>>) = {} BY DEF ToSet
    <3> QED BY <3>1, <3>2 DEF Fetched
  <2>6. Fetched' = ToSet(games')
    <3>1. \A j \in Loads : load'[j].page = <<>> BY <2>3, Records
    <3>2. ToSet(<<>>) = {} BY DEF ToSet
    <3> QED BY <3>1, <3>2 DEF Fetched
  <2>7. Fetched' = Fetched BY <1>5, <2>5, <2>6
  <2>8. FetchedIsAhead' BY <1>1, <2>1, <2>7 DEF FetchedIsAhead
  <2>9. NothingIsLeft => NothingIsLeft' BY <1>1, <2>7 DEF NothingIsLeft
  <2>10. ~hasMore' => NothingIsLeft BY <1>1, <1>2, <2>1 DEF EndIsKnown
  <2>11. EndIsKnown' BY <2>3, <2>9, <2>10, Records DEF EndIsKnown
  <2> QED BY <1>7, <2>4, <2>8, <2>11 DEF ListInv
<1> QED BY <1>1, <1>7, <1>8 DEF ListInv

LEMMA LoadFailsKeeps ==
  ASSUME ListInv, NEW k \in Loads, LoadFails(k)
  PROVE  ListInv'
<1>1. /\ load[k].stage = "asking" /\ load' = [load EXCEPT ![k] = Idle]
      /\ UNCHANGED <<games, offset, hasMore, recent, moved>>
  BY DEF LoadFails, store
<1>2. ~overlapped' => ~overlapped /\ games # <<>> BY Zenon DEF LoadFails
<1>3. ListType BY DEF ListInv
<1>4. /\ load'[k] = Idle /\ \A j \in Loads \ {k} : load'[j] = load[j]
      /\ DOMAIN load' = Loads /\ \A j \in Loads : load'[j].page \in Seq(Games) /\ load'[j].offset \in Nat
  BY <1>1, <1>3, Records, OneCall
<1>5. ListType' BY <1>1, <1>3, <1>4 DEF ListType
<1>6. CASE ~overlapped /\ games # <<>>
  <2>1. OneLoad /\ FetchedIsAhead /\ EndIsKnown BY <1>6 DEF ListInv
  <2>2. load[k] # Idle BY <1>1, Records
  <2>3. \A j \in Loads : load'[j] = Idle BY <1>4, <2>1, <2>2 DEF OneLoad
  <2>4. OneLoad' BY <1>1, <2>1, <2>3, Records DEF OneLoad, UnderWay
  <2>5. \A j \in Loads : load'[j].page = load[j].page BY <1>1, <1>4, <2>1, Records DEF OneLoad
  <2>6. Fetched' = Fetched BY <1>1, <2>5 DEF Fetched
  <2>7. FetchedIsAhead' BY <1>1, <2>1, <2>6 DEF FetchedIsAhead
  <2>8. EndIsKnown'
    BY <1>1, <1>6, <2>1, <2>3, <2>6, Records DEF EndIsKnown, NothingIsLeft
  <2> QED BY <1>5, <2>4, <2>7, <2>8 DEF ListInv
<1> QED BY <1>2, <1>5, <1>6 DEF ListInv

LEMMA ListStep == ListInv /\ [Next]_vars => ListInv'
<1> SUFFICES ASSUME ListInv, [Next]_vars PROVE ListInv' OBVIOUS
<1>1. ASSUME UNCHANGED <<store, list>> PROVE ListInv'
  BY <1>1, ListStays DEF list
<1>2. ASSUME NEW index \in 0..MaxFrames - 1, MoveTo(index) PROVE ListInv'
  BY <1>1, <1>2 DEF MoveTo
<1>3. CASE TogglePlayback \/ ChangeSpeed \/ Tick
  BY <1>1, <1>3 DEF TogglePlayback, ChangeSpeed, Tick
<1>4. ASSUME NEW s \in Selects, NEW g \in Games, Choose(s, g) PROVE ListInv'
  BY <1>1, <1>4 DEF Choose
<1>5. ASSUME NEW s \in Selects, Chosen(s) PROVE ListInv'
  BY <1>1, <1>5 DEF Chosen
<1>6. ASSUME NEW g \in Games, Play(g) PROVE ListInv'
  BY <1>6, PlayKeeps
<1>7. ASSUME NEW k \in Loads,
             Refresh(k) \/ LoadMore(k) \/ ServeList(k) \/ ReceiveList(k) \/ LoadFails(k)
      PROVE  ListInv'
  BY <1>7, RefreshKeeps, LoadMoreKeeps, ServeListKeeps, ReceiveListKeeps, LoadFailsKeeps
<1>8. CASE UNCHANGED vars BY <1>1, <1>8 DEF vars
<1> QED BY <1>2, <1>3, <1>4, <1>5, <1>6, <1>7, <1>8 DEF Next

LEMMA ListBegins == Init => ListInv
<1> SUFFICES ASSUME Init PROVE ListInv OBVIOUS
<1>1. /\ games = <<>> /\ offset = 0 /\ ~hasMore /\ disabled
      /\ \E some \in SUBSET Games : recent \in SetToSeqs(some)
      /\ load = [k \in Loads |-> IF k = Starting THEN Asking(0) ELSE Idle]
  BY DEF Init
<1>2. recent \in Seq(Games) BY <1>1, Enumeration
<1>3. /\ DOMAIN load = Loads
      /\ \A k \in Loads : load[k] = IF k = Starting THEN Asking(0) ELSE Idle
  BY <1>1
<1>4. Asking(0).offset \in Nat
  <2>1. 0 \in Nat OBVIOUS
  <2>2. Asking(0).offset = 0 BY Records, Zenon
  <2> QED BY <2>1, <2>2, Zenon
<1>5. \A k \in Loads : load[k].page = <<>> /\ load[k].offset \in Nat
  BY <1>3, <1>4, Records
<1>6. ListType
  <2>1. <<>> \in Seq(Games) /\ IsInjective(<<>>) BY DEF IsInjective
  <2>2. games \in Seq(Games) /\ IsInjective(games) BY <1>1, <2>1, Zenon
  <2>3. offset \in Nat BY <1>1
  <2>4. \A k \in Loads : load[k].page \in Seq(Games) /\ load[k].offset \in Nat
    BY <1>5, <2>1, Zenon
  <2> QED BY <1>2, <1>3, <2>2, <2>3, <2>4, Zenon DEF ListType
<1>7. OneLoad BY <1>1, <1>3, Records DEF OneLoad, UnderWay
<1>8. Fetched = {} BY <1>1, <1>5 DEF Fetched, ToSet
<1>9. UnderWay BY <1>3, Records DEF UnderWay
<1>10. EndIsKnown BY <1>1, <1>3, <1>9, Records DEF EndIsKnown
<1> QED BY <1>6, <1>7, <1>8, <1>10 DEF ListInv, FetchedIsAhead

\* However the order changes between the pages, the list that says it is complete has
\* every game that rested, unless it was begun anew with a page under way or in vain.
THEOREM RestingGamesAreListed == Spec => []UnchangedGamesAreListed
<1>1. ListInv => UnchangedGamesAreListed
  <2> SUFFICES ASSUME ListInv, ~hasMore, ~UnderWay, ~overlapped
               PROVE  ToSet(recent) \ moved \subseteq ToSet(games)
    BY DEF UnchangedGamesAreListed
  <2>1. NothingIsLeft BY DEF ListInv, EndIsKnown
  <2>2. \A k \in Loads : load[k].page = <<>> BY Records DEF UnderWay
  <2>3. Fetched = ToSet(games)
    <3>1. ToSet(<<>>) = {} BY DEF ToSet
    <3> QED BY <2>2, <3>1 DEF Fetched
  <2> QED BY <2>1, <2>3 DEF NothingIsLeft
<1> QED BY <1>1, ListBegins, ListStep, PTL DEF Spec
=============================================================================
