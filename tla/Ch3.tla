-------------------------------- MODULE Ch3 --------------------------------
(***************************************************************************)
(* Chapter 3 of one save slot: energy that regenerates with the device's   *)
(* clock, stages that unlock one another, repeated ("streamed") stages,    *)
(* rewards for a chapter's stars, and the experience they bring.           *)
(*                                                                         *)
(* A request carries the clock of its dispatch and is served later.  A     *)
(* command takes effect at most once and in sequence order, which          *)
(* RpcSession shows: here only its first execution is a step.  A query     *)
(* has neither a sequence number nor a ledger row, and yet writes.         *)
(* A stage reads the player in one job of the database and settles in a    *)
(* later one.  The device's clock may be set back and forward.             *)
(***************************************************************************)
EXTENDS Naturals, Sequences, FiniteSets, FiniteSetsExt

CONSTANTS
  LastStage,       \* the active stages are 1..LastStage, in their order
  Story,           \* those that are stories
  ChapterOf,       \* stage -> chapter
  Goal,            \* <<chapter, reward number>> -> stars it takes
  Cost,            \* energy for a live stage
  Cap,             \* most energy that regenerates
  ExpGain,         \* experience for a cleared live stage
  Threshold,       \* level -> experience it takes
  CharacterScore,  \* level -> Lily's score
  ProfileScore,    \* profile -> its follower's score
  Loadouts,        \* what a request may play with: music, its bonus, profiles
  GoalScores,      \* stage -> score for each of its three stars
  StarCookies,     \* stars of a result -> cookies (energy) it drops
  RollCookies,     \* cookies the roll may add
  ChapterCookies,  \* cookies a chapter reward may hold
  MaxCookies,      \* bound: cookies one request brings
  MaxCount,        \* bound: repetitions in one streamed request
  MaxTime,         \* bound: device clock
  MaxSeq,          \* bound: commands
  MaxWire          \* bound: requests under way

Stage == 1 .. LastStage

ASSUME Ch3Assumption ==
  /\ LastStage \in Nat \ {0} /\ Story \subseteq Stage
  /\ ChapterOf \in [Stage -> Nat] /\ Goal \in [DOMAIN Goal -> Nat]
  /\ Cost \in Nat /\ Cap \in Nat /\ ExpGain \in Nat
  /\ MaxCount \in 1 .. 5 /\ MaxTime \in Nat /\ MaxSeq \in Nat
  /\ MaxWire \in Nat /\ MaxCookies \in Nat

ASSUME ScoreAssumption ==
  /\ Threshold \in [DOMAIN Threshold -> Nat] /\ CharacterScore \in [DOMAIN Threshold -> Nat]
  /\ IsFiniteSet(DOMAIN Threshold) /\ 1 \in DOMAIN Threshold /\ DOMAIN Threshold \subseteq Nat
  /\ ProfileScore \in [DOMAIN ProfileScore -> Nat] /\ IsFiniteSet(DOMAIN ProfileScore)
  /\ Loadouts \subseteq [music : Nat, bonus : Nat, profiles : Seq(DOMAIN ProfileScore)]
  /\ IsFiniteSet({l.music + l.bonus : l \in Loadouts}) /\ Loadouts # {}
  /\ GoalScores \in [Stage -> [1 .. 3 -> Nat]]
  /\ StarCookies \in [0 .. 3 -> Nat] /\ RollCookies \cup ChapterCookies \subseteq Nat

VARIABLES
  energy,     \* ch3_energy: amount, calculated_at
  unlocked,   \* ch3_stages rows with unlocked = 1
  completed,  \* those with completed = 1
  star,       \* best_star
  claims,     \* ch3_chapter_claims
  exp,        \* affection.experience of the profile 100000
  last,       \* login_sessions.last_request_seq
  time,       \* the device's clock
  issued,     \* commands the client has issued
  wire,       \* requests the client has sent
  spent,      \* history: energy paid for stages
  given,      \* history: cookies granted
  paid,       \* history: how often each chapter reward was paid
  late        \* history: a request has been overtaken by one with a later clock

vars == <<energy, unlocked, completed, star, claims, exp, last, time, issued, wire,
          spent, given, paid, late>>
progress == <<unlocked, completed, star, exp>>

Command ==
  [op : {"stage"}, stage : Stage, count : {1}, reward : {<<0, 0>>}]
    \cup [op : {"stream"}, stage : Stage \ Story, count : 1 .. MaxCount, reward : {<<0, 0>>}]
    \cup [op : {"claim"}, stage : {1}, count : {1}, reward : DOMAIN Goal]
Query == [op |-> "query", stage |-> 1, count |-> 1, reward |-> <<0, 0>>]

(* A new slot: full energy, the first stage unlocked.                      *)
Init ==
  /\ energy = [amount |-> Cap, at |-> 0]
  /\ unlocked = {1} /\ completed = {} /\ star = [s \in Stage |-> 0]
  /\ claims = {} /\ exp = 0 /\ last = 0
  /\ time = 0 /\ issued = 0 /\ wire = {}
  /\ spent = 0 /\ given = 0 /\ paid = [r \in DOMAIN Goal |-> 0] /\ late = FALSE

-----------------------------------------------------------------------------
(* restore_ch3_energy: one point per second, nothing for a clock that went *)
(* back, and the clock is stored either way.                               *)
Elapsed(e, now) == IF now > e.at THEN now - e.at ELSE 0

Capped(n) == IF n > Cap THEN Cap ELSE n

RestoredKeepingClock(e, now) ==   \* mutant of Restored
  [amount |-> Capped(e.amount + Elapsed(e, now)), at |-> e.at]

Restored(e, now) == [amount |-> Capped(e.amount + Elapsed(e, now)), at |-> now]

(* apply_reward_grant, Consume 11: added to what is stored, and the clock  *)
(* is set to now.                                                          *)
CookiesAlone(e, n, now) ==         \* mutant of WithCookies
  IF n = 0 THEN e ELSE [amount |-> Capped(n), at |-> now]

WithCookies(e, n, now) ==
  IF n = 0 THEN e ELSE [amount |-> Capped(e.amount + n), at |-> now]

Fresh(r) == r.seq > last

(* A request is served although the stored energy has a later clock.       *)
Overtaken(r) == r.at < energy.at

(* A commit.  What it overtakes can have no effect any more.               *)
Settled(r) ==
  /\ last' = r.seq /\ late' = (late \/ Overtaken(r))
  /\ wire' = {q \in wire : q.cmd.op = "query" \/ q.seq > r.seq}
  /\ UNCHANGED <<time, issued>>

-----------------------------------------------------------------------------
(* The device's clock goes on, or is set.                                  *)
SetClock(t) ==
  /\ time' = t
  /\ UNCHANGED <<energy, progress, claims, last, issued, wire, spent, given, paid, late>>

(* A request that is lost, or that nobody sends again.                     *)
Lose(r) ==
  /\ wire' = wire \ {r}
  /\ UNCHANGED <<energy, progress, claims, last, time, issued, spent, given, paid, late>>

Send(c) ==
  /\ Cardinality(wire) < MaxWire
  /\ issued < MaxSeq /\ issued' = issued + 1
  /\ wire' = wire \cup {[cmd |-> c, seq |-> issued + 1, at |-> time, read |-> FALSE, seen |-> 0]}
  /\ UNCHANGED <<energy, progress, claims, last, time, spent, given, paid, late>>

SendQuery ==
  /\ Cardinality(wire) < MaxWire
  /\ wire' = wire \cup {[cmd |-> Query, seq |-> 0, at |-> time, read |-> FALSE, seen |-> 0]}
  /\ UNCHANGED <<energy, progress, claims, last, time, issued, spent, given, paid, late>>

(* getChThird: ch3_snapshot_at restores the energy and stores it.          *)
GetChThird(r) ==
  /\ r.cmd.op = "query"
  /\ energy' = Restored(energy, r.at) /\ late' = (late \/ Overtaken(r))
  /\ UNCHANGED <<progress, claims, last, time, issued, wire, spent, given, paid>>

(* player_snapshot: what a stage is judged by, Lily's experience or, for a *)
(* streamed stage, the best result so far.  Without one it is refused.     *)
ReadPlayer(r) ==
  LET s == r.cmd.stage IN
  /\ r.cmd.op \in {"stage", "stream"}
  /\ r.cmd.op = "stream" => s \in completed /\ star[s] > 0
  /\ wire' = (wire \ {r}) \cup
       {[r EXCEPT !.read = TRUE, !.seen = IF r.cmd.op = "stream" THEN star[s] ELSE exp]}
  /\ UNCHANGED <<energy, progress, claims, last, time, issued, spent, given, paid, late>>

(* settle_ch3_stage; `n' stars is the score's verdict on the loadout, `k'  *)
(* the cookies among the rewards of this result.                           *)
Clears(s, n) == s \in Story \/ n > 0
Live(s) == s \notin Story

UnlocksAlways(s, n) == IF s < LastStage THEN {s + 1} ELSE {}   \* mutant of Unlocks
Unlocks(s, n) == IF Clears(s, n) /\ s < LastStage THEN {s + 1} ELSE {}

LatestStar(old, n) == n            \* mutant of BestStar
BestStar(old, n) == Max({old, n})

SettleStage(r, n, k) ==
  LET s == r.cmd.stage
      cost == IF s \in Story THEN 0 ELSE Cost
      restored == Restored(energy, r.at)
  IN
  /\ r.cmd.op = "stage" /\ Fresh(r)
  /\ s \in unlocked
  /\ restored.amount >= cost
  /\ energy' = WithCookies([amount |-> restored.amount - cost, at |-> r.at], k, r.at)
  /\ completed' = IF Clears(s, n) THEN completed \cup {s} ELSE completed
  /\ star' = [star EXCEPT ![s] = BestStar(@, n)]
  /\ unlocked' = unlocked \cup Unlocks(s, n)
  /\ exp' = exp + (IF Clears(s, n) /\ Live(s) THEN ExpGain ELSE 0)
  /\ spent' = spent + cost /\ given' = given + k
  /\ UNCHANGED <<claims, paid>>
  /\ Settled(r)

(* settle_ch3_stream: it asks for a completed stage, not for its stars.    *)
SettleStream(r, k) ==
  LET restored == Restored(energy, r.at)
      cost == Cost * r.cmd.count
  IN
  /\ r.cmd.op = "stream" /\ Fresh(r)
  /\ r.cmd.stage \in completed
  /\ restored.amount >= cost
  /\ energy' = WithCookies([amount |-> restored.amount - cost, at |-> r.at], k, r.at)
  /\ exp' = exp + ExpGain * r.cmd.count
  /\ spent' = spent + cost /\ given' = given + k
  /\ UNCHANGED <<unlocked, completed, star, claims, paid>>
  /\ Settled(r)

(* claim_ch3_chapter_reward: the reward first, the energy of the elapsed   *)
(* time after it.                                                          *)
Stars(c) == MapThenSumSet(LAMBDA s : star[s], {s \in Stage : ChapterOf[s] = c})

ClaimChapterReward(r, k) ==
  LET w == r.cmd.reward IN
  /\ r.cmd.op = "claim" /\ Fresh(r)
  /\ Stars(w[1]) >= Goal[w]
  /\ w \notin claims
  /\ claims' = claims \cup {w} /\ paid' = [paid EXCEPT ![w] = @ + 1]
  /\ energy' = Restored(WithCookies(energy, k, r.at), r.at)
  /\ given' = given + k
  /\ UNCHANGED <<progress, spent>>
  /\ Settled(r)

-----------------------------------------------------------------------------
(* update_ch3_profile: the last level whose threshold is met.              *)
Level(e) == Max({1} \cup {v \in DOMAIN Threshold : e >= Threshold[v]})

(* calculate_ch3_score: a profile counts once however often it is named.   *)
EveryMention(ps) ==                \* mutant of Followers
  MapThenSumSet(LAMBDA i : ProfileScore[ps[i]], DOMAIN ps)

Followers(ps) == MapThenSumSet(LAMBDA p : ProfileScore[p], {ps[i] : i \in DOMAIN ps})

Score(e, loadout) ==
  LET character == CharacterScore[Level(e)]
      music == (character * (loadout.music + loadout.bonus)) \div 1000
  IN character + music + Followers(loadout.profiles)

(* The goals reached one after the other from the first; none for a story. *)
StarsFor(s, score) ==
  IF s \in Story THEN 0
  ELSE Cardinality({i \in 1 .. 3 : \A j \in 1 .. i : score >= GoalScores[s][j]})

(* ch3_rewards: the row of the stars, and a row of the roll.               *)
Ch3Rewards(n) == {StarCookies[n] + b : b \in RollCookies}

(* chThirdStage: judged by what was read, settled by what is stored.       *)
ChThirdStage(r, loadout, k) ==
  \E n \in 0 .. 3 :
    /\ r.cmd.op = "stage" /\ r.read
    /\ n = StarsFor(r.cmd.stage, Score(r.seen, loadout))
    /\ k \in (IF Clears(r.cmd.stage, n) /\ Live(r.cmd.stage) THEN Ch3Rewards(n) ELSE {0})
    /\ SettleStage(r, n, k)

(* chThirdStreamStage: one roll of rewards for each repetition, all by the *)
(* best result that was read.                                              *)
ChThirdStreamStage(r, k) ==
  /\ r.cmd.op = "stream" /\ r.read
  /\ \E roll \in [1 .. r.cmd.count -> Ch3Rewards(r.seen)] :
       k = MapThenSumSet(LAMBDA i : roll[i], 1 .. r.cmd.count)
  /\ SettleStream(r, k)

(* getChThirdStarReward: one of a chapter's rewards, by its number.        *)
GetChThirdStarReward(r, k) ==
  /\ r.cmd.op = "claim" /\ r.cmd.reward \in DOMAIN Goal /\ k \in ChapterCookies
  /\ ClaimChapterReward(r, k)

Next ==
  \/ SendQuery
  \/ \E t \in 0 .. MaxTime : SetClock(t)
  \/ \E c \in Command : Send(c)
  \/ \E r \in wire :
       \/ Lose(r) \/ ReadPlayer(r) \/ GetChThird(r)
       \/ \E l \in Loadouts, k \in 0 .. MaxCookies : ChThirdStage(r, l, k)
       \/ \E k \in 0 .. MaxCookies : ChThirdStreamStage(r, k)
       \/ \E k \in 0 .. MaxCookies : GetChThirdStarReward(r, k)

Spec == Init /\ [][Next]_vars

-----------------------------------------------------------------------------
(* Every variable has its type; the CHECKs of ch3_energy and ch3_stages.   *)
TypeOK ==
  /\ energy \in [amount : 0 .. Cap, at : 0 .. MaxTime]
  /\ unlocked \subseteq Stage /\ completed \subseteq Stage
  /\ star \in [Stage -> 0 .. 3]
  /\ claims \subseteq DOMAIN Goal /\ exp \in Nat
  /\ last \in 0 .. MaxSeq /\ time \in 0 .. MaxTime /\ issued \in 0 .. MaxSeq
  /\ wire \subseteq [cmd : Command \cup {Query}, seq : 0 .. MaxSeq, at : 0 .. MaxTime,
                    read : BOOLEAN, seen : Nat]
  /\ spent \in Nat /\ given \in Nat /\ paid \in [DOMAIN Goal -> Nat]
  /\ late \in BOOLEAN

(* Energy is never created: what is left and what was paid come from the   *)
(* first fill, one point per second of the clock it is stored with, and    *)
(* cookies (restore_ch3_energy; PROTOCOL.md: "Query handlers do not mutate *)
(* state").                                                                *)
NoSecondTwice == energy.amount + spent <= Cap + energy.at + given

(* This holds in queries as in commands, repeated, lost or reordered, and  *)
(* while the clock is set, as long as no request is served after one with  *)
(* a later clock: that one stores its earlier clock, and the time between  *)
(* the two is credited a second time (restore_ch3_energy).                 *)
EnergyIsEarned == ~ late => NoSecondTwice

(* What the player has now: the stored energy and what has regenerated.    *)
EnergyNow == Capped(energy.amount + Elapsed(energy, time))

(* No step but a clock set back takes energy away except a stage's price:  *)
(* neither a query nor a late request loses what the clock has regenerated *)
(* (README.md: "regeneration is one point per second").  A chapter reward  *)
(* that holds a cookie does: it loses what has regenerated since the       *)
(* energy was stored last, and no more (claim_ch3_chapter_reward through   *)
(* apply_reward_grant).                                                    *)
LossOnlyByCookie ==
  [][\/ time' < time
     \/ EnergyNow' + (spent' - spent) >= EnergyNow
     \/ /\ given' > given /\ claims' # claims
        /\ EnergyNow' >= Capped(energy.amount + (given' - given))]_vars

(* A stage is open only behind a completed one, however the requests are   *)
(* ordered: a failed stage opens nothing (settle_ch3_stage).               *)
StagesInOrder ==
  /\ completed \subseteq unlocked
  /\ \A s \in unlocked : s = 1 \/ s - 1 \in completed
  /\ \A s \in completed : s \in Story \/ star[s] > 0

(* A chapter reward is paid once and only for the stars it takes, which    *)
(* are never lost again: a worse result leaves best_star as it was         *)
(* (claim_ch3_chapter_reward, settle_ch3_stage).                           *)
ChapterRewardsAreEarned ==
  \A w \in DOMAIN Goal :
    /\ paid[w] <= 1
    /\ paid[w] = 1 => w \in claims /\ Stars(w[1]) >= Goal[w]

(* No star is beyond what Lily's level, the best music and every profile   *)
(* once are worth, although the level was read in an earlier job than the  *)
(* one that settles: what is read too early is worth less, never more, and *)
(* naming a profile twice earns nothing (chThirdStage,                     *)
(* calculate_ch3_score).                                                   *)
StarsAreInReach ==
  LET character == CharacterScore[Level(exp)]
      music == Max({l.music + l.bonus : l \in Loadouts})
      everyone == MapThenSumSet(LAMBDA p : ProfileScore[p], DOMAIN ProfileScore)
  IN \A s \in Stage :
       star[s] <= StarsFor(s, character + (character * music) \div 1000 + everyone)

(* Experience comes with energy: every gain was paid for, at the stage's   *)
(* price, repetitions included (settle_ch3_stage, settle_ch3_stream).      *)
ExperienceIsPaid == exp * Cost <= spent * ExpGain
=============================================================================
