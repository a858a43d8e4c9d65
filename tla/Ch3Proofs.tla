----------------------------- MODULE Ch3Proofs -----------------------------
(***************************************************************************)
(* Proofs about Ch3 for every number of stages, every price, cap and gain, *)
(* and every number of requests.                                           *)
(*                                                                         *)
(* Energy is bounded by what its own clock has seen; that clock goes back  *)
(* only when a request is overtaken, whatever the device's clock does.     *)
(* Stars are only gained, so that those a chapter reward took stay         *)
(* (ClaimsAreReached); and what judges a stage was read before, when Lily  *)
(* had no more experience than now (ReadBefore).                           *)
(***************************************************************************)
EXTENDS Ch3, DataLemmas

USE Ch3Assumption

(* A chapter reward is paid when it is marked.                             *)
PaidWhenClaimed == \A w \in DOMAIN Goal : paid[w] = (IF w \in claims THEN 1 ELSE 0)

(* The stars it took are still there.                                      *)
ClaimsAreReached == \A w \in claims : Stars(w[1]) >= Goal[w]

IInv ==
  /\ TypeOK
  /\ EnergyIsEarned
  /\ StagesInOrder
  /\ ExperienceIsPaid
  /\ PaidWhenClaimed
  /\ ClaimsAreReached

Energy == [amount : 0 .. Cap, at : 0 .. MaxTime]

-----------------------------------------------------------------------------
(* The helpers: the cap, regeneration and cookies.                         *)
LEMMA CappedFacts ==
  ASSUME NEW n \in Nat
  PROVE  Capped(n) \in 0 .. Cap /\ Capped(n) <= n /\ (n <= Cap => Capped(n) = n)
         /\ (n > Cap => Capped(n) = Cap)
BY DEF Capped

LEMMA RestoredFacts ==
  ASSUME NEW e \in Energy, NEW now \in 0 .. MaxTime
  PROVE  /\ Restored(e, now) \in Energy
         /\ Restored(e, now).at = now
         /\ Restored(e, now).amount >= e.amount
         /\ now >= e.at => Restored(e, now).amount <= e.amount + (now - e.at)
         /\ now >= e.at => \/ Restored(e, now).amount = e.amount + (now - e.at)
                           \/ Restored(e, now).amount = Cap
         /\ now <= e.at => Restored(e, now).amount = e.amount
BY DEF Restored, Capped, Elapsed, Energy

LEMMA CookieFacts ==
  ASSUME NEW e \in Energy, NEW k \in Nat, NEW now \in 0 .. MaxTime
  PROVE  /\ WithCookies(e, k, now) \in Energy
         /\ WithCookies(e, k, now).at = (IF k = 0 THEN e.at ELSE now)
         /\ WithCookies(e, k, now).amount = Capped(e.amount + k)
         /\ WithCookies(e, k, now).amount >= e.amount
         /\ WithCookies(e, k, now).amount <= e.amount + k
BY DEF WithCookies, Capped, Energy

(* What a stage does to the energy: it pays, after it has regenerated, and *)
(* may find cookies.                                                       *)
Settlement(e, cost, k, now) ==
  WithCookies([amount |-> Restored(e, now).amount - cost, at |-> now], k, now)

LEMMA SettlementFacts ==
  ASSUME NEW e \in Energy, NEW cost \in Nat, NEW k \in Nat, NEW now \in 0 .. MaxTime,
         Restored(e, now).amount >= cost
  PROVE  /\ Settlement(e, cost, k, now) \in Energy
         /\ Settlement(e, cost, k, now).at = now
         /\ Settlement(e, cost, k, now).amount >= Restored(e, now).amount - cost
         /\ Settlement(e, cost, k, now).amount <= Restored(e, now).amount - cost + k
<1> DEFINE f == [amount |-> Restored(e, now).amount - cost, at |-> now]
<1>1. f \in Energy
  BY RestoredFacts DEF Energy
<1>2. f.at = now /\ f.amount = Restored(e, now).amount - cost
  OBVIOUS
<1> HIDE DEF f
<1>3. /\ WithCookies(f, k, now) \in Energy
      /\ WithCookies(f, k, now).at = now
      /\ WithCookies(f, k, now).amount >= f.amount
      /\ WithCookies(f, k, now).amount <= f.amount + k
  BY <1>1, <1>2, CookieFacts
<1> QED
  BY <1>2, <1>3 DEF Settlement, f

(* The three shapes of a step: the energy is stored with a later clock, a  *)
(* stage is settled, a chapter reward is claimed.                          *)
ClaimedEnergy(e, k, now) == Restored(WithCookies(e, k, now), now)

LEMMA ClaimFacts ==
  ASSUME NEW e \in Energy, NEW k \in Nat, NEW now \in 0 .. MaxTime
  PROVE  /\ ClaimedEnergy(e, k, now) \in Energy
         /\ ClaimedEnergy(e, k, now).at = now
         /\ ClaimedEnergy(e, k, now).amount >= Capped(e.amount + k)
         /\ now >= e.at => ClaimedEnergy(e, k, now).amount <= e.amount + (now - e.at) + k
         /\ k = 0 => ClaimedEnergy(e, k, now) = Restored(e, now)
<1> DEFINE f == WithCookies(e, k, now)
<1>1. /\ f \in Energy
      /\ f.at = (IF k = 0 THEN e.at ELSE now)
      /\ f.amount = Capped(e.amount + k)
      /\ f.amount <= e.amount + k
  BY CookieFacts
<1>2. k = 0 => f = e
  BY DEF WithCookies
<1> HIDE DEF f
<1>3. /\ Restored(f, now) \in Energy
      /\ Restored(f, now).at = now
      /\ Restored(f, now).amount >= f.amount
      /\ now >= f.at => Restored(f, now).amount <= f.amount + (now - f.at)
  BY <1>1, RestoredFacts
<1>4. now >= e.at => Restored(f, now).amount <= e.amount + (now - e.at) + k
  BY <1>1, <1>3 DEF Energy
<1> QED
  BY <1>1, <1>2, <1>3, <1>4 DEF ClaimedEnergy, f

-----------------------------------------------------------------------------
(* What a request under way holds.                                         *)
LEMMA WireFacts ==
  ASSUME TypeOK, NEW r \in wire
  PROVE  /\ r.cmd.stage \in Stage /\ r.cmd.count \in Nat
         /\ r.cmd.op = "claim" => r.cmd.reward \in DOMAIN Goal
         /\ r.cmd.op = "stream" => r.cmd.stage \notin Story
         /\ r.seq \in 0 .. MaxSeq /\ r.at \in 0 .. MaxTime
         /\ energy \in Energy
<1>1. r.cmd \in Command \cup {Query} /\ r.seq \in 0 .. MaxSeq /\ r.at \in 0 .. MaxTime
  BY DEF TypeOK
<1>2. 1 \in Stage
  BY DEF Stage
<1>3. energy \in Energy
  BY DEF TypeOK, Energy
<1> QED
  BY <1>1, <1>2, <1>3 DEF Command, Query

(* The request goes, and what it overtakes.                                *)
LEMMA SettledFacts ==
  ASSUME TypeOK, NEW r \in wire, Settled(r)
  PROVE  /\ last' \in 0 .. MaxSeq /\ late' \in BOOLEAN /\ wire' \subseteq wire
         /\ time' = time /\ issued' = issued
         /\ ~ late' => ~ late /\ r.at >= energy.at
<1>1. r.at \in Nat /\ energy.at \in Nat
  BY WireFacts DEF Energy
<1>2. last' = r.seq /\ wire' \subseteq wire /\ time' = time /\ issued' = issued
  BY DEF Settled
<1>3. late' = (late \/ Overtaken(r)) /\ late \in BOOLEAN
  BY DEF Settled, TypeOK
<1>4. Overtaken(r) <=> r.at < energy.at
  BY DEF Overtaken
<1>5. late' \in BOOLEAN /\ (~ late' => ~ late /\ ~ Overtaken(r))
  BY <1>3, Zenon
<1>6. r.seq \in 0 .. MaxSeq
  BY WireFacts
<1> QED
  BY <1>1, <1>2, <1>4, <1>5, <1>6

(* The steps: what a handler commits is one of three transactions.          *)
LEMMA Steps ==
  ASSUME TypeOK, Next
  PROVE  \/ SendQuery
         \/ \E t \in 0 .. MaxTime : SetClock(t)
         \/ \E c \in Command : Send(c)
         \/ \E r \in wire :
              \/ Lose(r) \/ ReadPlayer(r) \/ GetChThird(r)
              \/ \E n \in 0 .. 3, k \in Nat : SettleStage(r, n, k)
              \/ \E k \in Nat : SettleStream(r, k)
              \/ \E k \in Nat : ClaimChapterReward(r, k)
<1>1. 0 .. MaxCookies \subseteq Nat
  OBVIOUS
<1>2. ASSUME NEW r \in wire, NEW l \in Loadouts, NEW k \in 0 .. MaxCookies, ChThirdStage(r, l, k)
      PROVE  \E n \in 0 .. 3, j \in Nat : SettleStage(r, n, j)
  BY <1>1, <1>2 DEF ChThirdStage
<1>3. ASSUME NEW r \in wire, NEW k \in 0 .. MaxCookies, ChThirdStreamStage(r, k)
      PROVE  \E j \in Nat : SettleStream(r, j)
  BY <1>1, <1>3 DEF ChThirdStreamStage
<1>4. ASSUME NEW r \in wire, NEW k \in 0 .. MaxCookies, GetChThirdStarReward(r, k)
      PROVE  \E j \in Nat : ClaimChapterReward(r, j)
  BY <1>1, <1>4 DEF GetChThirdStarReward
<1> QED
  BY <1>2, <1>3, <1>4 DEF Next

(* A stage that is settled: what its step does to energy and experience.   *)
LEMMA StageFacts ==
  ASSUME TypeOK, NEW r \in wire, NEW n \in 0 .. 3, NEW k \in Nat, SettleStage(r, n, k)
  PROVE  \E cost \in {0, Cost} :
           /\ Restored(energy, r.at).amount >= cost
           /\ energy' = Settlement(energy, cost, k, r.at)
           /\ spent' = spent + cost /\ given' = given + k
           /\ \/ cost = 0 /\ exp' = exp
              \/ cost = Cost /\ exp' \in {exp, exp + ExpGain}
           /\ k \in Nat
<1>1. CASE r.cmd.stage \in Story
  <2>1. /\ Restored(energy, r.at).amount >= 0
        /\ energy' = Settlement(energy, 0, k, r.at)
        /\ spent' = spent + 0 /\ given' = given + k /\ exp' = exp + 0
    BY <1>1 DEF SettleStage, Settlement, Live
  <2>2. exp' = exp
    BY <2>1 DEF TypeOK
  <2> QED
    BY <2>1, <2>2
<1>2. CASE r.cmd.stage \notin Story
  <2>1. /\ Restored(energy, r.at).amount >= Cost
        /\ energy' = Settlement(energy, Cost, k, r.at)
        /\ spent' = spent + Cost /\ given' = given + k
    BY <1>2 DEF SettleStage, Settlement
  <2>2. exp' = exp + (IF Clears(r.cmd.stage, n) THEN ExpGain ELSE 0)
    BY <1>2 DEF SettleStage, Live
  <2>3. exp' \in {exp, exp + ExpGain}
    BY <2>2 DEF TypeOK
  <2> QED
    BY <2>1, <2>3
<1> QED
  BY <1>1, <1>2

(* A streamed stage, and a claimed chapter reward.                         *)
LEMMA StreamFacts ==
  ASSUME TypeOK, NEW r \in wire, NEW k \in Nat, SettleStream(r, k)
  PROVE  /\ Restored(energy, r.at).amount >= Cost * r.cmd.count
         /\ energy' = Settlement(energy, Cost * r.cmd.count, k, r.at)
         /\ spent' = spent + Cost * r.cmd.count /\ given' = given + k
         /\ exp' = exp + ExpGain * r.cmd.count
         /\ Cost * r.cmd.count \in Nat /\ ExpGain * r.cmd.count \in Nat /\ k \in Nat
<1>1. r.cmd.count \in Nat
  BY WireFacts
<1>2. Cost * r.cmd.count \in Nat /\ ExpGain * r.cmd.count \in Nat
  BY <1>1
<1> QED
  BY <1>2 DEF SettleStream, Settlement

LEMMA ClaimStepFacts ==
  ASSUME TypeOK, NEW r \in wire, NEW k \in Nat, ClaimChapterReward(r, k)
  PROVE  /\ energy' = ClaimedEnergy(energy, k, r.at)
         /\ given' = given + k /\ spent' = spent /\ k \in Nat
         /\ r.cmd.reward \in DOMAIN Goal /\ r.cmd.reward \notin claims
         /\ claims' = claims \cup {r.cmd.reward}
         /\ paid' = [paid EXCEPT ![r.cmd.reward] = @ + 1]
         /\ UNCHANGED progress
BY WireFacts DEF ClaimChapterReward, ClaimedEnergy

-----------------------------------------------------------------------------
(* Every variable keeps its type.                                          *)
LEMMA StageProgress ==
  ASSUME TypeOK, NEW r \in wire, NEW n \in 0 .. 3, NEW k \in Nat, SettleStage(r, n, k)
  PROVE  /\ completed' \subseteq Stage /\ unlocked' \subseteq Stage
         /\ star' \in [Stage -> 0 .. 3]
         /\ star' = [star EXCEPT ![r.cmd.stage] = BestStar(@, n)]
         /\ \A s \in Stage : star'[s] >= star[s]
<1>1. r.cmd.stage \in Stage
  BY WireFacts
<1>2. completed' \subseteq Stage
  BY <1>1 DEF SettleStage, TypeOK
<1>3. Unlocks(r.cmd.stage, n) \subseteq Stage
  BY <1>1 DEF Unlocks, Stage
<1>4. unlocked' \subseteq Stage
  BY <1>3 DEF SettleStage, TypeOK
<1>5. star' = [star EXCEPT ![r.cmd.stage] = BestStar(@, n)]
  BY DEF SettleStage
<1>6. star[r.cmd.stage] \in 0 .. 3 /\ star \in [Stage -> 0 .. 3]
  BY <1>1 DEF TypeOK
<1>7. BestStar(star[r.cmd.stage], n) \in 0 .. 3
      /\ BestStar(star[r.cmd.stage], n) >= star[r.cmd.stage]
  <2> DEFINE old == star[r.cmd.stage]
  <2>1. old \in Nat /\ n \in Nat
    BY <1>6
  <2>2. Max({old, n}) = IF old >= n THEN old ELSE n
    BY <2>1, MaxOfTwo
  <2> HIDE DEF old
  <2>3. old \in 0 .. 3 /\ BestStar(old, n) = IF old >= n THEN old ELSE n
    BY <1>6, <2>2 DEF BestStar, old
  <2>4. BestStar(old, n) \in 0 .. 3 /\ BestStar(old, n) >= old
    BY <2>3
  <2> QED
    BY <2>4 DEF old
<1> QED
  BY <1>1, <1>2, <1>4, <1>5, <1>6, <1>7

LEMMA RequestStep ==
  ASSUME TypeOK, NEW r \in wire, NEW n \in 0 .. 3, NEW k, NEW j,
         \/ k \in Nat /\ SettleStage(r, n, k)
         \/ k \in Nat /\ SettleStream(r, k)
         \/ j \in Nat /\ ClaimChapterReward(r, j)
  PROVE  TypeOK'
<1>0. energy \in Energy /\ r.at \in 0 .. MaxTime
  BY WireFacts
<1>1. Settled(r)
  BY DEF SettleStage, SettleStream, ClaimChapterReward
<1>2. /\ last' \in 0 .. MaxSeq /\ time' \in 0 .. MaxTime /\ issued' \in 0 .. MaxSeq
      /\ wire' \subseteq [cmd : Command \cup {Query}, seq : 0 .. MaxSeq, at : 0 .. MaxTime,
                          read : BOOLEAN, seen : Nat]
      /\ late' \in BOOLEAN
  <2>1. last' \in 0 .. MaxSeq /\ late' \in BOOLEAN /\ wire' \subseteq wire
        /\ time' = time /\ issued' = issued
    BY <1>1, SettledFacts
  <2> QED
    BY <2>1 DEF TypeOK
<1>3. CASE k \in Nat /\ SettleStage(r, n, k)
  <2>1. PICK cost \in {0, Cost} :
           /\ Restored(energy, r.at).amount >= cost
           /\ energy' = Settlement(energy, cost, k, r.at)
           /\ spent' = spent + cost /\ given' = given + k
           /\ \/ cost = 0 /\ exp' = exp
              \/ cost = Cost /\ exp' \in {exp, exp + ExpGain}
           /\ k \in Nat
    BY <1>3, StageFacts
  <2>2. energy' \in Energy
    BY <2>1, <1>0, SettlementFacts
  <2>3. spent' \in Nat /\ given' \in Nat /\ exp' \in Nat
    BY <2>1 DEF TypeOK
  <2>4. UNCHANGED <<claims, paid>>
    BY <1>3 DEF SettleStage
  <2>5. completed' \subseteq Stage /\ unlocked' \subseteq Stage /\ star' \in [Stage -> 0 .. 3]
    BY <1>3, StageProgress
  <2> QED
    BY <1>2, <2>2, <2>3, <2>4, <2>5 DEF TypeOK, Energy
<1>4. CASE k \in Nat /\ SettleStream(r, k)
  <2>1. /\ energy' = Settlement(energy, Cost * r.cmd.count, k, r.at)
        /\ Restored(energy, r.at).amount >= Cost * r.cmd.count
        /\ spent' \in Nat /\ given' \in Nat /\ exp' \in Nat
        /\ Cost * r.cmd.count \in Nat /\ k \in Nat
    BY <1>4, StreamFacts DEF TypeOK
  <2>2. energy' \in Energy
    BY <1>0, <2>1, SettlementFacts
  <2>3. UNCHANGED <<unlocked, completed, star, claims, paid>>
    BY <1>4 DEF SettleStream
  <2> QED
    BY <1>2, <2>1, <2>2, <2>3 DEF TypeOK, Energy
<1>5. CASE j \in Nat /\ ClaimChapterReward(r, j)
  <2>1. /\ energy' = ClaimedEnergy(energy, j, r.at)
        /\ given' = given + j /\ spent' = spent /\ j \in Nat
        /\ r.cmd.reward \in DOMAIN Goal /\ claims' = claims \cup {r.cmd.reward}
        /\ paid' = [paid EXCEPT ![r.cmd.reward] = @ + 1]
        /\ UNCHANGED progress
    BY <1>5, ClaimStepFacts
  <2>2. energy' \in Energy
    BY <1>0, <2>1, ClaimFacts
  <2>3. paid' \in [DOMAIN Goal -> Nat]
    BY <2>1 DEF TypeOK
  <2>4. claims' \subseteq DOMAIN Goal /\ given' \in Nat
    BY <2>1 DEF TypeOK
  <2> QED
    BY <1>2, <2>1, <2>2, <2>3, <2>4 DEF TypeOK, Energy, progress
<1> QED
  BY <1>3, <1>4, <1>5

LEMMA TypeStep ==
  ASSUME TypeOK, [Next]_vars
  PROVE  TypeOK'
<1>1. ASSUME NEW t \in 0 .. MaxTime, SetClock(t) PROVE TypeOK'
  BY <1>1 DEF SetClock, TypeOK, progress
<1> DEFINE Request == [cmd : Command \cup {Query}, seq : 0 .. MaxSeq, at : 0 .. MaxTime,
                       read : BOOLEAN, seen : Nat]
<1>2. CASE SendQuery
  <2>1. [cmd |-> Query, seq |-> 0, at |-> time, read |-> FALSE, seen |-> 0] \in Request
    BY DEF TypeOK
  <2>2. wire' \subseteq Request
    BY <1>2, <2>1 DEF SendQuery, TypeOK
  <2> QED
    BY <1>2, <2>2 DEF SendQuery, TypeOK, progress
<1>3. ASSUME NEW c \in Command, Send(c) PROVE TypeOK'
  <2>1. issued' \in 0 .. MaxSeq /\ issued + 1 \in 0 .. MaxSeq
    BY <1>3 DEF Send, TypeOK
  <2>2. [cmd |-> c, seq |-> issued + 1, at |-> time, read |-> FALSE, seen |-> 0] \in Request
    BY <2>1 DEF TypeOK
  <2>3. wire' \subseteq Request
    BY <1>3, <2>2 DEF Send, TypeOK
  <2> QED
    BY <1>3, <2>1, <2>3 DEF Send, TypeOK, progress
<1>4. ASSUME NEW r \in wire, Lose(r) PROVE TypeOK'
  BY <1>4 DEF Lose, TypeOK, progress
<1>10. ASSUME NEW r \in wire, ReadPlayer(r) PROVE TypeOK'
  <2>1. r.cmd.stage \in Stage /\ exp \in Nat /\ star \in [Stage -> 0 .. 3]
    BY WireFacts DEF TypeOK
  <2>2. (IF r.cmd.op = "stream" THEN star[r.cmd.stage] ELSE exp) \in Nat
    BY <2>1
  <2> QED
    BY <1>10, <2>2 DEF ReadPlayer, TypeOK, progress
<1>5. ASSUME NEW r \in wire, GetChThird(r) PROVE TypeOK'
  <2>1. energy' \in Energy
    BY <1>5, WireFacts, RestoredFacts DEF GetChThird
  <2>2. late' \in BOOLEAN
    BY <1>5 DEF GetChThird
  <2> QED
    BY <1>5, <2>1, <2>2 DEF GetChThird, TypeOK, progress, Energy
<1>6. ASSUME NEW r \in wire, NEW n \in 0 .. 3, NEW k \in Nat, SettleStage(r, n, k)
      PROVE  TypeOK'
  BY <1>6, RequestStep
<1>7. ASSUME NEW r \in wire, NEW k \in Nat, SettleStream(r, k) PROVE TypeOK'
  <2>1. 0 \in 0 .. 3
    OBVIOUS
  <2> QED
    BY <1>7, <2>1, RequestStep
<1>8. ASSUME NEW r \in wire, NEW k \in Nat, ClaimChapterReward(r, k) PROVE TypeOK'
  <2>1. 0 \in 0 .. 3
    OBVIOUS
  <2> QED
    BY <1>8, <2>1, RequestStep
<1>9. CASE UNCHANGED vars
  BY <1>9 DEF vars, TypeOK, progress
<1> QED
  BY <1>1, <1>2, <1>3, <1>4, <1>5, <1>6, <1>7, <1>8, <1>9, <1>10, Steps

-----------------------------------------------------------------------------
(* Energy against its own clock.                                           *)
LEMMA EarnedStep ==
  ASSUME TypeOK, EnergyIsEarned, [Next]_vars
  PROVE  EnergyIsEarned'
<1>0. energy \in Energy /\ spent \in Nat /\ given \in Nat /\ late \in BOOLEAN
  BY DEF TypeOK, Energy
<1>1. ASSUME UNCHANGED <<energy, spent, given, late>> PROVE EnergyIsEarned'
  BY <1>1 DEF EnergyIsEarned, NoSecondTwice
<1>2. ASSUME NEW r \in wire, GetChThird(r) PROVE EnergyIsEarned'
  <2>1. energy' = Restored(energy, r.at) /\ UNCHANGED <<spent, given>>
        /\ late' = (late \/ Overtaken(r))
    BY <1>2 DEF GetChThird
  <2>2. ~ late' => ~ late /\ ~ Overtaken(r)
    BY <1>0, <2>1, Zenon
  <2>3. r.at \in 0 .. MaxTime
    BY WireFacts
  <2>4. ~ late' => ~ late /\ r.at >= energy.at
    BY <1>0, <2>2, <2>3 DEF Overtaken, Energy
  <2>5. r.at >= energy.at => energy'.at = r.at /\ energy'.amount \in 0 .. Cap
                              /\ energy'.amount <= energy.amount + (r.at - energy.at)
    BY <1>0, <2>1, <2>3, RestoredFacts DEF Energy
  <2> QED
    BY <1>0, <2>1, <2>3, <2>4, <2>5 DEF EnergyIsEarned, NoSecondTwice, Energy
<1>3. ASSUME NEW r \in wire, NEW cost \in Nat, NEW k \in Nat, Settled(r),
             Restored(energy, r.at).amount >= cost,
             energy' = Settlement(energy, cost, k, r.at),
             spent' = spent + cost, given' = given + k
      PROVE  EnergyIsEarned'
  <2>1. r.at \in 0 .. MaxTime /\ (~ late' => ~ late /\ r.at >= energy.at)
    BY <1>3, WireFacts, SettledFacts
  <2>2. /\ energy'.at = r.at /\ energy' \in Energy
        /\ energy'.amount <= Restored(energy, r.at).amount - cost + k
    BY <1>0, <1>3, <2>1, SettlementFacts
  <2>3. /\ Restored(energy, r.at).amount \in 0 .. Cap
        /\ r.at >= energy.at
             => Restored(energy, r.at).amount <= energy.amount + (r.at - energy.at)
    BY <1>0, <2>1, RestoredFacts DEF Energy
  <2> QED
    BY <1>0, <1>3, <2>1, <2>2, <2>3 DEF EnergyIsEarned, NoSecondTwice, Energy
<1>4. ASSUME NEW r \in wire, NEW n \in 0 .. 3, NEW k \in Nat, SettleStage(r, n, k)
      PROVE  EnergyIsEarned'
  <2>1. PICK cost \in {0, Cost} :
           /\ Restored(energy, r.at).amount >= cost
           /\ energy' = Settlement(energy, cost, k, r.at)
           /\ spent' = spent + cost /\ given' = given + k
           /\ k \in Nat
    BY <1>4, StageFacts
  <2>2. cost \in Nat /\ Settled(r)
    BY <1>4 DEF SettleStage
  <2> QED
    BY <1>3, <2>1, <2>2
<1>5. ASSUME NEW r \in wire, NEW k \in Nat, SettleStream(r, k) PROVE EnergyIsEarned'
  BY <1>3, <1>5, StreamFacts DEF SettleStream
<1>6. ASSUME NEW r \in wire, NEW k \in Nat, ClaimChapterReward(r, k)
      PROVE  EnergyIsEarned'
  <2>0. Settled(r)
    BY <1>6 DEF ClaimChapterReward
  <2>1. r.at \in 0 .. MaxTime /\ (~ late' => ~ late /\ r.at >= energy.at)
    BY <2>0, WireFacts, SettledFacts
  <2>2. energy' = ClaimedEnergy(energy, k, r.at) /\ spent' = spent /\ given' = given + k /\ k \in Nat
    BY <1>6, ClaimStepFacts
  <2>3. /\ energy'.at = r.at /\ energy' \in Energy
        /\ r.at >= energy.at => energy'.amount <= energy.amount + (r.at - energy.at) + k
    BY <1>0, <2>1, <2>2, ClaimFacts
  <2> QED
    BY <1>0, <2>1, <2>2, <2>3 DEF EnergyIsEarned, NoSecondTwice, Energy
<1> QED
  BY <1>1, <1>2, <1>4, <1>5, <1>6, Steps DEF vars, SetClock, SendQuery, Send, Lose, ReadPlayer

-----------------------------------------------------------------------------
(* Stages, experience and the marks of chapter rewards.                    *)
LEMMA OrderStep ==
  ASSUME TypeOK, StagesInOrder, [Next]_vars
  PROVE  StagesInOrder'
<1>1. ASSUME UNCHANGED <<unlocked, completed, star>> PROVE StagesInOrder'
  BY <1>1 DEF StagesInOrder
<1>2. ASSUME NEW r \in wire, NEW n \in 0 .. 3, NEW k \in Nat, SettleStage(r, n, k)
      PROVE  StagesInOrder'
  <2> DEFINE s == r.cmd.stage
  <2>1. s \in Stage /\ s \in unlocked /\ unlocked \subseteq Stage /\ completed \subseteq Stage
        /\ star \in [Stage -> 0 .. 3]
    BY <1>2, WireFacts DEF SettleStage, TypeOK
  <2>2. completed' = (IF Clears(s, n) THEN completed \cup {s} ELSE completed)
        /\ unlocked' = unlocked \cup Unlocks(s, n)
    BY <1>2 DEF SettleStage
  <2>3. star' = [star EXCEPT ![s] = BestStar(@, n)] /\ \A t \in Stage : star'[t] >= star[t]
        /\ star' \in [Stage -> 0 .. 3]
    BY <1>2, StageProgress
  <2>4. Clears(s, n) => s \in Story \/ star'[s] > 0
    <3>1. star[s] \in Nat /\ n \in Nat
      BY <2>1
    <3>2. star'[s] >= n
      BY <2>1, <2>3, <3>1, MaxOfTwo DEF BestStar
    <3>3. star'[s] \in 0 .. 3
      BY <2>1, <2>3
    <3> QED
      BY <3>1, <3>2, <3>3 DEF Clears
  <2>5. completed' \subseteq unlocked'
    BY <2>1, <2>2 DEF StagesInOrder
  <2>6. ASSUME NEW t \in unlocked' PROVE t = 1 \/ t - 1 \in completed'
    <3>1. CASE t \in unlocked
      BY <2>2, <3>1 DEF StagesInOrder
    <3>2. CASE t \in Unlocks(s, n)
      BY <2>1, <2>2, <3>2 DEF Unlocks, Stage
    <3> QED
      BY <2>2, <3>1, <3>2
  <2>7. ASSUME NEW t \in completed' PROVE t \in Story \/ star'[t] > 0
    <3>1. CASE t \in completed
      <4>1. t \in Story \/ star[t] > 0
        BY <3>1 DEF StagesInOrder
      <4>2. star'[t] >= star[t] /\ star'[t] \in 0 .. 3 /\ star[t] \in 0 .. 3
        BY <2>1, <2>3, <3>1
      <4> QED
        BY <4>1, <4>2
    <3>2. CASE t \notin completed
      BY <2>2, <2>4, <3>2
    <3> QED
      BY <3>1, <3>2
  <2> QED
    BY <2>5, <2>6, <2>7 DEF StagesInOrder
<1> QED
  BY <1>1, <1>2, Steps DEF vars, SetClock, SendQuery, Send, Lose, ReadPlayer, GetChThird, SettleStream,
     ClaimChapterReward, progress

LEMMA PaidMore ==
  ASSUME NEW x \in Nat, NEW y \in Nat, NEW g \in Nat, NEW c \in Nat,
         x * Cost <= y * ExpGain, g * Cost <= c * ExpGain
  PROVE  (x + g) * Cost <= (y + c) * ExpGain
<1>1. (x + g) * Cost = x * Cost + g * Cost /\ (y + c) * ExpGain = y * ExpGain + c * ExpGain
  OBVIOUS
<1>2. x * Cost \in Nat /\ g * Cost \in Nat /\ y * ExpGain \in Nat /\ c * ExpGain \in Nat
  OBVIOUS
<1> QED
  BY <1>1, <1>2

LEMMA ExperienceStep ==
  ASSUME TypeOK, ExperienceIsPaid, [Next]_vars
  PROVE  ExperienceIsPaid'
<1>0. exp \in Nat /\ spent \in Nat
  BY DEF TypeOK
<1>1. ASSUME UNCHANGED <<exp, spent>> PROVE ExperienceIsPaid'
  BY <1>1 DEF ExperienceIsPaid
<1>2. ASSUME NEW g \in Nat, NEW c \in Nat, g * Cost <= c * ExpGain,
             exp' = exp + g, spent' = spent + c
      PROVE  ExperienceIsPaid'
  BY <1>0, <1>2, PaidMore DEF ExperienceIsPaid
<1>3. ASSUME NEW r \in wire, NEW n \in 0 .. 3, NEW k \in Nat, SettleStage(r, n, k)
      PROVE  ExperienceIsPaid'
  <2>1. \/ exp' = exp /\ spent' = spent + 0
        \/ exp' = exp /\ spent' = spent + Cost
        \/ exp' = exp + ExpGain /\ spent' = spent + Cost
    BY <1>3, StageFacts
  <2>2. exp = exp + 0 /\ 0 * Cost <= 0 * ExpGain /\ 0 * Cost <= Cost * ExpGain
        /\ ExpGain * Cost <= Cost * ExpGain
    BY <1>0
  <2> QED
    BY <1>2, <2>1, <2>2
<1>4. ASSUME NEW r \in wire, NEW k \in Nat, SettleStream(r, k)
      PROVE  ExperienceIsPaid'
  <2>1. r.cmd.count \in Nat
    BY WireFacts
  <2>2. ExpGain * r.cmd.count \in Nat /\ Cost * r.cmd.count \in Nat
        /\ exp' = exp + ExpGain * r.cmd.count /\ spent' = spent + Cost * r.cmd.count
    BY <1>4, StreamFacts
  <2>3. ExpGain * r.cmd.count * Cost <= Cost * r.cmd.count * ExpGain
    BY <2>1
  <2> QED
    BY <1>2, <2>2, <2>3
<1> QED
  BY <1>1, <1>3, <1>4, Steps DEF vars, SetClock, SendQuery, Send, Lose, ReadPlayer, GetChThird,
     ClaimChapterReward, progress

LEMMA PaidStep ==
  ASSUME TypeOK, PaidWhenClaimed, [Next]_vars
  PROVE  PaidWhenClaimed'
<1>1. ASSUME UNCHANGED <<claims, paid>> PROVE PaidWhenClaimed'
  BY <1>1 DEF PaidWhenClaimed
<1>2. ASSUME NEW r \in wire, NEW k \in Nat, ClaimChapterReward(r, k)
      PROVE  PaidWhenClaimed'
  <2> DEFINE w == r.cmd.reward
  <2>1. /\ w \in DOMAIN Goal /\ w \notin claims /\ claims' = claims \cup {w}
        /\ paid' = [paid EXCEPT ![w] = @ + 1] /\ paid \in [DOMAIN Goal -> Nat]
    BY <1>2, ClaimStepFacts DEF TypeOK
  <2>2. paid'[w] = 1
    BY <2>1 DEF PaidWhenClaimed
  <2>3. \A v \in DOMAIN Goal : v # w => paid'[v] = paid[v] /\ (v \in claims' <=> v \in claims)
    BY <2>1
  <2> QED
    BY <2>1, <2>2, <2>3 DEF PaidWhenClaimed
<1> QED
  BY <1>1, <1>2, Steps DEF vars, SetClock, SendQuery, Send, Lose, ReadPlayer, GetChThird, SettleStage,
     SettleStream, progress

(* A chapter's stars only grow as its stages' do.                          *)
LEMMA StarsGrow ==
  ASSUME NEW c, star \in [Stage -> 0 .. 3], star' \in [Stage -> 0 .. 3],
         \A s \in Stage : star'[s] >= star[s]
  PROVE  Stars(c) \in Int /\ Stars(c)' \in Int /\ Stars(c)' >= Stars(c)
<1> DEFINE Of == {s \in Stage : ChapterOf[s] = c}
<1>1. Stars(c) = Total(star, Of) /\ Stars(c)' = Total(star', Of)
  BY DEF Stars, Total, MapThenSumSet, MapThenFoldSet
<1>2. IsFiniteSet(Of)
  <2>0. 1 \in Int /\ LastStage \in Int
    OBVIOUS
  <2>1. IsFiniteSet(1 .. LastStage)
    BY <2>0, FS_Interval
  <2>2. IsFiniteSet(Stage) /\ Of \subseteq Stage
    BY <2>1 DEF Stage
  <2> QED
    BY <2>2, FS_Subset
<1>3. \A s \in Of : star[s] \in Int /\ star'[s] \in Int /\ star[s] <= star'[s]
  OBVIOUS
<1> HIDE DEF Of
<1>4. Total(star, Of) \in Int /\ Total(star', Of) \in Int
  BY <1>2, <1>3, TotalSteps
<1>5. Total(star, Of) <= Total(star', Of)
  BY <1>2, <1>3, TotalMonotone
<1> QED
  BY <1>1, <1>4, <1>5

(* What a step does to the stars: a stage that is settled may add some.    *)
LEMMA StarsStep ==
  ASSUME TypeOK, [Next]_vars
  PROVE  \A s \in Stage : star'[s] >= star[s]
<1>1. ASSUME star' = star PROVE \A s \in Stage : star'[s] >= star[s]
  BY <1>1 DEF TypeOK
<1>2. ASSUME NEW r \in wire, NEW n \in 0 .. 3, NEW k \in Nat, SettleStage(r, n, k)
      PROVE  \A s \in Stage : star'[s] >= star[s]
  BY <1>2, StageProgress
<1> QED
  BY <1>1, <1>2, Steps DEF vars, SetClock, SendQuery, Send, Lose, ReadPlayer,
     GetChThird, SettleStream, ClaimChapterReward, progress

LEMMA ReachedStep ==
  ASSUME TypeOK, ClaimsAreReached, [Next]_vars
  PROVE  ClaimsAreReached'
<1>1. /\ star \in [Stage -> 0 .. 3] /\ star' \in [Stage -> 0 .. 3]
      /\ claims \subseteq DOMAIN Goal
      /\ \A s \in Stage : star'[s] >= star[s]
  BY TypeStep, StarsStep DEF TypeOK
<1>3. ASSUME NEW w \in DOMAIN Goal, Stars(w[1]) >= Goal[w]
      PROVE  Stars(w[1])' >= Goal[w]
  <2>1. Goal[w] \in Nat
    OBVIOUS
  <2>2. Stars(w[1]) \in Int /\ Stars(w[1])' \in Int /\ Stars(w[1])' >= Stars(w[1])
    BY <1>1, StarsGrow
  <2> QED
    BY <1>3, <2>1, <2>2
<1>4. ASSUME claims' = claims PROVE ClaimsAreReached'
  BY <1>1, <1>3, <1>4 DEF ClaimsAreReached
<1>5. ASSUME NEW r \in wire, NEW k \in Nat, ClaimChapterReward(r, k)
      PROVE  ClaimsAreReached'
  <2>1. r.cmd.reward \in DOMAIN Goal /\ claims' = claims \cup {r.cmd.reward}
    BY <1>5, ClaimStepFacts
  <2>2. Stars(r.cmd.reward[1]) >= Goal[r.cmd.reward]
    BY <1>5 DEF ClaimChapterReward
  <2> QED
    BY <1>1, <1>3, <2>1, <2>2 DEF ClaimsAreReached
<1> QED
  BY <1>4, <1>5, Steps DEF vars, SetClock, SendQuery, Send, Lose, ReadPlayer,
     GetChThird, SettleStage, SettleStream

-----------------------------------------------------------------------------
LEMMA InitInvariant == Init => IInv
<1> SUFFICES ASSUME Init PROVE IInv
  OBVIOUS
<1>1. TypeOK
  <2>1. energy \in [amount : 0 .. Cap, at : 0 .. MaxTime]
    BY DEF Init
  <2>2. unlocked \subseteq Stage /\ completed \subseteq Stage /\ star \in [Stage -> 0 .. 3]
    BY DEF Init, Stage
  <2>3. paid \in [DOMAIN Goal -> Nat]
    BY DEF Init
  <2>4. claims \subseteq DOMAIN Goal /\ wire = {} /\ exp \in Nat /\ late \in BOOLEAN
    BY DEF Init
  <2>5. last \in 0 .. MaxSeq /\ time \in 0 .. MaxTime /\ issued \in 0 .. MaxSeq
        /\ spent \in Nat /\ given \in Nat
    BY DEF Init
  <2> QED
    BY <2>1, <2>2, <2>3, <2>4, <2>5 DEF TypeOK
<1>2. EnergyIsEarned
  BY DEF Init, EnergyIsEarned, NoSecondTwice
<1>3. StagesInOrder
  BY DEF Init, StagesInOrder
<1>4. ExperienceIsPaid
  BY DEF Init, ExperienceIsPaid
<1>5. PaidWhenClaimed /\ ClaimsAreReached
  BY DEF Init, PaidWhenClaimed, ClaimsAreReached
<1> QED
  BY <1>1, <1>2, <1>3, <1>4, <1>5 DEF IInv

LEMMA NextInvariant == IInv /\ [Next]_vars => IInv'
BY TypeStep, EarnedStep, OrderStep, ExperienceStep, PaidStep, ReachedStep DEF IInv

(* Every state: the types, the order of the clocks, energy against its own *)
(* clock, and the tables of stages and claims against each other.          *)
THEOREM Ch3Invariant == Spec => []IInv
BY InitInvariant, NextInvariant, PTL DEF Spec

(* Energy stays between none and the cap, and every other value in its     *)
(* column's range (the CHECKs of ch3_energy and ch3_stages).               *)
THEOREM Ch3Types == Spec => []TypeOK
<1>1. IInv => TypeOK
  BY DEF IInv
<1> QED
  BY <1>1, Ch3Invariant, PTL

(* For every price, cap and cookie, any number of requests and a clock that *)
(* may be set: no second is paid twice until a request is overtaken by one *)
(* with a later clock (restore_ch3_energy).                                *)
THEOREM EnergyEarned == Spec => []EnergyIsEarned
<1>1. IInv => EnergyIsEarned
  BY DEF IInv
<1> QED
  BY <1>1, Ch3Invariant, PTL

(* However many stages there are and in whatever order results arrive, a   *)
(* stage is open only behind a completed one (settle_ch3_stage).           *)
THEOREM StagesOpenInOrder == Spec => []StagesInOrder
<1>1. IInv => StagesInOrder
  BY DEF IInv
<1> QED
  BY <1>1, Ch3Invariant, PTL

(* Every gain of experience was paid for in energy, repetitions included   *)
(* (settle_ch3_stage, settle_ch3_stream).                                  *)
THEOREM ExperiencePaid == Spec => []ExperienceIsPaid
<1>1. IInv => ExperienceIsPaid
  BY DEF IInv
<1> QED
  BY <1>1, Ch3Invariant, PTL

(* For any number of stages, chapters and rewards, and whatever results    *)
(* come after: a chapter reward is paid once, for stars that are never     *)
(* lost again (claim_ch3_chapter_reward, settle_ch3_stage).                *)
THEOREM ChapterRewardsEarned == Spec => []ChapterRewardsAreEarned
<1>1. IInv => ChapterRewardsAreEarned
  BY DEF IInv, PaidWhenClaimed, ClaimsAreReached, ChapterRewardsAreEarned
<1> QED
  BY <1>1, Ch3Invariant, PTL

-----------------------------------------------------------------------------
(* What the player has at a time t.                                        *)
EnergyAt(e, t) == Capped(e.amount + Elapsed(e, t))

LEMMA EnergyAtFacts ==
  ASSUME NEW e \in Energy, NEW t \in 0 .. MaxTime
  PROVE  /\ EnergyAt(e, t) \in 0 .. Cap
         /\ EnergyAt(e, t) >= e.amount
         /\ t >= e.at => \/ EnergyAt(e, t) = e.amount + (t - e.at)
                         \/ EnergyAt(e, t) = Cap /\ e.amount + (t - e.at) >= Cap
         /\ t <= e.at => EnergyAt(e, t) = e.amount
BY DEF EnergyAt, Capped, Elapsed, Energy

(* Storing the energy takes nothing from it, whatever the clock.           *)
LEMMA StoringLosesNothing ==
  ASSUME NEW e \in Energy, NEW now \in 0 .. MaxTime, NEW t \in 0 .. MaxTime
  PROVE  EnergyAt(Restored(e, now), t) >= EnergyAt(e, t)
<1> DEFINE f == Restored(e, now)
<1>1. e.amount \in 0 .. Cap /\ e.at \in Nat
  BY DEF Energy
<1>2. /\ f \in Energy /\ f.at = now /\ f.amount \in 0 .. Cap
      /\ f.amount >= e.amount
      /\ now >= e.at => \/ f.amount = e.amount + (now - e.at)
                        \/ f.amount = Cap
      /\ now <= e.at => f.amount = e.amount
  BY RestoredFacts DEF Energy
<1> HIDE DEF f
<1>3. /\ EnergyAt(f, t) \in 0 .. Cap /\ EnergyAt(f, t) >= f.amount
      /\ t >= f.at => \/ EnergyAt(f, t) = f.amount + (t - f.at)
                      \/ EnergyAt(f, t) = Cap
  BY <1>2, EnergyAtFacts
<1>4. /\ EnergyAt(e, t) \in 0 .. Cap
      /\ t >= e.at => \/ EnergyAt(e, t) = e.amount + (t - e.at)
                      \/ EnergyAt(e, t) = Cap /\ e.amount + (t - e.at) >= Cap
      /\ t <= e.at => EnergyAt(e, t) = e.amount
  BY EnergyAtFacts
<1> DEFINE old == EnergyAt(e, t)
<1> DEFINE new == EnergyAt(f, t)
<1>5. new >= old
  <2> HIDE DEF old, new
  <2>1. CASE now >= e.at
    BY <1>1, <1>2, <1>3, <1>4, <2>1 DEF old, new
  <2>2. CASE now < e.at
    BY <1>1, <1>2, <1>3, <1>4, <2>2 DEF old, new
  <2> QED
    BY <1>1, <2>1, <2>2
<1> QED
  BY <1>5 DEF f

(* A settled stage takes its price and no more.                            *)
LEMMA PayingLosesThePrice ==
  ASSUME NEW e \in Energy, NEW cost \in Nat, NEW k \in Nat, NEW now \in 0 .. MaxTime,
         NEW t \in 0 .. MaxTime, Restored(e, now).amount >= cost
  PROVE  EnergyAt(Settlement(e, cost, k, now), t) + cost >= EnergyAt(e, t)
<1> DEFINE f == Restored(e, now)
<1> DEFINE g == Settlement(e, cost, k, now)
<1>1. EnergyAt(f, t) >= EnergyAt(e, t) /\ EnergyAt(e, t) \in Nat
  BY StoringLosesNothing, EnergyAtFacts
<1>2. f \in Energy /\ f.at = now /\ f.amount \in 0 .. Cap
  BY RestoredFacts DEF Energy
<1>3. g \in Energy /\ g.at = now /\ g.amount >= f.amount - cost /\ g.amount \in 0 .. Cap
  BY SettlementFacts DEF Energy
<1> HIDE DEF f, g
<1>4. /\ EnergyAt(f, t) \in 0 .. Cap
      /\ t >= now => EnergyAt(f, t) <= f.amount + (t - now)
      /\ t <= now => EnergyAt(f, t) = f.amount
  <2>1. /\ EnergyAt(f, t) \in 0 .. Cap
        /\ t >= f.at => \/ EnergyAt(f, t) = f.amount + (t - f.at)
                        \/ EnergyAt(f, t) = Cap /\ f.amount + (t - f.at) >= Cap
        /\ t <= f.at => EnergyAt(f, t) = f.amount
    BY <1>2, EnergyAtFacts
  <2> QED
    BY <1>2, <2>1
<1>5. /\ EnergyAt(g, t) \in 0 .. Cap
      /\ t >= now => EnergyAt(g, t) = g.amount + (t - now) \/ EnergyAt(g, t) = Cap
      /\ t <= now => EnergyAt(g, t) = g.amount
  BY <1>3, EnergyAtFacts
<1>6. EnergyAt(g, t) + cost >= EnergyAt(f, t)
  <2>1. CASE EnergyAt(g, t) = Cap
    BY <1>4, <2>1
  <2>2. CASE t >= now /\ EnergyAt(g, t) = g.amount + (t - now)
    BY <1>2, <1>3, <1>4, <2>2
  <2>3. CASE t <= now
    BY <1>2, <1>3, <1>4, <1>5, <2>3
  <2> QED
    BY <1>5, <2>1, <2>2, <2>3
<1> QED
  BY <1>1, <1>4, <1>5, <1>6 DEF g

NothingLost == EnergyNow' + (spent' - spent) >= EnergyNow
CookieLoss ==
  /\ given' > given /\ claims' # claims
  /\ EnergyNow' >= Capped(energy.amount + (given' - given))

LEMMA NowIsEnergyAt == EnergyNow = EnergyAt(energy, time) /\ EnergyNow' = EnergyAt(energy', time')
BY DEF EnergyNow, EnergyAt, Elapsed, Capped

LEMMA LossStep ==
  ASSUME TypeOK, [Next]_vars, time' >= time
  PROVE  NothingLost \/ CookieLoss
<1>0. /\ energy \in Energy /\ energy.at \in Nat /\ energy.amount \in 0 .. Cap
      /\ time \in 0 .. MaxTime /\ spent \in Nat /\ given \in Nat
  BY DEF TypeOK, Energy
<1>1. EnergyNow \in 0 .. Cap
  BY <1>0, NowIsEnergyAt, EnergyAtFacts
<1>2. ASSUME UNCHANGED <<energy, spent, time>> PROVE NothingLost
  BY <1>0, <1>1, <1>2, NowIsEnergyAt DEF NothingLost
<1>3. ASSUME NEW t \in 0 .. MaxTime, SetClock(t) PROVE NothingLost
  <2>1. energy' = energy /\ spent' = spent /\ time' = t /\ t >= time
    BY <1>3 DEF SetClock
  <2>2. EnergyAt(energy, t) >= EnergyAt(energy, time)
    BY <1>0, <2>1, EnergyAtFacts
  <2>3. EnergyAt(energy, t) \in Nat
    BY <1>0, EnergyAtFacts
  <2> QED
    BY <1>0, <1>1, <2>1, <2>2, <2>3, NowIsEnergyAt DEF NothingLost
<1>4. ASSUME NEW r \in wire PROVE r.at \in 0 .. MaxTime
  BY WireFacts
<1>5. ASSUME NEW r \in wire, GetChThird(r) PROVE NothingLost
  <2>1. energy' = Restored(energy, r.at) /\ spent' = spent /\ time' = time
    BY <1>5 DEF GetChThird
  <2>2. EnergyAt(Restored(energy, r.at), time) >= EnergyAt(energy, time)
    BY <1>0, <1>4, StoringLosesNothing
  <2>3. EnergyNow' >= EnergyNow
    BY <2>1, <2>2, NowIsEnergyAt
  <2> QED
    BY <1>0, <1>1, <2>1, <2>3, RestoredFacts, <1>4, EnergyAtFacts, NowIsEnergyAt DEF NothingLost
<1>6. ASSUME NEW r \in wire, NEW cost \in Nat, NEW k \in Nat, time' = time,
             Restored(energy, r.at).amount >= cost,
             energy' = Settlement(energy, cost, k, r.at), spent' = spent + cost
      PROVE  NothingLost
  <2>1. EnergyAt(Settlement(energy, cost, k, r.at), time) + cost >= EnergyAt(energy, time)
    BY <1>0, <1>4, <1>6, PayingLosesThePrice
  <2>2. EnergyNow' + cost >= EnergyNow
    BY <1>6, <2>1, NowIsEnergyAt
  <2>3. spent' - spent = cost
    BY <1>0, <1>6
  <2> QED
    BY <2>2, <2>3 DEF NothingLost
<1>7. ASSUME NEW r \in wire, NEW n \in 0 .. 3, NEW k \in Nat, SettleStage(r, n, k)
      PROVE  NothingLost
  <2>1. PICK cost \in {0, Cost} :
           /\ Restored(energy, r.at).amount >= cost
           /\ energy' = Settlement(energy, cost, k, r.at)
           /\ spent' = spent + cost /\ given' = given + k
           /\ k \in Nat
    BY <1>7, StageFacts
  <2>2. cost \in Nat /\ time' = time
    BY <1>7 DEF SettleStage, Settled
  <2> QED
    BY <1>6, <2>1, <2>2
<1>8. ASSUME NEW r \in wire, NEW k \in Nat, SettleStream(r, k) PROVE NothingLost
  <2>1. time' = time
    BY <1>8 DEF SettleStream, Settled
  <2> QED
    BY <1>6, <1>8, <2>1, StreamFacts
<1>9. ASSUME NEW r \in wire, NEW k \in Nat, ClaimChapterReward(r, k)
      PROVE  NothingLost \/ CookieLoss
  <2>1. /\ energy' = ClaimedEnergy(energy, k, r.at) /\ k \in Nat
        /\ given' = given + k /\ spent' = spent /\ time' = time
        /\ r.cmd.reward \notin claims /\ claims' = claims \cup {r.cmd.reward}
    BY <1>9, ClaimStepFacts DEF ClaimChapterReward, Settled
  <2>2. CASE k = 0
    <3>1. energy' = Settlement(energy, 0, 0, r.at)
      <4>1. energy' = Restored(energy, r.at)
        BY <1>0, <1>4, <2>1, <2>2, ClaimFacts
      <4> QED
        BY <4>1, <1>0, <1>4, RestoredFacts DEF Settlement, WithCookies, Energy, Restored
    <3>2. spent' = spent + 0 /\ Restored(energy, r.at).amount >= 0
      BY <1>0, <1>4, <2>1, RestoredFacts DEF Energy
    <3> QED
      BY <1>6, <2>1, <3>1, <3>2
  <2>3. CASE k # 0
    <3>1. given' > given /\ given' - given = k
      BY <1>0, <2>1, <2>3
    <3>2. claims' # claims
      BY <2>1
    <3>3. energy'.amount >= Capped(energy.amount + k) /\ energy' \in Energy
      BY <1>0, <1>4, <2>1, ClaimFacts
    <3>4. EnergyNow' >= energy'.amount /\ EnergyNow' \in Nat
      BY <1>0, <2>1, <3>3, EnergyAtFacts, NowIsEnergyAt
    <3>5. Capped(energy.amount + k) \in Nat /\ energy'.amount \in Nat
      BY <1>0, <2>1, <3>3, CappedFacts DEF Energy
    <3>6. EnergyNow' >= Capped(energy.amount + k)
      BY <3>3, <3>4, <3>5
    <3> QED
      BY <3>1, <3>2, <3>6 DEF CookieLoss
  <2> QED
    BY <2>2, <2>3
<1> QED
  BY <1>2, <1>3, <1>5, <1>7, <1>8, <1>9, Steps DEF vars, SendQuery, Send, Lose, ReadPlayer

(* Unless the clock is set back, a step takes energy only as a stage's     *)
(* price, or when a chapter reward holds a cookie; then at most what had   *)
(* regenerated unseen is lost (claim_ch3_chapter_reward through            *)
(* apply_reward_grant).                                                    *)
THEOREM EnergyIsLostOnlyByCookie == Spec => LossOnlyByCookie
<1>1. IInv /\ [Next]_vars
      => [\/ time' < time
          \/ EnergyNow' + (spent' - spent) >= EnergyNow
          \/ /\ given' > given /\ claims' # claims
             /\ EnergyNow' >= Capped(energy.amount + (given' - given))]_vars
  <2> SUFFICES ASSUME IInv, [Next]_vars, ~ (time' < time) PROVE NothingLost \/ CookieLoss
    BY DEF NothingLost, CookieLoss
  <2>1. TypeOK /\ time \in Nat /\ time' \in Nat
    BY TypeStep DEF IInv, TypeOK
  <2> QED
    BY <2>1, LossStep
<1> QED
  BY <1>1, Ch3Invariant, PTL DEF Spec, LossOnlyByCookie

-----------------------------------------------------------------------------
(* What a level, the music and the followers are worth.  That a higher     *)
(* level is worth no less is so of the official data; the code does not    *)
(* ask for it.                                                             *)
ScoresGrow ==
  \A a, b \in DOMAIN Threshold : a <= b => CharacterScore[a] <= CharacterScore[b]

BestMusic == Max({l.music + l.bonus : l \in Loadouts})
Everyone == MapThenSumSet(LAMBDA p : ProfileScore[p], DOMAIN ProfileScore)
Worth(c, m, f) == c + (c * m) \div 1000 + f
BestScore(e) == Worth(CharacterScore[Level(e)], BestMusic, Everyone)

LEMMA WorthGrows ==
  ASSUME NEW c \in Nat, NEW d \in Nat, c <= d, NEW m \in Nat, NEW n \in Nat, m <= n,
         NEW f \in Nat, NEW g \in Nat, f <= g
  PROVE  /\ Worth(c, m, f) \in Nat /\ Worth(d, n, g) \in Nat
         /\ Worth(c, m, f) <= Worth(d, n, g)
<1>1. c * m \in Nat /\ d * n \in Nat /\ c * m <= d * n
  <2>1. /\ c * m \in Nat /\ d * m \in Nat /\ d * n \in Nat
        /\ (d - c) * m \in Nat /\ d * (n - m) \in Nat
    <3>1. d - c \in Nat /\ n - m \in Nat
      OBVIOUS
    <3> QED
      BY <3>1
  <2>2. d * m = c * m + (d - c) * m /\ d * n = d * m + d * (n - m)
    OBVIOUS
  <2> QED
    BY <2>1, <2>2
<1> DEFINE x == c * m
           y == d * n
<1>2. x \in Nat /\ y \in Nat /\ x <= y
  BY <1>1
<1> HIDE DEF x, y
<1>3. x \div 1000 \in Nat /\ y \div 1000 \in Nat /\ x \div 1000 <= y \div 1000
  BY <1>2
<1>4. Worth(c, m, f) = c + x \div 1000 + f /\ Worth(d, n, g) = d + y \div 1000 + g
  BY DEF Worth, x, y
<1> QED
  BY <1>3, <1>4

(* More experience is never a lower level (Level).                         *)
LEMMA LevelGrows ==
  ASSUME NEW a \in Nat, NEW b \in Nat, a <= b
  PROVE  /\ Level(a) \in DOMAIN Threshold /\ Level(b) \in DOMAIN Threshold
         /\ Level(a) <= Level(b)
<1> DEFINE Reached(e) == {1} \cup {v \in DOMAIN Threshold : e >= Threshold[v]}
<1>1. /\ IsFiniteSet(DOMAIN Threshold) /\ 1 \in DOMAIN Threshold
      /\ DOMAIN Threshold \subseteq Nat /\ \A v \in DOMAIN Threshold : Threshold[v] \in Nat
  BY ScoreAssumption
<1>2. ASSUME NEW e \in Nat
      PROVE  /\ Level(e) \in Reached(e) /\ \A v \in Reached(e) : Level(e) >= v
             /\ Reached(e) \subseteq DOMAIN Threshold
  <2>1. Reached(e) \subseteq DOMAIN Threshold /\ Reached(e) # {} /\ Reached(e) \subseteq Nat
    BY <1>1
  <2>2. IsFiniteSet(Reached(e))
    BY <1>1, <2>1, FS_Subset
  <2>3. Level(e) = Max(Reached(e))
    BY DEF Level
  <2> HIDE DEF Reached
  <2> QED
    BY <2>1, <2>2, <2>3, MaxOfFinite
<1>3. Reached(a) \subseteq Reached(b)
  BY <1>1
<1>4. Level(a) \in Reached(a) /\ Level(b) \in Reached(b)
      /\ (\A v \in Reached(b) : Level(b) >= v) /\ Reached(b) \subseteq DOMAIN Threshold
  BY <1>2
<1>5. Level(b) >= Level(a)
  BY <1>3, <1>4
<1> QED
  BY <1>1, <1>3, <1>4, <1>5

(* A profile counts once (Followers).                                      *)
LEMMA FollowersAreEveryone ==
  ASSUME NEW ps \in Seq(DOMAIN ProfileScore)
  PROVE  Followers(ps) \in Nat /\ Everyone \in Nat /\ Followers(ps) <= Everyone
<1> DEFINE S == DOMAIN ProfileScore
           T == {ps[i] : i \in DOMAIN ps}
<1>1. IsFiniteSet(S) /\ \A p \in S : ProfileScore[p] \in Nat
  BY ScoreAssumption
<1>2. T \in SUBSET S
  OBVIOUS
<1>3. Followers(ps) = Total(ProfileScore, T) /\ Everyone = Total(ProfileScore, S)
  BY DEF Followers, Everyone, Total, MapThenSumSet, MapThenFoldSet
<1> HIDE DEF S, T
<1>4. IsFiniteSet(T) /\ \A p \in T : ProfileScore[p] \in Nat
  BY <1>1, <1>2, FS_Subset
<1> QED
  BY <1>1, <1>2, <1>3, <1>4, TotalNat, TotalPart

LEMMA LoadoutFacts ==
  ASSUME NEW l \in Loadouts
  PROVE  l.music + l.bonus \in Nat /\ l.profiles \in Seq(DOMAIN ProfileScore)
<1>1. l \in [music : Nat, bonus : Nat, profiles : Seq(DOMAIN ProfileScore)]
  BY ScoreAssumption
<1>2. l.music \in Nat /\ l.bonus \in Nat
  BY <1>1
<1> QED
  BY <1>1, <1>2

LEMMA BestMusicFacts ==
  /\ BestMusic \in Nat
  /\ \A l \in Loadouts : l.music + l.bonus <= BestMusic
<1> DEFINE M == {l.music + l.bonus : l \in Loadouts}
<1>1. IsFiniteSet(M)
  BY ScoreAssumption
<1>2. M \subseteq Nat
  BY LoadoutFacts
<1>3. M # {}
  BY ScoreAssumption
<1>4. BestMusic = Max(M)
  BY DEF BestMusic
<1> HIDE DEF M
<1>5. BestMusic \in M /\ \A y \in M : BestMusic >= y
  BY <1>1, <1>2, <1>3, <1>4, MaxOfFinite
<1>6. ASSUME NEW l \in Loadouts PROVE l.music + l.bonus <= BestMusic
  <2>1. l.music + l.bonus \in M
    BY DEF M
  <2> QED
    BY <1>2, <1>5, <2>1
<1> QED
  BY <1>2, <1>5, <1>6

LEMMA ScoreInReach ==
  ASSUME ScoresGrow, NEW a \in Nat, NEW b \in Nat, a <= b, NEW l \in Loadouts
  PROVE  Score(a, l) \in Nat /\ BestScore(b) \in Nat /\ Score(a, l) <= BestScore(b)
<1>1. l.music + l.bonus \in Nat /\ l.profiles \in Seq(DOMAIN ProfileScore)
  BY LoadoutFacts
<1>2. BestMusic \in Nat /\ l.music + l.bonus <= BestMusic
  BY BestMusicFacts
<1>3. /\ CharacterScore[Level(a)] \in Nat /\ CharacterScore[Level(b)] \in Nat
      /\ CharacterScore[Level(a)] <= CharacterScore[Level(b)]
  <2>1. /\ Level(a) \in DOMAIN Threshold /\ Level(b) \in DOMAIN Threshold
        /\ Level(a) <= Level(b)
    BY LevelGrows
  <2>2. CharacterScore \in [DOMAIN Threshold -> Nat]
    BY ScoreAssumption
  <2> QED
    BY <2>1, <2>2 DEF ScoresGrow
<1>4. Followers(l.profiles) \in Nat /\ Everyone \in Nat /\ Followers(l.profiles) <= Everyone
  BY <1>1, FollowersAreEveryone
<1>5. Score(a, l) = Worth(CharacterScore[Level(a)], l.music + l.bonus, Followers(l.profiles))
  BY DEF Score, Worth
<1> DEFINE c == CharacterScore[Level(a)]
           d == CharacterScore[Level(b)]
           m == l.music + l.bonus
           f == Followers(l.profiles)
<1>6. BestScore(b) = Worth(d, BestMusic, Everyone) /\ Score(a, l) = Worth(c, m, f)
  BY <1>5 DEF BestScore
<1>7. c \in Nat /\ d \in Nat /\ c <= d /\ m \in Nat /\ f \in Nat
  BY <1>1, <1>3, <1>4
<1>8. m <= BestMusic /\ BestMusic \in Nat /\ f <= Everyone /\ Everyone \in Nat
  BY <1>2, <1>4
<1> HIDE DEF c, d, m, f
<1> QED
  BY <1>6, <1>7, <1>8, WorthGrows

LEMMA BestScoreGrows ==
  ASSUME ScoresGrow, NEW a \in Nat, NEW b \in Nat, a <= b
  PROVE  BestScore(a) \in Nat /\ BestScore(b) \in Nat /\ BestScore(a) <= BestScore(b)
<1>1. PICK l \in Loadouts : TRUE
  BY ScoreAssumption
<1>2. BestMusic \in Nat
  BY BestMusicFacts
<1>3. Everyone \in Nat
  <2>1. l.profiles \in Seq(DOMAIN ProfileScore)
    BY LoadoutFacts
  <2> QED
    BY <2>1, FollowersAreEveryone
<1>4. /\ CharacterScore[Level(a)] \in Nat /\ CharacterScore[Level(b)] \in Nat
      /\ CharacterScore[Level(a)] <= CharacterScore[Level(b)]
  <2>1. /\ Level(a) \in DOMAIN Threshold /\ Level(b) \in DOMAIN Threshold
        /\ Level(a) <= Level(b)
    BY LevelGrows
  <2>2. CharacterScore \in [DOMAIN Threshold -> Nat]
    BY ScoreAssumption
  <2> QED
    BY <2>1, <2>2 DEF ScoresGrow
<1> QED
  BY <1>2, <1>3, <1>4, WorthGrows DEF BestScore

(* A better score has no fewer stars (StarsFor).                           *)
LEMMA StarsForGrow ==
  ASSUME NEW s \in Stage, NEW a \in Nat, NEW b \in Nat, a <= b
  PROVE  StarsFor(s, a) \in Nat /\ StarsFor(s, b) \in Nat /\ StarsFor(s, a) <= StarsFor(s, b)
<1> DEFINE Won(x) == {i \in 1 .. 3 : \A j \in 1 .. i : x >= GoalScores[s][j]}
<1>1. \A j \in 1 .. 3 : GoalScores[s][j] \in Nat
  BY ScoreAssumption
<1>2. Won(a) \subseteq Won(b)
  <2> SUFFICES ASSUME NEW i \in 1 .. 3, \A j \in 1 .. i : a >= GoalScores[s][j],
                      NEW j \in 1 .. i
               PROVE  b >= GoalScores[s][j]
    OBVIOUS
  <2>1. j \in 1 .. 3 /\ a >= GoalScores[s][j]
    OBVIOUS
  <2> QED
    BY <1>1, <2>1
<1>3. IsFiniteSet(Won(b))
  <2>1. 1 \in Int /\ 3 \in Int
    OBVIOUS
  <2>2. IsFiniteSet(1 .. 3)
    BY <2>1, FS_Interval
  <2>3. Won(b) \subseteq 1 .. 3
    OBVIOUS
  <2> HIDE DEF Won
  <2> QED
    BY <2>2, <2>3, FS_Subset
<1>4. StarsFor(s, a) = (IF s \in Story THEN 0 ELSE Cardinality(Won(a)))
      /\ StarsFor(s, b) = (IF s \in Story THEN 0 ELSE Cardinality(Won(b)))
  BY DEF StarsFor
<1> HIDE DEF Won
<1>5. IsFiniteSet(Won(a)) /\ Cardinality(Won(a)) <= Cardinality(Won(b))
  BY <1>2, <1>3, FS_Subset
<1>6. Cardinality(Won(a)) \in Nat /\ Cardinality(Won(b)) \in Nat
  BY <1>3, <1>5, FS_CardinalityType
<1> QED
  BY <1>4, <1>5, <1>6

(* What a stage is judged by was read before it settles, and experience is *)
(* not lost.                                                               *)
ReadBefore == \A r \in wire : r.cmd.op = "stage" => r.seen <= exp
InReach == \A s \in Stage : star[s] <= StarsFor(s, BestScore(exp))

LEMMA ExperienceGrows ==
  ASSUME TypeOK, [Next]_vars
  PROVE  exp \in Nat /\ exp' \in Nat /\ exp' >= exp
<1>1. exp \in Nat
  BY DEF TypeOK
<1>2. ASSUME exp' = exp PROVE exp' \in Nat /\ exp' >= exp
  BY <1>1, <1>2
<1>3. ASSUME NEW r \in wire, NEW n \in 0 .. 3, NEW k \in Nat, SettleStage(r, n, k)
      PROVE  exp' \in Nat /\ exp' >= exp
  BY <1>1, <1>3, StageFacts
<1>4. ASSUME NEW r \in wire, NEW k \in Nat, SettleStream(r, k)
      PROVE  exp' \in Nat /\ exp' >= exp
  BY <1>1, <1>4, StreamFacts
<1> QED
  BY <1>1, <1>2, <1>3, <1>4, Steps DEF vars, SetClock, SendQuery, Send, Lose,
     ReadPlayer, GetChThird, ClaimChapterReward, progress

LEMMA ReadBeforeStep ==
  ASSUME TypeOK, ReadBefore, [Next]_vars
  PROVE  ReadBefore'
<1>1. exp \in Nat /\ exp' \in Nat /\ exp' >= exp /\ \A r \in wire : r.seen \in Nat
  BY ExperienceGrows DEF TypeOK
<1>2. ASSUME wire' \subseteq wire PROVE ReadBefore'
  BY <1>1, <1>2 DEF ReadBefore
<1>3. ASSUME NEW q, wire' \subseteq wire \cup {q}, q.cmd.op = "stage" => q.seen <= exp'
      PROVE  ReadBefore'
  <2> SUFFICES ASSUME NEW r \in wire', r.cmd.op = "stage" PROVE r.seen <= exp'
    BY DEF ReadBefore
  <2>1. CASE r \in wire
    BY <1>1, <2>1 DEF ReadBefore
  <2>2. CASE r = q
    BY <1>3, <2>2
  <2> QED
    BY <1>3, <2>1, <2>2
<1>4. CASE SendQuery
  <2> DEFINE q == [cmd |-> Query, seq |-> 0, at |-> time, read |-> FALSE, seen |-> 0]
  <2>1. wire' \subseteq wire \cup {q} /\ q.seen <= exp'
    BY <1>1, <1>4 DEF SendQuery
  <2> HIDE DEF q
  <2> QED
    BY <1>3, <2>1
<1>5. ASSUME NEW c \in Command, Send(c) PROVE ReadBefore'
  <2> DEFINE q == [cmd |-> c, seq |-> issued + 1, at |-> time, read |-> FALSE, seen |-> 0]
  <2>1. wire' \subseteq wire \cup {q} /\ q.seen <= exp'
    BY <1>1, <1>5 DEF Send
  <2> HIDE DEF q
  <2> QED
    BY <1>3, <2>1
<1>6. ASSUME NEW r \in wire, ReadPlayer(r) PROVE ReadBefore'
  <2> DEFINE v == IF r.cmd.op = "stream" THEN star[r.cmd.stage] ELSE exp
             q == [r EXCEPT !.read = TRUE, !.seen = v]
  <2>1. wire' \subseteq wire \cup {q} /\ exp' = exp
    BY <1>6 DEF ReadPlayer, progress
  <2>2. q.cmd.op = "stage" => q.seen <= exp'
    BY <1>1, <1>6, <2>1 DEF TypeOK
  <2> HIDE DEF q
  <2> QED
    BY <1>3, <2>1, <2>2
<1>7. ASSUME NEW r \in wire, Settled(r) PROVE ReadBefore'
  BY <1>2, <1>7 DEF Settled
<1> QED
  BY <1>2, <1>4, <1>5, <1>6, <1>7, Steps DEF vars, SetClock, Lose, GetChThird, SettleStage,
     SettleStream, ClaimChapterReward

LEMMA InReachStep ==
  ASSUME ScoresGrow, TypeOK, ReadBefore, InReach, [Next]_vars
  PROVE  InReach'
<1>1. exp \in Nat /\ exp' \in Nat /\ exp' >= exp /\ star \in [Stage -> 0 .. 3]
  BY ExperienceGrows DEF TypeOK
<1>2. ASSUME NEW s \in Stage, NEW a \in Nat, a <= BestScore(exp')
      PROVE  StarsFor(s, a) \in Nat /\ StarsFor(s, BestScore(exp')) \in Nat
             /\ StarsFor(s, a) <= StarsFor(s, BestScore(exp'))
  <2>1. BestScore(exp') \in Nat
    BY <1>1, BestScoreGrows
  <2> QED
    BY <1>2, <2>1, StarsForGrow
<1>3. ASSUME NEW s \in Stage, star'[s] = star[s]
      PROVE  star'[s] <= StarsFor(s, BestScore(exp'))
  <2>1. BestScore(exp) \in Nat /\ BestScore(exp) <= BestScore(exp')
    BY <1>1, BestScoreGrows
  <2>2. star[s] <= StarsFor(s, BestScore(exp))
    BY DEF InReach
  <2> QED
    BY <1>1, <1>2, <1>3, <2>1, <2>2
<1>0. InReach' <=> \A s \in Stage : star'[s] <= StarsFor(s, BestScore(exp'))
  BY DEF InReach
<1>4. ASSUME star' = star PROVE InReach'
  BY <1>0, <1>3, <1>4
<1>5. ASSUME NEW r \in wire, NEW l \in Loadouts, NEW k \in 0 .. MaxCookies,
             ChThirdStage(r, l, k)
      PROVE  InReach'
  <2> DEFINE x == r.cmd.stage
  <2>1. PICK n \in 0 .. 3 :
          /\ n = StarsFor(x, Score(r.seen, l)) /\ r.cmd.op = "stage"
          /\ SettleStage(r, n, k)
    BY <1>5 DEF ChThirdStage
  <2>2. x \in Stage /\ r.seen \in Nat /\ r.seen <= exp'
    BY <1>1, <2>1, WireFacts DEF ReadBefore, TypeOK
  <2>3. star' = [star EXCEPT ![x] = BestStar(@, n)]
    BY <2>1 DEF SettleStage
  <2>4. n <= StarsFor(x, BestScore(exp'))
    <3>1. Score(r.seen, l) \in Nat /\ Score(r.seen, l) <= BestScore(exp')
      BY <1>1, <2>2, ScoreInReach
    <3> HIDE DEF x
    <3> QED
      BY <1>2, <2>1, <2>2, <3>1
  <2>5. star[x] \in Nat /\ n \in Nat /\ Max({star[x], n}) \in {star[x], n}
    <3>1. star[x] \in Nat /\ n \in Nat
      BY <1>1, <2>2
    <3>2. Max({star[x], n}) = IF star[x] >= n THEN star[x] ELSE n
      BY <3>1, MaxOfTwo
    <3> QED
      BY <3>1, <3>2
  <2> HIDE DEF x
  <2>6. star'[x] = star[x] \/ star'[x] = n
    BY <1>1, <2>2, <2>3, <2>5 DEF BestStar
  <2>7. ASSUME NEW s \in Stage PROVE star'[s] <= StarsFor(s, BestScore(exp'))
    <3>1. s # x => star'[s] = star[s]
      BY <1>1, <2>3
    <3> QED
      BY <1>3, <2>4, <2>6, <3>1
  <2> QED
    BY <1>0, <2>7
<1>6. ASSUME NEW r \in wire, NEW k \in 0 .. MaxCookies,
             ChThirdStreamStage(r, k) \/ GetChThirdStarReward(r, k)
      PROVE  InReach'
  BY <1>4, <1>6 DEF ChThirdStreamStage, GetChThirdStarReward, SettleStream,
     ClaimChapterReward, progress
<1> QED
  BY <1>4, <1>5, <1>6 DEF Next, vars, SetClock, SendQuery, Send, Lose, ReadPlayer,
     GetChThird, progress

(* Wherever a higher level is worth no less: no star is beyond the level   *)
(* reached, the best music and every profile counted once, though the      *)
(* level was read before the stage settled (chThirdStage,                  *)
(* calculate_ch3_score).                                                   *)
THEOREM StarsInReach == ASSUME ScoresGrow PROVE Spec => []StarsAreInReach
<1>1. Init => ReadBefore /\ InReach
  <2> SUFFICES ASSUME Init PROVE ReadBefore /\ InReach
    OBVIOUS
  <2>1. wire = {} /\ exp = 0 /\ star = [s \in Stage |-> 0]
    BY DEF Init
  <2>2. ASSUME NEW s \in Stage PROVE star[s] <= StarsFor(s, BestScore(exp))
    <3>1. BestScore(0) \in Nat
      BY BestScoreGrows
    <3>2. StarsFor(s, BestScore(0)) \in Nat
      BY <3>1, StarsForGrow
    <3> QED
      BY <2>1, <3>2
  <2> QED
    BY <2>1, <2>2 DEF ReadBefore, InReach
<1>2. IInv /\ ReadBefore /\ InReach /\ [Next]_vars => (ReadBefore /\ InReach)'
  BY ReadBeforeStep, InReachStep DEF IInv
<1>3. InReach => StarsAreInReach
  BY DEF InReach, StarsAreInReach, BestScore, BestMusic, Everyone, Worth
<1> QED
  BY <1>1, <1>2, <1>3, Ch3Invariant, PTL DEF Spec
=============================================================================
