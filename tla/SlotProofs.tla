----------------------------- MODULE SlotProofs -----------------------------
(***************************************************************************)
(* Proofs about Followers for every guide, every table of levels and every *)
(* set of songs; and about Daily for every number of days, table of        *)
(* requirements and set of missions.                                       *)
(*                                                                         *)
(* The stages there are rows of are those up to the current one (Chain);   *)
(* what the client has counted for its stage is never more than was played *)
(* (GuideWasPlayed), so that no save or request carries more.  The highest *)
(* level the experience reaches is the profile's (Highest).  A song that   *)
(* would be paid if it were claimed has been paid once less than its       *)
(* waiting times and the saves allow (EncoresCount).                       *)
(*                                                                         *)
(* What the client is told of a mission is the next level of the day, as   *)
(* long as it was claimed on one day only and every answer was heard       *)
(* (ToldIsNext).                                                           *)
(***************************************************************************)
EXTENDS Followers, Daily, DataLemmas

(* The types, by the part of the slot they are of.                         *)
QuestTypes ==
  /\ reached \subseteq Stage /\ completed \subseteq reached /\ infinite \subseteq reached
  /\ quantity \in [Stage -> [Condition -> Nat]] /\ claimed \subseteq Stage \X Condition
  /\ questPaid \in [Stage \X Condition -> Nat]

ClientTypes == guide \in GuideRow /\ played \in [Stage -> [Condition -> Nat]]

AffectionTypes ==
  /\ experience \in 0 .. MaxExperience /\ level \in Level
  /\ rewarded \subseteq Level /\ gifts \in 0 .. Gifts /\ levelPaid \in [Level -> Nat]

EncoreTypes ==
  /\ appears \subseteq Song /\ waiting \subseteq Song /\ shown \subseteq Song
  /\ waits \in [Song -> Nat] /\ carried \in [Song -> Nat] /\ encorePaid \in [Song -> Nat]

(* The stages there are rows of.                                           *)
Chain ==
  /\ reached \in {{}} \cup {1 .. s : s \in Stage} /\ completed = reached \ {Current}

(* The conditions that are claimed, and what they paid.                    *)
Claims ==
  \A s \in Stage, c \in Condition :
    /\ s \in completed => <<s, c>> \in claimed
    /\ <<s, c>> \in claimed => s \in reached /\ quantity[s][c] >= Threshold[c]

Paid ==
  \A s \in Stage, c \in Condition :
    questPaid[<<s, c>>] = (IF <<s, c>> \in claimed THEN 1 ELSE 0)

(* The counters of the slot and of the client's row.                       *)
QuestWasPlayed == \A s \in Stage, c \in Condition : quantity[s][c] <= played[s][c]

GuideWasPlayed == \A c \in Condition : guide.quantity[c] <= played[guide.stage][c]

(* The levels.                                                             *)
Highest == \A l \in Level : l <= level <=> LevelAt[l] <= experience

Rewards ==
  \A l \in Level :
    /\ l \in rewarded => l <= level
    /\ levelPaid[l] = (IF l \in rewarded THEN 1 ELSE 0)

(* The payments of each song, with the one it has coming.                  *)
IsDue(m) == m \in appears \/ m \notin waiting

EncoresCount ==
  \A m \in Song : encorePaid[m] + (IF IsDue(m) THEN 1 ELSE 0) <= 1 + waits[m] + carried[m]

FollowersInv ==
  /\ TypeOK /\ GuideIsEarned /\ GuideWasPlayed /\ AffectionIsEarned /\ EncoresCount
-----------------------------------------------------------------------------
LEMMA TypeParts == TypeOK <=> QuestTypes /\ ClientTypes /\ AffectionTypes /\ EncoreTypes
<1>1. {quantity, played} \subseteq [Stage -> [Condition -> Nat]]
      <=> quantity \in [Stage -> [Condition -> Nat]] /\ played \in [Stage -> [Condition -> Nat]]
  OBVIOUS
<1> QED
  BY <1>1 DEF TypeOK, QuestTypes, ClientTypes, AffectionTypes, EncoreTypes

LEMMA GuideParts == GuideIsEarned <=> Chain /\ Claims /\ Paid /\ QuestWasPlayed
<1> QED
  BY DEF GuideIsEarned, Chain, Claims, Paid, QuestWasPlayed

LEMMA AffectionParts == AffectionIsEarned <=> Highest /\ Rewards
<1> QED
  BY DEF AffectionIsEarned, Highest, Rewards

(* The current stage of a chain is its last one (Current).                 *)
LEMMA LastOfChain ==
  ASSUME NEW S, NEW m \in Nat \ {0}, S = 1 .. m
  PROVE  (CHOOSE s \in S : \A r \in S : r <= s) = m
<1>1. m \in S /\ \A r \in S : r <= m
  OBVIOUS
<1>2. \A s \in S : (\A r \in S : r <= s) => s = m
  BY <1>1
<1> QED
  BY <1>1, <1>2

LEMMA CurrentOfChain ==
  ASSUME Chain
  PROVE  /\ Current \in Stage
         /\ reached = {} => Current = 1
         /\ reached # {} => reached = 1 .. Current
<1>1. Stage \subseteq Nat \ {0} /\ 1 \in Stage
  BY FollowersAssumption DEF Stage
<1>2. CASE reached = {}
  BY <1>1, <1>2 DEF Current
<1>3. CASE reached # {}
  <2>1. PICK m \in Stage : reached = 1 .. m
    BY <1>3 DEF Chain
  <2>2. Current = m
    BY <1>1, <1>3, <2>1, LastOfChain DEF Current
  <2> QED
    BY <1>3, <2>1, <2>2
<1> QED
  BY <1>2, <1>3

(* A row of the current stage, and what follows it, keep the chain.        *)
LEMMA ChainFollows ==
  ASSUME NEW m \in Stage, reached' = 1 .. m, completed' = 1 .. m - 1
  PROVE  Chain' /\ Current' = m
<1>1. m \in Nat \ {0}
  BY FollowersAssumption DEF Stage
<1>2. Current' = m
  BY <1>1, LastOfChain DEF Current
<1>3. completed' = reached' \ {Current'}
  BY <1>1, <1>2
<1> QED
  BY <1>2, <1>3 DEF Chain

(* There is a highest level for any experience (Earn).                     *)
HighestFor(e) ==
  CHOOSE l \in Level : /\ LevelAt[l] <= e
                       /\ \A k \in Level : LevelAt[k] <= e => k <= l

LEMMA HighestIsReached ==
  ASSUME NEW e \in Nat
  PROVE  /\ HighestFor(e) \in Level
         /\ \A k \in Level : k <= HighestFor(e) <=> LevelAt[k] <= e
<1> DEFINE n == Len(LevelAt)
           T == {n - k : k \in {l \in Level : LevelAt[l] <= e}}
<1>1. Level = 1 .. n /\ n \in Nat \ {0} /\ \A k \in Level : LevelAt[k] \in Nat
  BY FollowersAssumption DEF Level
<1>2. 1 \in Level /\ LevelAt[1] <= e
  BY <1>1, FollowersAssumption
<1>3. \A i, j \in Level : i <= j => LevelAt[i] <= LevelAt[j]
  BY FollowersAssumption
<1> HIDE DEF n
<1>4. T \subseteq Nat /\ T # {}
  <2>1. \A k \in Level : n - k \in Nat
    BY <1>1
  <2> QED
    BY <1>2, <2>1
<1>5. PICK t \in T : \A y \in T : t <= y
  <2> HIDE DEF T
  <2> QED
    BY <1>4, LeastNatural
<1>6. PICK l \in Level : LevelAt[l] <= e /\ t = n - l
  OBVIOUS
<1>7. \A k \in Level : LevelAt[k] <= e => k <= l
  <2> SUFFICES ASSUME NEW k \in Level, LevelAt[k] <= e PROVE k <= l
    OBVIOUS
  <2>1. n - l <= n - k
    BY <1>5, <1>6
  <2> QED
    BY <1>1, <2>1
<1>8. /\ HighestFor(e) \in Level /\ LevelAt[HighestFor(e)] <= e
      /\ \A k \in Level : LevelAt[k] <= e => k <= HighestFor(e)
  BY <1>6, <1>7 DEF HighestFor
<1> QED
  BY <1>1, <1>3, <1>8
-----------------------------------------------------------------------------

(* What a request leaves of the chain: a row of the current stage, and of  *)
(* the next one when it is complete.                                       *)
LEMMA ChainEffect ==
  ASSUME Chain, reached' = reached \cup {Current}, completed' = completed
  PROVE  /\ Chain' /\ Current' = Current /\ Current \in Stage
         /\ reached' = 1 .. Current
<1>1. Current \in Stage /\ Current \in Nat \ {0}
  BY CurrentOfChain, FollowersAssumption DEF Stage
<1>2. reached' = 1 .. Current
  BY <1>1, CurrentOfChain
<1>3. completed' = 1 .. Current - 1
  BY <1>1, CurrentOfChain DEF Chain
<1> QED
  BY <1>1, <1>2, <1>3, ChainFollows

LEMMA NextStageEffect ==
  ASSUME Chain, Current <= LastStage, completed' = completed \cup {Current},
         reached' = reached \cup {Current} \cup {Current + 1}
  PROVE  /\ Chain' /\ Current' = Current + 1 /\ Current \in Stage /\ Current + 1 \in Stage
         /\ reached' = 1 .. Current + 1
<1>1. Current \in Stage /\ Current \in Nat \ {0} /\ Current + 1 \in Stage
  BY CurrentOfChain, FollowersAssumption DEF Stage
<1>2. reached' = 1 .. Current + 1
  BY <1>1, CurrentOfChain
<1>3. completed' = 1 .. (Current + 1) - 1
  BY <1>1, CurrentOfChain DEF Chain
<1> QED
  BY <1>1, <1>2, <1>3, ChainFollows

(* What a request for the next quest does to the rows, whichever stage it  *)
(* asks for (OtherStage, AdvanceStage).                                    *)
LEMMA AdvanceEffect ==
  ASSUME Chain, ClientTypes, NEW c \in Condition, NEW h \in BOOLEAN, AdvanceQuest(c, h)
  PROVE  /\ Chain' /\ Current' \in Stage /\ reached \subseteq reached' /\ reached' \subseteq Stage
         /\ guide.stage = Current => Current \in reached'
<1>1. guide.stage <= LastStage /\ guide.stage \in Stage
  BY DEF AdvanceQuest, ClientTypes, GuideRow
<1>2. \A m \in Stage : 1 .. m \subseteq Stage
  BY FollowersAssumption DEF Stage
<1>3. CASE OtherStage(guide.stage)
  BY <1>2, <1>3, ChainEffect DEF OtherStage
<1>4. CASE AdvanceStage(guide.stage, c, guide.quantity[c])
  <2>1. Current = guide.stage
    BY <1>4 DEF AdvanceStage
  <2>2. CASE completed' = completed /\ reached' = reached \cup {Current}
    BY <1>2, <2>2, ChainEffect
  <2>3. CASE /\ completed' = completed \cup {Current}
             /\ reached' = reached \cup {Current} \cup {Current + 1}
    BY <1>1, <1>2, <2>1, <2>3, NextStageEffect
  <2> QED
    BY <1>4, <2>1, <2>2, <2>3 DEF AdvanceStage
<1> QED
  BY <1>3, <1>4 DEF AdvanceQuest

(* What a request leaves when it is for the current stage (AdvanceStage).  *)
LEMMA InfiniteEffect ==
  ASSUME Chain, NEW h \in BOOLEAN, SetFollowerQuestInfinite(h)
  PROVE  /\ Chain' /\ Current' = Current /\ Current \in Stage /\ Current \in reached'
         /\ reached \subseteq reached' /\ reached' \subseteq Stage
         /\ infinite' = infinite \cup {Current}
         /\ UNCHANGED <<quantity, completed, claimed, questPaid, played>>
         /\ guide' = IF h THEN RowOf(Current') ELSE guide
<1>1. \A m \in Stage : m \in 1 .. m /\ 1 .. m \subseteq Stage
  BY FollowersAssumption DEF Stage
<1>2. /\ reached' = reached \cup {Current} /\ completed' = completed
      /\ infinite' = infinite \cup {Current}
      /\ UNCHANGED <<quantity, completed, claimed, questPaid, played>>
      /\ guide' = IF h THEN RowOf(Current) ELSE guide
  BY DEF SetFollowerQuestInfinite, SetInfinite, paid
<1> QED
  BY <1>1, <1>2, ChainEffect

LEMMA SaveEffect ==
  ASSUME Chain, UserSave
  PROVE  /\ Chain' /\ Current' = Current /\ Current \in Stage /\ Current \in reached'
         /\ reached \subseteq reached' /\ reached' \subseteq Stage
         /\ UNCHANGED <<completed, infinite, claimed, questPaid, played, guide>>
<1>1. \A m \in Stage : m \in 1 .. m /\ 1 .. m \subseteq Stage
  BY FollowersAssumption DEF Stage
<1>2. /\ reached' = reached \cup {Current}
      /\ UNCHANGED <<completed, infinite, claimed, questPaid, played, guide>>
  BY DEF UserSave, client, paid
<1> QED
  BY <1>1, <1>2, ChainEffect

(* The client counts one more of a condition (Play).                       *)
LEMMA PlayEffect ==
  ASSUME ClientTypes, NEW c \in Condition, Play(c)
  PROVE  /\ quantity' = quantity /\ guide' \in GuideRow
         /\ played' \in [Stage -> [Condition -> Nat]]
         /\ guide'.stage = guide.stage
         /\ \A s \in Stage, d \in Condition : played'[s][d] >= played[s][d]
         /\ \A d \in Condition :
              guide'.quantity[d] = guide.quantity[d] \/ guide'.quantity[d] <= played'[guide.stage][d]
<1> DEFINE q == guide.quantity
           row == played[guide.stage]
           top == Larger(row[c], q[c] + 1)
<1>1. /\ guide = [stage |-> guide.stage, quantity |-> q, claimed |-> guide.claimed]
      /\ guide.stage \in Stage /\ q \in [Condition -> Nat] /\ guide.claimed \subseteq Condition
  BY DEF ClientTypes, GuideRow
<1>2. guide' = [stage |-> guide.stage, quantity |-> [q EXCEPT ![c] = @ + 1],
                claimed |-> guide.claimed]
  BY <1>1 DEF Play
<1>3. [q EXCEPT ![c] = @ + 1] \in [Condition -> Nat]
  BY <1>1
<1>4. guide' \in GuideRow /\ guide'.stage = guide.stage /\ guide'.quantity = [q EXCEPT ![c] = @ + 1]
  BY <1>1, <1>2, <1>3 DEF GuideRow
<1>5. row \in [Condition -> Nat] /\ q[c] + 1 \in Nat
  BY <1>1 DEF ClientTypes
<1>6. top \in Nat /\ top >= row[c] /\ top >= q[c] + 1
  BY <1>5 DEF Larger
<1>7. played' = [played EXCEPT ![guide.stage] = [row EXCEPT ![c] = top]]
  BY <1>1, <1>4 DEF Play
<1> HIDE DEF q, row, top
<1>8. played' \in [Stage -> [Condition -> Nat]]
  BY <1>1, <1>5, <1>6, <1>7 DEF ClientTypes
<1>9. \A s \in Stage, d \in Condition :
        played'[s][d] = IF s = guide.stage /\ d = c THEN top ELSE played[s][d]
  BY <1>1, <1>5, <1>7 DEF ClientTypes, row
<1>10. \A d \in Condition : guide'.quantity[d] = IF d = c THEN q[c] + 1 ELSE q[d]
  BY <1>1, <1>4
<1>11. \A s \in Stage, d \in Condition : played[s][d] \in Nat
  BY DEF ClientTypes
<1>12. \A s \in Stage, d \in Condition : played'[s][d] >= played[s][d]
  BY <1>1, <1>6, <1>9, <1>11 DEF row
<1>13. guide'.quantity[c] <= played'[guide.stage][c]
  BY <1>1, <1>5, <1>6, <1>9, <1>10
<1>14. \A d \in Condition :
         guide'.quantity[d] = q[d] \/ guide'.quantity[d] <= played'[guide.stage][d]
  BY <1>10, <1>13
<1>15. quantity' = quantity
  BY DEF Play, quests
<1> QED
  BY <1>4, <1>8, <1>12, <1>14, <1>15 DEF q

(* What a request for the next quest does to the conditions: nothing at    *)
(* another stage, and at its own it counts and may claim one               *)
(* (OtherStage, AdvanceStage).                                             *)
LEMMA CountedEffect ==
  ASSUME QuestTypes, ClientTypes, NEW c \in Condition, NEW h \in BOOLEAN, AdvanceQuest(c, h)
  PROVE  /\ quantity' \in [Stage -> [Condition -> Nat]]
         /\ \A s \in Stage, d \in Condition :
              /\ quantity'[s][d] >= quantity[s][d]
              /\ \/ quantity'[s][d] = quantity[s][d]
                 \/ s = guide.stage /\ quantity'[s][d] = guide.quantity[d]
              /\ <<s, d>> \in claimed' \ claimed => /\ s = guide.stage /\ s = Current
                                                  /\ quantity'[s][d] >= Threshold[d]
              /\ s \in completed' \ completed => <<s, d>> \in claimed'
         /\ claimed \subseteq claimed' /\ claimed' \subseteq Stage \X Condition
         /\ \A r \in Stage \X Condition :
              questPaid'[r] = IF r \in claimed' \ claimed THEN questPaid[r] + 1 ELSE questPaid[r]
         /\ questPaid' \in [Stage \X Condition -> Nat]
         /\ infinite' = infinite /\ played' = played
         /\ guide' = IF h THEN RowOf(Current') ELSE guide
<1> DEFINE s == guide.stage
           now == Larger(quantity[s][c], guide.quantity[c])
<1>0. infinite' = infinite /\ played' = played /\ guide' = IF h THEN RowOf(Current') ELSE guide
  BY DEF AdvanceQuest, Hear, Answered
<1>1. /\ s \in Stage /\ guide.quantity \in [Condition -> Nat]
      /\ quantity \in [Stage -> [Condition -> Nat]]
      /\ questPaid \in [Stage \X Condition -> Nat] /\ claimed \subseteq Stage \X Condition
  BY DEF ClientTypes, GuideRow, QuestTypes
<1>2. \A r \in Stage, d \in Condition : quantity[r][d] \in Nat
  BY <1>1
<1>3. CASE OtherStage(s)
  <2>1. UNCHANGED <<quantity, claimed, completed, questPaid>>
    BY <1>3 DEF OtherStage
  <2> QED
    BY <1>0, <1>1, <1>2, <2>1
<1>4. CASE AdvanceStage(s, c, guide.quantity[c])
  <2>1. now \in Nat /\ now >= quantity[s][c] /\ now \in {quantity[s][c], guide.quantity[c]}
    BY <1>1, <1>2 DEF Larger
  <2>2. /\ s = Current
        /\ quantity' = [quantity EXCEPT ![s] = [quantity[s] EXCEPT ![c] = now]]
    BY <1>1, <1>4 DEF AdvanceStage
  <2>3. /\ claimed' = IF now >= Threshold[c] THEN claimed \cup {<<s, c>>} ELSE claimed
        /\ questPaid' = [r \in Stage \X Condition |->
                           IF r \in claimed' \ claimed THEN questPaid[r] + 1 ELSE questPaid[r]]
        /\ completed' = IF \A d \in Condition : <<s, d>> \in claimed'
                          THEN completed \cup {s} ELSE completed
    BY <1>4 DEF AdvanceStage, Suffices
  <2> HIDE DEF now, s
  <2>4. quantity' \in [Stage -> [Condition -> Nat]]
    BY <1>1, <2>1, <2>2
  <2>5. \A r \in Stage, d \in Condition :
          quantity'[r][d] = IF r = s /\ d = c THEN now ELSE quantity[r][d]
    BY <1>1, <2>2
  <2>6. \A r \in Stage, d \in Condition :
          /\ quantity'[r][d] >= quantity[r][d]
          /\ \/ quantity'[r][d] = quantity[r][d]
             \/ r = s /\ quantity'[r][d] = guide.quantity[d]
    BY <1>2, <2>1, <2>5
  <2>7. \A r \in Stage, d \in Condition :
          <<r, d>> \in claimed' \ claimed =>
            r = s /\ r = Current /\ quantity'[r][d] >= Threshold[d]
    BY <2>2, <2>3, <2>5
  <2>8. \A r \in completed' \ completed, d \in Condition : <<r, d>> \in claimed'
    BY <2>3
  <2>9. claimed \subseteq claimed' /\ claimed' \subseteq Stage \X Condition
    BY <1>1, <2>3
  <2>10. questPaid' \in [Stage \X Condition -> Nat]
    BY <1>1, <2>3
  <2> QED
    BY <1>0, <2>3, <2>4, <2>6, <2>7, <2>8, <2>9, <2>10 DEF s
<1> QED
  BY <1>3, <1>4 DEF AdvanceQuest

(* A save raises the counters of the current stage to those of the         *)
(* client's row, if that is its stage (UserSave).                          *)
LEMMA SavedEffect ==
  ASSUME QuestTypes, ClientTypes, UserSave
  PROVE  /\ quantity' \in [Stage -> [Condition -> Nat]]
         /\ \A s \in Stage, d \in Condition :
              /\ quantity'[s][d] >= quantity[s][d]
              /\ \/ quantity'[s][d] = quantity[s][d]
                 \/ s = guide.stage /\ quantity'[s][d] = guide.quantity[d]
<1>1. /\ guide.quantity \in [Condition -> Nat] /\ quantity \in [Stage -> [Condition -> Nat]]
      /\ \A s \in Stage, d \in Condition : quantity[s][d] \in Nat
  BY DEF ClientTypes, GuideRow, QuestTypes
<1>2. quantity' =
        [s \in Stage |->
           IF Accepted(guide.stage) /\ s = Current
             THEN [c \in Condition |->
                     IF <<s, c>> \in claimed THEN quantity[s][c]
                     ELSE Larger(quantity[s][c], guide.quantity[c])]
             ELSE quantity[s]]
  BY DEF UserSave
<1>3. \A s \in Stage, d \in Condition :
        quantity'[s][d] = IF Accepted(guide.stage) /\ s = Current /\ <<s, d>> \notin claimed
                            THEN Larger(quantity[s][d], guide.quantity[d])
                            ELSE quantity[s][d]
  BY <1>2
<1>4. \A s \in Stage, d \in Condition : Larger(quantity[s][d], guide.quantity[d]) \in Nat
  BY <1>1 DEF Larger
<1>5. quantity' \in [Stage -> [Condition -> Nat]]
  BY <1>1, <1>2, <1>4
<1>6. Accepted(guide.stage) => guide.stage = Current
  BY DEF Accepted
<1>7. \A s \in Stage, d \in Condition :
        \/ quantity'[s][d] = quantity[s][d]
        \/ /\ s = guide.stage /\ quantity'[s][d] = guide.quantity[d]
           /\ guide.quantity[d] >= quantity[s][d]
  <2> SUFFICES ASSUME NEW s \in Stage, NEW d \in Condition
               PROVE  \/ quantity'[s][d] = quantity[s][d]
                      \/ /\ s = guide.stage /\ quantity'[s][d] = guide.quantity[d]
                         /\ guide.quantity[d] >= quantity[s][d]
    OBVIOUS
  <2>1. quantity[s][d] \in Nat /\ guide.quantity[d] \in Nat
    BY <1>1
  <2>2. \/ quantity'[s][d] = quantity[s][d]
        \/ s = guide.stage /\ quantity'[s][d] = Larger(quantity[s][d], guide.quantity[d])
    BY <1>3, <1>6
  <2> QED
    BY <2>1, <2>2 DEF Larger
<1>8. \A s \in Stage, d \in Condition : quantity[s][d] \in Nat /\ quantity'[s][d] \in Nat
  BY <1>1, <1>5
<1>9. \A s \in Stage, d \in Condition : quantity'[s][d] >= quantity[s][d]
  BY <1>7, <1>8
<1> QED
  BY <1>5, <1>7, <1>9

(* The row the client is told is that of the stage (RowOf).                *)
LEMMA RowIsOfStage ==
  ASSUME NEW s \in Stage, QuestTypes'
  PROVE  /\ RowOf(s) \in GuideRow /\ RowOf(s).stage = s /\ RowOf(s).quantity = quantity'[s]
<1> QED
  BY DEF RowOf, GuideRow, QuestTypes

LEMMA LevelsAreNumbers == Level \subseteq Nat
<1> QED
  BY FollowersAssumption DEF Level

(* What affection earned does: it grows, to the highest level it reaches   *)
(* (Earn).                                                                 *)
LEMMA Earned ==
  ASSUME AffectionTypes, Highest, NEW n \in Nat, Earn(n)
  PROVE  /\ experience' \in 0 .. MaxExperience /\ experience' >= experience
         /\ level' \in Level /\ level' >= level
         /\ \A k \in Level : k <= level' <=> LevelAt[k] <= experience'
<1>1. experience \in Nat /\ experience' = experience + n /\ experience' \in 0 .. MaxExperience
  BY FollowersAssumption DEF AffectionTypes, Earn
<1>2. level' = HighestFor(experience')
  BY DEF Earn, HighestFor
<1>3. level' \in Level /\ \A k \in Level : k <= level' <=> LevelAt[k] <= experience'
  BY <1>1, <1>2, HighestIsReached
<1>4. level \in Level /\ LevelAt[level] <= experience /\ LevelAt[level] \in Nat
  <2>1. level \in Level /\ level <= level
    BY FollowersAssumption DEF AffectionTypes, Level
  <2> QED
    BY <2>1, FollowersAssumption DEF Highest, Level
<1>5. LevelAt[level] <= experience'
  BY <1>1, <1>4
<1> QED
  BY <1>1, <1>3, <1>4, <1>5 DEF Level

(* Whatever earns affection, a gift, an advertisement or the encores due.  *)
LEMMA AffectionEffect ==
  ASSUME AffectionTypes, Highest,
         \/ \E n \in 0 .. Gifts : SetFollowerProfileGift(n)
         \/ SetAdReward
         \/ \E ms \in SUBSET Song, h \in BOOLEAN : GetMusicReward(ms, h)
  PROVE  /\ experience' \in 0 .. MaxExperience /\ level' \in Level /\ level' >= level
         /\ \A k \in Level : k <= level' <=> LevelAt[k] <= experience'
         /\ gifts' \in 0 .. Gifts /\ rewarded' = rewarded /\ levelPaid' = levelPaid
<1>1. \A n \in Nat : n * Gain \in Nat
  BY FollowersAssumption
<1>2. ASSUME NEW n \in 0 .. Gifts, SetFollowerProfileGift(n)
      PROVE  /\ \E k \in Nat : Earn(k)
             /\ gifts' \in 0 .. Gifts /\ rewarded' = rewarded /\ levelPaid' = levelPaid
  <2>1. n * Gain \in Nat /\ Earn(n * Gain)
    BY <1>1, <1>2 DEF SetFollowerProfileGift, GiveGift
  <2>2. gifts' \in 0 .. Gifts
    BY <1>2, FollowersAssumption
      DEF SetFollowerProfileGift, GiveGift, AffectionTypes
  <2>3. \E k \in Nat : Earn(k)
    BY <2>1
  <2> QED
    BY <1>2, <2>2, <2>3 DEF SetFollowerProfileGift, paid
<1>3. ASSUME SetAdReward
      PROVE  /\ \E k \in Nat : Earn(k)
             /\ gifts' \in 0 .. Gifts /\ rewarded' = rewarded /\ levelPaid' = levelPaid
  BY <1>3, FollowersAssumption DEF SetAdReward, AffectionTypes, paid
<1>4. ASSUME NEW ms \in SUBSET Song, NEW h \in BOOLEAN, GetMusicReward(ms, h)
      PROVE  /\ \E k \in Nat : Earn(k)
             /\ gifts' \in 0 .. Gifts /\ rewarded' = rewarded /\ levelPaid' = levelPaid
  <2>1. IsFiniteSet(Due(ms))
    BY FS_Subset, FollowersAssumption DEF Due
  <2>2. Cardinality(Due(ms)) \in Nat
    BY <2>1, FS_CardinalityType
  <2>3. Cardinality(Due(ms)) * Gain \in Nat /\ Earn(Cardinality(Due(ms)) * Gain)
    BY <1>1, <1>4, <2>2 DEF GetMusicReward, ClaimEncores
  <2>4. \E k \in Nat : Earn(k)
    BY <2>3
  <2> QED
    BY <1>4, <2>4 DEF GetMusicReward, AffectionTypes, paid
<1>5. PICK k \in Nat : Earn(k)
  BY <1>2, <1>3, <1>4
<1>6. gifts' \in 0 .. Gifts /\ rewarded' = rewarded /\ levelPaid' = levelPaid
  BY <1>2, <1>3, <1>4
<1> QED
  BY <1>5, <1>6, Earned

(* Every step keeps the types.                                             *)
LEMMA QuestTypesStep ==
  ASSUME QuestTypes, ClientTypes, Chain, [Next]_vars
  PROVE  QuestTypes'
<1>1. ASSUME NEW c \in Condition, NEW h \in BOOLEAN, AdvanceQuest(c, h)
      PROVE  QuestTypes'
  <2>1. /\ Chain' /\ reached \subseteq reached' /\ reached' \subseteq Stage
        /\ guide.stage = Current => Current \in reached'
    BY <1>1, AdvanceEffect
  <2>2. /\ quantity' \in [Stage -> [Condition -> Nat]] /\ claimed' \subseteq Stage \X Condition
        /\ questPaid' \in [Stage \X Condition -> Nat] /\ infinite' = infinite
    BY <1>1, CountedEffect
  <2>3. completed' \subseteq reached'
    BY <2>1 DEF Chain
  <2> QED
    BY <2>1, <2>2, <2>3 DEF QuestTypes
<1>2. CASE UserSave
  <2>1. /\ reached \subseteq reached' /\ reached' \subseteq Stage
        /\ UNCHANGED <<completed, infinite, claimed, questPaid>>
    BY <1>2, SaveEffect
  <2>2. quantity' \in [Stage -> [Condition -> Nat]]
    BY <1>2, SavedEffect
  <2> QED
    BY <2>1, <2>2 DEF QuestTypes
<1>3. ASSUME NEW h \in BOOLEAN, SetFollowerQuestInfinite(h)
      PROVE  QuestTypes'
  BY <1>3, InfiniteEffect DEF QuestTypes
<1>4. CASE UNCHANGED <<quests, questPaid>>
  BY <1>4 DEF QuestTypes, quests
<1> QED
  BY <1>1, <1>2, <1>3, <1>4
    DEF Next, Play, Login, SetFollowerProfileGift, SetAdReward, Elapse, Appear,
        SetUserFollowerProfileReward, GetMusicReward, quests, affection, encore,
        paid, client, vars

LEMMA ClientTypesStep ==
  ASSUME QuestTypes, QuestTypes', ClientTypes, Chain, [Next]_vars
  PROVE  ClientTypes'
<1>1. ASSUME NEW c \in Condition, Play(c)
      PROVE  ClientTypes'
  BY <1>1, PlayEffect DEF QuestTypes, ClientTypes
<1>2. ASSUME NEW c \in Condition, NEW h \in BOOLEAN, AdvanceQuest(c, h)
      PROVE  ClientTypes'
  BY <1>2, AdvanceEffect, CountedEffect, RowIsOfStage
    DEF QuestTypes, ClientTypes
<1>3. CASE Login
  BY <1>3, RowIsOfStage, CurrentOfChain
    DEF Login, quests, Current, QuestTypes, ClientTypes
<1>4. ASSUME NEW h \in BOOLEAN, SetFollowerQuestInfinite(h)
      PROVE  ClientTypes'
  BY <1>4, InfiniteEffect, RowIsOfStage DEF QuestTypes, ClientTypes
<1>5. CASE UNCHANGED client
  BY <1>5 DEF ClientTypes, client
<1> QED
  BY <1>1, <1>2, <1>3, <1>4, <1>5
    DEF Next, UserSave, SetFollowerProfileGift, SetAdReward, Elapse, Appear,
        SetUserFollowerProfileReward, GetMusicReward, vars

LEMMA AffectionTypesStep ==
  ASSUME AffectionTypes, Highest, [Next]_vars
  PROVE  AffectionTypes'
<1>1. ASSUME NEW n \in 0 .. Gifts, SetFollowerProfileGift(n)
      PROVE  AffectionTypes'
  BY <1>1, AffectionEffect DEF AffectionTypes
<1>2. CASE SetAdReward
  BY <1>2, AffectionEffect DEF AffectionTypes
<1>3. ASSUME NEW ls \in SUBSET Level, SetUserFollowerProfileReward(ls)
      PROVE  AffectionTypes'
  BY <1>3
    DEF SetUserFollowerProfileReward, affection, AffectionTypes, ClaimLevels,
        AffectionTypes
<1>4. ASSUME NEW ms \in SUBSET Song, NEW h \in BOOLEAN, GetMusicReward(ms, h)
      PROVE  AffectionTypes'
  BY <1>4, AffectionEffect DEF AffectionTypes
<1>5. CASE UNCHANGED <<affection, rewarded, gifts, levelPaid>>
  BY <1>5 DEF AffectionTypes, affection
<1> QED
  BY <1>1, <1>2, <1>3, <1>4, <1>5
    DEF Next, Play, AdvanceQuest, UserSave, Login, SetFollowerQuestInfinite,
        Elapse, Appear, quests, affection, encore, paid, client, vars

(* A history of songs counts on.                                           *)
LEMMA MoreCounts ==
  ASSUME NEW tally \in [Song -> Nat], NEW ms
  PROVE  /\ More(tally, ms) \in [Song -> Nat]
         /\ \A m \in Song : More(tally, ms)[m] = tally[m] + (IF m \in ms THEN 1 ELSE 0)
  BY DEF More

LEMMA EncoreTypesStep ==
  ASSUME EncoreTypes, [Next]_vars
  PROVE  EncoreTypes'
<1>1. CASE UserSave
  BY <1>1, MoreCounts DEF UserSave, SaveEncores, EncoreTypes, paid
<1>2. CASE Login
  BY <1>2 DEF Login, EncoreTypes, paid
<1>3. ASSUME NEW m \in Song, Elapse(m)
      PROVE  EncoreTypes'
  BY <1>3, MoreCounts DEF Elapse, EncoreTypes, paid
<1>4. ASSUME NEW m \in Song, Appear(m)
      PROVE  EncoreTypes'
  BY <1>4 DEF Appear, EncoreTypes, paid
<1>5. ASSUME NEW ms \in SUBSET Song, NEW h \in BOOLEAN, GetMusicReward(ms, h)
      PROVE  EncoreTypes'
  BY <1>5, MoreCounts DEF GetMusicReward, EncoreTypes, Due, ClaimEncores
<1>6. CASE UNCHANGED <<encore, encorePaid>>
  BY <1>6 DEF EncoreTypes, encore
<1> QED
  BY <1>1, <1>2, <1>3, <1>4, <1>5, <1>6
    DEF Next, Play, AdvanceQuest, SetFollowerQuestInfinite,
        SetFollowerProfileGift, SetAdReward, SetUserFollowerProfileReward,
        quests, affection, encore, paid, client, vars

(* The chain grows stage by stage.                                         *)
LEMMA ChainStep ==
  ASSUME Chain, ClientTypes, [Next]_vars
  PROVE  Chain'
<1>1. ASSUME NEW c \in Condition, NEW h \in BOOLEAN, AdvanceQuest(c, h)
      PROVE  Chain'
  BY <1>1, AdvanceEffect, CountedEffect
<1>2. CASE UserSave
  BY <1>2, SaveEffect, SavedEffect
<1>3. ASSUME NEW h \in BOOLEAN, SetFollowerQuestInfinite(h)
      PROVE  Chain'
  BY <1>3, InfiniteEffect
<1>4. CASE UNCHANGED quests
  BY <1>4 DEF Chain, quests, Current
<1> QED
  BY <1>1, <1>2, <1>3, <1>4
    DEF Next, Play, Login, SetFollowerProfileGift, SetAdReward, Elapse, Appear,
        SetUserFollowerProfileReward, GetMusicReward, quests, affection, encore,
        paid, client, vars

(* A condition is claimed when its counter suffices, and only then.        *)
LEMMA ClaimsStep ==
  ASSUME QuestTypes, QuestTypes', ClientTypes, Chain, Claims, [Next]_vars
  PROVE  Claims'
<1>1. ASSUME NEW c \in Condition, NEW h \in BOOLEAN, AdvanceQuest(c, h)
      PROVE  Claims'
  <2>1. /\ Chain' /\ reached \subseteq reached' /\ reached' \subseteq Stage
        /\ guide.stage = Current => Current \in reached'
    BY <1>1, AdvanceEffect
  <2>2. \A s \in Stage, d \in Condition :
          /\ quantity'[s][d] >= quantity[s][d]
          /\ <<s, d>> \in claimed' \ claimed => /\ s = guide.stage /\ s = Current
                                              /\ quantity'[s][d] >= Threshold[d]
          /\ s \in completed' \ completed => <<s, d>> \in claimed'
          /\ <<s, d>> \in claimed => <<s, d>> \in claimed'
    BY <1>1, CountedEffect
  <2>3. \A s \in Stage, d \in Condition :
          quantity[s][d] \in Nat /\ quantity'[s][d] \in Nat /\ Threshold[d] \in Nat
    BY FollowersAssumption DEF QuestTypes
  <2> SUFFICES ASSUME NEW s \in Stage, NEW d \in Condition
               PROVE  /\ s \in completed' => <<s, d>> \in claimed'
                      /\ <<s, d>> \in claimed'
                           => s \in reached' /\ quantity'[s][d] >= Threshold[d]
    BY DEF Claims
  <2>4. <<s, d>> \in claimed => s \in reached /\ quantity[s][d] >= Threshold[d]
    BY DEF Claims
  <2>5. s \in completed => <<s, d>> \in claimed
    BY DEF Claims
  <2> QED
    BY <2>1, <2>2, <2>3, <2>4, <2>5
<1>2. CASE UserSave
  <2>1. reached \subseteq reached' /\ UNCHANGED <<completed, claimed>>
    BY <1>2, SaveEffect
  <2>2. \A s \in Stage, d \in Condition : quantity'[s][d] >= quantity[s][d]
    BY <1>2, SavedEffect
  <2>3. \A s \in Stage, d \in Condition :
          quantity[s][d] \in Nat /\ quantity'[s][d] \in Nat /\ Threshold[d] \in Nat
    BY FollowersAssumption DEF QuestTypes
  <2> SUFFICES ASSUME NEW s \in Stage, NEW d \in Condition
               PROVE  /\ s \in completed' => <<s, d>> \in claimed'
                      /\ <<s, d>> \in claimed'
                           => s \in reached' /\ quantity'[s][d] >= Threshold[d]
    BY DEF Claims
  <2>4. <<s, d>> \in claimed => s \in reached /\ quantity[s][d] >= Threshold[d]
    BY DEF Claims
  <2>5. s \in completed => <<s, d>> \in claimed
    BY DEF Claims
  <2> QED
    BY <2>1, <2>2, <2>3, <2>4, <2>5
<1>3. ASSUME NEW h \in BOOLEAN, SetFollowerQuestInfinite(h)
      PROVE  Claims'
  BY <1>3, InfiniteEffect DEF Claims
<1>4. CASE UNCHANGED quests
  BY <1>4 DEF Claims, quests
<1> QED
  BY <1>1, <1>2, <1>3, <1>4
    DEF Next, Play, Login, SetFollowerProfileGift, SetAdReward, Elapse, Appear,
        SetUserFollowerProfileReward, GetMusicReward, quests, affection, encore,
        paid, client, vars

LEMMA PaidStep ==
  ASSUME QuestTypes, ClientTypes, Chain, Paid, [Next]_vars
  PROVE  Paid'
<1>1. ASSUME NEW c \in Condition, NEW h \in BOOLEAN, AdvanceQuest(c, h)
      PROVE  Paid'
  <2>1. /\ claimed \subseteq claimed'
        /\ \A r \in Stage \X Condition :
             questPaid'[r] = IF r \in claimed' \ claimed THEN questPaid[r] + 1 ELSE questPaid[r]
    BY <1>1, CountedEffect
  <2>2. \A s \in Stage, d \in Condition :
          questPaid'[<<s, d>>] = IF <<s, d>> \in claimed' \ claimed THEN questPaid[<<s, d>>] + 1
                                 ELSE questPaid[<<s, d>>]
    BY <2>1
  <2>3. claimed \subseteq claimed'
    BY <2>1
  <2> SUFFICES ASSUME NEW s \in Stage, NEW d \in Condition
               PROVE  questPaid'[<<s, d>>] = IF <<s, d>> \in claimed' THEN 1 ELSE 0
    BY DEF Paid
  <2>4. questPaid[<<s, d>>] = IF <<s, d>> \in claimed THEN 1 ELSE 0
    BY DEF Paid
  <2> QED
    BY <2>2, <2>3, <2>4
<1>2. CASE UserSave
  BY <1>2, SaveEffect DEF Paid
<1>3. ASSUME NEW h \in BOOLEAN, SetFollowerQuestInfinite(h)
      PROVE  Paid'
  BY <1>3, InfiniteEffect DEF Paid, QuestTypes
<1>4. CASE UNCHANGED <<claimed, questPaid>>
  BY <1>4 DEF Paid
<1> QED
  BY <1>1, <1>2, <1>3, <1>4
    DEF Next, Play, Login, SetFollowerProfileGift, SetAdReward, Elapse, Appear,
        SetUserFollowerProfileReward, GetMusicReward, quests, affection, encore,
        paid, client, vars

(* What the slot has counted was played at that stage.                     *)
LEMMA QuestWasPlayedStep ==
  ASSUME QuestTypes, QuestTypes', ClientTypes, ClientTypes', Chain, GuideWasPlayed, QuestWasPlayed, [Next]_vars
  PROVE  QuestWasPlayed'
<1>1. ASSUME NEW c \in Condition, Play(c)
      PROVE  QuestWasPlayed'
  BY <1>1, PlayEffect DEF QuestWasPlayed, QuestTypes, ClientTypes
<1>2. ASSUME NEW c \in Condition, NEW h \in BOOLEAN, AdvanceQuest(c, h)
      PROVE  QuestWasPlayed'
  BY <1>2, AdvanceEffect, CountedEffect
    DEF QuestWasPlayed, GuideWasPlayed, QuestTypes, ClientTypes, GuideRow
<1>3. CASE UserSave
  BY <1>3, SaveEffect, SavedEffect DEF QuestWasPlayed, GuideWasPlayed
<1>4. ASSUME NEW h \in BOOLEAN, SetFollowerQuestInfinite(h)
      PROVE  QuestWasPlayed'
  BY <1>4, InfiniteEffect DEF QuestWasPlayed
<1>5. CASE UNCHANGED <<quantity, played>>
  BY <1>5 DEF QuestWasPlayed
<1> QED
  BY <1>1, <1>2, <1>3, <1>4, <1>5
    DEF Next, Login, SetFollowerProfileGift, SetAdReward, Elapse, Appear,
        SetUserFollowerProfileReward, GetMusicReward, quests, client, vars

LEMMA GuideWasPlayedStep ==
  ASSUME QuestTypes, QuestTypes', ClientTypes, ClientTypes', Chain, Chain', QuestWasPlayed', GuideWasPlayed, [Next]_vars
  PROVE  GuideWasPlayed'
<1>1. ASSUME NEW c \in Condition, Play(c)
      PROVE  GuideWasPlayed'
  BY <1>1, PlayEffect DEF GuideWasPlayed, ClientTypes, GuideRow
<1>2. ASSUME NEW c \in Condition, NEW h \in BOOLEAN, AdvanceQuest(c, h)
      PROVE  GuideWasPlayed'
  <2>1. /\ Current' \in Stage /\ played' = played
        /\ guide' = IF h THEN RowOf(Current') ELSE guide
    BY <1>2, AdvanceEffect, CountedEffect
  <2>2. CASE h
    BY <2>1, <2>2, RowIsOfStage DEF QuestWasPlayed, GuideWasPlayed
  <2>3. CASE ~ h
    BY <2>1, <2>3 DEF GuideWasPlayed
  <2> QED
    BY <2>2, <2>3
<1>3. CASE Login
  <2>1. /\ Current \in Stage /\ played' = played /\ quantity' = quantity
        /\ guide' = RowOf(Current)
    BY <1>3, CurrentOfChain DEF Login, quests
  <2> QED
    BY <2>1, RowIsOfStage DEF QuestWasPlayed, GuideWasPlayed
<1>4. ASSUME NEW h \in BOOLEAN, SetFollowerQuestInfinite(h)
      PROVE  GuideWasPlayed'
  BY <1>4, InfiniteEffect, RowIsOfStage DEF QuestWasPlayed, GuideWasPlayed
<1>5. CASE UNCHANGED client
  BY <1>5 DEF GuideWasPlayed, client
<1> QED
  BY <1>1, <1>2, <1>3, <1>4, <1>5
    DEF Next, UserSave, SetFollowerProfileGift, SetAdReward, Elapse, Appear,
        SetUserFollowerProfileReward, GetMusicReward, vars

(* Experience only grows, and the level is the highest it reaches.         *)
LEMMA HighestStep ==
  ASSUME AffectionTypes, Highest, [Next]_vars
  PROVE  Highest'
<1>1. ASSUME NEW n \in 0 .. Gifts, SetFollowerProfileGift(n)
      PROVE  Highest'
  BY <1>1, AffectionEffect DEF Highest
<1>2. CASE SetAdReward
  BY <1>2, AffectionEffect DEF Highest
<1>3. ASSUME NEW ms \in SUBSET Song, NEW h \in BOOLEAN, GetMusicReward(ms, h)
      PROVE  Highest'
  BY <1>3, AffectionEffect DEF Highest
<1>4. CASE UNCHANGED affection
  BY <1>4 DEF Highest, affection
<1> QED
  BY <1>1, <1>2, <1>3, <1>4
    DEF Next, Play, AdvanceQuest, UserSave, Login, SetFollowerQuestInfinite,
        Elapse, Appear, SetUserFollowerProfileReward, quests, affection, encore,
        paid, client, vars

LEMMA RewardsStep ==
  ASSUME AffectionTypes, Highest, Rewards, [Next]_vars
  PROVE  Rewards'
<1>1. ASSUME NEW n \in 0 .. Gifts, SetFollowerProfileGift(n)
      PROVE  Rewards'
  BY <1>1, AffectionEffect, LevelsAreNumbers DEF Rewards, AffectionTypes, Level
<1>2. CASE SetAdReward
  BY <1>2, AffectionEffect, LevelsAreNumbers DEF Rewards, AffectionTypes, Level
<1>3. ASSUME NEW ls \in SUBSET Level, SetUserFollowerProfileReward(ls)
      PROVE  Rewards'
  BY <1>3
    DEF SetUserFollowerProfileReward, affection, Rewards, ClaimLevels,
        AllUnlocked
<1>4. ASSUME NEW ms \in SUBSET Song, NEW h \in BOOLEAN, GetMusicReward(ms, h)
      PROVE  Rewards'
  BY <1>4, AffectionEffect, LevelsAreNumbers DEF Rewards, AffectionTypes, Level
<1>5. CASE UNCHANGED <<affection, rewarded, levelPaid>>
  BY <1>5 DEF Rewards, affection
<1> QED
  BY <1>1, <1>2, <1>3, <1>4, <1>5
    DEF Next, Play, AdvanceQuest, UserSave, Login, SetFollowerQuestInfinite,
        Elapse, Appear, quests, affection, encore, paid, client, vars

(* A song that is paid has no payment coming until its waiting time ends   *)
(* or a save brings its encore back, and each of these is counted.         *)
LEMMA EncoresCountStep ==
  ASSUME EncoreTypes, EncoreTypes', EncoresCount, [Next]_vars
  PROVE  EncoresCount'
<1>1. CASE UserSave
  <2>1. /\ appears' = shown /\ UNCHANGED <<waiting, waits, encorePaid>>
        /\ carried' = More(carried, (shown \cap waiting) \ appears)
    BY <1>1 DEF UserSave, SaveEncores, paid
  <2>2. \A m \in Song :
          carried'[m] = carried[m] + (IF m \in (shown \cap waiting) \ appears THEN 1 ELSE 0)
    BY <2>1, MoreCounts DEF EncoreTypes
  <2> SUFFICES ASSUME NEW m \in Song
               PROVE  encorePaid'[m] + (IF m \in shown \/ m \notin waiting THEN 1 ELSE 0)
                        <= 1 + waits'[m] + carried'[m]
    BY <2>1 DEF EncoresCount, IsDue
  <2>3. encorePaid[m] + (IF m \in appears \/ m \notin waiting THEN 1 ELSE 0)
          <= 1 + waits[m] + carried[m]
    BY DEF EncoresCount, IsDue
  <2>4. encorePaid[m] \in Nat /\ waits[m] \in Nat /\ carried[m] \in Nat
    BY DEF EncoreTypes
  <2> QED
    BY <2>1, <2>2, <2>3, <2>4
<1>2. CASE Login
  BY <1>2 DEF Login, EncoresCount, IsDue, paid
<1>3. ASSUME NEW s \in Song, Elapse(s)
      PROVE  EncoresCount'
  <2>1. /\ waiting' = waiting \ {s} /\ UNCHANGED <<appears, carried, encorePaid>>
        /\ waits' = More(waits, {s})
    BY <1>3 DEF Elapse, paid
  <2>2. \A m \in Song : waits'[m] = waits[m] + (IF m \in {s} THEN 1 ELSE 0)
    BY <2>1, MoreCounts DEF EncoreTypes
  <2> QED
    BY <2>1, <2>2 DEF EncoresCount, IsDue, EncoreTypes
<1>4. ASSUME NEW s \in Song, Appear(s)
      PROVE  EncoresCount'
  BY <1>4 DEF Appear, EncoresCount, IsDue, paid
<1>5. ASSUME NEW ms \in SUBSET Song, NEW h \in BOOLEAN, GetMusicReward(ms, h)
      PROVE  EncoresCount'
  <2>1. /\ appears' = appears \ Due(ms) /\ waiting' = waiting \cup Due(ms)
        /\ encorePaid' = More(encorePaid, Due(ms)) /\ UNCHANGED <<waits, carried>>
    BY <1>5 DEF GetMusicReward, ClaimEncores
  <2>2. \A m \in Song :
          encorePaid'[m] = encorePaid[m] + (IF m \in Due(ms) THEN 1 ELSE 0)
    BY <2>1, MoreCounts DEF EncoreTypes
  <2>3. \A m \in Due(ms) : IsDue(m) /\ ~ (m \in appears' \/ m \notin waiting')
    BY <2>1 DEF Due, IsDue
  <2> QED
    BY <2>1, <2>2, <2>3 DEF EncoresCount, IsDue, EncoreTypes
<1>6. CASE UNCHANGED <<encore, encorePaid>>
  BY <1>6 DEF EncoresCount, IsDue, encore
<1> QED
  BY <1>1, <1>2, <1>3, <1>4, <1>5, <1>6
    DEF Next, Play, AdvanceQuest, SetFollowerQuestInfinite,
        SetFollowerProfileGift, SetAdReward, SetUserFollowerProfileReward,
        quests, affection, encore, paid, client, vars

-----------------------------------------------------------------------------
LEMMA FollowersInit == Init => FollowersInv
<1> SUFFICES ASSUME Init PROVE FollowersInv
  OBVIOUS
<1>1. /\ 1 \in Stage /\ 1 \in Level /\ {} \subseteq Stage /\ Current = 1
      /\ Nothing \in [Condition -> Nat]
  BY FollowersAssumption DEF Init, Stage, Level, Current, Nothing
<1>2. QuestTypes
  BY <1>1 DEF Init, QuestTypes
<1>3. ClientTypes
  BY <1>1 DEF Init, ClientTypes, GuideRow
<1>4. AffectionTypes /\ EncoreTypes
  BY <1>1, FollowersAssumption DEF Init, AffectionTypes, EncoreTypes
<1>5. Chain
  BY DEF Init, Chain
<1>6. Claims /\ Paid
  BY DEF Init, Claims, Paid
<1>7. QuestWasPlayed /\ GuideWasPlayed
  BY <1>1 DEF Init, QuestWasPlayed, GuideWasPlayed, Nothing
<1>8. Highest
  <2> SUFFICES ASSUME NEW l \in Level PROVE l <= 1 <=> LevelAt[l] <= 0
    BY DEF Init, Highest
  <2>1. l \in Nat \ {0} /\ LevelAt[l] \in Nat
    BY FollowersAssumption DEF Level
  <2>2. CASE l = 1
    BY <2>2, FollowersAssumption
  <2>3. CASE l # 1
    <3>1. LevelAt[l] > 0
      BY <2>3, FollowersAssumption
    <3> QED
      BY <2>1, <2>3, <3>1
  <2> QED
    BY <2>2, <2>3
<1>9. Rewards /\ EncoresCount
  BY DEF Init, Rewards, EncoresCount, IsDue
<1> QED
  BY <1>2, <1>3, <1>4, <1>5, <1>6, <1>7, <1>8, <1>9, TypeParts, GuideParts,
     AffectionParts
    DEF FollowersInv

LEMMA FollowersNext ==
  ASSUME FollowersInv, [Next]_vars
  PROVE  FollowersInv'
<1>1. /\ QuestTypes /\ ClientTypes /\ AffectionTypes /\ EncoreTypes
      /\ Chain /\ Claims /\ Paid /\ QuestWasPlayed /\ GuideWasPlayed
      /\ Highest /\ Rewards /\ EncoresCount
  BY TypeParts, GuideParts, AffectionParts DEF FollowersInv
<1>2. QuestTypes' /\ AffectionTypes' /\ EncoreTypes' /\ Chain'
  BY <1>1, QuestTypesStep, AffectionTypesStep, EncoreTypesStep, ChainStep
<1>3. ClientTypes'
  BY <1>1, <1>2, ClientTypesStep
<1>4. Claims' /\ Paid' /\ QuestWasPlayed'
  BY <1>1, <1>2, <1>3, ClaimsStep, PaidStep, QuestWasPlayedStep
<1>5. GuideWasPlayed'
  BY <1>1, <1>2, <1>3, <1>4, GuideWasPlayedStep
<1>6. Highest' /\ Rewards' /\ EncoresCount'
  BY <1>1, <1>2, HighestStep, RewardsStep, EncoresCountStep
<1>7. TypeOK'
  BY <1>2, <1>3, TypeParts, PTL
<1>8. GuideIsEarned' /\ AffectionIsEarned'
  BY <1>2, <1>4, <1>6, GuideParts, AffectionParts, PTL
<1> QED
  BY <1>5, <1>6, <1>7, <1>8 DEF FollowersInv

(* The parts of the invariant hold of a slot's followers from its creation *)
(* on (create_slot_in_transaction and the follower commands).              *)
THEOREM FollowersInvariant == Spec => []FollowersInv
<1> QED
  BY FollowersInit, FollowersNext, PTL DEF Spec

(* The types: the rows of the guide are of its stages, and the level is    *)
(* one the profile has (follower_quests, affection).                       *)
THEOREM FollowersTypes == Spec => []TypeOK
<1>1. FollowersInv => TypeOK
  BY DEF FollowersInv
<1> QED
  BY <1>1, FollowersInvariant, PTL

(* Whatever stage a late save or request speaks of, the guide advances by  *)
(* what was played at each stage, and each condition pays once             *)
(* (advance_follower_quest, merge_user_save).                              *)
THEOREM GuideIsPlayed == Spec => []GuideIsEarned
<1>1. FollowersInv => GuideIsEarned
  BY DEF FollowersInv
<1> QED
  BY <1>1, FollowersInvariant, PTL

(* Levels of affection are those the experience reaches, and each pays     *)
(* once (update_follower_profile, claim_follower_profile_rewards).         *)
THEOREM LevelsPayOnce == Spec => []AffectionIsEarned
<1>1. FollowersInv => AffectionIsEarned
  BY DEF FollowersInv
<1> QED
  BY <1>1, FollowersInvariant, PTL

(* A song's encore pays once, and once more for every waiting time that    *)
(* ended and for every save that brought it back while the song waited     *)
(* (claim_music_encore_rewards, merge_user_save).                          *)
THEOREM EncoresWaitTheirTime == Spec => []EncoreWaits
<1>1. FollowersInv => EncoreWaits
  BY TypeParts DEF FollowersInv, EncoreTypes, EncoresCount, EncoreWaits
<1> QED
  BY <1>1, FollowersInvariant, PTL

-----------------------------------------------------------------------------
(* The types, by what is kept.                                             *)
DayTypes ==
  /\ day \in Day /\ attended \subseteq Day /\ last \in Day \cup {NoDay}
  /\ count \in Nat /\ streak \in Nat /\ best \in Nat

CountTypes ==
  /\ progress \in [Achievement -> Nat] /\ claims \in [Achievement -> SUBSET DOMAIN Requirement]

MissionTypes ==
  /\ done \in [Mission -> Nat]
  /\ missionClaims \in [Mission -> [Day -> SUBSET Levels]]
  /\ told \in [Mission -> Nat] /\ unheard \subseteq Mission

OtherTypes == taken \subseteq Events /\ chosen \in Choice \cup {NoChoice}

(* Achievements and missions apart.                                        *)
CountsReach ==
  \A a \in Achievement :
    /\ claims[a] = 1 .. Cardinality(claims[a])
    /\ \A l \in claims[a] : Requirement[l] <= IF a = Attendance THEN count ELSE progress[a]

MissionsReach ==
  \A m \in Mission, d \in Day :
    /\ missionClaims[m][d] = 1 .. Cardinality(missionClaims[m][d])
    /\ missionClaims[m][d] # {} => done[m] >= Needed

(* A mission claimed on one day at most, every answer of which was heard:  *)
(* the client asks for the next level of that day, whatever today is.      *)
OnlyOn(m, d) == \A e \in Day \ {d} : missionClaims[m][e] = {}

ToldIsNext ==
  \A m \in Mission, d \in Day :
    OnlyOn(m, d) /\ m \notin unheard => told[m] = Cardinality(missionClaims[m][d]) + 1

DailyInv ==
  /\ DailyTypeOK /\ AttendanceIsHonest /\ LevelsAreReached /\ ToldIsNext
-----------------------------------------------------------------------------
LEMMA DailyTypeParts ==
  DailyTypeOK <=> DayTypes /\ CountTypes /\ MissionTypes /\ OtherTypes
<1>1. {count, streak, best} \subseteq Nat <=> count \in Nat /\ streak \in Nat /\ best \in Nat
  OBVIOUS
<1> QED
  BY <1>1 DEF DailyTypeOK, DayTypes, CountTypes, MissionTypes, OtherTypes

LEMMA LevelParts ==
  ASSUME AttendanceIsHonest
  PROVE  LevelsAreReached <=> CountsReach /\ MissionsReach
<1> QED
  BY DEF AttendanceIsHonest, LevelsAreReached, CountsReach, MissionsReach

(* The number of levels of a set that holds those up to it, with the next  *)
(* one (ClaimAchievement, ClaimMission).                                   *)
FromOne(S) == S = 1 .. Cardinality(S)

LEMMA NextLevel ==
  ASSUME NEW S, IsFiniteSet(S), FromOne(S), NEW l, l = Cardinality(S) + 1
  PROVE  l \in Nat \ {0} /\ FromOne(S \cup {l}) /\ Cardinality(S \cup {l}) = l
<1>2. Cardinality(S) \in Nat
  BY FS_CardinalityType
<1>3. l \in Nat \ {0} /\ S = 1 .. l - 1
  BY <1>2 DEF FromOne
<1>4. S \cup {l} = 1 .. l
  <2>1. (1 .. l - 1) \cup {l} = 1 .. l
    BY <1>3
  <2> QED
    BY <1>3, <2>1
<1>5. Cardinality(1 .. l) = l
  BY <1>3, FS_Interval
<1> QED
  BY <1>3, <1>4, <1>5 DEF FromOne

(* There are only so many levels to claim.                                 *)
LEMMA LevelsAreFew ==
  /\ \A S \in SUBSET DOMAIN Requirement : IsFiniteSet(S)
  /\ \A S \in SUBSET Levels : IsFiniteSet(S)
<1>1. DOMAIN Requirement = 1 .. Len(Requirement) /\ Len(Requirement) \in Nat
  BY DailyAssumption
<1>2. IsFiniteSet(DOMAIN Requirement)
  BY <1>1, FS_Interval
<1>3. IsFiniteSet(Levels)
  BY DailyAssumption, FS_Interval DEF Levels
<1> QED
  BY <1>2, <1>3, FS_Subset

(* What a login tells is a number, and for a mission claimed on one day at *)
(* most the next level of that day (LevelAtLogin).                         *)
LEMMA LoginTells ==
  ASSUME MissionTypes, NEW m \in Mission
  PROVE  /\ LevelAtLogin(m) \in Nat
         /\ \A d \in Day : OnlyOn(m, d) => LevelAtLogin(m) = Cardinality(missionClaims[m][d]) + 1
<1> DEFINE S == {c \in Day \X Levels : c[2] \in missionClaims[m][c[1]]}
<1>1. IsFiniteSet(Day) /\ IsFiniteSet(Levels)
  BY FS_Interval, DailyAssumption DEF Day, Levels
<1>2. IsFiniteSet(Day \X Levels)
  BY <1>1, FS_Product
<1>3. IsFiniteSet(S)
  BY <1>2, FS_Subset
<1>4. Cardinality(S) \in Nat
  BY <1>3, FS_CardinalityType
<1>5. ASSUME NEW d \in Day, OnlyOn(m, d)
      PROVE  Cardinality(S) = Cardinality(missionClaims[m][d])
  <2> DEFINE T == missionClaims[m][d]
  <2>1. T \subseteq Levels
    BY DEF MissionTypes
  <2>2. \A e \in Day \ {d} : missionClaims[m][e] = {}
    BY <1>5 DEF OnlyOn
  <2>3. S = {d} \X T
    BY <2>1, <2>2
  <2>4. IsFiniteSet(T) /\ IsFiniteSet({d}) /\ Cardinality({d}) = 1
    BY <1>1, <2>1, FS_Subset, FS_Singleton
  <2> HIDE DEF S, T
  <2>5. Cardinality(T) \in Nat
    BY <2>4, FS_CardinalityType
  <2>6. Cardinality({d} \X T) = Cardinality({d}) * Cardinality(T)
    BY <2>4, FS_Product
  <2> QED
    BY <2>3, <2>4, <2>5, <2>6 DEF T
<1>6. LevelAtLogin(m) = Cardinality(S) + 1
  BY DEF LevelAtLogin
<1> HIDE DEF S
<1> QED
  BY <1>4, <1>5, <1>6

(* Attending adds a day to the days in a row, or begins with it (Attend).  *)
LEMMA Attended ==
  ASSUME DayTypes, AttendanceIsHonest, Attend
  PROVE  /\ count' = count + 1 /\ count' = Cardinality(attended')
         /\ attended' \subseteq Day /\ last' = day
         /\ streak' \in Nat \ {0} /\ DaysUpTo(day, streak') \subseteq attended'
         /\ best' = Greater(best, streak') /\ attended \subseteq attended'
<1>1. day \in Nat \ {0} /\ day \notin attended /\ Day \subseteq Nat \ {0} /\ attended' = attended \cup {day}
      /\ count' = count + 1 /\ last' = day /\ best' = Greater(best, streak') /\ streak' = NewStreak
  BY DailyAssumption DEF DayTypes, Attend, Day
<1>2. IsFiniteSet(attended)
  <2>1. IsFiniteSet(Day)
    BY FS_Interval, DailyAssumption DEF Day
  <2> QED
    BY <2>1, FS_Subset DEF DayTypes
<1>3. Cardinality(attended') = Cardinality(attended) + 1
  BY <1>1, <1>2, FS_AddElement
<1>4. count = Cardinality(attended) /\ DaysUpTo(last, streak) \subseteq attended
  BY DEF AttendanceIsHonest
<1>5. attended' \subseteq Day
  BY <1>1 DEF DayTypes
<1>6. streak' \in Nat \ {0} /\ DaysUpTo(day, streak') \subseteq attended'
  <2>1. CASE last = day - 1
    <3>1. last \in Nat /\ streak \in Nat /\ streak' = streak + 1
      BY <1>1, <2>1 DEF DayTypes, NewStreak, NoDay
    <3>2. DaysUpTo(day, streak + 1) = DaysUpTo(last, streak) \cup {day}
      BY <1>1, <2>1, <3>1 DEF DaysUpTo
    <3> QED
      BY <1>1, <1>4, <3>1, <3>2
  <2>2. CASE last # day - 1
    <3>1. streak' = 1 /\ DaysUpTo(day, 1) = {day}
      BY <1>1, <2>2 DEF NewStreak, DaysUpTo
    <3> QED
      BY <1>1, <3>1
  <2> QED
    BY <2>1, <2>2
<1> QED
  BY <1>1, <1>3, <1>4, <1>5, <1>6
-----------------------------------------------------------------------------

(* The claim of an achievement, by what is counted (ClaimAchievement).     *)
LEMMA CountedGrows ==
  ASSUME CountTypes, DayTypes, NEW a \in Achievement, NEW q \in Quantity
  PROVE  /\ Counted(a, q) \in Nat
         /\ a = Attendance => Counted(a, q) = count
         /\ a # Attendance => Counted(a, q) >= progress[a]
<1>1. progress[a] \in Nat /\ q \in Nat /\ count \in Nat
  BY DailyAssumption DEF CountTypes, DayTypes, Quantity
<1> QED
  BY <1>1 DEF Counted, Greater

(* Every step keeps the types.                                             *)
LEMMA DayTypesStep ==
  ASSUME DayTypes, AttendanceIsHonest, [DailyNext]_dailyVars
  PROVE  DayTypes'
<1>1. ASSUME NEW d \in Day, SetDay(d)
      PROVE  DayTypes'
  BY <1>1 DEF SetDay, attendance, DayTypes
<1>2. CASE SetAttendance("add")
  BY <1>2, Attended DEF SetAttendance, DayTypes, Greater
<1>3. CASE UNCHANGED <<day, attendance>>
  BY <1>3 DEF DayTypes, attendance
<1> QED
  BY <1>1, <1>2, <1>3
    DEF DailyNext, UserLogin, SaveAchievement, ClaimAchievement, SaveMission,
        ClaimMission, SetEventReward, SetSelectReward, dailyVars

LEMMA CountTypesStep ==
  ASSUME DayTypes, CountTypes, [DailyNext]_dailyVars
  PROVE  CountTypes'
<1>1. ASSUME NEW a \in Achievement, NEW q \in Quantity, SaveAchievement(a, q)
      PROVE  CountTypes'
  <2>1. Counted(a, q) \in Nat
    BY CountedGrows
  <2> QED
    BY <1>1, <2>1 DEF SaveAchievement, CountTypes
<1>2. ASSUME NEW a \in Achievement, NEW q \in Quantity, NEW l \in DOMAIN Requirement,
             ClaimAchievement(a, l, q)
      PROVE  CountTypes'
  <2>1. Counted(a, q) \in Nat
    BY CountedGrows
  <2> QED
    BY <1>2, <2>1 DEF ClaimAchievement, CountTypes
<1>3. CASE UNCHANGED achievements
  BY <1>3 DEF CountTypes, achievements
<1> QED
  BY <1>1, <1>2, <1>3
    DEF DailyNext, SetDay, SetAttendance, UserLogin, SaveMission, ClaimMission,
        SetEventReward, SetSelectReward, dailyVars

LEMMA MissionTypesStep ==
  ASSUME DayTypes, MissionTypes, [DailyNext]_dailyVars
  PROVE  MissionTypes'
<1>1. CASE UserLogin
  BY <1>1, LoginTells DEF UserLogin, MissionTypes
<1>2. ASSUME NEW m \in Mission, NEW q \in Quantity, SaveMission(m, q)
      PROVE  MissionTypes'
  <2>1. Greater(done[m], q) \in Nat
    BY DailyAssumption DEF Greater, MissionTypes, Quantity
  <2> QED
    BY <1>2, <2>1 DEF SaveMission, MissionTypes
<1>3. ASSUME NEW m \in Mission, NEW q \in Quantity, ClaimMission(m, q)
      PROVE  MissionTypes'
  <2>1. Greater(done[m], q) \in Nat
    BY DailyAssumption DEF Greater, MissionTypes, Quantity
  <2>2. day \in Day /\ told[m] \in Nat
    BY DEF DayTypes, MissionTypes
  <2>3. told[m] \in Levels
    <3>1. IsFiniteSet(missionClaims[m][day])
      BY <2>2, LevelsAreFew DEF MissionTypes
    <3>2. Cardinality(missionClaims[m][day]) \in Nat
      BY <3>1, FS_CardinalityType
    <3> QED
      BY <1>3, <3>2, DailyAssumption DEF ClaimMission, LevelOfToday, Levels
  <2>4. told' \in [Mission -> Nat] /\ unheard' \subseteq Mission
    BY <1>3, <2>2 DEF ClaimMission, MissionTypes
  <2>5. missionClaims' =
          [missionClaims EXCEPT ![m] = [missionClaims[m] EXCEPT ![day] = @ \cup {told[m]}]]
    BY <1>3 DEF ClaimMission
  <2>6. missionClaims' \in [Mission -> [Day -> SUBSET Levels]]
    BY <2>2, <2>3, <2>5 DEF MissionTypes
  <2> QED
    BY <1>3, <2>1, <2>4, <2>6 DEF ClaimMission, MissionTypes
<1>4. CASE UNCHANGED missions
  BY <1>4 DEF MissionTypes, missions
<1> QED
  BY <1>1, <1>2, <1>3, <1>4
    DEF DailyNext, SetDay, SetAttendance, SaveAchievement, ClaimAchievement,
        SetEventReward, SetSelectReward, dailyVars

LEMMA OtherTypesStep ==
  ASSUME OtherTypes, [DailyNext]_dailyVars
  PROVE  OtherTypes'
<1>1. ASSUME NEW e \in Events, SetEventReward(e)
      PROVE  OtherTypes'
  BY <1>1 DEF SetEventReward, ClaimEvent, OtherTypes
<1>2. ASSUME NEW r \in Choice, SetSelectReward(r)
      PROVE  OtherTypes'
  BY <1>2 DEF SetSelectReward, SelectReward, OtherTypes
<1>3. CASE UNCHANGED others
  BY <1>3 DEF OtherTypes, others
<1> QED
  BY <1>1, <1>2, <1>3
    DEF DailyNext, SetDay, SetAttendance, UserLogin, SaveAchievement,
        ClaimAchievement, SaveMission, ClaimMission, dailyVars

(* Attendance counts dates and days in a row.                              *)
LEMMA AttendanceIsHonestStep ==
  ASSUME DayTypes, AttendanceIsHonest, [DailyNext]_dailyVars
  PROVE  AttendanceIsHonest'
<1>1. CASE SetAttendance("add")
  <2>1. Attend
    BY <1>1 DEF SetAttendance
  <2>2. /\ count' = Cardinality(attended') /\ last' = day
        /\ streak' \in Nat /\ DaysUpTo(day, streak') \subseteq attended'
        /\ best' = Greater(best, streak') /\ attended \subseteq attended'
    BY <2>1, Attended
  <2>3. best \in Nat /\ best' \in {best, streak'} /\ streak' <= best'
    BY <2>2 DEF DayTypes, Greater
  <2>4. best' > 0 => \E d \in attended' : DaysUpTo(d, best') \subseteq attended'
    <3>1. CASE best' = best
      BY <2>2, <3>1 DEF AttendanceIsHonest
    <3>2. CASE best' = streak'
      <4>1. day \in attended'
        BY <2>1 DEF Attend
      <4> QED
        BY <2>2, <3>2, <4>1
    <3> QED
      BY <2>3, <3>1, <3>2
  <2> QED
    BY <2>2, <2>3, <2>4 DEF AttendanceIsHonest
<1>2. CASE UNCHANGED attendance
  BY <1>2 DEF AttendanceIsHonest, attendance
<1> QED
  BY <1>1, <1>2
    DEF DailyNext, SetDay, UserLogin, SaveAchievement, ClaimAchievement,
        SaveMission, ClaimMission, SetEventReward, SetSelectReward, dailyVars

(* Levels are claimed in order, by what is counted.                        *)
LEMMA CountsReachStep ==
  ASSUME DayTypes, CountTypes, AttendanceIsHonest, CountsReach, [DailyNext]_dailyVars
  PROVE  CountsReach'
<1>1. CASE SetAttendance("add")
  <2>1. count' = count + 1 /\ UNCHANGED achievements
    BY <1>1, Attended DEF SetAttendance
  <2>2. \A a \in Achievement : \A l \in claims[a] : Requirement[l] \in Nat
    BY DailyAssumption DEF CountTypes
  <2>3. count \in Nat /\ count' \in Nat /\ count' >= count
    BY <2>1 DEF DayTypes
  <2> SUFFICES ASSUME NEW a \in Achievement, NEW l \in claims[a]
               PROVE  Requirement[l] <= IF a = Attendance THEN count' ELSE progress[a]
    BY <2>1 DEF CountsReach, achievements
  <2>4. Requirement[l] <= IF a = Attendance THEN count ELSE progress[a]
    BY DEF CountsReach
  <2> QED
    BY <2>2, <2>3, <2>4
<1>2. ASSUME NEW a \in Achievement, NEW q \in Quantity, SaveAchievement(a, q)
      PROVE  CountsReach'
  <2>1. /\ progress' = [progress EXCEPT ![a] = Counted(a, q)] /\ claims' = claims
        /\ count' = count
    BY <1>2 DEF SaveAchievement, attendance
  <2>2. \A b \in Achievement \ {Attendance} :
          progress[b] \in Nat /\ progress'[b] \in Nat /\ progress'[b] >= progress[b]
    BY <2>1, CountedGrows DEF CountTypes
  <2>3. \A b \in Achievement : \A l \in claims[b] : Requirement[l] \in Nat
    BY DailyAssumption DEF CountTypes
  <2> QED
    BY <2>1, <2>2, <2>3 DEF CountsReach
<1>3. ASSUME NEW a \in Achievement, NEW q \in Quantity, NEW l \in DOMAIN Requirement,
             ClaimAchievement(a, l, q)
      PROVE  CountsReach'
  <2>1. /\ progress' = [progress EXCEPT ![a] = Counted(a, q)] /\ count' = count
        /\ claims' = [claims EXCEPT ![a] = @ \cup {l}]
        /\ Requirement[l] <= Counted(a, q) /\ l = Cardinality(claims[a]) + 1
    BY <1>3 DEF ClaimAchievement, attendance
  <2>2. \A b \in Achievement \ {Attendance} :
          progress[b] \in Nat /\ progress'[b] \in Nat /\ progress'[b] >= progress[b]
    BY <2>1, CountedGrows DEF CountTypes
  <2>3. \A b \in Achievement : \A k \in claims[b] : Requirement[k] \in Nat
    BY DailyAssumption DEF CountTypes
  <2>4. \A b \in Achievement : claims'[b] = IF b = a THEN claims[a] \cup {l} ELSE claims[b]
    BY <2>1 DEF CountTypes
  <2>5. claims'[a] = 1 .. Cardinality(claims'[a])
    <3>1. IsFiniteSet(claims[a]) /\ FromOne(claims[a])
      BY LevelsAreFew DEF CountTypes, CountsReach, FromOne
    <3>2. /\ FromOne(claims[a] \cup {l}) /\ l \in Nat
          /\ Cardinality(claims[a] \cup {l}) = l
      BY <2>1, <3>1, NextLevel
    <3>3. claims'[a] = claims[a] \cup {l}
      BY <2>1, <2>4
    <3> QED
      BY <3>2, <3>3 DEF FromOne
  <2>6. Requirement[l] <= IF a = Attendance THEN count' ELSE progress'[a]
    BY <2>1, CountedGrows DEF CountTypes
  <2> SUFFICES ASSUME NEW b \in Achievement
               PROVE  /\ claims'[b] = 1 .. Cardinality(claims'[b])
                      /\ \A k \in claims'[b] :
                           Requirement[k] <= IF b = Attendance THEN count' ELSE progress'[b]
    BY DEF CountsReach
  <2>7. \A k \in claims[b] : Requirement[k] <= IF b = Attendance THEN count' ELSE progress'[b]
    BY <2>1, <2>2, <2>3 DEF CountsReach
  <2>8. b # a => claims'[b] = 1 .. Cardinality(claims'[b])
    BY <2>4 DEF CountsReach
  <2> QED
    BY <2>4, <2>5, <2>6, <2>7, <2>8
<1>4. CASE UNCHANGED <<count, achievements>>
  BY <1>4 DEF CountsReach, achievements
<1> QED
  BY <1>1, <1>2, <1>3, <1>4
    DEF DailyNext, SetDay, UserLogin, SaveMission, ClaimMission, SetEventReward,
        SetSelectReward, attendance, dailyVars

LEMMA MissionsReachStep ==
  ASSUME DayTypes, MissionTypes, MissionsReach, [DailyNext]_dailyVars
  PROVE  MissionsReach'
<1>1. ASSUME NEW m \in Mission, NEW q \in Quantity, SaveMission(m, q)
      PROVE  MissionsReach'
  <2>1. \A n \in Mission : done[n] \in Nat /\ q \in Nat
    BY DailyAssumption DEF MissionTypes, Quantity
  <2>2. done' = [done EXCEPT ![m] = Greater(@, q)] /\ missionClaims' = missionClaims
    BY <1>1 DEF SaveMission
  <2>3. \A n \in Mission : done'[n] \in Nat /\ done'[n] >= done[n]
    BY <2>1, <2>2 DEF MissionTypes, Greater
  <2> QED
    BY <2>1, <2>2, <2>3, DailyAssumption DEF MissionsReach
<1>2. ASSUME NEW m \in Mission, NEW q \in Quantity, ClaimMission(m, q)
      PROVE  MissionsReach'
  <2>1. /\ day \in Day /\ told[m] = Cardinality(missionClaims[m][day]) + 1
        /\ missionClaims' =
             [missionClaims EXCEPT ![m] = [missionClaims[m] EXCEPT ![day] = @ \cup {told[m]}]]
    BY <1>2 DEF ClaimMission, LevelOfToday, DayTypes
  <2>2. \A n \in Mission, d \in Day :
          missionClaims'[n][d] = IF n = m /\ d = day THEN missionClaims[m][day] \cup {told[m]}
                                 ELSE missionClaims[n][d]
    BY <2>1 DEF MissionTypes
  <2>3. /\ missionClaims'[m][day] = 1 .. Cardinality(missionClaims'[m][day])
        /\ Cardinality(missionClaims'[m][day]) = told[m] /\ told[m] \in Nat
    <3>1. /\ IsFiniteSet(missionClaims[m][day])
          /\ FromOne(missionClaims[m][day])
      BY <2>1, LevelsAreFew DEF MissionTypes, MissionsReach, FromOne
    <3>2. /\ FromOne(missionClaims[m][day] \cup {told[m]}) /\ told[m] \in Nat
          /\ Cardinality(missionClaims[m][day] \cup {told[m]}) = told[m]
      BY <2>1, <3>1, NextLevel
    <3>3. missionClaims'[m][day] = missionClaims[m][day] \cup {told[m]}
      BY <2>1, <2>2
    <3> QED
      BY <3>2, <3>3 DEF FromOne
  <2>4. \A n \in Mission : done[n] \in Nat /\ q \in Nat
    BY DailyAssumption DEF MissionTypes, Quantity
  <2>5. done' = [done EXCEPT ![m] = Greater(@, q)] /\ Greater(done[m], q) >= Needed
    BY <1>2 DEF ClaimMission
  <2>6. \A n \in Mission : done'[n] \in Nat /\ done'[n] >= done[n] /\ (n = m => done'[n] >= Needed)
    BY <2>4, <2>5 DEF MissionTypes, Greater
  <2> SUFFICES ASSUME NEW n \in Mission, NEW d \in Day
               PROVE  /\ missionClaims'[n][d] = 1 .. Cardinality(missionClaims'[n][d])
                      /\ missionClaims'[n][d] # {} => done'[n] >= Needed
    BY DEF MissionsReach
  <2>7. CASE n = m /\ d = day
    BY <2>3, <2>6, <2>7
  <2>8. CASE ~ (n = m /\ d = day)
    <3>1. missionClaims'[n][d] = missionClaims[n][d]
      BY <2>2, <2>8
    <3>2. missionClaims[n][d] # {} => done[n] >= Needed
      BY DEF MissionsReach
    <3>3. missionClaims[n][d] = 1 .. Cardinality(missionClaims[n][d])
      BY DEF MissionsReach
    <3> QED
      BY <2>4, <2>6, <3>1, <3>2, <3>3, DailyAssumption
  <2> QED
    BY <2>7, <2>8
<1>3. CASE UNCHANGED <<done, missionClaims>>
  BY <1>3 DEF MissionsReach
<1> QED
  BY <1>1, <1>2, <1>3
    DEF DailyNext, SetDay, SetAttendance, UserLogin, SaveAchievement,
        ClaimAchievement, SetEventReward, SetSelectReward, missions, dailyVars

(* What the client is told of a mission is its next level.                 *)
LEMMA ToldIsNextStep ==
  ASSUME DayTypes, MissionTypes, MissionsReach, ToldIsNext, [DailyNext]_dailyVars
  PROVE  ToldIsNext'
<1>1. CASE UserLogin
  BY <1>1, LoginTells DEF UserLogin, ToldIsNext, OnlyOn
<1>2. ASSUME NEW m \in Mission, NEW q \in Quantity, ClaimMission(m, q)
      PROVE  ToldIsNext'
  <2>1. /\ day \in Day /\ told[m] = Cardinality(missionClaims[m][day]) + 1
        /\ missionClaims' =
             [missionClaims EXCEPT ![m] = [missionClaims[m] EXCEPT ![day] = @ \cup {told[m]}]]
    BY <1>2 DEF ClaimMission, LevelOfToday, DayTypes
  <2>2. \A n \in Mission, d \in Day :
          missionClaims'[n][d] = IF n = m /\ d = day THEN missionClaims[m][day] \cup {told[m]}
                                 ELSE missionClaims[n][d]
    BY <2>1 DEF MissionTypes
  <2>3. /\ missionClaims'[m][day] = 1 .. Cardinality(missionClaims'[m][day])
        /\ Cardinality(missionClaims'[m][day]) = told[m] /\ told[m] \in Nat
    <3>1. /\ IsFiniteSet(missionClaims[m][day])
          /\ FromOne(missionClaims[m][day])
      BY <2>1, LevelsAreFew DEF MissionTypes, MissionsReach, FromOne
    <3>2. /\ FromOne(missionClaims[m][day] \cup {told[m]}) /\ told[m] \in Nat
          /\ Cardinality(missionClaims[m][day] \cup {told[m]}) = told[m]
      BY <2>1, <3>1, NextLevel
    <3>3. missionClaims'[m][day] = missionClaims[m][day] \cup {told[m]}
      BY <2>1, <2>2
    <3> QED
      BY <3>2, <3>3 DEF FromOne
  <2> SUFFICES ASSUME NEW n \in Mission, NEW d \in Day, OnlyOn(n, d)', n \notin unheard'
               PROVE  told'[n] = Cardinality(missionClaims'[n][d]) + 1
    BY DEF ToldIsNext
  <2>4. \A e \in Day \ {d} : missionClaims'[n][e] = {}
    BY DEF OnlyOn
  <2>5. OnlyOn(n, d) /\ n \notin unheard
    <3>1. n \notin unheard
      BY <1>2 DEF ClaimMission
    <3> QED
      BY <2>2, <2>4, <3>1 DEF OnlyOn
  <2>6. told[n] = Cardinality(missionClaims[n][d]) + 1
    BY <2>5 DEF ToldIsNext
  <2>7. CASE n = m
    <3>1. d = day
      BY <2>1, <2>2, <2>4, <2>7
    <3>2. told' = [told EXCEPT ![m] = @ + 1]
      BY <1>2, <2>7 DEF ClaimMission
    <3> QED
      BY <2>3, <2>7, <3>1, <3>2 DEF MissionTypes
  <2>8. CASE n # m
    <3>1. told'[n] = told[n] /\ missionClaims'[n][d] = missionClaims[n][d]
      BY <1>2, <2>2, <2>8 DEF ClaimMission, MissionTypes
    <3> QED
      BY <2>6, <3>1
  <2> QED
    BY <2>7, <2>8
<1>3. CASE UNCHANGED <<missionClaims, told, unheard>>
  BY <1>3 DEF ToldIsNext, OnlyOn
<1> QED
  BY <1>1, <1>2, <1>3
    DEF DailyNext, SetDay, SetAttendance, SaveAchievement, ClaimAchievement,
        SaveMission, SetEventReward, SetSelectReward, missions, dailyVars

-----------------------------------------------------------------------------
LEMMA DailyInitially == DailyInit => DailyInv
<1> SUFFICES ASSUME DailyInit PROVE DailyInv
  OBVIOUS
<1>1. DayTypes /\ CountTypes /\ OtherTypes
  BY DailyAssumption DEF DailyInit, DayTypes, CountTypes, OtherTypes
<1>2. MissionTypes
  BY DEF DailyInit, MissionTypes
<1>3. Cardinality({}) = 0 /\ 1 .. 0 = {} /\ -1 - 0 + 1 .. -1 = {}
  BY FS_EmptySet
<1>4. AttendanceIsHonest
  BY <1>3 DEF DailyInit, AttendanceIsHonest, DaysUpTo, NoDay
<1>5. CountsReach /\ MissionsReach
  BY <1>3 DEF DailyInit, CountsReach, MissionsReach
<1>6. ToldIsNext
  BY <1>3 DEF DailyInit, ToldIsNext
<1> QED
  BY <1>1, <1>2, <1>4, <1>5, <1>6, DailyTypeParts, LevelParts DEF DailyInv

LEMMA DailyStep ==
  ASSUME DailyInv, [DailyNext]_dailyVars
  PROVE  DailyInv'
<1>1. /\ DayTypes /\ CountTypes /\ MissionTypes /\ OtherTypes
      /\ AttendanceIsHonest /\ CountsReach /\ MissionsReach /\ ToldIsNext
  BY DailyTypeParts, LevelParts DEF DailyInv
<1>2. DayTypes' /\ CountTypes' /\ MissionTypes' /\ OtherTypes'
  BY <1>1, DayTypesStep, CountTypesStep, MissionTypesStep, OtherTypesStep
<1>3. AttendanceIsHonest' /\ CountsReach' /\ MissionsReach' /\ ToldIsNext'
  BY <1>1, AttendanceIsHonestStep, CountsReachStep, MissionsReachStep,
     ToldIsNextStep
<1>4. DailyTypeOK'
  BY <1>2, DailyTypeParts, PTL
<1>5. LevelsAreReached'
  BY <1>3, LevelParts, PTL
<1> QED
  BY <1>3, <1>4, <1>5 DEF DailyInv

(* The parts of the invariant hold of what a slot keeps by day, however    *)
(* the date is moved (the gameplay commands of attendance, achievements    *)
(* and daily missions).                                                    *)
THEOREM DailyInvariant == DailySpec => []DailyInv
<1> QED
  BY DailyInitially, DailyStep, PTL DEF DailySpec

(* Every variable keeps its type (attendance_state, achievement_progress,  *)
(* daily_missions).                                                        *)
THEOREM DailyTypesHold == DailySpec => []DailyTypeOK
<1>1. DailyInv => DailyTypeOK
  BY DEF DailyInv
<1> QED
  BY <1>1, DailyInvariant, PTL

(* Attendance counts distinct dates, and a streak is one of days in a row, *)
(* however the date is moved (attendance).                                 *)
THEOREM DatesCountOnce == DailySpec => []AttendanceIsHonest
<1>1. DailyInv => AttendanceIsHonest
  BY DEF DailyInv
<1> QED
  BY <1>1, DailyInvariant, PTL

(* Levels are claimed in order, none before its requirement                *)
(* (claim_game_reward, merge_user_save).                                   *)
THEOREM LevelsInOrder == DailySpec => []LevelsAreReached
<1>1. DailyInv => LevelsAreReached
  BY DEF DailyInv
<1> QED
  BY <1>1, DailyInvariant, PTL

(* A mission the client could not claim was claimed on another day, or an  *)
(* answer about it was lost (player_snapshot against claim_game_reward).   *)
THEOREM ToldWhatIsNext == DailySpec => []MissionsAreClaimable
<1>1. DailyInv => MissionsAreClaimable
  <2> SUFFICES ASSUME DailyInv, NEW m \in Mission, told[m] # LevelOfToday(m), m \notin unheard
               PROVE  \E d \in Day \ {day} : missionClaims[m][d] # {}
    BY DEF MissionsAreClaimable
  <2>1. day \in Day /\ ToldIsNext
    BY DailyTypeParts DEF DailyInv, DayTypes
  <2>2. ~ OnlyOn(m, day)
    BY <2>1 DEF ToldIsNext, LevelOfToday
  <2> QED
    BY <2>2 DEF OnlyOn
<1> QED
  BY <1>1, DailyInvariant, PTL
=============================================================================
