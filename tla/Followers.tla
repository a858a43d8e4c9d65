----------------------------- MODULE Followers -----------------------------
(***************************************************************************)
(* A slot's followers: the guide, a chain of stages of a few conditions    *)
(* each, the affection that gifts, encores and advertisements bring, the   *)
(* rewards of its levels, and the encore of a song with its waiting time.  *)
(*                                                                         *)
(* The client keeps one row for the guide and its own idea of the encore;  *)
(* it plays, saves and claims on what it was last told, and may never hear *)
(* an answer.  That a repeated request has no second effect is shown in    *)
(* RpcSession.                                                             *)
(***************************************************************************)
EXTENDS Naturals, FiniteSets, Sequences

CONSTANTS
  LastStage,    \* of the guide, 42 in the game
  Condition,    \* of each stage, three in the game
  Threshold,    \* condition -> what it asks for
  LevelAt,      \* level -> the experience it asks for
  Gain,         \* what a gift, an encore or an advertisement brings
  Gifts,        \* gifts the slot starts with
  Song,         \* songs the slot owns
  MaxExperience \* bound: experience

Stage == 1 .. LastStage + 1     \* the last one, a sentinel, has no conditions
Level == DOMAIN LevelAt

ASSUME FollowersAssumption ==
  /\ LastStage \in Nat \ {0}
  /\ Condition # {} /\ IsFiniteSet(Condition) /\ Threshold \in [Condition -> Nat]
  /\ LevelAt \in Seq(Nat) /\ LevelAt # <<>> /\ LevelAt[1] = 0
  /\ \A i, j \in Level : i <= j => LevelAt[i] <= LevelAt[j]
  /\ \A l \in Level \ {1} : LevelAt[l] > 0    \* a slot starts at level 1
  /\ IsFiniteSet(Song)
  /\ Gain \in Nat /\ Gifts \in Nat /\ MaxExperience \in Nat

VARIABLES
  reached,      \* follower_quests: the stages there are rows of
  completed,    \* those with completed
  infinite,     \* those with infinite
  quantity,     \* quest_conditions: stage -> condition -> quantity
  claimed,      \* quest_conditions: <<stage, condition>> with claimed
  guide,        \* the client's row: its stage, quantities and claims
  played,       \* history: the highest count the client had, by stage
  experience, level,  \* affection
  rewarded,     \* affection_claims
  gifts,        \* gifts
  appears,      \* songs with music_state.encore_appears
  waiting,      \* those whose encore_ready_at lies ahead
  shown,        \* those whose encore the client shows
  waits,        \* history: how many waiting times of each song have ended
  carried,      \* history: how often a save brought its encore back before that
  questPaid,    \* history: how often each condition's reward was granted
  levelPaid,    \* history: how often each level's reward was granted
  encorePaid    \* history: how often each song's encore was granted

quests == <<reached, completed, infinite, quantity, claimed>>
affection == <<experience, level>>
encore == <<appears, waiting, shown, waits, carried>>
paid == <<questPaid, levelPaid, encorePaid>>
client == <<guide, played>>
vars == <<quests, client, affection, rewarded, gifts, encore, paid>>

Nothing == [c \in Condition |-> 0]

Init ==
  /\ reached = {} /\ completed = {} /\ infinite = {}
  /\ quantity = [s \in Stage |-> Nothing] /\ claimed = {}
  /\ guide = [stage |-> 1, quantity |-> Nothing, claimed |-> {}]
  /\ played = [s \in Stage |-> Nothing]
  /\ experience = 0 /\ level = 1 /\ rewarded = {} /\ gifts = Gifts
  /\ appears = {} /\ waiting = {} /\ shown = {}
  /\ waits = [m \in Song |-> 0] /\ carried = [m \in Song |-> 0]
  /\ questPaid = [r \in Stage \X Condition |-> 0] /\ levelPaid = [l \in Level |-> 0]
  /\ encorePaid = [m \in Song |-> 0]

More(count, ms) == [m \in Song |-> IF m \in ms THEN count[m] + 1 ELSE count[m]]
Larger(a, b) == IF a >= b THEN a ELSE b

-----------------------------------------------------------------------------
(* MAX(stage_id) of the guide, 1 without a row.                            *)
Current == IF reached = {} THEN 1 ELSE CHOOSE s \in reached : \A r \in reached : r <= s

(* quest_snapshot: the one row the client is told.                         *)
RowOf(s) ==
  [stage |-> s, quantity |-> quantity'[s], claimed |-> {c \in Condition : <<s, c>> \in claimed'}]

(* The client counts what is played.                                       *)
Play(c) ==
  /\ guide.stage <= LastStage
  /\ guide.quantity[c] < Threshold[c]
  /\ guide' = [guide EXCEPT !.quantity[c] = @ + 1]
  /\ played' = [played EXCEPT ![guide.stage][c] = Larger(@, guide'.quantity[c])]
  /\ UNCHANGED <<quests, affection, rewarded, gifts, encore, paid>>

(* The client's only row of the guide.                                     *)
GuideRow == [stage : Stage, quantity : [Condition -> Nat], claimed : SUBSET Condition]

(* A request for another stage than the current one is answered with the   *)
(* current one and changes nothing else.                                   *)
AsAsked(s) == RowOf(s)                         \* mutant of Answered
Answered(s) == RowOf(Current')

Hear(s, heard) == guide' = IF heard THEN Answered(s) ELSE guide

OtherStage(s) ==
  /\ s # Current
  /\ reached' = reached \cup {Current}
  /\ UNCHANGED <<completed, quantity, claimed, questPaid>>

(* The counter goes up, the condition is claimed when it suffices, and a   *)
(* stage with all its conditions claimed gives way to the next.            *)
Suffices(q, c) == q >= Threshold[c]

AdvanceStage(s, c, q) ==
  LET now == Larger(quantity[s][c], q)
      claims == IF Suffices(now, c) THEN claimed \cup {<<s, c>>} ELSE claimed
      next == \A d \in Condition : <<s, d>> \in claims
  IN
  /\ s = Current
  /\ quantity' = [quantity EXCEPT ![s][c] = now]
  /\ claimed' = claims
  /\ questPaid' = [r \in Stage \X Condition |->
                     IF r \in claims \ claimed THEN questPaid[r] + 1 ELSE questPaid[r]]
  /\ completed' = IF next THEN completed \cup {s} ELSE completed
  /\ reached' = reached \cup {s} \cup (IF next THEN {s + 1} ELSE {})

(* setUserFollowerQuest: the client asks when it has counted enough; the   *)
(* master has no stage after the last one.                                 *)
AdvanceQuest(c, heard) ==
  /\ guide.stage <= LastStage /\ c \notin guide.claimed
  /\ guide.quantity[c] >= Threshold[c]
  /\ \/ OtherStage(guide.stage)
     \/ AdvanceStage(guide.stage, c, guide.quantity[c])
  /\ Hear(guide.stage, heard)
  /\ UNCHANGED <<infinite, played, affection, rewarded, gifts, encore,
                 levelPaid, encorePaid>>

SetInfinite ==
  /\ reached' = reached \cup {Current} /\ infinite' = infinite \cup {Current}
  /\ UNCHANGED <<completed, quantity, claimed>>

(* setFollowerQuestInfinite: the answer is the row as well.                *)
SetFollowerQuestInfinite(heard) ==
  /\ SetInfinite
  /\ guide' = IF heard THEN RowOf(Current) ELSE guide
  /\ UNCHANGED <<played, affection, rewarded, gifts, encore, paid>>

(* userSave: the encore as the client shows it.                            *)
SaveEncores ==
  /\ appears' = shown
  /\ carried' = More(carried, (shown \cap waiting) \ appears)

(* And the guide's counters, for the current stage only and not for        *)
(* conditions that are claimed.                                            *)
AnyStage(s) == TRUE                            \* mutant of Accepted
Accepted(s) == s = Current /\ s \notin completed

UserSave ==
  /\ reached' = reached \cup {Current}
  /\ quantity' =
       [s \in Stage |->
          IF Accepted(guide.stage) /\ s = Current
            THEN [c \in Condition |->
                    IF <<s, c>> \in claimed THEN quantity[s][c]
                    ELSE Larger(quantity[s][c], guide.quantity[c])]
            ELSE quantity[s]]
  /\ SaveEncores
  /\ UNCHANGED <<completed, infinite, claimed, client, affection, rewarded, gifts,
                 waiting, shown, waits, paid>>

(* userLogin and userLoad.                                                 *)
Login ==
  /\ UNCHANGED <<quests, played, affection, rewarded, gifts, appears, waiting, waits,
                 carried, paid>>
  /\ guide' = RowOf(Current)
  /\ shown' = appears

-----------------------------------------------------------------------------
(* update_follower_profile: the highest level whose experience is there.   *)
Earn(n) ==
  /\ experience + n <= MaxExperience
  /\ experience' = experience + n
  /\ level' = CHOOSE l \in Level :
                /\ LevelAt[l] <= experience'
                /\ \A k \in Level : LevelAt[k] <= experience' => k <= l

GiveGift(n) ==
  /\ gifts >= n
  /\ gifts' = gifts - n
  /\ Earn(n * Gain)

(* setFollowerProfileGift: a positive number of them.                      *)
SetFollowerProfileGift(n) ==
  /\ n > 0 /\ GiveGift(n)
  /\ UNCHANGED <<quests, client, rewarded, encore, paid>>

(* setAdReward, for an advertisement that pays affection and nothing else. *)
SetAdReward ==
  /\ Earn(Gain)
  /\ UNCHANGED <<quests, client, rewarded, gifts, encore, paid>>

(* claim_follower_profile_rewards: one level too high refuses them all.    *)
SomeUnlocked(ls) == \E l \in ls : l <= level   \* mutant of AllUnlocked
AllUnlocked(ls) == \A l \in ls : l <= level

ClaimLevels(ls) ==
  /\ AllUnlocked(ls)
  /\ rewarded' = rewarded \cup ls
  /\ levelPaid' = [l \in Level |-> IF l \in ls \ rewarded THEN levelPaid[l] + 1 ELSE levelPaid[l]]

(* setUserFollowerProfileReward: levels the profile has, named in any      *)
(* order and any number of times.                                          *)
SetUserFollowerProfileReward(ls) ==
  /\ ls \subseteq Level /\ ClaimLevels(ls)
  /\ UNCHANGED <<quests, client, affection, gifts, encore, questPaid,
                 encorePaid>>

-----------------------------------------------------------------------------
(* The waiting time ends; the client then lets the encore appear.          *)
Elapse(m) ==
  /\ m \in waiting /\ waiting' = waiting \ {m}
  /\ waits' = More(waits, {m})
  /\ UNCHANGED <<quests, client, affection, rewarded, gifts, appears, shown, carried, paid>>

Appear(m) ==
  /\ m \notin waiting /\ shown' = shown \cup {m}
  /\ UNCHANGED <<quests, client, affection, rewarded, gifts, appears, waiting, waits, carried,
                 paid>>

(* claim_music_encore_rewards: each song is judged on its own; one that is *)
(* still waiting, or named a second time, is refused without the others.   *)
Named(ms) == ms                                \* mutant of Due
Due(ms) == {m \in ms : m \in appears \/ m \notin waiting}

ClaimEncores(ms) ==
  /\ Earn(Cardinality(ms) * Gain)
  /\ appears' = appears \ ms /\ waiting' = waiting \cup ms
  /\ encorePaid' = More(encorePaid, ms)

(* getMusicReward: the client claims what it shows, and takes away what it *)
(* hears was granted.                                                      *)
GetMusicReward(ms, heard) ==
  /\ ms # {} /\ ms \subseteq shown
  /\ ClaimEncores(Due(ms))
  /\ shown' = IF heard THEN shown \ Due(ms) ELSE shown
  /\ UNCHANGED <<quests, client, rewarded, gifts, waits, carried, questPaid, levelPaid>>

Next ==
  \/ \E c \in Condition : Play(c) \/ \E h \in BOOLEAN : AdvanceQuest(c, h)
  \/ UserSave \/ Login
  \/ \E h \in BOOLEAN : SetFollowerQuestInfinite(h)
  \/ \E n \in 0 .. Gifts : SetFollowerProfileGift(n)
  \/ SetAdReward
  \/ \E m \in Song : Elapse(m) \/ Appear(m)
  \/ \E ls \in SUBSET Level : SetUserFollowerProfileReward(ls)
  \/ \E ms \in SUBSET Song, h \in BOOLEAN : GetMusicReward(ms, h)

(* A client at play counts on; of the requests it repeats some are heard.  *)
Fairness ==
  \A c \in Condition : WF_vars(Play(c)) /\ SF_vars(AdvanceQuest(c, TRUE))

Spec == Init /\ [][Next]_vars /\ Fairness

-----------------------------------------------------------------------------
(* Every variable has its type.                                            *)
TypeOK ==
  /\ reached \subseteq Stage /\ completed \subseteq reached /\ infinite \subseteq reached
  /\ {quantity, played} \subseteq [Stage -> [Condition -> Nat]]
  /\ claimed \subseteq Stage \X Condition
  /\ guide \in GuideRow
  /\ experience \in 0 .. MaxExperience /\ level \in Level
  /\ rewarded \subseteq Level /\ gifts \in 0 .. Gifts
  /\ appears \cup waiting \cup shown \subseteq Song
  /\ {waits, carried, encorePaid} \subseteq [Song -> Nat]
  /\ questPaid \in [Stage \X Condition -> Nat] /\ levelPaid \in [Level -> Nat]

(* The guide goes on stage by stage: all before the current one are        *)
(* complete, a stage is complete when all its conditions are claimed, a    *)
(* condition is claimed when its counter suffices and has paid exactly     *)
(* then, and no counter is more than was played at its own stage, whatever *)
(* stage a late save or request speaks of (advance_follower_quest,         *)
(* merge_user_save).                                                       *)
GuideIsEarned ==
  /\ reached \in {{}} \cup {1 .. s : s \in Stage} /\ completed = reached \ {Current}
  /\ \A s \in Stage, c \in Condition :
       /\ s \in completed => <<s, c>> \in claimed
       /\ <<s, c>> \in claimed => s \in reached /\ quantity[s][c] >= Threshold[c]
       /\ quantity[s][c] <= played[s][c]
       /\ questPaid[<<s, c>>] = (IF <<s, c>> \in claimed THEN 1 ELSE 0)

(* However many answers are lost, a client that plays and asks gets to the *)
(* end of the guide, unless logins, or the answers for an infinite stage,  *)
(* go on taking what it has not saved: it is never left on a stage the     *)
(* server has passed (advance_follower_quest, the answer for another       *)
(* stage).                                                                 *)
GuideEnds ==
  <>[][~ (Login \/ SetFollowerQuestInfinite(TRUE))]_vars => <>(guide.stage = LastStage + 1)

(* The rewards of affection are those of levels the experience has         *)
(* reached, each granted once, and a request for one too high grants none  *)
(* (claim_follower_profile_rewards, update_follower_profile).              *)
AffectionIsEarned ==
  \A l \in Level :
    /\ l <= level <=> LevelAt[l] <= experience
    /\ l \in rewarded => l <= level
    /\ levelPaid[l] = (IF l \in rewarded THEN 1 ELSE 0)

(* A song's encore pays once, and then once more for every waiting time    *)
(* that has ended since, whatever songs are claimed with it and whatever   *)
(* answers are lost.  The one exception is a save in which the client      *)
(* still shows it while the song waits: each of these brings back one      *)
(* payment (claim_music_encore_rewards against merge_user_save,            *)
(* music_states).                                                          *)
EncoreWaits ==
  \A m \in Song : encorePaid[m] <= 1 + waits[m] + carried[m]
=============================================================================
