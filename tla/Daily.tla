------------------------------- MODULE Daily -------------------------------
(***************************************************************************)
(* What a slot keeps by local day: attendance with its streaks, and the    *)
(* claims of the daily missions; the achievements, one of which counts     *)
(* attendance; and the event and choice rewards.                           *)
(*                                                                         *)
(* The day is the device's: its owner may set it forward or back.  The     *)
(* client asks for a level it was told, by a login or by the answer to its *)
(* last claim.                                                             *)
(***************************************************************************)
EXTENDS Integers, FiniteSets, Sequences

CONSTANTS
  LastDay,      \* bound: local days are 1 .. LastDay
  Achievement, Attendance,  \* Attendance, of id 10, counts days attended
  Requirement,  \* what each level of an achievement asks for
  Mission,      \* daily missions
  Needed,       \* what a mission asks for, at any level
  Events,       \* rows of the event rewards
  Choice,      \* rows of a choice of rewards, all of one group
  NoChoice,     \* the group has no selected_rewards row
  MaxQuantity,  \* bound: what a client counts
  MaxClaims     \* bound: claims of a mission on one day

Day == 1 .. LastDay
NoDay == -1                                    \* no day yet
Quantity == 0 .. MaxQuantity
Levels == 1 .. MaxClaims + 1

ASSUME DailyAssumption ==
  /\ LastDay \in Nat \ {0}
  /\ Attendance \in Achievement
  /\ Requirement \in Seq(Nat)
  /\ NoChoice \notin Choice
  /\ Needed \in Nat /\ MaxQuantity \in Nat /\ MaxClaims \in Nat

VARIABLES
  day,          \* the device's local day
  attended,     \* attendance_days
  count, streak, best, last, \* attendance_state
  progress,     \* achievement_progress
  claims,       \* achievement_claims: achievement -> levels
  done,         \* daily_missions: mission -> quantity
  missionClaims,\* daily_mission_claims: mission -> day -> levels
  told,         \* the client's missions: the level to ask for next
  unheard,      \* history: missions with a claim whose answer was lost since
                \* the last login
  taken,        \* event_points of type daily_reward
  chosen        \* selected_rewards: the row chosen of a group

attendance == <<attended, count, streak, best, last>>
achievements == <<progress, claims>>
missions == <<done, missionClaims, told, unheard>>
others == <<taken, chosen>>
dailyVars == <<day, attendance, achievements, missions, others>>

DailyInit ==
  /\ day \in Day
  /\ attended = {} /\ count = 0 /\ streak = 0 /\ best = 0 /\ last = NoDay
  /\ progress = [a \in Achievement |-> 0] /\ claims = [a \in Achievement |-> {}]
  /\ done = [m \in Mission |-> 0]
  /\ missionClaims = [m \in Mission |-> [d \in Day |-> {}]]
  /\ told = [m \in Mission |-> 1] /\ unheard = {}
  /\ taken = {} /\ chosen = NoChoice

Greater(a, b) == IF a >= b THEN a ELSE b

-----------------------------------------------------------------------------
(* The device's date moves, on or back.                                    *)
SetDay(d) ==
  /\ day' = d
  /\ UNCHANGED <<attendance, achievements, missions, others>>

(* attendance: a date counts once.                                         *)
Continued == streak + 1                        \* mutant of NewStreak
NewStreak == IF last = day - 1 THEN streak + 1 ELSE 1

Attend ==
  /\ day \notin attended
  /\ attended' = attended \cup {day}
  /\ count' = count + 1
  /\ streak' = NewStreak
  /\ best' = Greater(best, streak')
  /\ last' = day

(* setAttendance: of type add it attends, in any case; any other type only *)
(* reports.                                                                *)
SetAttendance(type) ==
  /\ type = "add" /\ Attend
  /\ UNCHANGED <<day, achievements, missions, others>>

-----------------------------------------------------------------------------
(* The counter a save or a claim leaves: never the client's own for the    *)
(* days attended, the larger one for the others.                           *)
GreaterOfAny(a, q) == Greater(progress[a], q)   \* mutant of Counted
Counted(a, q) == IF a = Attendance THEN count ELSE Greater(progress[a], q)

SaveAchievement(a, q) ==
  /\ progress' = [progress EXCEPT ![a] = Counted(a, q)]
  /\ UNCHANGED <<day, attendance, claims, missions, others>>

(* claim_game_reward: levels in order, each once, by what is counted.      *)
ClaimAchievement(a, l, q) ==
  /\ Counted(a, q) >= Requirement[l]
  /\ l = Cardinality(claims[a]) + 1
  /\ progress' = [progress EXCEPT ![a] = Counted(a, q)]
  /\ claims' = [claims EXCEPT ![a] = @ \cup {l}]
  /\ UNCHANGED <<day, attendance, missions, others>>

-----------------------------------------------------------------------------
SaveMission(m, q) ==
  /\ done' = [done EXCEPT ![m] = Greater(@, q)]
  /\ UNCHANGED <<day, attendance, achievements, missionClaims, told, unheard, others>>

(* The level is counted from the claims of the day; what was done on an    *)
(* earlier day still counts.                                               *)
LevelOfToday(m) == Cardinality(missionClaims[m][day]) + 1

ClaimMission(m, q) ==
  /\ Greater(done[m], q) >= Needed
  /\ told[m] = LevelOfToday(m) /\ told[m] <= MaxClaims
  /\ done' = [done EXCEPT ![m] = Greater(@, q)]
  /\ missionClaims' = [missionClaims EXCEPT ![m][day] = @ \cup {told[m]}]
  /\ \/ told' = [told EXCEPT ![m] = @ + 1] /\ UNCHANGED unheard
     \/ unheard' = unheard \cup {m} /\ UNCHANGED told
  /\ UNCHANGED <<day, attendance, achievements, others>>

(* player_snapshot: one more than the claims of all days, not of the day.  *)
ClaimsAtLogin(m) ==                            \* mutant of LevelAtLogin
  Cardinality({c \in Day \X Levels : c[2] \in missionClaims[m][c[1]]})

LevelAtLogin(m) ==
  Cardinality({c \in Day \X Levels : c[2] \in missionClaims[m][c[1]]}) + 1

UserLogin ==
  /\ told' = [m \in Mission |-> LevelAtLogin(m)]
  /\ unheard' = {}
  /\ UNCHANGED <<day, attendance, achievements, done, missionClaims, others>>

-----------------------------------------------------------------------------
(* claim_event_reward: a row pays once.                                    *)
ClaimEvent(e) ==
  /\ e \notin taken
  /\ taken' = taken \cup {e}

(* setEventReward: any row of the catalogue, listed for the client or not. *)
SetEventReward(e) ==
  /\ ClaimEvent(e)
  /\ UNCHANGED <<day, attendance, achievements, missions, chosen>>

(* select_reward: a group keeps its last choice.                           *)
SelectReward(r) == chosen' = r

SetSelectReward(r) ==
  /\ SelectReward(r)
  /\ UNCHANGED <<day, attendance, achievements, missions, taken>>

DailyNext ==
  \/ \E d \in Day : SetDay(d)
  \/ SetAttendance("add") \/ UserLogin
  \/ \E a \in Achievement, q \in Quantity :
       \/ SaveAchievement(a, q)
       \/ \E l \in DOMAIN Requirement : ClaimAchievement(a, l, q)
  \/ \E m \in Mission, q \in Quantity : SaveMission(m, q) \/ ClaimMission(m, q)
  \/ \E e \in Events : SetEventReward(e)
  \/ \E r \in Choice : SetSelectReward(r)

DailySpec == DailyInit /\ [][DailyNext]_dailyVars

-----------------------------------------------------------------------------
(* Every variable has its type.                                            *)
DailyTypeOK ==
  /\ day \in Day /\ attended \subseteq Day /\ last \in Day \cup {NoDay}
  /\ {count, streak, best} \subseteq Nat
  /\ progress \in [Achievement -> Nat] /\ claims \in [Achievement -> SUBSET DOMAIN Requirement]
  /\ done \in [Mission -> Nat]
  /\ missionClaims \in [Mission -> [Day -> SUBSET Levels]]
  /\ told \in [Mission -> Nat] /\ unheard \subseteq Mission
  /\ taken \subseteq Events /\ chosen \in Choice \cup {NoChoice}

(* A number of days in a row ending with d.                                *)
DaysUpTo(d, n) == d - n + 1 .. d

(* However the date is moved, attendance counts distinct dates, and both   *)
(* the streak and the best streak are days in a row that were attended     *)
(* (attendance).                                                           *)
AttendanceIsHonest ==
  /\ count = Cardinality(attended)
  /\ DaysUpTo(last, streak) \subseteq attended
  /\ best > 0 => \E d \in attended : DaysUpTo(d, best) \subseteq attended
  /\ streak <= best

(* Levels are claimed in order and none before its requirement: that of    *)
(* attendance by dates attended, whatever number a save or the claim       *)
(* itself carries; a mission's by what was done, on any day                *)
(* (claim_game_reward, merge_user_save).                                   *)
LevelsAreReached ==
  /\ \A a \in Achievement :
       /\ claims[a] = 1 .. Cardinality(claims[a])
       /\ \A l \in claims[a] :
            Requirement[l] <= IF a = Attendance THEN Cardinality(attended) ELSE progress[a]
  /\ \A m \in Mission, d \in Day :
       /\ missionClaims[m][d] = 1 .. Cardinality(missionClaims[m][d])
       /\ missionClaims[m][d] # {} => done[m] >= Needed

(* A client asks for the level the next claim of the day must have, unless *)
(* an answer has been lost to it or the mission was claimed on another     *)
(* day: from then on a login tells it a level that is refused, for         *)
(* player_snapshot counts the claims of all days and claim_game_reward     *)
(* those of the day.                                                       *)
MissionsAreClaimable ==
  \A m \in Mission :
    told[m] # LevelOfToday(m)
      => m \in unheard \/ \E d \in Day \ {day} : missionClaims[m][d] # {}
=============================================================================
