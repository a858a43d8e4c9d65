---------------------------- MODULE PassCalendar ---------------------------
(***************************************************************************)
(* The season of the Star Pass: it rotates by local day from an anchor     *)
(* each slot keeps and the page can move, and reaches the client in the    *)
(* master tables, which the client fetches anew only when the update time  *)
(* it is told is not the one it keeps them under.                          *)
(***************************************************************************)
EXTENDS Integers

CONSTANTS
  Slot,         \* save slots
  Seasons,      \* PASS_SEASONS, 13 in the code
  DayLength,    \* of a local day, in the unit of the offsets
  Offset,       \* utc offsets the device may be set to
  Fine,         \* update times from one unit to the next
  MaxTime,      \* bound: the clock
  MaxSelect     \* bound: selections in a slot

PassSeason == 1 .. Seasons

ASSUME PassCalendarAssumption ==
  /\ Seasons \in Nat \ {0} /\ DayLength \in Nat \ {0} /\ Offset \subseteq Int
  /\ MaxTime \in Nat /\ MaxSelect \in Nat /\ Fine \in Nat /\ MaxSelect < Fine

VARIABLES
  now, offset,  \* the device clock
  slot,         \* the slot that is logged in
  anchor,       \* pass_anchors: slot -> [day, season]
  revision,     \* state_revisions: slot -> revision of master-data
  asked,        \* the update time the client was last told
  table         \* the client's tables: the update time it keeps them under,
                \* the season active in them, whose they are, and whether
                \* the update time had moved when they were fetched

device == <<now, offset>>
calendarVars == <<device, slot, anchor, revision, asked, table>>

-----------------------------------------------------------------------------
(* DeviceClock::local_epoch_day and pass_season.                           *)
Today == (now + offset) \div DayLength

ActiveSeason(s) ==
  ((anchor[s].season - 1 + (Today - anchor[s].day)) % Seasons) + 1

(* begin_login anchors a slot that has none.                               *)
FirstAnchor == [day |-> Today, season |-> (Today % Seasons) + 1]

(* master_update_time: the local midnight, and the slot's selections.  The *)
(* revision is never reset: a slot with as many selections as there are    *)
(* update times in a unit of the offsets (sixty, for offsets in minutes)   *)
(* would run into another's midnight.  MaxSelect < Fine excludes it.       *)
UpdateTime(s) == (Today * DayLength - offset) * Fine + revision[s]

Tables ==
  [key |-> asked, season |-> ActiveSeason(slot), of |-> slot, torn |-> asked # UpdateTime(slot)]

CalendarInit ==
  /\ now = 0 /\ offset \in Offset
  /\ slot \in Slot
  /\ anchor = [s \in Slot |-> FirstAnchor] /\ revision = [s \in Slot |-> 0]
  /\ asked = UpdateTime(slot)
  /\ table = Tables

-----------------------------------------------------------------------------
(* The clock goes on, is set forward or back; the device travels.          *)
SetClock(t, o) ==
  /\ now' = t /\ offset' = o
  /\ UNCHANGED <<slot, anchor, revision, asked, table>>

(* select_pass_season: the page chooses the season of today.               *)
KeepRevision(s) == UNCHANGED revision          \* mutant of BumpRevision
BumpRevision(s) == revision' = [revision EXCEPT ![s] = @ + 1]

SelectSeason(c) ==
  /\ revision[slot] < MaxSelect
  /\ anchor' = [anchor EXCEPT ![slot] = [day |-> Today, season |-> c]]
  /\ BumpRevision(slot)
  /\ UNCHANGED <<device, slot, asked, table>>

(* memorial.selectPass: a season that is not in the master data is not     *)
(* found; the slot is the one that is logged in.                           *)
SelectStarPass(c) == c \in PassSeason /\ SelectSeason(c)

(* Another slot logs in; the client keeps its tables.                      *)
SwitchSlot(s) ==
  /\ s # slot
  /\ slot' = s
  /\ UNCHANGED <<device, anchor, revision, asked, table>>

GetUpdateTime ==
  /\ asked' = UpdateTime(slot)
  /\ UNCHANGED <<device, slot, anchor, revision, table>>

GetGameDataList ==
  /\ asked # table.key
  /\ table' = Tables
  /\ UNCHANGED <<device, slot, anchor, revision, asked>>

CalendarNext ==
  \/ \E t \in 0 .. MaxTime, o \in Offset : SetClock(t, o)
  \/ \E c \in 0 .. Seasons : SelectStarPass(c)
  \/ \E s \in Slot : SwitchSlot(s)
  \/ GetUpdateTime \/ GetGameDataList

CalendarSpec == CalendarInit /\ [][CalendarNext]_calendarVars

-----------------------------------------------------------------------------
(* Every variable has its type.                                            *)
CalendarTypeOK ==
  /\ now \in 0 .. MaxTime /\ offset \in Offset /\ slot \in Slot
  /\ anchor \in [Slot -> [day : Int, season : PassSeason]]
  /\ revision \in [Slot -> 0 .. MaxSelect]
  /\ asked \in Int
  /\ table \in [key : Int, season : PassSeason, of : Slot, torn : BOOLEAN]

(* Tables kept under the present update time show the active season, over  *)
(* midnights, selections and a clock that is set back: for the slot they   *)
(* were fetched for, unless the update time moved before they came, and    *)
(* for offsets less than a day apart (master_update_time,                  *)
(* select_pass_season_in_transaction).                                     *)
TableIsOfToday ==
  table.key = UpdateTime(slot) /\ table.of = slot /\ ~table.torn
  => table.season = ActiveSeason(slot)
=============================================================================
