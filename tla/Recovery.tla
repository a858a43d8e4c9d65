------------------------------ MODULE Recovery ------------------------------
(***************************************************************************)
(* The database file and its two snapshots across starts, clean shutdowns, *)
(* crashes and corruption: DatabaseActor::open with its migration,         *)
(* open_database_with_recovery, prepare_shutdown and publish_backup.       *)
(*                                                                         *)
(* One step is one file-system operation, so that the process may die      *)
(* between any two: `Interrupted' names the program points where it may    *)
(* die and `Failing' those whose file operation may fail.  The code does   *)
(* not survive every one; `cut' remembers where it was cut off, and `bare' *)
(* that it was while the primary's place held nothing of a database, so    *)
(* that the properties say which point endangers what.                     *)
(***************************************************************************)
EXTENDS Naturals

CONSTANTS
  Interrupted,   \* program points at which the process may die
  Failing,       \* program points whose file operation may fail
  MaxVersion,    \* bound: commits to the database
  Clock,         \* seconds of the device's clock, which the player sets at will
  MaxStart,      \* bound: starts
  Spoilable      \* files the storage may corrupt, once each

Points == {"opening", "migrating", "archive", "next", "copying", "probe", "restore",
           "running", "vacuum", "drop", "keep", "publish"}
Fallible == {"archive", "next", "copying", "drop", "keep", "publish"}

ASSUME RecoveryAssumption ==
  /\ Interrupted \subseteq Points /\ Failing \subseteq Fallible
  /\ MaxVersion \in Nat /\ MaxStart \in Nat /\ Clock # {}
  /\ Spoilable \subseteq {"primary", "backup", "previous"}

(* What a file holds.  A "db" opens, and `v' counts its commits; "empty"   *)
(* is a database without schema; "half" one whose migration was cut off;   *)
(* "torn" an incomplete copy or snapshot; "bad" a spoilt file.             *)
Kinds == {"none", "empty", "half", "torn", "bad", "db"}
Content == [kind : Kinds, v : 0 .. MaxVersion]
File(k) == [kind |-> k, v |-> 0]
None == File("none")

Exists(f) == f.kind # "none"
Readable(f) == f.kind = "db"

VARIABLES
  primary,    \* ggfm.sqlite3
  backup,     \* ggfm.sqlite3.backup
  previous,   \* ggfm.sqlite3.backup.previous
  temporary,  \* the snapshot being written, under a name of its own
  archived,   \* ggfm.sqlite3.corrupt.<now>
  pc,         \* program point of the server process, "off" or "failed" if none
  now,        \* clock of the current start
  starts,     \* starts so far
  left,       \* recovery candidates not tried yet
  session,    \* a login has been published
  spoilt,     \* history: files the storage has corrupted
  published,  \* history: a snapshot has been published
  rejected,   \* history: contents that did not open as the primary
  cut,        \* history: points where the process died or recovery gave up
  bare,       \* history: it did while the primary's file was missing or empty
  clash       \* history: an archive took the name of an earlier one

vars == <<primary, backup, previous, temporary, archived, pc, now, starts, left, session,
          spoilt, published, rejected, cut, bare, clash>>

files == <<primary, backup, previous, temporary, archived>>
history == <<spoilt, published, rejected, cut, bare, clash>>
launch == <<now, starts>>

Init ==
  /\ primary = None /\ backup = None /\ previous = None /\ temporary = None
  /\ archived = [t \in Clock |-> None]
  /\ pc = "off" /\ now \in Clock /\ starts = 0 /\ left = {} /\ session = FALSE
  /\ spoilt = {} /\ published = FALSE /\ rejected = {} /\ cut = {}
  /\ bare = FALSE /\ clash = FALSE

Candidate(name) == IF name = "backup" THEN backup ELSE previous
Candidates == {name \in {"backup", "previous"} : Exists(Candidate(name))}

-----------------------------------------------------------------------------
(* The next launch, at whatever second the device shows.                   *)
Start ==
  /\ pc \in {"off", "failed"} /\ starts < MaxStart
  /\ now' \in Clock /\ starts' = starts + 1
  /\ pc' = "opening" /\ session' = FALSE
  /\ UNCHANGED <<files, left, history>>

(* DatabaseActor::open on the primary.  SQLite creates a missing file; a   *)
(* database of version 0 is migrated, one that fails quick_check or has    *)
(* another version is refused.                                             *)
OpenPrimary ==
  /\ pc = "opening"
  /\ \/ /\ primary.kind \in {"none", "empty"}
        /\ primary' = File("empty") /\ pc' = "migrating"
        /\ UNCHANGED <<left, rejected>>
     \/ /\ Readable(primary)
        /\ pc' = "running"
        /\ UNCHANGED <<primary, left, rejected>>
     \/ /\ primary.kind \in {"half", "torn", "bad"}
        /\ rejected' = rejected \cup {primary}
        /\ pc' = IF Candidates = {} THEN "failed" ELSE "archive"
        /\ left' = Candidates
        /\ UNCHANGED primary
  /\ UNCHANGED <<backup, previous, temporary, archived, launch, session, spoilt, published,
                 cut, bare, clash>>

(* MIGRATION_1 runs statement by statement, outside a transaction; the     *)
(* version is set after it.                                                *)
MigrateUnversioned ==           \* mutant of Migrate: the version is not set
  /\ pc = "migrating"
  /\ primary' = File("half") /\ pc' = "running"
  /\ UNCHANGED <<backup, previous, temporary, archived, launch, left, session, history>>

Migrate ==
  /\ pc = "migrating"
  /\ \/ /\ primary.kind = "empty" /\ primary' = File("half") /\ pc' = pc
     \/ /\ primary.kind = "half" /\ primary' = File("db") /\ pc' = "running"
  /\ UNCHANGED <<backup, previous, temporary, archived, launch, left, session, history>>

(* The primary is moved aside under a name that ends in the clock.         *)
Discard ==                      \* mutant of Archive
  /\ pc = "archive"
  /\ primary' = None /\ pc' = "next"
  /\ UNCHANGED <<archived, backup, previous, temporary, launch, left, session, history>>

Archive ==
  /\ pc = "archive"
  /\ archived' = [archived EXCEPT ![now] = primary]
  /\ primary' = None
  /\ pc' = "next"
  /\ clash' = (clash \/ Exists(archived[now]))
  /\ UNCHANGED <<backup, previous, temporary, launch, left, session, spoilt, published,
                 rejected, cut, bare>>

(* The loop over the candidates: the backup first, then the previous one.  *)
OldestCandidate == IF "previous" \in left THEN "previous" ELSE "backup" \* mutant of NextCandidate
NextCandidate == IF "backup" \in left THEN "backup" ELSE "previous"

(* What an earlier candidate left at the primary's path is removed; then   *)
(* fs::copy creates an empty file, fills it and ends.                      *)
BeginCopy ==
  /\ pc = "next" /\ left # {}
  /\ \/ Exists(primary) /\ primary' = None /\ pc' = pc
     \/ ~ Exists(primary) /\ primary' = File("empty") /\ pc' = "copying"
  /\ UNCHANGED <<backup, previous, temporary, archived, launch, left, session, history>>

FillCopy ==
  /\ pc = "copying" /\ primary.kind = "empty"
  /\ primary' = File("torn")
  /\ UNCHANGED <<backup, previous, temporary, archived, pc, launch, left, session, history>>

EndCopy ==
  /\ pc = "copying" /\ primary.kind = "torn"
  /\ primary' = Candidate(NextCandidate)
  /\ pc' = "probe"
  /\ UNCHANGED <<backup, previous, temporary, archived, launch, left, session, history>>

(* The process, or recovery, ends here with no database in place.          *)
Bare == pc \in {"next", "copying"} /\ primary.kind \in {"none", "empty"}
EndedHere == cut' = cut \cup {pc} /\ bare' = (bare \/ Bare)

(* A rename, remove_file or fs::copy fails: the error leaves the function  *)
(* by `?', and what has been copied stays.                                 *)
FailRecovery ==
  /\ pc \in {"archive", "next", "copying"} \cap Failing
  /\ left # {}
  /\ pc' = "failed" /\ left' = {} /\ EndedHere
  /\ UNCHANGED <<files, launch, session, spoilt, published, rejected, clash>>

(* DatabaseActor::open on the copy.                                        *)
Probe ==
  /\ pc = "probe"
  /\ \/ Readable(primary) /\ pc' = "running" /\ left' = {}
     \/ ~ Readable(primary) /\ pc' = "next" /\ left' = left \ {NextCandidate}
  /\ UNCHANGED <<files, launch, session, history>>

(* No candidate opened: remove the last copy, put the primary back.        *)
GiveUp ==
  /\ pc = "next" /\ left = {}
  /\ primary' = None /\ pc' = "restore"
  /\ UNCHANGED <<backup, previous, temporary, archived, launch, left, session, history>>

Restore ==
  /\ pc = "restore"
  /\ primary' = archived[now]
  /\ archived' = [archived EXCEPT ![now] = None]
  /\ pc' = "failed"
  /\ UNCHANGED <<backup, previous, temporary, launch, left, session, history>>

-----------------------------------------------------------------------------
(* The running server: a login, and commits of the database thread, which  *)
(* runs no other job while VACUUM INTO does.                               *)
Serving == {"running", "drop", "keep", "publish"}

BeginLogin ==
  /\ pc = "running" /\ ~ session
  /\ session' = TRUE
  /\ UNCHANGED <<files, pc, launch, left, history>>

Commit ==
  /\ pc \in Serving
  /\ primary.v < MaxVersion
  /\ primary' = [primary EXCEPT !.v = @ + 1]
  /\ UNCHANGED <<backup, previous, temporary, archived, pc, launch, left, session, history>>

(* prepare_shutdown does nothing without a session; else it checkpoints    *)
(* and writes a snapshot under a fresh name.                               *)
BeginSnapshot ==
  /\ pc = "running" /\ session
  /\ temporary' = File("torn") /\ pc' = "vacuum"
  /\ UNCHANGED <<primary, backup, previous, archived, launch, left, session, history>>

EndSnapshot ==
  /\ pc = "vacuum"
  /\ temporary' = primary /\ pc' = "drop"
  /\ UNCHANGED <<primary, backup, previous, archived, launch, left, session, history>>

(* publish_backup: drop the previous snapshot, keep the current one as     *)
(* previous, rename the new one into place.                                *)
DropPrevious ==
  /\ pc = "drop"
  /\ previous' = None /\ pc' = "keep"
  /\ UNCHANGED <<primary, backup, temporary, archived, launch, left, session, history>>

Spared == previous                                \* mutant of Kept
Kept == IF Exists(backup) THEN backup ELSE previous

KeepCurrent ==
  /\ pc = "keep"
  /\ previous' = Kept
  /\ backup' = None /\ pc' = "publish"
  /\ UNCHANGED <<primary, temporary, archived, launch, left, session, history>>

Publish ==
  /\ pc = "publish"
  /\ backup' = temporary /\ temporary' = None
  /\ published' = TRUE
  /\ pc' = "running"
  /\ UNCHANGED <<primary, previous, archived, launch, left, session, spoilt, rejected,
                 cut, bare, clash>>

(* One of them fails, and prepare_shutdown with it: the current snapshot,  *)
(* when it was moved, goes back to its name.                               *)
FailPublish ==
  /\ pc \in {"drop", "keep", "publish"} \cap Failing
  /\ IF pc = "publish" THEN backup' = previous /\ previous' = None
                       ELSE UNCHANGED <<backup, previous>>
  /\ temporary' = None
  /\ pc' = "running"
  /\ UNCHANGED <<primary, archived, launch, left, session, history>>

(* Control::Stop, after its prepare_shutdown.                              *)
Stop ==
  /\ pc = "running"
  /\ pc' = "off"
  /\ UNCHANGED <<files, launch, left, session, history>>

-----------------------------------------------------------------------------
(* The process dies; the temporary file's name is never looked at again.   *)
Crash ==
  /\ pc \in Interrupted
  /\ pc' = "off" /\ temporary' = None /\ left' = {} /\ EndedHere
  /\ UNCHANGED <<primary, backup, previous, archived, launch, session, spoilt, published,
                 rejected, clash>>

(* The storage spoils a file while no server runs.                         *)
Spoil(name) ==
  /\ pc \in {"off", "failed"} /\ name \in Spoilable \ spoilt
  /\ LET Spoilt(f) == [kind |-> "bad", v |-> f.v] IN
       \/ /\ name = "primary" /\ Readable(primary) /\ primary' = Spoilt(primary)
          /\ UNCHANGED <<backup, previous>>
       \/ /\ name = "backup" /\ Readable(backup) /\ backup' = Spoilt(backup)
          /\ UNCHANGED <<primary, previous>>
       \/ /\ name = "previous" /\ Readable(previous) /\ previous' = Spoilt(previous)
          /\ UNCHANGED <<primary, backup>>
  /\ spoilt' = spoilt \cup {name}
  /\ UNCHANGED <<temporary, archived, pc, launch, left, session, published, rejected,
                 cut, bare, clash>>

Next ==
  \/ Start \/ OpenPrimary \/ Migrate \/ Archive \/ BeginCopy \/ FillCopy \/ EndCopy
  \/ FailRecovery \/ Probe \/ GiveUp \/ Restore
  \/ BeginLogin \/ Commit \/ BeginSnapshot \/ EndSnapshot
  \/ DropPrevious \/ KeepCurrent \/ Publish \/ FailPublish \/ Stop \/ Crash
  \/ \E name \in {"primary", "backup", "previous"} : Spoil(name)

Spec == Init /\ [][Next]_vars

-----------------------------------------------------------------------------
(* Every variable has its type, and a serving process has a database that  *)
(* opened.                                                                 *)
TypeOK ==
  /\ primary \in Content /\ backup \in Content /\ previous \in Content
  /\ temporary \in Content
  /\ archived \in [Clock -> Content]
  /\ pc \in Points \cup {"off", "failed"} /\ now \in Clock /\ starts \in 0 .. MaxStart
  /\ left \subseteq {"backup", "previous"}
  /\ session \in BOOLEAN /\ published \in BOOLEAN
  /\ spoilt \subseteq Spoilable /\ rejected \subseteq Content /\ cut \subseteq Points
  /\ bare \in BOOLEAN /\ clash \in BOOLEAN
  /\ pc \in Serving \cup {"vacuum"} => primary.kind = "db"

(* Once a snapshot has been published, one is readable at every moment,    *)
(* whatever is renamed, fails or is killed, unless the storage spoils it   *)
(* (ARCHITECTURE.md: "retaining one previous generation").                 *)
OneSnapshotReadable ==
  published /\ spoilt \subseteq {"primary"} => Readable(backup) \/ Readable(previous)

(* What carries a snapshot's name is a finished snapshot: an interrupted   *)
(* VACUUM INTO never becomes a recovery candidate (prepare_shutdown).      *)
OnlyFinishedSnapshots ==
  backup.kind # "torn" /\ previous.kind # "torn"

(* Snapshots survive their own rotation: every one is finished, and one is *)
(* readable. The one exception is a process killed between the two renames *)
(* that publish a snapshot (publish_backup).                               *)
SnapshotSurvives ==
  /\ OnlyFinishedSnapshots
  /\ "publish" \notin cut => OneSnapshotReadable

(* A server never runs on less than a readable snapshot has: recovery      *)
(* takes the newest candidate that opens, and never an empty database      *)
(* instead (ARCHITECTURE.md: startup "tries the two consistent snapshots").*)
SnapshotsAreTried ==
  pc \in Serving =>
    \A f \in {backup, previous} : Readable(f) => f.v <= primary.v

(* The one exception is a recovery that was killed, or could not go on     *)
(* copying, while the primary's file was missing or still empty: the next  *)
(* start takes either for a first one and migrates it                      *)
(* (open_database_with_recovery, Database::configure).                     *)
NeverBehindSnapshot == ~ bare => SnapshotsAreTried

(* A primary that did not open is never lost: it stays in place, or under  *)
(* its archive name, through every later start. The one exception is a     *)
(* second primary archived at the second of an earlier one, which a clock  *)
(* that was set back allows: the rename replaces it                        *)
(* (open_database_with_recovery).                                          *)
RejectedIsKept ==
  ~ clash => \A f \in rejected : f = primary \/ \E t \in Clock : archived[t] = f

(* A start fails only if the storage has spoilt something: being killed at *)
(* any moment is harmless, except in the first migration                   *)
(* (Database::configure).                                                  *)
FailsOnlyWhenSpoilt ==
  pc = "failed" => spoilt # {} \/ "migrating" \in cut
=============================================================================
