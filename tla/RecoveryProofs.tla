--------------------------- MODULE RecoveryProofs ---------------------------
(***************************************************************************)
(* Proofs about Recovery for any clock, any number of starts and commits,  *)
(* and any set of points at which the process may die or a file operation  *)
(* may fail.                                                               *)
(*                                                                         *)
(* The properties speak of a serving process or of all moments; what they  *)
(* rest on is what each file is worth at every point of the way there:     *)
(* where the newest snapshot is (SnapshotIsKept), that a primary which     *)
(* opens is behind none, and one without commits meets none                *)
(* (NewestIsTried), and where a rejected primary is (Archived).            *)
(***************************************************************************)
EXTENDS Recovery, TLAPS

(* Snapshots are databases, or were until the storage spoilt them; the one *)
(* that is being published is whole.                                       *)
Snapshots ==
  /\ backup.kind \in {"none", "db", "bad"} /\ previous.kind \in {"none", "db", "bad"}
  /\ spoilt \subseteq {"primary"} => backup.kind # "bad" /\ previous.kind # "bad"
  /\ pc \in {"drop", "keep", "publish"} => temporary.kind = "db"

(* Once there is a snapshot it is the backup, or on its way to be the      *)
(* previous one while the next is published.                               *)
SnapshotIsKept ==
  published /\ "publish" \notin cut =>
    IF pc = "publish" THEN Exists(previous) ELSE Exists(backup)

(* A file is behind no snapshot that opens; there is none that opens.      *)
Behind(f) == \A g \in {backup, previous} : Readable(g) => g.v <= f.v
NoneReadable == ~ Readable(backup) /\ ~ Readable(previous)

Recovering == {"next", "copying", "probe"}

NewestIsTried ==
  ~ bare =>
    /\ Readable(backup) /\ Readable(previous) => previous.v <= backup.v
    /\ pc \notin {"next", "copying"} =>
         /\ Readable(primary) => Behind(primary)
         /\ primary.kind \in {"none", "empty", "half"} => NoneReadable
    /\ pc \in Recovering => \A name \in {"backup", "previous"} :
                              /\ Readable(Candidate(name)) => name \in left
                              /\ name \in left => Exists(Candidate(name))
    /\ pc = "archive" => left = Candidates
    /\ pc = "next" => primary.kind \in {"none", "bad"}
    /\ pc = "copying" => primary.kind \in {"empty", "torn"} /\ left # {}
    /\ pc = "probe" => primary = Candidate(NextCandidate) /\ left # {}
    /\ pc = "restore" => NoneReadable
    /\ pc \in {"drop", "keep", "publish"} => Behind(temporary) /\ temporary.v <= primary.v

(* A rejected primary has been archived by the time another file takes its *)
(* place.                                                                  *)
InArchive(f) == \E t \in Clock : archived[t] = f

Archived ==
  /\ \A f \in rejected : f.kind \in {"half", "torn", "bad"}
  /\ ~ clash => \A f \in rejected : f = primary \/ InArchive(f)
  /\ ~ clash /\ pc \in Recovering \cup {"restore", "migrating"} =>
       \A f \in rejected : InArchive(f)

(* Without a spoilt file, and unless the first migration was cut off, no   *)
(* primary is ever rejected.                                               *)
Unspoilt ==
  spoilt = {} /\ "migrating" \notin cut =>
    /\ pc \in {"off", "opening", "migrating", "vacuum"} \cup Serving
    /\ pc # "migrating" => primary.kind \in {"none", "db"}

IInv ==
  /\ TypeOK
  /\ Snapshots
  /\ SnapshotIsKept
  /\ NewestIsTried
  /\ Archived
  /\ Unspoilt

-----------------------------------------------------------------------------
(* Every step keeps the types, and a serving process its database.         *)
LEMMA TypeStep ==
  ASSUME TypeOK, [Next]_vars
  PROVE  TypeOK'
<1>1. CASE Start
  <2>1. now' \in Clock /\ starts' \in 0 .. MaxStart /\ pc' = "opening" /\ session' = FALSE
    BY <1>1, RecoveryAssumption DEF Start, TypeOK
  <2> QED
    BY <1>1, <2>1 DEF Start, files, history, TypeOK, Points, Serving
<1>2. CASE OpenPrimary
  <2>1. primary' \in Content /\ (pc' = "running" => primary'.kind = "db")
    BY <1>2, RecoveryAssumption DEF OpenPrimary, TypeOK, Content, Kinds, File, Readable
  <2>2. rejected' \subseteq Content /\ left' \subseteq {"backup", "previous"}
    BY <1>2 DEF OpenPrimary, TypeOK, Candidates
  <2>3. pc' \in {"migrating", "running", "failed", "archive"}
    BY <1>2 DEF OpenPrimary
  <2> QED
    BY <1>2, <2>1, <2>2, <2>3 DEF OpenPrimary, launch, TypeOK, Points, Serving
<1>3. CASE Migrate
  BY <1>3, RecoveryAssumption
    DEF Migrate, launch, history, TypeOK, Content, Kinds, Points, File
<1>4. CASE Archive
  BY <1>4, RecoveryAssumption
    DEF Archive, launch, TypeOK, Content, Kinds, Points, Serving, File, None
<1>5. CASE BeginCopy
  BY <1>5, RecoveryAssumption
    DEF BeginCopy, launch, history, TypeOK, Content, Kinds, Points, Serving,
        File, None
<1>6. CASE EndCopy
  BY <1>6 DEF EndCopy, launch, history, TypeOK, Points, Serving, Candidate
<1>7. CASE FillCopy \/ FailRecovery
  <2>1. primary' \in Content
    BY <1>7, RecoveryAssumption
      DEF FillCopy, FailRecovery, files, TypeOK, Content, Kinds, File
  <2>2. cut' \subseteq Points /\ bare' \in BOOLEAN
    BY <1>7 DEF FillCopy, FailRecovery, EndedHere, Bare, history, TypeOK, Points
  <2> QED
    BY <1>7, <2>1, <2>2
      DEF FillCopy, FailRecovery, files, launch, history, TypeOK, Points, Serving
<1>8. CASE Probe
  <2>1. left' \subseteq {"backup", "previous"} /\ pc' \in {"running", "next"}
    BY <1>8 DEF Probe, TypeOK
  <2>2. pc' = "running" => primary'.kind = "db"
    BY <1>8 DEF Probe, files, Readable
  <2> QED
    BY <1>8, <2>1, <2>2 DEF Probe, files, launch, history, TypeOK, Points, Serving
<1>9. CASE GiveUp
  BY <1>9, RecoveryAssumption
    DEF GiveUp, launch, history, TypeOK, Content, Kinds, Points, Serving, File,
        None
<1>10. CASE Restore
  BY <1>10, RecoveryAssumption
    DEF Restore, launch, history, TypeOK, Content, Kinds, Serving, File, None
<1>11. CASE BeginLogin
  BY <1>11 DEF BeginLogin, files, launch, history, TypeOK
<1>12. CASE Commit
  BY <1>12, RecoveryAssumption DEF Commit, launch, history, TypeOK, Content
<1>13. CASE BeginSnapshot
  BY <1>13, RecoveryAssumption
    DEF BeginSnapshot, launch, history, TypeOK, Content, Kinds, Points, Serving,
        File
<1>14. CASE EndSnapshot
  BY <1>14 DEF EndSnapshot, launch, history, TypeOK, Points
<1>15. CASE DropPrevious
  BY <1>15, RecoveryAssumption
    DEF DropPrevious, launch, history, TypeOK, Content, Kinds, Points, Serving,
        File, None
<1>16. CASE KeepCurrent
  BY <1>16, RecoveryAssumption
    DEF KeepCurrent, launch, history, TypeOK, Content, Kinds, Points, Serving,
        File, Kept, None
<1>17. CASE Publish
  BY <1>17, RecoveryAssumption
    DEF Publish, launch, TypeOK, Content, Kinds, Points, Serving, File, None
<1>18. CASE FailPublish
  BY <1>18, RecoveryAssumption
    DEF FailPublish, launch, history, TypeOK, Content, Kinds, Points, Serving,
        File, None
<1>19. CASE Stop
  BY <1>19 DEF Stop, files, launch, history, TypeOK, Serving
<1>20. CASE Crash
  <2>1. cut' \subseteq Points /\ bare' \in BOOLEAN
    BY <1>20, RecoveryAssumption DEF Crash, EndedHere, Bare, TypeOK
  <2> QED
    BY <1>20, <2>1, RecoveryAssumption
      DEF Crash, EndedHere, launch, TypeOK, Content, Kinds, Serving, File, None
<1>21. CASE \E name \in {"primary", "backup", "previous"} : Spoil(name)
  BY <1>21 DEF Spoil, launch, TypeOK, Content, Kinds, Serving
<1>22. CASE UNCHANGED vars
  BY <1>22 DEF vars, TypeOK
<1> QED
  BY <1>1, <1>2, <1>3, <1>4, <1>5, <1>6, <1>7, <1>8, <1>9, <1>10, <1>11, <1>12,
     <1>13, <1>14, <1>15, <1>16, <1>17, <1>18, <1>19, <1>20, <1>21, <1>22 DEF Next

(* A snapshot takes its name only when it is written.                      *)
LEMMA SnapshotsStep ==
  ASSUME TypeOK, Snapshots, [Next]_vars
  PROVE  Snapshots'
<1>1. CASE Start \/ OpenPrimary \/ Migrate \/ Archive
  BY <1>1 DEF Start, OpenPrimary, Migrate, Archive, files, history, Snapshots
<1>2. CASE BeginCopy \/ FillCopy \/ EndCopy \/ FailRecovery \/ Probe \/ GiveUp \/ Restore
  BY <1>2
    DEF BeginCopy, FillCopy, EndCopy, FailRecovery, EndedHere, Probe, GiveUp, Restore, files, history,
        Snapshots
<1>3. CASE BeginLogin \/ Commit
  BY <1>3 DEF BeginLogin, Commit, files, history, Snapshots
<1>4. CASE BeginSnapshot \/ EndSnapshot
  BY <1>4 DEF BeginSnapshot, EndSnapshot, history, TypeOK, Snapshots
<1>5. CASE DropPrevious \/ KeepCurrent
  BY <1>5 DEF DropPrevious, KeepCurrent, history, Snapshots, File, Kept, None
<1>6. CASE Publish \/ FailPublish
  BY <1>6 DEF Publish, FailPublish, history, Snapshots, File, None
<1>7. CASE Stop \/ Crash
  BY <1>7 DEF Stop, Crash, EndedHere, files, history, Snapshots
<1>8. CASE \E name \in {"primary", "backup", "previous"} : Spoil(name)
  BY <1>8 DEF Spoil, Snapshots
<1>9. CASE UNCHANGED vars
  BY <1>9 DEF vars, Snapshots
<1> QED
  BY <1>1, <1>2, <1>3, <1>4, <1>5, <1>6, <1>7, <1>8, <1>9 DEF Next

(* The rotation of the snapshots always leaves one.                        *)
LEMMA KeptStep ==
  ASSUME Snapshots, SnapshotIsKept, [Next]_vars
  PROVE  SnapshotIsKept'
<1>1. CASE Start \/ OpenPrimary \/ Migrate \/ Archive
  BY <1>1
    DEF Start, OpenPrimary, Migrate, Archive, files, history, SnapshotIsKept
<1>2. CASE BeginCopy \/ FillCopy \/ EndCopy \/ FailRecovery \/ Probe \/ GiveUp \/ Restore
  BY <1>2
    DEF BeginCopy, FillCopy, EndCopy, FailRecovery, EndedHere, Probe, GiveUp, Restore, files, history,
        SnapshotIsKept
<1>3. CASE BeginLogin \/ Commit
  BY <1>3 DEF BeginLogin, Commit, files, history, SnapshotIsKept
<1>4. CASE BeginSnapshot \/ EndSnapshot
  BY <1>4 DEF BeginSnapshot, EndSnapshot, history, SnapshotIsKept
<1>5. CASE DropPrevious
  BY <1>5 DEF DropPrevious, history, SnapshotIsKept
<1>6. CASE KeepCurrent
  BY <1>6 DEF KeepCurrent, history, SnapshotIsKept, Kept
<1>7. CASE Publish
  BY <1>7 DEF Publish, Snapshots, SnapshotIsKept, Exists
<1>8. CASE FailPublish
  BY <1>8 DEF FailPublish, history, SnapshotIsKept
<1>9. CASE Stop
  BY <1>9 DEF Stop, files, history, SnapshotIsKept
<1>10. CASE Crash
  BY <1>10 DEF Crash, EndedHere, SnapshotIsKept
<1>11. CASE \E name \in {"primary", "backup", "previous"} : Spoil(name)
  BY <1>11 DEF Spoil, SnapshotIsKept, Exists
<1>12. CASE UNCHANGED vars
  BY <1>12 DEF vars, SnapshotIsKept
<1> QED
  BY <1>1, <1>2, <1>3, <1>4, <1>5, <1>6, <1>7, <1>8, <1>9, <1>10, <1>11, <1>12 DEF Next

(* Recovery goes from the newest snapshot that opens to the older one, and *)
(* a database without commits is only made where there is none.            *)
LEMMA NewestStep ==
  ASSUME TypeOK, Snapshots, NewestIsTried, [Next]_vars
  PROVE  NewestIsTried'
<1>1. CASE Start
  BY <1>1
    DEF Start, files, history, NewestIsTried, Behind, NoneReadable, Recovering
<1>2. CASE OpenPrimary
  BY <1>2
    DEF OpenPrimary, NewestIsTried, Behind, NoneReadable, Recovering, Candidate,
        Candidates
<1>3. CASE Migrate
  BY <1>3
    DEF Migrate, history, NewestIsTried, Behind, NoneReadable, Recovering
<1>4. CASE Archive
  BY <1>4
    DEF Archive, NewestIsTried, Candidate, Candidates, Exists, File, None, Readable
<1>5. CASE BeginCopy
  BY <1>5 DEF BeginCopy, history, NewestIsTried, Recovering, Candidate, File, None
<1>6. CASE EndCopy
  BY <1>6
    DEF EndCopy, history, TypeOK, Content, Snapshots, NewestIsTried, Behind,
        NoneReadable, Recovering, Candidate, NextCandidate, Exists
<1>7. CASE FillCopy
  BY <1>7 DEF FillCopy, history, NewestIsTried, Recovering, Candidate, File
<1>8. CASE FailRecovery
  BY <1>8
    DEF FailRecovery, EndedHere, Bare, files, TypeOK, Snapshots, NewestIsTried,
        Behind, NoneReadable, Recovering, Readable
<1>9. CASE Probe
  BY <1>9
    DEF Probe, files, history, Snapshots, NewestIsTried, Behind, Recovering,
        Candidate, NextCandidate, Exists, Readable
<1>10. CASE GiveUp
  BY <1>10
    DEF GiveUp, history, NewestIsTried, NoneReadable, Recovering, Candidate,
        File, Readable, None
<1>11. CASE Restore
  BY <1>11
    DEF Restore, history, NewestIsTried, Behind, NoneReadable, Recovering
<1>12. CASE BeginLogin
  BY <1>12
    DEF BeginLogin, files, history, TypeOK, NewestIsTried, Behind, Recovering,
        Serving
<1>13. CASE Commit
  BY <1>13
    DEF Commit, history, TypeOK, Content, NewestIsTried, Behind, Recovering,
        Serving, Readable
<1>14. CASE BeginSnapshot \/ EndSnapshot
  BY <1>14
    DEF BeginSnapshot, EndSnapshot, history, TypeOK, Content, NewestIsTried,
        Behind, Recovering, Serving, Readable
<1>15. CASE DropPrevious
  BY <1>15
    DEF DropPrevious, history, TypeOK, NewestIsTried, Behind, Recovering,
        Serving, File, Readable, None
<1>16. CASE KeepCurrent
  BY <1>16
    DEF KeepCurrent, history, TypeOK, NewestIsTried, Behind, Recovering,
        Serving, File, Kept, Readable, None
<1>17. CASE Publish
  BY <1>17 DEF Publish, TypeOK, NewestIsTried, Behind, Recovering, Serving
<1>18. CASE FailPublish
  BY <1>18
    DEF FailPublish, history, TypeOK, NewestIsTried, Behind, Recovering,
        Serving, File, Readable, None
<1>19. CASE Stop
  BY <1>19
    DEF Stop, files, history, TypeOK, NewestIsTried, Behind, Recovering, Serving
<1>20. CASE Crash
  BY <1>20
    DEF Crash, EndedHere, Bare, NewestIsTried, Behind, NoneReadable, Recovering, Readable
<1>21. CASE \E name \in {"primary", "backup", "previous"} : Spoil(name)
  BY <1>21 DEF Spoil, NewestIsTried, Behind, NoneReadable, Recovering
<1>22. CASE UNCHANGED vars
  BY <1>22
    DEF vars, NewestIsTried, Behind, NoneReadable, Candidate, Candidates,
        NextCandidate
<1> QED
  BY <1>1, <1>2, <1>3, <1>4, <1>5, <1>6, <1>7, <1>8, <1>9, <1>10, <1>11, <1>12,
     <1>13, <1>14, <1>15, <1>16, <1>17, <1>18, <1>19, <1>20, <1>21, <1>22 DEF Next

(* A rejected primary is archived before it is replaced, and put back when *)
(* nothing took its place.                                                 *)
LEMMA ArchivedStep ==
  ASSUME TypeOK, Archived, [Next]_vars
  PROVE  Archived'
<1>1. CASE Start
  BY <1>1 DEF Start, files, history, Archived, InArchive, Recovering
<1>2. CASE OpenPrimary
  BY <1>2 DEF OpenPrimary, Archived, InArchive, Recovering
<1>3. CASE Migrate
  BY <1>3 DEF Migrate, history, Archived, InArchive
<1>4. CASE Archive
  <2>1. archived'[now] = primary /\ \A t \in Clock \ {now} : archived'[t] = archived[t]
    BY <1>4 DEF Archive, TypeOK
  <2>2. ~ clash' => ~ clash /\ archived[now].kind = "none"
    BY <1>4 DEF Archive, Exists
  <2>3. ~ clash' => \A f \in rejected : InArchive(f)'
    <3> SUFFICES ASSUME ~ clash', NEW f \in rejected
                 PROVE  InArchive(f)'
      OBVIOUS
    <3>1. CASE f = primary
      BY <2>1, <3>1 DEF InArchive, TypeOK
    <3>2. CASE f # primary
      <4>1. PICK t \in Clock : archived[t] = f
        BY <2>2, <3>2 DEF Archived, InArchive
      <4>2. t # now
        BY <2>2, <4>1 DEF Archived
      <4> QED
        BY <2>1, <4>1, <4>2 DEF InArchive
    <3> QED
      BY <3>1, <3>2
  <2>4. rejected' = rejected /\ (clash => clash')
    BY <1>4 DEF Archive
  <2> QED
    BY <2>3, <2>4 DEF Archived, InArchive
<1>5. CASE BeginCopy \/ FillCopy \/ EndCopy \/ FailRecovery
  BY <1>5
    DEF BeginCopy, FillCopy, EndCopy, FailRecovery, EndedHere, files, history, Archived, InArchive,
        Recovering
<1>6. CASE Probe
  BY <1>6 DEF Probe, files, history, Archived, InArchive, Recovering
<1>7. CASE GiveUp
  BY <1>7 DEF GiveUp, history, Archived, InArchive, Recovering
<1>8. CASE Restore
  BY <1>8 DEF Restore, history, Archived, InArchive, Recovering
<1>9. CASE BeginLogin \/ Commit
  BY <1>9 DEF BeginLogin, Commit, files, history, TypeOK, Archived, InArchive
<1>10. CASE BeginSnapshot \/ EndSnapshot \/ DropPrevious \/ KeepCurrent
            \/ Publish \/ FailPublish
  BY <1>10
    DEF BeginSnapshot, EndSnapshot, DropPrevious, KeepCurrent, Publish,
        FailPublish, history, TypeOK, Archived, InArchive, Serving
<1>11. CASE Stop \/ Crash
  BY <1>11 DEF Stop, Crash, EndedHere, files, history, Archived, InArchive, Recovering
<1>12. CASE \E name \in {"primary", "backup", "previous"} : Spoil(name)
  BY <1>12 DEF Spoil, Archived, InArchive, Readable
<1>13. CASE UNCHANGED vars
  BY <1>13 DEF vars, Archived, InArchive
<1> QED
  BY <1>1, <1>2, <1>3, <1>4, <1>5, <1>6, <1>7, <1>8, <1>9, <1>10, <1>11, <1>12,
     <1>13 DEF Next

(* What was never spoilt opens, unless its migration was cut off.          *)
LEMMA UnspoiltStep ==
  ASSUME TypeOK, Unspoilt, [Next]_vars
  PROVE  Unspoilt'
<1>1. CASE Start
  BY <1>1 DEF Start, files, history, Unspoilt
<1>2. CASE OpenPrimary
  BY <1>2 DEF OpenPrimary, Unspoilt, Serving
<1>3. CASE Migrate
  BY <1>3 DEF Migrate, Unspoilt, Serving, File
<1>4. CASE Archive \/ BeginCopy \/ FillCopy \/ EndCopy \/ FailRecovery
            \/ Probe \/ GiveUp \/ Restore
  BY <1>4
    DEF Archive, BeginCopy, FillCopy, EndCopy, FailRecovery, EndedHere, Probe, GiveUp, Restore, history,
        Unspoilt, Serving
<1>5. CASE BeginLogin \/ Commit
  BY <1>5 DEF BeginLogin, Commit, files, history, TypeOK, Content, Unspoilt
<1>6. CASE BeginSnapshot \/ EndSnapshot \/ DropPrevious \/ KeepCurrent
            \/ Publish \/ FailPublish
  BY <1>6
    DEF BeginSnapshot, EndSnapshot, DropPrevious, KeepCurrent, Publish,
        FailPublish, history, Unspoilt, Serving
<1>7. CASE Stop \/ Crash
  BY <1>7 DEF Stop, Crash, EndedHere, files, history, Unspoilt
<1>8. CASE \E name \in {"primary", "backup", "previous"} : Spoil(name)
  BY <1>8 DEF Spoil, Unspoilt
<1>9. CASE UNCHANGED vars
  BY <1>9 DEF vars, Unspoilt
<1> QED
  BY <1>1, <1>2, <1>3, <1>4, <1>5, <1>6, <1>7, <1>8, <1>9 DEF Next

-----------------------------------------------------------------------------
LEMMA InitInvariant ==
  ASSUME Init
  PROVE  IInv
<1>1. TypeOK
  <2>1. None \in Content
    BY RecoveryAssumption DEF None, File, Content, Kinds
  <2>2. starts \in 0 .. MaxStart
    BY RecoveryAssumption DEF Init
  <2> QED
    BY <2>1, <2>2 DEF Init, TypeOK, Points, Serving
<1>2. Snapshots /\ SnapshotIsKept
  BY DEF Init, Snapshots, SnapshotIsKept, File, None
<1>3. NewestIsTried
  BY DEF Init, NewestIsTried, NoneReadable, Recovering, Readable, File, None
<1>4. Archived /\ Unspoilt
  BY DEF Init, Archived, Recovering, Unspoilt, File, None
<1> QED
  BY <1>1, <1>2, <1>3, <1>4 DEF IInv

LEMMA NextInvariant ==
  ASSUME IInv, [Next]_vars
  PROVE  IInv'
<1>1. TypeOK' /\ Snapshots' /\ SnapshotIsKept'
  BY TypeStep, SnapshotsStep, KeptStep DEF IInv
<1>2. NewestIsTried' /\ Archived' /\ Unspoilt'
  BY NewestStep, ArchivedStep, UnspoiltStep DEF IInv
<1> QED
  BY <1>1, <1>2 DEF IInv

(* The invariant holds whatever is killed, fails, is spoilt or is set back. *)
THEOREM RecoveryInvariant == Spec => []IInv
<1>1. Init => IInv
  BY InitInvariant
<1>2. IInv /\ [Next]_vars => IInv'
  BY NextInvariant
<1> QED
  BY <1>1, <1>2, PTL DEF Spec

(* Every snapshot is finished, and one stays readable (publish_backup).    *)
THEOREM SnapshotsSurvive == Spec => []SnapshotSurvives
<1>1. IInv => SnapshotSurvives
  BY DEF IInv, Snapshots, SnapshotIsKept, SnapshotSurvives, OnlyFinishedSnapshots,
         OneSnapshotReadable, Exists, Readable
<1> QED
  BY <1>1, RecoveryInvariant, PTL

(* The server never runs behind a readable snapshot                        *)
(* (open_database_with_recovery).                                          *)
THEOREM NewestSnapshotIsTried == Spec => []NeverBehindSnapshot
<1>1. IInv => NeverBehindSnapshot
  <2> SUFFICES ASSUME IInv, ~ bare, pc \in Serving
               PROVE  \A f \in {backup, previous} : Readable(f) => f.v <= primary.v
    BY DEF NeverBehindSnapshot, SnapshotsAreTried
  <2>1. Readable(primary)
    BY DEF IInv, TypeOK, Readable
  <2> QED
    BY <2>1 DEF IInv, NewestIsTried, Behind, Serving
<1> QED
  BY <1>1, RecoveryInvariant, PTL

(* No rejected primary is lost (open_database_with_recovery).              *)
THEOREM RejectedPrimariesAreKept == Spec => []RejectedIsKept
<1>1. IInv => RejectedIsKept
  BY DEF IInv, Archived, InArchive, RejectedIsKept
<1> QED
  BY <1>1, RecoveryInvariant, PTL

(* Being killed makes no start fail, but in the first migration            *)
(* (Database::configure).                                                  *)
THEOREM KillsAreHarmless == Spec => []FailsOnlyWhenSpoilt
<1>1. IInv => FailsOnlyWhenSpoilt
  BY DEF IInv, Unspoilt, FailsOnlyWhenSpoilt, Serving
<1> QED
  BY <1>1, RecoveryInvariant, PTL
=============================================================================
