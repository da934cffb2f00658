------------------------ MODULE WebhookDelivery_proofs ------------------------
(***************************************************************************)
(* What WebhookDelivery guarantees for every set of jobs, every set of     *)
(* registries, any number of stops, and whatever may fail: its variables   *)
(* have their types, no acknowledged job is lost, and the queue implements *)
(* WebhookOutbox.                                                          *)
(***************************************************************************)
EXTENDS WebhookDelivery, TLAPS

LEMMA TypeInit == Init => TypeOK
<1> SUFFICES ASSUME Init PROVE TypeOK
  OBVIOUS
<1>1. disk \in [Jobs -> SUBSET Places]
  BY DEF Init, Places
<1>2. stops \in 0..MaxStops
  BY BoundsAssumption DEF Init
<1> QED
  BY <1>1, <1>2 DEF Init, TypeOK, Places, SyncPcs, WorkPcs

LEMMA RecoveredType ==
  ASSUME NEW p \in Places
  PROVE  Recovered(p) \in Places
  BY DEF Recovered, Places

LEMMA TypeSync == TypeOK /\ Sync => TypeOK'
<1> SUFFICES ASSUME TypeOK, Sync PROVE TypeOK'
  OBVIOUS
<1> USE DEF TypeOK, SyncGoes, procVars, fileVars, syncVars, workVars, histVars
<1>1. CASE \E j \in Jobs : EnqueueWrite(j)
  BY <1>1 DEF EnqueueWrite, Places, SyncPcs
<1>2. CASE EnqueueFsync
  BY <1>2 DEF EnqueueFsync, FsyncFile, SyncPcs
<1>3. CASE EnqueueRename
  BY <1>3 DEF EnqueueRename, Move, Places, SyncPcs
<1>4. CASE EnqueueSyncDir
  BY <1>4 DEF EnqueueSyncDir, FsyncDir, SyncPcs
<1>5. CASE MarkDelivering
  BY <1>5 DEF MarkDelivering, Move, Places, SyncPcs
<1>6. CASE SyncAccepted \/ SyncOk \/ SyncErr
  BY <1>6 DEF SyncAccepted, SyncOk, SyncErr, SyncPcs
<1>7. CASE SyncRemove \/ SyncUnmark
  BY <1>7 DEF SyncRemove, SyncUnmark, Move, Places, SyncPcs
<1> QED
  BY <1>1, <1>2, <1>3, <1>4, <1>5, <1>6, <1>7 DEF Sync

LEMMA TypeWorker == TypeOK /\ Worker => TypeOK'
<1> SUFFICES ASSUME TypeOK, Worker PROVE TypeOK'
  OBVIOUS
<1> USE DEF TypeOK, WorkGoes, WorkPcs, procVars, fileVars, syncVars, workVars, histVars
<1>1. CASE WorkerStop \/ WorkerTimer \/ WorkerNotified \/ WorkerEndScan
  BY <1>1 DEF WorkerStop, WorkerTimer, WorkerNotified, WorkerEndScan
<1>2. CASE WorkerScan
  BY <1>2 DEF WorkerScan
<1>3. CASE \E j \in Jobs : WorkerNext(j)
  BY <1>3 DEF WorkerNext
<1>4. CASE WorkerSkip \/ WorkerCondemn \/ WorkerTake
  BY <1>4 DEF WorkerSkip, WorkerCondemn, WorkerTake
<1>5. CASE WorkerDiscard
  BY <1>5 DEF WorkerDiscard, Move, Places
<1>6. CASE WorkerAccepted \/ WorkerOk \/ WorkerErr \/ WorkerRefused
  BY <1>6 DEF WorkerAccepted, WorkerOk, WorkerErr, WorkerRefused
<1>7. CASE WorkerRemove \/ WorkerMoveToDead
  BY <1>7 DEF WorkerRemove, WorkerMoveToDead, Move, Places
<1>8. CASE WorkerWriteReason
  BY <1>8 DEF WorkerWriteReason
<1> QED
  BY <1>1, <1>2, <1>3, <1>4, <1>5, <1>6, <1>7, <1>8 DEF Worker

LEMMA TypeProcess == TypeOK /\ Process => TypeOK'
<1> SUFFICES ASSUME TypeOK, Process PROVE TypeOK'
  OBVIOUS
<1> USE DEF TypeOK, SyncPcs, WorkPcs, procVars, fileVars, syncVars, workVars, histVars
<1>1. CASE MarkCleanShutdown
  BY <1>1 DEF MarkCleanShutdown
<1>2. ASSUME GoesDown
      PROVE  stops' \in 0..MaxStops
  BY <1>2, BoundsAssumption DEF GoesDown
<1>3. CASE Exit \/ Crash
  BY <1>2, <1>3 DEF Exit, Crash, GoesDown
<1>4. CASE PowerFail
  <2>1. disk' \in [Jobs -> SUBSET Places]
    BY <1>4 DEF PowerFail
  <2> QED
    BY <1>2, <1>4, <2>1 DEF PowerFail, GoesDown
<1>5. CASE Boot
  <2>1. loc' \in [Jobs -> Places]
    BY <1>5, RecoveredType DEF Boot
  <2>2. disk' \in [Jobs -> SUBSET Places]
    BY <1>5, <2>1 DEF Boot
  <2> QED
    BY <1>5, <2>1, <2>2 DEF Boot
<1> QED
  BY <1>1, <1>3, <1>4, <1>5 DEF Process

LEMMA TypeNext == TypeOK /\ [Next]_vars => TypeOK'
<1>1. TypeOK /\ UNCHANGED vars => TypeOK'
  BY DEF TypeOK, vars, procVars, fileVars, syncVars, workVars, histVars
<1> QED
  BY <1>1, TypeSync, TypeWorker, TypeProcess DEF Next

(* Every variable of the queue keeps its type, whatever fails.             *)
THEOREM Typing == Spec => []TypeOK
  BY TypeInit, TypeNext, PTL DEF Spec

-------------------------------------------------------------------------------
(* NoJobLost is not inductive: it leans on what each step before the       *)
(* acknowledgement and before a removal has already established.           *)

(* Where the write-ahead stands while enqueue has not returned.            *)
WriteAhead ==
  /\ mode = "down" => spc = "idle"
  /\ spc \in {"fsync", "rename", "syncdir"} => sjob \in born
  /\ spc \in {"rename", "syncdir"} => "torn" \notin disk[sjob]
  /\ spc = "syncdir" => Settled(sjob) \/ loc[sjob] \in Kept

(* A file is removed only after the receiver accepted its job.             *)
RemovalEarned ==
  /\ spc \in {"posted", "remove"} => sjob \in accepted
  /\ wpc \in {"posted", "remove"} => wjob \in accepted

IInv == TypeOK /\ acked \subseteq born /\ WriteAhead /\ RemovalEarned /\ NoJobLost

LEMMA InitInv == Init => IInv
  BY TypeInit DEF Init, IInv, WriteAhead, RemovalEarned, NoJobLost

LEMMA RecoveredKept ==
  ASSUME NEW p \in Kept
  PROVE  Recovered(p) \in Kept
  BY DEF Recovered, Kept

LEMMA SyncInv == IInv /\ Sync => IInv'
<1> SUFFICES ASSUME IInv, Sync PROVE IInv'
  OBVIOUS
<1>0. TypeOK /\ TypeOK'
  BY TypeSync DEF IInv
<1> USE <1>0 DEF IInv, WriteAhead, RemovalEarned, NoJobLost, Settled, SyncGoes,
                 procVars, fileVars, syncVars, workVars, histVars
<1>1. CASE \E j \in Jobs : EnqueueWrite(j)
  <2> PICK j \in Jobs : EnqueueWrite(j)
    BY <1>1
  <2>1. \A k \in acked : loc'[k] = loc[k] /\ disk'[k] = disk[k]
    BY DEF EnqueueWrite, TypeOK
  <2>2. NoJobLost'
    BY <2>1 DEF EnqueueWrite
  <2> QED
    BY <2>2 DEF EnqueueWrite, TypeOK
<1>2. CASE EnqueueFsync
  BY <1>2 DEF EnqueueFsync, FsyncFile, TypeOK
<1>3. CASE EnqueueRename
  BY <1>3 DEF EnqueueRename, Move, Kept, TypeOK
<1>4. CASE EnqueueSyncDir
  <2>1. CASE FsFaults /\ SyncGoes("syncdir", "idle") /\ UNCHANGED <<disk, acked>>
    BY <1>4, <2>1 DEF EnqueueSyncDir
  <2>2. CASE SyncGoes("syncdir", "mark") /\ FsyncDir(sjob) /\ acked' = acked \cup {sjob}
    <3>1. disk'[sjob] = {loc[sjob]}
      BY <2>2 DEF FsyncDir, TypeOK
    <3>2. \A j \in Jobs : j # sjob => disk'[j] = disk[j]
      BY <2>2 DEF FsyncDir, TypeOK
    <3>3. NoJobLost'
      BY <1>4, <2>2, <3>1, <3>2 DEF EnqueueSyncDir, TypeOK
    <3> QED
      BY <1>4, <2>2, <3>3 DEF EnqueueSyncDir
  <2> QED
    BY <1>4, <2>1, <2>2 DEF EnqueueSyncDir
<1>5. CASE MarkDelivering
  BY <1>5 DEF MarkDelivering, Move, Kept, TypeOK
<1>6. CASE SyncAccepted \/ SyncOk \/ SyncErr
  BY <1>6 DEF SyncAccepted, SyncOk, SyncErr, TypeOK
<1>7. CASE SyncRemove
  BY <1>7 DEF SyncRemove, Move, TypeOK
<1>8. CASE SyncUnmark
  BY <1>8 DEF SyncUnmark, Move, Kept, TypeOK
<1> QED
  BY <1>1, <1>2, <1>3, <1>4, <1>5, <1>6, <1>7, <1>8 DEF Sync

LEMMA WorkerInv == IInv /\ Worker => IInv'
<1> SUFFICES ASSUME IInv, Worker PROVE IInv'
  OBVIOUS
<1>0. TypeOK /\ TypeOK'
  BY TypeWorker DEF IInv
<1> USE <1>0 DEF IInv, WriteAhead, RemovalEarned, NoJobLost, Settled, WorkGoes,
                 procVars, fileVars, syncVars, workVars, histVars
<1>1. CASE WorkerStop \/ WorkerTimer \/ WorkerNotified \/ WorkerEndScan
  BY <1>1 DEF WorkerStop, WorkerTimer, WorkerNotified, WorkerEndScan
<1>2. CASE WorkerScan
  BY <1>2 DEF WorkerScan
<1>3. CASE \E j \in Jobs : WorkerNext(j)
  BY <1>3 DEF WorkerNext
<1>4. CASE WorkerSkip \/ WorkerCondemn \/ WorkerTake
  BY <1>4 DEF WorkerSkip, WorkerCondemn, WorkerTake
<1>5. CASE WorkerDiscard
  BY <1>5 DEF WorkerDiscard, Move, TypeOK
<1>6. CASE WorkerAccepted \/ WorkerOk \/ WorkerErr \/ WorkerRefused
  BY <1>6 DEF WorkerAccepted, WorkerOk, WorkerErr, WorkerRefused, TypeOK
<1>7. CASE WorkerRemove
  BY <1>7 DEF WorkerRemove, Move, TypeOK
<1>8. CASE WorkerMoveToDead
  BY <1>8 DEF WorkerMoveToDead, Move, Kept, TypeOK
<1>9. CASE WorkerWriteReason
  BY <1>9 DEF WorkerWriteReason
<1> QED
  BY <1>1, <1>2, <1>3, <1>4, <1>5, <1>6, <1>7, <1>8, <1>9 DEF Worker

LEMMA ProcessInv == IInv /\ Process => IInv'
<1> SUFFICES ASSUME IInv, Process PROVE IInv'
  OBVIOUS
<1>0. TypeOK /\ TypeOK'
  BY TypeProcess DEF IInv
<1> USE <1>0 DEF IInv, WriteAhead, RemovalEarned, NoJobLost, Settled,
                 procVars, fileVars, syncVars, workVars, histVars
<1>1. CASE MarkCleanShutdown
  BY <1>1 DEF MarkCleanShutdown
<1>2. CASE Exit \/ Crash
  BY <1>2 DEF Exit, Crash, GoesDown
<1>3. CASE PowerFail
  <2>1. \A j \in Jobs : loc'[j] \in disk[j] /\ disk'[j] = {loc'[j]}
    BY <1>3 DEF PowerFail
  <2>2. NoJobLost'
    BY <1>3, <2>1 DEF PowerFail, GoesDown, TypeOK
  <2> QED
    BY <1>3, <2>2 DEF PowerFail, GoesDown
<1>4. CASE Boot
  <2>1. \A j \in Jobs : loc'[j] \in {loc[j], Recovered(loc[j])}
    BY <1>4 DEF Boot
  <2>2. \A j \in Jobs : disk'[j] = disk[j] \cup {loc'[j]}
    BY <1>4 DEF Boot
  <2>3. \A j \in Jobs : loc[j] \in Kept => loc'[j] \in Kept
    BY <2>1, RecoveredKept
  <2>4. NoJobLost'
    BY <1>4, <2>2, <2>3 DEF Boot, TypeOK
  <2>5. spc' = spc /\ sjob' = sjob /\ wpc' = "scan"
    BY <1>4 DEF Boot
  <2> QED
    BY <1>4, <2>2, <2>3, <2>4, <2>5 DEF Boot, Kept, TypeOK
<1> QED
  BY <1>1, <1>2, <1>3, <1>4 DEF Process

LEMMA NextInv == IInv /\ [Next]_vars => IInv'
<1>1. IInv /\ UNCHANGED vars => IInv'
  BY DEF IInv, TypeOK, WriteAhead, RemovalEarned, NoJobLost, Settled,
         vars, procVars, fileVars, syncVars, workVars, histVars
<1> QED
  BY <1>1, SyncInv, WorkerInv, ProcessInv DEF Next

LEMMA Invariance == Spec => []IInv
  BY InitInv, NextInv, PTL DEF Spec

(* No acknowledged job loses its file before the receiver accepted it or   *)
(* its schema lost the webhook: for any jobs, faults and power losses.     *)
THEOREM NothingLost == Spec => []NoJobLost
<1>1. IInv => NoJobLost
  BY DEF IInv
<1> QED
  BY <1>1, Invariance, PTL

-------------------------------------------------------------------------------
(* The refinement needs to know, beyond IInv, which file each task holds.  *)

Unborn == \A j \in Jobs \ born : loc[j] = "none" /\ disk[j] = {"none"} /\ j \notin waived

SyncHolds ==
  /\ spc \in {"fsync", "rename"} => loc[sjob] = "tmp"
  /\ spc \in {"fsync", "rename", "syncdir"} => sjob \notin acked
  /\ spc \in {"post", "posted", "remove", "unmark"} => loc[sjob] = "delivering"

(* Without power losses a waived job has no file, and nobody POSTs it.     *)
WaivedGone ==
  /\ PowerLoss \/ \A j \in waived : loc[j] = "none"
  /\ wpc = "post" => loc[wjob] # "dead" /\ (PowerLoss \/ wjob \notin waived)

(* Nothing but a power loss takes a file out of dead/.                     *)
DeadStays == \A j \in Jobs : "dead" \in disk[j] => loc[j] = "dead"

Held == Unborn /\ SyncHolds /\ WaivedGone /\ DeadStays

LEMMA InitHeld == Init => Held
  BY DEF Init, Held, Unborn, SyncHolds, WaivedGone, DeadStays

LEMMA SyncHeld == IInv /\ Held /\ Sync => Held'
<1> SUFFICES ASSUME IInv, Held, Sync PROVE Held'
  OBVIOUS
<1>0. TypeOK /\ acked \subseteq born /\ WriteAhead
  BY DEF IInv
<1> USE <1>0 DEF Held, Unborn, SyncHolds, WaivedGone, DeadStays, WriteAhead, SyncGoes, TypeOK,
                 procVars, fileVars, syncVars, workVars, histVars
<1>1. CASE \E j \in Jobs : EnqueueWrite(j)
  <2> PICK j \in Jobs : EnqueueWrite(j)
    BY <1>1
  <2>1. \A k \in Jobs \ {j} : loc'[k] = loc[k] /\ disk'[k] = disk[k]
    BY DEF EnqueueWrite
  <2>2. loc'[j] \in {"tmp", "none"} /\ j \notin waived /\ j \notin acked
    BY DEF EnqueueWrite
  <2>3. (spc' = "fsync" => loc'[j] = "tmp") /\ spc' \in {"fsync", "idle"}
    BY DEF EnqueueWrite
  <2>4. /\ sjob' = j /\ born' = born \cup {j}
        /\ UNCHANGED <<workVars, acked, accepted, waived>>
    BY DEF EnqueueWrite
  <2>5. Unborn'
    BY <2>1, <2>4
  <2>6. SyncHolds'
    BY <2>2, <2>3, <2>4
  <2>7. WaivedGone'
    BY <2>1, <2>2, <2>4
  <2>8. disk'[j] \subseteq {"none", "tmp", "torn"}
    BY DEF EnqueueWrite
  <2>9. DeadStays'
    BY <2>1, <2>8
  <2> QED
    BY <2>5, <2>6, <2>7, <2>9
<1>2. CASE EnqueueFsync
  BY <1>2 DEF EnqueueFsync, FsyncFile
<1>3. CASE EnqueueRename
  BY <1>3 DEF EnqueueRename, Move
<1>4. CASE EnqueueSyncDir
  <2>1. \A j \in Jobs \ {sjob} : disk'[j] = disk[j]
    BY <1>4 DEF EnqueueSyncDir, FsyncDir
  <2>2. disk'[sjob] \in {disk[sjob], {loc[sjob]}}
    BY <1>4 DEF EnqueueSyncDir, FsyncDir
  <2>3. loc' = loc
    BY <1>4 DEF EnqueueSyncDir
  <2>4. DeadStays'
    BY <2>1, <2>2, <2>3
  <2> QED
    BY <1>4, <2>1, <2>4 DEF EnqueueSyncDir
<1>5. CASE MarkDelivering
  BY <1>5 DEF MarkDelivering, Move
<1>6. CASE SyncAccepted \/ SyncOk \/ SyncErr
  BY <1>6 DEF SyncAccepted, SyncOk, SyncErr
<1>7. CASE SyncRemove
  BY <1>7 DEF SyncRemove, Move
<1>8. CASE SyncUnmark
  BY <1>8 DEF SyncUnmark, Move
<1> QED
  BY <1>1, <1>2, <1>3, <1>4, <1>5, <1>6, <1>7, <1>8 DEF Sync

LEMMA WorkerHeld == IInv /\ Held /\ Worker => Held'
<1> SUFFICES ASSUME IInv, Held, Worker PROVE Held'
  OBVIOUS
<1>0. TypeOK
  BY DEF IInv
<1> USE <1>0 DEF Held, Unborn, SyncHolds, WaivedGone, DeadStays, WorkGoes, TypeOK,
                 procVars, fileVars, syncVars, workVars, histVars
<1>1. CASE WorkerStop \/ WorkerTimer \/ WorkerNotified \/ WorkerEndScan
  BY <1>1 DEF WorkerStop, WorkerTimer, WorkerNotified, WorkerEndScan
<1>2. CASE WorkerScan
  BY <1>2 DEF WorkerScan
<1>3. CASE \E j \in Jobs : WorkerNext(j)
  BY <1>3 DEF WorkerNext
<1>4. CASE WorkerSkip \/ WorkerCondemn \/ WorkerTake
  BY <1>4 DEF WorkerSkip, WorkerCondemn, WorkerTake
<1>5. CASE WorkerDiscard
  BY <1>5 DEF WorkerDiscard, Move
<1>6. CASE WorkerAccepted \/ WorkerOk \/ WorkerErr \/ WorkerRefused
  BY <1>6 DEF WorkerAccepted, WorkerOk, WorkerErr, WorkerRefused
<1>7. CASE WorkerRemove
  BY <1>7 DEF WorkerRemove, Move
<1>8. CASE WorkerMoveToDead
  BY <1>8 DEF WorkerMoveToDead, Move
<1>9. CASE WorkerWriteReason
  BY <1>9 DEF WorkerWriteReason
<1> QED
  BY <1>1, <1>2, <1>3, <1>4, <1>5, <1>6, <1>7, <1>8, <1>9 DEF Worker

LEMMA ProcessHeld == IInv /\ Held /\ Process => Held'
<1> SUFFICES ASSUME IInv, Held, Process PROVE Held'
  OBVIOUS
<1>0. TypeOK /\ (mode = "down" => spc = "idle")
  BY DEF IInv, WriteAhead
<1> USE <1>0 DEF Held, Unborn, SyncHolds, WaivedGone, DeadStays, TypeOK,
                 procVars, fileVars, syncVars, workVars, histVars
<1>1. CASE MarkCleanShutdown
  BY <1>1 DEF MarkCleanShutdown
<1>2. CASE Exit \/ Crash
  BY <1>2 DEF Exit, Crash, GoesDown
<1>3. CASE PowerFail
  BY <1>3 DEF PowerFail, GoesDown
<1>4. CASE Boot
  <2>1. \A j \in Jobs : loc[j] = "none" => loc'[j] = "none"
    BY <1>4 DEF Boot, Recovered
  <2>0. \A j \in Jobs : loc[j] = "dead" <=> loc'[j] = "dead"
    BY <1>4 DEF Boot, Recovered
  <2>2. \A j \in Jobs : disk'[j] = disk[j] \cup {loc'[j]}
    BY <1>4 DEF Boot
  <2>3. /\ spc' = "idle" /\ wpc' = "scan"
        /\ UNCHANGED histVars
    BY <1>4 DEF Boot
  <2>4. DeadStays'
    BY <2>0, <2>2
  <2>5. Unborn'
    BY <2>1, <2>2, <2>3
  <2>6. SyncHolds' /\ WaivedGone'
    BY <2>1, <2>3
  <2> QED
    BY <2>4, <2>5, <2>6
<1> QED
  BY <1>1, <1>2, <1>3, <1>4 DEF Process

LEMMA NextHeld == IInv /\ Held /\ [Next]_vars => Held'
<1>1. Held /\ UNCHANGED vars => Held'
  BY DEF Held, Unborn, SyncHolds, WaivedGone, DeadStays,
         vars, procVars, fileVars, syncVars, workVars, histVars
<1> QED
  BY <1>1, SyncHeld, WorkerHeld, ProcessHeld DEF Next

LEMMA AlwaysHeld == Spec => []Held
  BY Invariance, InitHeld, NextHeld, PTL DEF Spec

-------------------------------------------------------------------------------
(* The refinement of WebhookOutbox.                                        *)

Mapped == [j \in Jobs |-> Status(j)]

(* What a step does to the status of one job, and to the others.           *)
Steps == [Outbox!Next]_Mapped

LEMMA Stutters ==
  ASSUME \A j \in Jobs : Status(j)' = Status(j)
  PROVE  Steps
<1>1. Mapped' = Mapped
  BY DEF Mapped
<1> QED
  BY <1>1 DEF Steps

LEMMA OneMoves ==
  ASSUME NEW k \in Jobs,
         \A j \in Jobs \ {k} : Status(j)' = Status(j),
         \/ Status(k)' = Status(k)
         \/ Status(k) = "new" /\ Status(k)' = "owed"
         \/ Status(k) \in {"new", "owed"} /\ Status(k)' \in {"sent", "waived", "dead"}
         \/ PowerLoss /\ Status(k) = "waived" /\ Status(k)' = "sent"
  PROVE  Steps
<1>1. CASE Status(k)' = Status(k)
  <2>1. \A j \in Jobs : Status(j)' = Status(j)
    BY <1>1
  <2> QED
    BY <2>1, Stutters
<1>2. Mapped' = [Mapped EXCEPT ![k] = Status(k)']
  BY DEF Mapped
<1>3. Mapped[k] = Status(k)
  BY DEF Mapped
<1>4. CASE Status(k)' # Status(k)
  <2>1. Outbox!Commit(k) \/ Outbox!Send(k) \/ Outbox!Waive(k) \/ Outbox!Bury(k)
    BY <1>2, <1>3, <1>4
    DEF Mapped, Outbox!Commit, Outbox!Send, Outbox!Waive, Outbox!Bury, Outbox!Becomes
  <2> QED
    BY <2>1 DEF Steps, Outbox!Next
<1> QED
  BY <1>1, <1>4

LEMMA InitMaps == Init => Outbox!Init
<1> SUFFICES ASSUME Init PROVE Outbox!Init
  OBVIOUS
<1>1. \A j \in Jobs : Status(j) = "new"
  BY DEF Init, Status
<1> QED
  BY <1>1 DEF Outbox!Init

LEMMA SyncMaps == IInv /\ Held /\ Sync => Steps
<1> SUFFICES ASSUME IInv, Held, Sync PROVE Steps
  OBVIOUS
<1>0. TypeOK /\ acked \subseteq born /\ WriteAhead /\ RemovalEarned /\ NoJobLost
  BY DEF IInv
<1> USE <1>0 DEF Held, Unborn, SyncHolds, WaivedGone, DeadStays, WriteAhead, RemovalEarned,
                 NoJobLost, Settled, Kept, SyncGoes, TypeOK,
                 procVars, fileVars, syncVars, workVars, histVars
<1>1. CASE \E j \in Jobs : EnqueueWrite(j)
  <2> PICK j \in Jobs : EnqueueWrite(j)
    BY <1>1
  <2>1. \A k \in Jobs \ {j} : loc'[k] = loc[k]
    BY DEF EnqueueWrite
  <2>2. j \notin acked /\ UNCHANGED <<acked, accepted, waived>>
    BY DEF EnqueueWrite
  <2>3. \A k \in Jobs : Status(k)' = Status(k)
    BY <2>1, <2>2 DEF Status
  <2> QED
    BY <2>3, Stutters
<1>2. CASE EnqueueFsync
  <2>1. \A j \in Jobs : Status(j)' = Status(j)
    BY <1>2 DEF EnqueueFsync, Status
  <2> QED
    BY <2>1, Stutters
<1>3. CASE EnqueueRename
  <2>1. \A j \in Jobs : Status(j)' = Status(j)
    BY <1>3 DEF EnqueueRename, Move, Status
  <2> QED
    BY <2>1, Stutters
<1>4. CASE EnqueueSyncDir
  <2> PICK k \in Jobs : k = sjob
    OBVIOUS
  <2>1. \A j \in Jobs \ {k} : Status(j)' = Status(j)
    BY <1>4 DEF EnqueueSyncDir, Status
  <2>2. \/ Status(k)' = Status(k)
        \/ Status(k) = "new" /\ Status(k)' \in {"owed", "dead"}
    BY <1>4 DEF EnqueueSyncDir, Status
  <2> QED
    BY <2>1, <2>2, OneMoves
<1>5. CASE MarkDelivering
  <2>1. \A j \in Jobs : Status(j)' = Status(j)
    BY <1>5 DEF MarkDelivering, Move, Status
  <2> QED
    BY <2>1, Stutters
<1>6. CASE SyncAccepted
  <2> PICK k \in Jobs : k = sjob
    OBVIOUS
  <2>1. \A j \in Jobs \ {k} : Status(j)' = Status(j)
    BY <1>6 DEF SyncAccepted, Status
  <2>2. Status(k)' = "sent"
    BY <1>6 DEF SyncAccepted, Status
  <2>3. \/ Status(k) \in {"new", "owed", "sent"}
        \/ PowerLoss /\ Status(k) = "waived"
    BY <1>6 DEF SyncAccepted, Status
  <2> QED
    BY <2>1, <2>2, <2>3, OneMoves
<1>7. CASE SyncOk \/ SyncErr
  <2>1. \A j \in Jobs : Status(j)' = Status(j)
    BY <1>7 DEF SyncOk, SyncErr, Status
  <2> QED
    BY <2>1, Stutters
<1>8. CASE SyncRemove
  <2>1. \A j \in Jobs : Status(j)' = Status(j)
    BY <1>8 DEF SyncRemove, Move, Status
  <2> QED
    BY <2>1, Stutters
<1>9. CASE SyncUnmark
  <2>1. \A j \in Jobs : Status(j)' = Status(j)
    BY <1>9 DEF SyncUnmark, Move, Status
  <2> QED
    BY <2>1, Stutters
<1> QED
  BY <1>1, <1>2, <1>3, <1>4, <1>5, <1>6, <1>7, <1>8, <1>9 DEF Sync

LEMMA WorkerMaps == IInv /\ Held /\ Worker => Steps
<1> SUFFICES ASSUME IInv, Held, Worker PROVE Steps
  OBVIOUS
<1>0. TypeOK /\ RemovalEarned /\ NoJobLost
  BY DEF IInv
<1> USE <1>0 DEF Held, WaivedGone, RemovalEarned, NoJobLost, Settled, Kept, WorkGoes,
                 TypeOK, procVars, fileVars, syncVars, workVars, histVars
<1>1. CASE \/ WorkerStop \/ WorkerScan \/ WorkerTimer \/ WorkerNotified \/ WorkerEndScan
           \/ (\E j \in Jobs : WorkerNext(j)) \/ WorkerSkip \/ WorkerCondemn \/ WorkerTake
           \/ WorkerOk \/ WorkerErr \/ WorkerRefused \/ WorkerWriteReason
  <2>1. UNCHANGED <<loc, acked, accepted, waived>>
    BY <1>1
    DEF WorkerStop, WorkerScan, WorkerTimer, WorkerNotified, WorkerEndScan, WorkerNext,
        WorkerSkip, WorkerCondemn, WorkerTake, WorkerOk, WorkerErr, WorkerRefused,
        WorkerWriteReason
  <2>2. \A j \in Jobs : Status(j)' = Status(j)
    BY <2>1 DEF Status
  <2> QED
    BY <2>2, Stutters
<1>2. CASE WorkerDiscard
  <2> PICK k \in Jobs : k = wjob
    OBVIOUS
  <2>1. \A j \in Jobs \ {k} : Status(j)' = Status(j)
    BY <1>2 DEF WorkerDiscard, Move, Status
  <2>2. \/ Status(k)' = Status(k)
        \/ Status(k) \in {"new", "owed"} /\ Status(k)' = "waived"
    BY <1>2 DEF WorkerDiscard, Move, Status
  <2> QED
    BY <2>1, <2>2, OneMoves
<1>3. CASE WorkerAccepted
  <2> PICK k \in Jobs : k = wjob
    OBVIOUS
  <2>1. \A j \in Jobs \ {k} : Status(j)' = Status(j)
    BY <1>3 DEF WorkerAccepted, Status
  <2>2. Status(k)' = "sent"
    BY <1>3 DEF WorkerAccepted, Status
  <2>3. \/ Status(k) \in {"new", "owed", "sent"}
        \/ PowerLoss /\ Status(k) = "waived"
    BY <1>3 DEF WorkerAccepted, Status
  <2> QED
    BY <2>1, <2>2, <2>3, OneMoves
<1>4. CASE WorkerRemove
  <2>1. \A j \in Jobs : Status(j)' = Status(j)
    BY <1>4 DEF WorkerRemove, Move, Status
  <2> QED
    BY <2>1, Stutters
<1>5. CASE WorkerMoveToDead
  <2> PICK k \in Jobs : k = wjob
    OBVIOUS
  <2>1. \A j \in Jobs \ {k} : Status(j)' = Status(j)
    BY <1>5 DEF WorkerMoveToDead, Move, Status
  <2>2. \/ Status(k)' = Status(k)
        \/ Status(k) = "owed" /\ Status(k)' = "dead"
    BY <1>5 DEF WorkerMoveToDead, Move, Status
  <2> QED
    BY <2>1, <2>2, OneMoves
<1> QED
  BY <1>1, <1>2, <1>3, <1>4, <1>5 DEF Worker

LEMMA ProcessMaps == IInv /\ Held /\ Process => Steps
<1> SUFFICES ASSUME IInv, Held, Process PROVE Steps
  OBVIOUS
<1>0. TypeOK /\ NoJobLost
  BY DEF IInv
<1> USE <1>0 DEF NoJobLost, Settled, TypeOK,
                 procVars, fileVars, syncVars, workVars, histVars
<1>1. CASE MarkCleanShutdown \/ Exit \/ Crash
  <2>1. UNCHANGED <<loc, acked, accepted, waived>>
    BY <1>1 DEF MarkCleanShutdown, Exit, Crash, GoesDown
  <2>2. \A j \in Jobs : Status(j)' = Status(j)
    BY <2>1 DEF Status
  <2> QED
    BY <2>2, Stutters
<1>2. CASE PowerFail
  <2> DEFINE S == {j \in Jobs : Status(j) = "dead" /\ Status(j)' = "owed"}
  <2>1. \A j \in Jobs : loc'[j] \in disk[j]
    BY <1>2 DEF PowerFail
  <2>2. PowerLoss /\ UNCHANGED <<acked, accepted, waived>>
    BY <1>2 DEF PowerFail, GoesDown
  <2>3. \A j \in acked : Settled(j) \/ (loc[j] \in Kept /\ loc'[j] \in Kept)
    BY <2>1
  <2>4. \A j \in Jobs : loc'[j] = "dead" => loc[j] = "dead"
    BY <2>1 DEF Held, DeadStays
  <2>5. \A j \in Jobs \ S : Status(j)' = Status(j)
    BY <2>2, <2>3, <2>4 DEF Status, Kept
  <2>6. \A j \in S : Mapped[j] = "dead"
    BY DEF Mapped
  <2>7. Mapped' = [j \in Jobs |-> IF j \in S THEN "owed" ELSE Mapped[j]]
    BY <2>5 DEF Mapped
  <2>8. S \in SUBSET Jobs
    OBVIOUS
  <2> HIDE DEF S
  <2>9. Outbox!Exhume(S)
    BY <2>2, <2>6, <2>7 DEF Outbox!Exhume, Mapped
  <2> QED
    BY <2>8, <2>9 DEF Steps, Outbox!Next
<1>3. CASE Boot
  <2>1. \A j \in Jobs : loc'[j] \in {loc[j], Recovered(loc[j])}
    BY <1>3 DEF Boot
  <2>2. UNCHANGED <<acked, accepted, waived>>
    BY <1>3 DEF Boot
  <2>3. \A j \in Jobs : Status(j)' = Status(j)
    BY <2>1, <2>2 DEF Status, Recovered, Kept
  <2> QED
    BY <2>3, Stutters
<1> QED
  BY <1>1, <1>2, <1>3 DEF Process

LEMMA NextMaps == IInv /\ Held /\ [Next]_vars => Steps
<1>1. ASSUME UNCHANGED vars PROVE Steps
  <2>1. \A j \in Jobs : Status(j)' = Status(j)
    BY <1>1 DEF Status, vars, fileVars, histVars
  <2> QED
    BY <2>1, Stutters
<1> QED
  BY <1>1, SyncMaps, WorkerMaps, ProcessMaps DEF Next

(* The queue, the synchronous attempt, the worker and the restarts         *)
(* together implement the outbox, whatever the bounds of the model.        *)
THEOREM QueueImplementsOutbox == Spec => Implements
<1>1. Init => Outbox!Init
  BY InitMaps
<1>2. IInv /\ Held /\ [Next]_vars => [Outbox!Next]_[j \in Jobs |-> Status(j)]
  BY NextMaps DEF Steps, Mapped
<1> QED
  BY <1>1, <1>2, Invariance, AlwaysHeld, PTL DEF Spec, Implements, Outbox!Spec

-------------------------------------------------------------------------------
(* A .delivering file appears with the synchronous attempt that owns it    *)
(* and goes when that attempt ends; only a rename that fails, or a crash,  *)
(* leaves it behind, and the next start takes it back.                     *)
LEMMA SyncStranded ==
  ASSUME ~FsFaults, TypeOK, NoStrandedJob, Sync
  PROVE  NoStrandedJob'
<1> USE DEF TypeOK, NoStrandedJob, SyncGoes, procVars, fileVars, syncVars, workVars, histVars
<1>1. CASE \E j \in Jobs : EnqueueWrite(j)
  BY <1>1 DEF EnqueueWrite
<1>2. CASE EnqueueFsync \/ EnqueueSyncDir
  BY <1>2 DEF EnqueueFsync, EnqueueSyncDir
<1>3. CASE EnqueueRename
  BY <1>3 DEF EnqueueRename, Move
<1>4. CASE MarkDelivering
  BY <1>4 DEF MarkDelivering, Move
<1>5. CASE SyncAccepted \/ SyncOk \/ SyncErr
  BY <1>5 DEF SyncAccepted, SyncOk, SyncErr
<1>6. CASE SyncRemove \/ SyncUnmark
  BY <1>6 DEF SyncRemove, SyncUnmark, Move
<1> QED
  BY <1>1, <1>2, <1>3, <1>4, <1>5, <1>6 DEF Sync

LEMMA WorkerStranded ==
  ASSUME TypeOK, NoStrandedJob, Worker
  PROVE  NoStrandedJob'
<1> USE DEF TypeOK, NoStrandedJob, WorkGoes, procVars, fileVars, syncVars, workVars, histVars
<1>1. CASE \/ WorkerStop \/ WorkerScan \/ WorkerTimer \/ WorkerNotified \/ WorkerEndScan
         \/ \E j \in Jobs : WorkerNext(j)
  BY <1>1 DEF WorkerStop, WorkerScan, WorkerTimer, WorkerNotified, WorkerEndScan, WorkerNext
<1>2. CASE \/ WorkerSkip \/ WorkerCondemn \/ WorkerTake \/ WorkerAccepted \/ WorkerOk
         \/ WorkerErr \/ WorkerRefused \/ WorkerWriteReason
  BY <1>2 DEF WorkerSkip, WorkerCondemn, WorkerTake, WorkerAccepted, WorkerOk, WorkerErr,
              WorkerRefused, WorkerWriteReason
<1>3. CASE WorkerDiscard \/ WorkerRemove \/ WorkerMoveToDead
  BY <1>3 DEF WorkerDiscard, WorkerRemove, WorkerMoveToDead, Move
<1> QED
  BY <1>1, <1>2, <1>3 DEF Worker

LEMMA ProcessStranded ==
  ASSUME ~FsFaults, TypeOK, NoStrandedJob, Process
  PROVE  NoStrandedJob'
<1> USE DEF NoStrandedJob
<1>1. CASE MarkCleanShutdown
  BY <1>1 DEF MarkCleanShutdown, fileVars, syncVars
<1>2. CASE Exit \/ Crash \/ PowerFail
  BY <1>2 DEF Exit, Crash, PowerFail, GoesDown
<1>3. CASE Boot
  <2>1. \A j \in Jobs : loc'[j] = Recovered(loc[j])
    BY <1>3 DEF Boot
  <2>2. \A j \in Jobs : loc'[j] # "delivering"
    BY <2>1 DEF Recovered
  <2> QED  BY <2>2
<1> QED
  BY <1>1, <1>2, <1>3 DEF Process

(* While renames succeed (queue.rs, mark_delivering, unmark_delivering and *)
(* DeliveryQueue::new), no crash or power loss hides a job from the worker *)
(* for good.                                                               *)
THEOREM NothingStranded ==
  ASSUME ~FsFaults
  PROVE  Spec => []NoStrandedJob
<1>1. Init => NoStrandedJob
  BY DEF Init, NoStrandedJob
<1>2. TypeOK /\ NoStrandedJob /\ [Next]_vars => NoStrandedJob'
  <2>1. CASE UNCHANGED vars
    BY <2>1 DEF NoStrandedJob, vars, procVars, fileVars, syncVars
  <2> QED
    BY <2>1, SyncStranded, WorkerStranded, ProcessStranded DEF Next
<1> QED
  BY <1>1, <1>2, Typing, PTL DEF Spec

-------------------------------------------------------------------------------
(* move_to_dead writes the sidecar first, and nothing removes it.          *)
Explained == DeadLetterExplained /\ (wpc = "move" => wjob \in reason)

LEMMA SyncExplained ==
  ASSUME TypeOK, Explained, Sync
  PROVE  Explained'
<1>1. reason' = reason /\ wpc' = wpc /\ wjob' = wjob
  BY DEF Sync, EnqueueWrite, EnqueueFsync, EnqueueRename, EnqueueSyncDir, MarkDelivering,
         SyncAccepted, SyncOk, SyncErr, SyncRemove, SyncUnmark, fileVars, workVars
<1>2. \A j \in Jobs : loc'[j] = "dead" => loc[j] = "dead"
  BY DEF TypeOK, Move, Sync, EnqueueWrite, EnqueueFsync, EnqueueRename, EnqueueSyncDir,
         MarkDelivering, SyncAccepted, SyncOk, SyncErr, SyncRemove, SyncUnmark, fileVars
<1> QED
  BY <1>1, <1>2 DEF Explained, DeadLetterExplained

LEMMA WorkerExplained ==
  ASSUME TypeOK, Explained, Worker
  PROVE  Explained'
<1> USE DEF TypeOK, Explained, DeadLetterExplained, WorkGoes, fileVars
<1>1. CASE \/ WorkerStop \/ WorkerScan \/ WorkerTimer \/ WorkerNotified \/ WorkerEndScan
         \/ \E j \in Jobs : WorkerNext(j)
  BY <1>1 DEF WorkerStop, WorkerScan, WorkerTimer, WorkerNotified, WorkerEndScan, WorkerNext
<1>2. CASE \/ WorkerSkip \/ WorkerCondemn \/ WorkerTake \/ WorkerAccepted \/ WorkerOk
         \/ WorkerErr \/ WorkerRefused
  BY <1>2 DEF WorkerSkip, WorkerCondemn, WorkerTake, WorkerAccepted, WorkerOk, WorkerErr,
              WorkerRefused
<1>3. CASE WorkerDiscard \/ WorkerRemove \/ WorkerMoveToDead
  BY <1>3 DEF WorkerDiscard, WorkerRemove, WorkerMoveToDead, Move
<1>4. CASE WorkerWriteReason
  BY <1>4 DEF WorkerWriteReason
<1> QED
  BY <1>1, <1>2, <1>3, <1>4 DEF Worker

LEMMA ProcessExplained ==
  ASSUME ~PowerLoss, TypeOK, Explained, Process
  PROVE  Explained'
<1> USE DEF Explained, DeadLetterExplained, fileVars
<1>1. CASE MarkCleanShutdown
  BY <1>1 DEF MarkCleanShutdown, workVars
<1>2. CASE Exit \/ Crash
  BY <1>2 DEF Exit, Crash, GoesDown
<1>3. CASE PowerFail
  BY <1>3 DEF PowerFail
<1>4. CASE Boot
  <2>1. \A j \in Jobs : loc'[j] = "dead" => loc[j] = "dead"
    BY <1>4 DEF Boot, Recovered
  <2> QED  BY <1>4, <2>1 DEF Boot
<1> QED
  BY <1>1, <1>2, <1>3, <1>4 DEF Process

(* While the host keeps its power a dead letter has its sidecar, wherever  *)
(* move_to_dead (queue.rs) was interrupted and whatever failed in it.      *)
THEOREM DeadLettersExplained ==
  ASSUME ~PowerLoss
  PROVE  Spec => []DeadLetterExplained
<1>1. Init => Explained
  BY DEF Init, Explained, DeadLetterExplained
<1>2. TypeOK /\ Explained /\ [Next]_vars => Explained'
  <2>1. CASE UNCHANGED vars
    BY <2>1 DEF Explained, DeadLetterExplained, vars, fileVars, workVars
  <2> QED
    BY <2>1, SyncExplained, WorkerExplained, ProcessExplained DEF Next
<1>3. Explained => DeadLetterExplained
  BY DEF Explained
<1> QED
  BY <1>1, <1>2, <1>3, Typing, PTL DEF Spec
==============================================================================
