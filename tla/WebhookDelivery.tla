--------------------------- MODULE WebhookDelivery ---------------------------
(***************************************************************************)
(* Durable webhook delivery: the disk-backed queue                         *)
(* (structured_output/queue.rs), the synchronous attempt that              *)
(* drive_harness makes after its write-ahead (harness/mod.rs), the retry   *)
(* worker (structured_output/worker.rs) and the start and stop of the      *)
(* process around them (app.rs, main.rs).                                  *)
(*                                                                         *)
(* A job is one file, so its name in the queue directory is its state:     *)
(*   "tmp"         tmp/<id>.json           written, not yet visible        *)
(*   "pending"     pending/<id>.json       visible to the retry worker     *)
(*   "delivering"  pending/<id>.delivering owned by the synchronous path   *)
(*   "dead"        dead/<id>.json          put aside                       *)
(*   "torn"        a name whose contents never reached the disk            *)
(*   "none"        no file                                                 *)
(* loc[j] is what a reader sees now; disk[j] is the set of things a power  *)
(* loss may leave instead: writes and renames add to it, an fsync of the   *)
(* file takes "torn" away, an fsync of the directory the older names.      *)
(*                                                                         *)
(* Run ids are ULIDs: a later job has a greater id, and the worker goes    *)
(* through a listing in that order.                                        *)
(***************************************************************************)
EXTENDS Naturals

CONSTANTS Jobs,         \* run ids
          Registries,   \* the schema registries a start may load
          MaxStops,     \* bound on crashes, power losses and exits
          FsFaults,     \* TRUE: a file operation may fail
          PowerLoss,    \* TRUE: the host may lose power
          RetryAgeCap   \* TRUE: max_retry_age_hours > 0

Places == {"none", "tmp", "torn", "pending", "delivering", "dead"}
Hooks  == {"webhook", "chatonly", "removed"}

ASSUME JobsAssumption == Jobs \subseteq Nat
ASSUME RegistriesAssumption == Registries \subseteq [Jobs -> Hooks]
ASSUME BoundsAssumption ==
  /\ MaxStops \in Nat
  /\ {FsFaults, PowerLoss, RetryAgeCap} \subseteq BOOLEAN

VARIABLES
  mode,      \* "up", "stopping" (mark_clean_shutdown ran), "down"
  permit,    \* the permit notify_one leaves in the worker's Notify
  hook,      \* what the registry of this process says of each job's schema
  stops,     \* how often the process went down
  loc, disk, \* the job files (see above)
  reason,    \* jobs with a dead/<id>.reason sidecar
  spc, sjob, \* drive_harness: where it is, and with which job
  wpc, wjob, \* retry worker: where it is, and with which job
  listed,    \* the rest of the listing the worker is going through
  born,      \* jobs a run has produced
  acked,     \* jobs whose enqueue returned Ok
  accepted,  \* jobs the receiver has accepted at least once
  waived     \* jobs removed because their schema lost its webhook

procVars == <<mode, permit, hook, stops>>
fileVars == <<loc, disk, reason>>
syncVars == <<spc, sjob>>
workVars == <<wpc, wjob, listed>>
histVars == <<born, acked, accepted, waived>>
vars == <<procVars, fileVars, syncVars, workVars, histVars>>

SyncPcs == {"idle", "fsync", "rename", "syncdir", "mark", "post", "posted",
            "remove", "unmark"}
WorkPcs == {"scan", "pause", "idle", "job", "read", "discard", "bury", "move", "post",
            "posted", "remove", "backoff", "exited"}

Init ==
  /\ mode = "up" /\ permit = FALSE /\ stops = 0
  /\ hook \in Registries
  /\ loc = [j \in Jobs |-> "none"]
  /\ disk = [j \in Jobs |-> {"none"}]
  /\ reason = {}
  /\ spc = "idle" /\ sjob \in Jobs
  /\ wpc = "scan" /\ wjob \in Jobs /\ listed = {}
  /\ born = {} /\ acked = {} /\ accepted = {} /\ waived = {}

(* A rename or unlink: visible at once, durable only after an fsync.       *)
Move(j, to) ==
  /\ loc' = [loc EXCEPT ![j] = to]
  /\ disk' = [disk EXCEPT ![j] = @ \cup {to}]

FsyncFile(j) == disk' = [disk EXCEPT ![j] = @ \ {"torn"}]
FsyncDir(j)  == disk' = [disk EXCEPT ![j] = {loc[j]} \cup (@ \cap {"torn"})]

------------------------------------------------------------------------------
(* drive_harness on a StructuredOutput event.  It runs inside              *)
(* handle_command, on the main loop, so a clean shutdown finds it idle.    *)

SyncGoes(from, to) == mode = "up" /\ spc = from /\ spc' = to

(* Steps 1-3: a schema without a webhook makes no job; otherwise enqueue   *)
(* writes tmp/<id>.json.  A failed write may leave a partial file.         *)
EnqueueWrite(j) ==
  /\ hook[j] = "webhook"
  /\ j \notin born /\ \A k \in born : k < j
  /\ born' = born \cup {j}
  /\ sjob' = j
  /\ \/ /\ \/ SyncGoes("idle", "fsync")
           \/ FsFaults /\ SyncGoes("idle", "idle")
        /\ loc' = [loc EXCEPT ![j] = "tmp"]
        /\ disk' = [disk EXCEPT ![j] = @ \cup {"tmp", "torn"}]
     \/ FsFaults /\ SyncGoes("idle", "idle") /\ UNCHANGED <<loc, disk>>
  /\ UNCHANGED <<procVars, reason, workVars, acked, accepted, waived>>

EnqueueFsync ==
  /\ \/ SyncGoes("fsync", "rename") /\ FsyncFile(sjob)
     \/ FsFaults /\ SyncGoes("fsync", "idle") /\ UNCHANGED disk
  /\ UNCHANGED <<procVars, loc, reason, sjob, workVars, histVars>>

EnqueueRename ==
  /\ \/ SyncGoes("rename", "syncdir") /\ Move(sjob, "pending")
     \/ FsFaults /\ SyncGoes("rename", "idle") /\ UNCHANGED <<loc, disk>>
  /\ UNCHANGED <<procVars, reason, sjob, workVars, histVars>>

(* Mutant: enqueue returns after the rename, without the fsync of pending/. *)
EnqueueSkipsDirFsync ==
  /\ SyncGoes("syncdir", "mark")
  /\ acked' = acked \cup {sjob}
  /\ UNCHANGED <<procVars, fileVars, sjob, workVars, born, accepted, waived>>

(* The fsync of pending/ completes the write-ahead.  When it fails enqueue *)
(* returns Err although the worker can already see the job.                *)
EnqueueSyncDir ==
  /\ \/ /\ SyncGoes("syncdir", "mark")
        /\ FsyncDir(sjob)
        /\ acked' = acked \cup {sjob}
     \/ FsFaults /\ SyncGoes("syncdir", "idle") /\ UNCHANGED <<disk, acked>>
  /\ UNCHANGED <<procVars, loc, reason, sjob, workVars, born, accepted, waived>>

(* mark_delivering: fails when the worker has already moved or removed the *)
(* file; the job is then left to the worker.                               *)
MarkDelivering ==
  /\ \/ /\ SyncGoes("mark", "post")
        /\ loc[sjob] = "pending"
        /\ Move(sjob, "delivering")
     \/ /\ SyncGoes("mark", "idle")
        /\ FsFaults \/ loc[sjob] # "pending"
        /\ UNCHANGED <<loc, disk>>
  /\ UNCHANGED <<procVars, reason, sjob, workVars, histVars>>

(* The POST reaches the receiver, which accepts it.                        *)
SyncAccepted ==
  /\ SyncGoes("post", "posted")
  /\ accepted' = accepted \cup {sjob}
  /\ UNCHANGED <<procVars, fileVars, sjob, workVars, born, acked, waived>>

(* The client sees the 2xx.                                                *)
SyncOk ==
  /\ SyncGoes("posted", "remove")
  /\ UNCHANGED <<procVars, fileVars, sjob, workVars, histVars>>

(* Mutant: the file is removed whatever deliver returned.                  *)
SyncErrRemoves ==
  /\ SyncGoes("post", "remove") \/ SyncGoes("posted", "remove")
  /\ UNCHANGED <<procVars, fileVars, sjob, workVars, histVars>>

(* Any Err of deliver: refused, unreachable, or a timeout after the        *)
(* receiver had accepted.                                                  *)
SyncErr ==
  /\ SyncGoes("post", "unmark") \/ SyncGoes("posted", "unmark")
  /\ UNCHANGED <<procVars, fileVars, sjob, workVars, histVars>>

SyncRemove ==
  /\ SyncGoes("remove", "idle")
  /\ \/ Move(sjob, "none")
     \/ FsFaults /\ UNCHANGED <<loc, disk>>
  /\ UNCHANGED <<procVars, reason, sjob, workVars, histVars>>

(* Mutant: nothing renames the file back.                                  *)
SyncUnmarkForgotten ==
  /\ SyncGoes("unmark", "idle")
  /\ UNCHANGED <<procVars, fileVars, sjob, workVars, histVars>>

(* unmark_delivering: a failure strands the file until the next start.     *)
SyncUnmark ==
  /\ SyncGoes("unmark", "idle")
  /\ \/ Move(sjob, "pending")
     \/ FsFaults /\ UNCHANGED <<loc, disk>>
  /\ UNCHANGED <<procVars, reason, sjob, workVars, histVars>>

------------------------------------------------------------------------------
(* The retry worker.                                                       *)

WorkGoes(from, to) == mode # "down" /\ wpc = from /\ wpc' = to

(* Mutant: the flag is never stored, there is only the Notify.             *)
StopFlagNeverSet == FALSE

(* The shutdown flag.                                                      *)
StopFlag == mode = "stopping"

(* Top of the loop: the flag, then list_pending, which may fail or, after  *)
(* an error of next_entry, end early.                                      *)
WorkerStop ==
  /\ StopFlag /\ WorkGoes("scan", "exited")
  /\ UNCHANGED <<procVars, fileVars, syncVars, wjob, listed, histVars>>

WorkerScan ==
  /\ ~StopFlag
  /\ \/ \E S \in SUBSET {j \in Jobs : loc[j] = "pending"} :
          /\ FsFaults \/ S = {j \in Jobs : loc[j] = "pending"}
          /\ listed' = S
          /\ WorkGoes("scan", IF S = {} THEN "idle" ELSE "job")
     \/ FsFaults /\ WorkGoes("scan", "pause") /\ UNCHANGED listed
  /\ UNCHANGED <<procVars, fileVars, syncVars, wjob, histVars>>

(* The five-second sleeps after a failed or an empty listing, and the end  *)
(* of a backoff.                                                           *)
WorkerTimer ==
  /\ \/ WorkGoes("pause", "scan")
     \/ WorkGoes("idle", "scan")
     \/ WorkGoes("backoff", "job")
  /\ UNCHANGED <<procVars, fileVars, syncVars, wjob, listed, histVars>>

(* The sleep of an empty queue and the backoff race the Notify.            *)
WorkerNotified ==
  /\ permit /\ permit' = FALSE
  /\ WorkGoes("idle", "exited") \/ WorkGoes("backoff", "exited")
  /\ UNCHANGED <<mode, hook, stops, fileVars, syncVars, wjob, listed, histVars>>

(* The listing is done, or the flag is seen before the next job.           *)
WorkerEndScan ==
  /\ listed = {} \/ StopFlag
  /\ listed' = {}
  /\ WorkGoes("job", "scan")
  /\ UNCHANGED <<procVars, fileVars, syncVars, wjob, histVars>>

(* The flag again, then the next job of the listing, oldest first.         *)
WorkerNext(j) ==
  /\ ~StopFlag
  /\ j \in listed /\ \A k \in listed : j <= k
  /\ listed' = listed \ {j}
  /\ wjob' = j
  /\ WorkGoes("job", "read")
  /\ UNCHANGED <<procVars, fileVars, syncVars, histVars>>

(* read_job fails: the file is gone since the listing, or a read error.    *)
WorkerSkip ==
  /\ FsFaults \/ loc[wjob] # "pending"
  /\ WorkGoes("read", "job")
  /\ UNCHANGED <<procVars, fileVars, syncVars, wjob, listed, histVars>>

(* The schema is gone from the registry, or the job is too old.            *)
WorkerCondemn ==
  /\ loc[wjob] = "pending"
  /\ hook[wjob] = "removed" \/ RetryAgeCap
  /\ WorkGoes("read", "bury")
  /\ UNCHANGED <<procVars, fileVars, syncVars, wjob, listed, histVars>>

WorkerTake ==
  /\ loc[wjob] = "pending"
  /\ \/ hook[wjob] = "chatonly" /\ WorkGoes("read", "discard")
     \/ hook[wjob] = "webhook" /\ WorkGoes("read", "post")
  /\ UNCHANGED <<procVars, fileVars, syncVars, wjob, listed, histVars>>

(* A schema that lost its webhook: its job is removed.                     *)
WorkerDiscard ==
  /\ WorkGoes("discard", "job")
  /\ \/ /\ loc[wjob] = "pending"
        /\ Move(wjob, "none")
        /\ waived' = waived \cup {wjob}
     \/ /\ FsFaults \/ loc[wjob] # "pending"
        /\ UNCHANGED <<loc, disk, waived>>
  /\ UNCHANGED <<procVars, reason, syncVars, wjob, listed, born, acked, accepted>>

WorkerAccepted ==
  /\ WorkGoes("post", "posted")
  /\ accepted' = accepted \cup {wjob}
  /\ UNCHANGED <<procVars, fileVars, syncVars, wjob, listed, born, acked, waived>>

WorkerOk ==
  /\ WorkGoes("posted", "remove")
  /\ UNCHANGED <<procVars, fileVars, syncVars, wjob, listed, histVars>>

(* Transport error, timeout, 5xx, 408 or 429: try again after a backoff.   *)
WorkerErr ==
  /\ WorkGoes("post", "backoff") \/ WorkGoes("posted", "backoff")
  /\ UNCHANGED <<procVars, fileVars, syncVars, wjob, listed, histVars>>

(* Any other 4xx: the receiver refuses the job for good.                   *)
WorkerRefused ==
  /\ WorkGoes("post", "bury")
  /\ UNCHANGED <<procVars, fileVars, syncVars, wjob, listed, histVars>>

(* remove, whose error the worker ignores: ENOENT when the synchronous     *)
(* path renamed the file while the POST was in flight.                     *)
WorkerRemove ==
  /\ WorkGoes("remove", "job")
  /\ \/ loc[wjob] = "pending" /\ Move(wjob, "none")
     \/ /\ FsFaults \/ loc[wjob] # "pending"
        /\ UNCHANGED <<loc, disk>>
  /\ UNCHANGED <<procVars, reason, syncVars, wjob, listed, histVars>>

(* Mutant: the rename comes before the sidecar.                            *)
WorkerRenamesFirst ==
  /\ WorkGoes("bury", "move")
  /\ UNCHANGED <<procVars, fileVars, syncVars, wjob, listed, histVars>>

(* move_to_dead: first the sidecar with the reason, then the rename.       *)
WorkerWriteReason ==
  /\ \/ WorkGoes("bury", "move") /\ reason' = reason \cup {wjob}
     \/ FsFaults /\ WorkGoes("bury", "job") /\ UNCHANGED reason
  /\ UNCHANGED <<procVars, loc, disk, syncVars, wjob, listed, histVars>>

WorkerMoveToDead ==
  /\ WorkGoes("move", "job")
  /\ \/ loc[wjob] = "pending" /\ Move(wjob, "dead")
     \/ /\ FsFaults \/ loc[wjob] # "pending"
        /\ UNCHANGED <<loc, disk>>
  /\ UNCHANGED <<procVars, reason, syncVars, wjob, listed, histVars>>

------------------------------------------------------------------------------
(* The process.                                                            *)

(* mark_clean_shutdown: the flag, then notify_one.                         *)
MarkCleanShutdown ==
  /\ mode = "up" /\ spc = "idle"
  /\ mode' = "stopping" /\ permit' = TRUE
  /\ UNCHANGED <<hook, stops, fileVars, syncVars, workVars, histVars>>

(* Everything the process held in memory is gone.                          *)
GoesDown ==
  /\ stops < MaxStops
  /\ stops' = stops + 1
  /\ mode' = "down" /\ permit' = FALSE
  /\ spc' = "idle" /\ wpc' = "exited" /\ listed' = {}
  /\ UNCHANGED <<hook, sjob, wjob, histVars>>

(* main returns: nobody joins the worker, which is dropped wherever it is. *)
Exit == mode = "stopping" /\ GoesDown /\ UNCHANGED fileVars

Crash == mode # "down" /\ GoesDown /\ UNCHANGED fileVars

PowerFail ==
  /\ PowerLoss /\ mode # "down" /\ GoesDown
  /\ loc' \in [Jobs -> Places]
  /\ \A j \in Jobs : loc'[j] \in disk[j]
  /\ disk' = [j \in Jobs |-> {loc'[j]}]
  /\ reason' \in SUBSET reason

(* Mutant: .delivering files are left alone.                               *)
RecoversTmpOnly(p) == IF p \in {"tmp", "torn"} THEN "none" ELSE p

(* DeliveryQueue::new on one file: orphans in tmp/ are removed, orphaned   *)
(* .delivering files become .json again.                                   *)
Recovered(p) ==
  CASE p \in {"tmp", "torn"} -> "none" [] p = "delivering" -> "pending" [] OTHER -> p

(* The next start, perhaps with another configuration; the worker is       *)
(* spawned after the recovery.                                             *)
Boot ==
  /\ mode = "down" /\ mode' = "up"
  /\ hook' \in Registries
  /\ wpc' = "scan"
  /\ \E failed \in SUBSET Jobs :
       /\ FsFaults \/ failed = {}
       /\ loc' = [j \in Jobs |-> IF j \in failed THEN loc[j]
                                                 ELSE Recovered(loc[j])]
       /\ disk' = [j \in Jobs |-> disk[j] \cup {loc'[j]}]
  /\ UNCHANGED <<permit, stops, reason, syncVars, wjob, listed, histVars>>

------------------------------------------------------------------------------
Sync ==
  \/ \E j \in Jobs : EnqueueWrite(j)
  \/ EnqueueFsync \/ EnqueueRename \/ EnqueueSyncDir \/ MarkDelivering
  \/ SyncAccepted \/ SyncOk \/ SyncErr \/ SyncRemove \/ SyncUnmark

Worker ==
  \/ WorkerStop \/ WorkerScan \/ WorkerTimer \/ WorkerNotified \/ WorkerEndScan
  \/ (\E j \in Jobs : WorkerNext(j)) \/ WorkerSkip \/ WorkerCondemn \/ WorkerTake
  \/ WorkerDiscard \/ WorkerAccepted \/ WorkerOk \/ WorkerErr \/ WorkerRefused
  \/ WorkerRemove \/ WorkerWriteReason \/ WorkerMoveToDead

Process == MarkCleanShutdown \/ Exit \/ Crash \/ PowerFail \/ Boot

Next == Sync \/ Worker \/ Process

Spec == Init /\ [][Next]_vars

(* drive_harness goes on with the job it has; the worker task is always    *)
(* scheduled; and the receiver does not fail a job's POST for ever.        *)
Fairness ==
  /\ WF_vars(Sync /\ spc # "idle")
  /\ WF_vars(Worker)
  /\ \A j \in Jobs : /\ SF_vars(WorkerAccepted /\ wjob = j)
                     /\ SF_vars(WorkerOk /\ wjob = j)

FairSpec == Spec /\ Fairness

------------------------------------------------------------------------------
TypeOK ==
  /\ mode \in {"up", "stopping", "down"} /\ permit \in BOOLEAN /\ stops \in 0..MaxStops
  /\ hook \in Registries
  /\ loc \in [Jobs -> Places] /\ disk \in [Jobs -> SUBSET Places]
  /\ reason \subseteq Jobs
  /\ spc \in SyncPcs /\ sjob \in Jobs
  /\ wpc \in WorkPcs /\ wjob \in Jobs /\ listed \subseteq Jobs
  /\ born \subseteq Jobs /\ acked \subseteq Jobs
  /\ accepted \subseteq Jobs /\ waived \subseteq Jobs

(* Where a job can be found again.                                         *)
Kept == {"pending", "delivering", "dead"}

Settled(j) == j \in accepted \cup waived

(* A job whose enqueue returned Ok has a file, now and after a power loss, *)
(* until the receiver has accepted it or its schema lost the webhook.      *)
NoJobLost ==
  \A j \in acked : Settled(j) \/ (loc[j] \in Kept /\ disk[j] \subseteq Kept)

(* The queue keeps the promise of WebhookOutbox, whatever fails.           *)
Status(j) ==
  CASE j \in accepted -> "sent"
    [] j \in waived \ accepted -> "waived"
    [] j \notin acked \cup accepted \cup waived -> "new"
    [] OTHER -> CASE loc[j] = "dead" -> "dead"
                  [] loc[j] \in {"pending", "delivering"} -> "owed"
                  [] OTHER -> "lost"

Outbox == INSTANCE WebhookOutbox WITH status <- [j \in Jobs |-> Status(j)]

Implements == Outbox!Spec

(* Unless a rename fails, a .delivering file belongs to the synchronous    *)
(* attempt that is under way: no job is hidden from the worker for good.   *)
NoStrandedJob ==
  \A j \in Jobs :
    loc[j] = "delivering" /\ mode # "down" =>
      sjob = j /\ spc \in {"post", "posted", "remove", "unmark"}

(* A dead letter never lacks its .reason, wherever move_to_dead stopped.   *)
DeadLetterExplained == \A j \in Jobs : loc[j] = "dead" => j \in reason

(* While the process stays up every enqueued job leaves the queue.         *)
QueueDrains ==
  \A j \in Jobs :
    (j \in acked /\ mode = "up") ~> (loc[j] \in {"none", "dead"} \/ mode # "up")

(* After mark_clean_shutdown the worker returns, from its idle sleep, its  *)
(* backoff or the middle of a listing.                                     *)
WorkerReturns == (mode = "stopping") ~> (wpc = "exited")

(* The rename to .delivering keeps the worker and the synchronous attempt  *)
(* from POSTing a job at the same time.                                    *)
NoConcurrentPost ==
  ~(spc \in {"post", "posted"} /\ wpc \in {"post", "posted"} /\ sjob = wjob)
==============================================================================
