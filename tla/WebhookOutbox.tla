---------------------------- MODULE WebhookOutbox ----------------------------
(***************************************************************************)
(* What the durable webhook queue promises, with no files and no tasks.    *)
(*                                                                         *)
(* A job is "new" until its write-ahead succeeded; from then on terminus   *)
(* owes it to the receiver, and the debt ends in one of three ways: the    *)
(* receiver accepted it ("sent"), it was put aside as a dead letter        *)
(* ("dead"), or the operator took the webhook out of the schema            *)
(* ("waived").  A job that is owed is never just forgotten.                *)
(***************************************************************************)
CONSTANTS Jobs,        \* run ids of the jobs
          PowerLoss    \* TRUE: the host may lose what was not fsynced

VARIABLE status        \* status[j]: what has become of job j

Statuses == {"new", "owed", "sent", "dead", "waived"}

Init == status = [j \in Jobs |-> "new"]

Becomes(j, s) == status' = [status EXCEPT ![j] = s]

(* The write-ahead of j is complete.                                       *)
Commit(j) == status[j] = "new" /\ Becomes(j, "owed")

(* The receiver accepted j.  A job whose enqueue reported an error after    *)
(* the file was already visible may be sent as well, and so may one that   *)
(* was waived, when a power loss brings its file back.                     *)
Send(j) ==
  /\ status[j] \in {"new", "owed"} \/ (PowerLoss /\ status[j] = "waived")
  /\ Becomes(j, "sent")

(* The schema of j no longer has a webhook.  (The removal of the file is    *)
(* not fsynced either: see Send.)                                          *)
Waive(j) == status[j] \in {"new", "owed"} /\ Becomes(j, "waived")

(* j is put aside as a dead letter.                                        *)
Bury(j) == status[j] \in {"new", "owed"} /\ Becomes(j, "dead")

(* Dead-lettering is a rename nobody fsyncs: a power loss may undo it, and *)
(* the jobs are owed again.                                                *)
Exhume(S) ==
  /\ PowerLoss
  /\ \A j \in S : status[j] = "dead"
  /\ status' = [j \in Jobs |-> IF j \in S THEN "owed" ELSE status[j]]

Next ==
  \/ \E j \in Jobs : Commit(j) \/ Send(j) \/ Waive(j) \/ Bury(j)
  \/ \E S \in SUBSET Jobs : Exhume(S)

Spec == Init /\ [][Next]_status
==============================================================================
