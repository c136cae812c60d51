------------------------------ MODULE JobTable ------------------------------
(***************************************************************************)
(* The `jobs` table of PostgreSQL as the bot uses it.  Only the status     *)
(* column takes part in the protocol between handlers, consumers and the   *)
(* reconciler.  Every operator below is one SQL statement and is therefore *)
(* atomic; no statement looks at the current status before writing it.     *)
(*                                                                         *)
(* A job is a natural number, and job numbers are in created_at order, so  *)
(* that "oldest first" is "smallest first".                                *)
(***************************************************************************)
EXTENDS BotParams

VARIABLE status     \* the status column

\* JobStatus.  CLEANING belongs to the enumeration, but no statement writes it.
Active == {"DOWNLOADING", "RENAMING", "UPLOADING"}
Terminal == {"COMPLETED", "FAILED", "CANCELLED"}
JobStatus == {"PENDING", "QUEUED"} \union Active \union Terminal

TableTypeOK == status \in [Jobs -> JobStatus]

\* on_file has inserted every row with create_job.
TableInit == status = [j \in Jobs |-> "PENDING"]

-----------------------------------------------------------------------------

SetJobStatus(j, s) == status' = [status EXCEPT ![j] = s]

\* set_job_plan stores the new name and makes the row QUEUED, whatever it was.
SetJobPlan(j) == SetJobStatus(j, "QUEUED")

\* reset_stale_jobs, where `stale` are the active rows started before the cutoff.
ResetStaleJobs(stale) ==
    status' = [j \in Jobs |-> IF j \in stale THEN "FAILED" ELSE status[j]]

\* A bug to be caught: rows without an instruction are listed too.
UnfinishedRows == {j \in Jobs : status[j] \in {"PENDING", "QUEUED"}}

QueuedRows == {j \in Jobs : status[j] = "QUEUED"}
ActiveRows == {j \in Jobs : status[j] \in Active}
ProcessingRows(u) == {j \in QueuedRows \union ActiveRows : OwnerOf[j] = u}
=============================================================================
