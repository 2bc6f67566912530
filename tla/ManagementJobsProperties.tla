---------------------- MODULE ManagementJobsProperties ----------------------
(***************************************************************************)
(* What the management jobs promise the console.                            *)
(***************************************************************************)
EXTENDS ManagementJobs

WorkedOn(j) == \E w \in Threads : wjob[w] = j

\* No job is left "running" with nobody working on it, unless it is a staged
\* restore that a confirmation would still carry out, whatever confirmations
\* and failures went before (run_*_job, stage_restore_job, transition).
NobodyIsAbandoned ==
    \A j \in Jobs :
        status[j] = "running" => WorkedOn(j) \/ (pending[j] /\ staged[j] # NoBackup)

\* A finished backup can be downloaded: the artifact is there as soon as the
\* job is called a success (run_backup_job, download_artifact).
BackupIsDownloadable ==
    \A j \in Jobs : kind[j] = "backup" /\ status[j] = "succeeded" => j \in artifact

\* As long as no other thread writes to the same path, the router is told to
\* restore exactly the backup that was staged, although commands fail half
\* done and are run twice by the SSH client's retries (execute_restore).
UndisturbedRestoreIsExact ==
    \A w \in Threads :
        wpc[w] = "dispatch" /\ w \notin disturbed => file = Whole(wdata[w])

\* Only an upload that was validated and staged is ever written to the
\* router: neither a rejected one, whose job is never started, nor one that
\* an earlier success has dropped, however often it is confirmed
\* (stage_restore_job, confirm_restore_job).
OnlyStagedIsUploaded ==
    /\ \A w \in Threads :
          wpc[w] \in Uploading \ {"clear", "size"} =>
              wdata[w] # NoBackup /\ pending[wjob[w]]
    /\ \A j \in Jobs : kind[j] = "restore" /\ ~pending[j] => status[j] = "queued"

\* No job handed to the executor stays unfinished for ever: it ends, or the
\* process that keeps it does (run_*_job).
JobsFinish ==
    \A j \in Jobs :
        ~<>[](kind[j] \in {"action", "checked", "backup"}
              /\ status[j] \in {"queued", "running"})

\* "This restore job is not awaiting confirmation": a restore that was
\* confirmed is not executed by a second thread while the first one works.
OneRestoreAtATime ==
    \A v, w \in Threads :
        v # w /\ wpc[v] \in Uploading /\ wpc[w] \in Uploading => wjob[v] # wjob[w]

\* "Start a service and return the tracked job": the job is carried out.
ServiceJobsRun ==
    \A j \in Jobs : ~<>[](kind[j] = "service" /\ status[j] = "queued")
=============================================================================
