--------------------------- MODULE ManagementJobs ---------------------------
(***************************************************************************)
(* Tracked management jobs: the endpoints that create and confirm them, the *)
(* ManagementJobStore, the run_*_job functions that threads of the default  *)
(* executor run, and the file on the router that a restore is uploaded to.  *)
(*                                                                         *)
(* An endpoint is one action: it runs on the event loop and awaits nothing. *)
(* A job function is a thread and interleaves with the others at every SSH  *)
(* command and every call on the store.  All restores upload to one fixed   *)
(* path on the router.                                                     *)
(*                                                                         *)
(* The kinds of job stand for the functions with the same control:          *)
(*   "action"   run_action_job and those that report success whenever the   *)
(*              operation returned (vpn, dhcp, dns, network, system,        *)
(*              packages);                                                 *)
(*   "checked"  those that report what the result says (firewall, wireless, *)
(*              storage);                                                  *)
(*   "backup"   run_backup_job and run_bundle_job;                          *)
(*   "service"  run_services_job;                                           *)
(*   "restore"  stage_restore_job and confirm_restore_job.                  *)
(*                                                                         *)
(* An operator named Mutant... is the next one with a mistake in it.  No    *)
(* specification uses it: it stands there to show that a property notices.  *)
(***************************************************************************)
EXTENDS Integers, FiniteSets, Sequences, SequencesExt

CONSTANTS
    Jobs,       \* job ids
    Backups,    \* uploaded backups that pass validation
    NoBackup,   \* no backup: rejected, or no longer staged
    Threads,    \* threads of the default executor
    NoJob,      \* no job
    MaxCalls    \* how many calls wait for a thread at most

ASSUME JobsAssumption ==
    /\ NoBackup \notin Backups
    /\ NoJob \notin Jobs
    /\ MaxCalls \in Nat \ {0}

VARIABLES
    kind,       \* kind[j], or "none" for an id not in the store
    status,     \* status[j]
    pending,    \* pending[j]: pending_confirmation
    staged,     \* staged[j]: the backup in result["staged_b64"]
    artifact,   \* the jobs with artifact_bytes
    calls,      \* calls submitted to the executor, as their jobs
    wpc,        \* wpc[w]: where thread w stands
    wjob,       \* wjob[w]: the job thread w works on
    wdata,      \* wdata[w]: the backup thread w uploads
    file,       \* the upload on the router: its pieces, << >> when absent
    disturbed   \* history: threads whose upload another thread wrote to

storeVars  == <<kind, status, pending, staged, artifact>>
threadVars == <<wpc, wjob, wdata>>
fileVars   == <<file, disturbed>>
vars == <<kind, status, pending, staged, artifact, calls, wpc, wjob, wdata, file, disturbed>>

Kinds    == {"action", "checked", "backup", "service", "restore"}
Statuses == {"queued", "running", "succeeded", "failed"}

\* A backup is uploaded in two chunks: the first replaces the file, the
\* second is appended.
Pieces   == Backups \X {1, 2}
Whole(b) == << <<b, 1>>, <<b, 2>> >>

\* The steps of execute_restore, in order.
Uploading == {"clear", "first", "second", "size", "test", "dispatch"}

TypeOK ==
    /\ kind \in [Jobs -> Kinds \cup {"none"}]
    /\ status \in [Jobs -> Statuses]
    /\ pending \in [Jobs -> BOOLEAN]
    /\ staged \in [Jobs -> Backups \cup {NoBackup}]
    /\ artifact \subseteq Jobs
    /\ calls \in Seq(Jobs)
    /\ Len(calls) <= MaxCalls
    /\ wpc \in [Threads -> {"free", "begin", "work", "mark", "done", "failed"} \cup Uploading]
    /\ wjob \in [Threads -> Jobs \cup {NoJob}]
    /\ wdata \in [Threads -> Backups \cup {NoBackup}]
    /\ file \in Seq(Pieces)
    /\ disturbed \subseteq Threads

-----------------------------------------------------------------------------
(* The endpoints.                                                          *)

Enter(j, k) ==
    /\ kind[j] = "none"
    /\ kind' = [kind EXCEPT ![j] = k]
    /\ status' = [status EXCEPT ![j] = "queued"]

\* to_thread: the call waits for a thread.
Submit(j) ==
    /\ Len(calls) < MaxCalls
    /\ calls' = Append(calls, j)

\* POST /jobs of any kind but restore, confirmed where the kind needs it.
CreateJob(j, k) ==
    /\ k \in {"action", "checked", "backup"}
    /\ Enter(j, k)
    /\ Submit(j)
    /\ UNCHANGED <<pending, staged, artifact>> /\ UNCHANGED <<threadVars, fileVars>>

\* POST /services/{service}/{action}: a sync endpoint, which has no running
\* event loop to create the task on.  The job exists, nothing will run it.
CreateServiceJob(j) ==
    /\ Enter(j, "service")
    /\ UNCHANGED <<pending, staged, artifact, calls>> /\ UNCHANGED <<threadVars, fileVars>>

\* POST /jobs with a restore upload: stage_restore_job.  An upload that does
\* not validate is answered 422, and its job stays as it was created.
UploadBackup(j, b) ==
    /\ IF b = NoBackup
       THEN Enter(j, "restore") /\ UNCHANGED <<pending, staged>>
       ELSE /\ kind[j] = "none"
            /\ kind' = [kind EXCEPT ![j] = "restore"]
            /\ status' = [status EXCEPT ![j] = "running"]
            /\ pending' = [pending EXCEPT ![j] = TRUE]
            /\ staged' = [staged EXCEPT ![j] = b]
    /\ UNCHANGED <<artifact, calls>> /\ UNCHANGED <<threadVars, fileVars>>

\* POST /jobs/{id}/confirm.
ConfirmJob(j) ==
    /\ kind[j] = "restore"
    /\ Submit(j)
    /\ UNCHANGED <<storeVars, threadVars, fileVars>>

\* The process restarts: the store is in memory, the file is on the router.
Restart ==
    /\ kind' = [j \in Jobs |-> "none"]
    /\ status' = [j \in Jobs |-> "queued"]
    /\ pending' = [j \in Jobs |-> FALSE]
    /\ staged' = [j \in Jobs |-> NoBackup]
    /\ artifact' = {}
    /\ calls' = << >>
    /\ wpc' = [w \in Threads |-> "free"]
    /\ wjob' = [w \in Threads |-> NoJob]
    /\ wdata' = [w \in Threads |-> NoBackup]
    /\ disturbed' = {}
    /\ UNCHANGED file

-----------------------------------------------------------------------------
(* Threads: the job functions.                                             *)

GoTo(w, place) == wpc' = [wpc EXCEPT ![w] = place]

SetStatus(j, s) == status' = [status EXCEPT ![j] = s]

Leave(w) ==
    /\ GoTo(w, "free")
    /\ wjob' = [wjob EXCEPT ![w] = NoJob]
    /\ wdata' = [wdata EXCEPT ![w] = NoBackup]
    /\ disturbed' = disturbed \ {w}

\* A free thread takes the oldest call.
Pick(w) ==
    /\ wpc[w] = "free" /\ calls # << >>
    /\ GoTo(w, "begin")
    /\ wjob' = [wjob EXCEPT ![w] = Head(calls)]
    /\ calls' = Tail(calls)
    /\ UNCHANGED wdata /\ UNCHANGED <<storeVars, fileVars>>

\* run_*_job: the first transition.
Begin(w) ==
    /\ wpc[w] = "begin" /\ kind[wjob[w]] # "restore"
    /\ SetStatus(wjob[w], "running")
    /\ GoTo(w, "work")
    /\ UNCHANGED <<kind, pending, staged, artifact, calls, wjob, wdata>> /\ UNCHANGED fileVars

\* The operation raises, or returns; a "checked" job's result may say that it
\* failed.  A backup is attached before the job is called a success.
MutantAttach(w) == UNCHANGED artifact
Attach(w) ==
    artifact' = IF kind[wjob[w]] = "backup" THEN artifact \cup {wjob[w]} ELSE artifact

Work(w) ==
    /\ wpc[w] = "work"
    /\ \/ GoTo(w, "failed") /\ UNCHANGED artifact
       \/ GoTo(w, "done") /\ Attach(w)
    /\ UNCHANGED <<kind, status, pending, staged, calls, wjob, wdata>> /\ UNCHANGED fileVars

\* The last transition.  A restore that succeeded replaces the result, and
\* with it the staged upload; one that failed leaves it.
MutantFails(w) == Leave(w) /\ UNCHANGED <<status, staged>>
Fails(w) ==
    /\ SetStatus(wjob[w], "failed")
    /\ UNCHANGED staged
    /\ Leave(w)

Finish(w) ==
    /\ \/ /\ wpc[w] = "done"
          /\ SetStatus(wjob[w], "succeeded")
          /\ staged' = [staged EXCEPT ![wjob[w]] = NoBackup]
          /\ Leave(w)
       \/ wpc[w] = "failed" /\ Fails(w)
    /\ UNCHANGED <<kind, pending, artifact, calls, file>>

-----------------------------------------------------------------------------
(* Threads: confirm_restore_job and execute_restore.                       *)

\* A job that is not pending is refused: the call raises, nothing changes.
MutantMayRestore(j) == TRUE
MayRestore(j) == pending[j]

BeginRestore(w) ==
    /\ wpc[w] = "begin" /\ kind[wjob[w]] = "restore"
    /\ IF MayRestore(wjob[w])
       THEN /\ wdata' = [wdata EXCEPT ![w] = staged[wjob[w]]]
            /\ GoTo(w, "mark")
            /\ UNCHANGED <<wjob, disturbed>>
       ELSE Leave(w)
    /\ UNCHANGED <<calls, file>> /\ UNCHANGED storeVars

MarkRunning(w) ==
    /\ wpc[w] = "mark"
    /\ SetStatus(wjob[w], "running")
    /\ GoTo(w, "clear")
    /\ UNCHANGED <<kind, pending, staged, artifact, calls, wjob, wdata>> /\ UNCHANGED fileVars

\* An SSH command that leaves one of the given files.  It may also fail, with
\* or without its effect.  Threads in the middle of an upload are disturbed.
Command(w, files, next) ==
    /\ \E f \in files :
          \/ GoTo(w, next) /\ file' = f
          \/ GoTo(w, "failed") /\ file' \in {file, f}
    /\ disturbed' = IF file' = file THEN disturbed
                    ELSE disturbed \cup {v \in Threads \ {w} : wpc[v] \in Uploading}
    /\ UNCHANGED <<wjob, wdata, calls>> /\ UNCHANGED storeVars

\* rm -f, on a fresh SSH session.  Without data there are no chunks.
MutantAfterClear(w) == "first"
AfterClear(w) == IF wdata[w] = NoBackup THEN "size" ELSE "first"
Clear(w) == wpc[w] = "clear" /\ Command(w, {<< >>}, AfterClear(w))

UploadFirst(w) ==
    /\ wpc[w] = "first"
    /\ Command(w, {<< <<wdata[w], 1>> >>}, "second")

\* The SSH client runs a command again when its answer is late or lost, so
\* the chunk may be appended twice.
UploadSecond(w) ==
    /\ wpc[w] = "second"
    /\ LET once == Append(file, <<wdata[w], 2>>)
       IN  Command(w, {once, Append(once, <<wdata[w], 2>>)}, "size")

\* A check on the router: the restore goes on only when it passes.
Check(w, passes, next) ==
    /\ \/ passes /\ GoTo(w, next)
       \/ GoTo(w, "failed")
    /\ UNCHANGED <<wjob, wdata, calls, file, disturbed>> /\ UNCHANGED storeVars

\* wc -c: the size is that of the staged backup; there must be a file.
MutantSizeMatches(w) == file # << >>
SizeMatches(w) == wdata[w] # NoBackup /\ Len(file) = Len(Whole(wdata[w]))
CheckSize(w) == wpc[w] = "size" /\ Check(w, SizeMatches(w), "test")

\* gzip -t accepts a whole archive, whatever follows it.
CheckArchive(w) ==
    /\ wpc[w] = "test"
    /\ Check(w, \E b \in Backups : IsPrefix(Whole(b), file), "dispatch")

\* The router is told to restore the file a second later.  The job succeeds
\* whatever the exit code.
Dispatch(w) == wpc[w] = "dispatch" /\ Check(w, TRUE, "done")

-----------------------------------------------------------------------------

Init ==
    /\ kind = [j \in Jobs |-> "none"]
    /\ status = [j \in Jobs |-> "queued"]
    /\ pending = [j \in Jobs |-> FALSE]
    /\ staged = [j \in Jobs |-> NoBackup]
    /\ artifact = {}
    /\ calls = << >>
    /\ wpc = [w \in Threads |-> "free"]
    /\ wjob = [w \in Threads |-> NoJob]
    /\ wdata = [w \in Threads |-> NoBackup]
    /\ file = << >>
    /\ disturbed = {}

Endpoint ==
    \E j \in Jobs :
       \/ \E k \in Kinds : CreateJob(j, k)
       \/ CreateServiceJob(j)
       \/ \E b \in Backups \cup {NoBackup} : UploadBackup(j, b)
       \/ ConfirmJob(j)

ThreadStep(w) ==
    \/ Begin(w) \/ Work(w) \/ Finish(w)
    \/ BeginRestore(w) \/ MarkRunning(w)
    \/ Clear(w) \/ UploadFirst(w) \/ UploadSecond(w)
    \/ CheckSize(w) \/ CheckArchive(w) \/ Dispatch(w)

Next ==
    \/ Endpoint
    \/ Restart
    \/ \E w \in Threads : Pick(w) \/ ThreadStep(w)

(***************************************************************************)
(* Fairness: the executor runs queued calls, and a thread goes on: every    *)
(* SSH command has a timeout and a bounded number of retries.               *)
(***************************************************************************)
Fairness ==
    /\ WF_vars(\E w \in Threads : Pick(w))
    /\ \A w \in Threads : WF_vars(ThreadStep(w))

Spec == Init /\ [][Next]_vars
FairSpec == Spec /\ Fairness
=============================================================================
