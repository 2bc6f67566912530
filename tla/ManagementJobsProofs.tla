------------------------ MODULE ManagementJobsProofs ------------------------
(***************************************************************************)
(* Proofs of the management jobs' safety properties, for every set of jobs, *)
(* backups and threads and every length of the executor's queue.            *)
(***************************************************************************)
EXTENDS ManagementJobsProperties, SequenceTheorems, TLAPS

\* A thread that works has a job, and one that writes chunks or hands the
\* file over has a backup.
Equipped ==
    \A w \in Threads :
        /\ wpc[w] # "free" => wjob[w] \in Jobs
        /\ wpc[w] \in Uploading \ {"clear", "size"} => wdata[w] # NoBackup

TypeInv == TypeOK /\ Equipped

Places == {"free", "begin", "work", "mark", "done", "failed"} \cup Uploading

\* The steps a thread takes by itself, by name.
JobStep(w) ==
    \/ Begin(w) \/ Work(w) \/ Finish(w) \/ BeginRestore(w) \/ MarkRunning(w)

UploadStep(w) == Clear(w) \/ UploadFirst(w) \/ UploadSecond(w)

CheckStep(w) == CheckSize(w) \/ CheckArchive(w) \/ Dispatch(w)

LEMMA ThreadSteps ==
    ASSUME NEW w \in Threads, ThreadStep(w)
    PROVE  JobStep(w) \/ UploadStep(w) \/ CheckStep(w)
BY DEF ThreadStep, JobStep, UploadStep, CheckStep

-----------------------------------------------------------------------------
(* Sequences.                                                              *)

LEMMA AppendInSeq ==
    ASSUME NEW S, NEW s \in Seq(S), NEW x \in S
    PROVE  Append(s, x) \in Seq(S) /\ Len(Append(s, x)) = Len(s) + 1
OBVIOUS

LEMMA TakeHead ==
    ASSUME NEW S, NEW s \in Seq(S), s # << >>
    PROVE  Head(s) \in S /\ Tail(s) \in Seq(S) /\ Len(Tail(s)) = Len(s) - 1
BY HeadTailProperties

LEMMA NothingQueued ==
    ASSUME NEW S
    PROVE  << >> \in Seq(S) /\ Len(<< >>) = 0
BY EmptySeq

-----------------------------------------------------------------------------
(* Type correctness.                                                       *)

LEMMA TypeInit == Init => TypeInv
<1> SUFFICES ASSUME Init PROVE TypeInv
    OBVIOUS
<1>1. calls \in Seq(Jobs) /\ Len(calls) <= MaxCalls
    BY NothingQueued, JobsAssumption DEF Init
<1>2. file \in Seq(Pieces)
    BY NothingQueued DEF Init
<1>3. TypeOK
    BY <1>1, <1>2 DEF Init, TypeOK, Statuses
<1>4. Equipped
    BY DEF Init, Equipped, Uploading
<1> QED
    BY <1>3, <1>4 DEF TypeInv

\* Submitting a call keeps the queue well formed.
LEMMA SubmitType ==
    ASSUME TypeOK, NEW j \in Jobs, Submit(j)
    PROVE  calls' \in Seq(Jobs) /\ Len(calls') <= MaxCalls
<1>1. calls \in Seq(Jobs) /\ Len(calls) \in Nat
    BY LenProperties DEF TypeOK
<1>2. Append(calls, j) \in Seq(Jobs) /\ Len(Append(calls, j)) = Len(calls) + 1
    BY <1>1, AppendInSeq
<1> QED
    BY <1>1, <1>2, JobsAssumption DEF Submit

LEMMA EndpointType ==
    ASSUME TypeInv, Endpoint
    PROVE  TypeInv'
<1>0. TypeOK /\ Equipped
    BY DEF TypeInv
<1>1. PICK j \in Jobs :
          \/ \E k \in Kinds : CreateJob(j, k)
          \/ CreateServiceJob(j)
          \/ \E b \in Backups \cup {NoBackup} : UploadBackup(j, b)
          \/ ConfirmJob(j)
    BY DEF Endpoint
<1>2. ASSUME NEW k \in Kinds, CreateJob(j, k) PROVE TypeOK'
    <2>1. calls' \in Seq(Jobs) /\ Len(calls') <= MaxCalls
        BY <1>0, <1>2, SubmitType DEF CreateJob
    <2> QED
        BY <1>0, <1>2, <2>1 DEF CreateJob, Enter, TypeOK, Statuses, threadVars, fileVars
<1>3. CASE CreateServiceJob(j)
    BY <1>0, <1>3
    DEF CreateServiceJob, Enter, TypeOK, TypeInv, Equipped, Kinds, Statuses, threadVars, fileVars
<1>4. ASSUME NEW b \in Backups \cup {NoBackup}, UploadBackup(j, b) PROVE TypeOK'
    BY <1>0, <1>4 DEF UploadBackup, Enter, TypeOK, Kinds, Statuses, threadVars, fileVars
<1>5. ASSUME ConfirmJob(j) PROVE TypeOK'
    <2>1. calls' \in Seq(Jobs) /\ Len(calls') <= MaxCalls
        BY <1>0, <1>5, SubmitType DEF ConfirmJob
    <2> QED
        BY <1>0, <1>5, <2>1 DEF ConfirmJob, TypeOK, storeVars, threadVars, fileVars
<1>6. UNCHANGED <<wpc, wjob, wdata>>
    BY <1>1 DEF CreateJob, CreateServiceJob, UploadBackup, ConfirmJob, threadVars
<1>7. TypeOK'
    BY <1>1, <1>2, <1>3, <1>4, <1>5 DEF TypeInv
<1>8. Equipped'
    BY <1>0, <1>6 DEF Equipped
<1> QED
    BY <1>7, <1>8 DEF TypeInv

LEMMA RestartType ==
    ASSUME TypeInv, Restart
    PROVE  TypeInv'
<1>1. calls' \in Seq(Jobs) /\ Len(calls') <= MaxCalls
    BY NothingQueued, JobsAssumption DEF Restart
<1>2. TypeOK'
    BY <1>1 DEF TypeInv, Restart, TypeOK, Statuses
<1>3. Equipped'
    BY DEF Restart, Equipped, Uploading
<1> QED
    BY <1>2, <1>3 DEF TypeInv

LEMMA PickType ==
    ASSUME TypeInv, NEW w \in Threads, Pick(w)
    PROVE  TypeInv'
<1>1. calls # << >> /\ calls \in Seq(Jobs) /\ Len(calls) <= MaxCalls
    BY DEF TypeInv, TypeOK, Pick
<1>2. Head(calls) \in Jobs /\ Tail(calls) \in Seq(Jobs) /\ Len(Tail(calls)) = Len(calls) - 1
    BY <1>1, TakeHead
<1>3. calls' \in Seq(Jobs) /\ Len(calls') <= MaxCalls
    <2>1. Len(calls) \in Nat /\ calls' = Tail(calls)
        BY <1>1, LenProperties DEF Pick
    <2> QED
        BY <1>1, <1>2, <2>1, JobsAssumption
<1>4. TypeOK'
    BY <1>2, <1>3 DEF TypeInv, TypeOK, Pick, GoTo, storeVars, fileVars
<1>5. Equipped'
    BY <1>2 DEF TypeInv, TypeOK, Equipped, Pick, GoTo, Uploading
<1> QED
    BY <1>4, <1>5 DEF TypeInv

LEMMA JobStepType ==
    ASSUME TypeInv, NEW w \in Threads, JobStep(w)
    PROVE  TypeInv'
<1>0. TypeOK /\ Equipped
    BY DEF TypeInv
<1>1. CASE Begin(w)
    BY <1>0, <1>1
    DEF TypeInv, TypeOK, Equipped, Begin, SetStatus, GoTo, Statuses, Uploading, fileVars
<1>2. CASE Work(w)
    <2>1. artifact' \subseteq Jobs
        BY <1>0, <1>2 DEF TypeOK, Equipped, Work, Attach
    <2> QED
        BY <1>0, <1>2, <2>1 DEF TypeInv, TypeOK, Equipped, Work, GoTo, Uploading, fileVars
<1>3. CASE Finish(w)
    <2>1. \E s \in {"succeeded", "failed"} : status' = [status EXCEPT ![wjob[w]] = s]
        BY <1>3 DEF Finish, Fails, SetStatus
    <2>2. staged' \in [Jobs -> Backups \cup {NoBackup}]
        BY <1>0, <1>3 DEF TypeOK, Finish, Fails
    <2>3. Leave(w) /\ UNCHANGED <<kind, pending, artifact, calls, file>>
        BY <1>3 DEF Finish, Fails
    <2>4. status' \in [Jobs -> Statuses]
        BY <1>0, <2>1 DEF TypeOK, Statuses
    <2>5. TypeOK'
        BY <1>0, <2>2, <2>3, <2>4 DEF TypeOK, Leave, GoTo
    <2>6. Equipped'
        BY <1>0, <2>3 DEF TypeOK, Equipped, Leave, GoTo, Uploading
    <2> QED
        BY <2>5, <2>6 DEF TypeInv
<1>4. CASE BeginRestore(w)
    <2>1. /\ wpc[w] = "begin" /\ wjob[w] \in Jobs
          /\ UNCHANGED <<calls, file, kind, status, pending, staged, artifact>>
        BY <1>0, <1>4 DEF Equipped, BeginRestore, storeVars
    <2>2. CASE MayRestore(wjob[w])
        <3>1. /\ wdata' = [wdata EXCEPT ![w] = staged[wjob[w]]]
              /\ wpc' = [wpc EXCEPT ![w] = "mark"]
              /\ UNCHANGED <<wjob, disturbed>>
            BY <1>4, <2>2 DEF BeginRestore, GoTo
        <3>2. TypeOK'
            BY <1>0, <2>1, <3>1 DEF TypeOK, Uploading
        <3>3. Equipped'
            BY <1>0, <2>1, <3>1 DEF TypeOK, Equipped, Uploading
        <3> QED
            BY <3>2, <3>3 DEF TypeInv
    <2>3. CASE ~MayRestore(wjob[w])
        <3>1. Leave(w)
            BY <1>4, <2>3 DEF BeginRestore
        <3>2. TypeOK'
            BY <1>0, <2>1, <3>1 DEF TypeOK, Leave, GoTo
        <3>3. Equipped'
            BY <1>0, <3>1 DEF TypeOK, Equipped, Leave, GoTo, Uploading
        <3> QED
            BY <3>2, <3>3 DEF TypeInv
    <2> QED
        BY <2>2, <2>3
<1>5. CASE MarkRunning(w)
    BY <1>0, <1>5
    DEF TypeInv, TypeOK, Equipped, MarkRunning, SetStatus, GoTo, Statuses, Uploading, fileVars
<1> QED
    BY <1>1, <1>2, <1>3, <1>4, <1>5 DEF JobStep

\* A command leaves the types alone when the files it may leave are files,
\* and the thread is equipped for the next place.
LEMMA CommandType ==
    ASSUME TypeInv, NEW w \in Threads, NEW files \in SUBSET Seq(Pieces),
           NEW next \in Uploading, wpc[w] # "free",
           next \in Uploading \ {"clear", "size"} => wdata[w] # NoBackup,
           Command(w, files, next)
    PROVE  TypeInv'
<1>1. file' \in Seq(Pieces)
    BY DEF TypeInv, TypeOK, Command
<1>2. \E p \in {next, "failed"} : wpc' = [wpc EXCEPT ![w] = p]
    BY DEF Command, GoTo
<1>3. UNCHANGED <<wjob, wdata, calls, kind, status, pending, staged, artifact>>
    BY DEF Command, storeVars
<1>4. disturbed' \subseteq Threads
    BY DEF TypeInv, TypeOK, Command
<1>5. TypeOK'
    BY <1>1, <1>2, <1>3, <1>4 DEF TypeInv, TypeOK
<1>6. Equipped'
    BY <1>2, <1>3 DEF TypeInv, TypeOK, Equipped, Uploading
<1> QED
    BY <1>5, <1>6 DEF TypeInv

LEMMA UploadStepType ==
    ASSUME TypeInv, NEW w \in Threads, UploadStep(w)
    PROVE  TypeInv'
<1>0. TypeOK /\ Equipped
    BY DEF TypeInv
<1>1. CASE Clear(w)
    <2>1. {<< >>} \in SUBSET Seq(Pieces)
        BY NothingQueued
    <2>2. AfterClear(w) \in Uploading
          /\ (AfterClear(w) # "size" => wdata[w] # NoBackup)
        BY DEF AfterClear, Uploading
    <2> QED
        BY <1>0, <1>1, <2>1, <2>2, CommandType DEF Clear, TypeInv
<1>2. CASE UploadFirst(w)
    <2>1. wdata[w] \in Backups
        BY <1>0, <1>2 DEF UploadFirst, TypeOK, Equipped, Uploading
    <2>2. << <<wdata[w], 1>> >> \in Seq(Pieces)
        BY <2>1 DEF Pieces
    <2>3. "second" \in Uploading
        BY DEF Uploading
    <2> QED
        BY <1>0, <1>2, <2>1, <2>2, <2>3, CommandType, JobsAssumption DEF UploadFirst, TypeInv
<1>3. CASE UploadSecond(w)
    <2> DEFINE piece == <<wdata[w], 2>>
               once  == Append(file, piece)
               twice == Append(once, piece)
    <2>1. wdata[w] \in Backups
        BY <1>0, <1>3 DEF UploadSecond, TypeOK, Equipped, Uploading
    <2>2. piece \in Pieces
        BY <2>1 DEF Pieces
    <2>3. once \in Seq(Pieces)
        BY <1>0, <2>2, AppendInSeq DEF TypeOK
    <2>4. twice \in Seq(Pieces)
        BY <2>2, <2>3, AppendInSeq
    <2>5. Command(w, {once, twice}, "size") /\ wpc[w] = "second"
        BY <1>3 DEF UploadSecond
    <2>6. "size" \in Uploading
        BY DEF Uploading
    <2> HIDE DEF once, twice
    <2>7. {once, twice} \in SUBSET Seq(Pieces)
        BY <2>3, <2>4
    <2> QED
        BY <2>5, <2>6, <2>7, CommandType
<1> QED
    BY <1>1, <1>2, <1>3 DEF UploadStep

LEMMA CheckStepType ==
    ASSUME TypeInv, NEW w \in Threads, CheckStep(w)
    PROVE  TypeInv'
<1>0. TypeOK /\ Equipped
    BY DEF TypeInv
<1>1. CASE CheckSize(w)
    BY <1>0, <1>1
    DEF TypeInv, TypeOK, Equipped, CheckSize, SizeMatches, Check, GoTo, Uploading, storeVars
<1>2. CASE CheckArchive(w)
    BY <1>0, <1>2
    DEF TypeInv, TypeOK, Equipped, CheckArchive, Check, GoTo, Uploading, storeVars
<1>3. CASE Dispatch(w)
    BY <1>0, <1>3
    DEF TypeInv, TypeOK, Equipped, Dispatch, Check, GoTo, Uploading, storeVars
<1> QED
    BY <1>1, <1>2, <1>3 DEF CheckStep

LEMMA TypeStep == TypeInv /\ [Next]_vars => TypeInv'
<1> SUFFICES ASSUME TypeInv, [Next]_vars PROVE TypeInv'
    OBVIOUS
<1>1. CASE Endpoint
    BY <1>1, EndpointType
<1>2. CASE Restart
    BY <1>2, RestartType
<1>3. ASSUME NEW w \in Threads, Pick(w) PROVE TypeInv'
    BY <1>3, PickType
<1>4. ASSUME NEW w \in Threads, ThreadStep(w) PROVE TypeInv'
    BY <1>4, ThreadSteps, JobStepType, UploadStepType, CheckStepType
<1>5. CASE UNCHANGED vars
    BY <1>5 DEF vars, TypeInv, TypeOK, Equipped
<1> QED
    BY <1>1, <1>2, <1>3, <1>4, <1>5 DEF Next

\* The state of the store, of the executor and of the upload stays well
\* formed, through restarts as well.
THEOREM TypeCorrect == Spec => []TypeOK
<1>1. Spec => []TypeInv
    BY TypeInit, TypeStep, PTL DEF Spec
<1>2. TypeInv => TypeOK
    BY DEF TypeInv
<1> QED
    BY <1>1, <1>2, PTL

-----------------------------------------------------------------------------
(* Jobs, their threads and the store.                                      *)

\* A queued call, and a busy thread, has a job of the store; a free thread
\* has none.
KnownJobs ==
    /\ \A i \in 1..Len(calls) : kind[calls[i]] # "none"
    /\ \A w \in Threads : IF wpc[w] = "free" THEN wjob[w] = NoJob ELSE kind[wjob[w]] # "none"

\* Where a thread may stand with a job: only a restore awaiting confirmation
\* comes to an upload, and a backup that is done has its artifact.
PlaceMatchesKind ==
    \A w \in Threads :
        /\ wpc[w] \in Uploading \cup {"mark"} => kind[wjob[w]] = "restore" /\ pending[wjob[w]]
        /\ wpc[w] = "work" => kind[wjob[w]] # "restore"
        /\ wpc[w] \in {"done", "failed"} /\ kind[wjob[w]] = "restore" => pending[wjob[w]]
        /\ wpc[w] = "done" /\ kind[wjob[w]] = "backup" => wjob[w] \in artifact

\* A restore that was rejected is never started.
RejectedIsQueued ==
    \A j \in Jobs : kind[j] = "restore" /\ ~pending[j] => status[j] = "queued"

StoreInv ==
    /\ TypeInv
    /\ KnownJobs
    /\ PlaceMatchesKind
    /\ RejectedIsQueued
    /\ BackupIsDownloadable
    /\ NobodyIsAbandoned

LEMMA StoreInit == Init => StoreInv
<1> SUFFICES ASSUME Init PROVE StoreInv
    OBVIOUS
<1>1. TypeInv
    BY TypeInit
<1>2. KnownJobs
    BY NothingQueued DEF Init, KnownJobs
<1>3. PlaceMatchesKind /\ RejectedIsQueued
    BY DEF Init, PlaceMatchesKind, RejectedIsQueued, Uploading
<1>4. BackupIsDownloadable /\ NobodyIsAbandoned
    BY DEF Init, BackupIsDownloadable, NobodyIsAbandoned
<1> QED
    BY <1>1, <1>2, <1>3, <1>4 DEF StoreInv

\* Submitting a job of the store keeps the queue to jobs of the store.
LEMMA SubmitKnown ==
    ASSUME TypeOK, KnownJobs, NEW j \in Jobs, Submit(j),
           NEW k \in [Jobs -> Kinds \cup {"none"}], k[j] # "none",
           \A i \in Jobs : kind[i] # "none" => k[i] # "none"
    PROVE  \A i \in 1..Len(calls') : k[calls'[i]] # "none"
<1>1. calls \in Seq(Jobs) /\ Len(calls) \in Nat /\ calls' = Append(calls, j)
    BY LenProperties DEF TypeOK, Submit
<1>2. \A i \in 1..Len(calls) : calls[i] \in Jobs /\ k[calls[i]] # "none"
    BY <1>1, ElementOfSeq DEF KnownJobs
<1>3. Len(calls') = Len(calls) + 1 /\ calls'[Len(calls) + 1] = j
      /\ \A i \in 1..Len(calls) : calls'[i] = calls[i]
    BY <1>1, AppendProperties
<1> QED
    BY <1>1, <1>2, <1>3

LEMMA CreateStore ==
    ASSUME StoreInv, NEW j \in Jobs, NEW k \in Kinds, CreateJob(j, k), TypeInv'
    PROVE  StoreInv'
<1>0. TypeOK /\ TypeOK' /\ KnownJobs /\ PlaceMatchesKind /\ Equipped
    BY DEF StoreInv, TypeInv
<1>1. k # "none" /\ k # "restore" /\ kind[j] = "none" /\ kind' = [kind EXCEPT ![j] = k]
      /\ status' = [status EXCEPT ![j] = "queued"]
      /\ UNCHANGED <<pending, staged, artifact, wpc, wjob, wdata>>
    BY DEF CreateJob, Enter, threadVars
<1>2. \A w \in Threads : wpc[w] # "free" => wjob[w] \in Jobs /\ wjob[w] # j
    BY <1>0, <1>1 DEF Equipped, KnownJobs
<1>3. KnownJobs'
    <2>1. \A i \in 1..Len(calls') : kind'[calls'[i]] # "none"
        <3>1. kind' \in [Jobs -> Kinds \cup {"none"}]
            BY <1>0 DEF TypeOK
        <3>2. kind'[j] # "none" /\ \A i \in Jobs : kind[i] # "none" => kind'[i] # "none"
            BY <1>0, <1>1 DEF TypeOK
        <3>3. Submit(j)
            BY DEF CreateJob
        <3> QED
            BY <1>0, <3>1, <3>2, <3>3, SubmitKnown
    <2> QED
        BY <1>0, <1>1, <1>2, <2>1 DEF KnownJobs, TypeOK
<1>4. PlaceMatchesKind'
    BY <1>0, <1>1, <1>2 DEF PlaceMatchesKind, TypeOK, Uploading
<1>5. RejectedIsQueued'
    BY <1>0, <1>1 DEF StoreInv, RejectedIsQueued, TypeOK
<1>6. BackupIsDownloadable'
    BY <1>0, <1>1 DEF StoreInv, BackupIsDownloadable, TypeOK
<1>7. NobodyIsAbandoned'
    BY <1>0, <1>1 DEF StoreInv, NobodyIsAbandoned, WorkedOn, TypeOK
<1> QED
    BY <1>3, <1>4, <1>5, <1>6, <1>7 DEF StoreInv

LEMMA ServiceStore ==
    ASSUME StoreInv, NEW j \in Jobs, CreateServiceJob(j), TypeInv'
    PROVE  StoreInv'
<1>0. TypeOK /\ TypeOK' /\ KnownJobs /\ PlaceMatchesKind /\ Equipped
    BY DEF StoreInv, TypeInv
<1>1. kind[j] = "none" /\ kind' = [kind EXCEPT ![j] = "service"]
      /\ status' = [status EXCEPT ![j] = "queued"]
      /\ UNCHANGED <<pending, staged, artifact, calls, wpc, wjob, wdata>>
    BY DEF CreateServiceJob, Enter, threadVars
<1>2. \A w \in Threads : wpc[w] # "free" => wjob[w] \in Jobs /\ wjob[w] # j
    BY <1>0, <1>1 DEF Equipped, KnownJobs
<1>3. \A i \in 1..Len(calls) : calls[i] \in Jobs
    BY <1>0, ElementOfSeq DEF TypeOK
<1>4. KnownJobs'
    BY <1>0, <1>1, <1>2, <1>3 DEF KnownJobs, TypeOK
<1>5. PlaceMatchesKind'
    BY <1>0, <1>1, <1>2 DEF PlaceMatchesKind, TypeOK, Uploading
<1>6. RejectedIsQueued' /\ BackupIsDownloadable'
    BY <1>0, <1>1 DEF StoreInv, RejectedIsQueued, BackupIsDownloadable, TypeOK
<1>7. NobodyIsAbandoned'
    BY <1>0, <1>1 DEF StoreInv, NobodyIsAbandoned, WorkedOn, TypeOK
<1> QED
    BY <1>4, <1>5, <1>6, <1>7 DEF StoreInv

LEMMA UploadStore ==
    ASSUME StoreInv, NEW j \in Jobs, NEW b \in Backups \cup {NoBackup}, UploadBackup(j, b),
           TypeInv'
    PROVE  StoreInv'
<1>0. TypeOK /\ TypeOK' /\ KnownJobs /\ PlaceMatchesKind /\ Equipped
    BY DEF StoreInv, TypeInv
<1>1. kind[j] = "none" /\ kind' = [kind EXCEPT ![j] = "restore"]
      /\ UNCHANGED <<artifact, calls, wpc, wjob, wdata>>
    BY DEF UploadBackup, Enter, threadVars
<1>2. \/ status' = [status EXCEPT ![j] = "queued"] /\ UNCHANGED <<pending, staged>>
      \/ /\ status' = [status EXCEPT ![j] = "running"]
         /\ pending' = [pending EXCEPT ![j] = TRUE]
         /\ staged' = [staged EXCEPT ![j] = b] /\ b # NoBackup
    BY DEF UploadBackup, Enter
<1>3. \A w \in Threads : wpc[w] # "free" => wjob[w] \in Jobs /\ wjob[w] # j
    BY <1>0, <1>1 DEF Equipped, KnownJobs
<1>4. \A i \in 1..Len(calls) : calls[i] \in Jobs
    BY <1>0, ElementOfSeq DEF TypeOK
<1>5. KnownJobs'
    BY <1>0, <1>1, <1>3, <1>4 DEF KnownJobs, TypeOK
<1>6. PlaceMatchesKind'
    BY <1>0, <1>1, <1>2, <1>3 DEF PlaceMatchesKind, TypeOK, Uploading
<1>7. RejectedIsQueued' /\ BackupIsDownloadable'
    BY <1>0, <1>1, <1>2 DEF StoreInv, RejectedIsQueued, BackupIsDownloadable, TypeOK
<1>8. NobodyIsAbandoned'
    <2> SUFFICES ASSUME NEW i \in Jobs, status'[i] = "running"
                 PROVE  WorkedOn(i) \/ (pending'[i] /\ staged'[i] # NoBackup)
        BY <1>1 DEF NobodyIsAbandoned, WorkedOn
    <2>1. CASE i = j
        BY <1>0, <1>2, <2>1 DEF TypeOK
    <2>2. CASE i # j
        <3>1. status[i] = "running" /\ pending'[i] = pending[i] /\ staged'[i] = staged[i]
            BY <1>0, <1>2, <2>2 DEF TypeOK
        <3> QED
            BY <3>1 DEF StoreInv, NobodyIsAbandoned
    <2> QED
        BY <2>1, <2>2
<1> QED
    BY <1>5, <1>6, <1>7, <1>8 DEF StoreInv

LEMMA ConfirmStore ==
    ASSUME StoreInv, NEW j \in Jobs, ConfirmJob(j), TypeInv'
    PROVE  StoreInv'
<1>0. TypeOK /\ KnownJobs
    BY DEF StoreInv, TypeInv
<1>1. kind[j] = "restore" /\ UNCHANGED <<kind, status, pending, staged, artifact, wpc, wjob>>
    BY DEF ConfirmJob, storeVars, threadVars
<1>2. \A i \in 1..Len(calls') : kind[calls'[i]] # "none"
    BY <1>0, <1>1, SubmitKnown DEF ConfirmJob, TypeOK
<1>3. KnownJobs'
    BY <1>0, <1>1, <1>2 DEF KnownJobs
<1> QED
    BY <1>1, <1>3
    DEF StoreInv, PlaceMatchesKind, RejectedIsQueued, BackupIsDownloadable, NobodyIsAbandoned,
        WorkedOn

LEMMA RestartStore ==
    ASSUME StoreInv, Restart, TypeInv'
    PROVE  StoreInv'
<1>1. KnownJobs'
    BY NothingQueued DEF Restart, KnownJobs
<1>2. PlaceMatchesKind'
    BY DEF Restart, PlaceMatchesKind, Uploading
<1>3. RejectedIsQueued' /\ BackupIsDownloadable' /\ NobodyIsAbandoned'
    BY DEF Restart, RejectedIsQueued, BackupIsDownloadable, NobodyIsAbandoned
<1> QED
    BY <1>1, <1>2, <1>3 DEF StoreInv

LEMMA PickStore ==
    ASSUME StoreInv, NEW w \in Threads, Pick(w), TypeInv'
    PROVE  StoreInv'
<1>0. TypeOK /\ KnownJobs
    BY DEF StoreInv, TypeInv
<1>1. /\ wpc[w] = "free" /\ wjob[w] = NoJob
      /\ wpc' = [wpc EXCEPT ![w] = "begin"]
      /\ wjob' = [wjob EXCEPT ![w] = Head(calls)]
      /\ UNCHANGED <<kind, status, pending, staged, artifact>>
    BY <1>0 DEF Pick, GoTo, storeVars, KnownJobs
<1>2. calls \in Seq(Jobs) /\ calls # << >> /\ calls' = Tail(calls) /\ Len(calls) \in Nat
    BY <1>0, LenProperties DEF TypeOK, Pick
<1>3. Head(calls) = calls[1] /\ Len(calls') = Len(calls) - 1 /\ Len(calls) # 0
      /\ \A i \in 1..Len(calls') : calls'[i] = calls[i + 1]
    BY <1>2, HeadTailProperties, EmptySeq
<1>4. KnownJobs'
    <2>1. \A i \in 1..Len(calls') : kind'[calls'[i]] # "none"
        BY <1>0, <1>1, <1>2, <1>3 DEF KnownJobs
    <2>2. kind[Head(calls)] # "none"
        BY <1>0, <1>2, <1>3 DEF KnownJobs
    <2> QED
        BY <1>0, <1>1, <2>1, <2>2 DEF KnownJobs, TypeOK
<1>5. PlaceMatchesKind'
    BY <1>0, <1>1 DEF StoreInv, PlaceMatchesKind, TypeOK, Uploading
<1>6. RejectedIsQueued' /\ BackupIsDownloadable'
    BY <1>1 DEF StoreInv, RejectedIsQueued, BackupIsDownloadable
<1>7. NobodyIsAbandoned'
    <2>1. \A j \in Jobs : WorkedOn(j) => WorkedOn(j)'
        BY <1>0, <1>1, JobsAssumption DEF WorkedOn, TypeOK
    <2> QED
        BY <1>1, <2>1 DEF StoreInv, NobodyIsAbandoned
<1> QED
    BY <1>4, <1>5, <1>6, <1>7 DEF StoreInv

\* A step of an upload keeps the job and leaves the store as it is.
LEMMA WalkStore ==
    ASSUME StoreInv, NEW w \in Threads, TypeInv', wpc[w] \in Uploading,
           NEW p \in Uploading \cup {"done", "failed"},
           wpc' = [wpc EXCEPT ![w] = p],
           UNCHANGED <<wjob, calls, kind, status, pending, staged, artifact>>
    PROVE  StoreInv'
<1>0. TypeOK /\ KnownJobs /\ PlaceMatchesKind
    BY DEF StoreInv, TypeInv
<1>1. KnownJobs'
    BY <1>0 DEF KnownJobs, TypeOK, Uploading
<1>2. PlaceMatchesKind'
    BY <1>0 DEF PlaceMatchesKind, TypeOK, Uploading
<1> QED
    BY <1>1, <1>2
    DEF StoreInv, RejectedIsQueued, BackupIsDownloadable, NobodyIsAbandoned, WorkedOn

LEMMA UploadStepStore ==
    ASSUME StoreInv, NEW w \in Threads, UploadStep(w), TypeInv'
    PROVE  StoreInv'
<1>1. wpc[w] \in Uploading
    BY DEF UploadStep, Clear, UploadFirst, UploadSecond, Uploading
<1>2. UNCHANGED <<wjob, calls, kind, status, pending, staged, artifact>>
    BY DEF UploadStep, Clear, UploadFirst, UploadSecond, Command, storeVars
<1>3. \E p \in {"first", "second", "size", "failed"} : wpc' = [wpc EXCEPT ![w] = p]
    BY DEF UploadStep, Clear, AfterClear, UploadFirst, UploadSecond, Command, GoTo
<1> QED
    BY <1>1, <1>2, <1>3, WalkStore DEF Uploading

LEMMA CheckStepStore ==
    ASSUME StoreInv, NEW w \in Threads, CheckStep(w), TypeInv'
    PROVE  StoreInv'
<1>1. wpc[w] \in Uploading
    BY DEF CheckStep, CheckSize, CheckArchive, Dispatch, Uploading
<1>2. UNCHANGED <<wjob, calls, kind, status, pending, staged, artifact>>
    BY DEF CheckStep, CheckSize, CheckArchive, Dispatch, Check, storeVars
<1>3. \E p \in {"test", "dispatch", "done", "failed"} : wpc' = [wpc EXCEPT ![w] = p]
    BY DEF CheckStep, CheckSize, CheckArchive, Dispatch, Check, GoTo
<1> QED
    BY <1>1, <1>2, <1>3, WalkStore DEF Uploading

\* A step that may change the status of the thread's own job: the four store
\* facts follow from what the step does to that job.
LEMMA BeginStore ==
    ASSUME StoreInv, NEW w \in Threads, TypeInv', Begin(w) \/ MarkRunning(w)
    PROVE  StoreInv'
<1>0. TypeOK /\ KnownJobs /\ PlaceMatchesKind /\ Equipped
    BY DEF StoreInv, TypeInv
<1>1. /\ wpc[w] \in {"begin", "mark"} /\ wjob[w] \in Jobs
      /\ status' = [status EXCEPT ![wjob[w]] = "running"]
      /\ UNCHANGED <<kind, pending, staged, artifact, calls, wjob>>
    BY <1>0 DEF Begin, MarkRunning, SetStatus, Equipped
<1>2. \/ wpc' = [wpc EXCEPT ![w] = "work"] /\ kind[wjob[w]] # "restore"
      \/ /\ wpc' = [wpc EXCEPT ![w] = "clear"]
         /\ kind[wjob[w]] = "restore" /\ pending[wjob[w]]
    BY <1>0 DEF Begin, MarkRunning, GoTo, PlaceMatchesKind
<1>3. KnownJobs'
    BY <1>0, <1>1, <1>2 DEF KnownJobs, TypeOK
<1>4. PlaceMatchesKind'
    BY <1>0, <1>1, <1>2 DEF PlaceMatchesKind, TypeOK, Uploading
<1>5. RejectedIsQueued'
    BY <1>0, <1>1, <1>2 DEF StoreInv, RejectedIsQueued, TypeOK
<1>6. BackupIsDownloadable'
    BY <1>0, <1>1 DEF StoreInv, BackupIsDownloadable, TypeOK
<1>7. NobodyIsAbandoned'
    <2> SUFFICES ASSUME NEW j \in Jobs, status'[j] = "running"
                 PROVE  WorkedOn(j)' \/ (pending[j] /\ staged[j] # NoBackup)
        BY <1>1 DEF NobodyIsAbandoned
    <2>1. CASE j = wjob[w]
        BY <1>1, <2>1 DEF WorkedOn
    <2>2. CASE j # wjob[w]
        BY <1>0, <1>1, <2>2 DEF StoreInv, NobodyIsAbandoned, WorkedOn, TypeOK
    <2> QED
        BY <2>1, <2>2
<1> QED
    BY <1>3, <1>4, <1>5, <1>6, <1>7 DEF StoreInv

LEMMA WorkStore ==
    ASSUME StoreInv, NEW w \in Threads, TypeInv', Work(w)
    PROVE  StoreInv'
<1>0. TypeOK /\ KnownJobs /\ PlaceMatchesKind /\ Equipped
    BY DEF StoreInv, TypeInv
<1>1. /\ wpc[w] = "work" /\ wjob[w] \in Jobs
      /\ UNCHANGED <<kind, status, pending, staged, calls, wjob>>
    BY <1>0 DEF Work, Equipped
<1>2. artifact \subseteq artifact'
    BY DEF Work, Attach
<1>3. \/ wpc' = [wpc EXCEPT ![w] = "failed"]
      \/ /\ wpc' = [wpc EXCEPT ![w] = "done"]
         /\ kind[wjob[w]] = "backup" => wjob[w] \in artifact'
    BY DEF Work, GoTo, Attach
<1>4. KnownJobs'
    BY <1>0, <1>1, <1>3 DEF KnownJobs, TypeOK
<1>5. PlaceMatchesKind'
    BY <1>0, <1>1, <1>2, <1>3 DEF PlaceMatchesKind, TypeOK, Uploading
<1>6. RejectedIsQueued' /\ BackupIsDownloadable' /\ NobodyIsAbandoned'
    BY <1>1, <1>2
    DEF StoreInv, RejectedIsQueued, BackupIsDownloadable, NobodyIsAbandoned, WorkedOn
<1> QED
    BY <1>4, <1>5, <1>6 DEF StoreInv

\* A thread that leaves lets nobody down: its job has ended.
LEMMA FinishStore ==
    ASSUME StoreInv, NEW w \in Threads, TypeInv', Finish(w)
    PROVE  StoreInv'
<1>0. TypeOK /\ KnownJobs /\ PlaceMatchesKind /\ Equipped
    BY DEF StoreInv, TypeInv
<1>1. /\ wpc[w] \in {"done", "failed"} /\ wjob[w] \in Jobs
      /\ wpc' = [wpc EXCEPT ![w] = "free"]
      /\ wjob' = [wjob EXCEPT ![w] = NoJob]
      /\ UNCHANGED <<kind, pending, artifact, calls>>
    BY <1>0 DEF Finish, Fails, Leave, GoTo, Equipped
<1>2. \/ /\ wpc[w] = "done"
         /\ status' = [status EXCEPT ![wjob[w]] = "succeeded"]
         /\ staged' = [staged EXCEPT ![wjob[w]] = NoBackup]
      \/ /\ status' = [status EXCEPT ![wjob[w]] = "failed"]
         /\ UNCHANGED staged
    BY DEF Finish, Fails, SetStatus
<1>3. KnownJobs'
    BY <1>0, <1>1 DEF KnownJobs, TypeOK
<1>4. PlaceMatchesKind'
    BY <1>0, <1>1 DEF PlaceMatchesKind, TypeOK, Uploading
<1>5. RejectedIsQueued'
    BY <1>0, <1>1, <1>2 DEF StoreInv, RejectedIsQueued, PlaceMatchesKind, TypeOK
<1>6. BackupIsDownloadable'
    BY <1>0, <1>1, <1>2 DEF StoreInv, BackupIsDownloadable, PlaceMatchesKind, TypeOK
<1>7. NobodyIsAbandoned'
    <2> SUFFICES ASSUME NEW j \in Jobs, status'[j] = "running"
                 PROVE  WorkedOn(j)' \/ (pending[j] /\ staged'[j] # NoBackup)
        BY <1>1 DEF NobodyIsAbandoned
    <2>1. j # wjob[w] /\ status[j] = "running" /\ staged'[j] = staged[j]
        BY <1>0, <1>1, <1>2 DEF TypeOK
    <2>2. WorkedOn(j) => WorkedOn(j)'
        BY <1>0, <1>1, <2>1 DEF WorkedOn, TypeOK
    <2> QED
        BY <2>1, <2>2 DEF StoreInv, NobodyIsAbandoned
<1> QED
    BY <1>3, <1>4, <1>5, <1>6, <1>7 DEF StoreInv

\* A refused confirmation leaves a job that was never started.
LEMMA BeginRestoreStore ==
    ASSUME StoreInv, NEW w \in Threads, TypeInv', BeginRestore(w)
    PROVE  StoreInv'
<1>0. TypeOK /\ KnownJobs /\ PlaceMatchesKind /\ Equipped
    BY DEF StoreInv, TypeInv
<1>1. /\ wpc[w] = "begin" /\ wjob[w] \in Jobs /\ kind[wjob[w]] = "restore"
      /\ UNCHANGED <<kind, status, pending, staged, artifact, calls>>
    BY <1>0 DEF BeginRestore, Equipped, storeVars
<1>2. CASE pending[wjob[w]]
    <2>1. wpc' = [wpc EXCEPT ![w] = "mark"] /\ wjob' = wjob
        BY <1>2 DEF BeginRestore, MayRestore, GoTo
    <2>2. KnownJobs'
        BY <1>0, <1>1, <2>1 DEF KnownJobs, TypeOK
    <2>3. PlaceMatchesKind'
        BY <1>0, <1>1, <1>2, <2>1 DEF PlaceMatchesKind, TypeOK, Uploading
    <2> QED
        BY <1>1, <2>1, <2>2, <2>3
        DEF StoreInv, RejectedIsQueued, BackupIsDownloadable, NobodyIsAbandoned, WorkedOn
<1>3. CASE ~pending[wjob[w]]
    <2>1. wpc' = [wpc EXCEPT ![w] = "free"] /\ wjob' = [wjob EXCEPT ![w] = NoJob]
        BY <1>3 DEF BeginRestore, MayRestore, Leave, GoTo
    <2>2. KnownJobs'
        BY <1>0, <1>1, <2>1 DEF KnownJobs, TypeOK
    <2>3. PlaceMatchesKind'
        BY <1>0, <1>1, <2>1 DEF PlaceMatchesKind, TypeOK, Uploading
    <2>4. status[wjob[w]] = "queued"
        BY <1>1, <1>3 DEF StoreInv, RejectedIsQueued
    <2>5. \A j \in Jobs : j # wjob[w] /\ WorkedOn(j) => WorkedOn(j)'
        BY <1>0, <1>1, <2>1 DEF WorkedOn, TypeOK
    <2>6. NobodyIsAbandoned'
        BY <1>1, <2>4, <2>5 DEF StoreInv, NobodyIsAbandoned
    <2> QED
        BY <1>1, <2>2, <2>3, <2>6 DEF StoreInv, RejectedIsQueued, BackupIsDownloadable
<1> QED
    BY <1>2, <1>3

LEMMA StoreStep == StoreInv /\ [Next]_vars => StoreInv'
<1> SUFFICES ASSUME StoreInv, [Next]_vars PROVE StoreInv'
    OBVIOUS
<1>0. TypeInv'
    BY TypeStep DEF StoreInv
<1>1. CASE Endpoint
    BY <1>0, <1>1, CreateStore, ServiceStore, UploadStore, ConfirmStore DEF Endpoint
<1>2. CASE Restart
    BY <1>0, <1>2, RestartStore
<1>3. ASSUME NEW w \in Threads, Pick(w) PROVE StoreInv'
    BY <1>0, <1>3, PickStore
<1>4. ASSUME NEW w \in Threads, ThreadStep(w) PROVE StoreInv'
    <2>1. JobStep(w) => StoreInv'
        BY <1>0, BeginStore, WorkStore, FinishStore, BeginRestoreStore DEF JobStep
    <2> QED
        BY <1>0, <1>4, <2>1, ThreadSteps, UploadStepStore, CheckStepStore
<1>5. CASE UNCHANGED vars
    BY <1>0, <1>5
    DEF vars, StoreInv, KnownJobs, PlaceMatchesKind, RejectedIsQueued, BackupIsDownloadable,
        NobodyIsAbandoned, WorkedOn
<1> QED
    BY <1>1, <1>2, <1>3, <1>4, <1>5 DEF Next

\* The invariant that ties a job's status, its thread and its staged upload
\* together.
LEMMA StoreHolds == Spec => []StoreInv
BY StoreInit, StoreStep, PTL DEF Spec

\* Whatever confirmations and failures came before, a job that is "running"
\* is worked on, or is a staged restore a confirmation would carry out.
THEOREM NoJobIsAbandoned == Spec => []NobodyIsAbandoned
<1>1. StoreInv => NobodyIsAbandoned
    BY DEF StoreInv
<1> QED
    BY <1>1, StoreHolds, PTL

\* A backup that is called a success has its artifact.
THEOREM BackupsAreDownloadable == Spec => []BackupIsDownloadable
<1>1. StoreInv => BackupIsDownloadable
    BY DEF StoreInv
<1> QED
    BY <1>1, StoreHolds, PTL

\* Only a validated and staged upload is written to the router.
THEOREM StagedIsWhatIsUploaded == Spec => []OnlyStagedIsUploaded
<1>1. StoreInv => OnlyStagedIsUploaded
    BY DEF StoreInv, TypeInv, Equipped, PlaceMatchesKind, RejectedIsQueued, OnlyStagedIsUploaded
<1> QED
    BY <1>1, StoreHolds, PTL

-----------------------------------------------------------------------------
(* The upload on the router.                                               *)

First(b)  == << <<b, 1>> >>
Twice(b)  == Append(Whole(b), <<b, 2>>)

\* What an upload nobody else writes to has left on the router so far.
FileMatchesPlace ==
    \A w \in Threads \ disturbed :
        /\ wpc[w] = "first" => file = << >>
        /\ wpc[w] = "second" => file = First(wdata[w])
        /\ wpc[w] = "size" => \/ wdata[w] = NoBackup
                             \/ file \in {Whole(wdata[w]), Twice(wdata[w])}
        /\ wpc[w] \in {"test", "dispatch"} => file = Whole(wdata[w])

FileInv == TypeInv /\ FileMatchesPlace

\* The same for any two pieces.
LEMMA TwoPieces ==
    ASSUME NEW S, NEW x \in S, NEW y \in S
    PROVE  Append(<<x>>, y) = <<x, y>> /\ Len(Append(<<x, y>>, y)) = 3
<1>1. <<x>> \in Seq(S) /\ <<x, y>> \in Seq(S) /\ Len(<<x>>) = 1 /\ Len(<<x, y>>) = 2
    OBVIOUS
<1>2. Append(<<x>>, y) \in Seq(S) /\ Len(Append(<<x>>, y)) = 2 /\ Len(Append(<<x, y>>, y)) = 3
    BY <1>1, AppendInSeq
<1>3. Append(<<x>>, y)[1] = x /\ Append(<<x>>, y)[2] = y
    BY <1>1, AppendProperties
<1>4. \A i \in 1..2 : Append(<<x>>, y)[i] = <<x, y>>[i]
    BY <1>3
<1>5. Append(<<x>>, y) = <<x, y>>
    BY <1>1, <1>2, <1>4, SeqEqual
<1> QED
    BY <1>2, <1>5

\* The second chunk completes the first; sent twice, it is too long.
LEMMA Chunks ==
    ASSUME NEW b
    PROVE  /\ Append(First(b), <<b, 2>>) = Whole(b)
           /\ Len(Whole(b)) = 2
           /\ Len(Twice(b)) = 3
<1>1. \A x, y : Append(<<x>>, y) = <<x, y>> /\ Len(Append(<<x, y>>, y)) = 3
    <2> TAKE x, y
    <2>1. x \in {x, y} /\ y \in {x, y}
        OBVIOUS
    <2> QED
        BY <2>1, TwoPieces
<1>2. Append(<< <<b, 1>> >>, <<b, 2>>) = << <<b, 1>>, <<b, 2>> >>
      /\ Len(Append(<< <<b, 1>>, <<b, 2>> >>, <<b, 2>>)) = 3
    BY <1>1, Zenon
<1> QED
    BY <1>2 DEF First, Whole, Twice

\* A step of one thread that does not touch the file, or disturbs whoever
\* uploads, preserves what the other threads know of the file.
LEMMA OthersKnowTheirFile ==
    ASSUME FileInv, NEW w \in Threads,
           \A v \in Threads \ {w} : wpc'[v] = wpc[v] /\ wdata'[v] = wdata[v],
           disturbed \ {w} \subseteq disturbed',
           file' # file => \A v \in Threads \ {w} : wpc[v] \in Uploading => v \in disturbed',
           w \notin disturbed' =>
               /\ wpc'[w] = "first" => file' = << >>
               /\ wpc'[w] = "second" => file' = First(wdata'[w])
               /\ wpc'[w] = "size" => \/ wdata'[w] = NoBackup
                                     \/ file' \in {Whole(wdata'[w]), Twice(wdata'[w])}
               /\ wpc'[w] \in {"test", "dispatch"} => file' = Whole(wdata'[w])
    PROVE  FileMatchesPlace'
<1> SUFFICES ASSUME NEW v \in Threads, v \notin disturbed', v # w
             PROVE  /\ wpc'[v] = "first" => file' = << >>
                    /\ wpc'[v] = "second" => file' = First(wdata'[v])
                    /\ wpc'[v] = "size" => \/ wdata'[v] = NoBackup
                                          \/ file' \in {Whole(wdata'[v]), Twice(wdata'[v])}
                    /\ wpc'[v] \in {"test", "dispatch"} => file' = Whole(wdata'[v])
    BY DEF FileMatchesPlace
<1>1. v \notin disturbed /\ wpc'[v] = wpc[v] /\ wdata'[v] = wdata[v]
    OBVIOUS
<1>2. wpc[v] \in Uploading => file' = file
    OBVIOUS
<1> QED
    BY <1>1, <1>2 DEF FileInv, FileMatchesPlace, Uploading

\* Steps that leave the file alone and stand at no point of an upload.
LEMMA QuietStepFile ==
    ASSUME FileInv, NEW w \in Threads, NEW p \in Places, NEW d,
           p \notin {"first", "second", "size", "test", "dispatch"},
           wpc' = [wpc EXCEPT ![w] = p],
           wdata' = [wdata EXCEPT ![w] = d],
           file' = file,
           disturbed \ {w} \subseteq disturbed'
    PROVE  FileMatchesPlace'
<1>1. \A v \in Threads \ {w} : wpc'[v] = wpc[v] /\ wdata'[v] = wdata[v]
    BY DEF FileInv, TypeInv, TypeOK
<1>2. wpc'[w] = p
    BY DEF FileInv, TypeInv, TypeOK
<1> QED
    BY <1>1, <1>2, OthersKnowTheirFile

LEMMA JobStepFile ==
    ASSUME FileInv, NEW w \in Threads, JobStep(w) \/ Pick(w)
    PROVE  FileMatchesPlace'
<1>0. TypeOK
    BY DEF FileInv, TypeInv
<1>1. file' = file /\ disturbed \ {w} \subseteq disturbed'
    BY DEF JobStep, Begin, Work, Finish, Fails, BeginRestore, MarkRunning, Pick, Leave, fileVars
<1>2. \E p \in {"free", "begin", "work", "mark", "clear", "done", "failed"} :
          wpc' = [wpc EXCEPT ![w] = p]
    BY DEF JobStep, Begin, Work, Finish, Fails, BeginRestore, MarkRunning, Pick, Leave, GoTo
<1>3. \E d : wdata' = [wdata EXCEPT ![w] = d]
    <2>1. wdata = [wdata EXCEPT ![w] = wdata[w]]
        BY <1>0 DEF TypeOK
    <2>2. wdata' = wdata \/ \E d : wdata' = [wdata EXCEPT ![w] = d]
        BY DEF JobStep, Begin, Work, Finish, Fails, BeginRestore, MarkRunning, Pick, Leave
    <2> QED
        BY <2>1, <2>2
<1>4. PICK p \in {"free", "begin", "work", "mark", "clear", "done", "failed"} :
          wpc' = [wpc EXCEPT ![w] = p]
    BY <1>2
<1>5. PICK d : wdata' = [wdata EXCEPT ![w] = d]
    BY <1>3
<1>6. p \in Places
    BY DEF Places, Uploading
<1> QED
    BY <1>1, <1>4, <1>5, <1>6, QuietStepFile

\* A command: what it does to the file is what its thread goes on with.
LEMMA CommandFile ==
    ASSUME FileInv, NEW w \in Threads, NEW files, NEW next \in Uploading,
           Command(w, files, next),
           w \notin disturbed => \A f \in files :
               /\ next = "first" => f = << >>
               /\ next = "second" => f = First(wdata[w])
               /\ next = "size" => \/ wdata[w] = NoBackup
                                  \/ f \in {Whole(wdata[w]), Twice(wdata[w])},
           next \in {"first", "second", "size"}
    PROVE  FileMatchesPlace'
<1>0. TypeOK
    BY DEF FileInv, TypeInv
<1>1. wdata' = wdata /\ disturbed \subseteq disturbed' /\ (w \in disturbed' => w \in disturbed)
    BY DEF Command
<1>2. file' # file => \A v \in Threads \ {w} : wpc[v] \in Uploading => v \in disturbed'
    BY DEF Command
<1>3. \/ wpc' = [wpc EXCEPT ![w] = next] /\ file' \in files
      \/ wpc' = [wpc EXCEPT ![w] = "failed"]
    BY DEF Command, GoTo
<1>4. \A v \in Threads \ {w} : wpc'[v] = wpc[v] /\ wdata'[v] = wdata[v]
    BY <1>0, <1>1, <1>3 DEF TypeOK
<1>5. \/ wpc'[w] = next /\ file' \in files
      \/ wpc'[w] = "failed"
    BY <1>0, <1>3 DEF TypeOK
<1>6. w \notin disturbed' =>
          /\ wpc'[w] = "first" => file' = << >>
          /\ wpc'[w] = "second" => file' = First(wdata'[w])
          /\ wpc'[w] = "size" => \/ wdata'[w] = NoBackup
                                \/ file' \in {Whole(wdata'[w]), Twice(wdata'[w])}
          /\ wpc'[w] \in {"test", "dispatch"} => file' = Whole(wdata'[w])
    BY <1>1, <1>5
<1> QED
    BY <1>1, <1>2, <1>4, <1>6, OthersKnowTheirFile

LEMMA UploadStepFile ==
    ASSUME FileInv, NEW w \in Threads, UploadStep(w)
    PROVE  FileMatchesPlace'
<1>0. TypeOK /\ Equipped /\ FileMatchesPlace
    BY DEF FileInv, TypeInv
<1>1. CASE Clear(w)
    <2>1. AfterClear(w) = "first" \/ (AfterClear(w) = "size" /\ wdata[w] = NoBackup)
        BY DEF AfterClear
    <2>2. Command(w, {<< >>}, AfterClear(w)) /\ AfterClear(w) \in Uploading
        BY <1>1, <2>1 DEF Clear, Uploading
    <2> QED
        BY <2>1, <2>2, CommandFile
<1>2. CASE UploadFirst(w)
    BY <1>2, CommandFile DEF UploadFirst, First, Uploading
<1>3. CASE UploadSecond(w)
    <2> DEFINE once  == Append(file, <<wdata[w], 2>>)
               twice == Append(once, <<wdata[w], 2>>)
    <2>1. wpc[w] = "second" /\ Command(w, {once, twice}, "size")
        BY <1>3 DEF UploadSecond
    <2>2. w \notin disturbed => once = Whole(wdata[w]) /\ twice = Twice(wdata[w])
        BY <1>0, <2>1, Chunks DEF FileMatchesPlace, Twice
    <2>3. "size" \in Uploading
        BY DEF Uploading
    <2> HIDE DEF once, twice
    <2> QED
        BY <2>1, <2>2, <2>3, CommandFile
<1> QED
    BY <1>1, <1>2, <1>3 DEF UploadStep

\* The size check tells a complete upload from one with a doubled chunk.
LEMMA CheckStepFile ==
    ASSUME FileInv, NEW w \in Threads, CheckStep(w)
    PROVE  FileMatchesPlace'
<1>0. TypeOK /\ FileMatchesPlace
    BY DEF FileInv, TypeInv
<1>1. UNCHANGED <<wdata, file, disturbed>>
    BY DEF CheckStep, CheckSize, CheckArchive, Dispatch, Check
<1>2. \/ wpc' = [wpc EXCEPT ![w] = "failed"]
      \/ wpc[w] = "size" /\ SizeMatches(w) /\ wpc' = [wpc EXCEPT ![w] = "test"]
      \/ wpc[w] = "test" /\ wpc' = [wpc EXCEPT ![w] = "dispatch"]
      \/ wpc[w] = "dispatch" /\ wpc' = [wpc EXCEPT ![w] = "done"]
    BY DEF CheckStep, CheckSize, CheckArchive, Dispatch, Check, GoTo
<1>3. \A v \in Threads \ {w} : wpc'[v] = wpc[v] /\ wdata'[v] = wdata[v]
    BY <1>0, <1>1, <1>2 DEF TypeOK
<1>4. \/ wpc'[w] \in {"failed", "done"}
      \/ wpc[w] = "size" /\ SizeMatches(w) /\ wpc'[w] = "test"
      \/ wpc[w] = "test" /\ wpc'[w] = "dispatch"
    BY <1>0, <1>2 DEF TypeOK
<1>5. w \notin disturbed /\ wpc[w] = "size" /\ SizeMatches(w) => file = Whole(wdata[w])
    <2>1. SizeMatches(w) => wdata[w] # NoBackup /\ Len(file) = 2
        BY Chunks DEF SizeMatches
    <2>2. file = Twice(wdata[w]) => Len(file) = 3
        BY Chunks
    <2> QED
        BY <1>0, <2>1, <2>2 DEF FileMatchesPlace
<1>6. w \notin disturbed' /\ wpc'[w] \in {"test", "dispatch"} => file' = Whole(wdata'[w])
    BY <1>0, <1>1, <1>4, <1>5 DEF FileMatchesPlace
<1> QED
    BY <1>1, <1>3, <1>4, <1>6, OthersKnowTheirFile

LEMMA FileStep == FileInv /\ [Next]_vars => FileInv'
<1> SUFFICES ASSUME FileInv, [Next]_vars PROVE FileInv'
    OBVIOUS
<1>0. TypeInv'
    BY TypeStep DEF FileInv
<1>1. CASE Endpoint
    <2>1. UNCHANGED <<wpc, wdata, file, disturbed>>
        BY <1>1
        DEF Endpoint, CreateJob, CreateServiceJob, UploadBackup, ConfirmJob, threadVars, fileVars
    <2> QED
        BY <1>0, <2>1 DEF FileInv, FileMatchesPlace
<1>2. CASE Restart
    BY <1>0, <1>2 DEF Restart, FileInv, FileMatchesPlace
<1>3. ASSUME NEW w \in Threads, Pick(w) PROVE FileInv'
    BY <1>0, <1>3, JobStepFile DEF FileInv
<1>4. ASSUME NEW w \in Threads, ThreadStep(w) PROVE FileInv'
    BY <1>0, <1>4, ThreadSteps, JobStepFile, UploadStepFile, CheckStepFile DEF FileInv
<1>5. CASE UNCHANGED vars
    BY <1>0, <1>5 DEF vars, FileInv, FileMatchesPlace
<1> QED
    BY <1>1, <1>2, <1>3, <1>4, <1>5 DEF Next

\* An upload no other thread writes to is restored exactly, whatever commands
\* failed half done or ran twice.
THEOREM RestoresAreExact == Spec => []UndisturbedRestoreIsExact
<1>1. Init => FileInv
    BY TypeInit DEF Init, FileInv, FileMatchesPlace
<1>2. FileInv => UndisturbedRestoreIsExact
    BY DEF FileInv, FileMatchesPlace, UndisturbedRestoreIsExact
<1> QED
    BY <1>1, <1>2, FileStep, PTL DEF Spec
=============================================================================
