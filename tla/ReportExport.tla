----------------------------- MODULE ReportExport -----------------------------
(***************************************************************************)
(* Exporting a report: the request (ReportsService), the job row           *)
(* (ReportExportJobsService), the generated file (FilesService), the queue *)
(* (BullMQ, external) and the worker (ReportExportProcessor).              *)
(*                                                                         *)
(* The row and the queue are different stores, and nothing reconciles them *)
(* but the processor, which writes the row before it lets the queue know.  *)
(* A crashed worker leaves its job active; the queue notices by its lock   *)
(* and gives the job to a worker again, at most StalledLimit times.  A     *)
(* worker whose lock has run out is taken to be dead.                      *)
(*                                                                         *)
(* Errors (of the database, the renderer, the storage) and crashes can     *)
(* happen at every step, and have budgets.  The content of a report and    *)
(* the filters of its query are left out.                                  *)
(***************************************************************************)
EXTENDS Naturals, Sequences

CONSTANTS
    Jobs,           \* exports asked for, each with its job row
    Workers,        \* workers of the report queue
    MaxAttempts,    \* DEFAULT_JOB_OPTIONS.attempts, 3 in the code
    StalledLimit,   \* BullMQ's maxStalledCount, 1 by default
    MaxErrors,      \* bound on the errors of a behaviour
    MaxCrashes,     \* bound on the crashes of workers
    MaxLinks,       \* bound on the download tokens made for a job
    NoJob           \* the job of an idle worker

ASSUME BudgetsAreNatural ==
    /\ MaxAttempts \in Nat /\ StalledLimit \in Nat
    /\ MaxErrors \in Nat /\ MaxCrashes \in Nat /\ MaxLinks \in Nat
ASSUME NoJobIsNoJob == NoJob \notin Jobs

\* The faults the code is built for: an error for each attempt, and the
\* crashes the queue forgives.
ASSUME FaultsAreForeseen == MaxErrors <= MaxAttempts /\ MaxCrashes <= StalledLimit

VARIABLES
    request,    \* how far the HTTP request of the export has come
    audited,    \* the audit event of the export is stored
    sent,       \* the administrator holds a file, or the address of one
    status,     \* ReportExportJob.status, NONE before the row exists
    upload,     \* ReportExportJob.uploadedFileId: which of its files, 0 for null
    files,      \* UploadedFile.status of the files generated for the job
    link,       \* ReportExportJob.downloadToken*: the file and the number of the token
    links,      \* how many tokens were made
    reader,     \* a status request between its read and its write
    queue,      \* state of the job in the queue
    attempts,   \* Job.attemptsMade
    stalled,    \* how often the queue took the job from a dead worker
    worker,     \* job and step of each worker
    errors, crashes  \* spent budgets

rowVars == <<status, upload, link>>
requestVars == <<request, audited, sent>>
pollVars == <<links, reader>>
queueVars == <<queue, attempts, stalled>>
budgetVars == <<errors, crashes>>
vars == <<requestVars, rowVars, files, pollVars, queueVars, worker, budgetVars>>

-----------------------------------------------------------------------------
NoLink == [file |-> 0, number |-> 0]
Idle == [job |-> NoJob, step |-> "idle"]

WorkerStep == {"idle", "start", "render", "put", "finalize", "complete",
               "failing", "completed", "failed"}

Init ==
    /\ request = [j \in Jobs |-> "none"]
    /\ audited = [j \in Jobs |-> FALSE]
    /\ sent = [j \in Jobs |-> FALSE]
    /\ status = [j \in Jobs |-> "NONE"]
    /\ upload = [j \in Jobs |-> 0]
    /\ files = [j \in Jobs |-> <<>>]
    /\ link = [j \in Jobs |-> NoLink]
    /\ links = [j \in Jobs |-> 0]
    /\ reader = [j \in Jobs |-> 0]
    /\ queue = [j \in Jobs |-> "none"]
    /\ attempts = [j \in Jobs |-> 0]
    /\ stalled = [j \in Jobs |-> 0]
    /\ worker = [w \in Workers |-> Idle]
    /\ errors = 0
    /\ crashes = 0

SomethingFails ==
    /\ errors < MaxErrors
    /\ errors' = errors + 1
    /\ UNCHANGED crashes

-----------------------------------------------------------------------------
(***************************************************************************)
(* The request                                                             *)
(***************************************************************************)

\* exportReport with more rows than REPORT_EXPORT_SYNC_THRESHOLD: createJob.
CreateJob(j) ==
    /\ request[j] = "none"
    /\ request' = [request EXCEPT ![j] = "audit"]
    /\ status' = [status EXCEPT ![j] = "PENDING"]
    /\ UNCHANGED <<audited, sent, upload, link, files, pollVars, queueVars,
                   worker, budgetVars>>

\* exportReport with few rows: the file is built in the request.
BuildFile(j) ==
    /\ request[j] = "none"
    /\ request' = [request EXCEPT ![j] = "audit"]
    /\ UNCHANGED <<audited, sent, rowVars, files, pollVars, queueVars, worker,
                   budgetVars>>

RecordRequested(j) ==
    /\ request[j] = "audit"
    /\ audited' = [audited EXCEPT ![j] = TRUE]
    /\ request' = [request EXCEPT ![j] = "answer"]
    /\ UNCHANGED <<sent, rowVars, files, pollVars, queueVars, worker, budgetVars>>

\* Faulty variant: a small report is answered and audited afterwards.
AnswerUnaudited(j) ==
    /\ request[j] \in {"audit", "answer"}
    /\ status[j] = "NONE"
    /\ sent' = [sent EXCEPT ![j] = TRUE]
    /\ request' = [request EXCEPT ![j] = "done"]
    /\ UNCHANGED <<audited, rowVars, files, pollVars, queueVars, worker, budgetVars>>

\* The file of a small report is the answer.
AnswerWithFile(j) ==
    /\ request[j] = "answer"
    /\ status[j] = "NONE"
    /\ sent' = [sent EXCEPT ![j] = TRUE]
    /\ request' = [request EXCEPT ![j] = "done"]
    /\ UNCHANGED <<audited, rowVars, files, pollVars, queueVars, worker, budgetVars>>

\* enqueueAsyncExport, with the row's identifier as that of the queue's job.
Enqueue(j) ==
    /\ request[j] = "answer"
    /\ status[j] # "NONE"
    /\ queue' = [queue EXCEPT ![j] = "waiting"]
    /\ request' = [request EXCEPT ![j] = "done"]
    /\ UNCHANGED <<audited, sent, rowVars, files, pollVars, attempts, stalled,
                   worker, budgetVars>>

\* ReportExportJobsService.markFailed
MarkFailed(j) ==
    /\ status' = [status EXCEPT ![j] = "FAILED"]
    /\ link' = [link EXCEPT ![j] = NoLink]
    /\ UNCHANGED upload

\* The queue refuses the job: its row is marked as failed, unless that fails.
EnqueueFails(j) ==
    /\ request[j] = "answer"
    /\ status[j] # "NONE"
    /\ SomethingFails
    /\ MarkFailed(j) \/ UNCHANGED rowVars
    /\ request' = [request EXCEPT ![j] = "done"]
    /\ UNCHANGED <<audited, sent, files, pollVars, queueVars, worker>>

\* The audit event cannot be stored, or the server stops.
RequestDies(j) ==
    /\ request[j] \in {"audit", "answer"}
    /\ request' = [request EXCEPT ![j] = "done"]
    /\ UNCHANGED <<audited, sent, rowVars, files, pollVars, queueVars, worker,
                   budgetVars>>

-----------------------------------------------------------------------------
(***************************************************************************)
(* The worker                                                              *)
(***************************************************************************)
Goes(w, step) == worker' = [worker EXCEPT ![w].step = step]

\* BullMQ (external): a waiting job is given to a free worker.
Take(w, j) ==
    /\ worker[w] = Idle
    /\ queue[j] = "waiting"
    /\ queue' = [queue EXCEPT ![j] = "active"]
    /\ worker' = [worker EXCEPT ![w] = [job |-> j, step |-> "start"]]
    /\ UNCHANGED <<requestVars, rowVars, files, pollVars, attempts, stalled,
                   budgetVars>>

\* executeAsyncExportJob: markProcessing
MarkProcessing(w) ==
    /\ worker[w].step = "start"
    /\ status' = [status EXCEPT ![worker[w].job] = "PROCESSING"]
    /\ Goes(w, "render")
    /\ UNCHANGED <<requestVars, upload, link, files, pollVars, queueVars, budgetVars>>

\* buildExportFile, and in createServerGeneratedFileForOwner the file's row.
CreateFile(w) ==
    /\ worker[w].step = "render"
    /\ files' = [files EXCEPT ![worker[w].job] = Append(@, "PENDING")]
    /\ Goes(w, "put")
    /\ UNCHANGED <<requestVars, rowVars, pollVars, queueVars, budgetVars>>

PutObject(w) ==
    /\ worker[w].step = "put"
    /\ Goes(w, "finalize")
    /\ UNCHANGED <<requestVars, rowVars, files, pollVars, queueVars, budgetVars>>

\* The storage refuses the file: its row is marked, unless that fails too.
PutObjectFails(w) ==
    /\ worker[w].step = "put"
    /\ SomethingFails
    /\ LET j == worker[w].job IN
       \/ files' = [files EXCEPT ![j][Len(files[j])] = "FAILED"]
       \/ UNCHANGED files
    /\ Goes(w, "failing")
    /\ UNCHANGED <<requestVars, rowVars, pollVars, queueVars>>

\* Faulty variant: the row of the file is left as it was created.
SkipMarkUploaded(w) ==
    /\ worker[w].step = "finalize"
    /\ Goes(w, "complete")
    /\ UNCHANGED <<requestVars, rowVars, files, pollVars, queueVars, budgetVars>>

MarkUploaded(w) ==
    /\ worker[w].step = "finalize"
    /\ LET j == worker[w].job IN
       files' = [files EXCEPT ![j][Len(files[j])] = "UPLOADED"]
    /\ Goes(w, "complete")
    /\ UNCHANGED <<requestVars, rowVars, pollVars, queueVars, budgetVars>>

\* The last update of markCompleted.
MarkCompleted(w) ==
    /\ worker[w].step = "complete"
    /\ LET j == worker[w].job IN
       /\ status' = [status EXCEPT ![j] = "COMPLETED"]
       /\ upload' = [upload EXCEPT ![j] = Len(files[j])]
       /\ link' = [link EXCEPT ![j] = NoLink]
    /\ Goes(w, "completed")
    /\ UNCHANGED <<requestVars, files, pollVars, queueVars, budgetVars>>

\* Any other call of the processor throws: its catch block is next.
Throws(w) ==
    /\ worker[w].step \in {"start", "render", "finalize", "complete"}
    /\ SomethingFails
    /\ Goes(w, "failing")
    /\ UNCHANGED <<requestVars, rowVars, files, pollVars, queueVars>>

\* Faulty variant: the catch block only throws the error again.
RethrowOnly(w) ==
    /\ worker[w].step = "failing"
    /\ Goes(w, "failed")
    /\ UNCHANGED <<requestVars, rowVars, files, pollVars, queueVars, budgetVars>>

\* failAsyncExportJob
FailAsyncExportJob(w) ==
    /\ worker[w].step = "failing"
    /\ MarkFailed(worker[w].job)
    /\ Goes(w, "failed")
    /\ UNCHANGED <<requestVars, files, pollVars, queueVars, budgetVars>>

FailAsyncExportJobFails(w) ==
    /\ worker[w].step = "failing"
    /\ SomethingFails
    /\ Goes(w, "failed")
    /\ UNCHANGED <<requestVars, rowVars, files, pollVars, queueVars>>

\* BullMQ (external): the processor has returned, or thrown.
Acknowledge(w) ==
    /\ worker[w].step = "completed"
    /\ queue' = [queue EXCEPT ![worker[w].job] = "completed"]
    /\ worker' = [worker EXCEPT ![w] = Idle]
    /\ UNCHANGED <<requestVars, rowVars, files, pollVars, attempts, stalled, budgetVars>>

RetryOrGiveUp(w) ==
    /\ worker[w].step = "failed"
    /\ LET j == worker[w].job IN
       /\ attempts' = [attempts EXCEPT ![j] = @ + 1]
       /\ queue' = [queue EXCEPT ![j] =
                       IF attempts[j] + 1 < MaxAttempts THEN "waiting" ELSE "failed"]
    /\ worker' = [worker EXCEPT ![w] = Idle]
    /\ UNCHANGED <<requestVars, rowVars, files, pollVars, stalled, budgetVars>>

Crash(w) ==
    /\ worker[w] # Idle
    /\ crashes < MaxCrashes
    /\ crashes' = crashes + 1
    /\ worker' = [worker EXCEPT ![w] = Idle]
    /\ UNCHANGED <<requestVars, rowVars, files, pollVars, queueVars, errors>>

\* BullMQ (external): the lock of an active job has run out.
Stalls(j) ==
    /\ queue[j] = "active"
    /\ \A w \in Workers : worker[w].job # j
    /\ stalled' = [stalled EXCEPT ![j] = @ + 1]
    /\ queue' = [queue EXCEPT ![j] =
                    IF stalled[j] < StalledLimit THEN "waiting" ELSE "failed"]
    /\ UNCHANGED <<requestVars, rowVars, files, pollVars, attempts, worker, budgetVars>>

-----------------------------------------------------------------------------
(***************************************************************************)
(* The administrator asks for the status and downloads                     *)
(***************************************************************************)

\* getStatus finds a completed job without a token it can use again.
ReadStatus(j) ==
    /\ reader[j] = 0
    /\ links[j] < MaxLinks
    /\ status[j] = "COMPLETED"
    /\ link[j] = NoLink \/ link[j].file # upload[j]
    /\ reader' = [reader EXCEPT ![j] = upload[j]]
    /\ UNCHANGED <<requestVars, rowVars, files, links, queueVars, worker, budgetVars>>

\* getOrRefreshDownloadToken stores a new token, made for the file it read.
StoreLink(j) ==
    /\ reader[j] # 0
    /\ link' = [link EXCEPT ![j] = [file |-> reader[j], number |-> links[j] + 1]]
    /\ links' = [links EXCEPT ![j] = @ + 1]
    /\ reader' = [reader EXCEPT ![j] = 0]
    /\ UNCHANGED <<requestVars, status, upload, files, queueVars, worker, budgetVars>>

\* downloadTokenExpiresAt passes.
LinkExpires(j) ==
    /\ link[j] # NoLink
    /\ link' = [link EXCEPT ![j] = NoLink]
    /\ UNCHANGED <<requestVars, status, upload, files, pollVars, queueVars, worker,
                   budgetVars>>

\* resolveDownload with the stored token, and createDownloadUrlForFile.
ResolveDownload(j) ==
    /\ status[j] = "COMPLETED"
    /\ upload[j] # 0
    /\ link[j] # NoLink
    /\ files[j][upload[j]] = "UPLOADED"
    /\ sent' = [sent EXCEPT ![j] = TRUE]
    /\ UNCHANGED <<request, audited, rowVars, files, pollVars, queueVars, worker,
                   budgetVars>>

-----------------------------------------------------------------------------
Works(w) ==
    \/ MarkProcessing(w) \/ CreateFile(w) \/ PutObject(w) \/ PutObjectFails(w)
    \/ MarkUploaded(w) \/ MarkCompleted(w) \/ Throws(w)
    \/ FailAsyncExportJob(w) \/ FailAsyncExportJobFails(w)
    \/ Acknowledge(w) \/ RetryOrGiveUp(w)

Asks(j) ==
    \/ CreateJob(j) \/ BuildFile(j) \/ RecordRequested(j) \/ AnswerWithFile(j)
    \/ Enqueue(j) \/ EnqueueFails(j) \/ RequestDies(j)
    \/ ReadStatus(j) \/ StoreLink(j) \/ LinkExpires(j) \/ ResolveDownload(j)

Next ==
    \/ \E j \in Jobs : Asks(j) \/ Stalls(j) \/ \E w \in Workers : Take(w, j)
    \/ \E w \in Workers : Works(w) \/ Crash(w)

Spec == Init /\ [][Next]_vars

\* The queue serves a waiting job when a worker is free and notices a lock
\* that ran out; a worker that does not crash goes on.  Nothing is assumed of
\* the requests: their server may stop.
Fairness ==
    /\ \A w \in Workers : WF_vars(Works(w))
    /\ \A j \in Jobs : WF_vars(Stalls(j)) /\ WF_vars(\E w \in Workers : Take(w, j))

FairSpec == Spec /\ Fairness

-----------------------------------------------------------------------------
(***************************************************************************)
(* Properties                                                              *)
(***************************************************************************)

\* The values the variables take.
TypeOK ==
    /\ request \in [Jobs -> {"none", "audit", "answer", "done"}]
    /\ audited \in [Jobs -> BOOLEAN]
    /\ sent \in [Jobs -> BOOLEAN]
    /\ status \in [Jobs -> {"NONE", "PENDING", "PROCESSING", "COMPLETED", "FAILED"}]
    /\ upload \in [Jobs -> Nat]
    /\ files \in [Jobs -> Seq({"PENDING", "UPLOADED", "FAILED"})]
    /\ link \in [Jobs -> [file : Nat, number : Nat]]
    /\ links \in [Jobs -> Nat]
    /\ reader \in [Jobs -> Nat]
    /\ queue \in [Jobs -> {"none", "waiting", "active", "completed", "failed"}]
    /\ attempts \in [Jobs -> Nat]
    /\ stalled \in [Jobs -> Nat]
    /\ worker \in [Workers -> [job : Jobs \cup {NoJob}, step : WorkerStep]]
    /\ errors \in Nat
    /\ crashes \in Nat

\* No report has left the system without an audit event.
NothingLeavesUnaudited == \A j \in Jobs : sent[j] => audited[j]

\* What is said of an export: the administrator polls the row, which counts
\* once the queue has finished with the job.
Outcome ==
    [j \in Jobs |->
        IF queue[j] = "none" THEN "none"
        ELSE IF queue[j] \in {"waiting", "active"} THEN "underway"
        ELSE status[j]]

Promise == INSTANCE ExportPromise
    WITH Exports <- Jobs, recorded <- audited, handed <- sent, outcome <- Outcome

\* Whatever is repeated after errors and crashes, an export keeps what
\* ExportPromise says.  No report leaves the system, in an answer or through
\* a link, before its audit event is stored, and none is queued before.  A row
\* the queue has finished with says how the export ended and never changes
\* its mind; no link to a failed one can be used.
ExportKeepsPromise == Promise!Spec

\* The file a job points at was stored in full, however often the job was
\* repeated after errors and crashes, and whichever of its files it is.
UploadIsStored ==
    \A j \in Jobs :
        /\ status[j] = "COMPLETED" => upload[j] # 0
        /\ upload[j] # 0 => /\ upload[j] <= Len(files[j])
                            /\ files[j][upload[j]] = "UPLOADED"

\* When the queue has finished with a job, the row an administrator polls
\* says the same, as long as there are not more errors than a job has
\* attempts nor more crashes than the queue forgives.
QueueAgreesWithRow ==
    \A j \in Jobs :
        /\ queue[j] = "completed" => status[j] = "COMPLETED"
        /\ queue[j] = "failed" => status[j] = "FAILED"

\* An export that reached the queue ends, with a file or an error, and is not
\* touched by a worker afterwards: no row is left in PROCESSING.
ExportSettles ==
    \A j \in Jobs :
        queue[j] = "waiting" ~> [](queue[j] \in {"completed", "failed"}
                                   /\ status[j] \in {"COMPLETED", "FAILED"})

=============================================================================
