--------------------------- MODULE BackgroundProofs ---------------------------
(***************************************************************************)
(* Proofs about what runs outside of a request: the export of reports, for *)
(* any number of exports, workers and attempts, and the seed scripts, for  *)
(* any number of runs.  That an export ends (ExportSettles) is left to     *)
(* TLC.                                                                    *)
(***************************************************************************)
EXTENDS ReportExport, Seeds, TLAPS

-----------------------------------------------------------------------------
\* A job that the queue gave out has one worker; the queue hears of a job
\* once, after its audit event; a row is completed by workers only.
Ordered ==
    /\ \A w \in Workers : worker[w] # Idle =>
          /\ worker[w].step # "idle"
          /\ worker[w].job \in Jobs
          /\ queue[worker[w].job] = "active"
          /\ \A v \in Workers \ {w} : worker[v].job # worker[w].job
    /\ \A j \in Jobs :
          /\ request[j] \in {"none", "audit", "answer"} => queue[j] = "none"
          /\ request[j] = "answer" => audited[j]
          /\ queue[j] # "none" => audited[j]
          /\ status[j] = "COMPLETED" => queue[j] # "none"

\* The newest file of a job is the one its worker is at.
FilesAreCurrent ==
    \A w \in Workers :
        LET f == files[worker[w].job] IN
        /\ worker[w].step \in {"put", "finalize"} => f # <<>> /\ f[Len(f)] = "PENDING"
        /\ worker[w].step = "complete" => f # <<>> /\ f[Len(f)] = "UPLOADED"
        /\ worker[w].step = "completed" => status[worker[w].job] = "COMPLETED"

\* Every failed attempt has cost an error, one that left the row alone two,
\* and every stall a crash.
FaultsAreSpent ==
    /\ errors <= MaxErrors /\ crashes <= MaxCrashes
    /\ \A j \in Jobs :
          /\ attempts[j] <= errors
          /\ stalled[j] <= crashes
          /\ queue[j] = "active" /\ (\A w \in Workers : worker[w].job # j)
                => stalled[j] < crashes
    /\ \A w \in Workers :
          LET j == worker[w].job IN
          /\ worker[w].step \in {"failing", "failed"} => attempts[j] + 1 <= errors
          /\ worker[w].step = "failed" /\ status[j] # "FAILED" => attempts[j] + 2 <= errors

IInv ==
    /\ TypeOK
    /\ Ordered
    /\ FilesAreCurrent
    /\ FaultsAreSpent
    /\ NothingLeavesUnaudited
    /\ UploadIsStored
    /\ QueueAgreesWithRow

USE BudgetsAreNatural, NoJobIsNoJob, FaultsAreForeseen

\* No export was asked for.
LEMMA InitHolds == Init => IInv
<1> SUFFICES ASSUME Init PROVE IInv
  OBVIOUS
<1> USE DEF Init, Idle, NoLink
<1>1. TypeOK
  BY DEF TypeOK, WorkerStep
<1>2. Ordered /\ FilesAreCurrent /\ FaultsAreSpent
  BY DEF Ordered, FilesAreCurrent, FaultsAreSpent
<1>3. NothingLeavesUnaudited /\ UploadIsStored /\ QueueAgreesWithRow
  BY DEF NothingLeavesUnaudited, UploadIsStored, QueueAgreesWithRow
<1> QED
  BY <1>1, <1>2, <1>3 DEF IInv

-----------------------------------------------------------------------------
\* A function whose value is replaced in one place keeps its type.
LEMMA Updated ==
    ASSUME NEW A, NEW S, NEW f \in [A -> S], NEW a \in A, NEW v \in S
    PROVE  [f EXCEPT ![a] = v] \in [A -> S]
  OBVIOUS

\* A worker that goes on keeps its job.
LEMMA GoesOn ==
    ASSUME TypeOK, NEW w \in Workers, NEW x \in WorkerStep, Goes(w, x)
    PROVE  worker' \in [Workers -> [job : Jobs \cup {NoJob}, step : WorkerStep]]
<1>1. worker' = [worker EXCEPT ![w] = [worker[w] EXCEPT !.step = x]]
  BY DEF Goes
<1> QED
  BY <1>1 DEF TypeOK

\* What is not idle has a job.
LEMMA HasJob ==
    ASSUME Ordered, NEW w \in Workers, worker[w].step # "idle"
    PROVE  worker[w].job \in Jobs
  BY DEF Ordered, Idle

\* No step stores a value of another type.
LEMMA TypeStep == ASSUME IInv, [Next]_vars PROVE TypeOK'
<1> USE DEF IInv, TypeOK, Ordered, WorkerStep, Idle, NoLink, rowVars, requestVars,
            pollVars, queueVars, budgetVars
<1>1. ASSUME NEW j \in Jobs, Asks(j) PROVE TypeOK'
  <2>1. ASSUME CreateJob(j) PROVE TypeOK'
    BY <2>1 DEF CreateJob
  <2>2. ASSUME BuildFile(j) PROVE TypeOK'
    BY <2>2 DEF BuildFile
  <2>3. ASSUME RecordRequested(j) PROVE TypeOK'
    BY <2>3 DEF RecordRequested
  <2>4. ASSUME AnswerWithFile(j) PROVE TypeOK'
    BY <2>4 DEF AnswerWithFile
  <2>5. ASSUME Enqueue(j) PROVE TypeOK'
    BY <2>5 DEF Enqueue
  <2>6. ASSUME EnqueueFails(j) PROVE TypeOK'
    <3>1. status' \in [Jobs -> {"NONE", "PENDING", "PROCESSING", "COMPLETED", "FAILED"}]
          /\ link' \in [Jobs -> [file : Nat, number : Nat]] /\ upload' = upload
      <4>1. CASE MarkFailed(j)
        BY <4>1 DEF MarkFailed
      <4>2. CASE UNCHANGED rowVars
        BY <4>2
      <4> QED
        BY <2>6, <4>1, <4>2 DEF EnqueueFails
    <3>2. errors' \in Nat /\ crashes' = crashes
      BY <2>6 DEF EnqueueFails, SomethingFails
    <3> QED
      BY <2>6, <3>1, <3>2 DEF EnqueueFails
  <2>7. ASSUME RequestDies(j) PROVE TypeOK'
    BY <2>7 DEF RequestDies
  <2>8. ASSUME ReadStatus(j) PROVE TypeOK'
    BY <2>8 DEF ReadStatus
  <2>9. ASSUME StoreLink(j) PROVE TypeOK'
    BY <2>9 DEF StoreLink
  <2>10. ASSUME LinkExpires(j) PROVE TypeOK'
    BY <2>10 DEF LinkExpires
  <2>11. ASSUME ResolveDownload(j) PROVE TypeOK'
    BY <2>11 DEF ResolveDownload
  <2> QED
    BY <1>1, <2>1, <2>2, <2>3, <2>4, <2>5, <2>6, <2>7, <2>8, <2>9, <2>10, <2>11,
       Zenon DEF Asks
<1>2. ASSUME NEW w \in Workers, Works(w) PROVE TypeOK'
  <2>1. ASSUME MarkProcessing(w) PROVE TypeOK'
    <3>1. worker' \in [Workers -> [job : Jobs \cup {NoJob}, step : WorkerStep]]
      BY <2>1, GoesOn DEF MarkProcessing, WorkerStep
    <3>2. worker[w].job \in Jobs
      BY <2>1, HasJob DEF MarkProcessing
    <3> QED
      BY <2>1, <3>1, <3>2 DEF MarkProcessing
  <2>2. ASSUME CreateFile(w) PROVE TypeOK'
    <3>1. worker' \in [Workers -> [job : Jobs \cup {NoJob}, step : WorkerStep]]
      BY <2>2, GoesOn DEF CreateFile, WorkerStep
    <3>2. worker[w].job \in Jobs
      BY <2>2, HasJob DEF CreateFile
    <3> QED
      BY <2>2, <3>1, <3>2 DEF CreateFile
  <2>3. ASSUME PutObject(w) PROVE TypeOK'
    <3>1. worker' \in [Workers -> [job : Jobs \cup {NoJob}, step : WorkerStep]]
      BY <2>3, GoesOn DEF PutObject, WorkerStep
    <3>2. worker[w].job \in Jobs
      BY <2>3, HasJob DEF PutObject
    <3> QED
      BY <2>3, <3>1, <3>2 DEF PutObject
  <2>4. ASSUME PutObjectFails(w) PROVE TypeOK'
    <3> DEFINE j == worker[w].job
               f == files[j]
    <3>1. worker' \in [Workers -> [job : Jobs \cup {NoJob}, step : WorkerStep]]
      BY <2>4, GoesOn DEF PutObjectFails, WorkerStep
    <3>2. j \in Jobs /\ f \in Seq({"PENDING", "UPLOADED", "FAILED"}) /\ f # <<>>
      BY <2>4, HasJob DEF PutObjectFails, FilesAreCurrent
    <3>3. [f EXCEPT ![Len(f)] = "FAILED"] \in Seq({"PENDING", "UPLOADED", "FAILED"})
      BY <3>2
    <3>4. files' = files \/ files' = [files EXCEPT ![j] = [f EXCEPT ![Len(f)] = "FAILED"]]
      BY <2>4 DEF PutObjectFails
    <3> DEFINE g == [f EXCEPT ![Len(f)] = "FAILED"]
    <3> HIDE DEF g
    <3>5. files' \in [Jobs -> Seq({"PENDING", "UPLOADED", "FAILED"})]
      <4>1. g \in Seq({"PENDING", "UPLOADED", "FAILED"})
        BY <3>3 DEF g
      <4>2. files' = files \/ files' = [files EXCEPT ![j] = g]
        BY <3>4 DEF g
      <4>3. files \in [Jobs -> Seq({"PENDING", "UPLOADED", "FAILED"})]
        OBVIOUS
      <4>4. j \in Jobs
        BY <3>2
      <4> HIDE DEF j
      <4>5. [files EXCEPT ![j] = g] \in [Jobs -> Seq({"PENDING", "UPLOADED", "FAILED"})]
        BY <4>1, <4>3, <4>4, Updated
      <4> QED
        BY <4>2, <4>3, <4>5
    <3>6. errors' \in Nat /\ crashes' = crashes
      BY <2>4 DEF PutObjectFails, SomethingFails
    <3> QED
      BY <2>4, <3>1, <3>5, <3>6 DEF PutObjectFails
  <2>5. ASSUME MarkUploaded(w) PROVE TypeOK'
    <3> DEFINE j == worker[w].job
               f == files[j]
    <3>1. worker' \in [Workers -> [job : Jobs \cup {NoJob}, step : WorkerStep]]
      BY <2>5, GoesOn DEF MarkUploaded, WorkerStep
    <3>2. j \in Jobs /\ f \in Seq({"PENDING", "UPLOADED", "FAILED"}) /\ f # <<>>
      BY <2>5, HasJob DEF MarkUploaded, FilesAreCurrent
    <3>3. [f EXCEPT ![Len(f)] = "UPLOADED"] \in Seq({"PENDING", "UPLOADED", "FAILED"})
      BY <3>2
    <3>4. files' = files \/ files' = [files EXCEPT ![j] = [f EXCEPT ![Len(f)] = "UPLOADED"]]
      BY <2>5 DEF MarkUploaded
    <3> DEFINE g == [f EXCEPT ![Len(f)] = "UPLOADED"]
    <3> HIDE DEF g
    <3>5. files' \in [Jobs -> Seq({"PENDING", "UPLOADED", "FAILED"})]
      <4>1. g \in Seq({"PENDING", "UPLOADED", "FAILED"})
        BY <3>3 DEF g
      <4>2. files' = files \/ files' = [files EXCEPT ![j] = g]
        BY <3>4 DEF g
      <4>3. files \in [Jobs -> Seq({"PENDING", "UPLOADED", "FAILED"})]
        OBVIOUS
      <4>4. j \in Jobs
        BY <3>2
      <4> HIDE DEF j
      <4>5. [files EXCEPT ![j] = g] \in [Jobs -> Seq({"PENDING", "UPLOADED", "FAILED"})]
        BY <4>1, <4>3, <4>4, Updated
      <4> QED
        BY <4>2, <4>3, <4>5
    <3> QED
      BY <2>5, <3>1, <3>5 DEF MarkUploaded
  <2>6. ASSUME MarkCompleted(w) PROVE TypeOK'
    <3>1. worker' \in [Workers -> [job : Jobs \cup {NoJob}, step : WorkerStep]]
      BY <2>6, GoesOn DEF MarkCompleted, WorkerStep
    <3>2. worker[w].job \in Jobs
      BY <2>6, HasJob DEF MarkCompleted
    <3> QED
      BY <2>6, <3>1, <3>2, SMTT(60) DEF MarkCompleted
  <2>7. ASSUME Throws(w) PROVE TypeOK'
    <3>1. worker' \in [Workers -> [job : Jobs \cup {NoJob}, step : WorkerStep]]
      BY <2>7, GoesOn DEF Throws, WorkerStep
    <3>2. worker[w].job \in Jobs
      BY <2>7, HasJob DEF Throws
    <3>3. errors' \in Nat /\ crashes' = crashes
      BY <2>7 DEF Throws, SomethingFails
    <3> QED
      BY <2>7, <3>1, <3>2, <3>3 DEF Throws
  <2>8. ASSUME FailAsyncExportJob(w) PROVE TypeOK'
    <3>1. worker' \in [Workers -> [job : Jobs \cup {NoJob}, step : WorkerStep]]
      BY <2>8, GoesOn DEF FailAsyncExportJob, WorkerStep
    <3>2. worker[w].job \in Jobs
      BY <2>8, HasJob DEF FailAsyncExportJob
    <3> QED
      BY <2>8, <3>1, <3>2 DEF FailAsyncExportJob, MarkFailed
  <2>9. ASSUME FailAsyncExportJobFails(w) PROVE TypeOK'
    <3>1. worker' \in [Workers -> [job : Jobs \cup {NoJob}, step : WorkerStep]]
      BY <2>9, GoesOn DEF FailAsyncExportJobFails, WorkerStep
    <3>2. worker[w].job \in Jobs
      BY <2>9, HasJob DEF FailAsyncExportJobFails
    <3>3. errors' \in Nat /\ crashes' = crashes
      BY <2>9 DEF FailAsyncExportJobFails, SomethingFails
    <3> QED
      BY <2>9, <3>1, <3>2, <3>3 DEF FailAsyncExportJobFails
  <2>10. ASSUME Acknowledge(w) PROVE TypeOK'
    <3>1. worker[w].job \in Jobs
      BY <2>10, HasJob DEF Acknowledge
    <3> QED
      BY <2>10, <3>1 DEF Acknowledge
  <2>11. ASSUME RetryOrGiveUp(w) PROVE TypeOK'
    <3> DEFINE j == worker[w].job
    <3>1. j \in Jobs
      BY <2>11, HasJob DEF RetryOrGiveUp
    <3>2. attempts' \in [Jobs -> Nat]
      BY <2>11, <3>1 DEF RetryOrGiveUp
    <3>3. queue' \in [Jobs -> {"none", "waiting", "active", "completed", "failed"}]
      BY <2>11, <3>1 DEF RetryOrGiveUp
    <3>4. worker' \in [Workers -> [job : Jobs \cup {NoJob}, step : WorkerStep]]
      BY <2>11 DEF RetryOrGiveUp
    <3> QED
      BY <2>11, <3>2, <3>3, <3>4 DEF RetryOrGiveUp
  <2> QED
    BY <1>2, <2>1, <2>2, <2>3, <2>4, <2>5, <2>6, <2>7, <2>8, <2>9, <2>10, <2>11,
       Zenon DEF Works
<1>3. ASSUME NEW j \in Jobs, Stalls(j) PROVE TypeOK'
  BY <1>3 DEF Stalls
<1>4. ASSUME NEW j \in Jobs, NEW w \in Workers, Take(w, j) PROVE TypeOK'
  BY <1>4 DEF Take
<1>5. ASSUME NEW w \in Workers, Crash(w) PROVE TypeOK'
  BY <1>5 DEF Crash
<1>6. ASSUME UNCHANGED vars PROVE TypeOK'
  BY <1>6 DEF vars
<1> QED
  BY <1>1, <1>2, <1>3, <1>4, <1>5, <1>6, Zenon DEF Next

\* A worker takes a job only from the queue, and the queue gives it out again
\* only when no worker has it.
LEMMA OrderStep ==
    ASSUME IInv, [Next]_vars PROVE Ordered' /\ NothingLeavesUnaudited'
<1> DEFINE Goal == Ordered' /\ NothingLeavesUnaudited'
<1> USE DEF IInv, TypeOK, Ordered, NothingLeavesUnaudited, WorkerStep, Idle, rowVars,
            requestVars, pollVars, queueVars, budgetVars
<1>1. ASSUME NEW j \in Jobs, Asks(j) PROVE Goal
  <2>1. ASSUME CreateJob(j) PROVE Goal
    BY <2>1 DEF CreateJob
  <2>2. ASSUME BuildFile(j) PROVE Goal
    BY <2>2 DEF BuildFile
  <2>3. ASSUME RecordRequested(j) PROVE Goal
    BY <2>3 DEF RecordRequested
  <2>4. ASSUME AnswerWithFile(j) PROVE Goal
    BY <2>4 DEF AnswerWithFile
  <2>5. ASSUME Enqueue(j) PROVE Goal
    BY <2>5 DEF Enqueue
  <2>6. ASSUME EnqueueFails(j) PROVE Goal
    BY <2>6 DEF EnqueueFails, MarkFailed, SomethingFails
  <2>7. ASSUME RequestDies(j) PROVE Goal
    BY <2>7 DEF RequestDies
  <2>8. ASSUME ReadStatus(j) PROVE Goal
    BY <2>8 DEF ReadStatus
  <2>9. ASSUME StoreLink(j) PROVE Goal
    BY <2>9 DEF StoreLink
  <2>10. ASSUME LinkExpires(j) PROVE Goal
    BY <2>10 DEF LinkExpires
  <2>11. ASSUME ResolveDownload(j) PROVE Goal
    BY <2>11 DEF ResolveDownload
  <2> QED
    BY <1>1, <2>1, <2>2, <2>3, <2>4, <2>5, <2>6, <2>7, <2>8, <2>9, <2>10, <2>11,
       Zenon DEF Asks
<1>2. ASSUME NEW w \in Workers, Works(w) PROVE Goal
  <2>1. ASSUME MarkProcessing(w) PROVE Goal
    BY <2>1 DEF MarkProcessing, Goes
  <2>2. ASSUME CreateFile(w) PROVE Goal
    BY <2>2, SMTT(30) DEF CreateFile, Goes
  <2>3. ASSUME PutObject(w) PROVE Goal
    BY <2>3, SMTT(30) DEF PutObject, Goes
  <2>4. ASSUME PutObjectFails(w) PROVE Goal
    BY <2>4, SMTT(60) DEF PutObjectFails, SomethingFails, Goes
  <2>5. ASSUME MarkUploaded(w) PROVE Goal
    BY <2>5 DEF MarkUploaded, Goes
  <2>6. ASSUME MarkCompleted(w) PROVE Goal
    BY <2>6, SMTT(30) DEF MarkCompleted, Goes
  <2>7. ASSUME Throws(w) PROVE Goal
    BY <2>7 DEF Throws, SomethingFails, Goes
  <2>8. ASSUME FailAsyncExportJob(w) PROVE Goal
    BY <2>8, SMTT(30) DEF FailAsyncExportJob, MarkFailed, Goes
  <2>9. ASSUME FailAsyncExportJobFails(w) PROVE Goal
    BY <2>9, SMTT(30) DEF FailAsyncExportJobFails, SomethingFails, Goes
  <2>10. ASSUME Acknowledge(w) PROVE Goal
    BY <2>10 DEF Acknowledge
  <2>11. ASSUME RetryOrGiveUp(w) PROVE Goal
    BY <2>11 DEF RetryOrGiveUp
  <2> QED
    BY <1>2, <2>1, <2>2, <2>3, <2>4, <2>5, <2>6, <2>7, <2>8, <2>9, <2>10, <2>11,
       Zenon DEF Works
<1>3. ASSUME NEW j \in Jobs, Stalls(j) PROVE Goal
  BY <1>3 DEF Stalls
<1>4. ASSUME NEW j \in Jobs, NEW w \in Workers, Take(w, j) PROVE Goal
  BY <1>4, SMTT(30) DEF Take
<1>5. ASSUME NEW w \in Workers, Crash(w) PROVE Goal
  BY <1>5 DEF Crash
<1>6. ASSUME UNCHANGED vars PROVE Goal
  BY <1>6 DEF vars
<1> QED
  BY <1>1, <1>2, <1>3, <1>4, <1>5, <1>6, Zenon DEF Next

\* A file is appended behind the others.
LEMMA Appending ==
    ASSUME NEW S, NEW f \in Seq(S), NEW x \in S
    PROVE  /\ Append(f, x) # <<>> /\ Len(Append(f, x)) = Len(f) + 1
           /\ Append(f, x)[Len(f) + 1] = x
           /\ \A n \in 1..Len(f) : Append(f, x)[n] = f[n]
  OBVIOUS

\* A worker that goes on is the only one of its job.
LEMMA WorkerGoes ==
    ASSUME IInv, NEW w \in Workers, worker[w].step # "idle", NEW x, Goes(w, x)
    PROVE  /\ worker[w].job \in Jobs /\ queue[worker[w].job] = "active"
           /\ worker'[w].step = x /\ worker'[w].job = worker[w].job
           /\ \A v \in Workers \ {w} :
                 worker'[v] = worker[v] /\ worker[v].job # worker[w].job
           /\ \A v \in Workers : worker'[v].job = worker[v].job
  BY DEF IInv, TypeOK, Ordered, Idle, Goes

\* A worker appends the file it then completes; the files before it stay.
LEMMA FilesStep ==
    ASSUME IInv, [Next]_vars PROVE FilesAreCurrent' /\ UploadIsStored'
<1> DEFINE Goal == FilesAreCurrent' /\ UploadIsStored'
<1> USE DEF IInv, TypeOK, Ordered, FilesAreCurrent, UploadIsStored, WorkerStep, Idle,
            rowVars, requestVars, pollVars, queueVars, budgetVars
<1>1. ASSUME NEW j \in Jobs, Asks(j) PROVE Goal
  <2>1. ASSUME CreateJob(j) PROVE Goal
    BY <2>1 DEF CreateJob
  <2>2. ASSUME BuildFile(j) PROVE Goal
    BY <2>2 DEF BuildFile
  <2>3. ASSUME RecordRequested(j) PROVE Goal
    BY <2>3 DEF RecordRequested
  <2>4. ASSUME AnswerWithFile(j) PROVE Goal
    BY <2>4 DEF AnswerWithFile
  <2>5. ASSUME Enqueue(j) PROVE Goal
    BY <2>5 DEF Enqueue
  <2>6. ASSUME EnqueueFails(j) PROVE Goal
    <3>1. /\ UNCHANGED <<worker, files, upload>>
          /\ \A k \in Jobs \ {j} : status'[k] = status[k]
          /\ status'[j] = status[j] \/ status'[j] = "FAILED"
      BY <2>6 DEF EnqueueFails, MarkFailed
    <3>2. \A w \in Workers : worker[w].step # "idle" => worker[w].job \in Jobs \ {j}
      BY <2>6, HasJob DEF EnqueueFails
    <3>3. FilesAreCurrent /\ UploadIsStored
      OBVIOUS
    <3> HIDE DEF IInv, TypeOK, Ordered
    <3> QED
      BY <3>1, <3>2, <3>3
  <2>7. ASSUME RequestDies(j) PROVE Goal
    BY <2>7 DEF RequestDies
  <2>8. ASSUME ReadStatus(j) PROVE Goal
    BY <2>8 DEF ReadStatus
  <2>9. ASSUME StoreLink(j) PROVE Goal
    BY <2>9 DEF StoreLink
  <2>10. ASSUME LinkExpires(j) PROVE Goal
    BY <2>10 DEF LinkExpires
  <2>11. ASSUME ResolveDownload(j) PROVE Goal
    BY <2>11 DEF ResolveDownload
  <2> QED
    BY <1>1, <2>1, <2>2, <2>3, <2>4, <2>5, <2>6, <2>7, <2>8, <2>9, <2>10, <2>11,
       Zenon DEF Asks
<1>2. ASSUME NEW w \in Workers, Works(w) PROVE Goal
  <2>1. ASSUME MarkProcessing(w) PROVE Goal
    <3> DEFINE j == worker[w].job
    <3>1. /\ j \in Jobs /\ worker'[w].step = "render" /\ worker'[w].job = j
          /\ \A v \in Workers \ {w} : worker'[v] = worker[v] /\ worker[v].job # j
      <4>1. worker[w].step # "idle" /\ Goes(w, "render")
        BY <2>1 DEF MarkProcessing
      <4> HIDE DEF IInv, TypeOK, Ordered, FilesAreCurrent
      <4> QED
        BY <4>1, WorkerGoes
    <3>2. \A k \in Jobs \ {j} :
             files'[k] = files[k] /\ status'[k] = status[k] /\ upload'[k] = upload[k]
      BY <2>1, <3>1 DEF MarkProcessing
    <3>3. files'[j] = files[j] /\ upload'[j] = upload[j] /\ status'[j] = "PROCESSING"
      BY <2>1, <3>1 DEF MarkProcessing
    <3>4. FilesAreCurrent /\ UploadIsStored /\ upload[j] \in Nat /\ Len(files[j]) \in Nat
      BY <3>1
    <3>5. \A v \in Workers : worker[v].step # "idle" => worker[v].job \in Jobs
      BY HasJob
    <3> HIDE DEF IInv, TypeOK, Ordered, j
    <3>6. FilesAreCurrent'
      BY <3>1, <3>2, <3>3, <3>4, <3>5
    <3>7. UploadIsStored'
      BY <3>1, <3>2, <3>3, <3>4
    <3> QED
      BY <3>6, <3>7
  <2>2. ASSUME CreateFile(w) PROVE Goal
    <3> DEFINE j == worker[w].job
    <3>1. /\ j \in Jobs /\ worker'[w].step = "put" /\ worker'[w].job = j
          /\ \A v \in Workers \ {w} : worker'[v] = worker[v] /\ worker[v].job # j
      <4>1. worker[w].step # "idle" /\ Goes(w, "put")
        BY <2>2 DEF CreateFile
      <4> HIDE DEF IInv, TypeOK, Ordered, FilesAreCurrent
      <4> QED
        BY <4>1, WorkerGoes
    <3>2. \A k \in Jobs \ {j} :
             files'[k] = files[k] /\ status'[k] = status[k] /\ upload'[k] = upload[k]
      BY <2>2, <3>1 DEF CreateFile
    <3>3. /\ status'[j] = status[j] /\ upload'[j] = upload[j]
          /\ Len(files'[j]) = Len(files[j]) + 1 /\ files'[j] # <<>>
          /\ files'[j][Len(files[j]) + 1] = "PENDING"
          /\ \A n \in 1..Len(files[j]) : files'[j][n] = files[j][n]
      <4>1. files[j] \in Seq({"PENDING", "UPLOADED", "FAILED"})
        BY <3>1
      <4>2. files'[j] = Append(files[j], "PENDING") /\ status' = status /\ upload' = upload
        BY <2>2, <3>1 DEF CreateFile
      <4> HIDE DEF IInv, TypeOK, j
      <4> QED
        BY <4>1, <4>2, Appending
    <3>4. FilesAreCurrent /\ UploadIsStored /\ upload[j] \in Nat /\ Len(files[j]) \in Nat
      BY <3>1
    <3>5. \A v \in Workers : worker[v].step # "idle" => worker[v].job \in Jobs
      BY HasJob
    <3> HIDE DEF IInv, TypeOK, Ordered, j
    <3>6. FilesAreCurrent'
      BY <3>1, <3>2, <3>3, <3>4, <3>5
    <3>7. UploadIsStored'
      BY <3>1, <3>2, <3>3, <3>4
    <3> QED
      BY <3>6, <3>7
  <2>3. ASSUME PutObject(w) PROVE Goal
    BY <2>3 DEF PutObject, Goes
  <2>4. ASSUME PutObjectFails(w) PROVE Goal
    <3> DEFINE j == worker[w].job
    <3>1. /\ j \in Jobs /\ worker'[w].step = "failing" /\ worker'[w].job = j
          /\ \A v \in Workers \ {w} : worker'[v] = worker[v] /\ worker[v].job # j
      <4>1. worker[w].step # "idle" /\ Goes(w, "failing")
        BY <2>4 DEF PutObjectFails
      <4> HIDE DEF IInv, TypeOK, Ordered, FilesAreCurrent
      <4> QED
        BY <4>1, WorkerGoes
    <3>2. \A k \in Jobs \ {j} :
             files'[k] = files[k] /\ status'[k] = status[k] /\ upload'[k] = upload[k]
      BY <2>4, <3>1, SMTT(30) DEF PutObjectFails
    <3>3. /\ worker[w].step \in {"put", "finalize"}
          /\ status'[j] = status[j] /\ upload'[j] = upload[j]
          /\ Len(files'[j]) = Len(files[j]) /\ files'[j] # <<>>
          /\ files[j][Len(files[j])] = "PENDING"
          /\ \A n \in 1..(Len(files[j]) - 1) : files'[j][n] = files[j][n]
      <4>1. files[j] \in Seq({"PENDING", "UPLOADED", "FAILED"}) /\ files[j] # <<>>
        BY <2>4, <3>1 DEF PutObjectFails
      <4> QED
        BY <2>4, <3>1, <4>1 DEF PutObjectFails
    <3>4. FilesAreCurrent /\ UploadIsStored /\ upload[j] \in Nat /\ Len(files[j]) \in Nat
      BY <3>1
    <3>5. \A v \in Workers : worker[v].step # "idle" => worker[v].job \in Jobs
      BY HasJob
    <3> HIDE DEF IInv, TypeOK, Ordered, j
    <3>6. FilesAreCurrent'
      BY <3>1, <3>2, <3>3, <3>4, <3>5
    <3>7. UploadIsStored'
      BY <3>1, <3>2, <3>3, <3>4
    <3> QED
      BY <3>6, <3>7
  <2>5. ASSUME MarkUploaded(w) PROVE Goal
    <3> DEFINE j == worker[w].job
    <3>1. /\ j \in Jobs /\ worker'[w].step = "complete" /\ worker'[w].job = j
          /\ \A v \in Workers \ {w} : worker'[v] = worker[v] /\ worker[v].job # j
      <4>1. worker[w].step # "idle" /\ Goes(w, "complete")
        BY <2>5 DEF MarkUploaded
      <4> HIDE DEF IInv, TypeOK, Ordered, FilesAreCurrent
      <4> QED
        BY <4>1, WorkerGoes
    <3>2. \A k \in Jobs \ {j} :
             files'[k] = files[k] /\ status'[k] = status[k] /\ upload'[k] = upload[k]
      BY <2>5, <3>1 DEF MarkUploaded
    <3>3. /\ worker[w].step \in {"put", "finalize"}
          /\ status'[j] = status[j] /\ upload'[j] = upload[j]
          /\ Len(files'[j]) = Len(files[j]) /\ files'[j] # <<>>
          /\ files'[j][Len(files[j])] = "UPLOADED" /\ files[j][Len(files[j])] = "PENDING"
          /\ \A n \in 1..(Len(files[j]) - 1) : files'[j][n] = files[j][n]
      <4>1. files[j] \in Seq({"PENDING", "UPLOADED", "FAILED"}) /\ files[j] # <<>>
        BY <2>5, <3>1 DEF MarkUploaded
      <4> QED
        BY <2>5, <3>1, <4>1 DEF MarkUploaded
    <3>4. FilesAreCurrent /\ UploadIsStored /\ upload[j] \in Nat /\ Len(files[j]) \in Nat
      BY <3>1
    <3>5. \A v \in Workers : worker[v].step # "idle" => worker[v].job \in Jobs
      BY HasJob
    <3> HIDE DEF IInv, TypeOK, Ordered, j
    <3>6. FilesAreCurrent'
      BY <3>1, <3>2, <3>3, <3>4, <3>5
    <3>7. UploadIsStored'
      BY <3>1, <3>2, <3>3, <3>4
    <3> QED
      BY <3>6, <3>7
  <2>6. ASSUME MarkCompleted(w) PROVE Goal
    <3> DEFINE j == worker[w].job
    <3>1. /\ j \in Jobs /\ worker'[w].step = "completed" /\ worker'[w].job = j
          /\ \A v \in Workers \ {w} : worker'[v] = worker[v] /\ worker[v].job # j
      <4>1. worker[w].step # "idle" /\ Goes(w, "completed")
        BY <2>6 DEF MarkCompleted
      <4> HIDE DEF IInv, TypeOK, Ordered, FilesAreCurrent
      <4> QED
        BY <4>1, WorkerGoes
    <3>2. \A k \in Jobs \ {j} :
             files'[k] = files[k] /\ status'[k] = status[k] /\ upload'[k] = upload[k]
      BY <2>6, <3>1 DEF MarkCompleted
    <3>3. /\ files'[j] = files[j] /\ files[j] # <<>> /\ files[j][Len(files[j])] = "UPLOADED"
          /\ upload'[j] = Len(files[j]) /\ Len(files[j]) # 0 /\ status'[j] = "COMPLETED"
      BY <2>6, <3>1 DEF MarkCompleted
    <3>4. FilesAreCurrent /\ UploadIsStored /\ upload[j] \in Nat /\ Len(files[j]) \in Nat
      BY <3>1
    <3>5. \A v \in Workers : worker[v].step # "idle" => worker[v].job \in Jobs
      BY HasJob
    <3> HIDE DEF IInv, TypeOK, Ordered, j
    <3>6. FilesAreCurrent'
      BY <3>1, <3>2, <3>3, <3>4, <3>5
    <3>7. UploadIsStored'
      BY <3>1, <3>2, <3>3, <3>4
    <3> QED
      BY <3>6, <3>7
  <2>7. ASSUME Throws(w) PROVE Goal
    BY <2>7 DEF Throws, SomethingFails, Goes
  <2>8. ASSUME FailAsyncExportJob(w) PROVE Goal
    <3> DEFINE j == worker[w].job
    <3>1. /\ j \in Jobs /\ worker'[w].step = "failed" /\ worker'[w].job = j
          /\ \A v \in Workers \ {w} : worker'[v] = worker[v] /\ worker[v].job # j
      <4>1. worker[w].step # "idle" /\ Goes(w, "failed")
        BY <2>8 DEF FailAsyncExportJob
      <4> HIDE DEF IInv, TypeOK, Ordered, FilesAreCurrent
      <4> QED
        BY <4>1, WorkerGoes
    <3>2. \A k \in Jobs \ {j} :
             files'[k] = files[k] /\ status'[k] = status[k] /\ upload'[k] = upload[k]
      BY <2>8, <3>1 DEF FailAsyncExportJob, MarkFailed
    <3>3. files'[j] = files[j] /\ upload'[j] = upload[j] /\ status'[j] = "FAILED"
      BY <2>8, <3>1 DEF FailAsyncExportJob, MarkFailed
    <3>4. FilesAreCurrent /\ UploadIsStored /\ upload[j] \in Nat /\ Len(files[j]) \in Nat
      BY <3>1
    <3>5. \A v \in Workers : worker[v].step # "idle" => worker[v].job \in Jobs
      BY HasJob
    <3> HIDE DEF IInv, TypeOK, Ordered, j
    <3>6. FilesAreCurrent'
      BY <3>1, <3>2, <3>3, <3>4, <3>5
    <3>7. UploadIsStored'
      BY <3>1, <3>2, <3>3, <3>4
    <3> QED
      BY <3>6, <3>7
  <2>9. ASSUME FailAsyncExportJobFails(w) PROVE Goal
    BY <2>9 DEF FailAsyncExportJobFails, SomethingFails, Goes
  <2>10. ASSUME Acknowledge(w) PROVE Goal
    BY <2>10 DEF Acknowledge
  <2>11. ASSUME RetryOrGiveUp(w) PROVE Goal
    <3>1. /\ UNCHANGED <<files, status, upload>>
          /\ worker'[w] = Idle
          /\ \A v \in Workers \ {w} : worker'[v] = worker[v]
      BY <2>11 DEF RetryOrGiveUp
    <3>2. FilesAreCurrent /\ UploadIsStored
      OBVIOUS
    <3> HIDE DEF IInv, TypeOK, Ordered
    <3>3. FilesAreCurrent'
      BY <3>1, <3>2
    <3>4. UploadIsStored'
      BY <3>1, <3>2
    <3> QED
      BY <3>3, <3>4
  <2> QED
    BY <1>2, <2>1, <2>2, <2>3, <2>4, <2>5, <2>6, <2>7, <2>8, <2>9, <2>10, <2>11,
       Zenon DEF Works
<1>3. ASSUME NEW j \in Jobs, Stalls(j) PROVE Goal
  BY <1>3 DEF Stalls
<1>4. ASSUME NEW j \in Jobs, NEW w \in Workers, Take(w, j) PROVE Goal
  BY <1>4 DEF Take
<1>5. ASSUME NEW w \in Workers, Crash(w) PROVE Goal
  BY <1>5 DEF Crash
<1>6. ASSUME UNCHANGED vars PROVE Goal
  BY <1>6 DEF vars
<1> QED
  BY <1>1, <1>2, <1>3, <1>4, <1>5, <1>6, Zenon DEF Next

\* Attempts and stalls are paid for with errors and crashes, of which there are
\* too few for the queue to give up on a row that says anything else.
LEMMA FaultsStep ==
    ASSUME IInv, [Next]_vars PROVE FaultsAreSpent' /\ QueueAgreesWithRow'
<1> DEFINE Goal == FaultsAreSpent' /\ QueueAgreesWithRow'
<1> USE DEF IInv, TypeOK, Ordered, FilesAreCurrent, FaultsAreSpent, QueueAgreesWithRow,
            WorkerStep, Idle, rowVars, requestVars, pollVars, queueVars, budgetVars
<1>1. ASSUME NEW j \in Jobs, Asks(j) PROVE Goal
  <2>1. ASSUME CreateJob(j) PROVE Goal
    BY <2>1 DEF CreateJob
  <2>2. ASSUME BuildFile(j) PROVE Goal
    BY <2>2 DEF BuildFile
  <2>3. ASSUME RecordRequested(j) PROVE Goal
    BY <2>3 DEF RecordRequested
  <2>4. ASSUME AnswerWithFile(j) PROVE Goal
    BY <2>4 DEF AnswerWithFile
  <2>5. ASSUME Enqueue(j) PROVE Goal
    BY <2>5 DEF Enqueue
  <2>6. ASSUME EnqueueFails(j) PROVE Goal
    <3>1. /\ UNCHANGED <<worker, attempts, stalled, queue, crashes>>
          /\ \A k \in Jobs \ {j} : status'[k] = status[k]
          /\ errors' = errors + 1 /\ errors' <= MaxErrors /\ queue[j] = "none"
      BY <2>6, SMTT(30) DEF EnqueueFails, MarkFailed, SomethingFails
    <3>2. \A w \in Workers : worker[w].step # "idle" => worker[w].job \in Jobs \ {j}
      BY <2>6, HasJob DEF EnqueueFails
    <3>3. /\ FaultsAreSpent /\ QueueAgreesWithRow /\ errors \in Nat /\ crashes \in Nat
          /\ \A k \in Jobs : attempts[k] \in Nat /\ stalled[k] \in Nat
      OBVIOUS
    <3> HIDE DEF IInv, TypeOK, Ordered, FilesAreCurrent
    <3> QED
      BY <3>1, <3>2, <3>3
  <2>7. ASSUME RequestDies(j) PROVE Goal
    BY <2>7 DEF RequestDies
  <2>8. ASSUME ReadStatus(j) PROVE Goal
    BY <2>8 DEF ReadStatus
  <2>9. ASSUME StoreLink(j) PROVE Goal
    BY <2>9 DEF StoreLink
  <2>10. ASSUME LinkExpires(j) PROVE Goal
    BY <2>10 DEF LinkExpires
  <2>11. ASSUME ResolveDownload(j) PROVE Goal
    BY <2>11 DEF ResolveDownload
  <2> QED
    BY <1>1, <2>1, <2>2, <2>3, <2>4, <2>5, <2>6, <2>7, <2>8, <2>9, <2>10, <2>11,
       Zenon DEF Asks
<1>2. ASSUME NEW w \in Workers, Works(w) PROVE Goal
  <2>1. ASSUME MarkProcessing(w) PROVE Goal
    <3> DEFINE j == worker[w].job
    <3>1. /\ j \in Jobs /\ worker'[w].step = "render" /\ queue[j] = "active"
          /\ \A v \in Workers \ {w} : worker'[v] = worker[v] /\ worker[v].job # j
          /\ \A v \in Workers : worker'[v].job = worker[v].job
      <4>1. worker[w].step # "idle" /\ Goes(w, "render")
        BY <2>1 DEF MarkProcessing
      <4> HIDE DEF IInv, TypeOK, Ordered, FilesAreCurrent
      <4> QED
        BY <4>1, WorkerGoes
    <3>2. \A k \in Jobs \ {j} : status'[k] = status[k]
      BY <2>1, <3>1 DEF MarkProcessing
    <3>3. /\ UNCHANGED <<attempts, stalled, queue, crashes>>
          /\ errors' = errors
      BY <2>1, <3>1 DEF MarkProcessing
    <3>4. /\ FaultsAreSpent /\ QueueAgreesWithRow /\ errors \in Nat /\ crashes \in Nat
          /\ \A k \in Jobs : attempts[k] \in Nat /\ stalled[k] \in Nat
          /\ \A v \in Workers : worker[v].step # "idle" => worker[v].job \in Jobs
      BY HasJob
    <3> HIDE DEF IInv, TypeOK, Ordered, FilesAreCurrent, FaultsAreSpent, j
    <3>5. FaultsAreSpent'
      <4>1. ASSUME NEW v \in Workers
            PROVE  /\ worker'[v].step \in {"failing", "failed"} =>
                         attempts'[worker'[v].job] + 1 <= errors'
                   /\ worker'[v].step = "failed" /\ status'[worker'[v].job] # "FAILED" =>
                         attempts'[worker'[v].job] + 2 <= errors'
        <5>1. CASE v = w
          BY <3>1, <3>2, <3>3, <3>4, <5>1 DEF FaultsAreSpent, j
        <5>2. CASE v # w
          BY <3>1, <3>2, <3>3, <3>4, <5>2 DEF FaultsAreSpent
        <5> QED
          BY <5>1, <5>2
      <4>2. ASSUME NEW k \in Jobs
            PROVE  /\ attempts'[k] <= errors' /\ stalled'[k] <= crashes'
                   /\ queue'[k] = "active" /\ (\A v \in Workers : worker'[v].job # k)
                         => stalled'[k] < crashes'
        BY <3>1, <3>3, <3>4 DEF FaultsAreSpent
      <4>3. errors' <= MaxErrors /\ crashes' <= MaxCrashes
        BY <3>3, <3>4 DEF FaultsAreSpent
      <4> QED
        BY <4>1, <4>2, <4>3 DEF FaultsAreSpent
    <3>6. QueueAgreesWithRow'
      BY <3>1, <3>2, <3>3, <3>4
    <3> QED
      BY <3>5, <3>6
  <2>2. ASSUME CreateFile(w) PROVE Goal
    <3> DEFINE j == worker[w].job
    <3>1. /\ j \in Jobs /\ worker'[w].step = "put" /\ queue[j] = "active"
          /\ \A v \in Workers \ {w} : worker'[v] = worker[v] /\ worker[v].job # j
          /\ \A v \in Workers : worker'[v].job = worker[v].job
      <4>1. worker[w].step # "idle" /\ Goes(w, "put")
        BY <2>2 DEF CreateFile
      <4> HIDE DEF IInv, TypeOK, Ordered, FilesAreCurrent
      <4> QED
        BY <4>1, WorkerGoes
    <3>2. \A k \in Jobs \ {j} : status'[k] = status[k]
      BY <2>2, <3>1 DEF CreateFile
    <3>3. /\ UNCHANGED <<attempts, stalled, queue, crashes>>
          /\ errors' = errors /\ status' = status
      BY <2>2, <3>1 DEF CreateFile
    <3>4. /\ FaultsAreSpent /\ QueueAgreesWithRow /\ errors \in Nat /\ crashes \in Nat
          /\ \A k \in Jobs : attempts[k] \in Nat /\ stalled[k] \in Nat
          /\ \A v \in Workers : worker[v].step # "idle" => worker[v].job \in Jobs
      BY HasJob
    <3> HIDE DEF IInv, TypeOK, Ordered, FilesAreCurrent, FaultsAreSpent, j
    <3>5. FaultsAreSpent'
      <4>1. ASSUME NEW v \in Workers
            PROVE  /\ worker'[v].step \in {"failing", "failed"} =>
                         attempts'[worker'[v].job] + 1 <= errors'
                   /\ worker'[v].step = "failed" /\ status'[worker'[v].job] # "FAILED" =>
                         attempts'[worker'[v].job] + 2 <= errors'
        <5>1. CASE v = w
          BY <3>1, <3>2, <3>3, <3>4, <5>1 DEF FaultsAreSpent, j
        <5>2. CASE v # w
          BY <3>1, <3>2, <3>3, <3>4, <5>2 DEF FaultsAreSpent
        <5> QED
          BY <5>1, <5>2
      <4>2. ASSUME NEW k \in Jobs
            PROVE  /\ attempts'[k] <= errors' /\ stalled'[k] <= crashes'
                   /\ queue'[k] = "active" /\ (\A v \in Workers : worker'[v].job # k)
                         => stalled'[k] < crashes'
        BY <3>1, <3>3, <3>4 DEF FaultsAreSpent
      <4>3. errors' <= MaxErrors /\ crashes' <= MaxCrashes
        BY <3>3, <3>4 DEF FaultsAreSpent
      <4> QED
        BY <4>1, <4>2, <4>3 DEF FaultsAreSpent
    <3>6. QueueAgreesWithRow'
      BY <3>1, <3>2, <3>3, <3>4
    <3> QED
      BY <3>5, <3>6
  <2>3. ASSUME PutObject(w) PROVE Goal
    <3> DEFINE j == worker[w].job
    <3>1. /\ j \in Jobs /\ worker'[w].step = "finalize" /\ queue[j] = "active"
          /\ \A v \in Workers \ {w} : worker'[v] = worker[v] /\ worker[v].job # j
          /\ \A v \in Workers : worker'[v].job = worker[v].job
      <4>1. worker[w].step # "idle" /\ Goes(w, "finalize")
        BY <2>3 DEF PutObject
      <4> HIDE DEF IInv, TypeOK, Ordered, FilesAreCurrent
      <4> QED
        BY <4>1, WorkerGoes
    <3>2. \A k \in Jobs \ {j} : status'[k] = status[k]
      BY <2>3, <3>1 DEF PutObject
    <3>3. /\ UNCHANGED <<attempts, stalled, queue, crashes>>
          /\ errors' = errors /\ status' = status
      BY <2>3, <3>1 DEF PutObject
    <3>4. /\ FaultsAreSpent /\ QueueAgreesWithRow /\ errors \in Nat /\ crashes \in Nat
          /\ \A k \in Jobs : attempts[k] \in Nat /\ stalled[k] \in Nat
          /\ \A v \in Workers : worker[v].step # "idle" => worker[v].job \in Jobs
      BY HasJob
    <3> HIDE DEF IInv, TypeOK, Ordered, FilesAreCurrent, FaultsAreSpent, j
    <3>5. FaultsAreSpent'
      <4>1. ASSUME NEW v \in Workers
            PROVE  /\ worker'[v].step \in {"failing", "failed"} =>
                         attempts'[worker'[v].job] + 1 <= errors'
                   /\ worker'[v].step = "failed" /\ status'[worker'[v].job] # "FAILED" =>
                         attempts'[worker'[v].job] + 2 <= errors'
        <5>1. CASE v = w
          BY <3>1, <3>2, <3>3, <3>4, <5>1 DEF FaultsAreSpent, j
        <5>2. CASE v # w
          BY <3>1, <3>2, <3>3, <3>4, <5>2 DEF FaultsAreSpent
        <5> QED
          BY <5>1, <5>2
      <4>2. ASSUME NEW k \in Jobs
            PROVE  /\ attempts'[k] <= errors' /\ stalled'[k] <= crashes'
                   /\ queue'[k] = "active" /\ (\A v \in Workers : worker'[v].job # k)
                         => stalled'[k] < crashes'
        BY <3>1, <3>3, <3>4 DEF FaultsAreSpent
      <4>3. errors' <= MaxErrors /\ crashes' <= MaxCrashes
        BY <3>3, <3>4 DEF FaultsAreSpent
      <4> QED
        BY <4>1, <4>2, <4>3 DEF FaultsAreSpent
    <3>6. QueueAgreesWithRow'
      BY <3>1, <3>2, <3>3, <3>4
    <3> QED
      BY <3>5, <3>6
  <2>4. ASSUME PutObjectFails(w) PROVE Goal
    <3> DEFINE j == worker[w].job
    <3>1. /\ j \in Jobs /\ worker'[w].step = "failing" /\ queue[j] = "active"
          /\ \A v \in Workers \ {w} : worker'[v] = worker[v] /\ worker[v].job # j
          /\ \A v \in Workers : worker'[v].job = worker[v].job
      <4>1. worker[w].step # "idle" /\ Goes(w, "failing")
        BY <2>4 DEF PutObjectFails
      <4> HIDE DEF IInv, TypeOK, Ordered, FilesAreCurrent
      <4> QED
        BY <4>1, WorkerGoes
    <3>2. \A k \in Jobs \ {j} : status'[k] = status[k]
      BY <2>4, <3>1 DEF PutObjectFails
    <3>3. /\ UNCHANGED <<attempts, stalled, queue, crashes>>
          /\ errors' = errors + 1 /\ errors' <= MaxErrors /\ status' = status
      BY <2>4, <3>1 DEF PutObjectFails, SomethingFails
    <3>4. /\ FaultsAreSpent /\ QueueAgreesWithRow /\ errors \in Nat /\ crashes \in Nat
          /\ \A k \in Jobs : attempts[k] \in Nat /\ stalled[k] \in Nat
          /\ \A v \in Workers : worker[v].step # "idle" => worker[v].job \in Jobs
      BY HasJob
    <3> HIDE DEF IInv, TypeOK, Ordered, FilesAreCurrent, FaultsAreSpent, j
    <3>5. FaultsAreSpent'
      <4>1. ASSUME NEW v \in Workers
            PROVE  /\ worker'[v].step \in {"failing", "failed"} =>
                         attempts'[worker'[v].job] + 1 <= errors'
                   /\ worker'[v].step = "failed" /\ status'[worker'[v].job] # "FAILED" =>
                         attempts'[worker'[v].job] + 2 <= errors'
        <5>1. CASE v = w
          BY <3>1, <3>2, <3>3, <3>4, <5>1 DEF FaultsAreSpent, j
        <5>2. CASE v # w
          BY <3>1, <3>2, <3>3, <3>4, <5>2 DEF FaultsAreSpent
        <5> QED
          BY <5>1, <5>2
      <4>2. ASSUME NEW k \in Jobs
            PROVE  /\ attempts'[k] <= errors' /\ stalled'[k] <= crashes'
                   /\ queue'[k] = "active" /\ (\A v \in Workers : worker'[v].job # k)
                         => stalled'[k] < crashes'
        BY <3>1, <3>3, <3>4 DEF FaultsAreSpent
      <4>3. errors' <= MaxErrors /\ crashes' <= MaxCrashes
        BY <3>3, <3>4 DEF FaultsAreSpent
      <4> QED
        BY <4>1, <4>2, <4>3 DEF FaultsAreSpent
    <3>6. QueueAgreesWithRow'
      BY <3>1, <3>2, <3>3, <3>4
    <3> QED
      BY <3>5, <3>6
  <2>5. ASSUME MarkUploaded(w) PROVE Goal
    <3> DEFINE j == worker[w].job
    <3>1. /\ j \in Jobs /\ worker'[w].step = "complete" /\ queue[j] = "active"
          /\ \A v \in Workers \ {w} : worker'[v] = worker[v] /\ worker[v].job # j
          /\ \A v \in Workers : worker'[v].job = worker[v].job
      <4>1. worker[w].step # "idle" /\ Goes(w, "complete")
        BY <2>5 DEF MarkUploaded
      <4> HIDE DEF IInv, TypeOK, Ordered, FilesAreCurrent
      <4> QED
        BY <4>1, WorkerGoes
    <3>2. \A k \in Jobs \ {j} : status'[k] = status[k]
      BY <2>5, <3>1 DEF MarkUploaded
    <3>3. /\ UNCHANGED <<attempts, stalled, queue, crashes>>
          /\ errors' = errors /\ status' = status
      BY <2>5, <3>1 DEF MarkUploaded
    <3>4. /\ FaultsAreSpent /\ QueueAgreesWithRow /\ errors \in Nat /\ crashes \in Nat
          /\ \A k \in Jobs : attempts[k] \in Nat /\ stalled[k] \in Nat
          /\ \A v \in Workers : worker[v].step # "idle" => worker[v].job \in Jobs
      BY HasJob
    <3> HIDE DEF IInv, TypeOK, Ordered, FilesAreCurrent, FaultsAreSpent, j
    <3>5. FaultsAreSpent'
      <4>1. ASSUME NEW v \in Workers
            PROVE  /\ worker'[v].step \in {"failing", "failed"} =>
                         attempts'[worker'[v].job] + 1 <= errors'
                   /\ worker'[v].step = "failed" /\ status'[worker'[v].job] # "FAILED" =>
                         attempts'[worker'[v].job] + 2 <= errors'
        <5>1. CASE v = w
          BY <3>1, <3>2, <3>3, <3>4, <5>1 DEF FaultsAreSpent, j
        <5>2. CASE v # w
          BY <3>1, <3>2, <3>3, <3>4, <5>2 DEF FaultsAreSpent
        <5> QED
          BY <5>1, <5>2
      <4>2. ASSUME NEW k \in Jobs
            PROVE  /\ attempts'[k] <= errors' /\ stalled'[k] <= crashes'
                   /\ queue'[k] = "active" /\ (\A v \in Workers : worker'[v].job # k)
                         => stalled'[k] < crashes'
        BY <3>1, <3>3, <3>4 DEF FaultsAreSpent
      <4>3. errors' <= MaxErrors /\ crashes' <= MaxCrashes
        BY <3>3, <3>4 DEF FaultsAreSpent
      <4> QED
        BY <4>1, <4>2, <4>3 DEF FaultsAreSpent
    <3>6. QueueAgreesWithRow'
      BY <3>1, <3>2, <3>3, <3>4
    <3> QED
      BY <3>5, <3>6
  <2>6. ASSUME MarkCompleted(w) PROVE Goal
    <3> DEFINE j == worker[w].job
    <3>1. /\ j \in Jobs /\ worker'[w].step = "completed" /\ queue[j] = "active"
          /\ \A v \in Workers \ {w} : worker'[v] = worker[v] /\ worker[v].job # j
          /\ \A v \in Workers : worker'[v].job = worker[v].job
      <4>1. worker[w].step # "idle" /\ Goes(w, "completed")
        BY <2>6 DEF MarkCompleted
      <4> HIDE DEF IInv, TypeOK, Ordered, FilesAreCurrent
      <4> QED
        BY <4>1, WorkerGoes
    <3>2. \A k \in Jobs \ {j} : status'[k] = status[k]
      BY <2>6, <3>1 DEF MarkCompleted
    <3>3. /\ UNCHANGED <<attempts, stalled, queue, crashes>>
          /\ errors' = errors
      BY <2>6, <3>1 DEF MarkCompleted
    <3>4. /\ FaultsAreSpent /\ QueueAgreesWithRow /\ errors \in Nat /\ crashes \in Nat
          /\ \A k \in Jobs : attempts[k] \in Nat /\ stalled[k] \in Nat
          /\ \A v \in Workers : worker[v].step # "idle" => worker[v].job \in Jobs
      BY HasJob
    <3> HIDE DEF IInv, TypeOK, Ordered, FilesAreCurrent, FaultsAreSpent, j
    <3>5. FaultsAreSpent'
      <4>1. ASSUME NEW v \in Workers
            PROVE  /\ worker'[v].step \in {"failing", "failed"} =>
                         attempts'[worker'[v].job] + 1 <= errors'
                   /\ worker'[v].step = "failed" /\ status'[worker'[v].job] # "FAILED" =>
                         attempts'[worker'[v].job] + 2 <= errors'
        <5>1. CASE v = w
          BY <3>1, <3>2, <3>3, <3>4, <5>1 DEF FaultsAreSpent, j
        <5>2. CASE v # w
          BY <3>1, <3>2, <3>3, <3>4, <5>2 DEF FaultsAreSpent
        <5> QED
          BY <5>1, <5>2
      <4>2. ASSUME NEW k \in Jobs
            PROVE  /\ attempts'[k] <= errors' /\ stalled'[k] <= crashes'
                   /\ queue'[k] = "active" /\ (\A v \in Workers : worker'[v].job # k)
                         => stalled'[k] < crashes'
        BY <3>1, <3>3, <3>4 DEF FaultsAreSpent
      <4>3. errors' <= MaxErrors /\ crashes' <= MaxCrashes
        BY <3>3, <3>4 DEF FaultsAreSpent
      <4> QED
        BY <4>1, <4>2, <4>3 DEF FaultsAreSpent
    <3>6. QueueAgreesWithRow'
      BY <3>1, <3>2, <3>3, <3>4
    <3> QED
      BY <3>5, <3>6
  <2>7. ASSUME Throws(w) PROVE Goal
    <3> DEFINE j == worker[w].job
    <3>1. /\ j \in Jobs /\ worker'[w].step = "failing" /\ queue[j] = "active"
          /\ \A v \in Workers \ {w} : worker'[v] = worker[v] /\ worker[v].job # j
          /\ \A v \in Workers : worker'[v].job = worker[v].job
      <4>1. worker[w].step # "idle" /\ Goes(w, "failing")
        BY <2>7 DEF Throws
      <4> HIDE DEF IInv, TypeOK, Ordered, FilesAreCurrent
      <4> QED
        BY <4>1, WorkerGoes
    <3>2. \A k \in Jobs \ {j} : status'[k] = status[k]
      BY <2>7, <3>1 DEF Throws
    <3>3. /\ UNCHANGED <<attempts, stalled, queue, crashes>>
          /\ errors' = errors + 1 /\ errors' <= MaxErrors /\ status' = status
      BY <2>7, <3>1 DEF Throws, SomethingFails
    <3>4. /\ FaultsAreSpent /\ QueueAgreesWithRow /\ errors \in Nat /\ crashes \in Nat
          /\ \A k \in Jobs : attempts[k] \in Nat /\ stalled[k] \in Nat
          /\ \A v \in Workers : worker[v].step # "idle" => worker[v].job \in Jobs
      BY HasJob
    <3> HIDE DEF IInv, TypeOK, Ordered, FilesAreCurrent, FaultsAreSpent, j
    <3>5. FaultsAreSpent'
      <4>1. ASSUME NEW v \in Workers
            PROVE  /\ worker'[v].step \in {"failing", "failed"} =>
                         attempts'[worker'[v].job] + 1 <= errors'
                   /\ worker'[v].step = "failed" /\ status'[worker'[v].job] # "FAILED" =>
                         attempts'[worker'[v].job] + 2 <= errors'
        <5>1. CASE v = w
          BY <3>1, <3>2, <3>3, <3>4, <5>1 DEF FaultsAreSpent, j
        <5>2. CASE v # w
          BY <3>1, <3>2, <3>3, <3>4, <5>2 DEF FaultsAreSpent
        <5> QED
          BY <5>1, <5>2
      <4>2. ASSUME NEW k \in Jobs
            PROVE  /\ attempts'[k] <= errors' /\ stalled'[k] <= crashes'
                   /\ queue'[k] = "active" /\ (\A v \in Workers : worker'[v].job # k)
                         => stalled'[k] < crashes'
        BY <3>1, <3>3, <3>4 DEF FaultsAreSpent
      <4>3. errors' <= MaxErrors /\ crashes' <= MaxCrashes
        BY <3>3, <3>4 DEF FaultsAreSpent
      <4> QED
        BY <4>1, <4>2, <4>3 DEF FaultsAreSpent
    <3>6. QueueAgreesWithRow'
      BY <3>1, <3>2, <3>3, <3>4
    <3> QED
      BY <3>5, <3>6
  <2>8. ASSUME FailAsyncExportJob(w) PROVE Goal
    <3> DEFINE j == worker[w].job
    <3>1. /\ j \in Jobs /\ worker'[w].step = "failed" /\ queue[j] = "active"
          /\ \A v \in Workers \ {w} : worker'[v] = worker[v] /\ worker[v].job # j
          /\ \A v \in Workers : worker'[v].job = worker[v].job
      <4>1. worker[w].step # "idle" /\ Goes(w, "failed")
        BY <2>8 DEF FailAsyncExportJob
      <4> HIDE DEF IInv, TypeOK, Ordered, FilesAreCurrent
      <4> QED
        BY <4>1, WorkerGoes
    <3>2. \A k \in Jobs \ {j} : status'[k] = status[k]
      BY <2>8, <3>1 DEF FailAsyncExportJob, MarkFailed
    <3>3. /\ UNCHANGED <<attempts, stalled, queue, crashes>>
          /\ errors' = errors /\ status'[j] = "FAILED" /\ worker[w].step = "failing"
      BY <2>8, <3>1 DEF FailAsyncExportJob, MarkFailed
    <3>4. /\ FaultsAreSpent /\ QueueAgreesWithRow /\ errors \in Nat /\ crashes \in Nat
          /\ \A k \in Jobs : attempts[k] \in Nat /\ stalled[k] \in Nat
          /\ \A v \in Workers : worker[v].step # "idle" => worker[v].job \in Jobs
      BY HasJob
    <3> HIDE DEF IInv, TypeOK, Ordered, FilesAreCurrent, FaultsAreSpent, j
    <3>5. FaultsAreSpent'
      <4>1. ASSUME NEW v \in Workers
            PROVE  /\ worker'[v].step \in {"failing", "failed"} =>
                         attempts'[worker'[v].job] + 1 <= errors'
                   /\ worker'[v].step = "failed" /\ status'[worker'[v].job] # "FAILED" =>
                         attempts'[worker'[v].job] + 2 <= errors'
        <5>1. CASE v = w
          BY <3>1, <3>2, <3>3, <3>4, <5>1 DEF FaultsAreSpent, j
        <5>2. CASE v # w
          BY <3>1, <3>2, <3>3, <3>4, <5>2 DEF FaultsAreSpent
        <5> QED
          BY <5>1, <5>2
      <4>2. ASSUME NEW k \in Jobs
            PROVE  /\ attempts'[k] <= errors' /\ stalled'[k] <= crashes'
                   /\ queue'[k] = "active" /\ (\A v \in Workers : worker'[v].job # k)
                         => stalled'[k] < crashes'
        BY <3>1, <3>3, <3>4 DEF FaultsAreSpent
      <4>3. errors' <= MaxErrors /\ crashes' <= MaxCrashes
        BY <3>3, <3>4 DEF FaultsAreSpent
      <4> QED
        BY <4>1, <4>2, <4>3 DEF FaultsAreSpent
    <3>6. QueueAgreesWithRow'
      BY <3>1, <3>2, <3>3, <3>4
    <3> QED
      BY <3>5, <3>6
  <2>9. ASSUME FailAsyncExportJobFails(w) PROVE Goal
    <3> DEFINE j == worker[w].job
    <3>1. /\ j \in Jobs /\ worker'[w].step = "failed" /\ queue[j] = "active"
          /\ \A v \in Workers \ {w} : worker'[v] = worker[v] /\ worker[v].job # j
          /\ \A v \in Workers : worker'[v].job = worker[v].job
      <4>1. worker[w].step # "idle" /\ Goes(w, "failed")
        BY <2>9 DEF FailAsyncExportJobFails
      <4> HIDE DEF IInv, TypeOK, Ordered, FilesAreCurrent
      <4> QED
        BY <4>1, WorkerGoes
    <3>2. \A k \in Jobs \ {j} : status'[k] = status[k]
      BY <2>9, <3>1 DEF FailAsyncExportJobFails
    <3>3. /\ UNCHANGED <<attempts, stalled, queue, crashes>>
          /\ errors' = errors + 1 /\ errors' <= MaxErrors /\ status' = status
          /\ worker[w].step = "failing"
      BY <2>9, <3>1 DEF FailAsyncExportJobFails, SomethingFails
    <3>4. /\ FaultsAreSpent /\ QueueAgreesWithRow /\ errors \in Nat /\ crashes \in Nat
          /\ \A k \in Jobs : attempts[k] \in Nat /\ stalled[k] \in Nat
          /\ \A v \in Workers : worker[v].step # "idle" => worker[v].job \in Jobs
      BY HasJob
    <3> HIDE DEF IInv, TypeOK, Ordered, FilesAreCurrent, FaultsAreSpent, j
    <3>5. FaultsAreSpent'
      <4>1. ASSUME NEW v \in Workers
            PROVE  /\ worker'[v].step \in {"failing", "failed"} =>
                         attempts'[worker'[v].job] + 1 <= errors'
                   /\ worker'[v].step = "failed" /\ status'[worker'[v].job] # "FAILED" =>
                         attempts'[worker'[v].job] + 2 <= errors'
        <5>1. CASE v = w
          BY <3>1, <3>2, <3>3, <3>4, <5>1 DEF FaultsAreSpent, j
        <5>2. CASE v # w
          BY <3>1, <3>2, <3>3, <3>4, <5>2 DEF FaultsAreSpent
        <5> QED
          BY <5>1, <5>2
      <4>2. ASSUME NEW k \in Jobs
            PROVE  /\ attempts'[k] <= errors' /\ stalled'[k] <= crashes'
                   /\ queue'[k] = "active" /\ (\A v \in Workers : worker'[v].job # k)
                         => stalled'[k] < crashes'
        BY <3>1, <3>3, <3>4 DEF FaultsAreSpent
      <4>3. errors' <= MaxErrors /\ crashes' <= MaxCrashes
        BY <3>3, <3>4 DEF FaultsAreSpent
      <4> QED
        BY <4>1, <4>2, <4>3 DEF FaultsAreSpent
    <3>6. QueueAgreesWithRow'
      BY <3>1, <3>2, <3>3, <3>4
    <3> QED
      BY <3>5, <3>6
  <2>10. ASSUME Acknowledge(w) PROVE Goal
    BY <2>10, SMTT(30) DEF Acknowledge
  <2>11. ASSUME RetryOrGiveUp(w) PROVE Goal
    <3> DEFINE j == worker[w].job
    <3>1. /\ j \in Jobs /\ worker'[w].step = "idle" /\ worker[w].step = "failed"
          /\ \A v \in Workers \ {w} : worker'[v] = worker[v] /\ worker[v].job # j
      BY <2>11 DEF RetryOrGiveUp
    <3>2. \A k \in Jobs \ {j} : attempts'[k] = attempts[k] /\ queue'[k] = queue[k]
      BY <2>11, <3>1 DEF RetryOrGiveUp
    <3>3. /\ UNCHANGED <<status, stalled, errors, crashes>>
          /\ attempts'[j] = attempts[j] + 1
          /\ attempts[j] + 1 < MaxAttempts => queue'[j] = "waiting"
          /\ attempts[j] + 1 >= MaxAttempts => queue'[j] = "failed"
      BY <2>11, <3>1 DEF RetryOrGiveUp
    <3>4. /\ FaultsAreSpent /\ QueueAgreesWithRow /\ errors \in Nat /\ crashes \in Nat
          /\ \A k \in Jobs : attempts[k] \in Nat /\ stalled[k] \in Nat
          /\ \A v \in Workers : worker[v].step # "idle" => worker[v].job \in Jobs
      BY HasJob
    <3> HIDE DEF IInv, TypeOK, Ordered, FilesAreCurrent
    <3>5. attempts[j] + 1 >= MaxAttempts => status[j] = "FAILED"
      BY <3>1, <3>4
    <3> HIDE DEF j
    <3>6. FaultsAreSpent'
      BY <3>1, <3>2, <3>3, <3>4 DEF j
    <3>7. QueueAgreesWithRow'
      BY <3>1, <3>2, <3>3, <3>4, <3>5
    <3> QED
      BY <3>6, <3>7
  <2> QED
    BY <1>2, <2>1, <2>2, <2>3, <2>4, <2>5, <2>6, <2>7, <2>8, <2>9, <2>10, <2>11,
       Zenon DEF Works
<1>3. ASSUME NEW j \in Jobs, Stalls(j) PROVE Goal
  <2>1. /\ UNCHANGED <<status, attempts, worker, errors, crashes>>
        /\ \A k \in Jobs \ {j} : stalled'[k] = stalled[k] /\ queue'[k] = queue[k]
        /\ stalled'[j] = stalled[j] + 1
        /\ stalled[j] < StalledLimit => queue'[j] = "waiting"
        /\ queue[j] = "active" /\ \A w \in Workers : worker[w].job # j
    BY <1>3 DEF Stalls
  <2>2. /\ FaultsAreSpent /\ QueueAgreesWithRow /\ errors \in Nat /\ crashes \in Nat
        /\ \A k \in Jobs : attempts[k] \in Nat /\ stalled[k] \in Nat
    OBVIOUS
  <2> HIDE DEF IInv, TypeOK, Ordered, FilesAreCurrent
  <2>3. stalled[j] < crashes /\ queue'[j] = "waiting"
    BY <2>1, <2>2
  <2>4. FaultsAreSpent'
    BY <2>1, <2>2, <2>3
  <2>5. QueueAgreesWithRow'
    BY <2>1, <2>2, <2>3
  <2> QED
    BY <2>4, <2>5
<1>4. ASSUME NEW j \in Jobs, NEW w \in Workers, Take(w, j) PROVE Goal
  <2>1. FaultsAreSpent'
    BY <1>4, SMTT(60) DEF Take
  <2>2. QueueAgreesWithRow'
    BY <1>4, SMTT(60) DEF Take
  <2> QED
    BY <2>1, <2>2
<1>5. ASSUME NEW w \in Workers, Crash(w) PROVE Goal
  <2>1. FaultsAreSpent'
    BY <1>5, SMTT(60) DEF Crash
  <2>2. QueueAgreesWithRow'
    BY <1>5, SMTT(60) DEF Crash
  <2> QED
    BY <2>1, <2>2
<1>6. ASSUME UNCHANGED vars PROVE Goal
  BY <1>6 DEF vars
<1> QED
  BY <1>1, <1>2, <1>3, <1>4, <1>5, <1>6, Zenon DEF Next

\* The inductive invariant.
LEMMA IInvHolds == Spec => []IInv
<1>1. IInv /\ [Next]_vars => IInv'
  BY TypeStep, OrderStep, FilesStep, FaultsStep, Zenon DEF IInv
<1> QED
  BY InitHolds, <1>1, PTL DEF Spec

\* The columns and the queue keep their types.
THEOREM TypesHold == Spec => []TypeOK
<1>1. IInv => TypeOK
  BY DEF IInv
<1> QED
  BY IInvHolds, <1>1, PTL

\* No report leaves the system without an audit event.
THEOREM EveryReportIsAudited == Spec => []NothingLeavesUnaudited
<1>1. IInv => NothingLeavesUnaudited
  BY DEF IInv
<1> QED
  BY IInvHolds, <1>1, PTL

\* The file of a completed export was stored in full.
THEOREM ExportsAreStored == Spec => []UploadIsStored
<1>1. IInv => UploadIsStored
  BY DEF IInv
<1> QED
  BY IInvHolds, <1>1, PTL

\* The row and the queue agree on how an export ended.
THEOREM RowFollowsQueue == Spec => []QueueAgreesWithRow
<1>1. IInv => QueueAgreesWithRow
  BY DEF IInv
<1> QED
  BY IInvHolds, <1>1, PTL

-----------------------------------------------------------------------------
(***************************************************************************)
(* The promise of an export                                                *)
(***************************************************************************)

\* Nothing has happened to any export.
LEMMA PromiseInit == Init => Promise!Init
  BY DEF Init, Promise!Init, Outcome

\* The queue has finished only with jobs whose row says how they ended.
LEMMA OutcomeValues ==
    ASSUME IInv, NEW j \in Jobs
    PROVE  /\ queue[j] = "none" => Outcome[j] = "none"
           /\ queue[j] \in {"waiting", "active"} => Outcome[j] = "underway"
           /\ queue[j] = "completed" => Outcome[j] = "COMPLETED"
           /\ queue[j] = "failed" => Outcome[j] = "FAILED"
           /\ queue[j] \in {"none", "waiting", "active", "completed", "failed"}
  BY DEF IInv, TypeOK, QueueAgreesWithRow, Outcome

\* While the queue has not finished with a job, and nothing is recorded or
\* handed over, the administrator is told the same.
LEMMA Silent ==
    ASSUME UNCHANGED <<audited, sent>>,
           \A j \in Jobs :
              \/ queue'[j] = queue[j] /\ status'[j] = status[j]
              \/ queue[j] = "none" /\ queue'[j] = "none"
              \/ /\ queue[j] \in {"waiting", "active"}
                 /\ queue'[j] \in {"waiting", "active"}
    PROVE  UNCHANGED Promise!vars
<1>1. \A j \in Jobs : Outcome[j]' = Outcome[j]
  BY DEF Outcome
<1>2. Outcome' = Outcome
  BY <1>1 DEF Outcome
<1> QED
  BY <1>2 DEF Promise!vars

\* A job that leaves the queue is settled as its row says.
LEMMA Settling ==
    ASSUME IInv, IInv', NEW j \in Jobs, UNCHANGED <<audited, sent, status>>,
           queue[j] = "active",
           \/ queue' = [queue EXCEPT ![j] = "waiting"]
           \/ queue' = [queue EXCEPT ![j] = "completed"]
           \/ queue' = [queue EXCEPT ![j] = "failed"]
    PROVE  [Promise!Next]_(Promise!vars)
<1>1. queue \in [Jobs -> {"none", "waiting", "active", "completed", "failed"}]
  BY DEF IInv, TypeOK
<1>2. CASE queue' = [queue EXCEPT ![j] = "waiting"]
  BY <1>1, <1>2, Silent
<1>3. CASE queue'[j] \in {"completed", "failed"}
           /\ \A i \in Jobs \ {j} : queue'[i] = queue[i]
  <2>1. Outcome[j] = "underway"
    BY OutcomeValues
  <2>2. Outcome'[j] \in {"COMPLETED", "FAILED"}
    BY <1>3 DEF IInv, QueueAgreesWithRow, Outcome
  <2>3. \A i \in Jobs \ {j} : Outcome'[i] = Outcome[i]
    BY <1>3 DEF Outcome
  <2>4. Outcome' = [Outcome EXCEPT ![j] = Outcome'[j]]
    BY <2>3 DEF Outcome
  <2>5. Promise!Settle(j, Outcome'[j])
    BY <2>1, <2>4 DEF Promise!Settle
  <2> QED
    BY <2>2, <2>5 DEF Promise!Next
<1> QED
  BY <1>1, <1>2, <1>3

\* Each step of the code records, begins, settles or hands over one export, or
\* is not noticed.
LEMMA PromiseStep ==
    ASSUME IInv, IInv', [Next]_vars PROVE [Promise!Next]_(Promise!vars)
<1> DEFINE Goal == [Promise!Next]_(Promise!vars)
<1> USE DEF rowVars, requestVars, pollVars, queueVars, budgetVars
<1>0. /\ audited \in [Jobs -> BOOLEAN] /\ sent \in [Jobs -> BOOLEAN]
      /\ queue \in [Jobs -> {"none", "waiting", "active", "completed", "failed"}]
      /\ status \in [Jobs -> {"NONE", "PENDING", "PROCESSING", "COMPLETED", "FAILED"}]
  BY DEF IInv, TypeOK
<1>1. ASSUME NEW j \in Jobs, Asks(j) PROVE Goal
  <2>0. /\ request[j] \in {"none", "audit", "answer"} => queue[j] = "none"
        /\ request[j] = "answer" => audited[j]
        /\ queue[j] # "none" => audited[j]
        /\ status[j] = "COMPLETED" => queue[j] # "none"
    BY DEF IInv, Ordered
  <2>1. ASSUME CreateJob(j) PROVE Goal
    BY <1>0, <2>0, <2>1, Silent DEF CreateJob
  <2>2. ASSUME BuildFile(j) PROVE Goal
    BY <2>2, Silent DEF BuildFile
  <2>3. ASSUME RecordRequested(j) PROVE Goal
    <3>1. Outcome' = Outcome
      BY <2>3 DEF RecordRequested, Outcome
    <3> QED
      BY <2>3, <3>1 DEF RecordRequested, Promise!Record, Promise!Next
  <2>4. ASSUME AnswerWithFile(j) PROVE Goal
    <3>1. Outcome' = Outcome
      BY <2>4 DEF AnswerWithFile, Outcome
    <3>2. Outcome[j] # "FAILED"
      BY <2>0, <2>4, OutcomeValues DEF AnswerWithFile
    <3>3. Promise!HandOver(j)
      BY <2>0, <2>4, <3>1, <3>2 DEF AnswerWithFile, Promise!HandOver
    <3> QED
      BY <3>3 DEF Promise!Next
  <2>5. ASSUME Enqueue(j) PROVE Goal
    <3>1. Outcome[j] = "none"
      BY <2>0, <2>5, OutcomeValues DEF Enqueue
    <3>2. Outcome' = [Outcome EXCEPT ![j] = "underway"]
      BY <1>0, <2>5 DEF Enqueue, Outcome
    <3>3. Promise!Begin(j)
      BY <2>0, <2>5, <3>1, <3>2 DEF Enqueue, Promise!Begin
    <3> QED
      BY <3>3 DEF Promise!Next
  <2>6. ASSUME EnqueueFails(j) PROVE Goal
    <3>1. \A i \in Jobs \ {j} : status'[i] = status[i]
      BY <1>0, <2>6 DEF EnqueueFails, MarkFailed
    <3> QED
      BY <2>0, <2>6, <3>1, Silent DEF EnqueueFails
  <2>7. ASSUME RequestDies(j) PROVE Goal
    BY <2>7, Silent DEF RequestDies
  <2>8. ASSUME ReadStatus(j) PROVE Goal
    BY <2>8, Silent DEF ReadStatus
  <2>9. ASSUME StoreLink(j) PROVE Goal
    BY <2>9, Silent DEF StoreLink
  <2>10. ASSUME LinkExpires(j) PROVE Goal
    BY <2>10, Silent DEF LinkExpires
  <2>11. ASSUME ResolveDownload(j) PROVE Goal
    <3>1. Outcome' = Outcome
      BY <2>11 DEF ResolveDownload, Outcome
    <3>2. Outcome[j] # "FAILED" /\ audited[j]
      BY <2>0, <2>11 DEF ResolveDownload, Outcome
    <3>3. Promise!HandOver(j)
      BY <2>11, <3>1, <3>2 DEF ResolveDownload, Promise!HandOver
    <3> QED
      BY <3>3 DEF Promise!Next
  <2> QED
    BY <1>1, <2>1, <2>2, <2>3, <2>4, <2>5, <2>6, <2>7, <2>8, <2>9, <2>10, <2>11,
       Zenon DEF Asks
<1>2. ASSUME NEW w \in Workers, Works(w) PROVE Goal
  <2> DEFINE j == worker[w].job
  <2>0. worker[w].step # "idle" => j \in Jobs /\ queue[j] = "active"
    BY DEF IInv, Ordered, Idle
  <2> HIDE DEF j
  <2>1. ASSUME MarkProcessing(w) PROVE Goal
    <3>1. \A i \in Jobs : i # j => status'[i] = status[i]
      BY <1>0, <2>1 DEF MarkProcessing, j
    <3> QED
      BY <2>0, <2>1, <3>1, Silent DEF MarkProcessing
  <2>2. ASSUME CreateFile(w) PROVE Goal
    BY <2>2, Silent DEF CreateFile
  <2>3. ASSUME PutObject(w) PROVE Goal
    BY <2>3, Silent DEF PutObject
  <2>4. ASSUME PutObjectFails(w) PROVE Goal
    BY <2>4, Silent DEF PutObjectFails
  <2>5. ASSUME MarkUploaded(w) PROVE Goal
    BY <2>5, Silent DEF MarkUploaded
  <2>6. ASSUME MarkCompleted(w) PROVE Goal
    <3>1. \A i \in Jobs : i # j => status'[i] = status[i]
      BY <1>0, <2>6 DEF MarkCompleted, j
    <3> QED
      BY <2>0, <2>6, <3>1, Silent DEF MarkCompleted
  <2>7. ASSUME Throws(w) PROVE Goal
    BY <2>7, Silent DEF Throws
  <2>8. ASSUME FailAsyncExportJob(w) PROVE Goal
    <3>1. \A i \in Jobs : i # j => status'[i] = status[i]
      BY <1>0, <2>8 DEF FailAsyncExportJob, MarkFailed, j
    <3> QED
      BY <2>0, <2>8, <3>1, Silent DEF FailAsyncExportJob
  <2>9. ASSUME FailAsyncExportJobFails(w) PROVE Goal
    BY <2>9, Silent DEF FailAsyncExportJobFails
  <2>10. ASSUME Acknowledge(w) PROVE Goal
    BY <2>0, <2>10, Settling DEF Acknowledge, j
  <2>11. ASSUME RetryOrGiveUp(w) PROVE Goal
    BY <2>0, <2>11, Settling DEF RetryOrGiveUp, j
  <2> QED
    BY <1>2, <2>1, <2>2, <2>3, <2>4, <2>5, <2>6, <2>7, <2>8, <2>9, <2>10, <2>11,
       Zenon DEF Works
<1>3. ASSUME NEW j \in Jobs, Stalls(j) PROVE Goal
  BY <1>3, Settling DEF Stalls
<1>4. ASSUME NEW j \in Jobs, NEW w \in Workers, Take(w, j) PROVE Goal
  <2>1. queue'[j] = "active" /\ \A i \in Jobs \ {j} : queue'[i] = queue[i]
    BY <1>0, <1>4 DEF Take
  <2> QED
    BY <1>4, <2>1, Silent DEF Take
<1>5. ASSUME NEW w \in Workers, Crash(w) PROVE Goal
  BY <1>5, Silent DEF Crash
<1>6. ASSUME UNCHANGED vars PROVE Goal
  BY <1>6, Silent DEF vars
<1> QED
  BY <1>1, <1>2, <1>3, <1>4, <1>5, <1>6, Zenon DEF Next

\* However often an export is repeated, the administrator gets what is on
\* record only, and a settled export stays settled.
THEOREM ExportPromiseIsKept == Spec => ExportKeepsPromise
<1>1. IInv /\ IInv' /\ [Next]_vars => [Promise!Next]_(Promise!vars)
  BY PromiseStep
<1> QED
  BY IInvHolds, PromiseInit, <1>1, PTL DEF Spec, ExportKeepsPromise, Promise!Spec

-----------------------------------------------------------------------------
(***************************************************************************)
(* Seeds                                                                   *)
(***************************************************************************)
\* The identifiers of callsSeed.
SeedTypes ==
    /\ calls \in Seq(Call)
    /\ program \in [Runs -> 0..3]
    /\ duplicates \in [Runs -> Step]
    /\ tidy \in [Runs -> BOOLEAN]
    /\ \A r \in Runs : duplicates[r].do # "select" => program[r] \in 1..2

\* What callsSeed makes of the calls of a program.
Settled(type) ==
    \E c \in CallsOf(type) :
        /\ calls[c].open
        /\ \A d \in CallsOf(type) \ {c} : d > c /\ calls[d].filed

\* The oldest call is open, and the calls that nobody applied for are those
\* that the run has still to look at.
Underway(step, type) ==
    \E c \in CallsOf(type) :
        /\ c # step.call /\ c \notin step.rest
        /\ calls[c].open
        /\ \A d \in CallsOf(type) \ {c} :
              d > c /\ (calls[d].filed \/ d = step.call \/ d \in step.rest)

StepIsCurrent(step, type) ==
    /\ step.do = "insert" => CallsOf(type) = {} /\ step.rest = {}
    /\ step.do = "open" =>
          /\ OldestOf(step.call, CallsOf(type))
          /\ step.rest = CallsOf(type) \ {step.call}
    /\ step.do \in {"count", "delete"} =>
          /\ step.call \in CallsOf(type) /\ step.rest \subseteq CallsOf(type)
          /\ step.call \notin step.rest
    /\ step.do \in {"count", "delete"} => Underway(step, type)

\* The programs before p are settled, and the step at p is the one to take.
OnCourse(step, p) ==
    /\ \A q \in 1..2 : q < p => Settled(Programs[q])
    /\ p \in 1..2 => StepIsCurrent(step, Programs[p])

\* A run that nobody disturbs has settled the programs it is done with, and
\* knows the calls of the one it is at.
TidyRuns == \A r \in Runs : tidy[r] => OnCourse(duplicates[r], program[r])

SeedsInv == SeedTypes /\ TidyRuns

\* The two programs have two types.
LEMMA ProgramsDiffer ==
    /\ \A p \in 1..2 : Programs[p] \in Types
    /\ \A p, q \in 1..2 : p # q => Programs[p] # Programs[q]
BY DEF Programs, Types

\* A run keeps its course as long as the calls stay, and its own step.
LEMMA CourseIsKept ==
    ASSUME TidyRuns, calls' = calls, NEW r \in Runs,
           tidy'[r] => tidy[r],
           tidy'[r] => program'[r] = program[r] /\ duplicates'[r] = duplicates[r]
    PROVE  tidy'[r] => OnCourse(duplicates[r], program[r])'
<1> SUFFICES ASSUME tidy'[r] PROVE OnCourse(duplicates[r], program[r])'
  OBVIOUS
<1>1. PICK step, p : step = duplicates[r] /\ p = program[r]
  OBVIOUS
<1>2. OnCourse(step, p)
  BY <1>1 DEF TidyRuns
<1>3. OnCourse(step, p)'
  BY <1>2 DEF OnCourse, Settled, StepIsCurrent, Underway, CallsOf, Calls, OldestOf
<1>4. QED
  BY <1>1, <1>3

\* Applications only add to what keeps a call.
LEMMA FilingKeepsCourse ==
    ASSUME calls \in Seq(Call), NEW c \in Calls,
           calls' = [calls EXCEPT ![c] = [calls[c] EXCEPT !.filed = TRUE]],
           NEW step, NEW p, OnCourse(step, p)
    PROVE  OnCourse(step, p)'
<1>1. /\ Calls' = Calls
      /\ \A d \in Calls : /\ calls'[d].type = calls[d].type
                          /\ calls'[d].open = calls[d].open
                          /\ calls'[d].there = calls[d].there
                          /\ calls[d].filed => calls'[d].filed
  BY DEF Calls, Call
<1>2. ASSUME NEW type PROVE CallsOf(type)' = CallsOf(type) /\ CallsOf(type) \subseteq Calls
  BY <1>1 DEF CallsOf
<1>3. ASSUME NEW type, Settled(type) PROVE Settled(type)'
  BY <1>1, <1>2, <1>3 DEF Settled
<1>4. ASSUME NEW type, Underway(step, type) PROVE Underway(step, type)'
  BY <1>1, <1>2, <1>4 DEF Underway
<1>5. ASSUME NEW type, StepIsCurrent(step, type) PROVE StepIsCurrent(step, type)'
  BY <1>2, <1>4, <1>5 DEF StepIsCurrent, OldestOf
<1>6. QED
  BY <1>3, <1>5 DEF OnCourse

\* A statement about one call keeps the sequence of calls.
LEMMA UpdateKeepsTypes ==
    ASSUME calls \in Seq(Call), NEW c, NEW row, c \in Calls => row \in Call,
           calls' = [calls EXCEPT ![c] = row]
    PROVE  calls' \in Seq(Call) /\ Calls' = Calls
<1>1. DOMAIN calls' = 1..Len(calls) /\ DOMAIN calls = 1..Len(calls) /\ Len(calls) \in Nat
  OBVIOUS
<1>2. \A d \in 1..Len(calls) : calls'[d] \in Call
  BY <1>1 DEF Calls
<1>3. calls' = [d \in 1..Len(calls) |-> calls'[d]]
  BY <1>1
<1>4. calls' \in Seq(Call)
  <2>1. PICK n \in Nat : n = Len(calls)
    BY <1>1
  <2>2. PICK f : f = calls'
    OBVIOUS
  <2>3. f = [d \in 1..n |-> f[d]] /\ \A d \in 1..n : f[d] \in Call
    BY <1>2, <1>3, <2>1, <2>2
  <2>4. [d \in 1..n |-> f[d]] \in Seq(Call)
    BY <2>3
  <2>5. QED
    BY <2>2, <2>3, <2>4
<1>5. QED
  BY <1>1, <1>4 DEF Calls

\* A run that is done with a call turns to the next call or program.
LEMMA CallDoneTypes ==
    ASSUME SeedTypes, NEW r \in Runs, program[r] \in 1..2, CallDone(r)
    PROVE  /\ program' \in [Runs -> 0..3]
           /\ duplicates' \in [Runs -> Step]
           /\ \A q \in Runs : duplicates'[q].do # "select" => program'[q] \in 1..2
           /\ \A q \in Runs \ {r} : /\ program'[q] = program[q]
                                    /\ duplicates'[q] = duplicates[q]
<1> DEFINE rest == duplicates[r].rest
<1>0. rest \subseteq Nat
  BY DEF SeedTypes, Step
<1>1. CASE /\ duplicates' = [duplicates EXCEPT ![r] = Selects]
           /\ program' = [program EXCEPT ![r] = program[r] + 1]
  <2>1. Selects \in Step /\ Selects.do = "select"
    BY DEF Selects, Step
  <2>2. program[r] + 1 \in 0..3
    OBVIOUS
  <2>3. QED
    BY <1>1, <2>1, <2>2 DEF SeedTypes
<1>2. CASE /\ \E c \in rest : Turns(r, "count", c, rest \ {c})
           /\ program' = program
  <2>1. PICK c \in rest : Turns(r, "count", c, rest \ {c})
    BY <1>2
  <2>2. PICK step : step = [do |-> "count", call |-> c, rest |-> rest \ {c}]
    OBVIOUS
  <2>3. step \in Step
    BY <1>0, <2>2 DEF Step
  <2>4. duplicates' = [duplicates EXCEPT ![r] = step]
    BY <2>1, <2>2 DEF Turns
  <2>5. QED
    BY <1>2, <2>3, <2>4 DEF SeedTypes
<1>3. QED
  BY <1>1, <1>2 DEF CallDone

\* The calls that nobody applied for are those that are left.
Remaining(rest, type) ==
    /\ rest \subseteq CallsOf(type)
    /\ \E c \in CallsOf(type) \ rest :
          /\ calls[c].open
          /\ \A d \in CallsOf(type) \ {c} : d > c /\ (calls[d].filed \/ d \in rest)

LEMMA CallDoneKeepsCourse ==
    ASSUME SeedTypes, NEW r \in Runs, program[r] \in 1..2, CallDone(r),
           \A q \in 1..2 : q < program[r] => Settled(Programs[q])',
           NEW rest, rest = duplicates[r].rest,
           NEW type, type = Programs[program[r]],
           Remaining(rest, type)'
    PROVE  OnCourse(duplicates[r], program[r])'
<1>1. CASE /\ rest = {}
           /\ duplicates' = [duplicates EXCEPT ![r] = Selects]
           /\ program' = [program EXCEPT ![r] = program[r] + 1]
  <2>1. PICK step, p : step = duplicates'[r] /\ p = program'[r]
    OBVIOUS
  <2>2. p = program[r] + 1 /\ step = Selects
    BY <1>1, <2>1 DEF SeedTypes
  <2>3. Settled(type)'
    BY <1>1 DEF Remaining, Settled
  <2>4. \A q \in 1..2 : q < p => Settled(Programs[q])'
    BY <2>2, <2>3
  <2>5. StepIsCurrent(step, Programs[p])'
    BY <2>2 DEF StepIsCurrent, Selects
  <2>6. OnCourse(step, p)'
    BY <2>4, <2>5 DEF OnCourse
  <2>7. QED
    BY <2>1, <2>6
<1>2. CASE /\ \E c \in rest : Turns(r, "count", c, rest \ {c})
           /\ program' = program
  <2>1. PICK c \in rest : Turns(r, "count", c, rest \ {c})
    BY <1>2
  <2>2. PICK step, p : step = duplicates'[r] /\ p = program'[r]
    OBVIOUS
  <2>3. p = program[r] /\ step = [do |-> "count", call |-> c, rest |-> rest \ {c}]
    BY <1>2, <2>1, <2>2 DEF SeedTypes, Turns
  <2>4. step.do = "count" /\ step.call = c /\ step.rest = rest \ {c}
    BY <2>3
  <2>5. StepIsCurrent(step, type)'
    <3>1. Underway(step, type)'
      BY <2>1, <2>4 DEF Remaining, Underway
    <3>2. QED
      BY <2>1, <2>4, <3>1 DEF Remaining, StepIsCurrent
  <2>6. OnCourse(step, p)'
    BY <2>3, <2>5 DEF OnCourse
  <2>7. QED
    BY <2>2, <2>6
<1>3. QED
  BY <1>1, <1>2 DEF CallDone

\* What happens to the calls of one type leaves a program of the other settled.
LEMMA OthersStaySettled ==
    ASSUME NEW type, Settled(type), CallsOf(type)' = CallsOf(type),
           \A c \in CallsOf(type) : calls'[c] = calls[c]
    PROVE  Settled(type)'
BY DEF Settled

\* A call that is changed is one of its program, and the others stay.
LEMMA UpdateOfOneCall ==
    ASSUME calls \in Seq(Call), NEW type, NEW c \in CallsOf(type), NEW row \in Call,
           row.type = type, calls' = [calls EXCEPT ![c] = row]
    PROVE  /\ calls' \in Seq(Call)
           /\ calls'[c] = row
           /\ \A d \in Calls \ {c} : calls'[d] = calls[d]
           /\ CallsOf(type)' = IF row.there THEN CallsOf(type) ELSE CallsOf(type) \ {c}
           /\ \A other : other # type /\ Settled(other) => Settled(other)'
           /\ \A other : other # type => CallsOf(other)' = CallsOf(other)
<1>1. c \in Calls /\ calls[c].type = type /\ calls[c].there
  BY DEF CallsOf
<1>2. calls' \in Seq(Call) /\ Calls' = Calls
  BY UpdateKeepsTypes
<1>3. calls'[c] = row /\ \A d \in Calls \ {c} : calls'[d] = calls[d]
  BY <1>1 DEF Calls
<1>4. CallsOf(type)' = IF row.there THEN CallsOf(type) ELSE CallsOf(type) \ {c}
  <2>1. row.there \in BOOLEAN
    BY DEF Call
  <2>2. \A d : d \in CallsOf(type)' <=> d \in CallsOf(type) /\ (d = c => row.there)
    BY <1>1, <1>2, <1>3 DEF CallsOf
  <2>3. CASE row.there
    BY <2>2, <2>3
  <2>4. CASE ~row.there
    BY <2>2, <2>4
  <2>5. QED
    BY <2>1, <2>3, <2>4
<1>5. ASSUME NEW other, other # type
      PROVE  /\ CallsOf(other)' = CallsOf(other)
             /\ Settled(other) => Settled(other)'
  <2>1. /\ CallsOf(other)' = CallsOf(other)
        /\ \A d \in CallsOf(other) : calls'[d] = calls[d]
    BY <1>1, <1>2, <1>3, <1>5 DEF CallsOf
  <2>2. QED
    BY <2>1, OthersStaySettled
<1>6. QED
  BY <1>2, <1>3, <1>4, <1>5

-----------------------------------------------------------------------------
\* No run was started.
LEMMA SeedsInitHolds == SeedsInit => SeedsInv
<1> SUFFICES ASSUME SeedsInit PROVE SeedsInv
  OBVIOUS
<1>1. Selects \in Step
  BY DEF Selects, Step
<1>2. SeedTypes
  <2>1. calls \in Seq(Call)
    BY DEF SeedsInit
  <2>2. program \in [Runs -> 0..3] /\ tidy \in [Runs -> BOOLEAN]
    BY DEF SeedsInit
  <2>3. duplicates \in [Runs -> Step] /\ \A r \in Runs : duplicates[r] = Selects
    BY <1>1 DEF SeedsInit
  <2>4. Selects.do = "select"
    BY DEF Selects
  <2>5. QED
    BY <2>1, <2>2, <2>3, <2>4 DEF SeedTypes
<1>3. TidyRuns
  BY DEF SeedsInit, TidyRuns
<1>4. QED
  BY <1>2, <1>3 DEF SeedsInv

\* Steps outside callsSeed leave the calls alone, or end the run.
LEMMA QuietStepKeeps ==
    ASSUME SeedsInv, UNCHANGED <<calls, program, duplicates, tidy>>
    PROVE  SeedsInv'
<1>1. SeedTypes'
  BY DEF SeedsInv, SeedTypes
<1>2. ASSUME NEW r \in Runs PROVE tidy'[r] => OnCourse(duplicates[r], program[r])'
  BY CourseIsKept DEF SeedsInv
<1>3. QED
  BY <1>1, <1>2 DEF SeedsInv, TidyRuns

LEMMA EndKeeps ==
    ASSUME SeedsInv, NEW r \in Runs, Ends(r), calls' = calls
    PROVE  SeedsInv'
<1>1. Selects \in Step /\ Selects.do = "select"
  BY DEF Selects, Step
<1>2. SeedTypes'
  BY <1>1 DEF SeedsInv, SeedTypes, Ends
<1>3. /\ ~tidy'[r]
      /\ \A q \in Runs \ {r} : /\ tidy'[q] = tidy[q]
                               /\ program'[q] = program[q]
                               /\ duplicates'[q] = duplicates[q]
  BY DEF SeedsInv, SeedTypes, Ends
<1>4. ASSUME NEW q \in Runs PROVE tidy'[q] => OnCourse(duplicates[q], program[q])'
  BY <1>3, CourseIsKept DEF SeedsInv
<1>5. QED
  BY <1>2, <1>4 DEF SeedsInv, TidyRuns

LEMMA BeginningKeeps ==
    ASSUME SeedsInv, NEW r \in Runs, BeginsCalls(r)
    PROVE  SeedsInv'
<1>1. Selects \in Step /\ Selects.do = "select"
  BY DEF Selects, Step
<1>2. SeedTypes'
  BY <1>1 DEF SeedsInv, SeedTypes, BeginsCalls
<1>3. /\ calls' = calls
      /\ duplicates'[r] = Selects /\ program'[r] = 1
      /\ \A q \in Runs \ {r} : /\ tidy'[q] = tidy[q]
                               /\ program'[q] = program[q]
                               /\ duplicates'[q] = duplicates[q]
  BY DEF SeedsInv, SeedTypes, BeginsCalls
<1>4. OnCourse(duplicates[r], program[r])'
  <2>1. PICK step, p : step = duplicates'[r] /\ p = program'[r]
    OBVIOUS
  <2>2. step = Selects /\ p = 1
    BY <1>3, <2>1
  <2>3. OnCourse(step, p)'
    BY <1>1, <2>2 DEF OnCourse, StepIsCurrent
  <2>4. QED
    BY <2>1, <2>3
<1>5. ASSUME NEW q \in Runs \ {r} PROVE tidy'[q] => OnCourse(duplicates[q], program[q])'
  BY <1>3, CourseIsKept DEF SeedsInv
<1>6. QED
  BY <1>2, <1>4, <1>5 DEF SeedsInv, TidyRuns

LEMMA EndingProgramsKeeps ==
    ASSUME SeedsInv, NEW r \in Runs, EndsPrograms(r)
    PROVE  SeedsInv'
<1>1. duplicates[r].do = "select"
  BY DEF SeedsInv, SeedTypes, EndsPrograms
<1>2. SeedTypes'
  BY <1>1 DEF SeedsInv, SeedTypes, EndsPrograms
<1>3. /\ calls' = calls /\ duplicates' = duplicates
      /\ ~tidy'[r]
      /\ \A q \in Runs \ {r} : tidy'[q] = tidy[q] /\ program'[q] = program[q]
  BY DEF SeedsInv, SeedTypes, EndsPrograms
<1>4. ASSUME NEW q \in Runs PROVE tidy'[q] => OnCourse(duplicates[q], program[q])'
  BY <1>3, CourseIsKept DEF SeedsInv
<1>5. QED
  BY <1>2, <1>4 DEF SeedsInv, TidyRuns

\* The selection finds the calls as they are.
LEMMA SelectionKeeps ==
    ASSUME SeedsInv, NEW r \in Runs, SelectsCalls(r)
    PROVE  SeedsInv'
<1> DEFINE type == Programs[program[r]]
<1>0. /\ calls' = calls /\ program' = program /\ tidy' = tidy
      /\ program[r] \in 1..2
  BY DEF SelectsCalls, Handles, recordVars
<1>1. CallsOf(type) \subseteq Nat
  <2>1. Calls \subseteq Nat
    BY DEF SeedsInv, SeedTypes, Calls
  <2>2. QED
    BY <2>1 DEF CallsOf
<1>2. PICK step : /\ step \in Step
                  /\ duplicates' = [duplicates EXCEPT ![r] = step]
                  /\ StepIsCurrent(step, type)
  <2>1. CASE CallsOf(type) = {} /\ Turns(r, "insert", None, {})
    <3>1. PICK step : step = [do |-> "insert", call |-> None, rest |-> {}]
      OBVIOUS
    <3>2. step \in Step /\ duplicates' = [duplicates EXCEPT ![r] = step]
      BY <2>1, <3>1 DEF Step, Turns
    <3>3. StepIsCurrent(step, type)
      BY <2>1, <3>1 DEF StepIsCurrent
    <3>4. QED
      BY <3>2, <3>3
  <2>2. CASE \E c \in CallsOf(type) :
                OldestOf(c, CallsOf(type)) /\ Turns(r, "open", c, CallsOf(type) \ {c})
    <3>1. PICK c \in CallsOf(type) :
                OldestOf(c, CallsOf(type)) /\ Turns(r, "open", c, CallsOf(type) \ {c})
      BY <2>2
    <3>2. PICK step : step = [do |-> "open", call |-> c, rest |-> CallsOf(type) \ {c}]
      OBVIOUS
    <3>3. step \in Step /\ duplicates' = [duplicates EXCEPT ![r] = step]
      BY <1>1, <3>1, <3>2 DEF Step, Turns
    <3>4. StepIsCurrent(step, type)
      BY <3>1, <3>2 DEF StepIsCurrent
    <3>5. QED
      BY <3>3, <3>4
  <2>3. QED
    BY <2>1, <2>2 DEF SelectsCalls
<1>3. SeedTypes'
  BY <1>0, <1>2 DEF SeedsInv, SeedTypes
<1>4. tidy'[r] => OnCourse(duplicates[r], program[r])'
  <2>1. SUFFICES ASSUME tidy[r] PROVE OnCourse(duplicates[r], program[r])'
    BY <1>0
  <2>2. PICK old, p : old = duplicates[r] /\ p = program[r]
    OBVIOUS
  <2>3. OnCourse(step, p)
    BY <1>2, <2>1, <2>2 DEF SeedsInv, TidyRuns, OnCourse
  <2>4. OnCourse(step, p)'
    BY <1>0, <2>3
      DEF OnCourse, Settled, StepIsCurrent, Underway, CallsOf, Calls, OldestOf
  <2>5. duplicates'[r] = step /\ program'[r] = p
    BY <1>0, <1>2, <2>2 DEF SeedsInv, SeedTypes
  <2>6. QED
    BY <2>4, <2>5
<1>5. ASSUME NEW q \in Runs \ {r} PROVE tidy'[q] => OnCourse(duplicates[q], program[q])'
  <2>1. duplicates'[q] = duplicates[q]
    BY <1>2 DEF SeedsInv, SeedTypes
  <2>2. QED
    BY <1>0, <2>1, CourseIsKept DEF SeedsInv
<1>6. QED
  BY <1>3, <1>4, <1>5 DEF SeedsInv, TidyRuns

\* A run that changes a call leaves no other run undisturbed.
LEMMA OneTidyRun ==
    ASSUME NEW r \in Runs, SeedTypes, SeedTypes', Disturbs(r),
           tidy[r] => OnCourse(duplicates[r], program[r])'
    PROVE  SeedsInv'
BY DEF SeedsInv, TidyRuns, Disturbs

LEMMA DisturbingTypes ==
    ASSUME SeedTypes, NEW r \in Runs, program[r] \in 1..2, CallDone(r), Disturbs(r),
           calls' \in Seq(Call)
    PROVE  SeedTypes'
<1>1. tidy' \in [Runs -> BOOLEAN]
  BY DEF SeedTypes, Disturbs
<1>2. QED
  BY <1>1, CallDoneTypes DEF SeedTypes

\* The call that is created is the only one of its program.
LEMMA InsertionKeeps ==
    ASSUME SeedsInv, NEW r \in Runs, InsertsCall(r)
    PROVE  SeedsInv'
<1>1. PICK type : type = Programs[program[r]]
  OBVIOUS
<1>2. PICK row : row = [type |-> type, open |-> TRUE, filed |-> FALSE, there |-> TRUE]
  OBVIOUS
<1>3. PICK n : n = Len(calls) + 1
  OBVIOUS
<1>4. /\ program[r] \in 1..2 /\ duplicates[r].do = "insert"
      /\ calls' = Append(calls, row)
      /\ CallDone(r) /\ Disturbs(r) /\ SeedTypes
  BY <1>1, <1>2 DEF InsertsCall, Handles, SeedsInv
<1>5. row \in Call
  BY <1>1, <1>2, <1>4, ProgramsDiffer DEF Call
<1>6. /\ calls' \in Seq(Call)
      /\ Calls = 1..(n - 1) /\ Calls' = 1..n /\ n \in Nat \ {0}
      /\ calls'[n] = row
      /\ \A d \in Calls : calls'[d] = calls[d]
  BY <1>3, <1>4, <1>5 DEF SeedTypes, Calls
<1>7. SeedTypes'
  BY <1>4, <1>6, DisturbingTypes
<1>8. ASSUME tidy[r] PROVE OnCourse(duplicates[r], program[r])'
  <2>1. /\ \A q \in 1..2 : q < program[r] => Settled(Programs[q])
        /\ CallsOf(type) = {}
        /\ duplicates[r].rest = {}
    BY <1>1, <1>4, <1>8 DEF SeedsInv, TidyRuns, OnCourse, StepIsCurrent
  <2>2. Remaining({}, type)'
    <3>1. CallsOf(type)' = {n}
      BY <1>2, <1>6, <2>1 DEF CallsOf
    <3>2. QED
      BY <1>2, <1>6, <3>1 DEF Remaining
  <2>3. ASSUME NEW q \in 1..2, q < program[r] PROVE Settled(Programs[q])'
    <3>1. PICK other : other = Programs[q]
      OBVIOUS
    <3>2. other # type
      BY <1>1, <1>4, <2>3, <3>1, ProgramsDiffer
    <3>3. /\ CallsOf(other)' = CallsOf(other)
          /\ \A d \in CallsOf(other) : calls'[d] = calls[d]
      BY <1>2, <1>6, <3>2 DEF CallsOf
    <3>4. Settled(other)'
      BY <2>1, <2>3, <3>1, <3>3, OthersStaySettled
    <3>5. QED
      BY <3>1, <3>4
  <2>4. QED
    BY <1>1, <1>4, <2>1, <2>2, <2>3, CallDoneKeepsCourse
<1>9. QED
  BY <1>4, <1>7, <1>8, OneTidyRun

\* The oldest call is open from now on, and the others remain.
LEMMA OpeningKeeps ==
    ASSUME SeedsInv, NEW r \in Runs, OpensCall(r)
    PROVE  SeedsInv'
<1>1. PICK type, c, row : /\ type = Programs[program[r]]
                          /\ c = duplicates[r].call
                          /\ row = [calls[c] EXCEPT !.open = TRUE]
  OBVIOUS
<1>2. /\ program[r] \in 1..2 /\ duplicates[r].do = "open"
      /\ calls' = [calls EXCEPT ![c] = row]
      /\ CallDone(r) /\ Disturbs(r) /\ SeedTypes
  BY <1>1 DEF OpensCall, Handles, SeedsInv
<1>3. ASSUME c \in Calls PROVE row \in Call /\ row.open /\ row.type = calls[c].type
                               /\ row.there = calls[c].there
  <2>1. calls[c] \in Call
    BY <1>2, <1>3 DEF SeedTypes, Calls
  <2>2. QED
    BY <1>1, <2>1 DEF Call
<1>4. calls' \in Seq(Call)
  BY <1>2, <1>3, UpdateKeepsTypes DEF SeedTypes
<1>5. SeedTypes'
  BY <1>2, <1>4, DisturbingTypes
<1>6. ASSUME tidy[r] PROVE OnCourse(duplicates[r], program[r])'
  <2>1. PICK rest : rest = duplicates[r].rest
    OBVIOUS
  <2>2. /\ \A q \in 1..2 : q < program[r] => Settled(Programs[q])
        /\ OldestOf(c, CallsOf(type)) /\ rest = CallsOf(type) \ {c}
    BY <1>1, <1>2, <1>6, <2>1 DEF SeedsInv, TidyRuns, OnCourse, StepIsCurrent
  <2>3. c \in CallsOf(type) /\ c \in Calls /\ calls[c].type = type /\ calls[c].there
    BY <2>2 DEF OldestOf, CallsOf
  <2>4. /\ calls'[c] = row
        /\ CallsOf(type)' = CallsOf(type)
        /\ \A other : other # type /\ Settled(other) => Settled(other)'
    <3>1. row \in Call /\ row.type = type /\ row.there /\ calls \in Seq(Call)
      BY <1>2, <1>3, <2>3 DEF SeedTypes
    <3>2. c \in CallsOf(type)
      BY <2>3 DEF CallsOf
    <3>3. QED
      BY <1>2, <3>1, <3>2, UpdateOfOneCall
  <2>5. Remaining(rest, type)'
    <3>1. CallsOf(type) \subseteq Nat
      BY <1>2 DEF SeedTypes, CallsOf, Calls
    <3>2. \A d \in CallsOf(type) \ {c} : d > c
      BY <2>2, <3>1 DEF OldestOf
    <3>3. QED
      BY <1>3, <2>2, <2>3, <2>4, <3>2 DEF Remaining
  <2>6. \A q \in 1..2 : q < program[r] => Settled(Programs[q])'
    BY <1>1, <1>2, <2>2, <2>4, ProgramsDiffer
  <2>7. QED
    BY <1>1, <1>2, <2>1, <2>5, <2>6, CallDoneKeepsCourse
<1>7. QED
  BY <1>2, <1>5, <1>6, OneTidyRun

\* A duplicate somebody applied for stays, another one is to be deleted.
LEMMA CountingKeeps ==
    ASSUME SeedsInv, NEW r \in Runs, CountsApplications(r)
    PROVE  SeedsInv'
<1>1. PICK type, c, rest : /\ type = Programs[program[r]]
                           /\ c = duplicates[r].call
                           /\ rest = duplicates[r].rest
  OBVIOUS
<1>2. /\ program[r] \in 1..2 /\ duplicates[r].do = "count"
      /\ calls' = calls /\ tidy' = tidy /\ SeedTypes
  BY DEF CountsApplications, Handles, SeedsInv, recordVars
<1>3. ASSUME tidy[r]
      PROVE  /\ \A q \in 1..2 : q < program[r] => Settled(Programs[q])
             /\ c \in CallsOf(type) /\ rest \subseteq CallsOf(type) /\ c \notin rest
             /\ Underway(duplicates[r], type)
  BY <1>1, <1>2, <1>3 DEF SeedsInv, TidyRuns, OnCourse, StepIsCurrent
<1>4. \A t : /\ CallsOf(t)' = CallsOf(t)
             /\ Settled(t) => Settled(t)'
  BY <1>2 DEF CallsOf, Settled, Calls
<1>5. CASE calls[c].filed /\ CallDone(r)
  <2>1. SeedTypes'
    BY <1>2, <1>5, CallDoneTypes DEF SeedTypes
  <2>2. tidy'[r] => OnCourse(duplicates[r], program[r])'
    <3>1. SUFFICES ASSUME tidy[r] PROVE OnCourse(duplicates[r], program[r])'
      BY <1>2
    <3>2. Remaining(rest, type)
      BY <1>1, <1>3, <1>5, <3>1 DEF Underway, Remaining
    <3>3. Remaining(rest, type)'
      BY <1>2, <1>4, <3>2 DEF Remaining
    <3>4. \A q \in 1..2 : q < program[r] => Settled(Programs[q])'
      BY <1>3, <1>4, <3>1
    <3>5. QED
      BY <1>1, <1>2, <1>5, <3>3, <3>4, CallDoneKeepsCourse
  <2>3. ASSUME NEW q \in Runs \ {r} PROVE tidy'[q] => OnCourse(duplicates[q], program[q])'
    <3>1. program'[q] = program[q] /\ duplicates'[q] = duplicates[q]
      BY <1>2, <1>5, CallDoneTypes
    <3>2. QED
      BY <1>2, <3>1, CourseIsKept DEF SeedsInv
  <2>4. QED
    BY <2>1, <2>2, <2>3 DEF SeedsInv, TidyRuns
<1>6. CASE Turns(r, "delete", c, rest) /\ program' = program
  <2>1. PICK step : step = [do |-> "delete", call |-> c, rest |-> rest]
    OBVIOUS
  <2>2. step \in Step /\ duplicates' = [duplicates EXCEPT ![r] = step]
    BY <1>1, <1>2, <1>6, <2>1 DEF SeedTypes, Step, Turns
  <2>3. SeedTypes'
    BY <1>2, <1>6, <2>2 DEF SeedTypes
  <2>4. tidy'[r] => OnCourse(duplicates[r], program[r])'
    <3>1. SUFFICES ASSUME tidy[r] PROVE OnCourse(duplicates[r], program[r])'
      BY <1>2
    <3>2. PICK p : p = program[r]
      OBVIOUS
    <3>3. StepIsCurrent(step, type)
      BY <1>1, <1>3, <2>1, <3>1 DEF StepIsCurrent, Underway
    <3>4. OnCourse(step, p)
      BY <1>1, <1>3, <3>1, <3>2, <3>3 DEF OnCourse
    <3>5. OnCourse(step, p)'
      BY <1>2, <3>4
        DEF OnCourse, Settled, StepIsCurrent, Underway, CallsOf, Calls, OldestOf
    <3>6. duplicates'[r] = step /\ program'[r] = p
      BY <1>2, <1>6, <2>2, <3>2 DEF SeedTypes
    <3>7. QED
      BY <3>5, <3>6
  <2>5. ASSUME NEW q \in Runs \ {r} PROVE tidy'[q] => OnCourse(duplicates[q], program[q])'
    <3>1. duplicates'[q] = duplicates[q]
      BY <1>2, <2>2 DEF SeedTypes
    <3>2. QED
      BY <1>2, <1>6, <3>1, CourseIsKept DEF SeedsInv
  <2>6. QED
    BY <2>3, <2>4, <2>5 DEF SeedsInv, TidyRuns
<1>7. QED
  BY <1>1, <1>5, <1>6 DEF CountsApplications

\* A duplicate that is deleted leaves the program, and nothing else changes.
LEMMA DeletionKeeps ==
    ASSUME SeedsInv, NEW r \in Runs, DeletesCall(r)
    PROVE  SeedsInv'
<1>1. PICK type, c, row : /\ type = Programs[program[r]]
                          /\ c = duplicates[r].call
                          /\ row = [calls[c] EXCEPT !.there = FALSE]
  OBVIOUS
<1>2. /\ program[r] \in 1..2 /\ duplicates[r].do = "delete"
      /\ calls' = [calls EXCEPT ![c] = row]
      /\ CallDone(r) /\ Disturbs(r) /\ SeedTypes
  BY <1>1 DEF DeletesCall, Handles, SeedsInv
<1>3. ASSUME c \in Calls PROVE row \in Call /\ ~row.there /\ row.type = calls[c].type
  <2>1. calls[c] \in Call
    BY <1>2, <1>3 DEF SeedTypes, Calls
  <2>2. QED
    BY <1>1, <2>1 DEF Call
<1>4. calls' \in Seq(Call)
  BY <1>2, <1>3, UpdateKeepsTypes DEF SeedTypes
<1>5. SeedTypes'
  BY <1>2, <1>4, DisturbingTypes
<1>6. ASSUME tidy[r] PROVE OnCourse(duplicates[r], program[r])'
  <2>1. PICK rest, step : rest = duplicates[r].rest /\ step = duplicates[r]
    OBVIOUS
  <2>2. /\ \A q \in 1..2 : q < program[r] => Settled(Programs[q])
        /\ c \in CallsOf(type) /\ rest \subseteq CallsOf(type)
        /\ Underway(step, type)
    BY <1>1, <1>2, <1>6, <2>1 DEF SeedsInv, TidyRuns, OnCourse, StepIsCurrent
  <2>3. c \in Calls /\ calls[c].type = type
    BY <2>2 DEF CallsOf
  <2>4. /\ \A d \in Calls \ {c} : calls'[d] = calls[d]
        /\ CallsOf(type)' = CallsOf(type) \ {c}
        /\ \A other : other # type /\ Settled(other) => Settled(other)'
    <3>1. row \in Call /\ row.type = type /\ ~row.there /\ calls \in Seq(Call)
      BY <1>2, <1>3, <2>3 DEF SeedTypes
    <3>2. QED
      BY <1>2, <2>2, <3>1, UpdateOfOneCall
  <2>5. Remaining(rest \ {c}, type)'
    <3>1. CallsOf(type) \subseteq Calls
      BY DEF CallsOf
    <3>2. step.call = c /\ step.rest = rest
      BY <1>1, <2>1
    <3>3. PICK e \in CallsOf(type) :
            /\ e # c /\ e \notin rest
            /\ calls[e].open
            /\ \A d \in CallsOf(type) \ {e} :
                  d > e /\ (calls[d].filed \/ d = c \/ d \in rest)
      BY <2>2, <3>2 DEF Underway
    <3>4. e \in CallsOf(type)' /\ calls'[e].open
      BY <2>4, <3>1, <3>3
    <3>5. \A d \in CallsOf(type)' \ {e} :
             d > e /\ (calls'[d].filed \/ d \in rest \ {c})
      BY <2>4, <3>1, <3>3
    <3>6. QED
      BY <2>2, <2>4, <3>3, <3>4, <3>5 DEF Remaining
  <2>6. \A q \in 1..2 : q < program[r] => Settled(Programs[q])'
    BY <1>1, <1>2, <2>2, <2>4, ProgramsDiffer
  <2>7. rest \ {c} = rest
    BY <1>1, <1>2, <1>6, <2>1 DEF SeedsInv, TidyRuns, OnCourse, StepIsCurrent
  <2>8. QED
    BY <1>1, <1>2, <2>1, <2>5, <2>6, <2>7, CallDoneKeepsCourse
<1>7. QED
  BY <1>2, <1>5, <1>6, OneTidyRun

\* Every step of a run keeps the invariant.
LEMMA RunKeeps ==
    ASSUME SeedsInv, NEW r \in Runs, RunNext(r)
    PROVE  SeedsInv'
<1>1. CASE Starts(r)
  BY <1>1, QuietStepKeeps DEF Starts, callVars
<1>2. CASE Interrupted(r)
  BY <1>2, EndKeeps DEF Interrupted
<1>3. CASE Looks(r)
  BY <1>3, QuietStepKeeps DEF Looks, callVars
<1>4. CASE Inserts(r)
  BY <1>4, QuietStepKeeps, EndKeeps DEF Inserts, Fails, callVars, recordVars
<1>5. CASE ChoosesCall(r)
  BY <1>5, QuietStepKeeps DEF ChoosesCall, recordVars
<1>6. CASE ChecksCall(r)
  BY <1>6, QuietStepKeeps DEF ChecksCall, callVars, recordVars
<1>7. CASE RequiresDocuments(r)
  BY <1>7, QuietStepKeeps, EndKeeps DEF RequiresDocuments, Fails, callVars, recordVars
<1>8. QED
  BY <1>1, <1>2, <1>3, <1>4, <1>5, <1>6, <1>7, BeginningKeeps, SelectionKeeps,
     InsertionKeeps, OpeningKeeps, CountingKeeps, DeletionKeeps, EndingProgramsKeeps
     DEF RunNext

\* Administrators disturb every run, teams none.
LEMMA ApplicationKeeps ==
    ASSUME SeedsInv, ApplicationNext
    PROVE  SeedsInv'
<1>1. ASSUME calls' \in Seq(Call), tidy' = [q \in Runs |-> FALSE],
             UNCHANGED <<program, duplicates>>
      PROVE  SeedsInv'
  <2>1. SeedTypes'
    BY <1>1 DEF SeedsInv, SeedTypes
  <2>2. TidyRuns'
    BY <1>1 DEF TidyRuns
  <2>3. QED
    BY <2>1, <2>2 DEF SeedsInv
<1>2. ASSUME NEW c \in Calls PROVE calls \in Seq(Call) /\ calls[c] \in Call
  BY DEF SeedsInv, SeedTypes, Calls
<1>3. ASSUME NEW type \in Types, CreateCall(type) PROVE SeedsInv'
  <2>1. PICK row : row = [type |-> type, open |-> FALSE, filed |-> FALSE, there |-> TRUE]
    OBVIOUS
  <2>2. row \in Call
    BY <2>1 DEF Call
  <2>3. calls' \in Seq(Call)
    BY <1>3, <2>1, <2>2 DEF SeedsInv, SeedTypes, CreateCall
  <2>4. QED
    BY <1>1, <1>3, <2>3 DEF CreateCall, callVars
<1>4. ASSUME NEW c \in Calls, NEW open \in BOOLEAN, SetOpen(c, open) PROVE SeedsInv'
  <2>1. PICK row : row = [calls[c] EXCEPT !.open = open]
    OBVIOUS
  <2>2. row \in Call
    BY <1>2, <2>1 DEF Call
  <2>3. calls' \in Seq(Call)
    BY <1>2, <1>4, <2>1, <2>2, UpdateKeepsTypes DEF SetOpen
  <2>4. QED
    BY <1>1, <1>4, <2>3 DEF SetOpen, callVars
<1>5. ASSUME NEW c \in Calls, FilesApplication(c) PROVE SeedsInv'
  <2>1. PICK row : row = [calls[c] EXCEPT !.filed = TRUE]
    OBVIOUS
  <2>2. row \in Call
    BY <1>2, <2>1 DEF Call
  <2>3. /\ calls' = [calls EXCEPT ![c] = [calls[c] EXCEPT !.filed = TRUE]]
        /\ UNCHANGED <<program, duplicates, tidy>>
    BY <1>5 DEF FilesApplication, callVars, recordVars
  <2>4. calls' \in Seq(Call)
    BY <1>2, <2>1, <2>2, <2>3, UpdateKeepsTypes
  <2>5. SeedTypes'
    BY <2>3, <2>4 DEF SeedsInv, SeedTypes
  <2>6. ASSUME NEW r \in Runs, tidy'[r] PROVE OnCourse(duplicates[r], program[r])'
    <3>1. PICK step, p : step = duplicates[r] /\ p = program[r]
      OBVIOUS
    <3>2. OnCourse(step, p)
      BY <2>3, <2>6, <3>1 DEF SeedsInv, TidyRuns
    <3>3. OnCourse(step, p)'
      BY <1>2, <2>3, <3>2, FilingKeepsCourse
    <3>4. QED
      BY <2>3, <3>1, <3>3
  <2>7. QED
    BY <2>5, <2>6 DEF SeedsInv, TidyRuns
<1>6. QED
  BY <1>3, <1>4, <1>5 DEF ApplicationNext

LEMMA SeedsInvHolds == SeedsSpec => []SeedsInv
<1>1. SeedsInv /\ UNCHANGED seedVars => SeedsInv'
  BY QuietStepKeeps DEF seedVars, callVars, recordVars
<1>2. SeedsInv /\ [SeedsNext]_seedVars => SeedsInv'
  BY <1>1, RunKeeps, ApplicationKeeps DEF SeedsNext
<1>3. QED
  BY SeedsInitHolds, <1>2, PTL DEF SeedsSpec

\* Whatever calls earlier and overlapping seedings and administrators left
\* behind, and whoever applies meanwhile, a callsSeed nobody disturbs leaves
\* the oldest call of each program, open, and of the others those that
\* somebody applied for.
THEOREM SeedingLeavesOneCall == SeedsSpec => []SeedLeavesOneCall
<1>1. SeedsInv => SeedLeavesOneCall
  BY DEF SeedsInv, TidyRuns, OnCourse, Settled, SeedLeavesOneCall
<1>2. QED
  BY SeedsInvHolds, <1>1, PTL

-----------------------------------------------------------------------------
(***************************************************************************)
(* A seeding that is alone                                                 *)
(***************************************************************************)
\* Where dev.ts inserts the rows of a fixture.
Place ==
    [Superadmin |-> 2, SeedOrganization |-> 8, SeedOwner |-> 10, SeedItems |-> 11,
     Universities |-> 13, Faculties |-> 14, Specializations |-> 15, Organizations |-> 16,
     SystemUsers |-> 17, CompanyUsers |-> 18, Students |-> 19, Profiles |-> 20,
     Skills |-> 21, Teams |-> 22, Members |-> 23, BacklogItems |-> 24,
     TeamApplications |-> 25, ActiveProject |-> 26, ProjectMilestones |-> 27,
     MentoringNotes |-> 28, PoReview |-> 29, NewProject |-> 30,
     Applications |-> 33, Evaluations |-> 34, NeedsInfo |-> 35, StatusEvents |-> 36,
     Milestones |-> 37, MentorshipNotes |-> 38, Sections |-> 39,
     ExtraStaff |-> 40, ExtraOrganizations |-> 41, ExtraStudents |-> 42,
     ExtraProfiles |-> 43, CuratedFiles |-> 44, ExtraTeams |-> 45, ExtraItems |-> 46,
     ExtraApplications |-> 48, ApplicationTalk |-> 49,
     ExtraProjects |-> 50, ProjectTalk |-> 51]
Placed == DOMAIN Place

\* What a fixture's rows are before a script inserts them.
Others(h) == IF h \in Foreign THEN {"other"} ELSE {}

\* The rows of a fixture are there.  From the users on, which later rows name by
\* identifiers the run made up, they are its own or somebody else has the keys.
Has(r, h) ==
    /\ rows[h] # {}
    /\ Place[h] > 16 => r \in rows[h] \/ "other" \in rows[h]

\* What the variables of a run hold, and that it looks up its call late.
LoneTypes ==
    /\ rows \in [Fixtures -> SUBSET ({"other"} \cup Runs)]
    /\ pc \in [Runs -> Nat]
    /\ \A r \in Runs : pc[r] <= Len(Script(r)) + 1
    /\ failed \in [Runs -> Nat]
    /\ skipped \in [Runs -> BOOLEAN]
    /\ alone \in [Runs -> BOOLEAN]
    /\ chosen \in [Runs -> Nat \cup {None}]
    /\ \A r \in Runs \ started : pc[r] = 0 /\ failed[r] = 0 /\ chosen[r] = None
    /\ \A r \in Runs : skipped[r] => pc[r] = 52
    /\ \A r \in Runs : pc[r] \in 1..5 => chosen[r] = None
    /\ \A r \in Runs : pc[r] = 4 => program[r] \in 1..3

\* What comes after the marker comes after it in every run.
MarkerComesFirst ==
    /\ rows["SystemUsers"] = {} =>
          \A h \in Placed : Place[h] > 17 => rows[h] \subseteq Others(h)
    /\ \A r \in DevRuns : pc[r] > 17 => rows["SystemUsers"] # {}

\* The items of 003 come after their organisation and its owner.
OwnerComesFirst ==
    /\ rows["SeedItems"] # {} => rows["SeedOrganization"] # {} /\ rows["SeedOwner"] # {}
    /\ \A r \in DevRuns : pc[r] \in 9..11 => rows["SeedOrganization"] # {}
    /\ \A r \in DevRuns : pc[r] = 11 => rows["SeedOwner"] # {}

\* The run deletes another call than the one it keeps.
Spares(step, type) ==
    /\ step.do = "insert" => step.rest = {}
    /\ step.do \in {"open", "count", "delete"} =>
          /\ step.call \in CallsOf(type)
          /\ step.rest \subseteq CallsOf(type) \ {step.call}
    /\ step.do \in {"count", "delete"} =>
          CallsOf(type) \ (step.rest \cup {step.call}) # {}

\* A call for Program A is there from callsSeed on.
CallIsThere(r) ==
    /\ pc[r] = 4 /\ program[r] > 1 => CallsOf("PROGRAM_A") # {}
    /\ pc[r] = 4 /\ program[r] \in 1..2 => Spares(duplicates[r], Programs[program[r]])
    /\ pc[r] = 5 => CallsOf("PROGRAM_A") # {}
    /\ pc[r] > 5 => chosen[r] \in CallsOf("PROGRAM_A")

\* Up to its place dev.ts has left no gap, and after the marker found none of
\* its own rows.
DevIsWhole(r) ==
    /\ \A h \in Placed : Place[h] < pc[r] /\ Place[h] < 12 =>
          rows[h] # {} \/ (Place[h] > 7 /\ pc[r] <= 12 /\ rows["SystemUsers"] # {})
    /\ pc[r] = 10 => rows["SeedOwner"] = {}
    /\ pc[r] > 12 =>
          \A h \in Placed :
              /\ Place[h] \in 13..(pc[r] - 1) => Has(r, h)
              /\ Place[h] > 16 /\ Place[h] >= pc[r] => rows[h] \subseteq Others(h)

\* The same of main.ts.
BaselineIsWhole(r) ==
    /\ pc[r] > 2 => rows["Superadmin"] # {}
    /\ pc[r] > 7 => rows["Domains"] # {}

\* What holds of a run that is alone.
Lone(r) ==
    /\ failed[r] # 0 =>
          /\ pc[r] = 0
          /\ \E h \in Script(r)[failed[r]].names \cap Fixtures : "other" \in rows[h]
    /\ Running(r) => /\ \A q \in Runs \ {r} : ~Running(q)
                     /\ CallIsThere(r)
    /\ pc[r] = 2 => rows["Superadmin"] = {}
    /\ r \in DevRuns /\ ~skipped[r] => DevIsWhole(r)
    /\ r \notin DevRuns => BaselineIsWhole(r)

LoneRuns == \A r \in Runs : alone[r] => Lone(r)

LoneInv == SeedsInv /\ LoneTypes /\ MarkerComesFirst /\ OwnerComesFirst /\ LoneRuns

-----------------------------------------------------------------------------
(***************************************************************************)
(* What stands where in the scripts                                        *)
(***************************************************************************)
\* Where the instructions of two pieces of a script stand.
LEMMA Pieces ==
    ASSUME NEW S, NEW s \in Seq(S), NEW t \in Seq(S), NEW u, u = s \o t
    PROVE  /\ u \in Seq(S)
           /\ Len(u) = Len(s) + Len(t)
           /\ \A i \in 1..Len(s) : u[i] = s[i]
           /\ \A i \in 1..Len(t) : u[Len(s) + i] = t[i]
OBVIOUS

\* All that the scripts are made of.
Instructions ==
    {Universities, Faculties, Specializations, Organizations, SystemUsers,
     CompanyUsers, Students, Profiles, Skills, Teams, Members,
     BacklogItems, TeamApplications, ActiveProject, ProjectMilestones,
     MentoringNotes, PoReview, NewProject, ChooseCall, Applications,
     Evaluations, NeedsInfo, StatusEvents, Milestones, MentorshipNotes,
     Sections, ExtraStaff, ExtraOrganizations, ExtraStudents,
     ExtraProfiles, CuratedFiles, ExtraTeams, ExtraItems,
     ExtraApplications, ApplicationTalk, ExtraProjects, ProjectTalk,
     Superadmin, SeedOrganization, SeedOwner, SeedItems, Domains,
     [do |-> "callsSeed"], [do |-> "programs"], [do |-> "requireDocuments"],
     [do |-> "withCall", skip |-> 7], [do |-> "withCall", skip |-> 2],
     [do |-> "unless", fixtures |-> {"Superadmin"}, skip |-> 1],
     [do |-> "unless", fixtures |-> {"SeedOwner"}, skip |-> 1],
     [do |-> "unless", fixtures |-> {"SystemUsers"}, skip |-> 39],
     [do |-> "unless", fixtures |-> {"SeedItems", "BacklogItems", "ExtraItems"},
      skip |-> 4]}

\* Where the instructions of a guarded piece stand.
LEMMA GuardedAt ==
    ASSUME NEW fixtures, NEW s \in Seq(Instructions), NEW first,
           first = [do |-> "unless", fixtures |-> fixtures, skip |-> Len(s)],
           first \in Instructions, NEW t, t = Unless(fixtures, s)
    PROVE  /\ t \in Seq(Instructions)
           /\ Len(t) = Len(s) + 1
           /\ t[1] = first
           /\ \A i \in 1..Len(s) : t[i + 1] = s[i]
<1>1. <<first>> \in Seq(Instructions) /\ Len(<<first>>) = 1 /\ <<first>>[1] = first
  OBVIOUS
<1>2. t = <<first>> \o s
  BY DEF Unless
<1>3. QED
  BY <1>1, <1>2, Pieces

LEMMA FixturesAt ==
    ASSUME NEW s, s = DevFixtures
    PROVE  /\ s \in Seq(Instructions)
           /\ Len(s) = 39
           /\ s[1] = Universities /\ s[2] = Faculties /\ s[3] = Specializations
           /\ s[4] = Organizations /\ s[5] = SystemUsers /\ s[6] = CompanyUsers
           /\ s[7] = Students /\ s[8] = Profiles /\ s[9] = Skills /\ s[10] = Teams
           /\ s[11] = Members /\ s[12] = BacklogItems /\ s[13] = TeamApplications
           /\ s[14] = ActiveProject /\ s[15] = ProjectMilestones
           /\ s[16] = MentoringNotes /\ s[17] = PoReview /\ s[18] = NewProject
           /\ s[19] = ChooseCall /\ s[20] = [do |-> "withCall", skip |-> 7]
           /\ s[21] = Applications /\ s[22] = Evaluations /\ s[23] = NeedsInfo
           /\ s[24] = StatusEvents /\ s[25] = Milestones /\ s[26] = MentorshipNotes
           /\ s[27] = Sections /\ s[28] = ExtraStaff /\ s[29] = ExtraOrganizations
           /\ s[30] = ExtraStudents /\ s[31] = ExtraProfiles /\ s[32] = CuratedFiles
           /\ s[33] = ExtraTeams /\ s[34] = ExtraItems
           /\ s[35] = [do |-> "withCall", skip |-> 2] /\ s[36] = ExtraApplications
           /\ s[37] = ApplicationTalk /\ s[38] = ExtraProjects
           /\ s[39] = ProjectTalk
<1>1. PICK a, b, c, d, e :
        /\ a = <<Universities, Faculties, Specializations, Organizations, SystemUsers,
               CompanyUsers, Students, Profiles, Skills, Teams, Members,
               BacklogItems, TeamApplications, ActiveProject, ProjectMilestones,
               MentoringNotes, PoReview, NewProject, ChooseCall>>
        /\ b = WithCall(<<Applications, Evaluations, NeedsInfo, StatusEvents, Milestones,
               MentorshipNotes, Sections>>)
        /\ c = <<ExtraStaff, ExtraOrganizations, ExtraStudents, ExtraProfiles,
               CuratedFiles, ExtraTeams, ExtraItems>>
        /\ d = WithCall(<<ExtraApplications, ApplicationTalk>>)
        /\ e = <<ExtraProjects, ProjectTalk>>
  OBVIOUS
<1>2. a \in Seq(Instructions) /\ c \in Seq(Instructions) /\ e \in Seq(Instructions)
  BY <1>1 DEF Instructions
<1>3. b \in Seq(Instructions) /\ d \in Seq(Instructions)
  BY <1>1 DEF Instructions, WithCall
<1>4. DevFixtures = a \o b \o c \o d \o e
  BY <1>1 DEF DevFixtures
<1>5. DevFixtures \in Seq(Instructions)
  BY <1>2, <1>3, <1>4
<1>6. QED
  BY <1>5 DEF DevFixtures, WithCall

LEMMA DevAt ==
    ASSUME NEW s, s = Dev
    PROVE  /\ Len(s) = 51
           /\ s[1] = [do |-> "unless", fixtures |-> {"Superadmin"}, skip |-> 1]
           /\ s[2] = Superadmin
           /\ s[3].do = "callsSeed" /\ s[4].do = "programs"
           /\ s[5] = ChooseCall /\ s[6].do = "requireDocuments"
           /\ s[7] = [do |-> "unless", skip |-> 4,
                      fixtures |-> {"SeedItems", "BacklogItems", "ExtraItems"}]
           /\ s[8] = SeedOrganization
           /\ s[9] = [do |-> "unless", fixtures |-> {"SeedOwner"}, skip |-> 1]
           /\ s[10] = SeedOwner /\ s[11] = SeedItems
           /\ s[12] = [do |-> "unless", fixtures |-> {"SystemUsers"}, skip |-> 39]
           /\ s[13] = Universities /\ s[14] = Faculties /\ s[15] = Specializations
           /\ s[16] = Organizations /\ s[17] = SystemUsers /\ s[18] = CompanyUsers
           /\ s[19] = Students /\ s[20] = Profiles /\ s[21] = Skills
           /\ s[22] = Teams /\ s[23] = Members /\ s[24] = BacklogItems
           /\ s[25] = TeamApplications /\ s[26] = ActiveProject
           /\ s[27] = ProjectMilestones /\ s[28] = MentoringNotes
           /\ s[29] = PoReview /\ s[30] = NewProject /\ s[31] = ChooseCall
           /\ s[32] = [do |-> "withCall", skip |-> 7] /\ s[33] = Applications
           /\ s[34] = Evaluations /\ s[35] = NeedsInfo /\ s[36] = StatusEvents
           /\ s[37] = Milestones /\ s[38] = MentorshipNotes /\ s[39] = Sections
           /\ s[40] = ExtraStaff /\ s[41] = ExtraOrganizations
           /\ s[42] = ExtraStudents /\ s[43] = ExtraProfiles /\ s[44] = CuratedFiles
           /\ s[45] = ExtraTeams /\ s[46] = ExtraItems
           /\ s[47] = [do |-> "withCall", skip |-> 2] /\ s[48] = ExtraApplications
           /\ s[49] = ApplicationTalk /\ s[50] = ExtraProjects
           /\ s[51] = ProjectTalk
<1>1. PICK a, b, c, d, e :
        /\ a = SeedSuperadmin /\ b = SeedCalls /\ c = SeedBacklog /\ d = SeedFixtures
        /\ e = DevFixtures
  OBVIOUS
<1>2. /\ a \in Seq(Instructions) /\ Len(a) = 2
      /\ a[1] = [do |-> "unless", fixtures |-> {"Superadmin"}, skip |-> 1]
      /\ a[2] = Superadmin
  BY <1>1 DEF SeedSuperadmin, Unless, Instructions
<1>3. /\ b \in Seq(Instructions) /\ Len(b) = 4
      /\ b[1].do = "callsSeed" /\ b[2].do = "programs"
      /\ b[3] = ChooseCall /\ b[4].do = "requireDocuments"
  BY <1>1 DEF SeedCalls, Instructions
<1>4. /\ c \in Seq(Instructions) /\ Len(c) = 5
      /\ c[1] = [do |-> "unless", skip |-> 4,
                 fixtures |-> {"SeedItems", "BacklogItems", "ExtraItems"}]
      /\ c[2] = SeedOrganization
      /\ c[3] = [do |-> "unless", fixtures |-> {"SeedOwner"}, skip |-> 1]
      /\ c[4] = SeedOwner /\ c[5] = SeedItems
  BY <1>1 DEF SeedBacklog, Unless, Instructions
<1>5. e \in Seq(Instructions) /\ Len(e) = 39
  BY <1>1, FixturesAt
<1>6. PICK first : first = [do |-> "unless", fixtures |-> {"SystemUsers"}, skip |-> 39]
  OBVIOUS
<1>7. first \in Instructions
  BY <1>6 DEF Instructions
<1>8. d = Unless({"SystemUsers"}, e) /\ first.skip = Len(e)
  BY <1>1, <1>5, <1>6 DEF SeedFixtures
<1>9. /\ d \in Seq(Instructions) /\ Len(d) = 40 /\ d[1] = first
      /\ \A i \in 1..39 : d[i + 1] = e[i]
  <2>1. first = [do |-> "unless", fixtures |-> {"SystemUsers"}, skip |-> Len(e)]
    BY <1>5, <1>6
  <2>2. /\ d \in Seq(Instructions) /\ Len(d) = Len(e) + 1 /\ d[1] = first
        /\ \A i \in 1..Len(e) : d[i + 1] = e[i]
    <3>1. e \in Seq(Instructions) /\ d = Unless({"SystemUsers"}, e)
      BY <1>5, <1>8
    <3>2. PICK fixtures : fixtures = {"SystemUsers"}
      OBVIOUS
    <3>3. /\ first = [do |-> "unless", fixtures |-> fixtures, skip |-> Len(e)]
          /\ d = Unless(fixtures, e)
      BY <2>1, <3>1, <3>2
    <3>4. QED
      BY <1>7, <3>1, <3>3, GuardedAt
  <2>3. QED
    BY <1>5, <2>2
<1>10. PICK u, v : u = a \o b /\ v = u \o c
  OBVIOUS
<1>11. /\ u \in Seq(Instructions) /\ Len(u) = 6
       /\ \A i \in 1..2 : u[i] = a[i]
       /\ \A i \in 1..4 : u[2 + i] = b[i]
  <2>1. /\ u \in Seq(Instructions) /\ Len(u) = Len(a) + Len(b)
        /\ \A i \in 1..Len(a) : u[i] = a[i]
        /\ \A i \in 1..Len(b) : u[Len(a) + i] = b[i]
    <3>1. a \in Seq(Instructions) /\ b \in Seq(Instructions) /\ u = a \o b
      BY <1>2, <1>3, <1>10
    <3>2. QED
      BY <3>1, Pieces
  <2>2. QED
    BY <1>2, <1>3, <2>1
<1>12. /\ v \in Seq(Instructions) /\ Len(v) = 11
       /\ \A i \in 1..6 : v[i] = u[i]
       /\ \A i \in 1..5 : v[6 + i] = c[i]
  <2>1. /\ v \in Seq(Instructions) /\ Len(v) = Len(u) + Len(c)
        /\ \A i \in 1..Len(u) : v[i] = u[i]
        /\ \A i \in 1..Len(c) : v[Len(u) + i] = c[i]
    <3>1. u \in Seq(Instructions) /\ c \in Seq(Instructions) /\ v = u \o c
      BY <1>4, <1>10, <1>11
    <3>2. QED
      BY <3>1, Pieces
  <2>2. QED
    BY <1>4, <1>11, <2>1
<1>13. /\ Len(s) = 51
       /\ \A i \in 1..11 : s[i] = v[i]
       /\ \A i \in 1..40 : s[11 + i] = d[i]
  <2>1. s = v \o d
    BY <1>1, <1>10 DEF Dev
  <2>2. /\ Len(s) = Len(v) + Len(d)
        /\ \A i \in 1..Len(v) : s[i] = v[i]
        /\ \A i \in 1..Len(d) : s[Len(v) + i] = d[i]
    <3>1. v \in Seq(Instructions) /\ d \in Seq(Instructions)
      BY <1>9, <1>12
    <3>2. QED
      BY <2>1, <3>1, Pieces
  <2>3. QED
    BY <1>9, <1>12, <2>2
<1>14. \A i \in 1..39 : s[12 + i] = e[i]
  <2>1. SUFFICES ASSUME NEW i \in 1..39 PROVE s[12 + i] = e[i]
    OBVIOUS
  <2>2. i + 1 \in 1..40 /\ 11 + (i + 1) = 12 + i
    OBVIOUS
  <2>3. s[11 + (i + 1)] = d[i + 1]
    BY <1>13, <2>2
  <2>4. d[i + 1] = e[i]
    BY <1>9
  <2>5. QED
    BY <2>2, <2>3, <2>4
<1>15. /\ s[1] = a[1] /\ s[2] = a[2]
       /\ s[3] = b[1] /\ s[4] = b[2] /\ s[5] = b[3] /\ s[6] = b[4]
       /\ s[7] = c[1] /\ s[8] = c[2] /\ s[9] = c[3] /\ s[10] = c[4] /\ s[11] = c[5]
       /\ s[12] = d[1]
  <2>1. u[1] = a[1] /\ u[2] = a[2] /\ u[3] = b[1] /\ u[4] = b[2] /\ u[5] = b[3] /\ u[6] = b[4]
    BY <1>11
  <2>2. /\ v[1] = u[1] /\ v[2] = u[2] /\ v[3] = u[3] /\ v[4] = u[4] /\ v[5] = u[5]
        /\ v[6] = u[6] /\ v[7] = c[1] /\ v[8] = c[2] /\ v[9] = c[3] /\ v[10] = c[4]
        /\ v[11] = c[5]
    BY <1>12
  <2>3. QED
    BY <1>13, <2>1, <2>2
<1>16. /\ s[13] = e[1] /\ s[14] = e[2] /\ s[15] = e[3] /\ s[16] = e[4] /\ s[17] = e[5]
       /\ s[18] = e[6] /\ s[19] = e[7] /\ s[20] = e[8] /\ s[21] = e[9] /\ s[22] = e[10]
       /\ s[23] = e[11] /\ s[24] = e[12] /\ s[25] = e[13] /\ s[26] = e[14] /\ s[27] = e[15]
       /\ s[28] = e[16] /\ s[29] = e[17] /\ s[30] = e[18] /\ s[31] = e[19] /\ s[32] = e[20]
       /\ s[33] = e[21] /\ s[34] = e[22] /\ s[35] = e[23] /\ s[36] = e[24] /\ s[37] = e[25]
       /\ s[38] = e[26] /\ s[39] = e[27] /\ s[40] = e[28] /\ s[41] = e[29] /\ s[42] = e[30]
       /\ s[43] = e[31] /\ s[44] = e[32] /\ s[45] = e[33] /\ s[46] = e[34] /\ s[47] = e[35]
       /\ s[48] = e[36] /\ s[49] = e[37] /\ s[50] = e[38] /\ s[51] = e[39]
  BY <1>14
<1>17. QED
  BY <1>1, <1>2, <1>3, <1>4, <1>6, <1>9, <1>13, <1>15, <1>16, FixturesAt

LEMMA BaselineAt ==
    ASSUME NEW s, s = Baseline
    PROVE  /\ Len(s) = 7
           /\ s[1] = [do |-> "unless", fixtures |-> {"Superadmin"}, skip |-> 1]
           /\ s[2] = Superadmin
           /\ s[3].do = "callsSeed" /\ s[4].do = "programs"
           /\ s[5] = ChooseCall /\ s[6].do = "requireDocuments"
           /\ s[7] = Domains
BY DEF Baseline, SeedSuperadmin, SeedCalls, Unless

\* The instructions that insert nothing
Controls == {1, 3, 4, 5, 6, 7, 9, 12, 31, 32, 47}

\* Instruction i can stand at place k: what it refers to comes before it.
Fits(i, k) ==
    /\ i.do = "insert"
    /\ i.fixture \in Placed /\ Place[i.fixture] = k
    /\ i.conflict = "error" => k \in {2, 10}
    /\ k < 13 => /\ i.names = {}
                 /\ i.finds = IF k > 9 THEN {"SeedOrganization"} ELSE {}
    /\ k > 12 => /\ \A h \in i.names \ {"Call"} : h \in Placed /\ Place[h] \in 17..(k - 1)
                 /\ \A h \in i.finds : h \in Placed /\ Place[h] \in 13..(k - 1)

LEMMA FixturesFit ==
    \A k \in 1..51 \ Controls : Fits(Dev[k], k)
<1>1. /\ Fits(Superadmin, 2)
      /\ Fits(SeedOrganization, 8)
      /\ Fits(SeedOwner, 10)
      /\ Fits(SeedItems, 11)
  BY DEF Fits, Insert, Place, Placed, Superadmin, SeedOrganization, SeedOwner, SeedItems
<1>2. /\ Fits(Universities, 13)
      /\ Fits(Faculties, 14)
      /\ Fits(Specializations, 15)
      /\ Fits(Organizations, 16)
  BY DEF Fits, Insert, Place, Placed, Universities, Faculties, Specializations, Organizations
<1>3. /\ Fits(SystemUsers, 17)
      /\ Fits(CompanyUsers, 18)
      /\ Fits(Students, 19)
      /\ Fits(Profiles, 20)
  BY DEF Fits, Insert, Place, Placed, SystemUsers, CompanyUsers, Students, Profiles
<1>4. /\ Fits(Skills, 21)
      /\ Fits(Teams, 22)
      /\ Fits(Members, 23)
      /\ Fits(BacklogItems, 24)
  BY DEF Fits, Insert, Place, Placed, Skills, Teams, Members, BacklogItems
<1>5. /\ Fits(TeamApplications, 25)
      /\ Fits(ActiveProject, 26)
      /\ Fits(ProjectMilestones, 27)
      /\ Fits(MentoringNotes, 28)
  BY DEF Fits, Insert, Place, Placed, TeamApplications, ActiveProject, ProjectMilestones, MentoringNotes
<1>6. /\ Fits(PoReview, 29)
      /\ Fits(NewProject, 30)
      /\ Fits(Applications, 33)
      /\ Fits(Evaluations, 34)
  BY DEF Fits, Insert, Place, Placed, PoReview, NewProject, Applications, Evaluations
<1>7. /\ Fits(NeedsInfo, 35)
      /\ Fits(StatusEvents, 36)
      /\ Fits(Milestones, 37)
      /\ Fits(MentorshipNotes, 38)
  BY DEF Fits, Insert, Place, Placed, NeedsInfo, StatusEvents, Milestones, MentorshipNotes
<1>8. /\ Fits(Sections, 39)
      /\ Fits(ExtraStaff, 40)
      /\ Fits(ExtraOrganizations, 41)
      /\ Fits(ExtraStudents, 42)
  BY DEF Fits, Insert, Place, Placed, Sections, ExtraStaff, ExtraOrganizations, ExtraStudents
<1>9. /\ Fits(ExtraProfiles, 43)
      /\ Fits(CuratedFiles, 44)
      /\ Fits(ExtraTeams, 45)
      /\ Fits(ExtraItems, 46)
  BY DEF Fits, Insert, Place, Placed, ExtraProfiles, CuratedFiles, ExtraTeams, ExtraItems
<1>10. /\ Fits(ExtraApplications, 48)
       /\ Fits(ApplicationTalk, 49)
       /\ Fits(ExtraProjects, 50)
       /\ Fits(ProjectTalk, 51)
  BY DEF Fits, Insert, Place, Placed, ExtraApplications, ApplicationTalk, ExtraProjects, ProjectTalk
<1>11. PICK s : s = Dev
  OBVIOUS
<1>12. \A k \in (1..12) \ Controls : Fits(s[k], k)
  BY <1>1, <1>11, DevAt DEF Controls
<1>13. \A k \in (13..20) \ Controls : Fits(s[k], k)
  BY <1>2, <1>3, <1>11, DevAt DEF Controls
<1>14. \A k \in (21..28) \ Controls : Fits(s[k], k)
  BY <1>4, <1>5, <1>11, DevAt DEF Controls
<1>15. \A k \in (29..36) \ Controls : Fits(s[k], k)
  BY <1>6, <1>7, <1>11, DevAt DEF Controls
<1>16. \A k \in (37..44) \ Controls : Fits(s[k], k)
  BY <1>7, <1>8, <1>9, <1>11, DevAt DEF Controls
<1>17. \A k \in (45..51) \ Controls : Fits(s[k], k)
  BY <1>9, <1>10, <1>11, DevAt DEF Controls
<1>18. QED
  BY <1>11, <1>12, <1>13, <1>14, <1>15, <1>16, <1>17 DEF Controls

\* What run r is at when it is at place k.
ScriptAt(r, i, k) ==
    /\ i.do = "unless" =>
          \/ k = 1 /\ i.fixtures = {"Superadmin"} /\ i.skip = 1
          \/ /\ k = 7 /\ r \in DevRuns
             /\ i.fixtures = {"SeedItems", "BacklogItems", "ExtraItems"} /\ i.skip = 4
          \/ k = 9 /\ r \in DevRuns /\ i.fixtures = {"SeedOwner"} /\ i.skip = 1
          \/ k = 12 /\ r \in DevRuns /\ i.fixtures = {"SystemUsers"} /\ i.skip = 39
    /\ i.do = "withCall" => /\ r \in DevRuns
                            /\ (k = 32 /\ i.skip = 7) \/ (k = 47 /\ i.skip = 2)
    /\ i.do = "callsSeed" => k = 3
    /\ i.do = "programs" => k = 4
    /\ i.do = "chooseCall" => k \in {5, 31}
    /\ i.do = "requireDocuments" => k = 6
    /\ i.do = "insert" =>
          \/ r \in DevRuns /\ Fits(i, k)
          \/ r \notin DevRuns /\ k = 2 /\ i = Superadmin
          \/ r \notin DevRuns /\ k = 7 /\ i = Domains

LEMMA ScriptsAt ==
    ASSUME NEW r, NEW s, s = Script(r)
    PROVE  /\ Len(s) = IF r \in DevRuns THEN 51 ELSE 7
           /\ \A k \in 1..Len(s) : ScriptAt(r, s[k], k)
           /\ s[4].do = "programs"
<1>1. CASE r \in DevRuns
  <2>1. s = Dev
    BY <1>1 DEF Script
  <2>2. \A k \in Controls : ScriptAt(r, s[k], k)
    <3>1. /\ ScriptAt(r, s[1], 1) /\ ScriptAt(r, s[7], 7) /\ ScriptAt(r, s[9], 9)
          /\ ScriptAt(r, s[12], 12)
      BY <1>1, <2>1, DevAt DEF ScriptAt
    <3>2. ScriptAt(r, s[32], 32) /\ ScriptAt(r, s[47], 47)
      <4>1. s[32].do = "withCall" /\ s[32].skip = 7 /\ s[47].do = "withCall" /\ s[47].skip = 2
        BY <2>1, DevAt
      <4>2. QED
        BY <1>1, <4>1 DEF ScriptAt
    <3>3. /\ ScriptAt(r, s[3], 3) /\ ScriptAt(r, s[4], 4) /\ ScriptAt(r, s[5], 5)
          /\ ScriptAt(r, s[6], 6) /\ ScriptAt(r, s[31], 31)
      BY <1>1, <2>1, DevAt DEF ScriptAt, ChooseCall
    <3>4. QED
      BY <3>1, <3>2, <3>3 DEF Controls
  <2>3. \A k \in 1..51 \ Controls : ScriptAt(r, s[k], k)
    BY <1>1, <2>1, FixturesFit DEF ScriptAt, Fits
  <2>4. QED
    BY <1>1, <2>1, <2>2, <2>3, DevAt
<1>2. CASE r \notin DevRuns
  <2>1. s = Baseline
    BY <1>2 DEF Script
  <2>2. \A k \in 1..7 : ScriptAt(r, s[k], k)
    BY <1>2, <2>1, BaselineAt DEF ScriptAt, ChooseCall, Superadmin, Domains, Insert
  <2>3. QED
    BY <1>2, <2>1, <2>2, BaselineAt
<1>3. QED
  BY <1>1, <1>2

\* A script is a sequence.
LEMMA ScriptsAreSequences ==
    ASSUME NEW r PROVE Script(r) \in Seq(Instructions)
<1>1. PICK first : first = [do |-> "unless", fixtures |-> {"SystemUsers"}, skip |-> 39]
  OBVIOUS
<1>2. PICK e : e = DevFixtures
  OBVIOUS
<1>3. e \in Seq(Instructions) /\ Len(e) = 39
  BY <1>2, FixturesAt
<1>4. SeedFixtures \in Seq(Instructions)
  BY <1>1, <1>2, <1>3 DEF SeedFixtures, Unless, Instructions
<1>5. /\ SeedSuperadmin \in Seq(Instructions) /\ SeedCalls \in Seq(Instructions)
      /\ SeedBacklog \in Seq(Instructions) /\ <<Domains>> \in Seq(Instructions)
  BY DEF SeedSuperadmin, SeedCalls, SeedBacklog, Unless, Instructions
<1>6. QED
  BY <1>4, <1>5 DEF Script, Dev, Baseline

\* Every fixture that has a place is inserted there.
LEMMA InsertedThere ==
    ASSUME NEW k \in 1..51 \ Controls PROVE Dev[k].fixture \in Fixtures
<1>1. PICK s : s = Dev
  OBVIOUS
<1>2. s[k].do = "insert" /\ k \in 1..Len(s)
  BY <1>1, FixturesFit, DevAt DEF Fits
<1>3. QED
  BY <1>1, <1>2 DEF Fixtures, FixturesOf

LEMMA PlacedAreFixtures == Placed \subseteq Fixtures
<1>1. PICK s : s = Dev
  OBVIOUS
<1>2. {"Superadmin", "SeedOrganization", "SeedOwner", "SeedItems", "Universities", "Faculties", "Specializations", "Organizations"} \subseteq Fixtures
  BY <1>1, InsertedThere, DevAt
     DEF Controls, Insert, Superadmin, SeedOrganization, SeedOwner, SeedItems, Universities, Faculties, Specializations, Organizations
<1>3. {"SystemUsers", "CompanyUsers", "Students", "Profiles", "Skills", "Teams", "Members", "BacklogItems"} \subseteq Fixtures
  BY <1>1, InsertedThere, DevAt
     DEF Controls, Insert, SystemUsers, CompanyUsers, Students, Profiles, Skills, Teams, Members, BacklogItems
<1>4. {"TeamApplications", "ActiveProject", "ProjectMilestones", "MentoringNotes", "PoReview", "NewProject", "Applications", "Evaluations"} \subseteq Fixtures
  BY <1>1, InsertedThere, DevAt
     DEF Controls, Insert, TeamApplications, ActiveProject, ProjectMilestones, MentoringNotes, PoReview, NewProject, Applications, Evaluations
<1>5. {"NeedsInfo", "StatusEvents", "Milestones", "MentorshipNotes", "Sections", "ExtraStaff", "ExtraOrganizations", "ExtraStudents"} \subseteq Fixtures
  BY <1>1, InsertedThere, DevAt
     DEF Controls, Insert, NeedsInfo, StatusEvents, Milestones, MentorshipNotes, Sections, ExtraStaff, ExtraOrganizations, ExtraStudents
<1>6. {"ExtraProfiles", "CuratedFiles", "ExtraTeams", "ExtraItems", "ExtraApplications", "ApplicationTalk", "ExtraProjects", "ProjectTalk"} \subseteq Fixtures
  BY <1>1, InsertedThere, DevAt
     DEF Controls, Insert, ExtraProfiles, CuratedFiles, ExtraTeams, ExtraItems, ExtraApplications, ApplicationTalk, ExtraProjects, ProjectTalk
<1>7. QED
  BY <1>2, <1>3, <1>4, <1>5, <1>6 DEF Placed, Place

LEMMA OtherFixtures == "Domains" \in Fixtures
<1>1. PICK s : s = Baseline
  OBVIOUS
<1>2. Len(s) = 7 /\ s[7].do = "insert" /\ s[7].fixture = "Domains"
  BY <1>1, BaselineAt DEF Domains, Insert
<1>3. QED
  BY <1>1, <1>2 DEF Fixtures, FixturesOf

-----------------------------------------------------------------------------
(***************************************************************************)
(* What a step does to the runs                                            *)
(***************************************************************************)
\* A run that runs is at an instruction of its script.
LEMMA RunningAt ==
    ASSUME LoneTypes, NEW r \in Runs
    PROVE  /\ Len(Script(r)) = IF r \in DevRuns THEN 51 ELSE 7
           /\ Running(r) <=> pc[r] \in 1..(IF r \in DevRuns THEN 51 ELSE 7)
           /\ Running(r) => ScriptAt(r, At(r), pc[r])
           /\ pc[r] = 4 => Running(r)
<1>1. PICK s : s = Script(r)
  OBVIOUS
<1>2. /\ Len(s) = IF r \in DevRuns THEN 51 ELSE 7
      /\ \A k \in 1..Len(s) : ScriptAt(r, s[k], k)
  BY <1>1, ScriptsAt
<1>3. QED
  BY <1>1, <1>2 DEF Running, At

\* A step of run r leaves the other runs where they are, and takes no rows.
OnlyRun(r) ==
    /\ \A q \in Runs \ {r} :
          /\ pc'[q] = pc[q] /\ failed'[q] = failed[q] /\ chosen'[q] = chosen[q]
          /\ skipped'[q] = skipped[q]
          /\ alone'[q] => alone[q] /\ ~Running(q)
    /\ \A h \in Fixtures : rows[h] \subseteq rows'[h]

\* A run that does not run stays as whole as it was.
LEMMA OthersStayWhole ==
    ASSUME LoneInv, NEW r \in Runs, OnlyRun(r), NEW q \in Runs \ {r}, alone'[q]
    PROVE  Lone(q)'
<1>1. /\ alone[q] /\ ~Running(q) /\ Lone(q) /\ pc'[q] = pc[q] /\ failed'[q] = failed[q]
      /\ skipped'[q] = skipped[q]
  BY DEF OnlyRun, LoneInv, LoneRuns
<1>2. pc[q] = 0 \/ pc[q] = IF q \in DevRuns THEN 52 ELSE 8
  <2>1. pc[q] \in Nat /\ pc[q] <= Len(Script(q)) + 1 /\ LoneTypes
    BY DEF LoneInv, LoneTypes
  <2>2. PICK n : n = IF q \in DevRuns THEN 51 ELSE 7
    OBVIOUS
  <2>3. pc[q] <= n + 1 /\ ~(pc[q] \in 1..n)
    <3>1. Len(Script(q)) = n /\ (Running(q) <=> pc[q] \in 1..n)
      BY <2>1, <2>2, RunningAt
    <3>2. QED
      BY <1>1, <2>1, <3>1
  <2>4. n \in Nat /\ pc[q] \in Nat
    BY <2>1, <2>2
  <2>5. pc[q] = 0 \/ pc[q] = n + 1
    BY <2>3, <2>4
  <2>6. QED
    BY <2>2, <2>5
<1>3. ~Running(q)'
  BY <1>1 DEF Running
<1>4. \A h \in Fixtures : rows[h] \subseteq rows'[h]
  BY DEF OnlyRun
<1>5. failed'[q] # 0 =>
        /\ pc'[q] = 0
        /\ \E h \in Script(q)[failed'[q]].names \cap Fixtures : "other" \in rows'[h]
  BY <1>1, <1>4 DEF Lone
<1>6. q \in DevRuns /\ ~skipped'[q] => DevIsWhole(q)'
  <2>1. SUFFICES ASSUME q \in DevRuns, ~skipped[q] PROVE DevIsWhole(q)'
    BY <1>1
  <2>2. DevIsWhole(q)
    BY <1>1, <2>1 DEF Lone
  <2>3. \A h \in Placed : h \in Fixtures /\ Place[h] \in 1..51
    BY PlacedAreFixtures DEF Placed, Place
  <2>4. QED
    BY <1>1, <1>2, <1>4, <2>1, <2>2, <2>3 DEF DevIsWhole, Has
<1>7. q \notin DevRuns => BaselineIsWhole(q)'
  <2>1. "Superadmin" \in Fixtures /\ "Domains" \in Fixtures
    BY PlacedAreFixtures, OtherFixtures DEF Placed, Place
  <2>2. QED
    BY <1>1, <1>4, <2>1 DEF Lone, BaselineIsWhole
<1>8. QED
  BY <1>1, <1>2, <1>3, <1>5, <1>6, <1>7 DEF Lone

LEMMA StepIsLone ==
    ASSUME LoneInv, NEW r \in Runs, OnlyRun(r), SeedsInv', LoneTypes',
           MarkerComesFirst', OwnerComesFirst', alone'[r] => Lone(r)'
    PROVE  LoneInv'
BY OthersStayWhole DEF LoneInv, LoneRuns

LEMMA StartIsLone ==
    ASSUME LoneInv, NEW r \in Runs, Starts(r)
    PROVE  LoneInv'
<1>1. PICK others : others = {q \in Runs \ {r} : Running(q)}
  OBVIOUS
<1>2. /\ r \notin started /\ started' = started \cup {r}
      /\ pc' = [pc EXCEPT ![r] = 1]
      /\ alone' = [q \in Runs |-> IF q = r THEN others = {} ELSE alone[q] /\ q \notin others]
      /\ UNCHANGED <<rows, calls, failed, program, duplicates, chosen, skipped, tidy>>
  BY <1>1 DEF Starts, GoTo, callVars
<1>3. LoneTypes /\ pc \in [Runs -> Nat] /\ alone \in [Runs -> BOOLEAN] /\ SeedsInv
  BY DEF LoneInv, LoneTypes
<1>4. SeedsInv'
  BY <1>2, <1>3, QuietStepKeeps
<1>5. OnlyRun(r)
  BY <1>1, <1>2, <1>3 DEF OnlyRun
<1>6. LoneTypes'
  <2>1. 1 <= Len(Script(r)) + 1
    BY <1>3, RunningAt
  <2>2. alone' \in [Runs -> BOOLEAN]
    BY <1>2, <1>3
  <2>3. pc[r] = 0 /\ failed[r] = 0 /\ chosen[r] = None /\ ~skipped[r]
    BY <1>2, <1>3 DEF LoneTypes
  <2>4. QED
    BY <1>2, <1>3, <2>1, <2>2, <2>3 DEF LoneTypes
<1>7. MarkerComesFirst' /\ OwnerComesFirst'
  BY <1>2, <1>3 DEF LoneInv, MarkerComesFirst, OwnerComesFirst
<1>8. alone'[r] => Lone(r)'
  <2>1. SUFFICES ASSUME alone'[r] PROVE Lone(r)'
    OBVIOUS
  <2>2. pc'[r] = 1 /\ failed'[r] = 0
    BY <1>2, <1>3 DEF LoneTypes
  <2>3. \A q \in Runs \ {r} : ~Running(q)'
    BY <1>1, <1>2, <1>3, <2>1 DEF Running
  <2>4. \A h \in Placed : Place[h] \in 2..51
    BY DEF Placed, Place
  <2>5. CallIsThere(r)'
    BY <2>2 DEF CallIsThere
  <2>6. DevIsWhole(r)'
    BY <2>2, <2>4 DEF DevIsWhole
  <2>7. BaselineIsWhole(r)'
    BY <2>2 DEF BaselineIsWhole
  <2>8. QED
    BY <2>2, <2>3, <2>5, <2>6, <2>7 DEF Lone
<1>9. QED
  BY <1>4, <1>5, <1>6, <1>7, <1>8, StepIsLone

\* A run that ends is not alone, unless an error ended it.
LEMMA EndIsLone ==
    ASSUME LoneInv, NEW r \in Runs, Running(r), Ends(r),
           UNCHANGED <<rows, calls, started>>,
           \/ alone' = [alone EXCEPT ![r] = FALSE] /\ failed' = failed
           \/ /\ alone' = alone /\ failed' = [failed EXCEPT ![r] = pc[r]]
              /\ alone[r] => \E h \in At(r).names \cap Fixtures : "other" \in rows[h]
    PROVE  LoneInv'
<1>1. LoneTypes /\ SeedsInv
  BY DEF LoneInv
<1>2. /\ pc' = [pc EXCEPT ![r] = 0]
      /\ chosen' = [chosen EXCEPT ![r] = None]
      /\ skipped' = [skipped EXCEPT ![r] = FALSE]
      /\ program' = [program EXCEPT ![r] = 0]
  BY DEF Ends, GoTo
<1>3. SeedsInv'
  BY <1>1, EndKeeps
<1>4. OnlyRun(r)
  BY <1>1, <1>2 DEF OnlyRun, LoneTypes, LoneInv, LoneRuns, Lone
<1>5. LoneTypes'
  <2>1. r \in started
    BY <1>1, RunningAt DEF LoneTypes
  <2>2. failed' \in [Runs -> Nat] /\ alone' \in [Runs -> BOOLEAN]
        /\ \A q \in Runs \ {r} : failed'[q] = failed[q]
    <3>1. pc \in [Runs -> Nat] /\ failed \in [Runs -> Nat] /\ alone \in [Runs -> BOOLEAN]
      BY <1>1 DEF LoneTypes
    <3>2. CASE alone' = [alone EXCEPT ![r] = FALSE] /\ failed' = failed
      BY <3>1, <3>2
    <3>3. CASE alone' = alone /\ failed' = [failed EXCEPT ![r] = pc[r]]
      <4>1. pc[r] \in Nat
        BY <3>1
      <4>2. QED
        BY <3>1, <3>3, <4>1
    <3>4. QED
      BY <3>2, <3>3
  <2>3. 0 <= Len(Script(r)) + 1
    BY <1>1, RunningAt
  <2>4. QED
    BY <1>1, <1>2, <2>1, <2>2, <2>3 DEF LoneTypes
<1>6. MarkerComesFirst' /\ OwnerComesFirst'
  BY <1>1, <1>2 DEF LoneInv, LoneTypes, MarkerComesFirst, OwnerComesFirst
<1>7. alone'[r] => Lone(r)'
  <2>1. SUFFICES ASSUME alone'[r] PROVE Lone(r)'
    OBVIOUS
  <2>2. /\ alone[r] /\ failed'[r] = pc[r]
        /\ \E h \in At(r).names \cap Fixtures : "other" \in rows[h]
    BY <1>1, <2>1 DEF LoneTypes
  <2>3. pc'[r] = 0
    BY <1>1, <1>2 DEF LoneTypes
  <2>4. \A h \in Placed : Place[h] \in 2..51
    BY DEF Placed, Place
  <2>5. ~Running(r)'
    BY <1>1, <2>3, RunningAt DEF Running
  <2>6. DevIsWhole(r)' /\ BaselineIsWhole(r)'
    BY <2>3, <2>4 DEF DevIsWhole, BaselineIsWhole
  <2>7. QED
    BY <2>2, <2>3, <2>5, <2>6 DEF Lone, At
<1>8. QED
  BY <1>3, <1>4, <1>5, <1>6, <1>7, StepIsLone

\* A run moves on to place k and leaves the rows as they are.
LEMMA MoveIsLone ==
    ASSUME LoneInv, NEW r \in Runs, Running(r), NEW k, pc' = [pc EXCEPT ![r] = k],
           UNCHANGED <<rows, failed, alone, started>>,
           \A q \in Runs \ {r} : chosen'[q] = chosen[q] /\ skipped'[q] = skipped[q],
           r \in DevRuns =>
              /\ k > 17 => pc[r] > 17 \/ rows["SystemUsers"] # {}
              /\ k \in 9..11 => pc[r] \in 9..11 \/ rows["SeedOrganization"] # {}
              /\ k = 11 => pc[r] = 11 \/ rows["SeedOwner"] # {},
           SeedsInv', LoneTypes', alone[r] => Lone(r)'
    PROVE  LoneInv'
<1>1. LoneTypes /\ pc'[r] = k /\ \A q \in Runs \ {r} : pc'[q] = pc[q]
  BY DEF LoneInv, LoneTypes
<1>2. OnlyRun(r)
  BY <1>1 DEF OnlyRun, LoneInv, LoneRuns, Lone
<1>3. MarkerComesFirst'
  BY <1>1 DEF LoneInv, MarkerComesFirst
<1>4. OwnerComesFirst'
  BY <1>1 DEF LoneInv, OwnerComesFirst
<1>5. QED
  BY <1>2, <1>3, <1>4, StepIsLone

\* No fixture has its place among the instructions that insert nothing.
LEMMA PlacesAreNoControls ==
    \A h \in Placed : Place[h] \in 2..51 /\ Place[h] \notin Controls
BY DEF Placed, Place, Controls

\* A run passes an instruction that inserts nothing and decides nothing.
LEMMA PassIsLone ==
    ASSUME LoneInv, NEW r \in Runs, Running(r), NEW k, pc' = [pc EXCEPT ![r] = k],
           pc[r] \in {3, 4, 5, 6, 31, 32, 47}, k = pc[r] \/ k = pc[r] + 1,
           UNCHANGED <<rows, failed, alone, started, skipped>>,
           \A q \in Runs \ {r} : chosen'[q] = chosen[q],
           SeedsInv', LoneTypes', alone[r] => CallIsThere(r)'
    PROVE  LoneInv'
<1>1. LoneTypes /\ pc'[r] = k /\ \A q \in Runs \ {r} : pc'[q] = pc[q]
  BY DEF LoneInv, LoneTypes
<1>2. alone[r] => Lone(r)'
  <2>1. SUFFICES ASSUME alone[r] PROVE Lone(r)'
    OBVIOUS
  <2>2. Lone(r)
    BY <2>1 DEF LoneInv, LoneRuns
  <2>3. failed[r] = 0
    BY <2>2 DEF Lone
  <2>4. \A q \in Runs \ {r} : ~Running(q)'
    BY <1>1, <2>2 DEF Lone, Running
  <2>5. ASSUME r \in DevRuns, ~skipped[r] PROVE DevIsWhole(r)'
    <3>1. DevIsWhole(r)
      BY <2>2, <2>5 DEF Lone
    <3>2. \A h \in Placed : Place[h] \in 2..51 /\ (Place[h] < k <=> Place[h] < pc[r])
      BY PlacesAreNoControls DEF Controls
    <3>3. k > 12 <=> pc[r] > 12
      OBVIOUS
    <3>4. k # 10 /\ (k <= 12 <=> pc[r] <= 12)
      OBVIOUS
    <3>5. \A h \in Placed : /\ Place[h] \in 13..(k - 1) => Place[h] \in 13..(pc[r] - 1)
                            /\ Place[h] >= k => Place[h] >= pc[r]
      BY <3>2
    <3>6. QED
      BY <1>1, <3>1, <3>2, <3>3, <3>4, <3>5 DEF DevIsWhole, Has
  <2>6. ASSUME r \notin DevRuns PROVE BaselineIsWhole(r)'
    <3>1. BaselineIsWhole(r)
      BY <2>2, <2>6 DEF Lone
    <3>2. k > 2 => pc[r] > 2
      OBVIOUS
    <3>3. k > 7 => pc[r] > 7
      OBVIOUS
    <3>4. QED
      BY <1>1, <3>1, <3>2, <3>3 DEF BaselineIsWhole
  <2>7. QED
    BY <1>1, <2>1, <2>3, <2>4, <2>5, <2>6 DEF Lone
<1>3. k > 17 => pc[r] > 17
  OBVIOUS
<1>4. k \notin 9..11
  OBVIOUS
<1>5. \A q \in Runs \ {r} : chosen'[q] = chosen[q] /\ skipped'[q] = skipped[q]
  OBVIOUS
<1>6. k # 11
  BY <1>4
<1>7. QED
  BY <1>2, <1>3, <1>4, <1>5, <1>6, MoveIsLone

\* The rows stay rows.
RowsKeepTypes == rows' \in [Fixtures -> SUBSET ({"other"} \cup Runs)]

LEMMA MoveTypes ==
    ASSUME LoneInv, NEW r \in Runs, Running(r), NEW k \in Nat, pc' = [pc EXCEPT ![r] = k],
           k <= IF r \in DevRuns THEN 52 ELSE 8,
           rows' = rows \/ RowsKeepTypes, UNCHANGED <<failed, alone, started>>,
           skipped' = skipped \/ (k = 52 /\ skipped' \in [Runs -> BOOLEAN]
                                  /\ \A q \in Runs \ {r} : skipped'[q] = skipped[q]),
           chosen' \in [Runs -> Nat \cup {None}],
           \A q \in Runs \ {r} : chosen'[q] = chosen[q] /\ program'[q] = program[q],
           k \in 1..5 => chosen'[r] = None, k = 4 => program'[r] \in 1..3
    PROVE  LoneTypes'
<1>1. LoneTypes /\ pc'[r] = k /\ \A q \in Runs \ {r} : pc'[q] = pc[q]
  BY DEF LoneInv, LoneTypes
<1>2. k <= Len(Script(r)) + 1 /\ pc[r] # 52 /\ r \in started
  <2>1. PICK n : n = IF r \in DevRuns THEN 51 ELSE 7
    OBVIOUS
  <2>2. Len(Script(r)) = n /\ pc[r] \in 1..n
    BY <1>1, <2>1, RunningAt
  <2>3. k <= n + 1 /\ n \in {7, 51}
    BY <2>1
  <2>4. pc[r] # 52 /\ pc[r] # 0
    BY <2>2, <2>3
  <2>5. QED
    BY <1>1, <2>2, <2>3, <2>4 DEF LoneTypes
<1>3. ~skipped[r]
  BY <1>1, <1>2 DEF LoneTypes
<1>4. skipped' \in [Runs -> BOOLEAN] /\ \A q \in Runs : skipped'[q] => pc'[q] = 52
  BY <1>1, <1>3 DEF LoneTypes
<1>5. pc' \in [Runs -> Nat] /\ \A q \in Runs : pc'[q] <= Len(Script(q)) + 1
  BY <1>1, <1>2 DEF LoneTypes
<1>6. \A q \in Runs \ started : pc'[q] = 0 /\ failed'[q] = 0 /\ chosen'[q] = None
  BY <1>1, <1>2 DEF LoneTypes
<1>7. /\ \A q \in Runs : pc'[q] \in 1..5 => chosen'[q] = None
      /\ \A q \in Runs : pc'[q] = 4 => program'[q] \in 1..3
  BY <1>1, SMTT(30) DEF LoneTypes
<1>8. QED
  BY <1>1, <1>4, <1>5, <1>6, <1>7 DEF LoneTypes, RowsKeepTypes

-----------------------------------------------------------------------------
(***************************************************************************)
(* A run that is alone finds a call for Program A                          *)
(***************************************************************************)
LEMMA ChoiceIsLone ==
    ASSUME LoneInv, NEW r \in Runs, ChoosesCall(r)
    PROVE  LoneInv'
<1>1. PICK c : /\ c \in IF CallsOf("PROGRAM_A") = {} THEN {None} ELSE CallsOf("PROGRAM_A")
               /\ chosen' = [chosen EXCEPT ![r] = c]
  BY DEF ChoosesCall
<1>2. PICK k : k = pc[r] + 1
  OBVIOUS
<1>3. /\ Running(r) /\ pc' = [pc EXCEPT ![r] = k]
      /\ UNCHANGED <<rows, calls, failed, started, program, duplicates, skipped, alone, tidy>>
  BY <1>2 DEF ChoosesCall, Proceeds, GoTo, recordVars
<1>4. LoneTypes /\ SeedsInv /\ calls \in Seq(Call)
  BY DEF LoneInv, SeedsInv, SeedTypes
<1>5. pc[r] \in {5, 31} /\ k \in {6, 32}
  BY <1>2, <1>3, <1>4, RunningAt DEF ScriptAt, ChoosesCall
<1>6. SeedsInv'
  BY <1>3, <1>4, QuietStepKeeps
<1>7. c \in Nat \cup {None}
  BY <1>1, <1>4 DEF CallsOf, Calls
<1>8. LoneTypes'
  <2>1. /\ chosen' \in [Runs -> Nat \cup {None}]
        /\ \A q \in Runs \ {r} : chosen'[q] = chosen[q]
    BY <1>1, <1>4, <1>7 DEF LoneTypes
  <2>2. k \in Nat /\ k <= IF r \in DevRuns THEN 52 ELSE 8
    BY <1>2, <1>3, <1>4, <1>5, RunningAt
  <2>3. k \notin 1..5 /\ k # 4
    BY <1>5
  <2>4. QED
    BY <1>3, <2>1, <2>2, <2>3, MoveTypes
<1>9. alone[r] => CallIsThere(r)'
  <2>1. SUFFICES ASSUME alone[r] PROVE CallIsThere(r)'
    OBVIOUS
  <2>2. CallIsThere(r)
    BY <1>3, <2>1 DEF LoneInv, LoneRuns, Lone
  <2>3. CallsOf("PROGRAM_A") # {}
    BY <1>5, <2>2 DEF CallIsThere
  <2>4. pc'[r] = k /\ chosen'[r] \in CallsOf("PROGRAM_A")
    BY <1>1, <1>3, <1>4, <2>3 DEF LoneTypes
  <2>5. CallsOf("PROGRAM_A")' = CallsOf("PROGRAM_A")
    BY <1>3 DEF CallsOf, Calls
  <2>6. QED
    BY <1>5, <2>4, <2>5 DEF CallIsThere
<1>10. \A q \in Runs \ {r} : chosen'[q] = chosen[q]
  BY <1>1, <1>4 DEF LoneTypes
<1>11. QED
  BY <1>2, <1>3, <1>5, <1>6, <1>8, <1>9, <1>10, PassIsLone

\* A run that is alone has a call when it checks for one.
LEMMA CheckIsLone ==
    ASSUME LoneInv, NEW r \in Runs, ChecksCall(r)
    PROVE  LoneInv'
<1>1. PICK k : k = pc[r] + 1 + IF chosen[r] = None THEN At(r).skip ELSE 0
  OBVIOUS
<1>2. /\ Running(r) /\ pc' = [pc EXCEPT ![r] = k]
      /\ UNCHANGED <<rows, calls, failed, started, program, duplicates, chosen, skipped,
                     alone, tidy>>
  BY <1>1 DEF ChecksCall, GoTo, callVars, recordVars
<1>3. LoneTypes /\ SeedsInv /\ calls \in Seq(Call)
  BY DEF LoneInv, SeedsInv, SeedTypes
<1>4. /\ r \in DevRuns
      /\ (pc[r] = 32 /\ At(r).skip = 7) \/ (pc[r] = 47 /\ At(r).skip = 2)
  BY <1>2, <1>3, RunningAt DEF ScriptAt, ChecksCall
<1>5. k \in {33, 40, 48, 50} /\ (chosen[r] # None => k = pc[r] + 1)
  BY <1>1, <1>4
<1>6. SeedsInv'
  BY <1>2, <1>3, QuietStepKeeps
<1>7. LoneTypes'
  <2>1. k \in Nat /\ k <= IF r \in DevRuns THEN 52 ELSE 8
    BY <1>4, <1>5
  <2>2. k \notin 1..5 /\ k # 4 /\ chosen' \in [Runs -> Nat \cup {None}]
    BY <1>2, <1>3, <1>5 DEF LoneTypes
  <2>3. QED
    BY <1>2, <2>1, <2>2, MoveTypes
<1>8. CASE alone[r]
  <2>1. CallIsThere(r)
    BY <1>2, <1>8 DEF LoneInv, LoneRuns, Lone
  <2>2. chosen[r] \in CallsOf("PROGRAM_A") /\ chosen[r] # None
    <3>1. chosen[r] \in CallsOf("PROGRAM_A")
      BY <1>4, <2>1 DEF CallIsThere
    <3>2. CallsOf("PROGRAM_A") \subseteq Nat
      BY <1>3 DEF CallsOf, Calls
    <3>3. QED
      BY <3>1, <3>2, NoneIsNoCall
  <2>3. CallIsThere(r)'
    <3>1. CallsOf("PROGRAM_A")' = CallsOf("PROGRAM_A")
      BY <1>2 DEF CallsOf, Calls
    <3>2. pc'[r] = k
      BY <1>2, <1>3 DEF LoneTypes
    <3>3. QED
      BY <1>2, <1>5, <2>2, <3>1, <3>2 DEF CallIsThere
  <2>4. pc[r] \in {32, 47} /\ k = pc[r] + 1
    BY <1>4, <1>5, <2>2
  <2>5. QED
    BY <1>2, <1>6, <1>7, <2>3, <2>4, PassIsLone
<1>9. CASE ~alone[r]
  <2>1. k \notin 9..11 /\ k # 11 /\ pc[r] > 17
    BY <1>4, <1>5
  <2>2. QED
    BY <1>2, <1>6, <1>7, <1>9, <2>1, MoveIsLone
<1>10. QED
  BY <1>8, <1>9

LEMMA BeginningIsLone ==
    ASSUME LoneInv, NEW r \in Runs, BeginsCalls(r)
    PROVE  LoneInv'
<1>1. PICK k : k = pc[r] + 1
  OBVIOUS
<1>2. /\ Running(r) /\ pc' = [pc EXCEPT ![r] = k] /\ program' = [program EXCEPT ![r] = 1]
      /\ duplicates' = [duplicates EXCEPT ![r] = Selects]
      /\ UNCHANGED <<rows, calls, failed, started, chosen, skipped, alone>>
  BY <1>1 DEF BeginsCalls, Proceeds, GoTo
<1>3. LoneTypes /\ SeedsInv /\ SeedTypes
  BY DEF LoneInv, SeedsInv
<1>4. pc[r] = 3 /\ k = 4
  BY <1>1, <1>2, <1>3, RunningAt DEF ScriptAt, BeginsCalls
<1>5. SeedsInv'
  BY <1>3, BeginningKeeps
<1>6. /\ program'[r] = 1 /\ duplicates'[r] = Selects /\ pc'[r] = k
      /\ \A q \in Runs \ {r} : program'[q] = program[q]
  BY <1>2, <1>3 DEF SeedTypes, LoneTypes
<1>7. LoneTypes'
  <2>1. chosen[r] = None
    BY <1>3, <1>4 DEF LoneTypes
  <2>2. k \in Nat /\ k <= IF r \in DevRuns THEN 52 ELSE 8
    BY <1>4
  <2>3. chosen' \in [Runs -> Nat \cup {None}] /\ program'[r] \in 1..3
    BY <1>2, <1>3, <1>6 DEF LoneTypes
  <2>4. QED
    BY <1>2, <1>6, <2>1, <2>2, <2>3, MoveTypes
<1>8. CallIsThere(r)'
  <2>1. Selects.do = "select"
    BY DEF Selects
  <2>2. QED
    BY <1>4, <1>6, <2>1 DEF CallIsThere, Spares
<1>9. pc[r] \in {3, 4, 5, 6, 31, 32, 47}
  BY <1>4
<1>10. QED
  BY <1>1, <1>2, <1>5, <1>7, <1>8, <1>9, PassIsLone

\* A step of callsSeed at the calls of a program stays at its place.
LEMMA ProgramStepIsLone ==
    ASSUME LoneInv, NEW r \in Runs, Running(r), At(r).do = "programs",
           UNCHANGED <<rows, pc, failed, alone, started, skipped, chosen>>,
           \A q \in Runs \ {r} : program'[q] = program[q], program'[r] \in 1..3,
           SeedsInv', alone[r] => CallIsThere(r)'
    PROVE  LoneInv'
<1>1. LoneTypes /\ pc[r] = 4
  BY RunningAt DEF LoneInv, ScriptAt
<1>2. pc' = [pc EXCEPT ![r] = 4]
  BY <1>1 DEF LoneTypes
<1>3. chosen[r] = None /\ chosen' \in [Runs -> Nat \cup {None}]
  BY <1>1 DEF LoneTypes
<1>4. 4 \in Nat /\ 4 <= IF r \in DevRuns THEN 52 ELSE 8
  OBVIOUS
<1>5. LoneTypes'
  BY <1>2, <1>3, <1>4, MoveTypes
<1>6. pc[r] \in {3, 4, 5, 6, 31, 32, 47} /\ 4 = pc[r]
  BY <1>1
<1>7. QED
  BY <1>2, <1>5, <1>6, PassIsLone

\* A run that is done with a call spares one of its program.
LEMMA CallDoneSpares ==
    ASSUME SeedTypes, NEW r \in Runs, pc'[r] = 4, program[r] \in 1..2, CallDone(r),
           program[r] = 2 => CallsOf("PROGRAM_A")' # {},
           NEW rest, rest = duplicates[r].rest,
           NEW type, type = Programs[program[r]],
           rest \subseteq CallsOf(type)', CallsOf(type)' \ rest # {}
    PROVE  CallIsThere(r)' /\ program'[r] \in 1..3
<1>1. program[r] = 1 => type = "PROGRAM_A"
  BY DEF Programs
<1>2. CASE /\ duplicates' = [duplicates EXCEPT ![r] = Selects]
           /\ program' = [program EXCEPT ![r] = program[r] + 1]
  <2>1. duplicates'[r].do = "select" /\ program'[r] = program[r] + 1
    BY <1>2 DEF SeedTypes, Selects
  <2>2. CallsOf("PROGRAM_A")' # {}
    BY <1>1
  <2>3. QED
    BY <2>1, <2>2 DEF CallIsThere, Spares
<1>3. CASE /\ \E c \in rest : Turns(r, "count", c, rest \ {c})
           /\ program' = program
  <2>1. PICK c \in rest : Turns(r, "count", c, rest \ {c})
    BY <1>3
  <2>2. PICK step, p : step = duplicates'[r] /\ p = program'[r]
    OBVIOUS
  <2>3. p = program[r] /\ step = [do |-> "count", call |-> c, rest |-> rest \ {c}]
    BY <1>3, <2>1, <2>2 DEF SeedTypes, Turns
  <2>4. step.do = "count" /\ step.call = c /\ step.rest = rest \ {c}
    BY <2>3
  <2>5. Spares(step, type)'
    BY <2>1, <2>4 DEF Spares
  <2>6. QED
    BY <2>2, <2>3, <2>5 DEF CallIsThere
<1>4. QED
  BY <1>2, <1>3 DEF CallDone

\* A run that is alone knows of a call to spare.
LEMMA LoneProgram ==
    ASSUME LoneInv, NEW r \in Runs, NEW do, Handles(r, do)
    PROVE  /\ Running(r) /\ At(r).do = "programs" /\ pc[r] = 4
           /\ SeedTypes /\ LoneTypes /\ SeedsInv
           /\ program[r] \in 1..2 /\ duplicates[r].do = do
           /\ alone[r] => /\ program[r] = 2 => CallsOf("PROGRAM_A") # {}
                          /\ Spares(duplicates[r], Programs[program[r]])
<1>1. /\ Running(r) /\ At(r).do = "programs" /\ program[r] \in 1..2
      /\ duplicates[r].do = do /\ SeedTypes /\ LoneTypes /\ SeedsInv
  BY DEF Handles, LoneInv, SeedsInv
<1>2. pc[r] = 4
  BY <1>1, RunningAt DEF ScriptAt
<1>3. ASSUME alone[r] PROVE CallIsThere(r)
  BY <1>1, <1>3 DEF LoneInv, LoneRuns, Lone
<1>4. QED
  BY <1>1, <1>2, <1>3 DEF CallIsThere

LEMMA SelectionIsLone ==
    ASSUME LoneInv, NEW r \in Runs, SelectsCalls(r)
    PROVE  LoneInv'
<1>1. PICK type : type = Programs[program[r]]
  OBVIOUS
<1>2. /\ Handles(r, "select")
      /\ UNCHANGED <<rows, calls, pc, failed, started, program, chosen, skipped, alone>>
  BY DEF SelectsCalls, recordVars
<1>3. /\ Running(r) /\ At(r).do = "programs" /\ pc[r] = 4 /\ program[r] \in 1..2
      /\ SeedTypes /\ LoneTypes /\ SeedsInv
      /\ alone[r] => (program[r] = 2 => CallsOf("PROGRAM_A") # {})
  BY <1>2, LoneProgram
<1>4. SeedsInv'
  BY <1>3, SelectionKeeps
<1>5. PICK step : duplicates' = [duplicates EXCEPT ![r] = step] /\ Spares(step, type)
  <2>1. CASE Turns(r, "insert", None, {})
    <3>1. PICK step : step = [do |-> "insert", call |-> None, rest |-> {}]
      OBVIOUS
    <3>2. Spares(step, type)
      BY <3>1 DEF Spares
    <3>3. QED
      BY <2>1, <3>1, <3>2 DEF Turns
  <2>2. CASE \E c \in CallsOf(type) : Turns(r, "open", c, CallsOf(type) \ {c})
    <3>1. PICK c \in CallsOf(type) : Turns(r, "open", c, CallsOf(type) \ {c})
      BY <2>2
    <3>2. PICK step : step = [do |-> "open", call |-> c, rest |-> CallsOf(type) \ {c}]
      OBVIOUS
    <3>3. Spares(step, type)
      BY <3>1, <3>2 DEF Spares
    <3>4. QED
      BY <3>1, <3>2, <3>3 DEF Turns
  <2>3. QED
    BY <1>1, <2>1, <2>2 DEF SelectsCalls
<1>6. alone[r] => CallIsThere(r)'
  <2>1. duplicates'[r] = step /\ program'[r] = program[r] /\ pc'[r] = 4
    BY <1>2, <1>3, <1>5 DEF SeedTypes
  <2>2. \A t : CallsOf(t)' = CallsOf(t)
    BY <1>2 DEF CallsOf, Calls
  <2>3. Spares(step, type)'
    BY <1>5, <2>2 DEF Spares
  <2>4. QED
    BY <1>1, <1>3, <2>1, <2>2, <2>3 DEF CallIsThere
<1>7. \A q \in Runs \ {r} : program'[q] = program[q]
  BY <1>2
<1>8. program'[r] \in 1..3
  BY <1>2, <1>3
<1>9. QED
  BY <1>2, <1>3, <1>4, <1>6, <1>7, <1>8, ProgramStepIsLone

LEMMA InsertionIsLone ==
    ASSUME LoneInv, NEW r \in Runs, InsertsCall(r)
    PROVE  LoneInv'
<1>1. PICK type, rest : type = Programs[program[r]] /\ rest = duplicates[r].rest
  OBVIOUS
<1>2. PICK row : row = [type |-> type, open |-> TRUE, filed |-> FALSE, there |-> TRUE]
  OBVIOUS
<1>3. /\ Handles(r, "insert") /\ calls' = Append(calls, row) /\ CallDone(r)
      /\ UNCHANGED <<rows, pc, failed, started, chosen, skipped, alone>>
  BY <1>1, <1>2 DEF InsertsCall
<1>4. /\ Running(r) /\ At(r).do = "programs" /\ pc[r] = 4 /\ program[r] \in 1..2
      /\ SeedTypes /\ LoneTypes /\ SeedsInv
      /\ alone[r] => /\ program[r] = 2 => CallsOf("PROGRAM_A") # {}
                     /\ Spares(duplicates[r], Programs[program[r]])
      /\ duplicates[r].do = "insert"
  BY <1>3, LoneProgram
<1>5. SeedsInv'
  BY <1>4, InsertionKeeps
<1>6. /\ \A t : CallsOf(t) \subseteq CallsOf(t)'
      /\ CallsOf(type)' # {}
  <2>1. PICK n \in Nat : n = Len(calls)
    BY <1>4 DEF SeedTypes
  <2>2. /\ Calls = 1..n /\ Calls' = 1..(n + 1) /\ calls'[n + 1] = row
        /\ \A d \in 1..n : calls'[d] = calls[d]
    BY <1>2, <1>3, <1>4, <2>1 DEF SeedTypes, Calls
  <2>3. n + 1 \in CallsOf(type)'
    BY <1>2, <2>2 DEF CallsOf
  <2>4. \A t : CallsOf(t) \subseteq CallsOf(t)'
    BY <2>2 DEF CallsOf
  <2>5. QED
    BY <2>3, <2>4
<1>7. /\ \A q \in Runs \ {r} : program'[q] = program[q]
      /\ program'[r] \in 1..3
  BY <1>3, <1>4, CallDoneTypes DEF SeedTypes, CallDone
<1>8. ASSUME alone[r] PROVE CallIsThere(r)'
  <2>1. rest = {}
    BY <1>1, <1>4, <1>8 DEF Spares
  <2>2. /\ program[r] = 2 => CallsOf("PROGRAM_A")' # {}
        /\ rest \subseteq CallsOf(type)' /\ CallsOf(type)' \ rest # {}
        /\ pc'[r] = 4
    BY <1>3, <1>4, <1>6, <1>8, <2>1
  <2>3. QED
    BY <1>1, <1>3, <1>4, <2>2, CallDoneSpares
<1>9. QED
  BY <1>3, <1>4, <1>5, <1>7, <1>8, ProgramStepIsLone

LEMMA OpeningIsLone ==
    ASSUME LoneInv, NEW r \in Runs, OpensCall(r)
    PROVE  LoneInv'
<1>1. PICK type, c, rest, row : /\ type = Programs[program[r]]
                                /\ c = duplicates[r].call /\ rest = duplicates[r].rest
                                /\ row = [calls[c] EXCEPT !.open = TRUE]
  OBVIOUS
<1>2. /\ Handles(r, "open") /\ calls' = [calls EXCEPT ![c] = row] /\ CallDone(r)
      /\ UNCHANGED <<rows, pc, failed, started, chosen, skipped, alone>>
  BY <1>1 DEF OpensCall
<1>3. /\ Running(r) /\ At(r).do = "programs" /\ pc[r] = 4 /\ program[r] \in 1..2
      /\ SeedTypes /\ LoneTypes /\ SeedsInv
      /\ alone[r] => /\ program[r] = 2 => CallsOf("PROGRAM_A") # {}
                     /\ Spares(duplicates[r], Programs[program[r]])
      /\ duplicates[r].do = "open"
  BY <1>2, LoneProgram
<1>4. SeedsInv'
  BY <1>3, OpeningKeeps
<1>5. /\ \A q \in Runs \ {r} : program'[q] = program[q]
      /\ program'[r] \in 1..3
  BY <1>2, <1>3, CallDoneTypes DEF SeedTypes, CallDone
<1>6. ASSUME alone[r] PROVE CallIsThere(r)'
  <2>1. c \in CallsOf(type) /\ rest \subseteq CallsOf(type) \ {c}
    BY <1>1, <1>3, <1>6 DEF Spares
  <2>2. row \in Call /\ row.there /\ row.type = type
    <3>1. c \in Calls /\ calls[c].there /\ calls[c].type = type
      BY <2>1 DEF CallsOf
    <3>2. calls[c] \in Call
      BY <1>3, <3>1 DEF SeedTypes, Calls
    <3>3. QED
      BY <1>1, <3>1, <3>2 DEF Call
  <2>3. /\ CallsOf(type)' = CallsOf(type)
        /\ \A other : other # type => CallsOf(other)' = CallsOf(other)
    <3>1. calls \in Seq(Call)
      BY <1>3 DEF SeedTypes
    <3>2. QED
      BY <1>2, <2>1, <2>2, <3>1, UpdateOfOneCall
  <2>4. /\ program[r] = 2 => CallsOf("PROGRAM_A")' # {}
        /\ rest \subseteq CallsOf(type)' /\ CallsOf(type)' \ rest # {}
        /\ pc'[r] = 4
    BY <1>2, <1>3, <1>6, <2>1, <2>3
  <2>5. QED
    BY <1>1, <1>2, <1>3, <2>4, CallDoneSpares
<1>7. QED
  BY <1>2, <1>3, <1>4, <1>5, <1>6, ProgramStepIsLone

LEMMA CountingIsLone ==
    ASSUME LoneInv, NEW r \in Runs, CountsApplications(r)
    PROVE  LoneInv'
<1>1. PICK type, c, rest : /\ type = Programs[program[r]]
                           /\ c = duplicates[r].call /\ rest = duplicates[r].rest
  OBVIOUS
<1>2. /\ Handles(r, "count")
      /\ CallDone(r) \/ (Turns(r, "delete", c, rest) /\ program' = program)
      /\ UNCHANGED <<rows, calls, pc, failed, started, chosen, skipped, alone>>
  BY <1>1 DEF CountsApplications, recordVars
<1>3. /\ Running(r) /\ At(r).do = "programs" /\ pc[r] = 4 /\ program[r] \in 1..2
      /\ SeedTypes /\ LoneTypes /\ SeedsInv
      /\ alone[r] => /\ program[r] = 2 => CallsOf("PROGRAM_A") # {}
                     /\ Spares(duplicates[r], Programs[program[r]])
      /\ duplicates[r].do = "count"
  BY <1>2, LoneProgram
<1>4. SeedsInv'
  BY <1>3, CountingKeeps
<1>5. \A t : CallsOf(t)' = CallsOf(t)
  BY <1>2 DEF CallsOf, Calls
<1>6. /\ \A q \in Runs \ {r} : program'[q] = program[q]
      /\ program'[r] \in 1..3
  <2>1. CASE CallDone(r)
    BY <1>3, <2>1, CallDoneTypes DEF SeedTypes, CallDone
  <2>2. CASE program' = program
    BY <1>3, <2>2
  <2>3. QED
    BY <1>2, <2>1, <2>2
<1>7. ASSUME alone[r] PROVE CallIsThere(r)'
  <2>1. /\ c \in CallsOf(type) /\ rest \subseteq CallsOf(type) \ {c}
        /\ CallsOf(type) \ (rest \cup {c}) # {}
    BY <1>1, <1>3, <1>7 DEF Spares
  <2>2. CASE CallDone(r)
    <3>1. /\ program[r] = 2 => CallsOf("PROGRAM_A")' # {}
          /\ rest \subseteq CallsOf(type)' /\ CallsOf(type)' \ rest # {}
          /\ pc'[r] = 4
      BY <1>2, <1>3, <1>5, <1>7, <2>1
    <3>2. QED
      BY <1>1, <1>3, <2>2, <3>1, CallDoneSpares
  <2>3. CASE Turns(r, "delete", c, rest) /\ program' = program
    <3>1. PICK step : step = duplicates'[r]
      OBVIOUS
    <3>2. step = [do |-> "delete", call |-> c, rest |-> rest]
      BY <1>3, <2>3, <3>1 DEF SeedTypes, Turns
    <3>3. step.do = "delete" /\ step.call = c /\ step.rest = rest
      BY <3>2
    <3>4. Spares(step, type)'
      BY <1>5, <2>1, <3>3 DEF Spares
    <3>5. pc'[r] = 4 /\ program'[r] = program[r]
      BY <1>2, <1>3, <2>3
    <3>6. program[r] > 1 => program[r] = 2
      BY <1>3
    <3>7. QED
      BY <1>1, <1>3, <1>5, <1>7, <3>1, <3>4, <3>5, <3>6 DEF CallIsThere
  <2>4. QED
    BY <1>2, <2>2, <2>3
<1>8. QED
  BY <1>2, <1>3, <1>4, <1>6, <1>7, ProgramStepIsLone

LEMMA DeletionIsLone ==
    ASSUME LoneInv, NEW r \in Runs, DeletesCall(r)
    PROVE  LoneInv'
<1>1. PICK type, c, rest, row : /\ type = Programs[program[r]]
                                /\ c = duplicates[r].call /\ rest = duplicates[r].rest
                                /\ row = [calls[c] EXCEPT !.there = FALSE]
  OBVIOUS
<1>2. /\ Handles(r, "delete") /\ calls' = [calls EXCEPT ![c] = row] /\ CallDone(r)
      /\ UNCHANGED <<rows, pc, failed, started, chosen, skipped, alone>>
  BY <1>1 DEF DeletesCall
<1>3. /\ Running(r) /\ At(r).do = "programs" /\ pc[r] = 4 /\ program[r] \in 1..2
      /\ SeedTypes /\ LoneTypes /\ SeedsInv
      /\ alone[r] => /\ program[r] = 2 => CallsOf("PROGRAM_A") # {}
                     /\ Spares(duplicates[r], Programs[program[r]])
      /\ duplicates[r].do = "delete"
  BY <1>2, LoneProgram
<1>4. SeedsInv'
  BY <1>3, DeletionKeeps
<1>5. /\ \A q \in Runs \ {r} : program'[q] = program[q]
      /\ program'[r] \in 1..3
  BY <1>2, <1>3, CallDoneTypes DEF SeedTypes, CallDone
<1>6. ASSUME alone[r] PROVE CallIsThere(r)'
  <2>1. /\ c \in CallsOf(type) /\ rest \subseteq CallsOf(type) \ {c}
        /\ CallsOf(type) \ (rest \cup {c}) # {}
    BY <1>1, <1>3, <1>6 DEF Spares
  <2>2. row \in Call /\ ~row.there /\ row.type = type
    <3>1. c \in Calls /\ calls[c].type = type
      BY <2>1 DEF CallsOf
    <3>2. calls[c] \in Call
      BY <1>3, <3>1 DEF SeedTypes, Calls
    <3>3. QED
      BY <1>1, <3>1, <3>2 DEF Call
  <2>3. /\ CallsOf(type)' = CallsOf(type) \ {c}
        /\ \A other : other # type => CallsOf(other)' = CallsOf(other)
    <3>1. calls \in Seq(Call)
      BY <1>3 DEF SeedTypes
    <3>2. QED
      BY <1>2, <2>1, <2>2, <3>1, UpdateOfOneCall
  <2>4. program[r] = 2 => "PROGRAM_A" # type
    BY <1>1 DEF Programs
  <2>5. /\ program[r] = 2 => CallsOf("PROGRAM_A")' # {}
        /\ rest \subseteq CallsOf(type)' /\ CallsOf(type)' \ rest # {}
        /\ pc'[r] = 4
    BY <1>2, <1>3, <1>6, <2>1, <2>3, <2>4
  <2>6. QED
    BY <1>1, <1>2, <1>3, <2>5, CallDoneSpares
<1>7. QED
  BY <1>2, <1>3, <1>4, <1>5, <1>6, ProgramStepIsLone

LEMMA EndingProgramsIsLone ==
    ASSUME LoneInv, NEW r \in Runs, EndsPrograms(r)
    PROVE  LoneInv'
<1>1. PICK k : k = pc[r] + 1
  OBVIOUS
<1>2. /\ Running(r) /\ At(r).do = "programs" /\ program[r] = 3
      /\ pc' = [pc EXCEPT ![r] = k] /\ program' = [program EXCEPT ![r] = 0]
      /\ UNCHANGED <<rows, calls, failed, started, chosen, skipped, alone>>
  BY <1>1 DEF EndsPrograms, Proceeds, GoTo
<1>3. LoneTypes /\ SeedsInv /\ SeedTypes
  BY DEF LoneInv, SeedsInv
<1>4. pc[r] = 4 /\ k = 5
  BY <1>1, <1>2, <1>3, RunningAt DEF ScriptAt
<1>5. SeedsInv'
  BY <1>3, EndingProgramsKeeps
<1>6. LoneTypes'
  <2>1. chosen'[r] = None /\ chosen' \in [Runs -> Nat \cup {None}]
    BY <1>2, <1>3, <1>4 DEF LoneTypes
  <2>2. k \in Nat /\ (k <= IF r \in DevRuns THEN 52 ELSE 8) /\ k # 4
    BY <1>4
  <2>3. \A q \in Runs \ {r} : chosen'[q] = chosen[q] /\ program'[q] = program[q]
    BY <1>2, <1>3 DEF SeedTypes
  <2>4. skipped' = skipped
    BY <1>2
  <2>5. QED
    BY <1>2, <2>1, <2>2, <2>3, <2>4, MoveTypes
<1>7. ASSUME alone[r] PROVE CallIsThere(r)'
  <2>1. CallIsThere(r)
    BY <1>2, <1>7 DEF LoneInv, LoneRuns, Lone
  <2>2. CallsOf("PROGRAM_A") # {}
    BY <1>2, <1>4, <2>1 DEF CallIsThere
  <2>3. CallsOf("PROGRAM_A")' = CallsOf("PROGRAM_A")
    BY <1>2 DEF CallsOf, Calls
  <2>4. pc'[r] = 5
    BY <1>2, <1>3, <1>4 DEF LoneTypes
  <2>5. QED
    BY <2>2, <2>3, <2>4 DEF CallIsThere
<1>8. pc[r] \in {3, 4, 5, 6, 31, 32, 47}
  BY <1>4
<1>9. QED
  BY <1>1, <1>2, <1>5, <1>6, <1>7, <1>8, PassIsLone

\* The documents of a call that is there
LEMMA DocumentsIsLone ==
    ASSUME LoneInv, NEW r \in Runs, RequiresDocuments(r)
    PROVE  LoneInv'
<1>1. /\ Running(r) /\ At(r).do = "requireDocuments"
      /\ UNCHANGED <<rows, calls, started>>
  BY DEF RequiresDocuments
<1>2. LoneTypes /\ SeedsInv /\ SeedTypes
  BY DEF LoneInv, SeedsInv
<1>3. pc[r] = 6
  BY <1>1, <1>2, RunningAt DEF ScriptAt
<1>4. ASSUME alone[r] PROVE CallIsThere(r) /\ calls[chosen[r]].there
  <2>1. CallIsThere(r)
    BY <1>1, <1>4 DEF LoneInv, LoneRuns, Lone
  <2>2. chosen[r] \in CallsOf("PROGRAM_A")
    BY <1>3, <2>1 DEF CallIsThere
  <2>3. QED
    BY <2>1, <2>2 DEF CallsOf
<1>5. CASE chosen[r] # None /\ ~calls[chosen[r]].there
  <2>1. Ends(r) /\ failed' = [failed EXCEPT ![r] = pc[r]] /\ alone' = alone
    BY <1>5 DEF RequiresDocuments, Fails
  <2>2. ~alone[r]
    BY <1>4, <1>5
  <2>3. QED
    BY <1>1, <2>1, <2>2, EndIsLone
<1>6. CASE ~(chosen[r] # None /\ ~calls[chosen[r]].there)
  <2>1. PICK k : k = pc[r] + 1
    OBVIOUS
  <2>2. /\ pc' = [pc EXCEPT ![r] = k]
        /\ UNCHANGED <<failed, program, duplicates, chosen, skipped, alone, tidy>>
    BY <1>6, <2>1 DEF RequiresDocuments, Proceeds, GoTo, callVars, recordVars
  <2>3. k = 7
    BY <1>3, <2>1
  <2>4. SeedsInv'
    BY <1>1, <1>2, <2>2, QuietStepKeeps
  <2>5. LoneTypes'
    <3>1. k \in Nat /\ k <= IF r \in DevRuns THEN 52 ELSE 8
      BY <2>3
    <3>2. chosen' \in [Runs -> Nat \cup {None}]
      BY <1>2, <2>2 DEF LoneTypes
    <3>3. k \notin 1..5 /\ k # 4
      BY <2>3
    <3>4. QED
      BY <1>1, <2>2, <3>1, <3>2, <3>3, MoveTypes
  <2>6. ASSUME alone[r] PROVE CallIsThere(r)'
    <3>1. chosen[r] \in CallsOf("PROGRAM_A")
      BY <1>3, <1>4, <2>6 DEF CallIsThere
    <3>2. CallsOf("PROGRAM_A")' = CallsOf("PROGRAM_A")
      BY <1>1 DEF CallsOf, Calls
    <3>3. pc'[r] = 7
      BY <1>2, <2>2, <2>3 DEF LoneTypes
    <3>4. QED
      BY <2>2, <3>1, <3>2, <3>3 DEF CallIsThere
  <2>7. pc[r] \in {3, 4, 5, 6, 31, 32, 47}
    BY <1>3
  <2>8. QED
    BY <1>1, <2>1, <2>2, <2>4, <2>5, <2>6, <2>7, PassIsLone
<1>7. QED
  BY <1>5, <1>6

-----------------------------------------------------------------------------
(***************************************************************************)
(* A run that is alone looks for rows                                      *)
(***************************************************************************)
LEMMA OnePlaceEach == \A g, h \in Placed : Place[g] = Place[h] => g = h
BY DEF Placed, Place

\* A run has seen the marker or the items of 003, or goes on.
LEMMA LookIsLone ==
    ASSUME LoneInv, NEW r \in Runs, Running(r), alone[r], At(r).do = "unless",
           NEW there, there = (\E h \in At(r).fixtures : rows[h] # {}),
           NEW k, k = pc[r] + 1 + IF there THEN At(r).skip ELSE 0,
           pc' = [pc EXCEPT ![r] = k],
           UNCHANGED <<rows, calls, failed, chosen>>,
           k # 52 => ~skipped'[r], k = 52 => skipped'[r]
    PROVE  Lone(r)'
<1>1. LoneTypes /\ Lone(r) /\ MarkerComesFirst /\ OwnerComesFirst
  BY DEF LoneInv, LoneRuns
<1>2. PICK p : p = pc[r]
  OBVIOUS
<1>3. \/ p = 1 /\ (there <=> rows["Superadmin"] # {}) /\ k = IF there THEN 3 ELSE 2
      \/ /\ p = 7 /\ r \in DevRuns /\ k = IF there THEN 12 ELSE 8
         /\ there => \/ rows["SeedItems"] # {}
                     \/ rows["BacklogItems"] # {} \/ rows["ExtraItems"] # {}
      \/ /\ p = 9 /\ r \in DevRuns /\ (there <=> rows["SeedOwner"] # {})
         /\ k = IF there THEN 11 ELSE 10
      \/ /\ p = 12 /\ r \in DevRuns /\ (there <=> rows["SystemUsers"] # {})
         /\ k = IF there THEN 52 ELSE 13
  BY <1>1, <1>2, RunningAt DEF ScriptAt
<1>4. /\ pc'[r] = k /\ k \in {2, 3, 8, 10, 11, 12, 13, 52}
      /\ \A q \in Runs \ {r} : pc'[q] = pc[q]
  BY <1>1, <1>3 DEF LoneTypes
<1>5. failed[r] = 0 /\ p # 52
  BY <1>1, <1>2, <1>3 DEF Lone
<1>6. ~skipped[r]
  BY <1>1, <1>2, <1>5 DEF LoneTypes
<1>7. \A q \in Runs \ {r} : ~Running(q)'
  BY <1>1, <1>4 DEF Lone, Running
<1>8. CallIsThere(r)'
  <2>1. CallsOf("PROGRAM_A")' = CallsOf("PROGRAM_A")
    BY DEF CallsOf, Calls
  <2>2. k > 5 => p > 5
    BY <1>3
  <2>3. p > 5 => chosen[r] \in CallsOf("PROGRAM_A")
    BY <1>1, <1>2 DEF Lone, CallIsThere
  <2>4. QED
    BY <1>4, <2>1, <2>2, <2>3 DEF CallIsThere
<1>9. k = 2 => rows["Superadmin"] = {}
  BY <1>3
<1>10. ASSUME r \in DevRuns, ~skipped'[r] PROVE DevIsWhole(r)'
  <2>1. DevIsWhole(r)
    BY <1>1, <1>6, <1>10 DEF Lone
  <2>2. \A h \in Placed : /\ Place[h] \in 2..51 /\ Place[h] \notin {7, 9, 12, 3, 4, 5, 6}
                          /\ Place[h] = 2 => h = "Superadmin"
                          /\ Place[h] \in 8..11 => h \in {"SeedOrganization", "SeedOwner", "SeedItems"}
                          /\ Place[h] = 10 => h = "SeedOwner"
                          /\ Place[h] = 17 => h = "SystemUsers"
    BY DEF Placed, Place
  <2>3. k # 52
    BY <1>10
  <2>4. \A h \in Placed : Place[h] < p /\ Place[h] < 12 =>
           rows[h] # {} \/ (Place[h] > 7 /\ p <= 12 /\ rows["SystemUsers"] # {})
    BY <1>2, <2>1 DEF DevIsWhole
  <2>5. ASSUME NEW h \in Placed, Place[h] < k, Place[h] < 12
        PROVE  rows[h] # {} \/ (Place[h] > 7 /\ k <= 12 /\ rows["SystemUsers"] # {})
    <3>1. CASE p = 1
      BY <1>3, <2>2, <2>5, <3>1
    <3>2. CASE p = 7 /\ Place[h] < 7
      BY <1>3, <2>2, <2>4, <2>5, <3>2
    <3>3. CASE p = 7 /\ Place[h] > 7
      <4>1. there /\ k = 12
        BY <1>3, <2>2, <2>5, <3>3
      <4>2. CASE rows["SeedItems"] # {}
        BY <1>1, <2>2, <2>5, <3>3, <4>2 DEF OwnerComesFirst
      <4>3. CASE rows["BacklogItems"] # {} \/ rows["ExtraItems"] # {}
        <5>1. /\ {"BacklogItems", "ExtraItems"} \subseteq Placed
              /\ Place["BacklogItems"] = 24 /\ Place["ExtraItems"] = 46
          BY DEF Placed, Place
        <5>2. Others("BacklogItems") = {} /\ Others("ExtraItems") = {}
          BY ForeignIsForeign DEF Others
        <5>3. rows["SystemUsers"] # {}
          BY <1>1, <4>3, <5>1, <5>2 DEF MarkerComesFirst
        <5>4. QED
          BY <3>3, <4>1, <5>3
      <4>4. QED
        BY <1>3, <3>3, <4>1, <4>2, <4>3
    <3>4. CASE p = 9
      <4>1. CASE Place[h] < 9
        <5>1. k <= 12 /\ Place[h] < p /\ p <= 12
          BY <1>3, <3>4, <4>1
        <5>2. QED
          BY <2>4, <2>5, <5>1
      <4>2. CASE Place[h] >= 9
        BY <1>3, <2>2, <2>5, <3>4, <4>2
      <4>3. QED
        BY <2>2, <4>1, <4>2
    <3>5. CASE p = 12
      BY <1>3, <2>3, <2>4, <2>5, <3>5
    <3>6. QED
      BY <1>3, <2>2, <3>1, <3>2, <3>3, <3>4, <3>5
  <2>6. k = 10 => rows["SeedOwner"] = {}
    BY <1>3
  <2>7. ASSUME k > 12, NEW h \in Placed
        PROVE  /\ Place[h] \in 13..(k - 1) => Has(r, h)
               /\ Place[h] > 16 /\ Place[h] >= k => rows[h] \subseteq Others(h)
    <3>1. k = 13 /\ rows["SystemUsers"] = {}
      BY <1>3, <2>3, <2>7
    <3>2. Place[h] > 17 => rows[h] \subseteq Others(h)
      BY <1>1, <3>1 DEF MarkerComesFirst
    <3>3. Place[h] = 17 => rows[h] \subseteq Others(h)
      BY <2>2, <3>1
    <3>4. Place[h] > 16 => Place[h] = 17 \/ Place[h] > 17
      BY <2>2
    <3>5. QED
      BY <3>1, <3>2, <3>3, <3>4
  <2>8. QED
    BY <1>4, <2>5, <2>6, <2>7 DEF DevIsWhole, Has
<1>11. ASSUME r \notin DevRuns PROVE BaselineIsWhole(r)'
  <2>1. p = 1
    BY <1>3, <1>11
  <2>2. k > 2 => rows["Superadmin"] # {}
    BY <1>3, <2>1
  <2>3. k <= 7
    BY <1>3, <2>1
  <2>4. QED
    BY <1>4, <2>2, <2>3 DEF BaselineIsWhole
<1>12. QED
  BY <1>4, <1>5, <1>7, <1>8, <1>9, <1>10, <1>11 DEF Lone

LEMMA LooksIsLone ==
    ASSUME LoneInv, NEW r \in Runs, Looks(r)
    PROVE  LoneInv'
<1>1. PICK there, i : there = (\E h \in At(r).fixtures : rows[h] # {}) /\ i = At(r)
  OBVIOUS
<1>2. PICK k : k = pc[r] + 1 + IF there THEN At(r).skip ELSE 0
  OBVIOUS
<1>3. /\ Running(r) /\ i.do = "unless" /\ pc' = [pc EXCEPT ![r] = k]
      /\ skipped' = [skipped EXCEPT ![r] = @ \/ (there /\ i.fixtures = {"SystemUsers"})]
      /\ UNCHANGED <<rows, calls, failed, started, program, duplicates, chosen, alone, tidy>>
  BY <1>1, <1>2 DEF Looks, GoTo, callVars
<1>4. LoneTypes /\ SeedsInv /\ OwnerComesFirst
  BY DEF LoneInv
<1>5. \/ pc[r] = 1 /\ i.fixtures # {"SystemUsers"} /\ k \in {2, 3}
      \/ pc[r] = 7 /\ r \in DevRuns /\ i.fixtures # {"SystemUsers"} /\ k \in {8, 12}
      \/ /\ pc[r] = 9 /\ r \in DevRuns /\ i.fixtures # {"SystemUsers"} /\ k \in {10, 11}
         /\ k = 11 => rows["SeedOwner"] # {}
      \/ /\ pc[r] = 12 /\ r \in DevRuns /\ i.fixtures = {"SystemUsers"}
         /\ k = IF there THEN 52 ELSE 13
         /\ k = 52 => rows["SystemUsers"] # {}
  BY <1>1, <1>2, <1>3, <1>4, RunningAt DEF ScriptAt
<1>6. ~skipped[r] /\ skipped \in [Runs -> BOOLEAN]
  BY <1>4, <1>5 DEF LoneTypes
<1>7. /\ k = 52 <=> there /\ i.fixtures = {"SystemUsers"}
      /\ there \in BOOLEAN
  BY <1>1, <1>5
<1>8. /\ k # 52 => skipped' = skipped
      /\ k = 52 => skipped'[r]
      /\ skipped' \in [Runs -> BOOLEAN]
      /\ \A q \in Runs \ {r} : skipped'[q] = skipped[q]
  BY <1>3, <1>6, <1>7
<1>9. SeedsInv'
  BY <1>3, <1>4, QuietStepKeeps
<1>10. LoneTypes'
  <2>1. k \in Nat /\ (k <= IF r \in DevRuns THEN 52 ELSE 8) /\ k # 4
    BY <1>5
  <2>2. chosen' \in [Runs -> Nat \cup {None}]
    BY <1>3, <1>4 DEF LoneTypes
  <2>3. k \in 1..5 => chosen'[r] = None
    BY <1>3, <1>4, <1>5 DEF LoneTypes
  <2>4. QED
    BY <1>3, <1>8, <2>1, <2>2, <2>3, MoveTypes
<1>11. alone[r] => Lone(r)'
  BY <1>1, <1>2, <1>3, <1>6, <1>8, LookIsLone
<1>12. r \in DevRuns =>
          /\ k > 17 => rows["SystemUsers"] # {}
          /\ k \in 9..11 => pc[r] \in 9..11
          /\ k = 11 => rows["SeedOwner"] # {}
  BY <1>5
<1>13. \A q \in Runs \ {r} : chosen'[q] = chosen[q] /\ skipped'[q] = skipped[q]
  BY <1>3, <1>8
<1>14. QED
  BY <1>3, <1>9, <1>10, <1>11, <1>12, <1>13, MoveIsLone

-----------------------------------------------------------------------------
(***************************************************************************)
(* A run that is alone inserts rows                                        *)
(***************************************************************************)
\* The fixture a run is at, its place and what it refers to
LEMMA InsertAt ==
    ASSUME LoneTypes, NEW r \in Runs, Running(r), NEW i, i = At(r), i.do = "insert"
    PROVE  /\ i.fixture \in Fixtures
           /\ \/ r \in DevRuns /\ pc[r] \in 1..51 /\ Fits(i, pc[r])
              \/ /\ r \notin DevRuns /\ pc[r] = 2 /\ i.fixture = "Superadmin"
                 /\ i.names = {} /\ i.finds = {} /\ i.conflict = "error"
              \/ /\ r \notin DevRuns /\ pc[r] = 7 /\ i.fixture = "Domains"
                 /\ i.names = {} /\ i.finds = {} /\ i.conflict = "ignored"
<1>1. PICK s : s = Script(r)
  OBVIOUS
<1>2. pc[r] \in 1..Len(s) /\ s[pc[r]] = i
  BY <1>1 DEF Running, At
<1>3. i.fixture \in FixturesOf(s)
  BY <1>2 DEF FixturesOf
<1>4. s = Dev \/ s = Baseline
  BY <1>1 DEF Script
<1>5. i.fixture \in Fixtures
  BY <1>3, <1>4 DEF Fixtures
<1>6. \/ r \in DevRuns /\ Fits(i, pc[r])
      \/ r \notin DevRuns /\ pc[r] = 2 /\ i = Superadmin
      \/ r \notin DevRuns /\ pc[r] = 7 /\ i = Domains
  BY RunningAt DEF ScriptAt
<1>7. r \in DevRuns => pc[r] \in 1..51
  BY RunningAt
<1>8. QED
  BY <1>5, <1>6, <1>7 DEF Superadmin, Domains, Insert

\* A run that is alone and fails refers to what somebody else has the keys of.
LEMMA FailureIsForeign ==
    ASSUME LoneInv, NEW r \in Runs, Running(r), alone[r], NEW i, i = At(r), i.do = "insert",
           \/ \E h \in i.finds : rows[h] = {}
           \/ ~RefersToRows(r, i.names)
           \/ i.conflict = "error" /\ rows[i.fixture] # {}
    PROVE  \E h \in i.names \cap Fixtures : "other" \in rows[h]
<1>1. LoneTypes /\ Lone(r) /\ OwnerComesFirst
  BY DEF LoneInv, LoneRuns
<1>2. PICK p : p = pc[r]
  OBVIOUS
<1>3. \/ r \in DevRuns /\ p \in 1..51 /\ Fits(i, p)
      \/ /\ r \notin DevRuns /\ p = 2 /\ i.fixture = "Superadmin"
         /\ i.names = {} /\ i.finds = {} /\ i.conflict = "error"
      \/ /\ r \notin DevRuns /\ p = 7 /\ i.fixture = "Domains"
         /\ i.names = {} /\ i.finds = {} /\ i.conflict = "ignored"
  BY <1>1, <1>2, InsertAt
<1>4. r \in DevRuns => DevIsWhole(r)
  <2>1. p # 52
    BY <1>3
  <2>2. QED
    BY <1>1, <1>2, <2>1 DEF LoneTypes, Lone
<1>5. p = 2 => rows["Superadmin"] = {}
  BY <1>1, <1>2 DEF Lone
<1>6. i.names # {} \/ (i.finds # {} /\ p > 12) => r \in DevRuns /\ p \in 13..51 /\ Fits(i, p)
  BY <1>3 DEF Fits
<1>7. ASSUME NEW h \in i.finds PROVE rows[h] # {}
  <2>1. r \in DevRuns /\ p \in 1..51 /\ Fits(i, p)
    BY <1>3, <1>7
  <2>2. CASE p < 13
    <3>1. h = "SeedOrganization" /\ p > 9
      BY <1>7, <2>1, <2>2 DEF Fits
    <3>2. p \in 10..11 \/ p = 12
      BY <2>1, <2>2, <3>1
    <3>3. p # 12
      <4>1. \A g \in Placed : Place[g] # 12
        BY PlacesAreNoControls DEF Controls
      <4>2. QED
        BY <2>1, <4>1 DEF Fits
    <3>4. QED
      BY <1>1, <1>2, <2>1, <3>1, <3>2, <3>3 DEF OwnerComesFirst
  <2>3. CASE p > 12
    <3>1. h \in Placed /\ Place[h] \in 13..(p - 1)
      BY <1>7, <2>1, <2>3 DEF Fits
    <3>2. Has(r, h)
      BY <1>2, <1>4, <2>1, <2>3, <3>1 DEF DevIsWhole
    <3>3. QED
      BY <3>2 DEF Has
  <2>4. QED
    BY <2>1, <2>2, <2>3
<1>8. CASE ~RefersToRows(r, i.names)
  <2>1. PICK h \in i.names : IF h = "Call" THEN ~calls[chosen[r]].there
                             ELSE r \notin rows[h]
    BY <1>8 DEF RefersToRows
  <2>2. r \in DevRuns /\ p \in 13..51 /\ Fits(i, p)
    BY <1>6, <2>1
  <2>3. h # "Call"
    <3>1. chosen[r] \in CallsOf("PROGRAM_A")
      BY <1>1, <1>2, <2>2 DEF Lone, CallIsThere
    <3>2. QED
      BY <2>1, <3>1 DEF CallsOf
  <2>4. h \in Placed /\ Place[h] > 16 /\ Place[h] \in 13..(p - 1)
    <3>1. h \in Placed /\ Place[h] \in 17..(p - 1)
      BY <2>1, <2>2, <2>3 DEF Fits
    <3>2. QED
      BY <2>2, <3>1
  <2>5. Has(r, h)
    BY <1>2, <1>4, <2>2, <2>4 DEF DevIsWhole
  <2>6. "other" \in rows[h]
    BY <2>1, <2>3, <2>4, <2>5 DEF Has
  <2>7. QED
    BY <2>1, <2>4, <2>6, PlacedAreFixtures
<1>9. ~(i.conflict = "error" /\ rows[i.fixture] # {})
  <2>1. SUFFICES ASSUME i.conflict = "error" PROVE rows[i.fixture] = {}
    OBVIOUS
  <2>2. CASE r \notin DevRuns
    BY <1>3, <1>5, <2>1, <2>2
  <2>3. CASE r \in DevRuns
    <3>1. p \in {2, 10} /\ i.fixture \in Placed /\ Place[i.fixture] = p
      BY <1>3, <2>1, <2>3 DEF Fits
    <3>2. \A h \in Placed : /\ Place[h] = 2 => h = "Superadmin"
                            /\ Place[h] = 10 => h = "SeedOwner"
      BY DEF Placed, Place
    <3>3. p = 10 => rows["SeedOwner"] = {}
      BY <1>2, <1>4, <2>3 DEF DevIsWhole
    <3>4. QED
      BY <1>5, <3>1, <3>2, <3>3
  <2>4. QED
    BY <2>2, <2>3
<1>10. QED
  BY <1>7, <1>8, <1>9

\* The rows of a fixture that was inserted are there.
LEMMA InsertedRows ==
    ASSUME LoneTypes, NEW r \in Runs, NEW i, i.fixture \in Fixtures,
           rows' = [rows EXCEPT ![i.fixture] =
                      IF i.conflict = "none" \/ @ = {}
                      THEN @ \cup {r} ELSE @]
    PROVE  /\ rows'[i.fixture] # {}
           /\ \/ r \in rows'[i.fixture]
              \/ rows'[i.fixture] = rows[i.fixture]
           /\ \A h \in Fixtures : /\ rows[h] \subseteq rows'[h]
                                  /\ h # i.fixture => rows'[h] = rows[h]
           /\ RowsKeepTypes
<1>1. PICK f, X : /\ f = i.fixture
                  /\ X = IF i.conflict = "none" \/ rows[f] = {}
                         THEN rows[f] \cup {r} ELSE rows[f]
  OBVIOUS
<1>2. rows' = [rows EXCEPT ![f] = X] /\ rows \in [Fixtures -> SUBSET ({"other"} \cup Runs)]
  BY <1>1 DEF LoneTypes
<1>3. rows'[f] = X /\ \A h \in Fixtures : h # f => rows'[h] = rows[h]
  BY <1>1, <1>2
<1>4. X # {} /\ rows[f] \subseteq X /\ (r \in X \/ X = rows[f])
      /\ X \subseteq rows[f] \cup {r}
  BY <1>1
<1>5. RowsKeepTypes
  <2>1. X \in SUBSET ({"other"} \cup Runs)
    BY <1>1, <1>2, <1>4
  <2>2. QED
    BY <1>1, <1>2, <2>1 DEF RowsKeepTypes
<1>6. QED
  BY <1>1, <1>3, <1>4, <1>5

\* The marker and the owner of the items keep coming first.
LEMMA InsertKeepsOrder ==
    ASSUME LoneInv, NEW r \in Runs, Running(r), NEW i, i = At(r), i.do = "insert",
           NEW k, k = pc[r] + 1, pc' = [pc EXCEPT ![r] = k],
           rows'[i.fixture] # {},
           \A h \in Fixtures : /\ rows[h] \subseteq rows'[h]
                               /\ h # i.fixture => rows'[h] = rows[h]
    PROVE  MarkerComesFirst' /\ OwnerComesFirst'
<1>1. LoneTypes /\ MarkerComesFirst /\ OwnerComesFirst
  BY DEF LoneInv
<1>2. PICK p, f : p = pc[r] /\ f = i.fixture
  OBVIOUS
<1>3. \/ r \in DevRuns /\ p \in 1..51 /\ f \in Placed /\ Place[f] = p
      \/ r \notin DevRuns /\ p \in Nat /\ f \in {"Superadmin", "Domains"}
  BY <1>1, <1>2, InsertAt DEF Fits
<1>4. /\ pc'[r] = k /\ k = p + 1
      /\ \A q \in Runs \ {r} : pc'[q] = pc[q]
  BY <1>1, <1>2 DEF LoneTypes
<1>5. /\ "SystemUsers" \in Placed /\ Place["SystemUsers"] = 17
      /\ "SeedItems" \in Placed /\ Place["SeedItems"] = 11
      /\ "SeedOwner" \in Placed /\ Place["SeedOwner"] = 10
      /\ "SeedOrganization" \in Placed /\ Place["SeedOrganization"] = 8
      /\ "Superadmin" \in Placed /\ Place["Superadmin"] = 2 /\ "Domains" \notin Placed
  BY DEF Placed, Place
<1>6. /\ \A h \in Placed : rows[h] \subseteq rows'[h] /\ (h # f => rows'[h] = rows[h])
      /\ rows'[f] # {}
  BY <1>2, PlacedAreFixtures
<1>7. r \in DevRuns => /\ p = 17 => f = "SystemUsers"
                       /\ p = 10 => f = "SeedOwner"
                       /\ p = 8 => f = "SeedOrganization"
  BY <1>3, <1>5, OnePlaceEach
<1>8. MarkerComesFirst'
  <2>1. ASSUME rows'["SystemUsers"] = {}, NEW h \in Placed, Place[h] > 17
        PROVE  rows'[h] \subseteq Others(h)
    <3>1. rows["SystemUsers"] = {} /\ f # "SystemUsers"
      BY <1>5, <1>6, <2>1
    <3>2. rows[h] \subseteq Others(h)
      BY <1>1, <2>1, <3>1 DEF MarkerComesFirst
    <3>3. h # f
      <4>1. SUFFICES ASSUME h = f PROVE FALSE
        OBVIOUS
      <4>2. r \in DevRuns /\ p > 17
        BY <1>3, <1>5, <2>1, <4>1
      <4>3. QED
        BY <1>1, <1>2, <3>1, <4>2 DEF MarkerComesFirst
    <3>4. QED
      BY <1>6, <3>2, <3>3
  <2>2. ASSUME NEW q \in DevRuns, pc'[q] > 17 PROVE rows'["SystemUsers"] # {}
    <3>1. CASE q = r
      <4>1. p > 17 \/ p = 17
        BY <1>3, <1>4, <2>2, <3>1
      <4>2. QED
        BY <1>1, <1>2, <1>5, <1>6, <1>7, <2>2, <3>1, <4>1 DEF MarkerComesFirst
    <3>2. CASE q # r
      <4>1. pc[q] > 17
        BY <1>4, <2>2, <3>2 DEF Runs
      <4>2. QED
        BY <1>1, <1>5, <1>6, <2>2, <4>1 DEF MarkerComesFirst
    <3>3. QED
      BY <3>1, <3>2
  <2>3. QED
    BY <2>1, <2>2 DEF MarkerComesFirst, Others
<1>9. OwnerComesFirst'
  <2>1. ASSUME rows'["SeedItems"] # {}
        PROVE  rows'["SeedOrganization"] # {} /\ rows'["SeedOwner"] # {}
    <3>1. CASE f = "SeedItems"
      <4>1. r \in DevRuns /\ p = 11
        BY <1>3, <1>5, <3>1
      <4>2. pc[r] = 11 /\ pc[r] \in 9..11 /\ r \in DevRuns
        BY <1>2, <4>1
      <4>3. rows["SeedOrganization"] # {} /\ rows["SeedOwner"] # {}
        BY <1>1, <4>2 DEF OwnerComesFirst
      <4>4. QED
        BY <1>5, <1>6, <4>3
    <3>2. CASE f # "SeedItems"
      BY <1>1, <1>5, <1>6, <2>1, <3>2 DEF OwnerComesFirst
    <3>3. QED
      BY <3>1, <3>2
  <2>2. ASSUME NEW q \in DevRuns, pc'[q] \in 9..11
        PROVE  /\ rows'["SeedOrganization"] # {}
               /\ pc'[q] = 11 => rows'["SeedOwner"] # {}
    <3>1. CASE q = r
      <4>1. p = 8 \/ p = 9 \/ p = 10
        BY <1>3, <1>4, <2>2, <3>1
      <4>2. p \in 9..10 => rows["SeedOrganization"] # {}
        BY <1>1, <1>2, <2>2, <3>1 DEF OwnerComesFirst
      <4>3. pc'[q] = 11 => p = 10
        BY <1>4, <3>1, <4>1
      <4>4. QED
        BY <1>5, <1>6, <1>7, <2>2, <3>1, <4>1, <4>2, <4>3
    <3>2. CASE q # r
      <4>1. pc'[q] = pc[q]
        BY <1>4, <2>2, <3>2 DEF Runs
      <4>2. QED
        BY <1>1, <1>5, <1>6, <2>2, <4>1 DEF OwnerComesFirst
    <3>3. QED
      BY <3>1, <3>2
  <2>3. QED
    BY <2>1, <2>2 DEF OwnerComesFirst
<1>10. QED
  BY <1>8, <1>9

\* What a run that is alone inserts makes its fixtures whole up to there.
LEMMA InsertIsLone ==
    ASSUME LoneInv, NEW r \in Runs, Running(r), alone[r], NEW i, i = At(r), i.do = "insert",
           NEW k, k = pc[r] + 1, pc' = [pc EXCEPT ![r] = k],
           rows'[i.fixture] # {},
           \/ r \in rows'[i.fixture]
           \/ rows'[i.fixture] = rows[i.fixture],
           \A h \in Fixtures : /\ rows[h] \subseteq rows'[h]
                               /\ h # i.fixture => rows'[h] = rows[h],
           UNCHANGED <<calls, failed, chosen, skipped>>
    PROVE  Lone(r)'
<1>1. LoneTypes /\ Lone(r)
  BY DEF LoneInv, LoneRuns
<1>2. PICK p, f : p = pc[r] /\ f = i.fixture
  OBVIOUS
<1>3. \/ /\ r \in DevRuns /\ p \in 1..51 /\ f \in Placed /\ Place[f] = p
      \/ r \notin DevRuns /\ p = 2 /\ f = "Superadmin"
      \/ r \notin DevRuns /\ p = 7 /\ f = "Domains"
  BY <1>1, <1>2, InsertAt DEF Fits
<1>4. p \in 1..51 /\ p \notin {3, 4, 5, 6, 9, 12} /\ p # 1
  BY <1>3, PlacesAreNoControls DEF Controls
<1>5. /\ pc'[r] = k /\ k = p + 1
      /\ \A q \in Runs \ {r} : pc'[q] = pc[q]
  BY <1>1, <1>2 DEF LoneTypes
<1>6. failed[r] = 0 /\ ~skipped[r]
  <2>1. p # 0 /\ p # 52
    BY <1>4
  <2>2. failed[r] = 0
    BY <1>1, <1>2, <2>1 DEF Lone
  <2>3. skipped[r] => p = 52
    BY <1>1, <1>2 DEF LoneTypes
  <2>4. QED
    BY <2>1, <2>2, <2>3
<1>7. \A q \in Runs \ {r} : ~Running(q)'
  BY <1>1, <1>5 DEF Lone, Running
<1>8. CallIsThere(r)'
  <2>1. CallsOf("PROGRAM_A")' = CallsOf("PROGRAM_A")
    BY DEF CallsOf, Calls
  <2>2. k # 4 /\ k # 5 /\ (k > 5 => p > 5)
    BY <1>4, <1>5
  <2>3. p > 5 => chosen[r] \in CallsOf("PROGRAM_A")
    BY <1>1, <1>2 DEF Lone, CallIsThere
  <2>4. QED
    BY <1>5, <2>1, <2>2, <2>3 DEF CallIsThere
<1>9. /\ \A h \in Placed : rows[h] \subseteq rows'[h] /\ (h # f => rows'[h] = rows[h])
      /\ rows'[f] # {} /\ (r \in rows'[f] \/ rows'[f] = rows[f])
  BY <1>2, PlacedAreFixtures
<1>10. ASSUME r \in DevRuns PROVE DevIsWhole(r)'
  <2>1. DevIsWhole(r)
    BY <1>1, <1>6, <1>10 DEF Lone
  <2>2. f \in Placed /\ Place[f] = p /\ \A h \in Placed : Place[h] = p => h = f
    BY <1>3, <1>10, OnePlaceEach
  <2>3. \A h \in Placed : Place[h] \in 2..51
    BY PlacesAreNoControls
  <2>4. "SystemUsers" \in Placed
    BY DEF Placed, Place
  <2>5. ASSUME NEW h \in Placed, Place[h] < k, Place[h] < 12
        PROVE  rows'[h] # {} \/ (Place[h] > 7 /\ k <= 12 /\ rows'["SystemUsers"] # {})
    <3>1. CASE Place[h] = p
      BY <1>9, <2>2, <3>1
    <3>2. CASE Place[h] < p
      <4>1. rows[h] # {} \/ (Place[h] > 7 /\ p <= 12 /\ rows["SystemUsers"] # {})
        BY <1>2, <2>1, <2>5, <3>2 DEF DevIsWhole
      <4>2. p <= 12 => k <= 12
        BY <1>4, <1>5
      <4>3. QED
        BY <1>9, <2>4, <4>1, <4>2
    <3>3. QED
      BY <1>4, <1>5, <2>3, <2>5, <3>1, <3>2
  <2>6. k # 10
    BY <1>4, <1>5
  <2>7. ASSUME k > 12, NEW h \in Placed, Place[h] \in 13..(k - 1) PROVE Has(r, h)'
    <3>1. p > 12
      BY <1>4, <1>5, <2>7
    <3>2. CASE Place[h] < p
      <4>1. Has(r, h)
        <5>1. Place[h] \in 13..(p - 1)
          BY <1>4, <2>3, <2>7, <3>2
        <5>2. QED
          BY <1>2, <2>1, <2>7, <3>1, <5>1 DEF DevIsWhole
      <4>2. QED
        BY <1>9, <4>1 DEF Has
    <3>3. CASE Place[h] = p
      <4>1. h = f
        BY <2>2, <3>3
      <4>2. CASE r \in rows'[f]
        BY <1>9, <4>1, <4>2 DEF Has
      <4>3. CASE rows'[f] = rows[f]
        <5>1. Place[f] > 16 => rows[f] \subseteq {"other"}
          <6>1. f \in Placed /\ Place[f] >= pc[r]
            BY <1>2, <1>4, <2>2
          <6>2. Place[f] > 16 => rows[f] \subseteq Others(f)
            BY <1>2, <2>1, <3>1, <6>1 DEF DevIsWhole
          <6>3. Others(f) \subseteq {"other"}
            BY DEF Others
          <6>4. QED
            BY <6>2, <6>3
        <5>2. QED
          BY <1>9, <4>1, <4>3, <5>1 DEF Has
      <4>4. QED
        BY <1>9, <4>2, <4>3
    <3>4. QED
      BY <1>4, <1>5, <2>3, <2>7, <3>2, <3>3
  <2>8. ASSUME k > 12, NEW h \in Placed, Place[h] > 16, Place[h] >= k
        PROVE  rows'[h] \subseteq Others(h)
    <3>1. p > 12 /\ Place[h] >= p /\ Place[h] # p
      BY <1>4, <1>5, <2>3, <2>8
    <3>2. rows[h] \subseteq Others(h) /\ h # f
      BY <1>2, <2>1, <2>2, <2>8, <3>1 DEF DevIsWhole
    <3>3. QED
      BY <1>9, <3>2
  <2>9. QED
    BY <1>5, <2>5, <2>6, <2>7, <2>8 DEF DevIsWhole, Others
<1>11. ASSUME r \notin DevRuns PROVE BaselineIsWhole(r)'
  <2>1. BaselineIsWhole(r)
    BY <1>1, <1>11 DEF Lone
  <2>2. "Superadmin" \in Placed
    BY DEF Placed, Place
  <2>3. p = 2 => f = "Superadmin" /\ k = 3
    BY <1>3, <1>5, <1>11
  <2>4. p = 7 => f = "Domains" /\ k = 8
    BY <1>3, <1>5, <1>11
  <2>5. p = 7 => rows["Superadmin"] # {}
    BY <1>2, <2>1 DEF BaselineIsWhole
  <2>6. p = 2 \/ p = 7
    BY <1>3, <1>11
  <2>7. QED
    BY <1>5, <1>9, <2>2, <2>3, <2>4, <2>5, <2>6 DEF BaselineIsWhole
<1>12. k # 2
  BY <1>4, <1>5
<1>13. QED
  BY <1>5, <1>6, <1>7, <1>8, <1>10, <1>11, <1>12 DEF Lone

LEMMA InsertsIsLone ==
    ASSUME LoneInv, NEW r \in Runs, Inserts(r)
    PROVE  LoneInv'
<1>1. PICK i : i = At(r)
  OBVIOUS
<1>2. Running(r) /\ i.do = "insert" /\ UNCHANGED <<calls, changes, started>>
  BY <1>1 DEF Inserts
<1>3. LoneTypes /\ SeedsInv
  BY DEF LoneInv
<1>4. CASE /\ \/ \E h \in i.finds : rows[h] = {}
              \/ ~RefersToRows(r, i.names)
              \/ i.conflict = "error" /\ rows[i.fixture] # {}
           /\ Fails(r) /\ UNCHANGED rows
  <2>1. Ends(r) /\ failed' = [failed EXCEPT ![r] = pc[r]] /\ alone' = alone
    BY <1>4 DEF Fails
  <2>2. alone[r] => \E h \in At(r).names \cap Fixtures : "other" \in rows[h]
    BY <1>1, <1>2, <1>4, FailureIsForeign
  <2>3. QED
    BY <1>2, <1>4, <2>1, <2>2, EndIsLone
<1>5. CASE /\ rows' = [rows EXCEPT ![i.fixture] =
                         IF i.conflict = "none" \/ @ = {}
                         THEN @ \cup {r} ELSE @]
           /\ Proceeds(r)
           /\ UNCHANGED <<failed, callVars, recordVars>>
  <2>1. PICK k : k = pc[r] + 1
    OBVIOUS
  <2>2. /\ pc' = [pc EXCEPT ![r] = k]
        /\ UNCHANGED <<failed, program, duplicates, chosen, skipped, alone, tidy>>
    BY <1>5, <2>1 DEF Proceeds, GoTo, callVars, recordVars
  <2>3. i.fixture \in Fixtures
    BY <1>1, <1>2, <1>3, InsertAt
  <2>4. /\ rows'[i.fixture] # {}
        /\ \/ r \in rows'[i.fixture]
           \/ rows'[i.fixture] = rows[i.fixture]
        /\ \A h \in Fixtures : /\ rows[h] \subseteq rows'[h]
                               /\ h # i.fixture => rows'[h] = rows[h]
        /\ RowsKeepTypes
    BY <1>3, <1>5, <2>3, InsertedRows
  <2>5. SeedsInv'
    BY <1>2, <1>3, <2>2, QuietStepKeeps
  <2>6. OnlyRun(r)
    <3>1. ASSUME NEW q \in Runs \ {r}, alone'[q] PROVE alone[q] /\ ~Running(q)
      BY <1>2, <2>2, <3>1 DEF LoneInv, LoneRuns, Lone
    <3>2. \A q \in Runs \ {r} : pc'[q] = pc[q]
      BY <1>3, <2>2 DEF LoneTypes
    <3>3. QED
      BY <2>2, <2>4, <3>1, <3>2 DEF OnlyRun
  <2>7. LoneTypes'
    <3>1. /\ pc[r] \in 1..(IF r \in DevRuns THEN 51 ELSE 7)
          /\ pc[r] # 3 /\ pc[r] # 4
      <4>1. pc[r] \in 1..(IF r \in DevRuns THEN 51 ELSE 7)
        BY <1>2, <1>3, RunningAt
      <4>2. r \in DevRuns => pc[r] # 3 /\ pc[r] # 4
        <5>1. r \in DevRuns => i.fixture \in Placed /\ Place[i.fixture] = pc[r]
          BY <1>1, <1>2, <1>3, InsertAt DEF Fits
        <5>2. QED
          BY <5>1, PlacesAreNoControls DEF Controls
      <4>3. r \notin DevRuns => pc[r] # 3 /\ pc[r] # 4
        BY <1>1, <1>2, <1>3, InsertAt
      <4>4. QED
        BY <4>1, <4>2, <4>3
    <3>2. PICK n : n = IF r \in DevRuns THEN 51 ELSE 7
      OBVIOUS
    <3>3. k \in Nat /\ k <= n + 1 /\ k # 4 /\ k # 5 /\ (k \in 1..5 => pc[r] \in 1..5)
      BY <2>1, <3>1, <3>2
    <3>4. k <= IF r \in DevRuns THEN 52 ELSE 8
      BY <3>2, <3>3
    <3>5. chosen' \in [Runs -> Nat \cup {None}] /\ (k \in 1..5 => chosen'[r] = None)
      BY <1>3, <2>2, <3>3 DEF LoneTypes
    <3>6. QED
      BY <1>2, <2>2, <2>4, <3>3, <3>4, <3>5, MoveTypes
  <2>8. MarkerComesFirst' /\ OwnerComesFirst'
    BY <1>1, <1>2, <2>1, <2>2, <2>4, InsertKeepsOrder
  <2>9. alone'[r] => Lone(r)'
    BY <1>1, <1>2, <2>1, <2>2, <2>4, InsertIsLone
  <2>10. QED
    BY <2>5, <2>6, <2>7, <2>8, <2>9, StepIsLone
<1>6. QED
  BY <1>1, <1>4, <1>5 DEF Inserts

-----------------------------------------------------------------------------
(***************************************************************************)
(* The other steps                                                         *)
(***************************************************************************)
\* A call that a statement keeps is there for whoever looks for it.
LEMMA OthersKeepCalls ==
    ASSUME LoneInv, SeedsInv',
           UNCHANGED <<rows, pc, failed, started, program, duplicates, chosen, skipped, alone>>,
           \A type \in Types : CallsOf(type) \subseteq CallsOf(type)'
    PROVE  LoneInv'
<1>1. LoneTypes' /\ MarkerComesFirst' /\ OwnerComesFirst'
  BY DEF LoneInv, LoneTypes, MarkerComesFirst, OwnerComesFirst
<1>2. ASSUME NEW r \in Runs, alone[r] PROVE Lone(r)'
  <2>1. Lone(r)
    BY <1>2 DEF LoneInv, LoneRuns
  <2>2. ASSUME CallIsThere(r) PROVE CallIsThere(r)'
    <3>1. "PROGRAM_A" \in Types /\ (program[r] \in 1..2 => Programs[program[r]] \in Types)
      BY ProgramsDiffer DEF Types
    <3>2. ASSUME NEW step, NEW type \in Types, Spares(step, type) PROVE Spares(step, type)'
      <4>1. CallsOf(type) \subseteq CallsOf(type)'
        OBVIOUS
      <4>2. QED
        BY <3>2, <4>1 DEF Spares
    <3>3. PICK step, type : step = duplicates[r] /\ type = Programs[program[r]]
      OBVIOUS
    <3>4. pc[r] = 4 /\ program[r] \in 1..2 => Spares(step, type)'
      BY <2>2, <3>1, <3>2, <3>3 DEF CallIsThere
    <3>5. QED
      BY <2>2, <3>1, <3>3, <3>4 DEF CallIsThere
  <2>3. (DevIsWhole(r) => DevIsWhole(r)') /\ (BaselineIsWhole(r) => BaselineIsWhole(r)')
    BY DEF DevIsWhole, BaselineIsWhole, Has
  <2>4. \A q \in Runs : Running(q)' <=> Running(q)
    BY DEF Running
  <2>5. QED
    BY <2>1, <2>2, <2>3, <2>4 DEF Lone
<1>3. QED
  BY <1>1, <1>2 DEF LoneInv, LoneRuns

\* Administrators and teams take no call away.
LEMMA ApplicationIsLone ==
    ASSUME LoneInv, ApplicationNext
    PROVE  LoneInv'
<1>1. SeedsInv /\ SeedsInv' /\ calls \in Seq(Call)
  BY ApplicationKeeps DEF LoneInv, SeedsInv, SeedTypes
<1>2. ASSUME NEW type \in Types, CreateCall(type) PROVE LoneInv'
  <2>1. PICK row : row = [type |-> type, open |-> FALSE, filed |-> FALSE, there |-> TRUE]
    OBVIOUS
  <2>2. calls' = Append(calls, row) /\ row \in Call
    BY <1>2, <2>1 DEF CreateCall, Call
  <2>3. ASSUME NEW t \in Types PROVE CallsOf(t) \subseteq CallsOf(t)'
    BY <1>1, <2>2 DEF CallsOf, Calls
  <2>4. QED
    BY <1>1, <1>2, <2>3, OthersKeepCalls DEF CreateCall, callVars
<1>3. ASSUME NEW c \in Calls, NEW row, row \in Call, row.type = calls[c].type,
             row.there = calls[c].there, calls' = [calls EXCEPT ![c] = row],
             NEW t \in Types
      PROVE  CallsOf(t) \subseteq CallsOf(t)'
  <2>1. Calls' = Calls /\ calls'[c] = row /\ \A d \in Calls \ {c} : calls'[d] = calls[d]
    BY <1>1, <1>3 DEF Calls
  <2>2. QED
    BY <1>3, <2>1 DEF CallsOf
<1>4. ASSUME NEW c \in Calls, NEW open \in BOOLEAN, SetOpen(c, open) PROVE LoneInv'
  <2>1. PICK row : row = [calls[c] EXCEPT !.open = open]
    OBVIOUS
  <2>2. calls[c] \in Call
    BY <1>1 DEF Calls
  <2>3. row \in Call /\ row.type = calls[c].type /\ row.there = calls[c].there
    BY <2>1, <2>2 DEF Call
  <2>4. calls' = [calls EXCEPT ![c] = row]
    BY <1>4, <2>1 DEF SetOpen
  <2>5. \A t \in Types : CallsOf(t) \subseteq CallsOf(t)'
    BY <1>3, <2>3, <2>4
  <2>6. QED
    BY <1>1, <1>4, <2>5, OthersKeepCalls DEF SetOpen, callVars
<1>5. ASSUME NEW c \in Calls, FilesApplication(c) PROVE LoneInv'
  <2>1. PICK row : row = [calls[c] EXCEPT !.filed = TRUE]
    OBVIOUS
  <2>2. calls[c] \in Call
    BY <1>1 DEF Calls
  <2>3. row \in Call /\ row.type = calls[c].type /\ row.there = calls[c].there
    BY <2>1, <2>2 DEF Call
  <2>4. calls' = [calls EXCEPT ![c] = row]
    BY <1>5, <2>1 DEF FilesApplication
  <2>5. \A t \in Types : CallsOf(t) \subseteq CallsOf(t)'
    BY <1>3, <2>3, <2>4
  <2>6. QED
    BY <1>1, <1>5, <2>5, OthersKeepCalls DEF FilesApplication, callVars, recordVars
<1>6. QED
  BY <1>2, <1>4, <1>5 DEF ApplicationNext

LEMMA LoneInvStarts == SeedsInit => LoneInv
<1> SUFFICES ASSUME SeedsInit PROVE LoneInv
  OBVIOUS
<1>1. \E used \in SUBSET Foreign :
         rows = [h \in Fixtures |-> IF h \in used THEN {"other"} ELSE {}]
  BY DEF SeedsInit
<1>2. /\ rows \in [Fixtures -> SUBSET {"other"}]
      /\ \A h \in Fixtures : rows[h] \subseteq Others(h)
  BY <1>1 DEF Others
<1>3. \A h \in Placed : h \in Fixtures
  BY PlacedAreFixtures
<1>4. \A r \in Runs : /\ pc[r] = 0 /\ failed[r] = 0 /\ chosen[r] = None
                      /\ ~skipped[r] /\ ~alone[r]
  BY DEF SeedsInit
<1>5. LoneTypes
  <2>1. rows \in [Fixtures -> SUBSET ({"other"} \cup Runs)]
    BY <1>2
  <2>2. \A r \in Runs : pc[r] <= Len(Script(r)) + 1
    <3>1. SUFFICES ASSUME NEW r \in Runs PROVE 0 <= Len(Script(r)) + 1
      BY <1>4
    <3>2. PICK s : s = Script(r)
      OBVIOUS
    <3>3. Len(s) = 51 \/ Len(s) = 7
      BY <3>2, ScriptsAt
    <3>4. QED
      BY <3>2, <3>3
  <2>3. /\ pc \in [Runs -> Nat] /\ failed \in [Runs -> Nat]
        /\ skipped \in [Runs -> BOOLEAN] /\ alone \in [Runs -> BOOLEAN]
        /\ chosen \in [Runs -> Nat \cup {None}]
    BY DEF SeedsInit
  <2>4. QED
    BY <1>4, <2>1, <2>2, <2>3 DEF LoneTypes
<1>6. MarkerComesFirst
  BY <1>2, <1>3, <1>4 DEF MarkerComesFirst, Runs
<1>7. OwnerComesFirst
  <2>1. Others("SeedItems") = {} /\ "SeedItems" \in Fixtures
    BY <1>3, ForeignIsForeign DEF Others, Placed, Place
  <2>2. rows["SeedItems"] = {}
    BY <1>2, <2>1
  <2>3. QED
    BY <1>4, <2>2 DEF OwnerComesFirst, Runs
<1>8. LoneRuns
  BY <1>4 DEF LoneRuns
<1>9. QED
  BY <1>5, <1>6, <1>7, <1>8, SeedsInitHolds DEF LoneInv

LEMMA LoneInvHolds == SeedsSpec => []LoneInv
<1>1. ASSUME LoneInv, UNCHANGED seedVars PROVE LoneInv'
  <2>1. SeedsInv'
    BY <1>1, QuietStepKeeps DEF LoneInv, seedVars, callVars, recordVars
  <2>2. \A type \in Types : CallsOf(type) \subseteq CallsOf(type)'
    BY <1>1 DEF seedVars, CallsOf, Calls
  <2>3. QED
    BY <1>1, <2>1, <2>2, OthersKeepCalls DEF seedVars, callVars, recordVars
<1>2. ASSUME LoneInv, NEW r \in Runs, RunNext(r) PROVE LoneInv'
  <2>1. CASE Interrupted(r)
    BY <1>2, <2>1, EndIsLone DEF Interrupted
  <2>2. QED
    BY <1>2, <2>1, StartIsLone, LooksIsLone, InsertsIsLone, ChoiceIsLone, CheckIsLone,
       BeginningIsLone, SelectionIsLone, InsertionIsLone, OpeningIsLone, CountingIsLone,
       DeletionIsLone, EndingProgramsIsLone, DocumentsIsLone DEF RunNext
<1>3. LoneInv /\ [SeedsNext]_seedVars => LoneInv'
  BY <1>1, <1>2, ApplicationIsLone DEF SeedsNext
<1>4. QED
  BY LoneInvStarts, <1>3, PTL DEF SeedsSpec

\* Whatever is in the database, and however many runs were interrupted or
\* overlapped before: a run that has the database to itself fails only at a
\* row of somebody else, and when it comes to its end without having found
\* the marker it leaves no fixture without its rows.
THEOREM LoneSeedingLeavesNoGap == SeedsSpec => []LoneSeedingIsWhole
<1>1. ASSUME LoneInv, NEW r \in Runs, alone[r]
      PROVE  /\ failed[r] # 0 => \E h \in Script(r)[failed[r]].names : "other" \in rows[h]
             /\ Done(r) /\ ~skipped[r] =>
                   \A k \in DOMAIN Script(r) :
                      Script(r)[k].do = "insert" => rows[Script(r)[k].fixture] # {}
  <2>1. Lone(r) /\ LoneTypes
    BY <1>1 DEF LoneInv, LoneRuns
  <2>2. failed[r] # 0 => \E h \in Script(r)[failed[r]].names : "other" \in rows[h]
    BY <2>1 DEF Lone
  <2>3. PICK s : s = Script(r)
    OBVIOUS
  <2>4. /\ Len(s) = IF r \in DevRuns THEN 51 ELSE 7
        /\ \A k \in 1..Len(s) : ScriptAt(r, s[k], k)
    BY <2>3, ScriptsAt
  <2>5. ASSUME Done(r), ~skipped[r], NEW k \in DOMAIN s, s[k].do = "insert"
        PROVE  rows[s[k].fixture] # {}
    <3>1. k \in 1..Len(s)
      <4>1. s \in Seq(Instructions)
        BY <2>3, ScriptsAreSequences
      <4>2. QED
        BY <4>1
    <3>2. CASE r \in DevRuns
      <4>1. pc[r] = 52 /\ DevIsWhole(r)
        <5>1. pc[r] = Len(s) + 1
          BY <2>3, <2>5 DEF Done
        <5>2. DevIsWhole(r)
          BY <2>1, <2>5, <3>2 DEF Lone
        <5>3. QED
          BY <2>4, <3>2, <5>1, <5>2
      <4>2. Fits(s[k], k) /\ k \in 1..51
        BY <2>4, <2>5, <3>1, <3>2 DEF ScriptAt
      <4>3. PICK f : f = s[k].fixture
        OBVIOUS
      <4>4. f \in Placed /\ Place[f] = k /\ k # 12
        <5>1. f \in Placed /\ Place[f] = k
          BY <4>2, <4>3 DEF Fits
        <5>2. QED
          BY <5>1, PlacesAreNoControls DEF Controls
      <4>5. CASE k < 12
        <5>1. Place[f] < pc[r] /\ Place[f] < 12 /\ ~(pc[r] <= 12)
          BY <4>1, <4>2, <4>4, <4>5
        <5>2. QED
          BY <4>1, <4>3, <4>4, <5>1 DEF DevIsWhole
      <4>6. CASE k > 12
        <5>1. pc[r] > 12 /\ Place[f] \in 13..(pc[r] - 1)
          BY <4>1, <4>2, <4>4, <4>6
        <5>2. Has(r, f)
          BY <4>1, <4>4, <5>1 DEF DevIsWhole
        <5>3. QED
          BY <4>3, <5>2 DEF Has
      <4>7. QED
        BY <4>2, <4>3, <4>4, <4>5, <4>6
    <3>3. CASE r \notin DevRuns
      <4>1. pc[r] = 8 /\ BaselineIsWhole(r)
        <5>1. pc[r] = Len(s) + 1
          BY <2>3, <2>5 DEF Done
        <5>2. BaselineIsWhole(r)
          BY <2>1, <3>3 DEF Lone
        <5>3. QED
          BY <2>4, <3>3, <5>1, <5>2
      <4>2. s[k].fixture \in {"Superadmin", "Domains"}
        BY <2>4, <2>5, <3>1, <3>3 DEF ScriptAt, Superadmin, Domains, Insert
      <4>3. QED
        BY <4>1, <4>2 DEF BaselineIsWhole
    <3>4. QED
      BY <3>2, <3>3
  <2>6. QED
    BY <2>2, <2>3, <2>5
<1>2. LoneInv => LoneSeedingIsWhole
  BY <1>1 DEF LoneSeedingIsWhole
<1>3. QED
  BY LoneInvHolds, <1>2, PTL

=============================================================================
