------------------------------- MODULE Upload -------------------------------
(***************************************************************************)
(* One call of Service.ManageUpload (stages/interaction/service.go) and    *)
(* the goroutines it starts: ParallelConns workers running postPart, the   *)
(* goroutine that turns acknowledged chunks into progress lines, and the   *)
(* goroutine that core.TestUpload leaves behind.  They share two channels: *)
(* tasks (buffered for every chunk) and successChan (one slot).  The       *)
(* server is external: it plans the upload, stores parts and commits.      *)
(*                                                                         *)
(* The encrypted file is Size bytes; a part is a pair <<chunk, length>>.   *)
(* The file's name has the seven bytes every progress line cuts it to.     *)
(***************************************************************************)
EXTENDS Integers, Sequences

CONSTANTS Size,         \* bytes of the encrypted file
          ChunkSizes,   \* the chunk sizes the server may plan with
          MaxConns      \* the most connections the server may plan

ASSUME UploadAssumption ==
    /\ Size \in Nat \ {0}
    /\ ChunkSizes \subseteq Nat \ {0}
    /\ MaxConns \in Nat \ {0}

VARIABLES
    pc,                 \* where ManageUpload is
    err,                \* its named result: is an error set?
    encFile,            \* is there a file at encPath?
    plan,               \* InitUploadResp
    tasks, fed, closed, \* the tasks channel, the next chunk to feed it, closed?
    wpc, task, buf,     \* per worker: where it is, its chunk, len(data)
    succ, succClosed,   \* the slot of successChan, closed?
    ppc, pend,          \* progress goroutine: where it is, the chunk it received
    highestChunkSent,
    tester,             \* the goroutine TestUpload starts
    parts, committed,   \* server: parts stored, upload recorded as complete
    crashed,            \* a goroutine panicked: the process is gone
    ui                  \* what processUpload told the user

mainVars   == <<pc, err, encFile, plan>>
tasksVars  == <<tasks, fed, closed>>
workerVars == <<wpc, task, buf>>
succVars   == <<succ, succClosed>>
progVars   == <<ppc, pend, highestChunkSent>>
serverVars == <<parts, committed>>
envVars    == <<tester, crashed, ui>>
vars == <<mainVars, tasksVars, workerVars, succVars, progVars, serverVars, envVars>>

Worker  == 1 .. MaxConns
NoChunk == -1

-----------------------------------------------------------------------------
(* The plan. *)

\* A plan that covers the file exactly: the last chunk is the only short one.
HonestPlan ==
    {p \in [chunkSize : ChunkSizes, totalChunks : 1 .. Size, parallelConns : Worker] :
        /\ p.chunkSize * (p.totalChunks - 1) < Size
        /\ Size <= p.chunkSize * p.totalChunks}

\* What an error answer leaves in InitUploadResp: its status is not looked at
\* and none of its JSON fields is one of the plan's.
ZeroPlan == [chunkSize |-> 0, totalChunks |-> 0, parallelConns |-> 0]

Chunk == 0 .. plan.totalChunks - 1

\* What ReadAt delivers into a buffer of room bytes at the chunk's offset.
ReadLen(room, chunk) ==
    LET left == Size - plan.chunkSize * chunk
    IN  IF left >= room THEN room ELSE IF left > 0 THEN left ELSE 0

\* The whole of a chunk.
ChunkLen(chunk) == ReadLen(plan.chunkSize, chunk)

Init ==
    /\ pc = "test" /\ err = FALSE /\ encFile = FALSE /\ plan = ZeroPlan
    /\ tasks = <<>> /\ fed = 0 /\ closed = FALSE
    /\ wpc = [w \in Worker |-> "off"]
    /\ task = [w \in Worker |-> NoChunk]
    /\ buf = [w \in Worker |-> 0]
    /\ succ = NoChunk /\ succClosed = FALSE
    /\ ppc = "off" /\ pend = NoChunk /\ highestChunkSent = NoChunk
    /\ parts = {} /\ committed = FALSE
    /\ tester = "running" /\ crashed = FALSE /\ ui = "none"

-----------------------------------------------------------------------------
(* ManageUpload and the calls it makes. *)

\* A step failed: every early return of ManageUpload goes through the defer.
Fail == pc' = "cleanup" /\ err' = TRUE

TestUpload ==
    /\ pc = "test"
    /\ \/ pc' = "encrypt" /\ UNCHANGED err
       \/ Fail
    /\ UNCHANGED <<encFile, plan, tasksVars, workerVars, succVars, progVars, serverVars, envVars>>

\* An error may come before or after the file was written at encPath.
EncryptFile ==
    /\ pc = "encrypt"
    /\ \/ pc' = "init" /\ encFile' = TRUE /\ UNCHANGED err
       \/ Fail /\ encFile' \in BOOLEAN
    /\ UNCHANGED <<plan, tasksVars, workerVars, succVars, progVars, serverVars, envVars>>

InitUpload ==
    /\ pc = "init"
    /\ \/ plan' \in HonestPlan \cup {ZeroPlan} /\ pc' = "start" /\ UNCHANGED err
       \/ Fail /\ UNCHANGED plan
    /\ UNCHANGED <<encFile, tasksVars, workerVars, succVars, progVars, serverVars, envVars>>

\* The file is opened, the channels made, the workers and the progress
\* goroutine started, and chunk 0 announced before anything was sent.
StartWorkers ==
    /\ pc = "start"
    /\ \/ /\ pc' = "feed"
          /\ wpc' = [w \in Worker |-> IF w <= plan.parallelConns THEN "idle" ELSE "off"]
          /\ buf' = [w \in Worker |-> plan.chunkSize]
          /\ ppc' = "recv" /\ succ' = 0
          /\ UNCHANGED err
       \/ Fail /\ UNCHANGED <<wpc, buf, ppc, succ>>
    /\ UNCHANGED <<encFile, plan, tasksVars, task, succClosed, pend, highestChunkSent,
                   serverVars, envVars>>

\* Mutants of Feed: the chunks are queued last first; one chunk too many.
FeedLastFirst ==
    /\ pc = "feed"
    /\ IF fed < plan.totalChunks
       THEN tasks' = Append(tasks, plan.totalChunks - 1 - fed) /\ fed' = fed + 1
            /\ UNCHANGED <<closed, pc>>
       ELSE closed' = TRUE /\ pc' = "wait" /\ UNCHANGED <<tasks, fed>>
    /\ UNCHANGED <<err, encFile, plan, workerVars, succVars, progVars, serverVars, envVars>>

FeedOneMore ==
    /\ pc = "feed"
    /\ IF fed <= plan.totalChunks
       THEN tasks' = Append(tasks, fed) /\ fed' = fed + 1 /\ UNCHANGED <<closed, pc>>
       ELSE closed' = TRUE /\ pc' = "wait" /\ UNCHANGED <<tasks, fed>>
    /\ UNCHANGED <<err, encFile, plan, workerVars, succVars, progVars, serverVars, envVars>>

\* The tasks channel has room for every chunk, so the sends never block.
Feed ==
    /\ pc = "feed"
    /\ IF fed < plan.totalChunks
       THEN tasks' = Append(tasks, fed) /\ fed' = fed + 1 /\ UNCHANGED <<closed, pc>>
       ELSE closed' = TRUE /\ pc' = "wait" /\ UNCHANGED <<tasks, fed>>
    /\ UNCHANGED <<err, encFile, plan, workerVars, succVars, progVars, serverVars, envVars>>

AllReturned == \A w \in Worker : wpc[w] \in {"off", "done", "failed"}

\* Mutant of AnyFailed: the error group's error is dropped.
NoneFailed == FALSE

AnyFailed == \E w \in Worker : wpc[w] = "failed"

\* errGrp.Wait: every worker has returned, the first error is handed on.  The
\* success channel is closed only on the way to completion.
Wait ==
    /\ pc = "wait"
    /\ AllReturned
    /\ IF AnyFailed
       THEN Fail /\ UNCHANGED succClosed
       ELSE succClosed' = TRUE /\ pc' = "notify" /\ UNCHANGED err
    /\ UNCHANGED <<encFile, plan, tasksVars, workerVars, succ, progVars, serverVars, envVars>>

\* The server knows the upload id of a plan it made, and no other.  Its answer
\* may be lost, or the checksums may fail before anything is sent.
CompleteUpload ==
    /\ pc = "notify"
    /\ pc' = "cleanup"
    /\ \/ plan # ZeroPlan /\ committed' = TRUE /\ err' \in BOOLEAN
       \/ err' = TRUE /\ UNCHANGED committed
    /\ UNCHANGED <<encFile, plan, tasksVars, workerVars, succVars, progVars, parts, envVars>>

\* Mutant of Cleanup: the deferred call forgets the file.
CleanupKeepingFile ==
    /\ pc = "cleanup"
    /\ pc' = "returned"
    /\ UNCHANGED <<err, encFile, plan, tasksVars, workerVars, succVars, progVars, serverVars, envVars>>

\* The deferred function: err is the named result, so a removal that succeeds
\* sets it to nil; a removal that fails panics.
Cleanup ==
    /\ pc = "cleanup"
    /\ IF encFile
       THEN encFile' = FALSE /\ err' = FALSE /\ pc' = "returned" /\ UNCHANGED crashed
       ELSE crashed' = TRUE /\ UNCHANGED <<encFile, err, pc>>
    /\ UNCHANGED <<plan, tasksVars, workerVars, succVars, progVars, serverVars, tester, ui>>

\* processUpload looks at the returned error.
ProcessUpload ==
    /\ pc = "returned"
    /\ pc' = "end"
    /\ ui' = IF err THEN "failed" ELSE "success"
    /\ UNCHANGED <<err, encFile, plan, tasksVars, workerVars, succVars, progVars, serverVars,
                   tester, crashed>>

-----------------------------------------------------------------------------
(* postPart, in worker w. *)

\* Mutant of TakeTask: the chunk stays in the channel.
PeekTask(w) ==
    /\ wpc[w] = "idle"
    /\ tasks # <<>>
    /\ task' = [task EXCEPT ![w] = Head(tasks)]
    /\ wpc' = [wpc EXCEPT ![w] = "read"]
    /\ UNCHANGED <<mainVars, tasksVars, buf, succVars, progVars, serverVars, envVars>>

TakeTask(w) ==
    /\ wpc[w] = "idle"
    /\ tasks # <<>>
    /\ task' = [task EXCEPT ![w] = Head(tasks)]
    /\ tasks' = Tail(tasks)
    /\ wpc' = [wpc EXCEPT ![w] = "read"]
    /\ UNCHANGED <<mainVars, fed, closed, buf, succVars, progVars, serverVars, envVars>>

\* The range over the closed, drained channel ends.
Return(w) ==
    /\ wpc[w] = "idle"
    /\ tasks = <<>> /\ closed
    /\ wpc' = [wpc EXCEPT ![w] = "done"]
    /\ UNCHANGED <<mainVars, tasksVars, task, buf, succVars, progVars, serverVars, envVars>>

\* data = data[:n]: the buffer keeps the length of the last read.
ReadPart(w) ==
    /\ wpc[w] = "read"
    /\ \/ /\ buf' = [buf EXCEPT ![w] = ReadLen(buf[w], task[w])]
          /\ wpc' = [wpc EXCEPT ![w] = "post"]
       \/ wpc' = [wpc EXCEPT ![w] = "failed"] /\ UNCHANGED buf
    /\ UNCHANGED <<mainVars, tasksVars, task, succVars, progVars, serverVars, envVars>>

\* Mutant of PostPart: the answer's status is not looked at.
PostPartUnchecked(w) ==
    /\ wpc[w] = "post"
    /\ parts' \in {parts, parts \cup {<<task[w], buf[w]>>}}
    /\ wpc' = [wpc EXCEPT ![w] = "send"]
    /\ UNCHANGED <<mainVars, tasksVars, task, buf, succVars, progVars, committed, envVars>>

\* core.Hit: the part is stored and accepted; or stored and the answer lost or
\* not a 202; or never stored.
PostPart(w) ==
    /\ wpc[w] = "post"
    /\ \/ /\ parts' = parts \cup {<<task[w], buf[w]>>}
          /\ wpc' = [wpc EXCEPT ![w] = "send"]
       \/ /\ parts' \in {parts, parts \cup {<<task[w], buf[w]>>}}
          /\ wpc' = [wpc EXCEPT ![w] = "failed"]
    /\ UNCHANGED <<mainVars, tasksVars, task, buf, succVars, progVars, committed, envVars>>

\* success <- task, once the slot is free.
SendSuccess(w) ==
    /\ wpc[w] = "send"
    /\ succ = NoChunk
    /\ succ' = task[w]
    /\ wpc' = [wpc EXCEPT ![w] = "idle"]
    /\ UNCHANGED <<mainVars, tasksVars, task, buf, succClosed, progVars, serverVars, envVars>>

-----------------------------------------------------------------------------
(* The progress goroutine and the one TestUpload left behind. *)

RecvSuccess ==
    /\ ppc = "recv"
    /\ succ # NoChunk
    /\ succ' = NoChunk
    /\ IF succ > highestChunkSent
       THEN pend' = succ /\ ppc' = "show"
       ELSE UNCHANGED <<pend, ppc>>
    /\ UNCHANGED <<mainVars, tasksVars, workerVars, succClosed, highestChunkSent, serverVars,
                   envVars>>

\* Mutant of ShowProgress: the goroutine returns after its first line.
ShowProgressOnce ==
    /\ ppc = "show"
    /\ ppc' = "exited"
    /\ UNCHANGED <<mainVars, tasksVars, workerVars, succVars, pend, highestChunkSent, serverVars,
                   envVars>>

\* (chunk*100)/plan.TotalChunks panics when there are no chunks.
ShowProgress ==
    /\ ppc = "show"
    /\ IF plan.totalChunks = 0
       THEN crashed' = TRUE /\ UNCHANGED <<ppc, highestChunkSent>>
       ELSE ppc' = "recv" /\ highestChunkSent' = pend /\ UNCHANGED crashed
    /\ UNCHANGED <<mainVars, tasksVars, workerVars, succVars, pend, serverVars, tester, ui>>

\* Mutant of EndProgress: a receive that does not ask whether the channel is
\* closed returns for ever.
EndProgressUnseen ==
    /\ ppc = "recv"
    /\ succ = NoChunk /\ succClosed
    /\ UNCHANGED vars

EndProgress ==
    /\ ppc = "recv"
    /\ succ = NoChunk /\ succClosed
    /\ ppc' = "exited"
    /\ UNCHANGED <<mainVars, tasksVars, workerVars, succVars, pend, highestChunkSent, serverVars,
                   envVars>>

\* client.Do of the test request returns, now or much later; an error panics.
EndTest ==
    /\ tester = "running"
    /\ tester' = "done" /\ crashed' \in BOOLEAN
    /\ UNCHANGED <<mainVars, tasksVars, workerVars, succVars, progVars, serverVars, ui>>

-----------------------------------------------------------------------------
ManageUpload ==
    \/ TestUpload \/ EncryptFile \/ InitUpload \/ StartWorkers \/ Feed \/ Wait
    \/ CompleteUpload \/ Cleanup \/ ProcessUpload

WorkerStep(w) ==
    TakeTask(w) \/ Return(w) \/ ReadPart(w) \/ PostPart(w) \/ SendSuccess(w)

ProgressStep == RecvSuccess \/ ShowProgress \/ EndProgress

\* Nothing is left to do, or the process is gone.
Stopped == (pc = "end" \/ crashed) /\ UNCHANGED vars

Next ==
    \/ ~crashed /\ (ManageUpload \/ (\E w \in Worker : WorkerStep(w)) \/ ProgressStep \/ EndTest)
    \/ Stopped

Spec == Init /\ [][Next]_vars

\* The Go scheduler runs every goroutine that can run, and the server answers
\* every request in the end (the HTTP client sets no timeout of its own).
FairSpec ==
    /\ Spec
    /\ WF_vars(~crashed /\ ManageUpload)
    /\ \A w \in Worker : WF_vars(~crashed /\ WorkerStep(w))
    /\ WF_vars(~crashed /\ ProgressStep)

-----------------------------------------------------------------------------
(* Properties. *)

PlanOK == plan = ZeroPlan \/ plan \in HonestPlan

\* The state is well formed: the channel holds planned chunks only, no more of
\* them than were fed, and every worker is at one of postPart's steps.
TypeOK ==
    /\ pc \in {"test", "encrypt", "init", "start", "feed", "wait", "notify", "cleanup",
               "returned", "end"}
    /\ err \in BOOLEAN /\ encFile \in BOOLEAN
    /\ PlanOK
    /\ tasks \in Seq(Chunk)
    /\ fed \in 0 .. plan.totalChunks
    /\ closed \in BOOLEAN
    /\ wpc \in [Worker -> {"off", "idle", "read", "post", "send", "done", "failed"}]
    /\ task \in [Worker -> Chunk \cup {NoChunk}]
    /\ buf \in [Worker -> Nat]
    /\ succ \in Chunk \cup {NoChunk, 0} /\ succClosed \in BOOLEAN
    /\ ppc \in {"off", "recv", "show", "exited"}
    /\ pend \in Chunk \cup {NoChunk, 0}
    /\ highestChunkSent \in Chunk \cup {NoChunk, 0}
    /\ tester \in {"running", "done"}
    /\ parts \subseteq Chunk \X Nat
    /\ committed \in BOOLEAN /\ crashed \in BOOLEAN
    /\ ui \in {"none", "failed", "success"}

\* Every part the server stored is the whole of its chunk, although postPart
\* reuses one buffer that a short read shrinks (data = data[:n]): the short
\* chunk is the last one any worker takes.
PartsAreWhole == \A p \in parts : p[2] = ChunkLen(p[1])

\* An upload the server recorded as complete is complete on the server: no
\* chunk was dropped by a failing worker, left in the channel or cut short.
CommitsWholeFile == committed => \A i \in Chunk : <<i, ChunkLen(i)>> \in parts

\* A chunk is in the hands of one worker at a time, and while it still has to
\* be posted the server has no part for it: nothing is uploaded twice.
OneWorkerPerChunk ==
    \A v \in Worker : wpc[v] \in {"read", "post"} =>
        /\ \A w \in Worker \ {v} : wpc[w] \in {"read", "post", "send"} => task[v] # task[w]
        /\ \A p \in parts : p[1] # task[v]

\* A progress line above 0% names a chunk the server has accepted.
ProgressIsAcknowledged ==
    highestChunkSent > 0 => <<highestChunkSent, ChunkLen(highestChunkSent)>> \in parts

\* However ManageUpload returns, the encrypted copy is gone from the disk.
NoEncryptedCopyLeft == pc \in {"returned", "end"} => ~encFile

\* Every call ends: with a report to the user, or with the process.
UploadEnds == <>(pc = "end" \/ crashed)

\* Once the upload went through, the progress goroutine drains successChan and
\* ends as well.
ProgressEnds == succClosed ~> (ppc = "exited" \/ crashed)

-----------------------------------------------------------------------------
(* Why the properties hold: an invariant every step preserves. *)

\* Nothing has begun before the workers are started.
Untouched ==
    /\ tasks = <<>> /\ fed = 0 /\ ~closed
    /\ \A w \in Worker : wpc[w] = "off" /\ task[w] = NoChunk
    /\ succ = NoChunk /\ pend = NoChunk /\ highestChunkSent = NoChunk
    /\ ppc = "off" /\ parts = {} /\ ~committed

\* The first chunk that no worker has taken yet.
Taken == fed - Len(tasks)

\* The channel holds the chunks Taken .. fed - 1 in this order; all were fed
\* once it is closed, and a worker starts with the plan and returns at the end.
ChannelInv ==
    /\ Len(tasks) <= fed
    /\ \A k \in 1 .. Len(tasks) : tasks[k] = Taken + k - 1
    /\ closed => fed = plan.totalChunks
    /\ \A w \in Worker : wpc[w] = "done" => closed /\ tasks = <<>>
    /\ pc \in {"feed", "wait", "notify"} =>
            \A w \in Worker : w <= plan.parallelConns => wpc[w] # "off"

Stored(i) == <<i, ChunkLen(i)>> \in parts

\* What a worker has taken is its own; its buffer has room for the whole of its
\* chunk, and shrinks only with the last chunk there is.
Active(w) == wpc[w] \in {"read", "post", "send"}

WorkerInv(w) ==
    /\ Active(w) =>
        /\ task[w] \in 0 .. Taken - 1
        /\ \A v \in Worker \ {w} : Active(v) => task[v] # task[w]
    /\ wpc[w] \in {"read", "post"} => \A p \in parts : p[1] # task[w]
    /\ wpc[w] = "read" => buf[w] = plan.chunkSize
    /\ wpc[w] \in {"post", "send"} => buf[w] = ChunkLen(task[w])
    /\ wpc[w] = "send" => Stored(task[w])
    /\ wpc[w] = "idle" => buf[w] = plan.chunkSize \/ Taken = plan.totalChunks

\* Every chunk taken from the channel is stored, or a worker still has it, or
\* a worker failed.  Only chunks that were taken are stored.
TakenInv ==
    /\ \A i \in 0 .. Taken - 1 :
        \/ Stored(i)
        \/ \E w \in Worker : wpc[w] \in {"read", "post"} /\ task[w] = i
        \/ AnyFailed
    /\ \A p \in parts : p[1] \in 0 .. Taken - 1

\* A chunk on its way to the progress line was accepted; chunk 0 is announced
\* before it is.
ShownInv == \A i \in {succ, pend, highestChunkSent} : i > 0 => Stored(i)

IInv ==
    /\ TypeOK
    /\ pc \in {"test", "encrypt", "init", "start"} => Untouched
    /\ pc \in {"test", "encrypt", "init"} => plan = ZeroPlan
    /\ ChannelInv /\ (\A w \in Worker : WorkerInv(w)) /\ TakenInv /\ ShownInv
    /\ pc = "notify" => AllReturned /\ ~AnyFailed
    /\ PartsAreWhole /\ CommitsWholeFile /\ NoEncryptedCopyLeft

-----------------------------------------------------------------------------
(* The upload implements ChunkTransfer. *)

PartBytes(p) == plan.chunkSize * p[1] .. plan.chunkSize * p[1] + p[2] - 1

Outcome ==
    IF committed THEN "committed"
    ELSE IF crashed \/ pc \in {"cleanup", "returned", "end"} THEN "abandoned"
    ELSE "open"

Transfer == INSTANCE ChunkTransfer
    WITH delivered <- UNION {PartBytes(p) : p \in parts}, outcome <- Outcome

\* Whatever the plan and the interleaving of the workers, the upload delivers
\* every byte at most once and commits only a whole file.
ImplementsChunkTransfer == Transfer!Spec

-----------------------------------------------------------------------------
(* What the program says of itself and does not do. *)

\* "Uploaded %s... successfully" is only said of a file the server has.
SuccessIsStored == ui = "success" => committed

=============================================================================
