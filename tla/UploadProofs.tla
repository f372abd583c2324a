---------------------------- MODULE UploadProofs ----------------------------
(***************************************************************************)
(* Proofs about Upload, for every size, plan and number of connections:    *)
(* IInv is an inductive invariant, and with it the state is well formed,   *)
(* every stored part is whole, no chunk is in two hands, and an upload     *)
(* recorded as complete is complete.                                       *)
(*                                                                         *)
(* The last part shows that Upload implements ChunkTransfer: no byte       *)
(* reaches the server twice, and what is recorded as complete has every    *)
(* byte.  A part that is posted is a piece: the chunk of a worker that is  *)
(* about to post is not stored (WorkerInv), and different chunks are       *)
(* different bytes (ChunksDisjoint).  The chunks are all the bytes         *)
(* (ChunksCover).  That nothing is posted once the upload is over, is      *)
(* EndedInv.                                                               *)
(***************************************************************************)
EXTENDS Upload, TLAPS

-----------------------------------------------------------------------------
(* Arithmetic of the plan. *)

\* A smaller factor makes a smaller product.
LEMMA TimesMonotone ==
    ASSUME NEW c \in Nat, NEW a \in Nat, NEW b \in Nat, a <= b
    PROVE  c * a <= c * b
<1>1. PICK d \in Nat : b = a + d
    BY SMT
<1>2. c * b = c * a + c * d /\ c * d \in Nat /\ c * a \in Nat
    BY <1>1, SMT
<1> QED
    BY <1>2, SMT

\* The numbers of a plan are naturals; a plan with a chunk is an honest one.
LEMMA PlanFacts ==
    ASSUME NEW p \in HonestPlan \cup {ZeroPlan}
    PROVE  /\ p.chunkSize \in Nat /\ p.totalChunks \in Nat /\ p.parallelConns \in Nat
           /\ p # ZeroPlan => p \in HonestPlan /\ p.parallelConns \in Worker
           /\ p.totalChunks > 0 => p # ZeroPlan
<1>1. CASE p = ZeroPlan
    BY <1>1 DEF ZeroPlan
<1>2. CASE p \in HonestPlan
    <2>1. p \in [chunkSize : ChunkSizes, totalChunks : 1 .. Size, parallelConns : Worker]
        BY <1>2 DEF HonestPlan
    <2>2. p.chunkSize \in ChunkSizes /\ p.totalChunks \in 1 .. Size /\ p.parallelConns \in Worker
        BY <2>1
    <2>3. p.totalChunks > 0 /\ ZeroPlan.totalChunks = 0
        BY <2>2, UploadAssumption DEF ZeroPlan
    <2>4. p.chunkSize \in Nat
        BY <2>2, UploadAssumption
    <2>5. p.totalChunks \in Nat
        BY <2>2, UploadAssumption
    <2>6. p.parallelConns \in Nat
        BY <2>2, UploadAssumption DEF Worker
    <2> QED
        BY <1>2, <2>2, <2>3, <2>4, <2>5, <2>6
<1> QED
    BY <1>1, <1>2

\* What is read of a chunk is a number of bytes.
LEMMA ReadLenType ==
    ASSUME PlanOK, NEW room \in Nat, NEW i \in Nat
    PROVE  ReadLen(room, i) \in Nat
<1>1. plan.chunkSize * i \in Nat
    BY PlanFacts, SMT DEF PlanOK
<1>2. Size \in Nat
    BY UploadAssumption
<1> QED
    BY <1>1, <1>2, SMT DEF ReadLen

\* Only the last chunk is shorter than the chunk size.
LEMMA FullChunk ==
    ASSUME PlanOK, NEW i \in Nat, i < plan.totalChunks - 1
    PROVE  ChunkLen(i) = plan.chunkSize
<1> DEFINE c == plan.chunkSize
           t == plan.totalChunks
<1>1. c \in Nat /\ t \in Nat /\ plan \in HonestPlan
    BY PlanFacts, SMT DEF PlanOK
<1>2. c * (t - 1) < Size
    BY <1>1 DEF HonestPlan
<1>3. c * (i + 1) <= c * (t - 1)
    <2>1. i + 1 \in Nat /\ t - 1 \in Nat /\ i + 1 <= t - 1
        BY <1>1, SMT
    <2> QED
        BY <1>1, <2>1, TimesMonotone
<1>4. c * (i + 1) = c * i + c /\ c * i \in Nat /\ c * (t - 1) \in Int
    BY <1>1, SMT
<1>5. Size - c * i >= c
    <2> DEFINE ci == c * i
               ct == c * (t - 1)
    <2>1. ci + c <= ct /\ ct < Size /\ ci \in Nat /\ ct \in Int
        BY <1>2, <1>3, <1>4
    <2> HIDE DEF ci, ct
    <2> QED
        BY <2>1, <1>1, UploadAssumption, SMT DEF ci
<1> QED
    BY <1>5 DEF ChunkLen, ReadLen

-----------------------------------------------------------------------------
(* The inductive invariant. *)

\* While the plan stays, so do the chunks and their lengths.
LEMMA SamePlan ==
    ASSUME UNCHANGED plan
    PROVE  /\ \A i : ChunkLen(i)' = ChunkLen(i)
           /\ Chunk' = Chunk /\ PlanOK' = PlanOK
BY DEF ChunkLen, ReadLen, Chunk, PlanOK

\* A step that leaves the plan, the channel, the workers and the server's parts
\* alone leaves what is said of them alone.
LEMMA Frame ==
    ASSUME IInv, UNCHANGED <<plan, tasksVars, workerVars, parts>>
    PROVE  /\ (\A w \in Worker : WorkerInv(w)') /\ TakenInv' /\ PartsAreWhole'
           /\ \A i : Stored(i)' = Stored(i)
           /\ AllReturned' = AllReturned /\ AnyFailed' = AnyFailed
<1>1. \A i : ChunkLen(i)' = ChunkLen(i)
    BY SamePlan
<1>2. \A i : Stored(i)' = Stored(i)
    BY <1>1 DEF Stored
<1>3. Taken' = Taken
    BY DEF Taken, tasksVars
<1>4. AllReturned' = AllReturned /\ AnyFailed' = AnyFailed
    BY DEF AllReturned, AnyFailed, workerVars
<1>5. \A w \in Worker : WorkerInv(w)'
    <2>1. \A w \in Worker : WorkerInv(w)
        BY DEF IInv
    <2> QED
        BY <1>1, <1>2, <1>3, <2>1 DEF WorkerInv, Active, workerVars
<1>6. TakenInv'
    <2>1. TakenInv
        BY DEF IInv
    <2> QED
        BY <1>2, <1>3, <1>4, <2>1 DEF TakenInv, workerVars
<1>7. PartsAreWhole'
    <2>1. PartsAreWhole
        BY DEF IInv
    <2> QED
        BY <1>1, <2>1 DEF PartsAreWhole
<1> QED
    BY <1>2, <1>4, <1>5, <1>6, <1>7

LEMMA InitIInv == Init => IInv
<1> SUFFICES ASSUME Init PROVE IInv
    OBVIOUS
<1>1. Chunk = {} /\ NoChunk \in Int /\ \A w \in Worker : wpc[w] = "off"
    BY DEF Chunk, Init, ZeroPlan, NoChunk
<1>2. TypeOK
    <2>1. PlanOK /\ plan.totalChunks = 0
        BY DEF Init, PlanOK, ZeroPlan
    <2>2. tasks \in Seq(Chunk) /\ fed \in 0 .. plan.totalChunks /\ parts \subseteq Chunk \X Nat
        BY <2>1, SMT DEF Init
    <2>3. buf \in [Worker -> Nat] /\ task \in [Worker -> Chunk \cup {NoChunk}]
        BY SMT DEF Init
    <2> QED
        BY <2>1, <2>2, <2>3 DEF Init, TypeOK
<1>3. Untouched
    BY <1>1 DEF Init, Untouched
<1>4. ChannelInv /\ \A w \in Worker : WorkerInv(w)
    BY <1>1, SMT DEF Init, ChannelInv, WorkerInv, Active, Taken
<1>5. TakenInv /\ ShownInv /\ PartsAreWhole
    BY <1>1, SMT DEF Init, TakenInv, Taken, ShownInv, PartsAreWhole, NoChunk
<1>6. CommitsWholeFile /\ NoEncryptedCopyLeft
    BY DEF Init, CommitsWholeFile, NoEncryptedCopyLeft
<1> QED
    BY <1>2, <1>3, <1>4, <1>5, <1>6 DEF Init, IInv

\* ManageUpload before the workers are started.
LEMMA BeginIInv == IInv /\ (TestUpload \/ EncryptFile) => IInv'
<1> SUFFICES ASSUME IInv, TestUpload \/ EncryptFile PROVE IInv'
    OBVIOUS
<1>1. /\ UNCHANGED <<plan, tasksVars, workerVars, succVars, progVars, serverVars, envVars>>
      /\ pc \in {"test", "encrypt"} /\ pc' \in {"encrypt", "init", "cleanup"}
      /\ err' \in BOOLEAN /\ encFile' \in BOOLEAN
    BY DEF TestUpload, EncryptFile, Fail, IInv, TypeOK
<1>2. /\ (\A w \in Worker : WorkerInv(w)') /\ TakenInv' /\ PartsAreWhole'
      /\ \A i : Stored(i)' = Stored(i)
    BY <1>1, Frame DEF serverVars
<1>3. TypeOK'
    BY <1>1, SamePlan DEF IInv, TypeOK, tasksVars, workerVars, succVars, progVars, serverVars,
        envVars
<1>4. Untouched' /\ plan' = ZeroPlan
    BY <1>1 DEF IInv, Untouched, tasksVars, workerVars, succVars, progVars, serverVars
<1>5. ChannelInv'
    BY <1>1 DEF IInv, ChannelInv, Taken, tasksVars, workerVars
<1>6. ShownInv'
    BY <1>1, <1>2 DEF IInv, ShownInv, succVars, progVars
<1>7. CommitsWholeFile' /\ NoEncryptedCopyLeft'
    BY <1>1, <1>4 DEF CommitsWholeFile, NoEncryptedCopyLeft, Untouched
<1> QED
    BY <1>1, <1>2, <1>3, <1>4, <1>5, <1>6, <1>7 DEF IInv

LEMMA InitUploadIInv == IInv /\ InitUpload => IInv'
<1> SUFFICES ASSUME IInv, InitUpload PROVE IInv'
    OBVIOUS
<1>1. /\ UNCHANGED <<encFile, tasksVars, workerVars, succVars, progVars, serverVars, envVars>>
      /\ pc = "init" /\ pc' \in {"start", "cleanup"}
      /\ err' \in BOOLEAN /\ PlanOK'
    BY DEF InitUpload, Fail, IInv, TypeOK, PlanOK
<1>2. Untouched /\ Untouched'
    BY <1>1 DEF IInv, Untouched, tasksVars, workerVars, succVars, progVars, serverVars
<1>3. plan'.totalChunks \in Nat /\ plan'.chunkSize \in Nat
    BY <1>1, PlanFacts DEF PlanOK
<1>4. TypeOK'
    BY <1>1, <1>2, <1>3, SMT DEF IInv, TypeOK, Untouched, Chunk, tasksVars, workerVars, succVars,
        progVars, serverVars, envVars
<1>5. ChannelInv' /\ \A w \in Worker : WorkerInv(w)'
    BY <1>1, <1>2, SMT DEF ChannelInv, WorkerInv, Active, Untouched, Taken
<1>6. TakenInv' /\ ShownInv' /\ PartsAreWhole'
    BY <1>2, SMT DEF TakenInv, Taken, ShownInv, PartsAreWhole, Untouched, NoChunk
<1>7. CommitsWholeFile' /\ NoEncryptedCopyLeft'
    BY <1>1, <1>2 DEF CommitsWholeFile, NoEncryptedCopyLeft, Untouched
<1> QED
    BY <1>1, <1>2, <1>4, <1>5, <1>6, <1>7 DEF IInv

LEMMA StartWorkersIInv == IInv /\ StartWorkers => IInv'
<1> SUFFICES ASSUME IInv, StartWorkers PROVE IInv'
    OBVIOUS
<1>1. /\ UNCHANGED <<encFile, plan, tasksVars, task, succClosed, pend, highestChunkSent,
                     serverVars, envVars>>
      /\ pc = "start" /\ pc' \in {"feed", "cleanup"}
      /\ err' \in BOOLEAN
    BY DEF StartWorkers, Fail, IInv, TypeOK
<1>2. CASE pc' = "cleanup"
    <2>1. UNCHANGED <<wpc, buf, ppc, succ>>
        BY <1>2 DEF StartWorkers
    <2>2. /\ (\A w \in Worker : WorkerInv(w)') /\ TakenInv' /\ PartsAreWhole'
          /\ \A i : Stored(i)' = Stored(i)
        BY <1>1, <2>1, Frame DEF workerVars, serverVars
    <2>3. TypeOK'
        BY <1>1, <1>2, <2>1, SamePlan DEF IInv, TypeOK, tasksVars, serverVars, envVars
    <2>4. ChannelInv' /\ ShownInv'
        BY <1>1, <1>2, <2>1, <2>2 DEF IInv, ChannelInv, ShownInv, Taken, tasksVars
    <2>5. CommitsWholeFile' /\ NoEncryptedCopyLeft'
        BY <1>1, <1>2 DEF IInv, Untouched, CommitsWholeFile, NoEncryptedCopyLeft, serverVars
    <2> QED
        BY <1>2, <2>2, <2>3, <2>4, <2>5 DEF IInv
<1>3. CASE pc' = "feed"
    <2>1. /\ wpc' = [w \in Worker |-> IF w <= plan.parallelConns THEN "idle" ELSE "off"]
          /\ buf' = [w \in Worker |-> plan.chunkSize]
          /\ ppc' = "recv" /\ succ' = 0 /\ err' = err
        BY <1>3 DEF StartWorkers, Fail
    <2>2. Untouched
        BY <1>1 DEF IInv
    <2>3. \A w \in Worker : wpc'[w] \in {"off", "idle"}
        BY <2>1
    <2>4. plan.chunkSize \in Nat /\ plan.totalChunks \in Nat
        BY PlanFacts DEF IInv, TypeOK, PlanOK
    <2>5. TypeOK'
        <3>1. /\ wpc' \in [Worker -> {"off", "idle", "read", "post", "send", "done", "failed"}]
              /\ buf' \in [Worker -> Nat]
            BY <2>1, <2>4
        <3> QED
            BY <1>1, <1>3, <2>1, <3>1, SamePlan DEF IInv, TypeOK, tasksVars, serverVars, envVars
    <2>6. Taken' = 0 /\ tasks' = <<>> /\ fed' = 0 /\ ~closed'
        <3>1. tasks' = <<>> /\ fed' = 0 /\ ~closed'
            BY <1>1, <2>2 DEF Untouched, tasksVars
        <3>2. fed' = 0 /\ Len(tasks') = 0
            BY <3>1
        <3>3. Taken' = 0
            BY <3>2 DEF Taken
        <3> QED
            BY <3>1, <3>3
    <2>7. ChannelInv'
        BY <1>1, <2>1, <2>3, <2>6, SMT DEF ChannelInv
    <2>8. \A w \in Worker : WorkerInv(w)'
        BY <1>1, <2>1, <2>3 DEF WorkerInv, Active
    <2>9. TakenInv' /\ PartsAreWhole' /\ CommitsWholeFile'
        BY <1>1, <2>2, <2>6, SMT DEF TakenInv, PartsAreWhole, CommitsWholeFile, Untouched, serverVars
    <2>10. ShownInv' /\ NoEncryptedCopyLeft'
        BY <1>1, <1>3, <2>1, <2>2, SMT DEF ShownInv, Untouched, NoChunk, NoEncryptedCopyLeft
    <2> QED
        BY <1>3, <2>5, <2>7, <2>8, <2>9, <2>10 DEF IInv
<1> QED
    BY <1>1, <1>2, <1>3

LEMMA FeedIInv == IInv /\ Feed => IInv'
<1> SUFFICES ASSUME IInv, Feed PROVE IInv'
    OBVIOUS
<1>1. /\ UNCHANGED <<err, encFile, plan, workerVars, succVars, progVars, serverVars, envVars>>
      /\ pc = "feed" /\ pc' \in {"feed", "wait"}
    BY DEF Feed
<1>2. plan.totalChunks \in Nat
    BY PlanFacts DEF IInv, TypeOK, PlanOK
<1>3. tasks \in Seq(Chunk) /\ fed \in 0 .. plan.totalChunks /\ fed \in Nat
    BY <1>2, SMT DEF IInv, TypeOK
<1>4. \/ /\ fed < plan.totalChunks /\ tasks' = Append(tasks, fed) /\ fed' = fed + 1
         /\ ~closed /\ ~closed'
      \/ /\ fed = plan.totalChunks /\ tasks' = tasks /\ fed' = fed /\ closed'
    <2>1. fed < plan.totalChunks => ~closed
        BY <1>2, <1>3, SMT DEF IInv, ChannelInv
    <2>2. CASE fed < plan.totalChunks
        BY <2>1, <2>2 DEF Feed
    <2>3. CASE ~(fed < plan.totalChunks)
        <3>1. fed = plan.totalChunks
            BY <1>2, <1>3, <2>3, SMT
        <3> QED
            BY <2>3, <3>1 DEF Feed
    <2> QED
        BY <2>2, <2>3
<1>5. /\ tasks' \in Seq(Chunk) /\ fed' \in 0 .. plan.totalChunks
      /\ closed' \in BOOLEAN
    <2>1. fed < plan.totalChunks => fed \in Chunk
        BY <1>2, <1>3, SMT DEF Chunk
    <2>2. tasks' \in Seq(Chunk) /\ fed' \in 0 .. plan.totalChunks
        BY <1>2, <1>3, <1>4, <2>1, SMT
    <2>3. closed' \in BOOLEAN
        BY DEF Feed, IInv, TypeOK
    <2> QED
        BY <2>2, <2>3
<1>6. Taken' = Taken
    BY <1>3, <1>4, SMT DEF Taken
<1>7. TypeOK'
    BY <1>1, <1>5, SamePlan DEF IInv, TypeOK, workerVars, succVars, progVars, serverVars, envVars
<1>8. ChannelInv'
    <2>1. ChannelInv
        BY DEF IInv
    <2>2. Len(tasks') <= fed'
        BY <1>3, <1>4, <2>1, SMT DEF ChannelInv
    <2>3. \A k \in 1 .. Len(tasks') : tasks'[k] = Taken + k - 1
        <3>1. CASE tasks' = tasks
            BY <2>1, <3>1 DEF ChannelInv
        <3>2. CASE tasks' = Append(tasks, fed)
            <4>1. \A k \in 1 .. Len(tasks) : tasks[k] = Taken + k - 1
                BY <2>1 DEF ChannelInv
            <4>2. /\ Len(tasks') = Len(tasks) + 1 /\ tasks'[Len(tasks) + 1] = fed
                  /\ \A k \in 1 .. Len(tasks) : tasks'[k] = tasks[k]
                BY <1>3, <3>2, SMT
            <4>3. Len(tasks) \in Nat /\ Taken + (Len(tasks) + 1) - 1 = fed
                BY <1>3, SMT DEF Taken
            <4> QED
                BY <4>1, <4>2, <4>3, SMT
        <3> QED
            BY <1>4, <3>1, <3>2
    <2>4. closed' => fed' = plan.totalChunks
        BY <1>4
    <2>5. \A w \in Worker : wpc[w] = "done" => closed' /\ tasks' = <<>>
        BY <1>2, <1>3, <1>4, <2>1, SMT DEF ChannelInv
    <2> QED
        BY <1>1, <1>6, <2>1, <2>2, <2>3, <2>4, <2>5 DEF ChannelInv, workerVars
<1>9. \A i : ChunkLen(i)' = ChunkLen(i) /\ Stored(i)' = Stored(i)
    BY <1>1, SamePlan DEF Stored, serverVars
<1>10. \A w \in Worker : WorkerInv(w)'
    <2>1. \A w \in Worker : WorkerInv(w)
        BY DEF IInv
    <2> QED
        BY <1>1, <1>6, <1>9, <2>1 DEF WorkerInv, Active, workerVars, serverVars
<1>11. TakenInv'
    <2>1. TakenInv
        BY DEF IInv
    <2> QED
        BY <1>1, <1>6, <1>9, <2>1 DEF TakenInv, AnyFailed, workerVars, serverVars
<1>12. ShownInv' /\ PartsAreWhole' /\ CommitsWholeFile' /\ NoEncryptedCopyLeft'
    BY <1>1, <1>9, SamePlan DEF IInv, ShownInv, PartsAreWhole, CommitsWholeFile, Stored,
        NoEncryptedCopyLeft, succVars, progVars, serverVars
<1> QED
    BY <1>1, <1>7, <1>8, <1>10, <1>11, <1>12 DEF IInv

\* When every worker of an honest plan has returned and none failed, the
\* channel was drained to the last chunk and every chunk is stored.
LEMMA AllStored ==
    ASSUME IInv, plan # ZeroPlan, pc = "notify"
    PROVE  \A i \in Chunk : Stored(i)
<1>1. AllReturned /\ ~AnyFailed /\ ChannelInv /\ TakenInv
    BY DEF IInv
<1>2. plan.totalChunks \in Nat /\ plan.parallelConns \in 1 .. MaxConns
    BY PlanFacts DEF IInv, TypeOK, PlanOK, Worker
<1>3. 1 \in Worker /\ 1 <= plan.parallelConns
    BY <1>2, UploadAssumption, SMT DEF Worker
<1>4. wpc[1] = "done"
    BY <1>1, <1>3 DEF ChannelInv, AllReturned, AnyFailed
<1>5. Taken = plan.totalChunks
    BY <1>1, <1>2, <1>3, <1>4, SMT DEF ChannelInv, Taken
<1>6. \A i \in 0 .. Taken - 1 : Stored(i)
    BY <1>1 DEF TakenInv, AllReturned
<1> QED
    BY <1>5, <1>6 DEF Chunk

LEMMA FinishIInv == IInv /\ (Wait \/ CompleteUpload \/ Cleanup \/ ProcessUpload) => IInv'
<1> SUFFICES ASSUME IInv, Wait \/ CompleteUpload \/ Cleanup \/ ProcessUpload PROVE IInv'
    OBVIOUS
<1>1. /\ UNCHANGED <<plan, tasksVars, workerVars, succ, progVars, parts, tester>>
      /\ pc \in {"wait", "notify", "cleanup", "returned"}
      /\ pc' \in {"notify", "cleanup", "returned", "end"}
      /\ err' \in BOOLEAN /\ encFile' \in BOOLEAN /\ succClosed' \in BOOLEAN
      /\ committed' \in BOOLEAN /\ crashed' \in BOOLEAN
      /\ ui' \in {"none", "failed", "success"}
    <2> USE DEF IInv, TypeOK, succVars, serverVars, envVars
    <2>1. CASE Wait
        BY <2>1 DEF Wait, Fail
    <2>2. CASE CompleteUpload
        BY <2>2 DEF CompleteUpload
    <2>3. CASE Cleanup
        BY <2>3 DEF Cleanup
    <2>4. CASE ProcessUpload
        BY <2>4 DEF ProcessUpload
    <2> QED
        BY <2>1, <2>2, <2>3, <2>4
<1>2. /\ (\A w \in Worker : WorkerInv(w)') /\ TakenInv' /\ PartsAreWhole'
      /\ \A i : Stored(i)' = Stored(i)
      /\ AllReturned' = AllReturned /\ AnyFailed' = AnyFailed
    BY <1>1, Frame
<1>3. TypeOK'
    BY <1>1, SamePlan DEF IInv, TypeOK, tasksVars, workerVars, progVars
<1>4. ChannelInv' /\ ShownInv'
    <2>1. ChannelInv /\ (pc' = "notify" => pc = "wait")
        BY DEF IInv, Wait, CompleteUpload, Cleanup, ProcessUpload, Fail
    <2> QED
        BY <1>1, <1>2, <2>1 DEF IInv, ChannelInv, ShownInv, Taken, tasksVars, workerVars, progVars
<1>5. pc' = "notify" => AllReturned /\ ~AnyFailed
    BY DEF IInv, Wait, CompleteUpload, Cleanup, ProcessUpload, Fail
<1>6. CommitsWholeFile'
    <2>1. committed' => committed \/ (pc = "notify" /\ plan # ZeroPlan)
        BY DEF Wait, CompleteUpload, Cleanup, ProcessUpload, serverVars
    <2>2. committed' => \A i \in Chunk : Stored(i)
        BY <2>1, AllStored DEF IInv, CommitsWholeFile, Stored
    <2> QED
        BY <1>1, <1>2, <2>2, SamePlan DEF CommitsWholeFile, Stored
<1>7. NoEncryptedCopyLeft'
    BY DEF IInv, NoEncryptedCopyLeft, Wait, CompleteUpload, Cleanup, ProcessUpload, Fail
<1> QED
    BY <1>1, <1>2, <1>3, <1>4, <1>5, <1>6, <1>7 DEF IInv

-----------------------------------------------------------------------------
(* The workers. *)

LEMMA TakeTaskIInv == \A w \in Worker : IInv /\ TakeTask(w) => IInv'
<1> SUFFICES ASSUME NEW w \in Worker, IInv, TakeTask(w) PROVE IInv'
    OBVIOUS
<1>1. /\ UNCHANGED <<mainVars, fed, closed, buf, succVars, progVars, serverVars, envVars>>
      /\ wpc[w] = "idle" /\ tasks # <<>>
      /\ task' = [task EXCEPT ![w] = Head(tasks)]
      /\ tasks' = Tail(tasks)
      /\ wpc' = [wpc EXCEPT ![w] = "read"]
    BY DEF TakeTask
<1>2. TypeOK /\ ChannelInv /\ (\A v \in Worker : WorkerInv(v)) /\ TakenInv
    BY DEF IInv
<1>3. /\ tasks \in Seq(Chunk) /\ fed \in 0 .. plan.totalChunks /\ fed \in Int
      /\ plan.totalChunks \in Nat
      /\ wpc \in [Worker -> {"off", "idle", "read", "post", "send", "done", "failed"}]
      /\ task \in [Worker -> Chunk \cup {NoChunk}]
    BY <1>2, PlanFacts, SMT DEF TypeOK, PlanOK
<1>4. /\ Len(tasks) \in Nat \ {0} /\ Head(tasks) = tasks[1] /\ Head(tasks) \in Chunk
      /\ Tail(tasks) \in Seq(Chunk) /\ Len(Tail(tasks)) = Len(tasks) - 1
      /\ \A k \in 1 .. Len(tasks) - 1 : Tail(tasks)[k] = tasks[k + 1]
    BY <1>1, <1>3, SMT
<1>5. Taken \in Int /\ Taken >= 0 /\ Taken < plan.totalChunks /\ Taken' = Taken + 1
    BY <1>1, <1>2, <1>3, <1>4, SMT DEF ChannelInv, Taken
<1>6. Head(tasks) = Taken
    BY <1>2, <1>4, <1>5, SMT DEF ChannelInv
<1>7. \A i : ChunkLen(i)' = ChunkLen(i) /\ Stored(i)' = Stored(i)
    BY <1>1, SamePlan DEF Stored, mainVars, serverVars
<1>8. TypeOK'
    <2>1. /\ tasks' \in Seq(Chunk)
          /\ wpc' \in [Worker -> {"off", "idle", "read", "post", "send", "done", "failed"}]
          /\ task' \in [Worker -> Chunk \cup {NoChunk}]
        BY <1>1, <1>3, <1>4
    <2> QED
        BY <1>1, <1>2, <2>1, SamePlan DEF TypeOK, mainVars, succVars, progVars, serverVars, envVars
<1>9. ChannelInv'
    <2>1. Len(tasks') <= fed'
        BY <1>1, <1>2, <1>3, <1>4, SMT DEF ChannelInv
    <2>2. \A k \in 1 .. Len(tasks') : tasks'[k] = Taken' + k - 1
        <3>1. \A k \in 1 .. Len(tasks) : tasks[k] = Taken + k - 1
            BY <1>2 DEF ChannelInv
        <3> QED
            BY <1>1, <1>4, <1>5, <3>1, SMT
    <2>3. \A v \in Worker : wpc'[v] # "done"
        BY <1>1, <1>2, <1>3 DEF ChannelInv
    <2>4. \A v \in Worker : wpc[v] # "off" => wpc'[v] # "off"
        BY <1>1, <1>3
    <2> QED
        BY <1>1, <1>2, <2>1, <2>2, <2>3, <2>4 DEF ChannelInv, mainVars
<1>10. ASSUME NEW v \in Worker PROVE WorkerInv(v)'
    <2>1. \A u \in Worker :
            IF u = w THEN wpc'[u] = "read" /\ task'[u] = Taken
                     ELSE wpc'[u] = wpc[u] /\ task'[u] = task[u]
        BY <1>1, <1>3, <1>6
    <2>2. \A u \in Worker : wpc[u] \in {"read", "post", "send"} => task[u] \in 0 .. Taken - 1
        BY <1>2 DEF WorkerInv, Active
    <2>3. \A p \in parts : p[1] \in 0 .. Taken - 1
        BY <1>2 DEF TakenInv
    <2>4. \A u \in Worker : wpc[u] = "idle" => buf[u] = plan.chunkSize
        BY <1>2, <1>5, SMT DEF WorkerInv, Active
    <2>5. CASE v = w
        <3>1. task'[v] \in 0 .. Taken' - 1
            BY <1>5, <2>1, <2>5, SMT
        <3>2. \A u \in Worker \ {v} :
                wpc'[u] \in {"read", "post", "send"} => task'[u] # task'[v]
            BY <1>5, <2>1, <2>2, <2>5, SMT
        <3>3. \A p \in parts' : p[1] # task'[v]
            BY <1>1, <1>5, <2>1, <2>3, <2>5, SMT DEF serverVars
        <3>4. buf'[v] = plan'.chunkSize
            BY <1>1, <2>4, <2>5 DEF mainVars
        <3> QED
            BY <2>1, <2>5, <3>1, <3>2, <3>3, <3>4 DEF WorkerInv, Active
    <2>6. CASE v # w
        <3>1. wpc'[v] = wpc[v] /\ task'[v] = task[v] /\ buf'[v] = buf[v]
            BY <1>1, <2>1, <2>6
        <3>2. wpc[v] \in {"read", "post", "send"} => task'[v] \in 0 .. Taken' - 1
            BY <1>5, <2>2, <3>1, SMT
        <3>3. wpc[v] \in {"read", "post", "send"} => \A u \in Worker \ {v} :
                wpc'[u] \in {"read", "post", "send"} => task'[u] # task'[v]
            <4>1. wpc[v] \in {"read", "post", "send"} => task[v] # Taken
                BY <1>5, <2>2, SMT
            <4> QED
                BY <1>2, <2>1, <3>1, <4>1 DEF WorkerInv, Active
        <3> QED
            BY <1>1, <1>2, <1>7, <2>4, <3>1, <3>2, <3>3 DEF WorkerInv, Active, mainVars, serverVars
    <2> QED
        BY <2>5, <2>6
<1>11. TakenInv'
    <2>1. \A i \in 0 .. Taken - 1 :
            \/ Stored(i)
            \/ \E v \in Worker : wpc[v] \in {"read", "post"} /\ task[v] = i
            \/ \E v \in Worker : wpc[v] = "failed"
        BY <1>2 DEF TakenInv, AnyFailed
    <2>2. \A v \in Worker : wpc[v] \in {"read", "post", "failed"} =>
            v # w /\ wpc'[v] = wpc[v] /\ task'[v] = task[v]
        BY <1>1, <1>3
    <2>3. wpc'[w] = "read" /\ task'[w] = Taken
        BY <1>1, <1>3, <1>6
    <2>4. \A i \in 0 .. Taken' - 1 :
            \/ Stored(i)
            \/ \E v \in Worker : wpc'[v] \in {"read", "post"} /\ task'[v] = i
            \/ \E v \in Worker : wpc'[v] = "failed"
        <3> SUFFICES ASSUME NEW i \in 0 .. Taken' - 1
                     PROVE  \/ Stored(i)
                            \/ \E v \in Worker : wpc'[v] \in {"read", "post"} /\ task'[v] = i
                            \/ \E v \in Worker : wpc'[v] = "failed"
            OBVIOUS
        <3>1. i \in 0 .. Taken - 1 \/ i = Taken
            BY <1>5, SMT
        <3> QED
            BY <2>1, <2>2, <2>3, <3>1
    <2>5. \A p \in parts' : p[1] \in 0 .. Taken' - 1
        BY <1>1, <1>2, <1>5, SMT DEF TakenInv, serverVars
    <2> QED
        BY <1>7, <2>4, <2>5 DEF TakenInv, AnyFailed
<1>12. AllReturned' => AllReturned
    BY <1>1, <1>3 DEF AllReturned
<1>13. ~AllReturned
    BY <1>1 DEF AllReturned
<1>14. pc' = pc /\ plan' = plan /\ pc \notin {"test", "encrypt", "init", "start"} /\ pc # "notify"
    BY <1>1, <1>13 DEF IInv, Untouched, mainVars
<1>15. ShownInv' /\ PartsAreWhole' /\ CommitsWholeFile' /\ NoEncryptedCopyLeft'
    BY <1>1, <1>7, SamePlan DEF IInv, ShownInv, PartsAreWhole, CommitsWholeFile, Stored,
        NoEncryptedCopyLeft, mainVars, succVars, progVars, serverVars
<1> QED
    BY <1>8, <1>9, <1>10, <1>11, <1>14, <1>15 DEF IInv

\* What every step of an active worker leaves alone.
LEMMA ActiveStep ==
    ASSUME NEW w \in Worker, IInv, wpc[w] \in {"idle", "read", "post", "send"}
    PROVE  pc \notin {"test", "encrypt", "init", "start", "notify"}
<1>1. ~AllReturned
    BY DEF AllReturned
<1> QED
    BY <1>1 DEF IInv, Untouched

LEMMA ReturnIInv == \A w \in Worker : IInv /\ Return(w) => IInv'
<1> SUFFICES ASSUME NEW w \in Worker, IInv, Return(w) PROVE IInv'
    OBVIOUS
<1>1. /\ UNCHANGED <<mainVars, tasksVars, task, buf, succVars, progVars, serverVars, envVars>>
      /\ wpc[w] = "idle" /\ tasks = <<>> /\ closed
      /\ wpc' = [wpc EXCEPT ![w] = "done"]
    BY DEF Return
<1>2. TypeOK /\ ChannelInv /\ (\A v \in Worker : WorkerInv(v)) /\ TakenInv
    BY DEF IInv
<1>3. wpc \in [Worker -> {"off", "idle", "read", "post", "send", "done", "failed"}]
    BY <1>2 DEF TypeOK
<1>4. \A i : ChunkLen(i)' = ChunkLen(i) /\ Stored(i)' = Stored(i)
    BY <1>1, SamePlan DEF Stored, mainVars, serverVars
<1>5. Taken' = Taken
    BY <1>1 DEF Taken, tasksVars
<1>6. \A v \in Worker : wpc'[v] = IF v = w THEN "done" ELSE wpc[v]
    BY <1>1, <1>3
<1>7. TypeOK'
    BY <1>1, <1>2, <1>3, SamePlan DEF TypeOK, mainVars, tasksVars, succVars, progVars, serverVars,
        envVars
<1>8. ChannelInv'
    BY <1>1, <1>2, <1>5, <1>6 DEF ChannelInv, mainVars, tasksVars
<1>9. ASSUME NEW v \in Worker PROVE WorkerInv(v)'
    BY <1>1, <1>2, <1>4, <1>5, <1>6 DEF WorkerInv, Active, mainVars, serverVars
<1>10. TakenInv'
    BY <1>1, <1>2, <1>4, <1>5, <1>6 DEF TakenInv, AnyFailed, serverVars
<1>11. pc' = pc /\ plan' = plan /\ pc \notin {"test", "encrypt", "init", "start", "notify"}
    BY <1>1, ActiveStep DEF mainVars
<1>12. ShownInv' /\ PartsAreWhole' /\ CommitsWholeFile' /\ NoEncryptedCopyLeft'
    BY <1>1, <1>4, SamePlan DEF IInv, ShownInv, PartsAreWhole, CommitsWholeFile, Stored,
        NoEncryptedCopyLeft, mainVars, succVars, progVars, serverVars
<1> QED
    BY <1>7, <1>8, <1>9, <1>10, <1>11, <1>12 DEF IInv

LEMMA ReadPartIInv == \A w \in Worker : IInv /\ ReadPart(w) => IInv'
<1> SUFFICES ASSUME NEW w \in Worker, IInv, ReadPart(w) PROVE IInv'
    OBVIOUS
<1>1. /\ UNCHANGED <<mainVars, tasksVars, task, succVars, progVars, serverVars, envVars>>
      /\ wpc[w] = "read"
      /\ \/ /\ buf' = [buf EXCEPT ![w] = ReadLen(buf[w], task[w])]
            /\ wpc' = [wpc EXCEPT ![w] = "post"]
         \/ wpc' = [wpc EXCEPT ![w] = "failed"] /\ buf' = buf
    BY DEF ReadPart
<1>2. TypeOK /\ ChannelInv /\ (\A v \in Worker : WorkerInv(v)) /\ TakenInv
    BY DEF IInv
<1>3. /\ wpc \in [Worker -> {"off", "idle", "read", "post", "send", "done", "failed"}]
      /\ buf \in [Worker -> Nat]
    BY <1>2 DEF TypeOK
<1>4. \A i : ChunkLen(i)' = ChunkLen(i) /\ Stored(i)' = Stored(i)
    BY <1>1, SamePlan DEF Stored, mainVars, serverVars
<1>5. Taken' = Taken /\ task' = task
    BY <1>1 DEF Taken, tasksVars
<1>6. task[w] \in 0 .. Taken - 1 /\ task[w] \in Nat /\ buf[w] = plan.chunkSize
    BY <1>1, <1>2, SMT DEF WorkerInv, Active
<1>7. ReadLen(buf[w], task[w]) = ChunkLen(task[w]) /\ ReadLen(buf[w], task[w]) \in Nat
    BY <1>2, <1>3, <1>6, ReadLenType DEF ChunkLen, TypeOK
<1>8. /\ \A v \in Worker \ {w} : wpc'[v] = wpc[v] /\ buf'[v] = buf[v]
      /\ \/ wpc'[w] = "post" /\ buf'[w] = ChunkLen(task[w])
         \/ wpc'[w] = "failed"
    BY <1>1, <1>3, <1>7
<1>9. TypeOK'
    <2>1. /\ wpc' \in [Worker -> {"off", "idle", "read", "post", "send", "done", "failed"}]
          /\ buf' \in [Worker -> Nat]
        BY <1>1, <1>3, <1>7
    <2> QED
        BY <1>1, <1>2, <2>1, SamePlan DEF TypeOK, mainVars, tasksVars, succVars, progVars,
            serverVars, envVars
<1>10. ChannelInv'
    BY <1>1, <1>2, <1>5, <1>8 DEF ChannelInv, mainVars, tasksVars
<1>11. ASSUME NEW v \in Worker PROVE WorkerInv(v)'
    BY <1>1, <1>2, <1>4, <1>5, <1>8 DEF WorkerInv, Active, mainVars, serverVars
<1>12. TakenInv'
    <2>1. \A v \in Worker : wpc[v] \in {"read", "post"} =>
            wpc'[v] \in {"read", "post"} \/ wpc'[w] = "failed"
        BY <1>8
    <2>2. \A v \in Worker : wpc[v] = "failed" => wpc'[v] = "failed"
        BY <1>1, <1>8
    <2> QED
        BY <1>1, <1>2, <1>4, <1>5, <2>1, <2>2 DEF TakenInv, AnyFailed, serverVars
<1>13. pc' = pc /\ plan' = plan /\ pc \notin {"test", "encrypt", "init", "start", "notify"}
    BY <1>1, ActiveStep DEF mainVars
<1>14. ShownInv' /\ PartsAreWhole' /\ CommitsWholeFile' /\ NoEncryptedCopyLeft'
    BY <1>1, <1>4, SamePlan DEF IInv, ShownInv, PartsAreWhole, CommitsWholeFile, Stored,
        NoEncryptedCopyLeft, mainVars, succVars, progVars, serverVars
<1> QED
    BY <1>9, <1>10, <1>11, <1>12, <1>13, <1>14 DEF IInv

LEMMA PostPartIInv == \A w \in Worker : IInv /\ PostPart(w) => IInv'
<1> SUFFICES ASSUME NEW w \in Worker, IInv, PostPart(w) PROVE IInv'
    OBVIOUS
<1>1. /\ UNCHANGED <<mainVars, tasksVars, task, buf, succVars, progVars, committed, envVars>>
      /\ wpc[w] = "post"
      /\ parts' \in {parts, parts \cup {<<task[w], buf[w]>>}}
      /\ \/ /\ parts' = parts \cup {<<task[w], buf[w]>>}
            /\ wpc' = [wpc EXCEPT ![w] = "send"]
         \/ wpc' = [wpc EXCEPT ![w] = "failed"]
    BY DEF PostPart
<1>2. TypeOK /\ ChannelInv /\ (\A v \in Worker : WorkerInv(v)) /\ TakenInv
    BY DEF IInv
<1>3. /\ wpc \in [Worker -> {"off", "idle", "read", "post", "send", "done", "failed"}]
      /\ task \in [Worker -> Chunk \cup {NoChunk}] /\ buf \in [Worker -> Nat]
    BY <1>2 DEF TypeOK
<1>4. \A i : ChunkLen(i)' = ChunkLen(i)
    BY <1>1, SamePlan DEF mainVars
<1>5. Taken' = Taken /\ task' = task /\ buf' = buf /\ plan' = plan
    BY <1>1 DEF Taken, tasksVars, mainVars
<1>6. task[w] \in 0 .. Taken - 1 /\ task[w] \in Chunk /\ buf[w] = ChunkLen(task[w])
    <2>1. task[w] \in 0 .. Taken - 1 /\ buf[w] = ChunkLen(task[w])
        BY <1>1, <1>2 DEF WorkerInv, Active
    <2>2. task[w] # NoChunk
        BY <2>1, SMT DEF NoChunk
    <2> QED
        BY <1>3, <2>1, <2>2
<1>7. \A p \in parts' : p \in parts \/ p = <<task[w], ChunkLen(task[w])>>
    BY <1>1, <1>6
<1>8. /\ \A v \in Worker \ {w} : wpc'[v] = wpc[v]
      /\ (wpc'[w] = "send" /\ Stored(task[w])') \/ wpc'[w] = "failed"
    <2>1. parts' = parts \cup {<<task[w], buf[w]>>} => <<task[w], ChunkLen(task[w])>> \in parts'
        BY <1>6
    <2> QED
        BY <1>1, <1>3, <1>4, <1>5, <2>1 DEF Stored
<1>9. \A i : Stored(i) => Stored(i)'
    BY <1>1, <1>4 DEF Stored
<1>10. TypeOK'
    <2>1. wpc' \in [Worker -> {"off", "idle", "read", "post", "send", "done", "failed"}]
        BY <1>1, <1>3
    <2>2. parts' \subseteq Chunk \X Nat
        BY <1>1, <1>2, <1>3, <1>6 DEF TypeOK
    <2> QED
        BY <1>1, <1>2, <1>5, <2>1, <2>2, SamePlan DEF TypeOK, mainVars, tasksVars, succVars,
            progVars, envVars
<1>11. ChannelInv'
    BY <1>1, <1>2, <1>5, <1>8 DEF ChannelInv, mainVars, tasksVars
<1>12. ASSUME NEW v \in Worker PROVE WorkerInv(v)'
    <2>1. CASE v = w
        <3>1. \A u \in Worker \ {w} : Active(u)' => task[u] # task[w]
            BY <1>1, <1>2, <1>8 DEF WorkerInv, Active
        <3>2. wpc'[w] \in {"send", "failed"} /\ (wpc'[w] = "send" => Stored(task[w])')
            BY <1>8
        <3> QED
            BY <1>4, <1>5, <1>6, <2>1, <3>1, <3>2 DEF WorkerInv, Active
    <2>2. CASE v # w
        <3>1. wpc'[v] = wpc[v] /\ (Active(v) => task[v] # task[w])
            BY <1>1, <1>2, <1>8, <2>2 DEF WorkerInv, Active
        <3>2. wpc[v] \in {"read", "post"} => \A p \in parts' : p[1] # task[v]
            BY <1>2, <1>7, <3>1 DEF WorkerInv, Active
        <3>3. \A u \in Worker : Active(u)' => Active(u)
            BY <1>1, <1>8 DEF Active
        <3> QED
            BY <1>2, <1>4, <1>5, <1>9, <3>1, <3>2, <3>3 DEF WorkerInv, Active
    <2> QED
        BY <2>1, <2>2
<1>13. TakenInv'
    <2>1. ASSUME NEW i \in 0 .. Taken - 1
          PROVE  \/ Stored(i)' \/ AnyFailed'
                 \/ \E v \in Worker : wpc'[v] \in {"read", "post"} /\ task[v] = i
        <3>1. CASE Stored(i)
            BY <1>9, <3>1
        <3>2. CASE AnyFailed
            BY <1>1, <1>8, <3>2 DEF AnyFailed
        <3>3. ASSUME NEW v \in Worker, wpc[v] \in {"read", "post"}, task[v] = i
              PROVE  \/ Stored(i)' \/ AnyFailed'
                     \/ \E u \in Worker : wpc'[u] \in {"read", "post"} /\ task[u] = i
            <4>1. CASE v = w
                BY <1>4, <1>5, <1>8, <3>3, <4>1 DEF AnyFailed, Stored
            <4>2. CASE v # w
                BY <1>8, <3>3, <4>2
            <4> QED
                BY <4>1, <4>2
        <3> QED
            BY <1>2, <3>1, <3>2, <3>3 DEF TakenInv
    <2>2. \A p \in parts' : p[1] \in 0 .. Taken - 1
        BY <1>2, <1>6, <1>7 DEF TakenInv
    <2> QED
        BY <1>5, <2>1, <2>2 DEF TakenInv
<1>14. pc' = pc /\ pc \notin {"test", "encrypt", "init", "start", "notify"}
    BY <1>1, ActiveStep DEF mainVars
<1>15. PartsAreWhole'
    BY <1>4, <1>7 DEF IInv, PartsAreWhole
<1>16. ShownInv' /\ CommitsWholeFile' /\ NoEncryptedCopyLeft'
    BY <1>1, <1>5, <1>9, SamePlan DEF IInv, ShownInv, CommitsWholeFile, Stored,
        NoEncryptedCopyLeft, mainVars, succVars, progVars
<1> QED
    BY <1>5, <1>10, <1>11, <1>12, <1>13, <1>14, <1>15, <1>16 DEF IInv

LEMMA SendSuccessIInv == \A w \in Worker : IInv /\ SendSuccess(w) => IInv'
<1> SUFFICES ASSUME NEW w \in Worker, IInv, SendSuccess(w) PROVE IInv'
    OBVIOUS
<1>1. /\ UNCHANGED <<mainVars, tasksVars, task, buf, succClosed, progVars, serverVars, envVars>>
      /\ wpc[w] = "send" /\ succ' = task[w]
      /\ wpc' = [wpc EXCEPT ![w] = "idle"]
    BY DEF SendSuccess
<1>2. TypeOK /\ ChannelInv /\ (\A v \in Worker : WorkerInv(v)) /\ TakenInv /\ ShownInv
    BY DEF IInv
<1>3. /\ wpc \in [Worker -> {"off", "idle", "read", "post", "send", "done", "failed"}]
      /\ task \in [Worker -> Chunk \cup {NoChunk}]
      /\ tasks \in Seq(Chunk) /\ fed \in 0 .. plan.totalChunks /\ plan.totalChunks \in Nat
    BY <1>2, PlanFacts DEF TypeOK, PlanOK
<1>4. \A i : ChunkLen(i)' = ChunkLen(i) /\ Stored(i)' = Stored(i)
    BY <1>1, SamePlan DEF Stored, mainVars, serverVars
<1>5. Taken' = Taken /\ task' = task /\ buf' = buf /\ plan' = plan
    BY <1>1 DEF Taken, tasksVars, mainVars
<1>6. task[w] \in 0 .. Taken - 1 /\ buf[w] = ChunkLen(task[w]) /\ Stored(task[w])
    BY <1>1, <1>2 DEF WorkerInv, Active
<1>7. Taken \in Int /\ Taken <= plan.totalChunks
    BY <1>3, SMT DEF Taken
<1>8. buf[w] = plan.chunkSize \/ Taken = plan.totalChunks
    <2>1. CASE task[w] < plan.totalChunks - 1
        <3>1. task[w] \in Nat
            BY <1>6, <1>7, SMT
        <3> QED
            BY <1>2, <1>6, <2>1, <3>1, FullChunk DEF TypeOK
    <2>2. CASE ~(task[w] < plan.totalChunks - 1)
        BY <1>3, <1>6, <1>7, <2>2, SMT
    <2> QED
        BY <2>1, <2>2
<1>9. \A v \in Worker : wpc'[v] = IF v = w THEN "idle" ELSE wpc[v]
    BY <1>1, <1>3
<1>10. TypeOK'
    <2>1. wpc' \in [Worker -> {"off", "idle", "read", "post", "send", "done", "failed"}]
        BY <1>1, <1>3
    <2>2. succ' \in Chunk \cup {NoChunk, 0}
        BY <1>1, <1>3
    <2> QED
        BY <1>1, <1>2, <2>1, <2>2, SamePlan DEF TypeOK, mainVars, tasksVars, progVars, serverVars,
            envVars
<1>11. ChannelInv'
    BY <1>1, <1>2, <1>5, <1>9 DEF ChannelInv, mainVars, tasksVars
<1>12. ASSUME NEW v \in Worker PROVE WorkerInv(v)'
    BY <1>1, <1>2, <1>4, <1>5, <1>8, <1>9 DEF WorkerInv, Active, serverVars
<1>13. TakenInv'
    BY <1>1, <1>2, <1>4, <1>5, <1>9 DEF TakenInv, AnyFailed, serverVars
<1>14. ShownInv'
    BY <1>1, <1>2, <1>4, <1>6 DEF ShownInv, progVars
<1>15. pc' = pc /\ pc \notin {"test", "encrypt", "init", "start", "notify"}
    BY <1>1, ActiveStep DEF mainVars
<1>16. PartsAreWhole' /\ CommitsWholeFile' /\ NoEncryptedCopyLeft'
    BY <1>1, <1>4, SamePlan DEF IInv, PartsAreWhole, CommitsWholeFile, Stored,
        NoEncryptedCopyLeft, mainVars, serverVars
<1> QED
    BY <1>5, <1>10, <1>11, <1>12, <1>13, <1>14, <1>15, <1>16 DEF IInv

-----------------------------------------------------------------------------
(* The progress goroutine, the test's, and steps that change nothing. *)

LEMMA ObserverIInv == IInv /\ (ProgressStep \/ EndTest \/ UNCHANGED vars) => IInv'
<1> SUFFICES ASSUME IInv, ProgressStep \/ EndTest \/ UNCHANGED vars PROVE IInv'
    OBVIOUS
<1>1. /\ UNCHANGED <<mainVars, tasksVars, workerVars, succClosed, serverVars, ui>>
      /\ ppc' \in {"off", "recv", "show", "exited"} /\ (ppc = "off" => ppc' = "off")
      /\ {succ', pend', highestChunkSent'} \subseteq {succ, pend, highestChunkSent, NoChunk}
      /\ ppc = "off" => UNCHANGED <<succ, pend, highestChunkSent>>
      /\ tester' \in {"running", "done"} /\ crashed' \in BOOLEAN
    <2> USE DEF IInv, TypeOK, succVars, progVars, envVars
    <2>1. CASE RecvSuccess
        BY <2>1 DEF RecvSuccess
    <2>2. CASE ShowProgress
        BY <2>2 DEF ShowProgress
    <2>3. CASE EndProgress
        BY <2>3 DEF EndProgress
    <2>4. CASE EndTest
        BY <2>4 DEF EndTest
    <2>5. CASE UNCHANGED vars
        BY <2>5 DEF vars
    <2> QED
        BY <2>1, <2>2, <2>3, <2>4, <2>5 DEF ProgressStep
<1>2. /\ (\A w \in Worker : WorkerInv(w)') /\ TakenInv' /\ PartsAreWhole'
      /\ \A i : Stored(i)' = Stored(i)
      /\ AllReturned' = AllReturned /\ AnyFailed' = AnyFailed
    BY <1>1, Frame DEF mainVars, serverVars
<1>3. TypeOK'
    BY <1>1, SamePlan DEF IInv, TypeOK, mainVars, tasksVars, workerVars, serverVars
<1>4. Untouched => Untouched'
    BY <1>1 DEF Untouched, tasksVars, workerVars, serverVars
<1>5. ChannelInv'
    BY <1>1 DEF IInv, ChannelInv, Taken, mainVars, tasksVars, workerVars
<1>6. ShownInv'
    <2>1. ~(NoChunk > 0)
        BY SMT DEF NoChunk
    <2> QED
        BY <1>1, <1>2, <2>1 DEF IInv, ShownInv
<1>7. CommitsWholeFile' /\ NoEncryptedCopyLeft'
    BY <1>1, SamePlan DEF IInv, CommitsWholeFile, NoEncryptedCopyLeft, mainVars, serverVars
<1> QED
    BY <1>1, <1>2, <1>3, <1>4, <1>5, <1>6, <1>7 DEF IInv, mainVars

-----------------------------------------------------------------------------
(* The theorems. *)

\* Every step of every goroutine keeps the invariant.
LEMMA NextIInv == IInv /\ [Next]_vars => IInv'
<1> SUFFICES ASSUME IInv, [Next]_vars PROVE IInv'
    OBVIOUS
<1>1. CASE ManageUpload
    BY <1>1, BeginIInv, InitUploadIInv, StartWorkersIInv, FeedIInv, FinishIInv DEF ManageUpload
<1>2. ASSUME NEW w \in Worker, WorkerStep(w) PROVE IInv'
    BY <1>2, TakeTaskIInv, ReturnIInv, ReadPartIInv, PostPartIInv, SendSuccessIInv DEF WorkerStep
<1>3. CASE ProgressStep \/ EndTest \/ UNCHANGED vars
    BY <1>3, ObserverIInv
<1> QED
    BY <1>1, <1>2, <1>3 DEF Next, Stopped

\* IInv holds throughout: the channel, the workers' hands and the server's
\* parts account for every chunk of the plan.
THEOREM Inductive == Spec => []IInv
<1>1. Init => IInv
    BY InitIInv
<1>2. IInv /\ [Next]_vars => IInv'
    BY NextIInv
<1> QED
    BY <1>1, <1>2, PTL DEF Spec

\* The state of an upload is well formed, whatever the server plans.
THEOREM TypeCorrect == Spec => []TypeOK
<1>1. IInv => TypeOK
    BY DEF IInv
<1> QED
    BY <1>1, Inductive, PTL

\* Every part the server stored is the whole of its chunk, although the workers
\* shrink the buffers they reuse (postPart's data = data[:n]).
THEOREM PartsWhole == Spec => []PartsAreWhole
<1>1. IInv => PartsAreWhole
    BY DEF IInv
<1> QED
    BY <1>1, Inductive, PTL

\* No chunk is in two workers' hands, nor posted again once it is stored.
THEOREM ChunksOwned == Spec => []OneWorkerPerChunk
<1>1. IInv => OneWorkerPerChunk
    BY DEF IInv, WorkerInv, Active, OneWorkerPerChunk
<1> QED
    BY <1>1, Inductive, PTL

\* An upload that the server recorded as complete has every chunk, in full.
THEOREM CompleteIsWhole == Spec => []CommitsWholeFile
<1>1. IInv => CommitsWholeFile
    BY DEF IInv
<1> QED
    BY <1>1, Inductive, PTL

\* The highest chunk that the progress line has counted was accepted in full.
THEOREM ProgressTrue == Spec => []ProgressIsAcknowledged
<1>1. IInv => ProgressIsAcknowledged
    BY DEF IInv, ShownInv, Stored, ProgressIsAcknowledged
<1> QED
    BY <1>1, Inductive, PTL

\* However ManageUpload returns, its encrypted copy is removed (the deferred
\* os.Remove).
THEOREM NoCopyLeft == Spec => []NoEncryptedCopyLeft
<1>1. IInv => NoEncryptedCopyLeft
    BY DEF IInv
<1> QED
    BY <1>1, Inductive, PTL

-----------------------------------------------------------------------------
(* Nobody is stuck. *)

\* What each goroutine waits for, written out.
MainGoesOn == pc # "end" /\ (pc = "wait" => AllReturned)

WorkerGoesOn(w) ==
    \/ wpc[w] = "idle" /\ (tasks # <<>> \/ closed)
    \/ wpc[w] \in {"read", "post"}
    \/ wpc[w] = "send" /\ succ = NoChunk

ProgressGoesOn == ppc = "show" \/ (ppc = "recv" /\ (succ # NoChunk \/ succClosed))

\* Until the call is over, somebody can go on: ManageUpload waits for the workers,
\* they for tasks and for the slot of successChan, and the progress goroutine,
\* which empties it, for them, but never all at once.
NobodyStuck ==
    pc # "end" /\ ~crashed => MainGoesOn \/ (\E w \in Worker : WorkerGoesOn(w)) \/ ProgressGoesOn

\* While the workers have chunks to send, the progress goroutine empties the slot
\* they wait for: it ends only after the slot's channel is closed, and that
\* is closed only after all have returned.
SlotInv ==
    /\ pc \in {"wait", "notify"} => closed
    /\ pc \in {"test", "encrypt", "init", "start", "feed", "wait"} => ~succClosed
    /\ pc \in {"feed", "wait"} => ppc \in {"recv", "show"}

LEMMA InitSlot == Init => SlotInv
    BY DEF Init, SlotInv

LEMMA NextSlot == SlotInv /\ [Next]_vars => SlotInv'
<1> SUFFICES ASSUME SlotInv, [Next]_vars PROVE SlotInv'
    OBVIOUS
<1>1. CASE TestUpload \/ EncryptFile \/ InitUpload
    BY <1>1 DEF TestUpload, EncryptFile, InitUpload, Fail, tasksVars, succVars, progVars, SlotInv
<1>2. CASE StartWorkers
    BY <1>2 DEF StartWorkers, Fail, tasksVars, SlotInv
<1>3. CASE Feed
    BY <1>3 DEF Feed, succVars, progVars, SlotInv
<1>4. CASE Wait \/ CompleteUpload \/ Cleanup \/ ProcessUpload
    BY <1>4 DEF Wait, CompleteUpload, Cleanup, ProcessUpload, Fail, tasksVars, succVars, progVars,
       SlotInv
<1>5. ASSUME NEW w \in Worker, WorkerStep(w) PROVE SlotInv'
    BY <1>5 DEF WorkerStep, TakeTask, Return, ReadPart, PostPart, SendSuccess, mainVars, tasksVars,
       succVars, progVars, SlotInv
<1>6. CASE ProgressStep
    BY <1>6 DEF ProgressStep, RecvSuccess, ShowProgress, EndProgress, mainVars, tasksVars, succVars,
       SlotInv
<1>7. CASE EndTest \/ UNCHANGED vars
    BY <1>7 DEF EndTest, vars, mainVars, tasksVars, succVars, progVars, SlotInv
<1> QED
    BY <1>1, <1>2, <1>3, <1>4, <1>5, <1>6, <1>7 DEF Next, Stopped, ManageUpload

\* Workers, feeder and progress goroutine never wait for each other all at once,
\* with any number of workers and of chunks, and whichever workers fail.
THEOREM NeverStuck == Spec => []NobodyStuck
<1>1. TypeOK /\ SlotInv => NobodyStuck
  <2> SUFFICES ASSUME TypeOK, SlotInv, pc = "wait", NEW w \in Worker,
                      wpc[w] \notin {"off", "done", "failed"}
               PROVE  WorkerGoesOn(w) \/ ProgressGoesOn
      BY DEF NobodyStuck, MainGoesOn, AllReturned
  <2>1. CASE wpc[w] = "send"
      BY <2>1 DEF WorkerGoesOn, ProgressGoesOn, SlotInv
  <2>2. CASE wpc[w] # "send"
      BY <2>2 DEF TypeOK, WorkerGoesOn, SlotInv
  <2> QED
      BY <2>1, <2>2
<1>2. Spec => []SlotInv
    BY InitSlot, NextSlot, PTL DEF Spec
<1> QED
    BY <1>1, <1>2, TypeCorrect, PTL

-----------------------------------------------------------------------------
(* Upload implements ChunkTransfer. *)

Over == pc \in {"cleanup", "returned", "end"}

\* When ManageUpload is past its work the workers are, and it commits last.
EndedInv ==
    /\ Over => AllReturned
    /\ committed => Over

Delivered == UNION {PartBytes(p) : p \in parts}

-----------------------------------------------------------------------------
(* Chunks and bytes. *)

\* Every byte is in a chunk: the arithmetic of a division.
LEMMA Division ==
    ASSUME NEW c \in Nat \ {0}, NEW b \in Nat
    PROVE  /\ b \div c \in Nat
           /\ c * (b \div c) <= b /\ b < c * (b \div c) + c
    BY SMTT(30)

\* A smaller product has a smaller factor.
LEMMA TimesLess ==
    ASSUME NEW c \in Nat, NEW a \in Nat, NEW b \in Nat, c * a < c * b
    PROVE  a < b
<1> SUFFICES ASSUME b <= a PROVE FALSE
    BY SMT
<1>1. c * b <= c * a
    BY TimesMonotone
<1>2. c * a \in Nat /\ c * b \in Nat
    BY SMT
<1> QED
    BY <1>1, <1>2, SMT

\* Where a chunk begins and ends.
LEMMA ChunkBounds ==
    ASSUME PlanOK, NEW i \in Chunk
    PROVE  /\ plan \in HonestPlan /\ plan.chunkSize \in Nat \ {0} /\ i \in Nat
           /\ plan.totalChunks \in Nat /\ i < plan.totalChunks
           /\ plan.chunkSize * i \in Nat /\ plan.chunkSize * i < Size
           /\ ChunkLen(i) \in Nat \ {0} /\ ChunkLen(i) <= plan.chunkSize
           /\ plan.chunkSize * i + ChunkLen(i) <= Size
           /\ \/ ChunkLen(i) = plan.chunkSize
              \/ plan.chunkSize * i + ChunkLen(i) = Size
<1> DEFINE c == plan.chunkSize
           t == plan.totalChunks
           start == c * i
<1>1. t \in Nat /\ i \in Nat /\ i < t /\ c \in Nat
    BY PlanFacts, SMT DEF PlanOK, Chunk
<1>2. plan \in HonestPlan
    BY <1>1, PlanFacts, SMT DEF PlanOK
<1>3. c \in Nat \ {0} /\ c * (t - 1) < Size
    BY <1>2, UploadAssumption DEF HonestPlan
<1>4. start \in Nat /\ start < Size
  <2>1. t - 1 \in Nat /\ i <= t - 1
      BY <1>1, SMT
  <2>2. c * i <= c * (t - 1)
      BY <1>1, <2>1, TimesMonotone
  <2>3. c * i \in Nat /\ c * (t - 1) \in Nat
      BY <1>1, <2>1, SMT
  <2> QED
      BY <1>3, <2>2, <2>3, UploadAssumption, SMT
<1>5. ChunkLen(i) = IF Size - start >= c THEN c ELSE IF Size - start > 0 THEN Size - start ELSE 0
    BY DEF ChunkLen, ReadLen
<1> HIDE DEF start
<1>6. /\ ChunkLen(i) \in Nat \ {0} /\ ChunkLen(i) <= c /\ start + ChunkLen(i) <= Size
      /\ ChunkLen(i) = c \/ start + ChunkLen(i) = Size
  <2> HIDE DEF c
  <2> QED
      BY <1>3, <1>4, <1>5, UploadAssumption, SMT
<1> QED
    BY <1>1, <1>2, <1>3, <1>4, <1>6 DEF start

Bytes(i) == PartBytes(<<i, ChunkLen(i)>>)

\* The bytes of a chunk are bytes of the file, one at least.
LEMMA ChunkBytes ==
    ASSUME PlanOK, NEW i \in Chunk
    PROVE  Bytes(i) # {} /\ Bytes(i) \subseteq 0 .. Size - 1
<1> DEFINE start == plan.chunkSize * i
           len == ChunkLen(i)
<1>1. start \in Nat /\ len \in Nat \ {0} /\ start + len <= Size
    BY ChunkBounds
<1>2. Bytes(i) = start .. start + len - 1
    BY DEF Bytes, PartBytes
<1> HIDE DEF start, len
<1>3. start \in start .. start + len - 1
    BY <1>1, SMT
<1>4. start .. start + len - 1 \subseteq 0 .. Size - 1
    BY <1>1, UploadAssumption, SMT
<1> QED
    BY <1>2, <1>3, <1>4

\* Different chunks have no byte in common.
LEMMA ChunksDisjoint ==
    ASSUME PlanOK, NEW i \in Chunk, NEW j \in Chunk, i # j
    PROVE  Bytes(i) \cap Bytes(j) = {}
<1>1. ASSUME NEW k \in Chunk, NEW l \in Chunk, k < l
      PROVE  Bytes(k) \cap Bytes(l) = {}
  <2> DEFINE c == plan.chunkSize
             sk == c * k
             sl == c * l
             lk == ChunkLen(k)
             ll == ChunkLen(l)
  <2>1. /\ k \in Nat /\ l \in Nat /\ c \in Nat /\ sk \in Nat /\ sl \in Nat
        /\ lk \in Nat /\ ll \in Nat /\ lk <= c
      BY <1>1, ChunkBounds
  <2>2. sk + c <= sl
    <3>1. k + 1 \in Nat /\ k + 1 <= l
        BY <1>1, <2>1, SMT
    <3>2. c * (k + 1) <= c * l
        BY <2>1, <3>1, TimesMonotone
    <3>3. c * (k + 1) = c * k + c
        BY <2>1, SMT
    <3> QED
        BY <3>2, <3>3
  <2>3. Bytes(k) = sk .. sk + lk - 1 /\ Bytes(l) = sl .. sl + ll - 1
      BY DEF Bytes, PartBytes
  <2> HIDE DEF c, sk, sl, lk, ll
  <2> QED
      BY <2>1, <2>2, <2>3, SMT
<1>2. i \in Nat /\ j \in Nat
    BY ChunkBounds
<1>3. i < j \/ j < i
    BY <1>2, SMT
<1> QED
    BY <1>1, <1>3

\* Every byte is in a chunk.
LEMMA ChunksCover ==
    ASSUME PlanOK, plan # ZeroPlan, NEW b \in 0 .. Size - 1
    PROVE  \E i \in Chunk : b \in Bytes(i)
<1> DEFINE c == plan.chunkSize
           t == plan.totalChunks
           i == b \div c
           start == c * i
<1>1. plan \in HonestPlan /\ c \in Nat \ {0} /\ t \in Nat /\ Size <= c * t
    BY PlanFacts, UploadAssumption DEF PlanOK, HonestPlan
<1>2. b \in Nat /\ b < Size
    BY UploadAssumption, SMT
<1>3. i \in Nat /\ c * i <= b /\ b < c * i + c
    BY <1>1, <1>2, Division
<1> HIDE DEF i
<1>4. i \in Chunk
  <2>1. c * i \in Nat /\ c * t \in Nat
      BY <1>1, <1>3, SMT
  <2>2. c * i < c * t
      BY <1>1, <1>2, <1>3, <2>1, UploadAssumption, SMT
  <2>3. i < t
      BY <1>1, <1>3, <2>2, TimesLess
  <2> QED
      BY <1>1, <1>3, <2>3, SMT DEF Chunk
<1>5. /\ start \in Nat /\ ChunkLen(i) \in Nat
      /\ ChunkLen(i) = c \/ start + ChunkLen(i) = Size
    BY <1>4, ChunkBounds
<1>6. start <= b /\ b < start + c
    BY <1>3
<1>7. Bytes(i) = start .. start + ChunkLen(i) - 1
    BY DEF Bytes, PartBytes
<1> HIDE DEF start
<1>8. b \in start .. start + ChunkLen(i) - 1
  <2> HIDE DEF c
  <2> QED
      BY <1>1, <1>2, <1>5, <1>6, SMT
<1> QED
    BY <1>4, <1>7, <1>8

-----------------------------------------------------------------------------
(* What the server has. *)

\* A part is the bytes of its chunk.
LEMMA PartIsChunk ==
    ASSUME IInv, NEW p \in parts
    PROVE  p[1] \in Chunk /\ PartBytes(p) = Bytes(p[1])
<1>1. p \in Chunk \X Nat /\ p[2] = ChunkLen(p[1])
    BY DEF IInv, TypeOK, PartsAreWhole
<1> QED
    BY <1>1 DEF Bytes, PartBytes

\* Only bytes of the file are delivered.
LEMMA DeliveredBytes ==
    ASSUME IInv
    PROVE  Delivered \subseteq 0 .. Size - 1
<1> SUFFICES ASSUME NEW p \in parts PROVE PartBytes(p) \subseteq 0 .. Size - 1
    BY DEF Delivered
<1> QED
    BY PartIsChunk, ChunkBytes DEF IInv, TypeOK

\* An upload with a plan whose chunks are all stored has every byte.
LEMMA WholeFile ==
    ASSUME IInv, plan # ZeroPlan, \A i \in Chunk : Stored(i)
    PROVE  Delivered = 0 .. Size - 1
<1>1. ASSUME NEW b \in 0 .. Size - 1 PROVE b \in Delivered
  <2>1. PICK i \in Chunk : b \in Bytes(i)
      BY ChunksCover DEF IInv, TypeOK
  <2>2. <<i, ChunkLen(i)>> \in parts
      BY DEF Stored
  <2> QED
      BY <2>1, <2>2 DEF Delivered, Bytes
<1> QED
    BY <1>1, DeliveredBytes

-----------------------------------------------------------------------------
(* The end of the upload. *)

LEMMA InitEnded == Init => EndedInv
    BY DEF Init, EndedInv, Over

\* A worker that has something to do: the upload is not over.
LEMMA NotOver ==
    ASSUME EndedInv, NEW w \in Worker, wpc[w] \in {"idle", "read", "post", "send"}
    PROVE  ~Over /\ ~committed
    BY DEF EndedInv, AllReturned

LEMMA NextEnded == IInv /\ EndedInv /\ [Next]_vars => EndedInv'
<1> SUFFICES ASSUME IInv, EndedInv, [Next]_vars PROVE EndedInv'
    OBVIOUS
<1> USE DEF EndedInv, Over, AllReturned
<1>1. CASE TestUpload \/ EncryptFile \/ InitUpload \/ StartWorkers \/ Feed
  <2>1. pc \in {"test", "encrypt", "init", "start", "feed"} /\ committed' = committed
      BY <1>1 DEF TestUpload, EncryptFile, InitUpload, StartWorkers, Feed, serverVars
  <2>2. ~committed
      BY <2>1
  <2>3. Over' => pc # "feed" /\ wpc' = wpc
      BY <1>1 DEF TestUpload, EncryptFile, InitUpload, StartWorkers, Feed, workerVars
  <2>4. pc # "feed" => \A w \in Worker : wpc[w] = "off"
      BY <2>1 DEF IInv, Untouched
  <2> QED
      BY <2>1, <2>2, <2>3, <2>4
<1>2. CASE Wait \/ CompleteUpload \/ Cleanup \/ ProcessUpload
  <2>1. wpc' = wpc /\ (committed' => committed \/ pc' = "cleanup")
      BY <1>2 DEF Wait, CompleteUpload, Cleanup, ProcessUpload, workerVars, serverVars
  <2>2. (Over' => AllReturned) /\ (Over => Over')
      BY <1>2 DEF Wait, CompleteUpload, Cleanup, ProcessUpload, IInv
  <2> QED
      BY <2>1, <2>2
<1>3. ASSUME NEW w \in Worker, WorkerStep(w)
      PROVE  EndedInv'
  <2>1. wpc[w] \in {"idle", "read", "post", "send"} /\ pc' = pc /\ committed' = committed
      BY <1>3 DEF WorkerStep, TakeTask, Return, ReadPart, PostPart, SendSuccess, mainVars, serverVars
  <2> QED
      BY <2>1, NotOver
<1>4. CASE ProgressStep \/ EndTest \/ UNCHANGED vars
  <2>1. UNCHANGED <<pc, wpc, committed>>
      BY <1>4 DEF ProgressStep, RecvSuccess, ShowProgress, EndProgress, EndTest, vars, mainVars,
                  workerVars, serverVars
  <2> QED
      BY <2>1
<1> QED
    BY <1>1, <1>2, <1>3, <1>4 DEF Next, ManageUpload, Stopped

-----------------------------------------------------------------------------
(* Steps of ChunkTransfer. *)

\* A step that leaves what is delivered, and ends an open upload or does not.
LEMMA AbandonOrStutter ==
    ASSUME Delivered' = Delivered,
           Outcome' = Outcome \/ (Outcome = "open" /\ Outcome' = "abandoned")
    PROVE  [Transfer!Next]_(Transfer!vars)
    BY DEF Delivered, Transfer!Next, Transfer!Abandon, Transfer!vars

LEMMA InitRefines == Init => Transfer!Init
    BY DEF Init, Transfer!Init, Outcome

\* ManageUpload: it commits the whole file, or fails, or goes on.
LEMMA MainRefines ==
    ASSUME IInv, EndedInv, ~crashed, ManageUpload
    PROVE  [Transfer!Next]_(Transfer!vars)
<1>1. Delivered' = Delivered
  <2>1. CASE InitUpload
    <3>1. parts = {} /\ parts' = {}
        BY <2>1 DEF InitUpload, IInv, Untouched, serverVars
    <3> QED
        BY <3>1 DEF Delivered
  <2>2. CASE ~InitUpload
    <3>1. UNCHANGED <<plan, parts>>
        BY <2>2 DEF ManageUpload, TestUpload, EncryptFile, StartWorkers, Feed, Wait, CompleteUpload,
                    Cleanup, ProcessUpload, mainVars, serverVars
    <3>2. \A p : PartBytes(p)' = PartBytes(p)
        BY <3>1 DEF PartBytes
    <3> QED
        BY <3>1, <3>2 DEF Delivered
  <2> QED
      BY <2>1, <2>2
<1>2. CASE CompleteUpload /\ committed' /\ ~committed
  <2>1. plan # ZeroPlan /\ pc = "notify" /\ crashed' = crashed
      BY <1>2 DEF CompleteUpload, envVars
  <2>2. Delivered = 0 .. Size - 1
      BY <2>1, AllStored, WholeFile
  <2>3. Outcome = "open" /\ Outcome' = "committed"
      BY <1>2, <2>1 DEF Outcome
  <2> QED
      BY <1>1, <2>2, <2>3 DEF Delivered, Transfer!Next, Transfer!Commit, Transfer!Byte
<1>3. CASE CompleteUpload /\ (committed \/ ~committed')
  <2>1. Outcome' = Outcome \/ (Outcome = "open" /\ Outcome' = "abandoned")
      BY <1>3 DEF CompleteUpload, Outcome, serverVars, envVars
  <2> QED
      BY <1>1, <2>1, AbandonOrStutter
<1>4. CASE Cleanup \/ ProcessUpload
  <2>1. Over /\ Over' /\ committed' = committed
      BY <1>4 DEF Cleanup, ProcessUpload, serverVars, Over
  <2>2. Outcome' = Outcome
      BY <2>1 DEF Outcome, Over
  <2> QED
      BY <1>1, <2>2, AbandonOrStutter
<1>5. CASE TestUpload \/ EncryptFile \/ InitUpload \/ StartWorkers \/ Feed \/ Wait
  <2>1. pc \notin {"cleanup", "returned", "end"} /\ UNCHANGED <<crashed, committed>>
      BY <1>5 DEF TestUpload, EncryptFile, InitUpload, StartWorkers, Feed, Wait, serverVars, envVars
  <2>2. Outcome = "open" /\ Outcome' \in {"open", "abandoned"}
      BY <2>1 DEF Outcome, EndedInv, Over
  <2> QED
      BY <1>1, <2>2, AbandonOrStutter
<1> QED
    BY <1>2, <1>3, <1>4, <1>5 DEF ManageUpload

\* postPart: a part that arrives is a piece of the file not delivered before.
LEMMA PostRefines ==
    ASSUME IInv, EndedInv, ~crashed, NEW w \in Worker, PostPart(w)
    PROVE  [Transfer!Next]_(Transfer!vars)
<1>1. /\ wpc[w] = "post" /\ UNCHANGED <<pc, plan, committed, crashed>>
      /\ parts' = parts \/ parts' = parts \cup {<<task[w], buf[w]>>}
    BY DEF PostPart, mainVars, envVars
<1>2. Outcome = "open" /\ Outcome' = "open"
    BY <1>1, NotOver DEF Outcome, Over
<1>3. \A p : PartBytes(p)' = PartBytes(p)
    BY <1>1 DEF PartBytes
<1>4. CASE parts' = parts
  <2>1. Delivered' = Delivered
      BY <1>3, <1>4 DEF Delivered
  <2> QED
      BY <1>2, <2>1, AbandonOrStutter
<1>5. CASE parts' = parts \cup {<<task[w], buf[w]>>}
  <2>1. PlanOK /\ task[w] \in Chunk /\ buf[w] = ChunkLen(task[w])
    <3>1. WorkerInv(w) /\ TypeOK
        BY DEF IInv
    <3>2. /\ task[w] \in 0 .. Taken - 1 /\ buf[w] = ChunkLen(task[w])
          /\ task[w] \in Chunk \cup {NoChunk}
        BY <1>1, <3>1 DEF WorkerInv, Active, TypeOK
    <3> QED
        BY <3>1, <3>2 DEF TypeOK, NoChunk
  <2> DEFINE piece == Bytes(task[w])
  <2>2. piece = PartBytes(<<task[w], buf[w]>>)
      BY <2>1 DEF Bytes
  <2>3. piece # {} /\ piece \subseteq 0 .. Size - 1
      BY <2>1, ChunkBytes
  <2>4. piece \cap Delivered = {}
    <3> SUFFICES ASSUME NEW p \in parts PROVE piece \cap PartBytes(p) = {}
        BY DEF Delivered
    <3>1. p[1] # task[w]
        BY <1>1 DEF IInv, WorkerInv
    <3>2. p[1] \in Chunk /\ PartBytes(p) = Bytes(p[1])
        BY PartIsChunk
    <3> QED
        BY <2>1, <3>1, <3>2, ChunksDisjoint
  <2>5. Delivered' = Delivered \cup piece
      BY <1>3, <1>5, <2>2 DEF Delivered
  <2> HIDE DEF piece
  <2> QED
      BY <1>2, <2>3, <2>4, <2>5 DEF Delivered, Transfer!Next, Transfer!Deliver, Transfer!Byte
<1> QED
    BY <1>1, <1>4, <1>5

\* Whatever else happens sends nothing; a panic abandons the upload.
LEMMA OtherRefines ==
    ASSUME UNCHANGED <<pc, plan, committed, parts>>, crashed => crashed'
    PROVE  [Transfer!Next]_(Transfer!vars)
<1>1. Delivered' = Delivered
    BY DEF Delivered, PartBytes
<1>2. Outcome' = Outcome \/ (Outcome = "open" /\ Outcome' = "abandoned")
    BY DEF Outcome
<1> QED
    BY <1>1, <1>2, AbandonOrStutter

LEMMA NextRefines == IInv /\ EndedInv /\ [Next]_vars => [Transfer!Next]_(Transfer!vars)
<1> SUFFICES ASSUME IInv, EndedInv, [Next]_vars PROVE [Transfer!Next]_(Transfer!vars)
    OBVIOUS
<1>1. CASE ~crashed /\ ManageUpload
    BY <1>1, MainRefines
<1>2. ASSUME NEW w \in Worker, ~crashed, WorkerStep(w)
      PROVE  [Transfer!Next]_(Transfer!vars)
  <2>1. CASE PostPart(w)
      BY <1>2, <2>1, PostRefines
  <2>2. CASE TakeTask(w) \/ Return(w) \/ ReadPart(w) \/ SendSuccess(w)
    <3>1. UNCHANGED <<pc, plan, committed, parts, crashed>>
        BY <2>2 DEF TakeTask, Return, ReadPart, SendSuccess, mainVars, serverVars, envVars
    <3> QED
        BY <3>1, OtherRefines
  <2> QED
      BY <1>2, <2>1, <2>2 DEF WorkerStep
<1>3. CASE ~crashed /\ (ProgressStep \/ EndTest)
  <2>1. UNCHANGED <<pc, plan, committed, parts>>
      BY <1>3 DEF ProgressStep, RecvSuccess, ShowProgress, EndProgress, EndTest, mainVars, serverVars
  <2> QED
      BY <1>3, <2>1, OtherRefines
<1>4. CASE UNCHANGED vars
  <2>1. UNCHANGED <<pc, plan, committed, parts, crashed>>
      BY <1>4 DEF vars, mainVars, serverVars, envVars
  <2> QED
      BY <2>1, OtherRefines
<1> QED
    BY <1>1, <1>2, <1>3, <1>4 DEF Next, Stopped

\* Every behaviour of the upload is one of ChunkTransfer: whatever the plan and
\* the order in which workers read, post and fail, every byte is delivered at
\* most once and the server files away only a whole file.
THEOREM Refinement == Spec => ImplementsChunkTransfer
<1>1. Spec => []EndedInv
  <2>1. Spec => []IInv
      BY Inductive
  <2>2. IInv /\ EndedInv /\ [Next]_vars => EndedInv'
      BY NextEnded
  <2> QED
      BY InitEnded, <2>1, <2>2, PTL DEF Spec
<1>2. Spec => []IInv
    BY Inductive
<1>3. Init => Transfer!Init
    BY InitRefines
<1>4. IInv /\ EndedInv /\ [Next]_vars => [Transfer!Next]_(Transfer!vars)
    BY NextRefines
<1> QED
    BY <1>1, <1>2, <1>3, <1>4, PTL DEF Spec, ImplementsChunkTransfer, Transfer!Spec
=============================================================================
