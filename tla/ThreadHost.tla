----------------------------- MODULE ThreadHost -----------------------------
(***************************************************************************)
(* The two-thread host (thread_host.cpp).  The main thread collects        *)
(* packets into a batch and hands it to the worker thread, which compresses*)
(* it and writes it to the file.  They share one mutex m, one condition    *)
(* variable cv, the flags ready and processed, the atomic done_flag and    *)
(* the buffer collected_data with its length thread_length_sum.            *)
(*                                                                         *)
(* A batch is its number: the main thread hands over 1, 2, ..., total.     *)
(* How packets become a batch is the subject of Transfer.                  *)
(***************************************************************************)
EXTENDS Naturals, FiniteSets

CONSTANTS
  MaxBatches,   \* bound on the number of batches of a run
  BatchCounts,  \* how many batches the main thread may have to hand over
  MayFail       \* whether fopen and the kernel may fail

ASSUME ThreadHostAssumption ==
  /\ MaxBatches \in Nat \ {0}
  /\ BatchCounts \subseteq 0 .. MaxBatches
  /\ MayFail \in BOOLEAN

Batches == 1 .. MaxBatches

VARIABLES
  total,           \* number of batches the received packets make
  batch,           \* the main thread's batch (its pipeline buffer)
  mainPc, workerPc,
  mutex,           \* holder of m: "main", "worker" or "none"
  waiting,         \* the threads asleep in cv.wait
  ready,           \* ready
  processed,       \* processed
  doneFlag,        \* done_flag
  collected,       \* the batch in collected_data
  lengthOf,        \* the batch whose length is in thread_length_sum
  hostInput,       \* the batch (and length) copied to the kernel's buffer
  chunked,         \* the batch (and length) chunked, hashed and deduplicated
  copies,          \* history: how often each batch was written, 2 for 2 or more
  aborted          \* exit(EXIT_FAILURE) has ended the process

mainVars == <<total, batch, mainPc>>
flagVars == <<ready, processed, doneFlag>>
dataVars == <<collected, lengthOf>>
workerVars == <<workerPc, hostInput, chunked, copies, aborted>>
vars == <<mainVars, mutex, waiting, flagVars, dataVars, workerVars>>

AtMostTwo(k) == IF k > 2 THEN 2 ELSE k

\* The globals the threads share, as they are defined.
FlagsInit ==
  /\ mutex = "none"
  /\ waiting = {}
  /\ ready = FALSE /\ processed = FALSE /\ doneFlag = FALSE

\* main's set-up: buffers, socket, device; then the worker is started.
Init ==
  /\ FlagsInit
  /\ total \in BatchCounts
  /\ batch = 0
  /\ mainPc = "collect"
  /\ workerPc = "open"
  /\ collected = 0 /\ lengthOf = 0
  /\ hostInput = <<0, 0>> /\ chunked = <<0, 0>>
  /\ copies = [b \in Batches |-> 0]
  /\ aborted = FALSE

-----------------------------------------------------------------------------
(* The mutex and the condition variable *)

Lock(thread) == mutex = "none" /\ mutex' = thread

Unlock == mutex' = "none"

\* cv.wait gives the mutex up and sleeps, in one step.
Sleep(thread) == waiting' = waiting \cup {thread} /\ Unlock

\* cv.notify_one wakes one of the sleepers, if there is one.
NotifyOne ==
  \/ waiting = {} /\ UNCHANGED waiting
  \/ \E thread \in waiting : waiting' = waiting \ {thread}

\* A thread may also wake from cv.wait unasked.
SpuriousWakeup ==
  /\ \E thread \in waiting : waiting' = waiting \ {thread}
  /\ UNCHANGED <<mainVars, mutex, flagVars, dataVars, workerVars>>

-----------------------------------------------------------------------------
(* The main thread *)

\* Mutant of Collect: one batch too many.
CollectOneMore ==
  /\ mainPc = "collect" /\ batch <= total
  /\ batch' = batch + 1
  /\ mainPc' = IF batch = 0 THEN "sendLock" ELSE "waitLock"
  /\ UNCHANGED <<total, mutex, waiting, flagVars, dataVars, workerVars>>

\* Receive packets until the buffer is to be handed over.
Collect ==
  /\ mainPc = "collect" /\ batch < total
  /\ batch' = batch + 1
  /\ mainPc' = IF batch = 0 THEN "sendLock" ELSE "waitLock"
  /\ UNCHANGED <<total, mutex, waiting, flagVars, dataVars, workerVars>>

\* Mutant of SendLock: no lock_guard.
SendWithoutLock ==
  /\ mainPc = "sendLock"
  /\ mainPc' = "setReady"
  /\ UNCHANGED <<total, batch, mutex, waiting, flagVars, dataVars, workerVars>>

\* std::lock_guard before the buffer is handed over.
SendLock ==
  /\ mainPc = "sendLock"
  /\ Lock("main")
  /\ mainPc' = "setReady"
  /\ UNCHANGED <<total, batch, waiting, flagVars, dataVars, workerVars>>

SetReady ==
  /\ mainPc = "setReady"
  /\ ready' = TRUE
  /\ mainPc' = "setLength"
  /\ UNCHANGED <<total, batch, mutex, waiting, processed, doneFlag, dataVars,
                 workerVars>>

SetLength ==
  /\ mainPc = "setLength"
  /\ lengthOf' = batch
  /\ mainPc' = "copy"
  /\ UNCHANGED <<total, batch, mutex, waiting, flagVars, collected, workerVars>>

\* memcpy to collected_data, then the end of the lock_guard's scope.
CopyAndUnlock ==
  /\ mainPc = "copy"
  /\ collected' = batch
  /\ Unlock
  /\ mainPc' = "notify"
  /\ UNCHANGED <<total, batch, waiting, flagVars, lengthOf, workerVars>>

\* Mutant of MainNotify: the worker is not notified.
MainWithoutNotify ==
  /\ mainPc = "notify"
  /\ mainPc' = "collect"
  /\ UNCHANGED <<total, batch, mutex, waiting, flagVars, dataVars, workerVars>>

MainNotify ==
  /\ mainPc = "notify"
  /\ NotifyOne
  /\ mainPc' = "collect"
  /\ UNCHANGED <<total, batch, mutex, flagVars, dataVars, workerVars>>

\* The loop has ended: done_flag is set, without the mutex.
EndLoop ==
  /\ mainPc = "collect" /\ batch = total
  /\ doneFlag' = TRUE
  /\ mainPc' = "endLock"
  /\ UNCHANGED <<total, batch, mutex, waiting, ready, processed, dataVars,
                 workerVars>>

\* std::unique_lock before cv.wait(processed), and its return from sleep.
WaitLock ==
  /\ mainPc \in {"waitLock", "endLock"}
  /\ "main" \notin waiting
  /\ Lock("main")
  /\ mainPc' = IF mainPc = "waitLock" THEN "wait" ELSE "endWait"
  /\ UNCHANGED <<total, batch, waiting, flagVars, dataVars, workerVars>>

\* Mutant of WaitProcessed: main does not wait.
WaitForNothing ==
  /\ mainPc \in {"wait", "endWait"}
  /\ Unlock
  /\ mainPc' = IF mainPc = "wait" THEN "sendLock" ELSE "join"
  /\ UNCHANGED <<total, batch, waiting, flagVars, dataVars, workerVars>>

\* The predicate of cv.wait: processed, which nobody resets.
WaitProcessed ==
  /\ mainPc \in {"wait", "endWait"}
  /\ \/ /\ processed
        /\ Unlock
        /\ mainPc' = IF mainPc = "wait" THEN "sendLock" ELSE "join"
        /\ UNCHANGED waiting
     \/ /\ ~processed
        /\ Sleep("main")
        /\ mainPc' = IF mainPc = "wait" THEN "waitLock" ELSE "endLock"
  /\ UNCHANGED <<total, batch, flagVars, dataVars, workerVars>>

\* Mutant of JoinAndFree: the worker is not joined.
FreeWithoutJoin ==
  /\ mainPc = "join"
  /\ mainPc' = "exit"
  /\ UNCHANGED <<total, batch, mutex, waiting, flagVars, dataVars, workerVars>>

\* worker.join, and then the buffers are freed.
JoinAndFree ==
  /\ mainPc = "join" /\ workerPc = "exit"
  /\ mainPc' = "exit"
  /\ UNCHANGED <<total, batch, mutex, waiting, flagVars, dataVars, workerVars>>

Main ==
  \/ Collect \/ SendLock \/ SetReady \/ SetLength \/ CopyAndUnlock \/ MainNotify
  \/ EndLoop \/ WaitLock \/ WaitProcessed \/ JoinAndFree

-----------------------------------------------------------------------------
(* The worker thread: compression_pipeline *)

\* exit(EXIT_FAILURE) of the thread ends the process.
Fail == MayFail /\ aborted' = TRUE

OpenFile ==
  /\ workerPc = "open"
  /\ \/ Fail /\ UNCHANGED workerPc
     \/ workerPc' = "lock" /\ UNCHANGED aborted
  /\ UNCHANGED <<mainVars, mutex, waiting, flagVars, dataVars, hostInput, chunked,
                 copies>>

WorkerLock ==
  /\ workerPc = "lock"
  /\ "worker" \notin waiting
  /\ Lock("worker")
  /\ workerPc' = "wait"
  /\ UNCHANGED <<mainVars, waiting, flagVars, dataVars, hostInput, chunked,
                 copies, aborted>>

\* The predicate of the worker's cv.wait: ready, which nobody resets.
WaitReady ==
  /\ workerPc = "wait"
  /\ \/ ready /\ workerPc' = "checkDone" /\ UNCHANGED <<mutex, waiting>>
     \/ ~ready /\ Sleep("worker") /\ workerPc' = "lock"
  /\ UNCHANGED <<mainVars, flagVars, dataVars, hostInput, chunked, copies,
                 aborted>>

\* Mutant of CheckDone: the mutex is given up before the batch is read.
CheckDoneAndUnlock ==
  /\ workerPc = "checkDone"
  /\ Unlock
  /\ workerPc' = IF doneFlag THEN "close" ELSE "copyInput"
  /\ UNCHANGED <<mainVars, waiting, flagVars, dataVars, hostInput, chunked,
                 copies, aborted>>

\* done_flag ends the loop; leaving the scope gives the mutex up.
CheckDone ==
  /\ workerPc = "checkDone"
  /\ \/ doneFlag /\ Unlock /\ workerPc' = "close"
     \/ ~doneFlag /\ UNCHANGED mutex /\ workerPc' = "copyInput"
  /\ UNCHANGED <<mainVars, waiting, flagVars, dataVars, hostInput, chunked,
                 copies, aborted>>

\* memcpy(host_input, collected_data, thread_length_sum)
CopyInput ==
  /\ workerPc = "copyInput"
  /\ hostInput' = <<collected, lengthOf>>
  /\ workerPc' = "chunk"
  /\ UNCHANGED <<mainVars, mutex, waiting, flagVars, dataVars, chunked, copies,
                 aborted>>

\* fast_cdc, sha_256 and dedup read collected_data itself.
Chunk ==
  /\ workerPc = "chunk"
  /\ chunked' = <<collected, lengthOf>>
  /\ workerPc' = "kernel"
  /\ UNCHANGED <<mainVars, mutex, waiting, flagVars, dataVars, hostInput, copies,
                 aborted>>

\* The kernel runs on host_input and the result is written to the file,
\* unless the kernel says that an insertion failed.
RunKernel ==
  /\ workerPc = "kernel"
  /\ \/ Fail /\ UNCHANGED <<workerPc, copies>>
     \/ /\ copies' = [copies EXCEPT ![hostInput[1]] = AtMostTwo(@ + 1)]
        /\ workerPc' = "setProcessed"
        /\ UNCHANGED aborted
  /\ UNCHANGED <<mainVars, mutex, waiting, flagVars, dataVars, hostInput, chunked>>

\* processed = true; lk.unlock()
SetProcessed ==
  /\ workerPc = "setProcessed"
  /\ processed' = TRUE
  /\ Unlock
  /\ workerPc' = "notify"
  /\ UNCHANGED <<mainVars, waiting, ready, doneFlag, dataVars, hostInput, chunked,
                 copies, aborted>>

\* Mutant of WorkerNotify: main is not notified.
WorkerWithoutNotify ==
  /\ workerPc = "notify"
  /\ workerPc' = "lock"
  /\ UNCHANGED <<mainVars, mutex, waiting, flagVars, dataVars, hostInput, chunked,
                 copies, aborted>>

WorkerNotify ==
  /\ workerPc = "notify"
  /\ NotifyOne
  /\ workerPc' = "lock"
  /\ UNCHANGED <<mainVars, mutex, flagVars, dataVars, hostInput, chunked, copies,
                 aborted>>

\* fclose
CloseFile ==
  /\ workerPc = "close"
  /\ workerPc' = "exit"
  /\ UNCHANGED <<mainVars, mutex, waiting, flagVars, dataVars, hostInput, chunked,
                 copies, aborted>>

Worker ==
  \/ OpenFile \/ WorkerLock \/ WaitReady \/ CheckDone \/ CopyInput \/ Chunk
  \/ RunKernel \/ SetProcessed \/ WorkerNotify \/ CloseFile

-----------------------------------------------------------------------------

\* The process has ended.
Ended == (aborted \/ mainPc = "exit") /\ UNCHANGED vars

Next ==
  \/ ~aborted /\ (Main \/ Worker \/ SpuriousWakeup)
  \/ Ended

Spec == Init /\ [][Next]_vars

\* A thread that can run runs.  For the mutex that is not enough: the worker
\* gives it up and takes it again, so a thread that finds it free again and
\* again must get it at last (std::mutex leaves that to the scheduler).
FairSpec ==
  /\ Spec
  /\ WF_vars(~aborted /\ Main) /\ WF_vars(~aborted /\ Worker)
  /\ SF_vars(~aborted /\ (SendLock \/ WaitLock))
  /\ SF_vars(~aborted /\ WorkerLock)

-----------------------------------------------------------------------------
(* Properties *)

MainPcs == {"collect", "sendLock", "setReady", "setLength", "copy", "notify",
            "endLock", "waitLock", "wait", "endWait", "join", "exit"}

WorkerPcs == {"open", "lock", "wait", "checkDone", "copyInput", "chunk",
              "kernel", "setProcessed", "notify", "close", "exit"}

Registers == 0 .. MaxBatches

\* The variables stay in their ranges.
TypeOK ==
  /\ total \in BatchCounts
  /\ batch \in 0 .. total
  /\ mainPc \in MainPcs /\ workerPc \in WorkerPcs
  /\ mutex \in {"none", "main", "worker"}
  /\ waiting \subseteq {"main", "worker"}
  /\ ready \in BOOLEAN /\ processed \in BOOLEAN /\ doneFlag \in BOOLEAN
  /\ collected \in Registers /\ lengthOf \in Registers
  /\ hostInput \in Registers \X Registers /\ chunked \in Registers \X Registers
  /\ copies \in [Batches -> 0 .. 2]
  /\ aborted \in BOOLEAN

\* The steps in which a thread is about to touch what both share.
MainAccesses == mainPc \in {"setReady", "setLength", "copy", "wait", "endWait"}
WorkerAccesses == workerPc \in {"wait", "copyInput", "chunk", "setProcessed"}

\* No data race on ready, processed, collected_data and thread_length_sum.
NoDataRace == ~(MainAccesses /\ WorkerAccesses)

\* The batch the kernel compresses is whole, is the one that was chunked and
\* deduplicated, and carries its own length.
WholeBatch ==
  workerPc \in {"kernel", "setProcessed"} =>
    /\ hostInput = chunked
    /\ hostInput[1] = hostInput[2]
    /\ hostInput[1] # 0

\* When main has freed the buffers the worker has closed the file, and the
\* first batch is in it.
ExitAfterFirstBatch ==
  mainPc = "exit" => workerPc = "exit" /\ (total > 0 => copies[1] > 0)

\* The program hangs only when there is at most one batch: a worker that ends
\* before it has processed anything, or two threads asleep, need that.
HangsOnlyWithoutSecondBatch ==
  (\/ workerPc \in {"close", "exit"} /\ ~processed
   \/ waiting = {"main", "worker"}) => total <= 1

\* The two threads implement the lossy register.
Register == INSTANCE Handoff WITH current <- collected
ImplementsHandoff == Register!Spec

\* With two batches or more the program ends.
EndsWithTwoBatches == total >= 2 => <>(aborted \/ mainPc = "exit")

-----------------------------------------------------------------------------
(* What the comments and the report say and the code does not do *)

\* "Wait for the workder." before "Send data to the worker.": when the program
\* ends, every batch main has handed over has been compressed once, none
\* skipped and none again.
CompressedOnce == mainPc = "exit" => \A b \in 1 .. total : copies[b] = 1

\* "Wait for the workder." at the end: the wait ends.
Ends == <>(aborted \/ mainPc = "exit")
=============================================================================
