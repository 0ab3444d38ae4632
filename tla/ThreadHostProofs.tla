-------------------------- MODULE ThreadHostProofs --------------------------
(***************************************************************************)
(* The two-thread host has no data race, compresses whole batches and      *)
(* implements the lossy register, for every number of batches.             *)
(***************************************************************************)
EXTENDS ThreadHost, TLAPS

MainHolds == {"setReady", "setLength", "copy", "wait", "endWait"}
WorkerHolds == {"wait", "checkDone", "copyInput", "chunk", "kernel",
                "setProcessed"}

\* The mutex is held exactly by the thread inside its critical section.
MutexInv ==
  /\ mutex = "main" <=> mainPc \in MainHolds
  /\ mutex = "worker" <=> workerPc \in WorkerHolds

\* collected_data is one batch behind while main has a batch to hand over,
\* and thread_length_sum agrees with it unless main is between the two.
DataInv ==
  /\ mainPc \in {"sendLock", "setReady", "setLength", "copy", "waitLock", "wait"}
       => batch = collected + 1
  /\ mainPc \in {"collect", "notify", "endLock", "endWait", "join", "exit"}
       => batch = collected
  /\ lengthOf = IF mainPc = "copy" THEN batch ELSE collected
  /\ ready => collected # 0 \/ mainPc \in {"setLength", "copy"}

\* What the worker has read stays the batch in collected_data while it holds
\* the mutex.
WorkerInv ==
  /\ workerPc \in WorkerHolds \ {"wait"} => ready
  /\ workerPc \in {"chunk", "kernel", "setProcessed"}
       => hostInput = <<collected, collected>>
  /\ workerPc \in {"kernel", "setProcessed"} => chunked = <<collected, collected>>
  /\ workerPc = "setProcessed" => copies[collected] > 0

\* processed stands for the first batch: it is set when a batch has been
\* written, and the first one is not overwritten before.
FirstInv ==
  /\ processed => copies[1] > 0
  /\ collected > 1 => copies[1] > 0
  /\ mainPc \in {"sendLock", "setReady", "setLength", "copy"} /\ batch > 1
       => processed

IInv == TypeOK /\ MutexInv /\ DataInv /\ WorkerInv /\ FirstInv

LEMMA MaxBatchesType ==
  /\ MaxBatches \in Nat /\ 1 \in Batches
  /\ \A k \in BatchCounts : k \in 0 .. MaxBatches
  BY ThreadHostAssumption DEF Batches

USE DEF MainPcs, WorkerPcs, MainHolds, WorkerHolds, Registers

LEMMA InitInv == Init => IInv
<1> SUFFICES ASSUME Init PROVE IInv
  OBVIOUS
<1>1. TypeOK
  <2>1. total \in Nat /\ 0 \in 0 .. total /\ 0 \in 0 .. MaxBatches
    BY MaxBatchesType DEF Init, FlagsInit
  <2>2. copies \in [Batches -> 0 .. 2]
    BY DEF Init, FlagsInit
  <2>3. hostInput \in Registers \X Registers /\ chunked \in Registers \X Registers
    BY <2>1 DEF Init, FlagsInit
  <2> QED BY <2>1, <2>2, <2>3 DEF Init, FlagsInit, TypeOK
<1>2. MutexInv
  BY DEF Init, FlagsInit, MutexInv
<1>3. DataInv
  BY DEF Init, FlagsInit, DataInv
<1>4. WorkerInv
  BY DEF Init, FlagsInit, WorkerInv
<1>5. FirstInv
  BY DEF Init, FlagsInit, FirstInv
<1> QED BY <1>1, <1>2, <1>3, <1>4, <1>5 DEF IInv

LEMMA MainInv == IInv /\ Main => IInv'
<1> SUFFICES ASSUME IInv, Main PROVE IInv'
  OBVIOUS
<1> USE MaxBatchesType DEF IInv, TypeOK, MutexInv, DataInv, WorkerInv, FirstInv,
      flagVars, dataVars, workerVars
<1>1. CASE Collect
  BY <1>1 DEF Collect
<1>2. CASE SendLock
  BY <1>2 DEF SendLock, Lock
<1>3. CASE SetReady
  BY <1>3 DEF SetReady
<1>4. CASE SetLength
  BY <1>4 DEF SetLength
<1>5. CASE CopyAndUnlock
  <2>1. batch \in Registers /\ batch # 0
    BY <1>5 DEF CopyAndUnlock
  <2>2. TypeOK'
    BY <1>5, <2>1 DEF CopyAndUnlock, Unlock
  <2>3. MutexInv' /\ workerPc \notin WorkerHolds
    BY <1>5 DEF CopyAndUnlock, Unlock
  <2>4. DataInv' /\ WorkerInv'
    BY <1>5, <2>1, <2>3 DEF CopyAndUnlock
  <2>5. FirstInv'
    BY <1>5, <2>1 DEF CopyAndUnlock
  <2> QED BY <2>2, <2>3, <2>4, <2>5
<1>6. CASE MainNotify
  BY <1>6 DEF MainNotify, NotifyOne
<1>7. CASE EndLoop
  BY <1>7 DEF EndLoop
<1>8. CASE WaitLock
  BY <1>8 DEF WaitLock, Lock
<1>9. CASE WaitProcessed
  BY <1>9 DEF WaitProcessed, Sleep, Unlock
<1>10. CASE JoinAndFree
  BY <1>10 DEF JoinAndFree
<1> QED BY <1>1, <1>2, <1>3, <1>4, <1>5, <1>6, <1>7, <1>8, <1>9, <1>10 DEF Main

LEMMA WorkerStepInv == IInv /\ Worker => IInv'
<1> SUFFICES ASSUME IInv, Worker PROVE IInv'
  OBVIOUS
<1> USE MaxBatchesType DEF IInv, TypeOK, MutexInv, DataInv, WorkerInv, FirstInv,
      mainVars, flagVars, dataVars
<1>1. CASE OpenFile
  BY <1>1, Zenon DEF OpenFile, Fail
<1>2. CASE WorkerLock
  BY <1>2 DEF WorkerLock, Lock
<1>3. CASE WaitReady
  BY <1>3 DEF WaitReady, Sleep, Unlock
<1>4. CASE CheckDone
  BY <1>4 DEF CheckDone, Unlock
<1>5. CASE CopyInput
  BY <1>5 DEF CopyInput
<1>6. CASE Chunk
  BY <1>6 DEF Chunk
<1>7. CASE RunKernel
  <2>1. CASE Fail /\ UNCHANGED <<workerPc, copies>>
    BY <1>7, <2>1 DEF RunKernel, Fail
  <2>2. CASE /\ copies' = [copies EXCEPT ![hostInput[1]] = AtMostTwo(@ + 1)]
             /\ workerPc' = "setProcessed"
             /\ UNCHANGED aborted
    <3>1. hostInput[1] = collected /\ collected \in Batches
      BY <1>7 DEF RunKernel, Batches
    <3>2. /\ copies' \in [Batches -> 0 .. 2]
          /\ copies'[collected] > 0
          /\ copies[1] > 0 => copies'[1] > 0
      BY <2>2, <3>1 DEF AtMostTwo
    <3> QED BY <1>7, <2>2, <3>2 DEF RunKernel
  <2> QED BY <1>7, <2>1, <2>2 DEF RunKernel
<1>8. CASE SetProcessed
  <2>1. copies[1] > 0
    BY <1>8, collected \in 0 .. 1 \/ collected > 1 DEF SetProcessed
  <2> QED BY <1>8, <2>1 DEF SetProcessed, Unlock
<1>9. CASE WorkerNotify
  BY <1>9 DEF WorkerNotify, NotifyOne
<1>10. CASE CloseFile
  BY <1>10 DEF CloseFile
<1> QED BY <1>1, <1>2, <1>3, <1>4, <1>5, <1>6, <1>7, <1>8, <1>9, <1>10 DEF Worker

LEMMA NextInv == IInv /\ [Next]_vars => IInv'
<1> SUFFICES ASSUME IInv, [Next]_vars PROVE IInv'
  OBVIOUS
<1>1. CASE UNCHANGED vars
  BY <1>1 DEF vars, mainVars, flagVars, dataVars, workerVars, IInv, TypeOK,
     MutexInv, DataInv, WorkerInv, FirstInv
<1>2. CASE SpuriousWakeup
  BY <1>2 DEF SpuriousWakeup, mainVars, flagVars, dataVars, workerVars, IInv,
     TypeOK, MutexInv, DataInv, WorkerInv, FirstInv
<1> QED BY <1>1, <1>2, MainInv, WorkerStepInv DEF Next, Ended

LEMMA Invariant == Spec => []IInv
  BY InitInv, NextInv, PTL DEF Spec

\* Flags, buffers and program counters stay in range, for any number of batches.
THEOREM TypeCorrect == Spec => []TypeOK
  BY Invariant, PTL DEF IInv

\* ready, processed, collected_data and thread_length_sum are never touched by
\* one thread while the other may touch them.
THEOREM RaceFree == Spec => []NoDataRace
<1>1. IInv => NoDataRace
  BY DEF IInv, MutexInv, NoDataRace, MainAccesses, WorkerAccesses
<1> QED BY <1>1, Invariant, PTL

\* The kernel is given the whole batch that was chunked and deduplicated.
THEOREM WholeBatchHolds == Spec => []WholeBatch
<1>1. IInv => WholeBatch
  BY DEF IInv, TypeOK, MutexInv, DataInv, WorkerInv, WholeBatch
<1> QED BY <1>1, Invariant, PTL

-----------------------------------------------------------------------------
(* Refinement *)

LEMMA PutStep == IInv /\ CopyAndUnlock => Register!Put
<1> SUFFICES ASSUME IInv, CopyAndUnlock PROVE Register!Put
  OBVIOUS
<1>1. /\ batch = collected + 1 /\ batch <= MaxBatches /\ collected \in Nat
      /\ collected = 1 => copies[1] > 0
  BY MaxBatchesType DEF IInv, TypeOK, DataInv, FirstInv, CopyAndUnlock
<1>2. /\ collected < MaxBatches /\ collected' = collected + 1
      /\ UNCHANGED copies
  BY <1>1, MaxBatchesType DEF CopyAndUnlock, workerVars
<1> QED BY <1>1, <1>2 DEF Register!Put

LEMMA TakeStep ==
  ASSUME IInv, RunKernel
  PROVE  Register!Take \/ UNCHANGED <<collected, copies>>
<1>1. hostInput[1] = collected /\ collected # 0 /\ UNCHANGED collected
  BY DEF IInv, MutexInv, DataInv, WorkerInv, RunKernel, dataVars
<1>2. CASE UNCHANGED copies
  BY <1>1, <1>2
<1>3. CASE copies' = [copies EXCEPT ![hostInput[1]] = AtMostTwo(@ + 1)]
  BY <1>1, <1>3 DEF Register!Take, AtMostTwo, Register!AtMostTwo
<1> QED BY <1>2, <1>3 DEF RunKernel

LEMMA RegisterStep == IInv /\ [Next]_vars => [Register!Next]_(Register!handoffVars)
<1> SUFFICES ASSUME IInv, [Next]_vars
             PROVE  Register!Next \/ UNCHANGED <<collected, copies>>
  BY DEF Register!handoffVars
<1>1. CASE UNCHANGED <<dataVars, workerVars>>
  BY <1>1 DEF dataVars, workerVars
<1>2. CASE CopyAndUnlock
  BY <1>2, PutStep DEF Register!Next
<1>3. CASE RunKernel
  BY <1>3, TakeStep DEF Register!Next
<1>4. CASE Main /\ ~CopyAndUnlock
  BY <1>4 DEF Main, Collect, SendLock, SetReady, SetLength, MainNotify, EndLoop,
     WaitLock, WaitProcessed, JoinAndFree, dataVars, workerVars
<1>5. CASE Worker /\ ~RunKernel
  BY <1>5 DEF Worker, OpenFile, WorkerLock, WaitReady, CheckDone, CopyInput, Chunk,
     SetProcessed, WorkerNotify, CloseFile, dataVars
<1>6. CASE SpuriousWakeup \/ UNCHANGED vars
  BY <1>1, <1>6 DEF SpuriousWakeup, vars
<1> QED BY <1>2, <1>3, <1>4, <1>5, <1>6 DEF Next, Ended

\* The two threads implement the lossy register, for any number of batches.
THEOREM Refinement == Spec => ImplementsHandoff
<1>1. Init => Register!Init
  BY DEF Init, FlagsInit, Register!Init, Batches, Register!Batches
<1> QED BY <1>1, RegisterStep, Invariant, PTL
        DEF Spec, ImplementsHandoff, Register!Spec

-----------------------------------------------------------------------------
(* How the program ends, and how it hangs *)

InLoop == {"collect", "sendLock", "setReady", "setLength", "copy", "notify",
           "waitLock", "wait"}

\* Who sleeps has not been notified since its condition came true, and the
\* worker leaves its loop only after main has left its own.
WaitInv ==
  /\ "main" \in waiting => mainPc \in {"waitLock", "endLock"}
  /\ "worker" \in waiting =>
       /\ workerPc = "lock"
       /\ ready => mainPc \in {"setLength", "copy", "notify"}
  /\ batch > 0 /\ ~(batch = 1 /\ mainPc \in {"sendLock", "setReady"}) => ready
  /\ mainPc \in {"waitLock", "wait"} => batch > 1

EndInv ==
  /\ batch > 1 /\ mainPc \notin {"waitLock", "wait"} => processed
  /\ mainPc \in {"join", "exit"} => processed
  /\ mainPc = "exit" => workerPc = "exit"
  /\ doneFlag => mainPc \notin InLoop
  /\ mainPc \notin InLoop => batch = total
  /\ workerPc \in {"close", "exit"} => doneFlag

LEMMA InitEnd == Init => WaitInv /\ EndInv
  BY DEF Init, FlagsInit, WaitInv, EndInv, InLoop

LEMMA MainEnd == IInv /\ WaitInv /\ EndInv /\ Main => (WaitInv /\ EndInv)'
<1> SUFFICES ASSUME IInv, WaitInv, EndInv, Main PROVE (WaitInv /\ EndInv)'
  OBVIOUS
<1>1. batch \in Nat /\ total \in Nat /\ waiting \subseteq {"main", "worker"}
  BY MaxBatchesType DEF IInv, TypeOK
<1> USE <1>1 DEF WaitInv, EndInv, InLoop, flagVars, dataVars, workerVars
<1>2. CASE Collect
  BY <1>2 DEF Collect
<1>3. CASE SendLock
  BY <1>3 DEF SendLock
<1>4. CASE SetReady
  BY <1>4 DEF SetReady
<1>5. CASE SetLength \/ CopyAndUnlock
  BY <1>5 DEF SetLength, CopyAndUnlock
<1>6. CASE MainNotify
  BY <1>6 DEF MainNotify, NotifyOne
<1>7. CASE EndLoop
  BY <1>7 DEF EndLoop
<1>8. CASE WaitLock
  BY <1>8 DEF WaitLock
<1>9. CASE WaitProcessed
  BY <1>9 DEF WaitProcessed, Sleep
<1>10. CASE JoinAndFree
  BY <1>10 DEF JoinAndFree
<1> QED BY <1>2, <1>3, <1>4, <1>5, <1>6, <1>7, <1>8, <1>9, <1>10 DEF Main

LEMMA WorkerEnd == IInv /\ WaitInv /\ EndInv /\ Worker => (WaitInv /\ EndInv)'
<1> SUFFICES ASSUME IInv, WaitInv, EndInv, Worker PROVE (WaitInv /\ EndInv)'
  OBVIOUS
<1>1. batch \in Nat /\ total \in Nat /\ waiting \subseteq {"main", "worker"}
  BY MaxBatchesType DEF IInv, TypeOK
<1> USE <1>1 DEF WaitInv, EndInv, InLoop, mainVars, flagVars, dataVars
<1>2. CASE OpenFile
  BY <1>2 DEF OpenFile
<1>3. CASE WorkerLock
  BY <1>3 DEF WorkerLock
<1>4. CASE WaitReady
  BY <1>4 DEF WaitReady, Sleep
<1>5. CASE CheckDone
  BY <1>5 DEF CheckDone
<1>6. CASE CopyInput \/ Chunk
  BY <1>6 DEF CopyInput, Chunk
<1>7. CASE RunKernel
  BY <1>7 DEF RunKernel
<1>8. CASE SetProcessed
  BY <1>8 DEF SetProcessed
<1>9. CASE WorkerNotify
  BY <1>9 DEF WorkerNotify, NotifyOne
<1>10. CASE CloseFile
  BY <1>10 DEF CloseFile
<1> QED BY <1>2, <1>3, <1>4, <1>5, <1>6, <1>7, <1>8, <1>9, <1>10 DEF Worker

LEMMA EndInvariant == Spec => [](WaitInv /\ EndInv)
<1>1. IInv /\ WaitInv /\ EndInv /\ [Next]_vars => (WaitInv /\ EndInv)'
  <2> SUFFICES ASSUME IInv, WaitInv, EndInv, [Next]_vars
               PROVE  (WaitInv /\ EndInv)'
    OBVIOUS
  <2>1. CASE UNCHANGED vars
    BY <2>1 DEF vars, mainVars, flagVars, dataVars, workerVars, WaitInv, EndInv
  <2>2. CASE SpuriousWakeup
    BY <2>2 DEF SpuriousWakeup, mainVars, flagVars, dataVars, workerVars,
       WaitInv, EndInv
  <2> QED BY <2>1, <2>2, MainEnd, WorkerEnd DEF Next, Ended
<1> QED BY <1>1, InitEnd, Invariant, PTL DEF Spec

\* When main has freed the buffers the worker is gone and the first batch is
\* in the file.
THEOREM ExitAfterFirstBatchHolds == Spec => []ExitAfterFirstBatch
<1>1. IInv /\ EndInv => ExitAfterFirstBatch
  BY DEF IInv, FirstInv, EndInv, ExitAfterFirstBatch
<1> QED BY <1>1, Invariant, EndInvariant, PTL

\* The program hangs only when there is at most one batch.
THEOREM HangsOnlyWithoutSecondBatchHolds == Spec => []HangsOnlyWithoutSecondBatch
<1>1. IInv /\ WaitInv /\ EndInv => HangsOnlyWithoutSecondBatch
  <2> SUFFICES ASSUME IInv, WaitInv, EndInv PROVE HangsOnlyWithoutSecondBatch
    OBVIOUS
  <2>1. batch \in Nat /\ total \in Nat
    BY MaxBatchesType DEF IInv, TypeOK
  <2>2. ASSUME workerPc \in {"close", "exit"}, ~processed PROVE total <= 1
    BY <2>1, <2>2 DEF EndInv, InLoop
  <2>3. ASSUME waiting = {"main", "worker"} PROVE total <= 1
    BY <2>1, <2>3 DEF WaitInv, EndInv, InLoop
  <2> QED BY <2>2, <2>3 DEF HangsOnlyWithoutSecondBatch
<1> QED BY <1>1, Invariant, EndInvariant, PTL
=============================================================================
