------------------------------ MODULE Handoff -------------------------------
(***************************************************************************)
(* What the two-thread host promises about its batches: a lossy register.  *)
(* The producer overwrites the register with the next batch, the consumer  *)
(* compresses whatever the register holds, any number of times.  A batch   *)
(* may be skipped or compressed again, but the consumer never goes back,   *)
(* and the first batch is compressed before it is overwritten.             *)
(***************************************************************************)
EXTENDS Naturals

CONSTANT MaxBatches

Batches == 1 .. MaxBatches

VARIABLES
  current,  \* the batch in the register, 0 before the first
  copies    \* how often each batch was compressed; 2 stands for 2 or more

handoffVars == <<current, copies>>

AtMostTwo(k) == IF k > 2 THEN 2 ELSE k

Init ==
  /\ current = 0
  /\ copies = [b \in Batches |-> 0]

Put ==
  /\ current < MaxBatches
  /\ current = 1 => copies[1] > 0
  /\ current' = current + 1
  /\ UNCHANGED copies

Take ==
  /\ current # 0
  /\ copies' = [copies EXCEPT ![current] = AtMostTwo(@ + 1)]
  /\ UNCHANGED current

Next == Put \/ Take

Spec == Init /\ [][Next]_handoffVars
=============================================================================
