------------------------- MODULE HashPipelineProofs -------------------------
(***************************************************************************)
(* Theorems about HashPipeline, for any number of windows, files, threads, *)
(* blocks and hash contexts.                                               *)
(***************************************************************************)
EXTENDS HashPipelineProps, FiniteSetTheorems, TLAPS

(***************************************************************************)
(* TypeOK is not inductive: that a step keeps the types depends on the     *)
(* thread having a task where it uses one.                                 *)
(***************************************************************************)
AtWork ==
  \A th \in Threads :
    /\ pc[th] \in TaskLabels \cup {"start"} => task[th] \in Tasks
    /\ pc[th] = "postProgress" => arg[th] \in Nat

TInv == TypeOK /\ AtWork

USE DEF Labels, TaskLabels, HashLabels, SoleLabels, WorkerLabels,
        DialogLabels, WindowLabels, Callers, Stages, Deleting, Goto, Hold,
        Work, Left, SetError

LEMMA TypeInit == Init => TInv
  BY PoolAssumption, CoordinatorAssumption, TaskAssumption
     DEF Init, PoolInit, CoordinatorInit, TaskInit, TInv, TypeOK, PoolTypeOK,
         CoordinatorTypeOK, TaskTypeOK,
         SystemTypeOK, ThreadTypeOK, DialogTypeOK, Data, Contexts, AtWork, Threads

(* The part of the bar that n of sizeTotal blocks stand for. *)
LEMMA PartIsNat ==
  ASSUME TypeOK, NEW c \in Coordinators, NEW n \in Nat, sizeTotal[c] # 0
  PROVE  Part(c, n) \in Nat
<1>1. n * Resolution \in Nat
  BY CoordinatorAssumption
<1>2. sizeTotal[c] \in Nat \ {0}
  BY DEF TypeOK, CoordinatorTypeOK
<1>3. QED
  BY <1>1, <1>2 DEF Part

LEMMA SendTyped ==
  ASSUME CoordinatorTypeOK(Threads), NEW c \in Coordinators, NEW m \in Message,
         Send(c, m)
  PROVE  inbox' \in [Coordinators -> Seq(Message)]
  BY DEF CoordinatorTypeOK, Send

LEMMA BlockSizeIsNat == \A t : BlockSize(t) \in Nat
  BY DEF BlockSize

LEMMA TypeStep == ASSUME TInv, [Next]_vars PROVE TInv'
<1>t. TypeOK /\ AtWork
  BY DEF TInv
<1>. USE <1>t DEF TypeOK
<1>. USE DEF taskVars, osVars, threadVars, poolVars, coordVars, dialogVars
<1>1. ASSUME NEW th \in Threads, ReadBlockFailed(th), UNCHANGED dialogVars
      PROVE  TInv'
  <2>1. th \in Threads /\ task[th] \in Tasks
    BY <1>1 DEF ReadBlockFailed, AtWork, Threads
  <2>2. PoolTypeOK'
    BY <1>1, <2>1 DEF ReadBlockFailed, FreeUnlessNull, BlockFree, PoolTypeOK
  <2>3. ThreadTypeOK(Labels)'
    BY <1>1, <2>1 DEF ReadBlockFailed, FreeUnlessNull, BlockFree, ThreadTypeOK
  <2>4. /\ CoordinatorTypeOK(Threads)' /\ TaskTypeOK'
        /\ SystemTypeOK' /\ DialogTypeOK'
    BY <1>1
       DEF ReadBlockFailed, CoordinatorTypeOK, TaskTypeOK, SystemTypeOK,
           DialogTypeOK
  <2>5. AtWork'
    BY <1>1, <2>1
       DEF ReadBlockFailed, AtWork, ThreadTypeOK, FreeUnlessNull, BlockFree
  <2>. QED
    BY <2>2, <2>3, <2>4, <2>5 DEF TInv, TypeOK
<1>2. ASSUME NEW th \in Threads, TryAllocate(th), UNCHANGED dialogVars
      PROVE  TInv'
  <2>1. th \in Threads /\ task[th] \in Tasks
    BY <1>2 DEF TryAllocate, AtWork, Threads
  <2>2. PoolTypeOK'
    BY <1>2, <2>1 DEF TryAllocate, Allocate, AllocateFails, PoolTypeOK
  <2>3. ThreadTypeOK(Labels)'
    BY <1>2, <2>1
       DEF TryAllocate, Allocate, AllocateFails, ThreadTypeOK, PoolTypeOK
  <2>4. /\ CoordinatorTypeOK(Threads)' /\ TaskTypeOK'
        /\ SystemTypeOK' /\ DialogTypeOK'
    BY <1>2
       DEF TryAllocate, Allocate, AllocateFails, CoordinatorTypeOK,
           TaskTypeOK, SystemTypeOK, DialogTypeOK
  <2>5. AtWork'
    BY <1>2, <2>1
       DEF TryAllocate, AtWork, ThreadTypeOK, Allocate, AllocateFails
  <2>. QED
    BY <2>2, <2>3, <2>4, <2>5 DEF TInv, TypeOK
<1>3. ASSUME NEW th \in Threads, AllocationGivenBack(th), UNCHANGED dialogVars
      PROVE  TInv'
  <2>1. th \in Threads /\ task[th] \in Tasks
    BY <1>3 DEF AllocationGivenBack, AtWork, Threads
  <2>2. PoolTypeOK'
    BY <1>3, <2>1 DEF AllocationGivenBack, GiveBack, PoolTypeOK
  <2>3. ThreadTypeOK(Labels)'
    BY <1>3, <2>1 DEF AllocationGivenBack, GiveBack, ThreadTypeOK
  <2>4. /\ CoordinatorTypeOK(Threads)' /\ TaskTypeOK'
        /\ SystemTypeOK' /\ DialogTypeOK'
    BY <1>3
       DEF AllocationGivenBack, CoordinatorTypeOK, TaskTypeOK, SystemTypeOK,
           DialogTypeOK
  <2>5. AtWork'
    BY <1>3, <2>1 DEF AllocationGivenBack, AtWork, ThreadTypeOK, GiveBack
  <2>. QED
    BY <2>2, <2>3, <2>4, <2>5 DEF TInv, TypeOK
<1>4. ASSUME NEW th \in Threads, StartRead(th), UNCHANGED dialogVars
      PROVE  TInv'
  <2>1. th \in Threads /\ task[th] \in Tasks
    BY <1>4 DEF StartRead, AtWork, Threads
  <2>2. TaskTypeOK'
    BY <1>4, <2>1 DEF StartRead, ReturnFromRead, TaskTypeOK, ThreadTypeOK
  <2>3. SystemTypeOK'
    BY <1>4, <2>1 DEF StartRead, ReturnFromRead, SystemTypeOK, ThreadTypeOK
  <2>4. ThreadTypeOK(Labels)'
    BY <1>4, <2>1 DEF StartRead, ReturnFromRead, ThreadTypeOK
  <2>5. PoolTypeOK' /\ CoordinatorTypeOK(Threads)' /\ DialogTypeOK'
    BY <1>4 DEF StartRead, PoolTypeOK, CoordinatorTypeOK, DialogTypeOK
  <2>6. AtWork'
    BY <1>4, <2>1 DEF StartRead, AtWork, ThreadTypeOK, ReturnFromRead
  <2>. QED
    BY <2>2, <2>3, <2>4, <2>5, <2>6 DEF TInv, TypeOK
<1>5. ASSUME NEW th \in Threads, StartReadFails(th), UNCHANGED dialogVars
      PROVE  TInv'
  <2>1. th \in Threads /\ task[th] \in Tasks
    BY <1>5 DEF StartReadFails, AtWork, Threads
  <2>2. PoolTypeOK'
    BY <1>5, <2>1 DEF StartReadFails, BlockFree, PoolTypeOK, ThreadTypeOK
  <2>3. error' \in [Tasks -> {"none", "failed", "cancelled"}]
    BY <1>5, <2>1 DEF StartReadFails, TaskTypeOK, ThreadTypeOK
  <2>4. TaskTypeOK'
    BY <1>5, <2>1, <2>3 DEF StartReadFails, TaskTypeOK, ThreadTypeOK
  <2>5. ThreadTypeOK(Labels)'
    BY <1>5, <2>1 DEF StartReadFails, BlockFree, ThreadTypeOK
  <2>6. CoordinatorTypeOK(Threads)' /\ SystemTypeOK' /\ DialogTypeOK'
    BY <1>5 DEF StartReadFails, CoordinatorTypeOK, SystemTypeOK, DialogTypeOK
  <2>7. AtWork'
    BY <1>5, <2>1 DEF StartReadFails, AtWork, ThreadTypeOK, BlockFree
  <2>. QED
    BY <2>2, <2>4, <2>5, <2>6, <2>7 DEF TInv, TypeOK
<1>6. ASSUME NEW th \in Threads, Enqueue(th), UNCHANGED dialogVars
      PROVE  TInv'
  <2>1. th \in Threads /\ task[th] \in Tasks
    BY <1>6 DEF Enqueue, AtWork, Threads
  <2>2. SystemTypeOK'
    BY <1>6, <2>1 DEF Enqueue, ReturnFromRead, SystemTypeOK
  <2>3. ThreadTypeOK(Labels)'
    BY <1>6, <2>1 DEF Enqueue, ReturnFromRead, ThreadTypeOK
  <2>4. /\ PoolTypeOK' /\ CoordinatorTypeOK(Threads)'
        /\ TaskTypeOK' /\ DialogTypeOK'
    BY <1>6
       DEF Enqueue, PoolTypeOK, CoordinatorTypeOK, TaskTypeOK, DialogTypeOK
  <2>5. AtWork'
    BY <1>6, <2>1 DEF Enqueue, AtWork, ThreadTypeOK, ReturnFromRead
  <2>. QED
    BY <2>2, <2>3, <2>4, <2>5 DEF TInv, TypeOK
<1>7. ASSUME NEW th \in Threads, Complete(th), UNCHANGED dialogVars
      PROVE  TInv'
  <2>1. th \in Threads /\ task[th] \in Tasks /\ Owner[task[th]] \in Coordinators
    BY <1>7, CoordinatorAssumption DEF Complete, AtWork, Threads
  <2>2. CoordinatorTypeOK(Threads)'
    <3>1. notFinished' \in [Coordinators -> Int]
      BY <1>7, <2>1 DEF Complete, CountDown, CoordinatorTypeOK
    <3>2. mutex' = mutex \/ mutex' = [mutex EXCEPT ![Owner[task[th]]] = th]
      BY <1>7 DEF Complete
    <3>3. mutex' \in [Coordinators -> Threads \cup {NoThread}]
      BY <2>1, <3>2 DEF CoordinatorTypeOK
    <3>. QED
      BY <1>7, <3>1, <3>3 DEF Complete, CoordinatorTypeOK
  <2>3. TaskTypeOK'
    BY <1>7, <2>1 DEF Complete, CountDown, TaskTypeOK
  <2>4. ThreadTypeOK(Labels)'
    BY <1>7, <2>1 DEF Complete, CountDown, ThreadTypeOK
  <2>5. PoolTypeOK' /\ SystemTypeOK' /\ DialogTypeOK'
    BY <1>7 DEF Complete, PoolTypeOK, SystemTypeOK, DialogTypeOK
  <2>6. AtWork'
    BY <1>7, <2>1 DEF Complete, AtWork, ThreadTypeOK, CountDown
  <2>. QED
    BY <2>2, <2>3, <2>4, <2>5, <2>6 DEF TInv, TypeOK
<1>8. ASSUME NEW th \in Threads, Notify(th), UNCHANGED dialogVars
      PROVE  TInv'
  <2>1. th \in Threads /\ task[th] \in Tasks /\ Owner[task[th]] \in Coordinators
    BY <1>8, CoordinatorAssumption DEF Notify, AtWork, Threads
  <2>2. AllFilesFinished \in Message
    BY <1>8, <2>1 DEF AllFilesFinished, Message, CoordinatorTypeOK
  <2>3. inbox' \in [Coordinators -> Seq(Message)]
    BY <1>8, <2>1, <2>2, SendTyped DEF Notify, CoordinatorTypeOK
  <2>4. CoordinatorTypeOK(Threads)'
    BY <1>8, <2>1, <2>2, <2>3 DEF Notify, CoordinatorTypeOK
  <2>5. ThreadTypeOK(Labels)'
    BY <1>8, <2>1 DEF Notify, Send, AllFilesFinished, Message, ThreadTypeOK
  <2>6. /\ PoolTypeOK' /\ TaskTypeOK'
        /\ SystemTypeOK' /\ DialogTypeOK'
    BY <1>8 DEF Notify, PoolTypeOK, TaskTypeOK, SystemTypeOK, DialogTypeOK
  <2>7. AtWork'
    BY <1>8, <2>1
       DEF Notify, AtWork, ThreadTypeOK, Send, AllFilesFinished, Message
  <2>. QED
    BY <2>4, <2>5, <2>6, <2>7 DEF TInv, TypeOK
<1>9. ASSUME NEW th \in Threads, FinishDereference(th), UNCHANGED dialogVars
      PROVE  TInv'
  <2>1. th \in Threads /\ task[th] \in Tasks /\ Owner[task[th]] \in Coordinators
    BY <1>9, CoordinatorAssumption DEF FinishDereference, AtWork, Threads
  <2>2. CoordinatorTypeOK(Threads)'
    BY <1>9, <2>1
       DEF FinishDereference, Dereference, ReturnFromRead, CoordinatorTypeOK
  <2>3. TaskTypeOK'
    BY <1>9, <2>1
       DEF FinishDereference, Dereference, ReturnFromRead, TaskTypeOK
  <2>4. ThreadTypeOK(Labels)'
    BY <1>9, <2>1
       DEF FinishDereference, Dereference, ReturnFromRead, ThreadTypeOK
  <2>5. PoolTypeOK' /\ SystemTypeOK' /\ DialogTypeOK'
    BY <1>9 DEF FinishDereference, PoolTypeOK, SystemTypeOK, DialogTypeOK
  <2>6. AtWork'
    BY <1>9, <2>1
       DEF FinishDereference, AtWork, ThreadTypeOK, Dereference,
           ReturnFromRead
  <2>. QED
    BY <2>2, <2>3, <2>4, <2>5, <2>6 DEF TInv, TypeOK
<1>10. ASSUME NEW w \in Workers, QueueEmpty(w), UNCHANGED dialogVars
      PROVE  TInv'
  <2>1. w \in Threads
    BY <1>10 DEF QueueEmpty, AtWork, Threads
  <2>2. PoolTypeOK'
    BY <1>10, <2>1 DEF QueueEmpty, FreeUnlessNull, BlockFree, PoolTypeOK
  <2>3. ThreadTypeOK(Labels)'
    BY <1>10, <2>1 DEF QueueEmpty, FreeUnlessNull, BlockFree, ThreadTypeOK
  <2>4. /\ CoordinatorTypeOK(Threads)' /\ TaskTypeOK'
        /\ SystemTypeOK' /\ DialogTypeOK'
    BY <1>10
       DEF QueueEmpty, FreeUnlessNull, BlockFree, CoordinatorTypeOK,
           TaskTypeOK, SystemTypeOK, DialogTypeOK
  <2>5. AtWork'
    BY <1>10, <2>1
       DEF QueueEmpty, AtWork, ThreadTypeOK, FreeUnlessNull, BlockFree
  <2>. QED
    BY <2>2, <2>3, <2>4, <2>5 DEF TInv, TypeOK
<1>11. ASSUME NEW w \in Workers, SubmitWork(w), UNCHANGED dialogVars
      PROVE  TInv'
  <2>1. w \in Threads /\ task[w] \in Tasks
    BY <1>11 DEF SubmitWork, AtWork, Threads
  <2>2. SystemTypeOK'
    BY <1>11, <2>1 DEF SubmitWork, SystemTypeOK
  <2>3. arg[w] - 1 \in Int
    BY <1>11, <2>1 DEF ThreadTypeOK
  <2>4. ThreadTypeOK(Labels)'
    BY <1>11, <2>1, <2>3 DEF SubmitWork, ThreadTypeOK
  <2>5. /\ PoolTypeOK' /\ CoordinatorTypeOK(Threads)'
        /\ TaskTypeOK' /\ DialogTypeOK'
    BY <1>11
       DEF SubmitWork, PoolTypeOK, CoordinatorTypeOK, TaskTypeOK, DialogTypeOK
  <2>6. AtWork'
    BY <1>11, <2>1 DEF SubmitWork, AtWork, ThreadTypeOK
  <2>. QED
    BY <2>2, <2>4, <2>5, <2>6 DEF TInv, TypeOK
<1>12. ASSUME NEW w \in Workers, Update(w), UNCHANGED dialogVars
      PROVE  TInv'
  <2>1. w \in Threads /\ task[w] \in Tasks
    BY <1>12 DEF Update, AtWork, Threads
  <2>2. BlockData(block[task[w]]) \in Data
    BY <2>1 DEF BlockData, Data, TaskTypeOK, SystemTypeOK
  <2>3. digest' \in [Tasks -> [Contexts -> Seq(Data)]]
    BY <1>12, <2>1, <2>2, TaskAssumption DEF Update, TaskTypeOK, ThreadTypeOK
  <2>4. TaskTypeOK'
    BY <1>12, <2>1, <2>2, <2>3 DEF Update, TaskTypeOK, ThreadTypeOK
  <2>5. ThreadTypeOK(Labels)'
    BY <1>12, <2>1 DEF Update, BlockData, Data, ThreadTypeOK
  <2>6. /\ PoolTypeOK' /\ CoordinatorTypeOK(Threads)'
        /\ SystemTypeOK' /\ DialogTypeOK'
    BY <1>12
       DEF Update, PoolTypeOK, CoordinatorTypeOK, SystemTypeOK, DialogTypeOK
  <2>7. AtWork'
    BY <1>12, <2>1 DEF Update, AtWork, ThreadTypeOK, BlockData, Data
  <2>. QED
    BY <2>4, <2>5, <2>6, <2>7 DEF TInv, TypeOK
<1>13. ASSUME NEW w \in Workers, FinishHash(w), UNCHANGED dialogVars
      PROVE  TInv'
  <2>1. w \in Threads /\ task[w] \in Tasks
    BY <1>13 DEF FinishHash, AtWork, Threads
  <2>2. PoolTypeOK' /\ CoordinatorTypeOK(Threads)' /\ SystemTypeOK'
    BY <1>13 DEF FinishHash, PoolTypeOK, CoordinatorTypeOK, SystemTypeOK
  <2>3. TaskTypeOK' /\ DialogTypeOK'
    <3>1. finishCounter' \in [Tasks -> Int]
      BY <1>13, <2>1 DEF FinishHash, TaskTypeOK
    <3>. QED
      BY <1>13, <3>1 DEF FinishHash, TaskTypeOK, DialogTypeOK
  <2>4. ThreadTypeOK(Labels)' /\ AtWork'
    <3>1. CASE LastOfRound(task[w])
      BY <1>13, <2>1, <3>1 DEF FinishHash, AtWork, ThreadTypeOK
    <3>2. CASE ~LastOfRound(task[w])
      BY <1>13, <2>1, <3>2 DEF FinishHash, AtWork, ThreadTypeOK
    <3>. QED
      BY <3>1, <3>2
  <2>. QED
    BY <2>2, <2>3, <2>4 DEF TInv, TypeOK
<1>14. ASSUME NEW w \in Workers, CountProgress(w), UNCHANGED dialogVars
      PROVE  TInv'
  <2>. DEFINE c == Owner[task[w]]
              n == BlockSize(task[w])
  <2>1. w \in Threads /\ task[w] \in Tasks /\ c \in Coordinators /\ n \in Nat
    BY <1>14, CoordinatorAssumption, BlockSizeIsNat
       DEF CountProgress, AtWork, Threads, TaskTypeOK
  <2>2. BarMoves(c, n) => Part(c, progressed[c] + n) \in Nat
    <3>1. progressed[c] \in Nat
      BY <2>1 DEF CoordinatorTypeOK
    <3>2. progressed[c] + n \in Nat
      BY <2>1, <3>1
    <3>. QED
      BY <2>1, <3>2, PartIsNat DEF BarMoves
  <2>. HIDE DEF c, n
  <2>3. progressed' = [progressed EXCEPT ![c] = IF sizeTotal[c] = 0 THEN @ ELSE @ + n]
    BY <1>14 DEF CountProgress, AddProgress, c, n
  <2>4. progressed' \in [Coordinators -> Nat]
    BY <2>1, <2>3 DEF CoordinatorTypeOK
  <2>5. PoolTypeOK' /\ CoordinatorTypeOK(Threads)'
    BY <1>14, <2>4 DEF CountProgress, PoolTypeOK, CoordinatorTypeOK
  <2>6. TaskTypeOK' /\ SystemTypeOK' /\ DialogTypeOK'
    BY <1>14 DEF CountProgress, TaskTypeOK, SystemTypeOK, DialogTypeOK
  <2>7. ThreadTypeOK(Labels)' /\ AtWork'
    <3>1. CASE BarMoves(c, n)
      <4>1. /\ pc' = [pc EXCEPT ![w] = "postProgress"]
            /\ arg' = [arg EXCEPT ![w] = Part(c, progressed[c] + n)]
            /\ UNCHANGED <<task, hand, from>>
        BY <1>14, <3>1 DEF CountProgress, c, n
      <4>. QED
        BY <2>1, <2>2, <3>1, <4>1 DEF AtWork, ThreadTypeOK
    <3>2. CASE ~BarMoves(c, n)
      <4>1. /\ pc' = [pc EXCEPT ![w] = "advance"]
            /\ UNCHANGED <<task, hand, from, arg>>
        BY <1>14, <3>2 DEF CountProgress, c, n
      <4>. QED
        BY <2>1, <4>1 DEF AtWork, ThreadTypeOK
    <3>. QED
      BY <3>1, <3>2
  <2>. QED
    BY <2>5, <2>6, <2>7 DEF TInv, TypeOK
<1>15. ASSUME NEW w \in Workers, SendProgress(w), UNCHANGED dialogVars
      PROVE  TInv'
  <2>1. w \in Threads /\ task[w] \in Tasks /\ Owner[task[w]] \in Coordinators
    BY <1>15, CoordinatorAssumption DEF SendProgress, AtWork, Threads
  <2>2. FileProgress(arg[w]) \in Message
    BY <1>15, <2>1
       DEF SendProgress, AtWork, FileProgress, Message, CoordinatorTypeOK
  <2>3. inbox' \in [Coordinators -> Seq(Message)]
    BY <1>15, <2>1, <2>2, SendTyped
       DEF SendProgress, PostProgress, CoordinatorTypeOK
  <2>4. CoordinatorTypeOK(Threads)'
    BY <1>15, <2>1, <2>2, <2>3 DEF SendProgress, CoordinatorTypeOK
  <2>5. ThreadTypeOK(Labels)'
    BY <1>15, <2>1
       DEF SendProgress, PostProgress, Send, FileProgress, Message,
           ThreadTypeOK
  <2>6. /\ PoolTypeOK' /\ TaskTypeOK'
        /\ SystemTypeOK' /\ DialogTypeOK'
    BY <1>15
       DEF SendProgress, PoolTypeOK, TaskTypeOK, SystemTypeOK, DialogTypeOK
  <2>7. AtWork'
    BY <1>15, <2>1
       DEF SendProgress, AtWork, ThreadTypeOK, PostProgress, Send,
           FileProgress, Message
  <2>. QED
    BY <2>4, <2>5, <2>6, <2>7 DEF TInv, TypeOK
<1>16. ASSUME NEW w \in Workers, Advance(w), UNCHANGED dialogVars
      PROVE  TInv'
  <2>1. w \in Threads /\ task[w] \in Tasks
    BY <1>16 DEF Advance, AtWork, Threads
  <2>2. BlockSize(task[w]) \in Nat
    BY <1>16, <2>1, BlockSizeIsNat DEF Advance, TaskTypeOK, ThreadTypeOK
  <2>3. error' \in [Tasks -> {"none", "failed", "cancelled"}]
    BY <1>16, <2>1, <2>2 DEF Advance, MarkCancelled, TaskTypeOK, ThreadTypeOK
  <2>4. offset' \in [Tasks -> Nat]
    BY <1>16, <2>1, <2>2, <2>3 DEF Advance, TaskTypeOK, ThreadTypeOK
  <2>5. block' \in [Tasks -> Blocks \cup {NoBlock}]
    BY <1>16, <2>1, <2>2, <2>3, <2>4 DEF Advance, TaskTypeOK, ThreadTypeOK
  <2>6. TaskTypeOK'
    BY <1>16, <2>1, <2>2, <2>3, <2>4, <2>5
       DEF Advance, TaskTypeOK, ThreadTypeOK
  <2>7. SystemTypeOK'
    BY <1>16, <2>1 DEF Advance, BlockReset, Data, SystemTypeOK
  <2>8. ThreadTypeOK(Labels)'
    <3>1. block[task[w]] \in Blocks \cup {NoBlock}
      BY <2>1 DEF TaskTypeOK
    <3>2. \/ pc' = [pc EXCEPT ![w] = "read"]
          \/ pc' = [pc EXCEPT ![w] = "complete"]
      BY <1>16 DEF Advance
    <3>3. pc' \in [Threads -> Labels]
      BY <2>1, <3>2 DEF ThreadTypeOK
    <3>4. hand' \in [Threads -> Blocks \cup {NoBlock}]
      BY <1>16, <2>1, <3>1 DEF Advance, ThreadTypeOK
    <3>5. UNCHANGED <<task, arg>> /\ from' \in [Threads -> Callers]
      BY <1>16, <2>1 DEF Advance, ThreadTypeOK
    <3>. QED
      BY <3>3, <3>4, <3>5 DEF ThreadTypeOK
  <2>9. PoolTypeOK' /\ CoordinatorTypeOK(Threads)' /\ DialogTypeOK'
    BY <1>16 DEF Advance, PoolTypeOK, CoordinatorTypeOK, DialogTypeOK
  <2>10. AtWork'
    BY <1>16, <2>1 DEF Advance, AtWork, ThreadTypeOK
  <2>. QED
    BY <2>6, <2>7, <2>8, <2>9, <2>10 DEF TInv, TypeOK
<1>17. ASSUME NEW w \in Workers, NEW t \in Tasks, Dequeue(w, t), UNCHANGED dialogVars
      PROVE  TInv'
  <2>1. w \in Threads
    BY <1>17 DEF Dequeue, AtWork, Threads
  <2>2. SystemTypeOK'
    BY <1>17, <2>1 DEF Dequeue, SystemTypeOK
  <2>3. ThreadTypeOK(Labels)'
    BY <1>17, <2>1 DEF Dequeue, ThreadTypeOK
  <2>4. /\ PoolTypeOK' /\ CoordinatorTypeOK(Threads)'
        /\ TaskTypeOK' /\ DialogTypeOK'
    BY <1>17
       DEF Dequeue, PoolTypeOK, CoordinatorTypeOK, TaskTypeOK, DialogTypeOK
  <2>5. AtWork'
    BY <1>17, <2>1 DEF Dequeue, AtWork, ThreadTypeOK
  <2>. QED
    BY <2>2, <2>3, <2>4, <2>5 DEF TInv, TypeOK
<1>18. ASSUME NEW w \in Workers, NEW t \in Tasks, ReadCompletedBadly(w, t), UNCHANGED dialogVars
      PROVE  TInv'
  <2>1. w \in Threads
    BY <1>18 DEF ReadCompletedBadly, AtWork, Threads
  <2>2. TaskTypeOK'
    BY <1>18, <2>1
       DEF ReadCompletedBadly, ReadArrives, BlockReset, Data, TaskTypeOK,
           ThreadTypeOK
  <2>3. pendingIo' \in [Tasks -> Nat]
    BY <1>18, <2>1
       DEF ReadCompletedBadly, ReadArrives, SystemTypeOK, ThreadTypeOK,
           TaskTypeOK
  <2>4. content' \in [Blocks -> Data]
    BY <1>18, <2>1, <2>3
       DEF ReadCompletedBadly, BlockReset, Data, SystemTypeOK, ThreadTypeOK,
           TaskTypeOK
  <2>5. SystemTypeOK'
    BY <1>18, <2>1, <2>3, <2>4
       DEF ReadCompletedBadly, SystemTypeOK, ThreadTypeOK, TaskTypeOK
  <2>6. ThreadTypeOK(Labels)'
    BY <1>18, <2>1
       DEF ReadCompletedBadly, ReadArrives, BlockReset, Data, ThreadTypeOK,
           TaskTypeOK
  <2>7. PoolTypeOK' /\ CoordinatorTypeOK(Threads)' /\ DialogTypeOK'
    BY <1>18
       DEF ReadCompletedBadly, PoolTypeOK, CoordinatorTypeOK, DialogTypeOK
  <2>8. AtWork'
    BY <1>18, <2>1
       DEF ReadCompletedBadly, AtWork, ThreadTypeOK, ReadArrives, BlockReset,
           Data
  <2>. QED
    BY <2>2, <2>5, <2>6, <2>7, <2>8 DEF TInv, TypeOK
<1>19. ASSUME NEW w \in Workers, NEW t \in Tasks, ReadCompleted(w, t), UNCHANGED dialogVars
      PROVE  TInv'
  <2>1. w \in Threads
    BY <1>19 DEF ReadCompleted, AtWork, Threads
  <2>2. TaskTypeOK'
    BY <1>19, <2>1 DEF ReadCompleted, TaskTypeOK
  <2>3. pendingIo' \in [Tasks -> Nat]
    BY <1>19, <2>1
       DEF ReadCompleted, ReadArrives, SystemTypeOK, ThreadTypeOK, TaskTypeOK
  <2>4. <<t, offset[t]>> \in Data
    BY <1>19, <2>1, <2>3 DEF Data, SystemTypeOK, ThreadTypeOK, TaskTypeOK
  <2>5. content' \in [Blocks -> Data]
    BY <1>19, <2>1, <2>3, <2>4
       DEF ReadCompleted, SystemTypeOK, ThreadTypeOK, TaskTypeOK
  <2>6. SystemTypeOK'
    BY <1>19, <2>1, TaskAssumption, <2>3, <2>4, <2>5
       DEF ReadCompleted, SystemTypeOK, ThreadTypeOK, TaskTypeOK
  <2>7. ThreadTypeOK(Labels)'
    BY <1>19, <2>1 DEF ReadCompleted, ThreadTypeOK
  <2>8. PoolTypeOK' /\ CoordinatorTypeOK(Threads)' /\ DialogTypeOK'
    BY <1>19 DEF ReadCompleted, PoolTypeOK, CoordinatorTypeOK, DialogTypeOK
  <2>9. AtWork'
    BY <1>19, <2>1 DEF ReadCompleted, AtWork, ThreadTypeOK
  <2>. QED
    BY <2>2, <2>6, <2>7, <2>8, <2>9 DEF TInv, TypeOK
<1>reset. ASSUME NEW w \in Workers, AddToHashQueue(w), UNCHANGED dialogVars
      PROVE  TInv'
  <2>1. w \in Threads /\ task[w] \in Tasks
    BY <1>reset DEF AddToHashQueue, AtWork, Threads
  <2>2. TaskTypeOK'
    BY <1>reset, <2>1, TaskAssumption DEF AddToHashQueue, ResetCounters, TaskTypeOK
  <2>3. ThreadTypeOK(Labels)'
    BY <1>reset, <2>1, TaskAssumption DEF AddToHashQueue, ThreadTypeOK
  <2>4. SystemTypeOK' /\ PoolTypeOK' /\ CoordinatorTypeOK(Threads)' /\ DialogTypeOK'
    BY <1>reset DEF AddToHashQueue, SystemTypeOK, PoolTypeOK, CoordinatorTypeOK, DialogTypeOK
  <2>5. AtWork'
    BY <1>reset, <2>1 DEF AddToHashQueue, AtWork, ThreadTypeOK
  <2>. QED
    BY <2>2, <2>3, <2>4, <2>5 DEF TInv, TypeOK
<1>20. ASSUME NEW w \in Workers, NEW t \in Tasks, BeginHash(w, t), UNCHANGED dialogVars
      PROVE  TInv'
  <2>1. w \in Threads
    BY <1>20 DEF BeginHash, AtWork, Threads
  <2>2. TaskTypeOK'
    BY <1>20, <2>1 DEF BeginHash, TaskTypeOK
  <2>3. SystemTypeOK'
    BY <1>20, <2>1 DEF BeginHash, SystemTypeOK, TaskTypeOK
  <2>4. ThreadTypeOK(Labels)'
    BY <1>20, <2>1 DEF BeginHash, ThreadTypeOK, TaskTypeOK
  <2>5. PoolTypeOK' /\ CoordinatorTypeOK(Threads)' /\ DialogTypeOK'
    BY <1>20 DEF BeginHash, PoolTypeOK, CoordinatorTypeOK, DialogTypeOK
  <2>6. AtWork'
    BY <1>20, <2>1 DEF BeginHash, AtWork, ThreadTypeOK
  <2>. QED
    BY <2>2, <2>3, <2>4, <2>5, <2>6 DEF TInv, TypeOK
<1>21. ASSUME NEW c \in Coordinators, RegisterWindow(c)
      PROVE  TInv'
  <2>1. c \in Threads
    BY <1>21 DEF RegisterWindow, AtWork, Threads
  <2>2. CoordinatorTypeOK(Threads)'
    BY <1>21, <2>1 DEF RegisterWindow, Reference, CoordinatorTypeOK
  <2>3. ThreadTypeOK(Labels)'
    BY <1>21, <2>1 DEF RegisterWindow, Reference, ThreadTypeOK
  <2>4. /\ PoolTypeOK' /\ TaskTypeOK'
        /\ SystemTypeOK' /\ DialogTypeOK'
    BY <1>21
       DEF RegisterWindow, PoolTypeOK, TaskTypeOK, SystemTypeOK, DialogTypeOK
  <2>5. AtWork'
    BY <1>21, <2>1 DEF RegisterWindow, AtWork, ThreadTypeOK, Reference
  <2>. QED
    BY <2>2, <2>3, <2>4, <2>5 DEF TInv, TypeOK
<1>22. ASSUME NEW c \in Coordinators, FilesAdded(c)
      PROVE  TInv'
  <2>1. c \in Threads
    BY <1>22 DEF FilesAdded, AtWork, Threads
  <2>2. ThreadTypeOK(Labels)'
    BY <1>22, <2>1 DEF FilesAdded, ThreadTypeOK
  <2>3. /\ PoolTypeOK' /\ CoordinatorTypeOK(Threads)'
        /\ TaskTypeOK' /\ SystemTypeOK' /\ DialogTypeOK'
    BY <1>22
       DEF FilesAdded, PoolTypeOK, CoordinatorTypeOK, TaskTypeOK,
           SystemTypeOK, DialogTypeOK
  <2>4. AtWork'
    BY <1>22, <2>1 DEF FilesAdded, AtWork, ThreadTypeOK
  <2>. QED
    BY <2>2, <2>3, <2>4 DEF TInv, TypeOK
<1>23. ASSUME NEW c \in Coordinators, NoFiles(c)
      PROVE  TInv'
  <2>1. c \in Threads
    BY <1>23 DEF NoFiles, AtWork, Threads
  <2>2. ThreadTypeOK(Labels)'
    BY <1>23, <2>1 DEF NoFiles, ListFiles, Owned, ThreadTypeOK
  <2>3. DialogTypeOK'
    BY <1>23, <2>1 DEF NoFiles, ListFiles, Owned, DialogTypeOK
  <2>4. /\ PoolTypeOK' /\ CoordinatorTypeOK(Threads)'
        /\ TaskTypeOK' /\ SystemTypeOK'
    BY <1>23
       DEF NoFiles, PoolTypeOK, CoordinatorTypeOK, TaskTypeOK, SystemTypeOK
  <2>5. AtWork'
    BY <1>23, <2>1 DEF NoFiles, AtWork, ThreadTypeOK, ListFiles, Owned
  <2>. QED
    BY <2>2, <2>3, <2>4, <2>5 DEF TInv, TypeOK
<1>24. ASSUME NEW c \in Coordinators, StartProcessing(c)
      PROVE  TInv'
  <2>1. c \in Threads /\ task[c] \in Tasks
    BY <1>24 DEF StartProcessing, AtWork, Threads
  <2>2. CoordinatorTypeOK(Threads)'
    BY <1>24, <2>1 DEF StartProcessing, Reference, CoordinatorTypeOK
  <2>3. TaskTypeOK'
    BY <1>24, <2>1 DEF StartProcessing, Reference, TaskTypeOK
  <2>4. ThreadTypeOK(Labels)'
    BY <1>24, <2>1 DEF StartProcessing, Reference, ThreadTypeOK
  <2>5. PoolTypeOK' /\ SystemTypeOK' /\ DialogTypeOK'
    BY <1>24 DEF StartProcessing, PoolTypeOK, SystemTypeOK, DialogTypeOK
  <2>6. AtWork'
    BY <1>24, <2>1 DEF StartProcessing, AtWork, ThreadTypeOK, Reference
  <2>. QED
    BY <2>2, <2>3, <2>4, <2>5, <2>6 DEF TInv, TypeOK
<1>25. ASSUME NEW c \in Coordinators, FilesStarted(c)
      PROVE  TInv'
  <2>1. c \in Threads
    BY <1>25 DEF FilesStarted, AtWork, Threads
  <2>2. ThreadTypeOK(Labels)'
    BY <1>25, <2>1 DEF FilesStarted, ThreadTypeOK
  <2>3. /\ PoolTypeOK' /\ CoordinatorTypeOK(Threads)'
        /\ TaskTypeOK' /\ SystemTypeOK' /\ DialogTypeOK'
    BY <1>25
       DEF FilesStarted, PoolTypeOK, CoordinatorTypeOK, TaskTypeOK,
           SystemTypeOK, DialogTypeOK
  <2>4. AtWork'
    BY <1>25, <2>1 DEF FilesStarted, AtWork, ThreadTypeOK
  <2>. QED
    BY <2>2, <2>3, <2>4 DEF TInv, TypeOK
<1>26. ASSUME NEW c \in Coordinators, NotifyOwnWindow(c)
      PROVE  TInv'
  <2>1. c \in Threads
    BY <1>26 DEF NotifyOwnWindow, AtWork, Threads
  <2>2. CoordinatorTypeOK(Threads)'
    BY <1>26, <2>1 DEF NotifyOwnWindow, ListFiles, Owned, CoordinatorTypeOK
  <2>3. ThreadTypeOK(Labels)'
    BY <1>26, <2>1 DEF NotifyOwnWindow, ListFiles, Owned, ThreadTypeOK
  <2>4. DialogTypeOK'
    BY <1>26, <2>1 DEF NotifyOwnWindow, ListFiles, Owned, DialogTypeOK
  <2>5. PoolTypeOK' /\ TaskTypeOK' /\ SystemTypeOK'
    BY <1>26 DEF NotifyOwnWindow, PoolTypeOK, TaskTypeOK, SystemTypeOK
  <2>6. AtWork'
    BY <1>26, <2>1 DEF NotifyOwnWindow, AtWork, ThreadTypeOK, ListFiles, Owned
  <2>. QED
    BY <2>2, <2>3, <2>4, <2>5, <2>6 DEF TInv, TypeOK
<1>27. ASSUME NEW c \in Coordinators, HandleFinished(c)
      PROVE  TInv'
  <2>1. c \in Threads
    BY <1>27 DEF HandleFinished, AtWork, Threads
  <2>2. CoordinatorTypeOK(Threads)'
    BY <1>27, <2>1 DEF HandleFinished, ListFiles, Owned, CoordinatorTypeOK
  <2>3. DialogTypeOK'
    BY <1>27, <2>1 DEF HandleFinished, ListFiles, Owned, DialogTypeOK
  <2>4. /\ PoolTypeOK' /\ TaskTypeOK'
        /\ SystemTypeOK' /\ ThreadTypeOK(Labels)'
    BY <1>27
       DEF HandleFinished, PoolTypeOK, TaskTypeOK, SystemTypeOK, ThreadTypeOK
  <2>5. AtWork'
    BY <1>27, <2>1 DEF HandleFinished, AtWork, ThreadTypeOK, ListFiles, Owned
  <2>. QED
    BY <2>2, <2>3, <2>4, <2>5 DEF TInv, TypeOK
<1>28. ASSUME NEW c \in Coordinators, HandleProgress(c)
      PROVE  TInv'
  <2>1. c \in Threads
    BY <1>28 DEF HandleProgress, AtWork, Threads
  <2>2. CoordinatorTypeOK(Threads)'
    BY <1>28, <2>1 DEF HandleProgress, Message, CoordinatorTypeOK
  <2>3. Head(inbox[c]) \in Message
    BY <1>28, <2>1 DEF HandleProgress, DialogTypeOK, CoordinatorTypeOK
  <2>4. DialogTypeOK'
    <3>1. Head(inbox[c]).part \in Nat
      BY <2>3 DEF Message
    <3>. QED
      BY <1>28, <2>1, <3>1 DEF HandleProgress, DialogTypeOK
  <2>5. /\ PoolTypeOK' /\ TaskTypeOK'
        /\ SystemTypeOK' /\ ThreadTypeOK(Labels)'
    BY <1>28
       DEF HandleProgress, PoolTypeOK, TaskTypeOK, SystemTypeOK, ThreadTypeOK
  <2>6. AtWork'
    BY <1>28, <2>1 DEF HandleProgress, AtWork, ThreadTypeOK, Message
  <2>. QED
    BY <2>2, <2>4, <2>5, <2>6 DEF TInv, TypeOK
<1>29. ASSUME NEW c \in Coordinators, CancelReturns(c)
      PROVE  TInv'
  <2>1. c \in Threads
    BY <1>29 DEF CancelReturns, AtWork, Threads
  <2>2. ThreadTypeOK(Labels)'
    BY <1>29, <2>1 DEF CancelReturns, ThreadTypeOK
  <2>3. /\ PoolTypeOK' /\ CoordinatorTypeOK(Threads)'
        /\ TaskTypeOK' /\ SystemTypeOK' /\ DialogTypeOK'
    BY <1>29
       DEF CancelReturns, PoolTypeOK, CoordinatorTypeOK, TaskTypeOK,
           SystemTypeOK, DialogTypeOK
  <2>4. AtWork'
    BY <1>29, <2>1 DEF CancelReturns, AtWork, ThreadTypeOK
  <2>. QED
    BY <2>2, <2>3, <2>4 DEF TInv, TypeOK
<1>30. ASSUME NEW c \in Coordinators, UnregisterWindow(c)
      PROVE  TInv'
  <2>1. c \in Threads
    BY <1>30 DEF UnregisterWindow, AtWork, Threads
  <2>2. CoordinatorTypeOK(Threads)'
    BY <1>30, <2>1 DEF UnregisterWindow, CoordinatorTypeOK
  <2>3. ThreadTypeOK(Labels)'
    BY <1>30, <2>1 DEF UnregisterWindow, ThreadTypeOK
  <2>4. /\ PoolTypeOK' /\ TaskTypeOK'
        /\ SystemTypeOK' /\ DialogTypeOK'
    BY <1>30
       DEF UnregisterWindow, PoolTypeOK, TaskTypeOK, SystemTypeOK,
           DialogTypeOK
  <2>5. AtWork'
    BY <1>30, <2>1 DEF UnregisterWindow, AtWork, ThreadTypeOK
  <2>. QED
    BY <2>2, <2>3, <2>4, <2>5 DEF TInv, TypeOK
<1>31. ASSUME NEW c \in Coordinators, WindowDereference(c)
      PROVE  TInv'
  <2>1. c \in Threads
    BY <1>31 DEF WindowDereference, AtWork, Threads
  <2>2. CoordinatorTypeOK(Threads)'
    BY <1>31, <2>1 DEF WindowDereference, Dereference, CoordinatorTypeOK
  <2>3. ThreadTypeOK(Labels)'
    BY <1>31, <2>1 DEF WindowDereference, Dereference, ThreadTypeOK
  <2>4. /\ PoolTypeOK' /\ TaskTypeOK'
        /\ SystemTypeOK' /\ DialogTypeOK'
    BY <1>31
       DEF WindowDereference, PoolTypeOK, TaskTypeOK, SystemTypeOK,
           DialogTypeOK
  <2>5. AtWork'
    BY <1>31, <2>1 DEF WindowDereference, AtWork, ThreadTypeOK, Dereference
  <2>. QED
    BY <2>2, <2>3, <2>4, <2>5 DEF TInv, TypeOK
<1>32. ASSUME NEW c \in Coordinators, CancelClicked(c)
      PROVE  TInv'
  <2>1. c \in Threads
    BY <1>32 DEF CancelClicked, AtWork, Threads
  <2>2. TaskTypeOK'
    BY <1>32, <2>1 DEF CancelClicked, CancelFiles, TaskTypeOK
  <2>3. ThreadTypeOK(Labels)'
    BY <1>32, <2>1 DEF CancelClicked, CancelFiles, ThreadTypeOK
  <2>4. /\ PoolTypeOK' /\ CoordinatorTypeOK(Threads)'
        /\ SystemTypeOK' /\ DialogTypeOK'
    BY <1>32
       DEF CancelClicked, PoolTypeOK, CoordinatorTypeOK, SystemTypeOK,
           DialogTypeOK
  <2>5. AtWork'
    BY <1>32, <2>1 DEF CancelClicked, AtWork, ThreadTypeOK, CancelFiles
  <2>. QED
    BY <2>2, <2>3, <2>4, <2>5 DEF TInv, TypeOK
<1>33. ASSUME NEW c \in Coordinators, Close(c)
      PROVE  TInv'
  <2>1. c \in Threads
    BY <1>33 DEF Close, AtWork, Threads
  <2>2. TaskTypeOK'
    BY <1>33, <2>1 DEF Close, CancelFiles, TaskTypeOK
  <2>3. ThreadTypeOK(Labels)'
    BY <1>33, <2>1 DEF Close, CancelFiles, ThreadTypeOK
  <2>4. /\ PoolTypeOK' /\ CoordinatorTypeOK(Threads)'
        /\ SystemTypeOK' /\ DialogTypeOK'
    BY <1>33
       DEF Close, PoolTypeOK, CoordinatorTypeOK, SystemTypeOK, DialogTypeOK
  <2>5. AtWork'
    BY <1>33, <2>1 DEF Close, AtWork, ThreadTypeOK, CancelFiles
  <2>. QED
    BY <2>2, <2>3, <2>4, <2>5 DEF TInv, TypeOK
<1>34. ASSUME NEW c \in Coordinators, DeleteBegins(c)
      PROVE  TInv'
  <2>1. c \in Threads
    BY <1>34 DEF DeleteBegins, AtWork, Threads
  <2>2. TaskTypeOK'
    BY <1>34, <2>1 DEF DeleteBegins, CancelFiles, TaskTypeOK
  <2>3. DialogTypeOK'
    BY <1>34, <2>1 DEF DeleteBegins, CancelFiles, DialogTypeOK
  <2>4. /\ PoolTypeOK' /\ CoordinatorTypeOK(Threads)'
        /\ SystemTypeOK' /\ ThreadTypeOK(Labels)'
    BY <1>34
       DEF DeleteBegins, PoolTypeOK, CoordinatorTypeOK, SystemTypeOK,
           ThreadTypeOK
  <2>5. AtWork'
    BY <1>34, <2>1 DEF DeleteBegins, AtWork, ThreadTypeOK, CancelFiles
  <2>. QED
    BY <2>2, <2>3, <2>4, <2>5 DEF TInv, TypeOK
<1>35. ASSUME NEW c \in Coordinators, FilesCancelled(c)
      PROVE  TInv'
  <2>1. c \in Threads
    BY <1>35 DEF FilesCancelled, AtWork, Threads
  <2>2. DialogTypeOK'
    BY <1>35, <2>1 DEF FilesCancelled, DialogTypeOK
  <2>3. /\ PoolTypeOK' /\ CoordinatorTypeOK(Threads)'
        /\ TaskTypeOK' /\ SystemTypeOK' /\ ThreadTypeOK(Labels)'
    BY <1>35
       DEF FilesCancelled, PoolTypeOK, CoordinatorTypeOK, TaskTypeOK,
           SystemTypeOK, ThreadTypeOK
  <2>4. AtWork'
    BY <1>35, <2>1 DEF FilesCancelled, AtWork, ThreadTypeOK
  <2>. QED
    BY <2>2, <2>3, <2>4 DEF TInv, TypeOK
<1>36. ASSUME NEW c \in Coordinators, Deleted(c)
      PROVE  TInv'
  <2>1. c \in Threads
    BY <1>36 DEF Deleted, AtWork, Threads
  <2>2. DialogTypeOK'
    BY <1>36, <2>1 DEF Deleted, DialogTypeOK
  <2>3. /\ PoolTypeOK' /\ CoordinatorTypeOK(Threads)'
        /\ TaskTypeOK' /\ SystemTypeOK' /\ ThreadTypeOK(Labels)'
    BY <1>36
       DEF Deleted, PoolTypeOK, CoordinatorTypeOK, TaskTypeOK, SystemTypeOK,
           ThreadTypeOK
  <2>4. AtWork'
    BY <1>36, <2>1 DEF Deleted, AtWork, ThreadTypeOK
  <2>. QED
    BY <2>2, <2>3, <2>4 DEF TInv, TypeOK
<1>37. ASSUME NEW c \in Coordinators, NEW t \in Tasks, AddFile(c, t)
      PROVE  TInv'
  <2>1. PICK n \in Sizes \cup {0} :
          /\ \/ n \in Sizes /\ UNCHANGED error
             \/ "open" \in Faults /\ SetError(t, "failed")
          /\ size' = [size EXCEPT ![t] = n]
          /\ sizeTotal' = [sizeTotal EXCEPT ![c] = @ + n]
    BY <1>37 DEF AddFile
  <2>2. n \in Nat
    BY SizesAssumption
  <2>3. error' \in [Tasks -> {"none", "failed", "cancelled"}]
    BY <2>1 DEF TaskTypeOK
  <2>4. TaskTypeOK'
    BY <1>37, <2>1, <2>2, <2>3 DEF AddFile, TaskTypeOK
  <2>5. sizeTotal' \in [Coordinators -> Nat]
    BY <2>1, <2>2 DEF CoordinatorTypeOK
  <2>6. PoolTypeOK' /\ CoordinatorTypeOK(Threads)'
    BY <1>37, <2>5 DEF AddFile, PoolTypeOK, CoordinatorTypeOK
  <2>7. SystemTypeOK' /\ ThreadTypeOK(Labels)'
    BY <1>37 DEF AddFile, SystemTypeOK, ThreadTypeOK
  <2>8. AtWork'
    BY <1>37 DEF AddFile, AtWork
  <2>9. DialogTypeOK'
    BY <1>37 DEF AddFile, DialogTypeOK
  <2>. QED
    BY <2>4, <2>6, <2>7, <2>8, <2>9 DEF TInv, TypeOK
<1>38. ASSUME NEW c \in Coordinators, NEW t \in Tasks, CountFile(c, t)
      PROVE  TInv'
  <2>1. c \in Threads
    BY <1>38 DEF CountFile, AtWork, Threads
  <2>2. CoordinatorTypeOK(Threads)'
    BY <1>38, <2>1 DEF CountFile, CoordinatorTypeOK
  <2>3. TaskTypeOK'
    BY <1>38, <2>1 DEF CountFile, TaskTypeOK
  <2>4. ThreadTypeOK(Labels)'
    BY <1>38, <2>1 DEF CountFile, ThreadTypeOK
  <2>5. DialogTypeOK'
    BY <1>38, <2>1 DEF CountFile, DialogTypeOK
  <2>6. PoolTypeOK' /\ SystemTypeOK'
    BY <1>38 DEF CountFile, PoolTypeOK, SystemTypeOK
  <2>7. AtWork'
    BY <1>38, <2>1 DEF CountFile, AtWork, ThreadTypeOK
  <2>. QED
    BY <2>2, <2>3, <2>4, <2>5, <2>6, <2>7 DEF TInv, TypeOK
<1>39. CASE UNCHANGED vars
  BY <1>39 DEF vars, AtWork, TInv, PoolTypeOK, CoordinatorTypeOK, TaskTypeOK,
                SystemTypeOK, ThreadTypeOK, DialogTypeOK
<1>. QED
  BY <1>1, <1>2, <1>3, <1>4, <1>5, <1>6, <1>7, <1>8, <1>9, <1>10, <1>11,
     <1>12, <1>13, <1>14, <1>15, <1>16, <1>17, <1>18, <1>19, <1>20, <1>21,
     <1>22, <1>23, <1>24, <1>25, <1>26, <1>27, <1>28, <1>29, <1>30, <1>31,
     <1>32, <1>33, <1>34, <1>35, <1>36, <1>37, <1>38, <1>39, <1>reset
     DEF Next, WorkerStep, TaskStep, CallbackStep, DialogStep, UserStep,
         DeleteStep, Terminated, Threads

(* Every variable keeps its type, whatever the threads do.                 *)
THEOREM TypeCorrect == Spec => []TypeOK
<1>1. TInv => TypeOK
  BY DEF TInv
<1>2. QED
  BY <1>1, TypeInit, TypeStep, PTL DEF Spec
-----------------------------------------------------------------------------
(***************************************************************************)
(* A running file is in one place at a time, and its finish counter counts *)
(* the work items of its round, for any number of windows, files, threads  *)
(* and contexts.                                                           *)
(*                                                                         *)
(* The two facts need each other.  A work item that finds the counter at   *)
(* zero takes the file over, so nobody else may be in it, which is so if   *)
(* the counter was right; and the counter, which is reset by the I/O       *)
(* callback, stays right only if no work item of an earlier round is left. *)
(*                                                                         *)
(* From this follows what no step may do: hash a block more of a file that *)
(* was cancelled, replace an error, or change a file that is finished; for *)
(* a file that a thread works on is running (WorkedOn).                    *)
(***************************************************************************)
(* Files are started once, by the thread of their own coordinator. *)
Waiting ==
  \A c \in Coordinators :
    /\ \A t \in todo[c] : Owner[t] = c /\ stage[t] = "new"
    /\ pc[c] \in {"register", "addFiles"} =>
         \A t \in Tasks : Owner[t] = c => stage[t] = "new"
    /\ pc[c] = "start" => Owner[task[c]] = c /\ stage[task[c]] = "counted"

Submitting ==
  \A th \in Threads : pc[th] = "submit" => arg[th] \in 1 .. HashCount

OwnerInv == OneOwner /\ RoundCounted /\ Waiting /\ Submitting

(* The step leaves every place of t, and its round, as they are.           *)
Unmoved(t) ==
  /\ Sole(t)' = Sole(t)
  /\ Hashing(t)' = Hashing(t)
  /\ Unsubmitted(t)' = Unsubmitted(t)
  /\ UNCHANGED <<readQueue[t], pendingIo[t], pendingWork[t], finishCounter[t]>>
  /\ Running(t)' = Running(t)

(* What is wanted of t after the step.                                     *)
InPlace(t) ==
  /\ Places(t)' = Indicator(Running(t))'
  /\ finishCounter'[t] = ItemsLeft(t)'

LEMMA SetsFinite ==
  \A t \in Tasks :
    /\ IsFiniteSet(Sole(t)) /\ Cardinality(Sole(t)) \in Nat
    /\ IsFiniteSet(Hashing(t)) /\ Cardinality(Hashing(t)) \in Nat
    /\ IsFiniteSet(Unsubmitted(t)) /\ Cardinality(Unsubmitted(t)) \in Nat
<1>1. IsFiniteSet(Threads)
  BY CoordinatorAssumption, TaskAssumption, FS_Union DEF Threads
<1>0. IsFiniteSet(1 .. HashCount)
  BY TaskAssumption, FS_Interval
<1>2. IsFiniteSet(Threads \X (1 .. HashCount))
  BY <1>1, <1>0, FS_Product
<1>. SUFFICES ASSUME NEW t \in Tasks
     PROVE  /\ IsFiniteSet(Sole(t)) /\ IsFiniteSet(Hashing(t))
            /\ IsFiniteSet(Unsubmitted(t))
  BY FS_CardinalityType
<1>3. Sole(t) \in SUBSET Threads /\ Hashing(t) \in SUBSET Threads
  BY DEF Sole, Hashing
<1>4. Unsubmitted(t) \in SUBSET (Threads \X (1 .. HashCount))
  BY DEF Unsubmitted
<1>. QED
  BY <1>1, <1>2, <1>3, <1>4, FS_Subset

LEMMA OwnerInit == Init => OwnerInv
<1>. SUFFICES ASSUME Init PROVE OwnerInv
  OBVIOUS
<1>1. \A t \in Tasks : Sole(t) = {} /\ Hashing(t) = {} /\ Unsubmitted(t) = {}
  BY DEF Init, Sole, Hashing, Unsubmitted, Threads
<1>0. Cardinality({}) = 0
  BY FS_EmptySet
<1>2. \A t \in Tasks : /\ readQueue[t] = 0 /\ pendingIo[t] = 0
                       /\ pendingWork[t] = 0 /\ finishCounter[t] = 0
                       /\ ~Running(t)
  BY DEF Init, TaskInit, Running
<1>3. OneOwner /\ RoundCounted
  <2>. SUFFICES ASSUME NEW t \in Tasks
       PROVE  /\ Places(t) = Indicator(Running(t))
              /\ finishCounter[t] = ItemsLeft(t)
    BY DEF OneOwner, RoundCounted
  <2>1. Places(t) = 0
    BY <1>0, <1>1, <1>2 DEF Places, Indicator
  <2>2. ItemsLeft(t) = 0
    BY <1>0, <1>1, <1>2 DEF ItemsLeft
  <2>. QED
    BY <1>2, <2>1, <2>2 DEF Indicator
<1>4. Waiting /\ Submitting
  BY TaskAssumption DEF Init, TaskInit, Waiting, Submitting, Threads
<1>. QED
  BY <1>3, <1>4 DEF OwnerInv

(* The types of what is counted. *)
LEMMA CountTypes ==
  ASSUME TypeOK, NEW t \in Tasks
  PROVE  /\ readQueue[t] \in Nat /\ pendingIo[t] \in Nat
         /\ pendingWork[t] \in Nat
         /\ finishCounter[t] \in Int
         /\ HashCount \in Nat \ {0}
  BY TaskAssumption DEF TypeOK, TaskTypeOK, SystemTypeOK

(* What it means for a file that one thread is in it.                      *)
LEMMA AloneMeans ==
  ASSUME TypeOK, OneOwner, RoundCounted, NEW t \in Tasks, Sole(t) # {}
  PROVE  /\ Running(t) /\ Cardinality(Sole(t)) = 1
         /\ readQueue[t] = 0 /\ pendingIo[t] = 0 /\ pendingWork[t] = 0
         /\ finishCounter[t] = 0 /\ Hashing(t) = {} /\ Unsubmitted(t) = {}
<1>1. Cardinality(Sole(t)) # 0
  BY SetsFinite, FS_EmptySet
<1>2. /\ Running(t) /\ Cardinality(Sole(t)) = 1
      /\ readQueue[t] = 0 /\ pendingIo[t] = 0 /\ ~(finishCounter[t] > 0)
  BY <1>1, SetsFinite, CountTypes DEF OneOwner, Places, Indicator
<1>3. /\ finishCounter[t] = 0 /\ pendingWork[t] = 0
      /\ Cardinality(Hashing(t)) = 0 /\ Cardinality(Unsubmitted(t)) = 0
  BY <1>2, SetsFinite, CountTypes DEF RoundCounted, ItemsLeft
<1>. QED
  BY <1>2, <1>3, SetsFinite, FS_EmptySet

(* What it means that a read is pending or the file is queued.             *)
LEMMA PendingMeans ==
  ASSUME TypeOK, OneOwner, RoundCounted, NEW t \in Tasks,
         pendingIo[t] > 0 \/ readQueue[t] > 0
  PROVE  /\ Running(t) /\ readQueue[t] + pendingIo[t] = 1 /\ Sole(t) = {}
         /\ finishCounter[t] = 0 /\ pendingWork[t] = 0
         /\ Hashing(t) = {} /\ Unsubmitted(t) = {}
<1>1. /\ Running(t) /\ readQueue[t] + pendingIo[t] = 1
      /\ Cardinality(Sole(t)) = 0 /\ ~(finishCounter[t] > 0)
  BY SetsFinite, CountTypes DEF OneOwner, Places, Indicator
<1>2. /\ finishCounter[t] = 0 /\ pendingWork[t] = 0
      /\ Cardinality(Hashing(t)) = 0 /\ Cardinality(Unsubmitted(t)) = 0
  BY <1>1, SetsFinite, CountTypes DEF RoundCounted, ItemsLeft
<1>. QED
  BY <1>1, <1>2, SetsFinite, FS_EmptySet

(* A thread enters or leaves a file; a work item begins or ends; one is    *)
(* submitted.                                                              *)
LEMMA OneMore ==
  ASSUME NEW S, IsFiniteSet(S), NEW x
  PROVE  /\ x \notin S => Cardinality(S \cup {x}) = Cardinality(S) + 1
         /\ x \in S => Cardinality(S \ {x}) = Cardinality(S) - 1
  BY FS_AddElement, FS_RemoveElement

LEMMA OwnerStep == ASSUME TInv, OwnerInv, [Next]_vars PROVE OwnerInv'
<1>t. TypeOK /\ AtWork /\ ThreadTypeOK(Labels) /\ TaskTypeOK /\ SystemTypeOK
  BY DEF TInv, TypeOK
<1>p. /\ pc \in [Threads -> Labels]
      /\ Workers \subseteq Threads /\ Coordinators \subseteq Threads
      /\ Workers \cap Coordinators = {} /\ NoTask \notin Tasks
  BY <1>t, TaskAssumption DEF ThreadTypeOK, Threads
<1>o. OneOwner /\ RoundCounted /\ Waiting /\ Submitting
  BY DEF OwnerInv
<1>. USE DEF taskVars, osVars, threadVars, poolVars, coordVars, dialogVars
<1>u. ASSUME NEW t \in Tasks, Unmoved(t)
      PROVE  InPlace(t)
  BY <1>u, <1>o
     DEF Unmoved, InPlace, OneOwner, RoundCounted, Places, ItemsLeft, Indicator
<1>all. ASSUME \A t \in Tasks : Unmoved(t) \/ InPlace(t)
        PROVE  OneOwner' /\ RoundCounted'
  BY <1>all, <1>u DEF InPlace, OneOwner, RoundCounted
<1>wait. ASSUME UNCHANGED <<todo, stage>>,
                \A c \in Coordinators :
                  /\ pc'[c] \in {"register", "addFiles"} =>
                       pc[c] \in {"register", "addFiles"}
                  /\ pc'[c] = "start" => pc[c] = "start" /\ task'[c] = task[c]
         PROVE  Waiting'
  BY <1>wait, <1>o DEF Waiting
<1>sub. ASSUME \A th \in Threads : pc'[th] = "submit" =>
                 pc[th] = "submit" /\ arg'[th] = arg[th]
        PROVE  Submitting'
  BY <1>sub, <1>o DEF Submitting
<1>1. ASSUME NEW th \in Threads, ReadBlockFailed(th), UNCHANGED dialogVars
      PROVE  OwnerInv'
  <2>1. th \in Threads /\ task[th] \in Tasks
    BY <1>1, <1>t, <1>p DEF ReadBlockFailed, AtWork
  <2>2. OneOwner' /\ RoundCounted'
    <3>1. \A u \in Tasks : Unmoved(u)
      BY <1>1, <1>p, <1>t, <2>1
         DEF ReadBlockFailed, Unmoved, Sole, Hashing, Unsubmitted, Running,
             ThreadTypeOK
    <3>. QED
      BY <3>1, <1>all
  <2>3. Waiting'
    BY <1>1, <1>p, <1>t, <2>1, <1>wait DEF ReadBlockFailed, ThreadTypeOK
  <2>4. Submitting'
    BY <1>1, <1>p, <1>t, <2>1, <1>sub DEF ReadBlockFailed, ThreadTypeOK
  <2>. QED
    BY <2>2, <2>3, <2>4 DEF OwnerInv
<1>2. ASSUME NEW th \in Threads, TryAllocate(th), UNCHANGED dialogVars
      PROVE  OwnerInv'
  <2>1. th \in Threads /\ task[th] \in Tasks
    BY <1>2, <1>t, <1>p DEF TryAllocate, AtWork
  <2>2. OneOwner' /\ RoundCounted'
    <3>1. \A u \in Tasks : Unmoved(u)
      BY <1>2, <1>p, <1>t, <2>1
         DEF TryAllocate, Unmoved, Sole, Hashing, Unsubmitted, Running,
             ThreadTypeOK
    <3>. QED
      BY <3>1, <1>all
  <2>3. Waiting'
    BY <1>2, <1>p, <1>t, <2>1, <1>wait DEF TryAllocate, ThreadTypeOK
  <2>4. Submitting'
    BY <1>2, <1>p, <1>t, <2>1, <1>sub DEF TryAllocate, ThreadTypeOK
  <2>. QED
    BY <2>2, <2>3, <2>4 DEF OwnerInv
<1>3. ASSUME NEW th \in Threads, AllocationGivenBack(th), UNCHANGED dialogVars
      PROVE  OwnerInv'
  <2>1. th \in Threads /\ task[th] \in Tasks
    BY <1>3, <1>t, <1>p DEF AllocationGivenBack, AtWork
  <2>2. OneOwner' /\ RoundCounted'
    <3>1. \A u \in Tasks : Unmoved(u)
      BY <1>3, <1>p, <1>t, <2>1
         DEF AllocationGivenBack, Unmoved, Sole, Hashing, Unsubmitted, Running,
             ThreadTypeOK
    <3>. QED
      BY <3>1, <1>all
  <2>3. Waiting'
    BY <1>3, <1>p, <1>t, <2>1, <1>wait DEF AllocationGivenBack, ThreadTypeOK
  <2>4. Submitting'
    BY <1>3, <1>p, <1>t, <2>1, <1>sub DEF AllocationGivenBack, ThreadTypeOK
  <2>. QED
    BY <2>2, <2>3, <2>4 DEF OwnerInv
<1>4. ASSUME NEW th \in Threads, StartRead(th), UNCHANGED dialogVars
      PROVE  OwnerInv'
  <2>1. th \in Threads /\ task[th] \in Tasks
    BY <1>4, <1>t, <1>p DEF StartRead, AtWork
  <2>t. PICK t \in Tasks : t = task[th]
    BY <2>1
  <2>2. /\ th \in Sole(t) /\ Running(t)
        /\ Cardinality(Sole(t)) = 1
        /\ readQueue[t] = 0 /\ pendingIo[t] = 0
        /\ pendingWork[t] = 0 /\ finishCounter[t] = 0
        /\ Hashing(t) = {} /\ Unsubmitted(t) = {}
    <3>1. th \in Sole(t)
      BY <1>4, <2>1, <2>t DEF StartRead, Sole
    <3>. QED
      BY <2>1, <2>t, <3>1, <1>t, <1>o, AloneMeans
  <2>3. /\ Sole(t)' = Sole(t) \ {th}
        /\ Hashing(t)' = {} /\ Unsubmitted(t)' = {}
    BY <1>4, <1>p, <1>t, <2>1, <2>t, <2>2
       DEF StartRead, ReturnFromRead, Sole, Hashing, Unsubmitted, ThreadTypeOK
  <2>4. Cardinality(Sole(t)') = 0
    BY <2>1, <2>t, <2>2, <2>3, SetsFinite, OneMore
  <2>5. InPlace(t)
    BY <1>4, <1>t, <2>1, <2>t, <2>2, <2>3, <2>4, FS_EmptySet
       DEF StartRead, InPlace, Places, ItemsLeft, Running, Indicator,
           TaskTypeOK, SystemTypeOK
  <2>6. \A u \in Tasks \ {t} : Unmoved(u)
    <3>1. \A u \in Tasks \ {t} :
            /\ Sole(u)' = Sole(u) /\ Hashing(u)' = Hashing(u)
            /\ Unsubmitted(u)' = Unsubmitted(u)
      BY <1>4, <1>p, <1>t, <2>1, <2>t
         DEF StartRead, ReturnFromRead, Sole, Hashing, Unsubmitted,
             ThreadTypeOK
    <3>. QED
      BY <1>4, <1>p, <1>t, <2>1, <2>t, <3>1
         DEF StartRead, ReturnFromRead, Unmoved, Running, TaskTypeOK,
             SystemTypeOK
  <2>7. OneOwner' /\ RoundCounted'
    BY <2>5, <2>6, <1>all
  <2>8. Waiting'
    BY <1>4, <1>p, <1>t, <2>1, <1>wait
       DEF StartRead, ReturnFromRead, ThreadTypeOK
  <2>9. Submitting'
    BY <1>4, <1>p, <1>t, <2>1, <1>sub
       DEF StartRead, ReturnFromRead, ThreadTypeOK
  <2>. QED
    BY <2>7, <2>8, <2>9 DEF OwnerInv
<1>5. ASSUME NEW th \in Threads, StartReadFails(th), UNCHANGED dialogVars
      PROVE  OwnerInv'
  <2>1. th \in Threads /\ task[th] \in Tasks
    BY <1>5, <1>t, <1>p DEF StartReadFails, AtWork
  <2>2. OneOwner' /\ RoundCounted'
    <3>1. \A u \in Tasks : Unmoved(u)
      BY <1>5, <1>p, <1>t, <2>1
         DEF StartReadFails, Unmoved, Sole, Hashing, Unsubmitted, Running,
             ThreadTypeOK
    <3>. QED
      BY <3>1, <1>all
  <2>3. Waiting'
    BY <1>5, <1>p, <1>t, <2>1, <1>wait DEF StartReadFails, ThreadTypeOK
  <2>4. Submitting'
    BY <1>5, <1>p, <1>t, <2>1, <1>sub DEF StartReadFails, ThreadTypeOK
  <2>. QED
    BY <2>2, <2>3, <2>4 DEF OwnerInv
<1>6. ASSUME NEW th \in Threads, Enqueue(th), UNCHANGED dialogVars
      PROVE  OwnerInv'
  <2>1. th \in Threads /\ task[th] \in Tasks
    BY <1>6, <1>t, <1>p DEF Enqueue, AtWork
  <2>t. PICK t \in Tasks : t = task[th]
    BY <2>1
  <2>2. /\ th \in Sole(t) /\ Running(t)
        /\ Cardinality(Sole(t)) = 1
        /\ readQueue[t] = 0 /\ pendingIo[t] = 0
        /\ pendingWork[t] = 0 /\ finishCounter[t] = 0
        /\ Hashing(t) = {} /\ Unsubmitted(t) = {}
    <3>1. th \in Sole(t)
      BY <1>6, <2>1, <2>t DEF Enqueue, Sole
    <3>. QED
      BY <2>1, <2>t, <3>1, <1>t, <1>o, AloneMeans
  <2>3. /\ Sole(t)' = Sole(t) \ {th}
        /\ Hashing(t)' = {} /\ Unsubmitted(t)' = {}
    BY <1>6, <1>p, <1>t, <2>1, <2>t, <2>2
       DEF Enqueue, ReturnFromRead, Sole, Hashing, Unsubmitted, ThreadTypeOK
  <2>4. Cardinality(Sole(t)') = 0
    BY <2>1, <2>t, <2>2, <2>3, SetsFinite, OneMore
  <2>5. InPlace(t)
    BY <1>6, <1>t, <2>1, <2>t, <2>2, <2>3, <2>4, FS_EmptySet
       DEF Enqueue, InPlace, Places, ItemsLeft, Running, Indicator, TaskTypeOK,
           SystemTypeOK
  <2>6. \A u \in Tasks \ {t} : Unmoved(u)
    <3>1. \A u \in Tasks \ {t} :
            /\ Sole(u)' = Sole(u) /\ Hashing(u)' = Hashing(u)
            /\ Unsubmitted(u)' = Unsubmitted(u)
      BY <1>6, <1>p, <1>t, <2>1, <2>t
         DEF Enqueue, ReturnFromRead, Sole, Hashing, Unsubmitted, ThreadTypeOK
    <3>. QED
      BY <1>6, <1>p, <1>t, <2>1, <2>t, <3>1
         DEF Enqueue, ReturnFromRead, Unmoved, Running, TaskTypeOK,
             SystemTypeOK
  <2>7. OneOwner' /\ RoundCounted'
    BY <2>5, <2>6, <1>all
  <2>8. Waiting'
    BY <1>6, <1>p, <1>t, <2>1, <1>wait
       DEF Enqueue, ReturnFromRead, ThreadTypeOK
  <2>9. Submitting'
    BY <1>6, <1>p, <1>t, <2>1, <1>sub DEF Enqueue, ReturnFromRead, ThreadTypeOK
  <2>. QED
    BY <2>7, <2>8, <2>9 DEF OwnerInv
<1>7. ASSUME NEW th \in Threads, Complete(th), UNCHANGED dialogVars
      PROVE  OwnerInv'
  <2>1. th \in Threads /\ task[th] \in Tasks
    BY <1>7, <1>t, <1>p DEF Complete, AtWork
  <2>t. PICK t \in Tasks : t = task[th]
    BY <2>1
  <2>2. /\ th \in Sole(t) /\ Running(t)
        /\ Cardinality(Sole(t)) = 1
        /\ readQueue[t] = 0 /\ pendingIo[t] = 0
        /\ pendingWork[t] = 0 /\ finishCounter[t] = 0
        /\ Hashing(t) = {} /\ Unsubmitted(t) = {}
    <3>1. th \in Sole(t)
      BY <1>7, <2>1, <2>t DEF Complete, Sole
    <3>. QED
      BY <2>1, <2>t, <3>1, <1>t, <1>o, AloneMeans
  <2>3. OneOwner' /\ RoundCounted'
    <3>1. \A u \in Tasks :
            /\ Sole(u)' = Sole(u) /\ Hashing(u)' = Hashing(u)
            /\ Unsubmitted(u)' = Unsubmitted(u)
      BY <1>7, <1>p, <1>t, <2>1, <2>t, <2>2
         DEF Complete, Sole, Hashing, Unsubmitted, ThreadTypeOK
    <3>2. \A u \in Tasks : Running(u)' = Running(u)
      BY <1>7, <1>p, <1>t, <2>1, <2>t, <2>2 DEF Complete, Running, TaskTypeOK
    <3>3. \A u \in Tasks : Unmoved(u)
      BY <1>7, <3>1, <3>2 DEF Complete, Unmoved
    <3>. QED
      BY <3>3, <1>all
  <2>4. Waiting'
    BY <1>7, <1>o, <1>p, <1>t, <2>1, <2>t, <2>2
       DEF Complete, Waiting, Running, ThreadTypeOK, TaskTypeOK
  <2>5. Submitting'
    BY <1>7, <1>p, <1>t, <2>1, <1>sub DEF Complete, ThreadTypeOK
  <2>. QED
    BY <2>3, <2>4, <2>5 DEF OwnerInv
<1>8. ASSUME NEW th \in Threads, Notify(th), UNCHANGED dialogVars
      PROVE  OwnerInv'
  <2>1. th \in Threads /\ task[th] \in Tasks
    BY <1>8, <1>t, <1>p DEF Notify, AtWork
  <2>2. OneOwner' /\ RoundCounted'
    <3>1. \A u \in Tasks : Unmoved(u)
      BY <1>8, <1>p, <1>t, <2>1
         DEF Notify, Unmoved, Sole, Hashing, Unsubmitted, Running, ThreadTypeOK
    <3>. QED
      BY <3>1, <1>all
  <2>3. Waiting'
    BY <1>8, <1>p, <1>t, <2>1, <1>wait DEF Notify, ThreadTypeOK
  <2>4. Submitting'
    BY <1>8, <1>p, <1>t, <2>1, <1>sub DEF Notify, ThreadTypeOK
  <2>. QED
    BY <2>2, <2>3, <2>4 DEF OwnerInv
<1>9. ASSUME NEW th \in Threads, FinishDereference(th), UNCHANGED dialogVars
      PROVE  OwnerInv'
  <2>1. th \in Threads /\ task[th] \in Tasks
    BY <1>9, <1>t, <1>p DEF FinishDereference, AtWork
  <2>t. PICK t \in Tasks : t = task[th]
    BY <2>1
  <2>2. /\ th \in Sole(t) /\ Running(t)
        /\ Cardinality(Sole(t)) = 1
        /\ readQueue[t] = 0 /\ pendingIo[t] = 0
        /\ pendingWork[t] = 0 /\ finishCounter[t] = 0
        /\ Hashing(t) = {} /\ Unsubmitted(t) = {}
    <3>1. th \in Sole(t)
      BY <1>9, <2>1, <2>t DEF FinishDereference, Sole
    <3>. QED
      BY <2>1, <2>t, <3>1, <1>t, <1>o, AloneMeans
  <2>3. /\ Sole(t)' = Sole(t) \ {th}
        /\ Hashing(t)' = {} /\ Unsubmitted(t)' = {}
    BY <1>9, <1>p, <1>t, <2>1, <2>t, <2>2
       DEF FinishDereference, ReturnFromRead, Sole, Hashing, Unsubmitted,
           ThreadTypeOK
  <2>4. Cardinality(Sole(t)') = 0
    BY <2>1, <2>t, <2>2, <2>3, SetsFinite, OneMore
  <2>5. InPlace(t)
    BY <1>9, <1>t, <2>1, <2>t, <2>2, <2>3, <2>4, FS_EmptySet
       DEF FinishDereference, InPlace, Places, ItemsLeft, Running, Indicator,
           TaskTypeOK, SystemTypeOK
  <2>6. \A u \in Tasks \ {t} : Unmoved(u)
    <3>1. \A u \in Tasks \ {t} :
            /\ Sole(u)' = Sole(u) /\ Hashing(u)' = Hashing(u)
            /\ Unsubmitted(u)' = Unsubmitted(u)
      BY <1>9, <1>p, <1>t, <2>1, <2>t
         DEF FinishDereference, ReturnFromRead, Sole, Hashing, Unsubmitted,
             ThreadTypeOK
    <3>. QED
      BY <1>9, <1>p, <1>t, <2>1, <2>t, <3>1
         DEF FinishDereference, ReturnFromRead, Unmoved, Running, TaskTypeOK,
             SystemTypeOK
  <2>7. OneOwner' /\ RoundCounted'
    BY <2>5, <2>6, <1>all
  <2>8. Waiting'
    BY <1>9, <1>o, <1>p, <1>t, <2>1, <2>t, <2>2
       DEF FinishDereference, ReturnFromRead, Waiting, Running, ThreadTypeOK,
           TaskTypeOK
  <2>9. Submitting'
    BY <1>9, <1>p, <1>t, <2>1, <1>sub
       DEF FinishDereference, ReturnFromRead, ThreadTypeOK
  <2>. QED
    BY <2>7, <2>8, <2>9 DEF OwnerInv
<1>10. ASSUME NEW w \in Workers, QueueEmpty(w), UNCHANGED dialogVars
      PROVE  OwnerInv'
  <2>1. w \in Threads
    BY <1>p
  <2>2. OneOwner' /\ RoundCounted'
    <3>1. \A u \in Tasks : Unmoved(u)
      BY <1>10, <1>p, <1>t, <2>1
         DEF QueueEmpty, Unmoved, Sole, Hashing, Unsubmitted, Running,
             ThreadTypeOK
    <3>. QED
      BY <3>1, <1>all
  <2>3. Waiting'
    BY <1>10, <1>p, <1>t, <2>1, <1>wait DEF QueueEmpty, ThreadTypeOK
  <2>4. Submitting'
    BY <1>10, <1>p, <1>t, <2>1, <1>sub DEF QueueEmpty, ThreadTypeOK
  <2>. QED
    BY <2>2, <2>3, <2>4 DEF OwnerInv
<1>11. ASSUME NEW w \in Workers, SubmitWork(w), UNCHANGED dialogVars
      PROVE  OwnerInv'
  <2>1. w \in Threads /\ task[w] \in Tasks
    BY <1>11, <1>t, <1>p DEF SubmitWork, AtWork
  <2>t. PICK t \in Tasks : t = task[w]
    BY <2>1
  <2>2. arg[w] \in 1 .. HashCount /\ arg[w] \in Nat
    BY <1>11, <1>o, <2>1, <2>t, TaskAssumption DEF SubmitWork, Submitting
  <2>3. /\ <<w, arg[w]>> \in Unsubmitted(t)
        /\ Unsubmitted(t)' = Unsubmitted(t) \ {<<w, arg[w]>>}
    <3>1. \A s \in Threads \X (1 .. HashCount) :
            s \in Unsubmitted(t)' <=>
              s \in Unsubmitted(t) /\ s # <<w, arg[w]>>
      BY <1>11, <1>p, <1>t, <2>1, <2>t, <2>2, TaskAssumption
         DEF SubmitWork, Unsubmitted, ThreadTypeOK
    <3>2. <<w, arg[w]>> \in Unsubmitted(t)
      BY <1>11, <2>1, <2>t, <2>2 DEF SubmitWork, Unsubmitted
    <3>. QED
      BY <3>1, <3>2 DEF Unsubmitted
  <2>4. /\ Cardinality(Unsubmitted(t)') =
             Cardinality(Unsubmitted(t)) - 1
        /\ Cardinality(Unsubmitted(t)) \in Nat
    BY <2>1, <2>t, <2>3, SetsFinite, OneMore
  <2>5. InPlace(t)
    <3>1. /\ Sole(t)' = Sole(t)
          /\ Hashing(t)' = Hashing(t)
          /\ Running(t)' = Running(t)
      BY <1>11, <1>p, <1>t, <2>1, <2>t
         DEF SubmitWork, Sole, Hashing, Running, ThreadTypeOK
    <3>2. pendingWork'[t] = pendingWork[t] + 1
      BY <1>11, <1>t, <2>1, <2>t DEF SubmitWork, SystemTypeOK
    <3>3. UNCHANGED <<readQueue, pendingIo, finishCounter>>
      BY <1>11 DEF SubmitWork
    <3>4. Cardinality(Hashing(t)) \in Nat
      BY SetsFinite
    <3>5. Places(t)' = Indicator(Running(t))'
      BY <1>o, <3>1, <3>3 DEF OneOwner, Places, Indicator
    <3>6. finishCounter'[t] = ItemsLeft(t)'
      BY <1>o, <1>t, <2>4, <3>1, <3>2, <3>3, <3>4, CountTypes
         DEF RoundCounted, ItemsLeft
    <3>. QED
      BY <3>5, <3>6 DEF InPlace
  <2>6. \A u \in Tasks \ {t} : Unmoved(u)
    <3>1. \A u \in Tasks \ {t} :
            /\ Sole(u)' = Sole(u) /\ Hashing(u)' = Hashing(u)
            /\ Unsubmitted(u)' = Unsubmitted(u)
      BY <1>11, <1>p, <1>t, <2>1, <2>t
         DEF SubmitWork, Sole, Hashing, Unsubmitted, ThreadTypeOK
    <3>. QED
      BY <1>11, <1>p, <1>t, <2>1, <2>t, <3>1
         DEF SubmitWork, Unmoved, Running, TaskTypeOK, SystemTypeOK
  <2>7. OneOwner' /\ RoundCounted'
    BY <2>5, <2>6, <1>all
  <2>8. Waiting'
    BY <1>11, <1>p, <1>t, <2>1, <1>wait DEF SubmitWork, ThreadTypeOK
  <2>9. Submitting'
    BY <1>11, <1>o, <1>p, <1>t, <2>1, <2>2, TaskAssumption
       DEF SubmitWork, Submitting, ThreadTypeOK
  <2>. QED
    BY <2>7, <2>8, <2>9 DEF OwnerInv
<1>12. ASSUME NEW w \in Workers, Update(w), UNCHANGED dialogVars
      PROVE  OwnerInv'
  <2>1. w \in Threads /\ task[w] \in Tasks
    BY <1>12, <1>t, <1>p DEF Update, AtWork
  <2>2. OneOwner' /\ RoundCounted'
    <3>1. \A u \in Tasks : Unmoved(u)
      BY <1>12, <1>p, <1>t, <2>1
         DEF Update, Unmoved, Sole, Hashing, Unsubmitted, Running, ThreadTypeOK
    <3>. QED
      BY <3>1, <1>all
  <2>3. Waiting'
    BY <1>12, <1>p, <1>t, <2>1, <1>wait DEF Update, ThreadTypeOK
  <2>4. Submitting'
    BY <1>12, <1>p, <1>t, <2>1, <1>sub DEF Update, ThreadTypeOK
  <2>. QED
    BY <2>2, <2>3, <2>4 DEF OwnerInv
<1>13. ASSUME NEW w \in Workers, FinishHash(w), UNCHANGED dialogVars
      PROVE  OwnerInv'
  <2>1. w \in Threads /\ task[w] \in Tasks
    BY <1>13, <1>t, <1>p DEF FinishHash, AtWork
  <2>t. PICK t \in Tasks : t = task[w]
    BY <2>1
  <2>2. /\ w \in Hashing(t) /\ w \notin Sole(t)
        /\ Hashing(t)' = Hashing(t) \ {w}
        /\ Unsubmitted(t)' = Unsubmitted(t)
        /\ Running(t)' = Running(t)
    BY <1>13, <1>p, <1>t, <2>1, <2>t
       DEF FinishHash, Hashing, Sole, Unsubmitted, Running, ThreadTypeOK
  <2>3. Sole(t)' = IF LastOfRound(t) THEN Sole(t) \cup {w}
                                                ELSE Sole(t)
    BY <1>13, <1>p, <1>t, <2>1, <2>t DEF FinishHash, Sole, ThreadTypeOK
  <2>4. /\ Cardinality(Hashing(t)') = Cardinality(Hashing(t)) - 1
        /\ Cardinality(Hashing(t)') \in Nat
        /\ Cardinality(Hashing(t)) \in Nat
        /\ Cardinality(Sole(t)) \in Nat
        /\ Cardinality(Unsubmitted(t)) \in Nat
    BY <2>2, SetsFinite, FS_RemoveElement, FS_CardinalityType
  <2>5. InPlace(t)
    <3>1. /\ finishCounter'[t] = finishCounter[t] - 1
          /\ UNCHANGED <<readQueue, pendingIo, pendingWork>>
      BY <1>13, <1>t, <2>1, <2>t DEF FinishHash, TaskTypeOK
    <3>2. finishCounter'[t] = ItemsLeft(t)'
      BY <1>o, <1>t, <2>2, <2>4, <3>1, CountTypes
         DEF RoundCounted, ItemsLeft
    <3>3. finishCounter[t] \in Nat /\ finishCounter[t] > 0
      <4>1. finishCounter[t] = ItemsLeft(t)
        BY <1>o DEF RoundCounted
      <4>. QED
        BY <1>t, <2>4, <4>1, CountTypes DEF ItemsLeft
    <3>4. CASE LastOfRound(t)
      <4>1. Cardinality(Sole(t)') = Cardinality(Sole(t)) + 1
        BY <2>2, <2>3, <3>4, SetsFinite, OneMore
      <4>2. Places(t)' = Places(t)
        BY <1>t, <2>4, <3>1, <3>3, <3>4, <4>1, CountTypes
           DEF LastOfRound, Places, Indicator
      <4>. QED
        BY <1>o, <2>2, <3>2, <4>2 DEF InPlace, OneOwner, Indicator
    <3>5. CASE ~LastOfRound(t)
      <4>1. Places(t)' = Places(t)
        BY <1>t, <2>3, <3>1, <3>3, <3>5 DEF LastOfRound, Places, Indicator
      <4>. QED
        BY <1>o, <2>2, <3>2, <4>1 DEF InPlace, OneOwner, Indicator
    <3>. QED
      BY <3>4, <3>5
  <2>6. \A u \in Tasks \ {t} : Unmoved(u)
    <3>1. \A u \in Tasks \ {t} :
            /\ Sole(u)' = Sole(u) /\ Hashing(u)' = Hashing(u)
            /\ Unsubmitted(u)' = Unsubmitted(u)
      BY <1>13, <1>p, <1>t, <2>1, <2>t
         DEF FinishHash, Sole, Hashing, Unsubmitted, ThreadTypeOK
    <3>. QED
      BY <1>13, <1>p, <1>t, <2>1, <2>t, <3>1
         DEF FinishHash, Unmoved, Running, TaskTypeOK, SystemTypeOK
  <2>7. OneOwner' /\ RoundCounted'
    BY <2>5, <2>6, <1>all
  <2>8. Waiting'
    BY <1>13, <1>p, <1>t, <2>1, <1>wait DEF FinishHash, ThreadTypeOK
  <2>9. Submitting'
    BY <1>13, <1>p, <1>t, <2>1, <1>sub DEF FinishHash, ThreadTypeOK
  <2>. QED
    BY <2>7, <2>8, <2>9 DEF OwnerInv
<1>14. ASSUME NEW w \in Workers, CountProgress(w), UNCHANGED dialogVars
      PROVE  OwnerInv'
  <2>1. w \in Threads /\ task[w] \in Tasks
    BY <1>14, <1>t, <1>p DEF CountProgress, AtWork
  <2>2. OneOwner' /\ RoundCounted'
    <3>1. \A u \in Tasks : Unmoved(u)
      BY <1>14, <1>p, <1>t, <2>1
         DEF CountProgress, Unmoved, Sole, Hashing, Unsubmitted, Running,
             ThreadTypeOK
    <3>. QED
      BY <3>1, <1>all
  <2>3. Waiting'
    BY <1>14, <1>p, <1>t, <2>1, <1>wait DEF CountProgress, ThreadTypeOK
  <2>4. Submitting'
    BY <1>14, <1>p, <1>t, <2>1, <1>sub DEF CountProgress, ThreadTypeOK
  <2>. QED
    BY <2>2, <2>3, <2>4 DEF OwnerInv
<1>15. ASSUME NEW w \in Workers, SendProgress(w), UNCHANGED dialogVars
      PROVE  OwnerInv'
  <2>1. w \in Threads /\ task[w] \in Tasks
    BY <1>15, <1>t, <1>p DEF SendProgress, AtWork
  <2>2. OneOwner' /\ RoundCounted'
    <3>1. \A u \in Tasks : Unmoved(u)
      BY <1>15, <1>p, <1>t, <2>1
         DEF SendProgress, Unmoved, Sole, Hashing, Unsubmitted, Running,
             ThreadTypeOK
    <3>. QED
      BY <3>1, <1>all
  <2>3. Waiting'
    BY <1>15, <1>p, <1>t, <2>1, <1>wait DEF SendProgress, ThreadTypeOK
  <2>4. Submitting'
    BY <1>15, <1>p, <1>t, <2>1, <1>sub DEF SendProgress, ThreadTypeOK
  <2>. QED
    BY <2>2, <2>3, <2>4 DEF OwnerInv
<1>16. ASSUME NEW w \in Workers, Advance(w), UNCHANGED dialogVars
      PROVE  OwnerInv'
  <2>1. w \in Threads /\ task[w] \in Tasks
    BY <1>16, <1>t, <1>p DEF Advance, AtWork
  <2>2. OneOwner' /\ RoundCounted'
    <3>1. \A u \in Tasks : Unmoved(u)
      BY <1>16, <1>p, <1>t, <2>1
         DEF Advance, Unmoved, Sole, Hashing, Unsubmitted, Running,
             ThreadTypeOK
    <3>. QED
      BY <3>1, <1>all
  <2>3. Waiting'
    BY <1>16, <1>p, <1>t, <2>1, <1>wait DEF Advance, ThreadTypeOK
  <2>4. Submitting'
    BY <1>16, <1>p, <1>t, <2>1, <1>sub DEF Advance, ThreadTypeOK
  <2>. QED
    BY <2>2, <2>3, <2>4 DEF OwnerInv
<1>17. ASSUME NEW w \in Workers, NEW t \in Tasks,
             Dequeue(w, t), UNCHANGED dialogVars
      PROVE  OwnerInv'
  <2>1. w \in Threads
    BY <1>p
  <2>2. /\ Running(t) /\ readQueue[t] + pendingIo[t] = 1 /\ Sole(t) = {}
        /\ finishCounter[t] = 0 /\ pendingWork[t] = 0
        /\ Hashing(t) = {} /\ Unsubmitted(t) = {}
    BY <1>17, <1>t, <1>o, PendingMeans DEF Dequeue, ReadArrives
  <2>3. /\ Sole(t)' = {w}
        /\ Hashing(t)' = {} /\ Unsubmitted(t)' = {}
    BY <1>17, <1>p, <1>t, <2>1, <2>2
       DEF Dequeue, Sole, Hashing, Unsubmitted, ThreadTypeOK
  <2>4. Cardinality(Sole(t)') = 1
    BY <2>2, <2>3, FS_Singleton
  <2>5. InPlace(t)
    BY <1>17, <1>t, <2>2, <2>3, <2>4, FS_EmptySet
       DEF Dequeue, InPlace, Places, ItemsLeft, Running, Indicator, TaskTypeOK,
           SystemTypeOK
  <2>6. \A u \in Tasks \ {t} : Unmoved(u)
    <3>1. \A u \in Tasks \ {t} :
            /\ Sole(u)' = Sole(u) /\ Hashing(u)' = Hashing(u)
            /\ Unsubmitted(u)' = Unsubmitted(u)
      BY <1>17, <1>p, <1>t, <2>1
         DEF Dequeue, Sole, Hashing, Unsubmitted, ThreadTypeOK
    <3>. QED
      BY <1>17, <1>p, <1>t, <2>1, <3>1
         DEF Dequeue, Unmoved, Running, TaskTypeOK, SystemTypeOK
  <2>7. OneOwner' /\ RoundCounted'
    BY <2>5, <2>6, <1>all
  <2>8. Waiting'
    BY <1>17, <1>p, <1>t, <2>1, <1>wait DEF Dequeue, ThreadTypeOK
  <2>9. Submitting'
    BY <1>17, <1>p, <1>t, <2>1, <1>sub DEF Dequeue, ThreadTypeOK
  <2>. QED
    BY <2>7, <2>8, <2>9 DEF OwnerInv
<1>18. ASSUME NEW w \in Workers, NEW t \in Tasks,
             ReadCompletedBadly(w, t), UNCHANGED dialogVars
      PROVE  OwnerInv'
  <2>1. w \in Threads
    BY <1>p
  <2>2. /\ Running(t) /\ readQueue[t] + pendingIo[t] = 1 /\ Sole(t) = {}
        /\ finishCounter[t] = 0 /\ pendingWork[t] = 0
        /\ Hashing(t) = {} /\ Unsubmitted(t) = {}
    BY <1>18, <1>t, <1>o, PendingMeans DEF ReadCompletedBadly, ReadArrives
  <2>3. /\ Sole(t)' = {w}
        /\ Hashing(t)' = {} /\ Unsubmitted(t)' = {}
    BY <1>18, <1>p, <1>t, <2>1, <2>2
       DEF ReadCompletedBadly, Sole, Hashing, Unsubmitted, ThreadTypeOK,
           ReadArrives
  <2>4. Cardinality(Sole(t)') = 1
    BY <2>2, <2>3, FS_Singleton
  <2>5. InPlace(t)
    BY <1>18, <1>t, <2>2, <2>3, <2>4, FS_EmptySet
       DEF ReadCompletedBadly, InPlace, Places, ItemsLeft, Running, Indicator,
           TaskTypeOK, SystemTypeOK, ReadArrives
  <2>6. \A u \in Tasks \ {t} : Unmoved(u)
    <3>1. \A u \in Tasks \ {t} :
            /\ Sole(u)' = Sole(u) /\ Hashing(u)' = Hashing(u)
            /\ Unsubmitted(u)' = Unsubmitted(u)
      BY <1>18, <1>p, <1>t, <2>1
         DEF ReadCompletedBadly, ReadArrives, Sole, Hashing, Unsubmitted,
             ThreadTypeOK
    <3>. QED
      BY <1>18, <1>p, <1>t, <2>1, <3>1
         DEF ReadCompletedBadly, ReadArrives, Unmoved, Running, TaskTypeOK,
             SystemTypeOK
  <2>7. OneOwner' /\ RoundCounted'
    BY <2>5, <2>6, <1>all
  <2>8. Waiting'
    BY <1>18, <1>p, <1>t, <2>1, <1>wait DEF ReadCompletedBadly, ThreadTypeOK
  <2>9. Submitting'
    BY <1>18, <1>p, <1>t, <2>1, <1>sub DEF ReadCompletedBadly, ThreadTypeOK
  <2>. QED
    BY <2>7, <2>8, <2>9 DEF OwnerInv
<1>19. ASSUME NEW w \in Workers, NEW t \in Tasks,
             ReadCompleted(w, t), UNCHANGED dialogVars
      PROVE  OwnerInv'
  <2>1. w \in Threads
    BY <1>p
  <2>2. /\ Running(t) /\ readQueue[t] + pendingIo[t] = 1 /\ Sole(t) = {}
        /\ finishCounter[t] = 0 /\ pendingWork[t] = 0
        /\ Hashing(t) = {} /\ Unsubmitted(t) = {}
    BY <1>19, <1>t, <1>o, PendingMeans DEF ReadCompleted, ReadArrives
  <2>3. Sole(t)' = {w} /\ Hashing(t)' = {} /\ Unsubmitted(t)' = {}
    <3>1. \A th : th \in Sole(t)' <=> th \in {w}
      BY <1>19, <1>p, <1>t, <2>1, <2>2 DEF ReadCompleted, ReadArrives, Sole, ThreadTypeOK
    <3>2. Hashing(t)' = {} /\ Unsubmitted(t)' = {}
      BY <1>19, <1>p, <1>t, <2>1, <2>2
         DEF ReadCompleted, ReadArrives, Hashing, Unsubmitted, ThreadTypeOK
    <3>. QED
      BY <3>1, <3>2
  <2>4. InPlace(t)
    <3>1. pendingIo'[t] = pendingIo[t] - 1 /\ Cardinality({w}) = 1
      BY <1>19, <1>t, FS_Singleton DEF ReadCompleted, SystemTypeOK
    <3>2. UNCHANGED <<readQueue, pendingWork, stage, finishCounter>>
      BY <1>19 DEF ReadCompleted
    <3>. QED
      BY <1>19, <1>t, <2>2, <2>3, <3>1, <3>2, FS_EmptySet, CountTypes
         DEF ReadCompleted, ReadArrives, InPlace, Places, ItemsLeft, Running,
             Indicator
  <2>5. \A u \in Tasks \ {t} : Unmoved(u)
    <3>1. \A u \in Tasks \ {t} :
            /\ Sole(u)' = Sole(u) /\ Hashing(u)' = Hashing(u)
            /\ Unsubmitted(u)' = Unsubmitted(u)
      BY <1>19, <1>p, <1>t, <2>1
         DEF ReadCompleted, ReadArrives, Sole, Hashing, Unsubmitted,
             ThreadTypeOK
    <3>. QED
      BY <1>19, <1>t, <3>1 DEF ReadCompleted, Unmoved, Running, SystemTypeOK
  <2>6. OneOwner' /\ RoundCounted'
    BY <2>4, <2>5, <1>all
  <2>7. Waiting'
    BY <1>19, <1>p, <1>t, <2>1, <1>wait DEF ReadCompleted, ReadArrives, ThreadTypeOK
  <2>8. Submitting'
    BY <1>19, <1>p, <1>t, <2>1, <1>sub DEF ReadCompleted, ReadArrives, ThreadTypeOK
  <2>. QED
    BY <2>6, <2>7, <2>8 DEF OwnerInv
<1>reset. ASSUME NEW w \in Workers, AddToHashQueue(w), UNCHANGED dialogVars
          PROVE  OwnerInv'
  <2>t. PICK t \in Tasks : t = task[w]
    BY <1>reset, <1>p, <1>t DEF AddToHashQueue, AtWork
  <2>1. w \in Threads /\ task[w] = t /\ pc[w] = "reset"
    BY <1>reset, <1>p, <2>t DEF AddToHashQueue
  <2>2. /\ Running(t) /\ Sole(t) = {w} /\ readQueue[t] = 0 /\ pendingIo[t] = 0
        /\ finishCounter[t] = 0 /\ pendingWork[t] = 0
        /\ Hashing(t) = {} /\ Unsubmitted(t) = {}
    <3>1. w \in Sole(t)
      BY <2>1 DEF Sole
    <3>2. /\ Cardinality(Sole(t)) = 1 /\ Running(t) /\ readQueue[t] = 0 /\ pendingIo[t] = 0
          /\ finishCounter[t] = 0 /\ pendingWork[t] = 0
          /\ Hashing(t) = {} /\ Unsubmitted(t) = {}
      BY <1>t, <1>o, <2>1, <3>1, AloneMeans
    <3>3. Cardinality(Sole(t) \ {w}) = 0 /\ IsFiniteSet(Sole(t) \ {w})
      BY <2>1, <3>1, <3>2, SetsFinite, FS_RemoveElement
    <3>4. Sole(t) \ {w} = {}
      BY <3>3, FS_EmptySet
    <3>5. QED  BY <3>1, <3>2, <3>4
  <2>3. /\ Sole(t)' = {} /\ Hashing(t)' = {}
        /\ Unsubmitted(t)' = {w} \X (1 .. HashCount)
    <3>1. Sole(t)' = {} /\ Hashing(t)' = {}
      BY <1>reset, <1>p, <1>t, <2>1, <2>2 DEF AddToHashQueue, Sole, Hashing, ThreadTypeOK
    <3>2. \A s : s \in Unsubmitted(t)' <=> s \in {w} \X (1 .. HashCount)
      BY <1>reset, <1>p, <1>t, <2>1, <2>2, TaskAssumption
         DEF AddToHashQueue, Unsubmitted, ThreadTypeOK
    <3>. QED
      BY <3>1, <3>2
  <2>4. Cardinality({w} \X (1 .. HashCount)) = HashCount
    <3>1. IsFiniteSet({w}) /\ Cardinality({w}) = 1
      BY FS_Singleton
    <3>2. IsFiniteSet(1 .. HashCount) /\ Cardinality(1 .. HashCount) = HashCount
      BY FS_Interval, TaskAssumption
    <3>3. Cardinality({w} \X (1 .. HashCount))
            = Cardinality({w}) * Cardinality(1 .. HashCount)
      BY <3>1, <3>2, FS_Product
    <3>. QED
      BY <3>1, <3>2, <3>3, TaskAssumption
  <2>5. InPlace(t)
    <3>1. finishCounter'[t] = HashCount
      BY <1>reset, <1>t, <2>1 DEF AddToHashQueue, ResetCounters, TaskTypeOK
    <3>2. UNCHANGED <<readQueue, pendingIo, pendingWork, stage>>
      BY <1>reset DEF AddToHashQueue
    <3>3. Cardinality(Sole(t)) = 1 /\ Cardinality({}) = 0
      BY <2>2, FS_Singleton, FS_EmptySet
    <3>. QED
      BY <1>t, <2>1, <2>2, <2>3, <2>4, <3>1, <3>2, <3>3, CountTypes
         DEF InPlace, Places, ItemsLeft, Running, Indicator
  <2>6. \A u \in Tasks \ {t} : Unmoved(u)
    <3>1. \A u \in Tasks \ {t} :
            /\ Sole(u)' = Sole(u) /\ Hashing(u)' = Hashing(u)
            /\ Unsubmitted(u)' = Unsubmitted(u)
      BY <1>reset, <1>p, <1>t, <2>1
         DEF AddToHashQueue, Sole, Hashing, Unsubmitted, ThreadTypeOK
    <3>. QED
      BY <1>reset, <1>t, <2>1, <3>1
         DEF AddToHashQueue, ResetCounters, Unmoved, Running, TaskTypeOK
  <2>7. OneOwner' /\ RoundCounted'
    BY <2>5, <2>6, <1>all
  <2>8. Waiting'
    BY <1>reset, <1>p, <1>t, <2>1, <1>wait DEF AddToHashQueue, ThreadTypeOK
  <2>9. Submitting'
    BY <1>reset, <1>o, <1>p, <1>t, <2>1, TaskAssumption
       DEF AddToHashQueue, Submitting, ThreadTypeOK
  <2>. QED
    BY <2>7, <2>8, <2>9 DEF OwnerInv
<1>20. ASSUME NEW w \in Workers, NEW t \in Tasks,
             BeginHash(w, t), UNCHANGED dialogVars
      PROVE  OwnerInv'
  <2>1. w \in Threads
    BY <1>p
  <2>2. Hashing(t)' = Hashing(t) \cup {w} /\ w \notin Hashing(t)
    BY <1>20, <1>p, <1>t, <2>1 DEF BeginHash, Hashing, ThreadTypeOK
  <2>3. /\ Cardinality(Hashing(t)') = Cardinality(Hashing(t)) + 1
        /\ Cardinality(Hashing(t)) \in Nat
    BY <2>2, SetsFinite, OneMore
  <2>4. InPlace(t)
    <3>1. /\ Sole(t)' = Sole(t) /\ Unsubmitted(t)' = Unsubmitted(t)
          /\ Running(t)' = Running(t)
      BY <1>20, <1>p, <1>t, <2>1
         DEF BeginHash, Sole, Unsubmitted, Running, ThreadTypeOK
    <3>2. /\ pendingWork'[t] = pendingWork[t] - 1
          /\ UNCHANGED <<readQueue, pendingIo, finishCounter>>
      BY <1>20, <1>t DEF BeginHash, SystemTypeOK
    <3>3. Cardinality(Unsubmitted(t)) \in Nat
      BY SetsFinite
    <3>. QED
      BY <1>o, <1>t, <2>3, <3>1, <3>2, <3>3, CountTypes
         DEF InPlace, OneOwner, RoundCounted, Places, ItemsLeft, Indicator
  <2>5. \A u \in Tasks \ {t} : Unmoved(u)
    <3>1. \A u \in Tasks \ {t} :
            /\ Sole(u)' = Sole(u) /\ Hashing(u)' = Hashing(u)
            /\ Unsubmitted(u)' = Unsubmitted(u)
      BY <1>20, <1>p, <1>t, <2>1
         DEF BeginHash, Sole, Hashing, Unsubmitted, ThreadTypeOK
    <3>. QED
      BY <1>20, <1>p, <1>t, <2>1, <3>1
         DEF BeginHash, Unmoved, Running, TaskTypeOK, SystemTypeOK
  <2>6. OneOwner' /\ RoundCounted'
    BY <2>4, <2>5, <1>all
  <2>7. Waiting'
    BY <1>20, <1>p, <1>t, <2>1, <1>wait DEF BeginHash, ThreadTypeOK
  <2>8. Submitting'
    BY <1>20, <1>p, <1>t, <2>1, <1>sub DEF BeginHash, ThreadTypeOK
  <2>. QED
    BY <2>6, <2>7, <2>8 DEF OwnerInv
<1>21. ASSUME NEW c \in Coordinators, RegisterWindow(c)
      PROVE  OwnerInv'
  <2>1. c \in Threads /\ c \notin Workers
    BY <1>p
  <2>2. OneOwner' /\ RoundCounted'
    <3>1. \A u \in Tasks : Unmoved(u)
      BY <1>21, <1>p, <1>t, <2>1
         DEF RegisterWindow, Unmoved, Sole, Hashing, Unsubmitted, Running,
             ThreadTypeOK
    <3>. QED
      BY <3>1, <1>all
  <2>3. Waiting'
    BY <1>21, <1>p, <1>t, <2>1, <1>wait DEF RegisterWindow, ThreadTypeOK
  <2>4. Submitting'
    BY <1>21, <1>p, <1>t, <2>1, <1>sub DEF RegisterWindow, ThreadTypeOK
  <2>. QED
    BY <2>2, <2>3, <2>4 DEF OwnerInv
<1>22. ASSUME NEW c \in Coordinators, FilesAdded(c)
      PROVE  OwnerInv'
  <2>1. c \in Threads /\ c \notin Workers
    BY <1>p
  <2>2. OneOwner' /\ RoundCounted'
    <3>1. \A u \in Tasks : Unmoved(u)
      BY <1>22, <1>p, <1>t, <2>1
         DEF FilesAdded, Unmoved, Sole, Hashing, Unsubmitted, Running,
             ThreadTypeOK
    <3>. QED
      BY <3>1, <1>all
  <2>3. Waiting'
    BY <1>22, <1>p, <1>t, <2>1, <1>wait DEF FilesAdded, ThreadTypeOK
  <2>4. Submitting'
    BY <1>22, <1>p, <1>t, <2>1, <1>sub DEF FilesAdded, ThreadTypeOK
  <2>. QED
    BY <2>2, <2>3, <2>4 DEF OwnerInv
<1>23. ASSUME NEW c \in Coordinators, NoFiles(c)
      PROVE  OwnerInv'
  <2>1. c \in Threads /\ c \notin Workers
    BY <1>p
  <2>2. OneOwner' /\ RoundCounted'
    <3>1. \A u \in Tasks : Unmoved(u)
      BY <1>23, <1>p, <1>t, <2>1
         DEF NoFiles, Unmoved, Sole, Hashing, Unsubmitted, Running,
             ThreadTypeOK
    <3>. QED
      BY <3>1, <1>all
  <2>3. Waiting'
    BY <1>23, <1>p, <1>t, <2>1, <1>wait DEF NoFiles, ThreadTypeOK
  <2>4. Submitting'
    BY <1>23, <1>p, <1>t, <2>1, <1>sub DEF NoFiles, ThreadTypeOK
  <2>. QED
    BY <2>2, <2>3, <2>4 DEF OwnerInv
<1>24. ASSUME NEW c \in Coordinators, StartProcessing(c)
      PROVE  OwnerInv'
  <2>1. /\ c \in Threads /\ task[c] \in Tasks /\ Owner[task[c]] = c
        /\ stage[task[c]] = "counted"
    BY <1>24, <1>t, <1>p, <1>o DEF StartProcessing, AtWork, Waiting
  <2>t. PICK t \in Tasks : t = task[c]
    BY <2>1
  <2>2. /\ readQueue[t] = 0 /\ pendingIo[t] = 0
        /\ Cardinality(Sole(t)) = 0 /\ ~(finishCounter[t] > 0)
    <3>1. Places(t) = 0
      BY <1>o, <2>1, <2>t DEF OneOwner, Running, Indicator
    <3>2. /\ Cardinality(Sole(t)) \in Nat
          /\ readQueue[t] \in Nat /\ pendingIo[t] \in Nat
      BY <1>t, SetsFinite, CountTypes
    <3>3. CASE finishCounter[t] > 0
      <4>1. Indicator(finishCounter[t] > 0) = 1
        BY <3>3 DEF Indicator
      <4>. QED
        BY <3>1, <3>2, <4>1 DEF Places
    <3>4. CASE ~(finishCounter[t] > 0)
      <4>1. readQueue[t] + pendingIo[t] + Cardinality(Sole(t)) = 0
        BY <3>1, <3>2, <3>4 DEF Places, Indicator
      <4>2. /\ readQueue[t] = 0 /\ pendingIo[t] = 0
            /\ Cardinality(Sole(t)) = 0
        BY <3>2, <4>1
      <4>. QED
        BY <3>4, <4>2
    <3>. QED
      BY <3>3, <3>4
  <2>3. /\ Sole(t)' = Sole(t) \cup {c} /\ c \notin Sole(t)
        /\ Hashing(t)' = Hashing(t)
        /\ Unsubmitted(t)' = Unsubmitted(t)
    BY <1>24, <1>p, <1>t, <2>1, <2>t
       DEF StartProcessing, Sole, Hashing, Unsubmitted, ThreadTypeOK
  <2>4. Cardinality(Sole(t)') = 1
    BY <2>1, <2>t, <2>2, <2>3, SetsFinite, OneMore
  <2>5. InPlace(t)
    <3>1. UNCHANGED <<readQueue, pendingIo, pendingWork, finishCounter>>
      BY <1>24 DEF StartProcessing
    <3>2. stage'[t] = "live"
      BY <1>24, <1>t, <2>1, <2>t DEF StartProcessing, TaskTypeOK
    <3>. QED
      BY <1>o, <2>1, <2>t, <2>2, <2>3, <2>4, <3>1, <3>2
         DEF InPlace, Places, RoundCounted, ItemsLeft, Running, Indicator
  <2>6. \A u \in Tasks \ {t} : Unmoved(u)
    <3>1. \A u \in Tasks \ {t} :
            /\ Sole(u)' = Sole(u) /\ Hashing(u)' = Hashing(u)
            /\ Unsubmitted(u)' = Unsubmitted(u)
      BY <1>24, <1>p, <1>t, <2>1, <2>t
         DEF StartProcessing, Sole, Hashing, Unsubmitted, ThreadTypeOK
    <3>. QED
      BY <1>24, <1>p, <1>t, <2>1, <2>t, <3>1
         DEF StartProcessing, Unmoved, Running, TaskTypeOK, SystemTypeOK
  <2>7. OneOwner' /\ RoundCounted'
    BY <2>5, <2>6, <1>all
  <2>8. Waiting'
    BY <1>24, <1>o, <1>p, <1>t, <2>1
       DEF StartProcessing, Waiting, ThreadTypeOK, TaskTypeOK
  <2>9. Submitting'
    BY <1>24, <1>p, <1>t, <2>1, <1>sub DEF StartProcessing, ThreadTypeOK
  <2>. QED
    BY <2>7, <2>8, <2>9 DEF OwnerInv
<1>25. ASSUME NEW c \in Coordinators, FilesStarted(c)
      PROVE  OwnerInv'
  <2>1. c \in Threads /\ c \notin Workers
    BY <1>p
  <2>2. OneOwner' /\ RoundCounted'
    <3>1. \A u \in Tasks : Unmoved(u)
      BY <1>25, <1>p, <1>t, <2>1
         DEF FilesStarted, Unmoved, Sole, Hashing, Unsubmitted, Running,
             ThreadTypeOK
    <3>. QED
      BY <3>1, <1>all
  <2>3. Waiting'
    BY <1>25, <1>p, <1>t, <2>1, <1>wait DEF FilesStarted, ThreadTypeOK
  <2>4. Submitting'
    BY <1>25, <1>p, <1>t, <2>1, <1>sub DEF FilesStarted, ThreadTypeOK
  <2>. QED
    BY <2>2, <2>3, <2>4 DEF OwnerInv
<1>26. ASSUME NEW c \in Coordinators, NotifyOwnWindow(c)
      PROVE  OwnerInv'
  <2>1. c \in Threads /\ c \notin Workers
    BY <1>p
  <2>2. OneOwner' /\ RoundCounted'
    <3>1. \A u \in Tasks : Unmoved(u)
      BY <1>26, <1>p, <1>t, <2>1
         DEF NotifyOwnWindow, Unmoved, Sole, Hashing, Unsubmitted, Running,
             ThreadTypeOK
    <3>. QED
      BY <3>1, <1>all
  <2>3. Waiting'
    BY <1>26, <1>p, <1>t, <2>1, <1>wait DEF NotifyOwnWindow, ThreadTypeOK
  <2>4. Submitting'
    BY <1>26, <1>p, <1>t, <2>1, <1>sub DEF NotifyOwnWindow, ThreadTypeOK
  <2>. QED
    BY <2>2, <2>3, <2>4 DEF OwnerInv
<1>27. ASSUME NEW c \in Coordinators, HandleFinished(c)
      PROVE  OwnerInv'
  <2>1. c \in Threads /\ c \notin Workers
    BY <1>p
  <2>2. OneOwner' /\ RoundCounted'
    <3>1. \A u \in Tasks : Unmoved(u)
      BY <1>27, <1>p, <1>t, <2>1
         DEF HandleFinished, Unmoved, Sole, Hashing, Unsubmitted, Running,
             ThreadTypeOK
    <3>. QED
      BY <3>1, <1>all
  <2>3. Waiting'
    BY <1>27, <1>p, <1>t, <2>1, <1>wait DEF HandleFinished, ThreadTypeOK
  <2>4. Submitting'
    BY <1>27, <1>p, <1>t, <2>1, <1>sub DEF HandleFinished, ThreadTypeOK
  <2>. QED
    BY <2>2, <2>3, <2>4 DEF OwnerInv
<1>28. ASSUME NEW c \in Coordinators, HandleProgress(c)
      PROVE  OwnerInv'
  <2>1. c \in Threads /\ c \notin Workers
    BY <1>p
  <2>2. OneOwner' /\ RoundCounted'
    <3>1. \A u \in Tasks : Unmoved(u)
      BY <1>28, <1>p, <1>t, <2>1
         DEF HandleProgress, Unmoved, Sole, Hashing, Unsubmitted, Running,
             ThreadTypeOK
    <3>. QED
      BY <3>1, <1>all
  <2>3. Waiting'
    BY <1>28, <1>p, <1>t, <2>1, <1>wait DEF HandleProgress, ThreadTypeOK
  <2>4. Submitting'
    BY <1>28, <1>p, <1>t, <2>1, <1>sub DEF HandleProgress, ThreadTypeOK
  <2>. QED
    BY <2>2, <2>3, <2>4 DEF OwnerInv
<1>29. ASSUME NEW c \in Coordinators, CancelReturns(c)
      PROVE  OwnerInv'
  <2>1. c \in Threads /\ c \notin Workers
    BY <1>p
  <2>2. OneOwner' /\ RoundCounted'
    <3>1. \A u \in Tasks : Unmoved(u)
      BY <1>29, <1>p, <1>t, <2>1
         DEF CancelReturns, Unmoved, Sole, Hashing, Unsubmitted, Running,
             ThreadTypeOK
    <3>. QED
      BY <3>1, <1>all
  <2>3. Waiting'
    BY <1>29, <1>p, <1>t, <2>1, <1>wait DEF CancelReturns, ThreadTypeOK
  <2>4. Submitting'
    BY <1>29, <1>p, <1>t, <2>1, <1>sub DEF CancelReturns, ThreadTypeOK
  <2>. QED
    BY <2>2, <2>3, <2>4 DEF OwnerInv
<1>30. ASSUME NEW c \in Coordinators, UnregisterWindow(c)
      PROVE  OwnerInv'
  <2>1. c \in Threads /\ c \notin Workers
    BY <1>p
  <2>2. OneOwner' /\ RoundCounted'
    <3>1. \A u \in Tasks : Unmoved(u)
      BY <1>30, <1>p, <1>t, <2>1
         DEF UnregisterWindow, Unmoved, Sole, Hashing, Unsubmitted, Running,
             ThreadTypeOK
    <3>. QED
      BY <3>1, <1>all
  <2>3. Waiting'
    BY <1>30, <1>p, <1>t, <2>1, <1>wait DEF UnregisterWindow, ThreadTypeOK
  <2>4. Submitting'
    BY <1>30, <1>p, <1>t, <2>1, <1>sub DEF UnregisterWindow, ThreadTypeOK
  <2>. QED
    BY <2>2, <2>3, <2>4 DEF OwnerInv
<1>31. ASSUME NEW c \in Coordinators, WindowDereference(c)
      PROVE  OwnerInv'
  <2>1. c \in Threads /\ c \notin Workers
    BY <1>p
  <2>2. OneOwner' /\ RoundCounted'
    <3>1. \A u \in Tasks : Unmoved(u)
      BY <1>31, <1>p, <1>t, <2>1
         DEF WindowDereference, Unmoved, Sole, Hashing, Unsubmitted, Running,
             ThreadTypeOK
    <3>. QED
      BY <3>1, <1>all
  <2>3. Waiting'
    BY <1>31, <1>p, <1>t, <2>1, <1>wait DEF WindowDereference, ThreadTypeOK
  <2>4. Submitting'
    BY <1>31, <1>p, <1>t, <2>1, <1>sub DEF WindowDereference, ThreadTypeOK
  <2>. QED
    BY <2>2, <2>3, <2>4 DEF OwnerInv
<1>32. ASSUME NEW c \in Coordinators, CancelClicked(c)
      PROVE  OwnerInv'
  <2>1. c \in Threads /\ c \notin Workers
    BY <1>p
  <2>2. OneOwner' /\ RoundCounted'
    <3>1. \A u \in Tasks : Unmoved(u)
      BY <1>32, <1>p, <1>t, <2>1
         DEF CancelClicked, Unmoved, Sole, Hashing, Unsubmitted, Running,
             ThreadTypeOK
    <3>. QED
      BY <3>1, <1>all
  <2>3. Waiting'
    BY <1>32, <1>p, <1>t, <2>1, <1>wait DEF CancelClicked, ThreadTypeOK
  <2>4. Submitting'
    BY <1>32, <1>p, <1>t, <2>1, <1>sub DEF CancelClicked, ThreadTypeOK
  <2>. QED
    BY <2>2, <2>3, <2>4 DEF OwnerInv
<1>33. ASSUME NEW c \in Coordinators, Close(c)
      PROVE  OwnerInv'
  <2>1. c \in Threads /\ c \notin Workers
    BY <1>p
  <2>2. OneOwner' /\ RoundCounted'
    <3>1. \A u \in Tasks : Unmoved(u)
      BY <1>33, <1>p, <1>t, <2>1
         DEF Close, Unmoved, Sole, Hashing, Unsubmitted, Running, ThreadTypeOK
    <3>. QED
      BY <3>1, <1>all
  <2>3. Waiting'
    BY <1>33, <1>p, <1>t, <2>1, <1>wait DEF Close, ThreadTypeOK
  <2>4. Submitting'
    BY <1>33, <1>p, <1>t, <2>1, <1>sub DEF Close, ThreadTypeOK
  <2>. QED
    BY <2>2, <2>3, <2>4 DEF OwnerInv
<1>34. ASSUME NEW c \in Coordinators, DeleteBegins(c)
      PROVE  OwnerInv'
  <2>1. c \in Threads /\ c \notin Workers
    BY <1>p
  <2>2. OneOwner' /\ RoundCounted'
    <3>1. \A u \in Tasks : Unmoved(u)
      BY <1>34, <1>p, <1>t, <2>1
         DEF DeleteBegins, Unmoved, Sole, Hashing, Unsubmitted, Running,
             ThreadTypeOK
    <3>. QED
      BY <3>1, <1>all
  <2>3. Waiting'
    BY <1>34, <1>p, <1>t, <2>1, <1>wait DEF DeleteBegins, ThreadTypeOK
  <2>4. Submitting'
    BY <1>34, <1>p, <1>t, <2>1, <1>sub DEF DeleteBegins, ThreadTypeOK
  <2>. QED
    BY <2>2, <2>3, <2>4 DEF OwnerInv
<1>35. ASSUME NEW c \in Coordinators, FilesCancelled(c)
      PROVE  OwnerInv'
  <2>1. c \in Threads /\ c \notin Workers
    BY <1>p
  <2>2. OneOwner' /\ RoundCounted'
    <3>1. \A u \in Tasks : Unmoved(u)
      BY <1>35, <1>p, <1>t, <2>1
         DEF FilesCancelled, Unmoved, Sole, Hashing, Unsubmitted, Running,
             ThreadTypeOK
    <3>. QED
      BY <3>1, <1>all
  <2>3. Waiting'
    BY <1>35, <1>p, <1>t, <2>1, <1>wait DEF FilesCancelled, ThreadTypeOK
  <2>4. Submitting'
    BY <1>35, <1>p, <1>t, <2>1, <1>sub DEF FilesCancelled, ThreadTypeOK
  <2>. QED
    BY <2>2, <2>3, <2>4 DEF OwnerInv
<1>36. ASSUME NEW c \in Coordinators, Deleted(c)
      PROVE  OwnerInv'
  <2>1. c \in Threads /\ c \notin Workers
    BY <1>p
  <2>2. OneOwner' /\ RoundCounted'
    <3>1. \A u \in Tasks : Unmoved(u)
      BY <1>36, <1>p, <1>t, <2>1
         DEF Deleted, Unmoved, Sole, Hashing, Unsubmitted, Running,
             ThreadTypeOK
    <3>. QED
      BY <3>1, <1>all
  <2>3. Waiting'
    BY <1>36, <1>p, <1>t, <2>1, <1>wait DEF Deleted, ThreadTypeOK
  <2>4. Submitting'
    BY <1>36, <1>p, <1>t, <2>1, <1>sub DEF Deleted, ThreadTypeOK
  <2>. QED
    BY <2>2, <2>3, <2>4 DEF OwnerInv
<1>37. ASSUME NEW c \in Coordinators, NEW t \in Tasks, AddFile(c, t)
      PROVE  OwnerInv'
  <2>1. c \in Threads /\ c \notin Workers
    BY <1>p
  <2>2. OneOwner' /\ RoundCounted'
    <3>1. \A u \in Tasks : Unmoved(u)
      BY <1>37, <1>p, <1>t, <2>1
         DEF AddFile, Unmoved, Sole, Hashing, Unsubmitted, Running,
             ThreadTypeOK
    <3>. QED
      BY <3>1, <1>all
  <2>3. Waiting'
    <3>1. /\ pc[c] = "addFiles" /\ Owner[t] = c /\ stage[t] = "new"
          /\ todo' = [todo EXCEPT ![c] = @ \cup {t}]
          /\ UNCHANGED <<pc, task, stage>>
      BY <1>37, <1>o DEF AddFile, Waiting, Owned
    <3>2. todo \in [Coordinators -> SUBSET Tasks]
      BY <1>t DEF TypeOK, DialogTypeOK
    <3>. QED
      BY <1>o, <1>p, <3>1, <3>2 DEF Waiting
  <2>4. Submitting'
    BY <1>37, <1>p, <1>t, <2>1, <1>sub DEF AddFile, ThreadTypeOK
  <2>. QED
    BY <2>2, <2>3, <2>4 DEF OwnerInv
<1>38. ASSUME NEW c \in Coordinators, NEW t \in Tasks, CountFile(c, t)
      PROVE  OwnerInv'
  <2>1. c \in Threads /\ c \notin Workers
    BY <1>p
  <2>2. OneOwner' /\ RoundCounted'
    <3>1. \A u \in Tasks :
            /\ Sole(u)' = Sole(u) /\ Hashing(u)' = Hashing(u)
            /\ Unsubmitted(u)' = Unsubmitted(u)
      BY <1>38, <1>o, <1>p, <1>t, <2>1
         DEF CountFile, Sole, Hashing, Unsubmitted, ThreadTypeOK
    <3>2. \A u \in Tasks : Running(u)' = Running(u)
      BY <1>38, <1>o, <1>p, <1>t, <2>1
         DEF CountFile, Running, TaskTypeOK, Waiting
    <3>3. \A u \in Tasks : Unmoved(u)
      BY <1>38, <3>1, <3>2 DEF CountFile, Unmoved
    <3>. QED
      BY <3>3, <1>all
  <2>3. Waiting'
    <3>1. /\ Owner[t] = c /\ stage[t] = "new" /\ t \in todo[c]
          /\ todo' = [todo EXCEPT ![c] = @ \ {t}]
          /\ stage' = [stage EXCEPT ![t] = "counted"]
          /\ task' = [task EXCEPT ![c] = t]
          /\ pc' = [pc EXCEPT ![c] = "start"]
      BY <1>38, <1>o DEF CountFile, Waiting
    <3>2. /\ todo \in [Coordinators -> SUBSET Tasks]
          /\ stage \in [Tasks -> Stages]
          /\ task \in [Threads -> Tasks \cup {NoTask}]
      BY <1>t DEF TypeOK, DialogTypeOK, TaskTypeOK, ThreadTypeOK
    <3>3. ASSUME NEW d \in Coordinators, d # c
          PROVE  /\ \A u \in todo'[d] : Owner[u] = d /\ stage'[u] = "new"
                 /\ pc'[d] \in {"register", "addFiles"} =>
                      \A u \in Tasks : Owner[u] = d => stage'[u] = "new"
                 /\ pc'[d] = "start" =>
                      Owner[task'[d]] = d /\ stage'[task'[d]] = "counted"
      <4>1. todo'[d] = todo[d] /\ pc'[d] = pc[d] /\ task'[d] = task[d]
        BY <1>p, <3>1, <3>2, <3>3
      <4>2. \A u \in Tasks : Owner[u] = d => stage'[u] = stage[u]
        BY <3>1, <3>2, <3>3
      <4>. QED
        BY <1>o, <1>t, <1>p, <3>2, <4>1, <4>2 DEF Waiting, AtWork
    <3>4. /\ \A u \in todo'[c] : Owner[u] = c /\ stage'[u] = "new"
          /\ pc'[c] = "start" /\ task'[c] = t /\ stage'[t] = "counted"
      BY <1>o, <1>p, <3>1, <3>2 DEF Waiting
    <3>. QED
      BY <3>1, <3>3, <3>4 DEF Waiting
  <2>4. Submitting'
    BY <1>38, <1>p, <1>t, <2>1, <1>sub DEF CountFile, ThreadTypeOK
  <2>. QED
    BY <2>2, <2>3, <2>4 DEF OwnerInv
<1>39. ASSUME UNCHANGED vars
      PROVE  OwnerInv'
  <2>1. OneOwner' /\ RoundCounted'
    <3>1. \A u \in Tasks : Unmoved(u)
      BY <1>39 DEF vars, Unmoved, Sole, Hashing, Unsubmitted, Running
    <3>. QED
      BY <3>1, <1>all
  <2>2. Waiting'
    BY <1>39, <1>wait DEF vars
  <2>3. Submitting'
    BY <1>39, <1>sub DEF vars
  <2>. QED
    BY <2>1, <2>2, <2>3 DEF OwnerInv
<1>. QED
  BY <1>1, <1>2, <1>3, <1>4, <1>5, <1>6, <1>7, <1>8, <1>9, <1>10, <1>11,
     <1>12, <1>13, <1>14, <1>15, <1>16, <1>17, <1>18, <1>19, <1>20, <1>21,
     <1>22, <1>23, <1>24, <1>25, <1>26, <1>27, <1>28, <1>29, <1>30, <1>31,
     <1>32, <1>33, <1>34, <1>35, <1>36, <1>37, <1>38, <1>39, <1>reset
     DEF Next, WorkerStep, TaskStep, CallbackStep, DialogStep, UserStep,
         DeleteStep, Terminated, Threads

LEMMA OwnerInvariant == Spec => [](TInv /\ OwnerInv)
<1>1. Init => TInv /\ OwnerInv
  BY TypeInit, OwnerInit
<1>2. TInv /\ OwnerInv /\ [Next]_vars => (TInv /\ OwnerInv)'
  BY TypeStep, OwnerStep
<1>. QED
  BY <1>1, <1>2, PTL DEF Spec

(* A running file is in exactly one place: queued, in a pending read, in   *)
(* one thread, or in its hash round; so nobody else uses its members.      *)
THEOREM OneOwnerAlways == Spec => []OneOwner
<1>1. TInv /\ OwnerInv => OneOwner
  BY DEF OwnerInv
<1>. QED
  BY <1>1, OwnerInvariant, PTL

(* _hash_finish_counter counts the work items left of the round, so only   *)
(* the last of them advances the file (DoHashRound).                       *)
THEOREM RoundCountedAlways == Spec => []RoundCounted
<1>1. TInv /\ OwnerInv => RoundCounted
  BY DEF OwnerInv
<1>. QED
  BY <1>1, OwnerInvariant, PTL
-----------------------------------------------------------------------------
USE DEF taskVars, osVars, threadVars, poolVars, coordVars, dialogVars

(* A file that a thread works on, or that is waiting for one, is running.  *)
LEMMA WorkedOn ==
  ASSUME TInv, OwnerInv
  PROVE  /\ \A th \in Threads : pc[th] \in TaskLabels => Running(task[th])
         /\ \A t \in Tasks :
              pendingIo[t] > 0 \/ readQueue[t] > 0 \/ pendingWork[t] > 0
                \/ finishCounter[t] > 0 => Running(t)
<1>1. TypeOK /\ AtWork /\ OneOwner /\ RoundCounted /\ Submitting
  BY DEF TInv, OwnerInv
<1>2. ASSUME NEW t \in Tasks,
             pendingIo[t] > 0 \/ readQueue[t] > 0 \/ finishCounter[t] > 0
      PROVE  Running(t)
  BY <1>1, <1>2, SetsFinite, CountTypes DEF OneOwner, Places, Indicator
<1>3. ASSUME NEW t \in Tasks,
             pendingWork[t] > 0 \/ Hashing(t) # {} \/ Unsubmitted(t) # {}
      PROVE  Running(t)
  <2>1. /\ Hashing(t) # {} => Cardinality(Hashing(t)) > 0
        /\ Unsubmitted(t) # {} => Cardinality(Unsubmitted(t)) > 0
    <3>1. /\ Hashing(t) # {} => Cardinality(Hashing(t)) # 0
          /\ Unsubmitted(t) # {} => Cardinality(Unsubmitted(t)) # 0
      BY SetsFinite, FS_EmptySet
    <3>2. QED  BY <3>1, SetsFinite
  <2>2. /\ finishCounter[t] = pendingWork[t] + Cardinality(Hashing(t))
                                + Cardinality(Unsubmitted(t))
        /\ pendingWork[t] \in Nat
    BY <1>1, CountTypes DEF RoundCounted, ItemsLeft
  <2>3. finishCounter[t] > 0
    BY <1>3, <2>1, <2>2, SetsFinite
  <2>4. QED  BY <1>2, <2>3
<1>4. ASSUME NEW th \in Threads, pc[th] \in TaskLabels
      PROVE  Running(task[th])
  <2>1. task[th] \in Tasks
    BY <1>1, <1>4 DEF AtWork
  <2>2. CASE pc[th] \in HashLabels
    <3>1. th \in Hashing(task[th])
      BY <2>2 DEF Hashing
    <3>2. QED  BY <1>3, <2>1, <3>1
  <2>3. CASE pc[th] = "submit"
    <3>1. 1 \in 1 .. HashCount /\ 1 <= arg[th]
      BY <1>1, <2>3, TaskAssumption DEF Submitting
    <3>2. <<th, 1>> \in Unsubmitted(task[th])
      BY <2>3, <3>1 DEF Unsubmitted
    <3>3. QED  BY <1>3, <2>1, <3>2
  <2>4. CASE pc[th] \in SoleLabels \ {"submit"}
    <3>1. th \in Sole(task[th])
      BY <2>4 DEF Sole
    <3>2. Sole(task[th]) # {}
      BY <3>1
    <3>3. QED  BY <1>1, <2>1, <3>2, AloneMeans
  <2>5. QED  BY <1>4, <2>2, <2>3, <2>4
<1>5. QED  BY <1>2, <1>3, <1>4

-----------------------------------------------------------------------------
(* Who may set an error, and to which file.                                *)
LEMMA WhoFails ==
  ASSUME [Next]_vars, error' # error
  PROVE  \/ \E th \in Threads : StartReadFails(th)
         \/ \E w \in Workers : Advance(w) \/ \E t \in Tasks : ReadCompletedBadly(w, t)
         \/ \E c \in Coordinators, t \in Tasks : AddFile(c, t)
<1>1. ASSUME NEW th \in Threads, TaskStep(th)
      PROVE  error' = error \/ StartReadFails(th)
  BY <1>1 DEF TaskStep, ReadBlockFailed, TryAllocate, AllocationGivenBack, StartRead,
              Enqueue, Complete, Notify, FinishDereference
<1>2. ASSUME NEW w \in Workers, CallbackStep(w)
      PROVE  \/ error' = error \/ Advance(w)
             \/ \E t \in Tasks : ReadCompletedBadly(w, t)
  BY <1>2 DEF CallbackStep, QueueEmpty, AddToHashQueue, SubmitWork, Update, FinishHash, CountProgress,
              SendProgress, Dequeue, ReadCompleted, BeginHash
<1>3. ASSUME NEW c \in Coordinators, DialogStep(c) \/ UserStep(c) \/ DeleteStep(c)
      PROVE  error' = error \/ StartReadFails(c) \/ \E t \in Tasks : AddFile(c, t)
  BY <1>1, <1>3
  DEF Threads, DialogStep, UserStep, DeleteStep, RegisterWindow, FilesAdded, NoFiles,
      CountFile, StartProcessing, FilesStarted, NotifyOwnWindow, HandleFinished, HandleProgress,
      CancelReturns, UnregisterWindow, WindowDereference, CancelClicked, Close, DeleteBegins,
      FilesCancelled, Deleted
<1>4. QED  BY <1>1, <1>2, <1>3 DEF Next, WorkerStep, Terminated, vars, Threads

(* A file whose block is being read, hashed or finished.                   *)
Busy(t) == \/ pendingIo[t] > 0 \/ finishCounter[t] > 0
           \/ \E w \in Workers : /\ pc[w] \in {"reset", "progress", "postProgress", "advance"}
                                 /\ task[w] = t

(* It has no error yet, nor has a file before it is added.                 *)
NoErrorYet ==
  \A t \in Tasks :
    /\ Busy(t) => error[t] = "none"
    /\ pc[Owner[t]] \in {"register", "addFiles"} /\ t \notin todo[Owner[t]] => error[t] = "none"

LEMMA NoErrorInit == Init => NoErrorYet
  BY DEF Init, TaskInit, NoErrorYet

LEMMA BusyRuns == ASSUME TInv, OwnerInv, NEW t \in Tasks, Busy(t) PROVE Running(t)
<1>1. \A th \in Workers : th \in Threads
  BY DEF Threads
<1>2. QED  BY <1>1, WorkedOn DEF Busy

(* Only the start of a read makes a file busy, if it has no error.         *)
LEMMA WhoGetsBusy ==
  ASSUME TInv, [Next]_vars, NEW t \in Tasks, Busy(t)'
  PROVE  Busy(t) \/ (error[t] = "none" /\ error' = error)
<1> USE DEF Busy
<1>0. /\ pc \in [Threads -> Labels] /\ task \in [Threads -> Tasks \cup {NoTask}]
      /\ pendingIo \in [Tasks -> Nat] /\ finishCounter \in [Tasks -> Int]
      /\ Workers \subseteq Threads /\ HashCount > 0
  BY TaskAssumption DEF TInv, TypeOK, ThreadTypeOK, SystemTypeOK, TaskTypeOK, Threads
<1>1. ASSUME NEW th \in Threads, TaskStep(th) PROVE Busy(t) \/ (error[t] = "none" /\ error' = error)
  <2>1. CASE StartRead(th)
    BY <1>0, <2>1 DEF StartRead, ReturnFromRead, HasFailed
  <2>2. CASE ReadBlockFailed(th) \/ TryAllocate(th) \/ AllocationGivenBack(th)
    BY <1>0, <2>2 DEF ReadBlockFailed, TryAllocate, AllocationGivenBack
  <2>3. CASE StartReadFails(th) \/ Enqueue(th)
    BY <1>0, <2>3 DEF StartReadFails, Enqueue, ReturnFromRead
  <2>4. CASE Complete(th) \/ Notify(th) \/ FinishDereference(th)
    BY <1>0, <2>4 DEF Complete, Notify, FinishDereference, ReturnFromRead
  <2>5. QED  BY <1>1, <2>1, <2>2, <2>3, <2>4 DEF TaskStep
<1>2. ASSUME NEW w \in Workers, CallbackStep(w) PROVE Busy(t)
  <2>1. CASE QueueEmpty(w) \/ SubmitWork(w) \/ Update(w)
    BY <1>0, <2>1 DEF QueueEmpty, SubmitWork, Update
  <2>a. CASE AddToHashQueue(w)
    <3>1. task[w] = t \/ finishCounter'[t] = finishCounter[t]
      BY <1>0, <2>a DEF AddToHashQueue, ResetCounters
    <3>2. CASE task[w] = t
      BY <2>a, <3>2 DEF AddToHashQueue
    <3>3. CASE task[w] # t
      BY <1>0, <2>a, <3>1, <3>3 DEF AddToHashQueue
    <3>4. QED  BY <3>2, <3>3
  <2>2. CASE FinishHash(w)
    BY <1>0, <2>2 DEF FinishHash, LastOfRound
  <2>3. CASE CountProgress(w) \/ SendProgress(w) \/ Advance(w)
    BY <1>0, <2>3 DEF CountProgress, SendProgress, Advance
  <2>4. ASSUME NEW u \in Tasks, Dequeue(w, u) \/ BeginHash(w, u) PROVE Busy(t)
    BY <1>0, <2>4 DEF Dequeue, BeginHash
  <2>5. ASSUME NEW u \in Tasks, ReadCompletedBadly(w, u) PROVE Busy(t)
    BY <1>0, <2>5 DEF ReadCompletedBadly, ReadArrives
  <2>6. ASSUME NEW u \in Tasks, ReadCompleted(w, u) PROVE Busy(t)
    BY <1>0, <2>6 DEF ReadCompleted, ReadArrives
  <2>7. QED  BY <1>2, <2>1, <2>a, <2>2, <2>3, <2>4, <2>5, <2>6 DEF CallbackStep
<1>3. ASSUME NEW c \in Coordinators, DialogStep(c) \/ UserStep(c) \/ DeleteStep(c), ~TaskStep(c)
      PROVE  Busy(t)
  <2>1. UNCHANGED <<pendingIo, finishCounter>>
    BY <1>3
    DEF DialogStep, UserStep, DeleteStep, RegisterWindow, FilesAdded, NoFiles, AddFile,
        CountFile, StartProcessing, FilesStarted, NotifyOwnWindow, HandleFinished,
        HandleProgress, CancelReturns, UnregisterWindow, WindowDereference, CancelClicked,
        Close, DeleteBegins, FilesCancelled, Deleted
  <2>2. \A w \in Workers : pc'[w] = pc[w] /\ task'[w] = task[w]
    BY <1>0, <1>3, TaskAssumption
    DEF DialogStep, UserStep, DeleteStep, RegisterWindow, FilesAdded, NoFiles, AddFile,
        CountFile, StartProcessing, FilesStarted, NotifyOwnWindow, HandleFinished,
        HandleProgress, CancelReturns, UnregisterWindow, WindowDereference, CancelClicked,
        Close, DeleteBegins, FilesCancelled, Deleted
  <2>3. QED  BY <2>1, <2>2
<1>4. CASE UNCHANGED vars
  BY <1>4 DEF vars
<1>5. QED  BY <1>0, <1>1, <1>2, <1>3, <1>4 DEF Next, WorkerStep, Terminated, Threads

(* A window that adds files has just registered or was adding them.        *)
LEMMA WhoAdds ==
  ASSUME TInv, [Next]_vars, NEW c \in Coordinators, pc'[c] \in {"register", "addFiles"}
  PROVE  pc[c] \in {"register", "addFiles"} /\ todo[c] \subseteq todo'[c]
<1>0. /\ pc \in [Threads -> Labels] /\ todo \in [Coordinators -> SUBSET Tasks]
      /\ c \in Threads /\ c \notin Workers /\ Coordinators \subseteq Threads
  BY TaskAssumption DEF TInv, TypeOK, ThreadTypeOK, DialogTypeOK, Threads
<1>1. ASSUME NEW th \in Threads, TaskStep(th), UNCHANGED todo PROVE pc[c] = pc'[c]
  <2>1. CASE StartRead(th) \/ ReadBlockFailed(th) \/ TryAllocate(th) \/ AllocationGivenBack(th)
    BY <1>0, <2>1 DEF StartRead, ReturnFromRead, ReadBlockFailed, TryAllocate, AllocationGivenBack
  <2>2. CASE StartReadFails(th) \/ Enqueue(th)
    BY <1>0, <2>2 DEF StartReadFails, Enqueue, ReturnFromRead
  <2>3. CASE Complete(th) \/ Notify(th) \/ FinishDereference(th)
    BY <1>0, <2>3 DEF Complete, Notify, FinishDereference, ReturnFromRead
  <2>4. QED  BY <1>1, <2>1, <2>2, <2>3 DEF TaskStep
<1>2. ASSUME NEW w \in Workers, CallbackStep(w), UNCHANGED todo PROVE pc[c] = pc'[c]
  BY <1>0, <1>2
  DEF CallbackStep, QueueEmpty, AddToHashQueue, SubmitWork, Update, FinishHash, CountProgress, SendProgress,
      Advance, Dequeue, ReadCompletedBadly, ReadCompleted, BeginHash
<1>3. ASSUME NEW d \in Coordinators, DialogStep(d) \/ UserStep(d) \/ DeleteStep(d)
      PROVE  pc[c] \in {"register", "addFiles"} /\ todo[c] \subseteq todo'[c]
  <2>1. CASE UserStep(d) \/ DeleteStep(d)
    BY <1>0, <2>1 DEF UserStep, DeleteStep, CancelClicked, Close, DeleteBegins,
                      FilesCancelled, Deleted
  <2>2. ASSUME NEW t \in Tasks, AddFile(d, t) \/ CountFile(d, t)
        PROVE  pc[c] \in {"register", "addFiles"} /\ todo[c] \subseteq todo'[c]
    BY <1>0, <2>2 DEF AddFile, CountFile
  <2>3. CASE RegisterWindow(d) \/ FilesAdded(d) \/ NoFiles(d) \/ StartProcessing(d)
    BY <1>0, <2>3 DEF RegisterWindow, FilesAdded, NoFiles, StartProcessing
  <2>4. CASE \/ FilesStarted(d) \/ NotifyOwnWindow(d) \/ HandleFinished(d) \/ HandleProgress(d)
             \/ CancelReturns(d) \/ UnregisterWindow(d) \/ WindowDereference(d)
    BY <1>0, <2>4 DEF FilesStarted, NotifyOwnWindow, HandleFinished, HandleProgress,
                      CancelReturns, UnregisterWindow, WindowDereference
  <2>5. CASE TaskStep(d) /\ UNCHANGED dialogVars
    BY <1>0, <1>1, <2>5
  <2>6. QED  BY <1>3, <2>1, <2>2, <2>3, <2>4, <2>5 DEF DialogStep
<1>4. CASE UNCHANGED vars
  BY <1>4 DEF vars
<1>5. QED  BY <1>0, <1>1, <1>2, <1>3, <1>4 DEF Next, WorkerStep, Terminated, Threads

LEMMA NoErrorStep ==
  ASSUME TInv, OwnerInv, NoErrorYet, [Next]_vars
  PROVE  NoErrorYet'
<1>0. /\ TypeOK /\ OneOwner /\ RoundCounted /\ Waiting /\ AtWork
      /\ pc \in [Threads -> Labels] /\ task \in [Threads -> Tasks \cup {NoTask}]
      /\ error \in [Tasks -> {"none", "failed", "cancelled"}]
      /\ stage \in [Tasks -> Stages]
      /\ todo \in [Coordinators -> SUBSET Tasks]
      /\ pendingIo \in [Tasks -> Nat] /\ finishCounter \in [Tasks -> Int]
      /\ Workers \subseteq Threads /\ Coordinators \subseteq Threads
      /\ \A t \in Tasks : Owner[t] \in Coordinators
  BY TaskAssumption, CoordinatorAssumption
  DEF TInv, OwnerInv, TypeOK, ThreadTypeOK, TaskTypeOK, SystemTypeOK, DialogTypeOK, Threads
<1>1. CASE error' = error
  BY <1>0, <1>1, WhoGetsBusy, WhoAdds DEF NoErrorYet
<1>2. ASSUME NEW t \in Tasks, Running(t)
      PROVE  pc[Owner[t]] \notin {"register", "addFiles"}
  BY <1>0, <1>2 DEF Waiting, Running
<1>3. ASSUME NEW t \in Tasks, Running(t), ~Busy(t)',
             \A u \in Tasks \ {t} : error'[u] = error[u]
      PROVE  NoErrorYet'
  <2>1. ASSUME NEW u \in Tasks, Busy(u)' PROVE error'[u] = "none"
    BY <1>3, <2>1, WhoGetsBusy DEF NoErrorYet
  <2>2. ASSUME NEW u \in Tasks, pc'[Owner[u]] \in {"register", "addFiles"},
               u \notin todo'[Owner[u]]
        PROVE  error'[u] = "none"
    BY <1>0, <1>2, <1>3, <2>2, WhoAdds DEF NoErrorYet
  <2>3. QED  BY <2>1, <2>2 DEF NoErrorYet
<1>4. ASSUME NEW th \in Threads, StartReadFails(th) PROVE NoErrorYet'
  <2>1. PICK t \in Tasks : t = task[th]
    BY <1>0, <1>4 DEF StartReadFails, AtWork
  <2>2. th \in Sole(t) /\ Running(t)
    BY <1>0, <1>4, <2>1, WorkedOn DEF StartReadFails, Sole
  <2>3. pendingIo[t] = 0 /\ finishCounter[t] = 0 /\ Cardinality(Sole(t)) = 1
    BY <1>0, <2>2, AloneMeans
  <2>4. Sole(t) = {th}
    BY <2>2, <2>3, SetsFinite, FS_Singleton
  <2>5. ~Busy(t)'
    BY <1>0, <1>4, <2>1, <2>3, <2>4 DEF StartReadFails, Busy, Sole
  <2>6. \A u \in Tasks \ {t} : error'[u] = error[u]
    BY <1>0, <1>4, <2>1 DEF StartReadFails
  <2>7. QED  BY <1>3, <2>2, <2>5, <2>6
<1>5. ASSUME NEW w \in Workers, Advance(w) PROVE NoErrorYet'
  <2>1. PICK t \in Tasks : t = task[w]
    BY <1>0, <1>5 DEF Advance, AtWork
  <2>2. w \in Sole(t) /\ Running(t)
    BY <1>0, <1>5, <2>1, WorkedOn DEF Advance, Sole
  <2>3. pendingIo[t] = 0 /\ finishCounter[t] = 0 /\ Cardinality(Sole(t)) = 1
    BY <1>0, <2>2, AloneMeans
  <2>4. Sole(t) = {w}
    BY <2>2, <2>3, SetsFinite, FS_Singleton
  <2>5. ~Busy(t)'
    BY <1>0, <1>5, <2>1, <2>3, <2>4 DEF Advance, Busy, Sole
  <2>6. \A u \in Tasks \ {t} : error'[u] = error[u]
    BY <1>0, <1>5, <2>1 DEF Advance, MarkCancelled
  <2>7. QED  BY <1>3, <2>2, <2>5, <2>6
<1>6. ASSUME NEW w \in Workers, NEW t \in Tasks, ReadCompletedBadly(w, t) PROVE NoErrorYet'
  <2>0. pendingIo[t] > 0
    BY <1>6 DEF ReadCompletedBadly, ReadArrives
  <2>5. /\ Running(t) /\ Sole(t) = {} /\ finishCounter[t] = 0
        /\ readQueue[t] + pendingIo[t] = 1
    BY <1>0, <2>0, PendingMeans
  <2>1. Running(t) /\ pendingIo[t] = 1 /\ Sole(t) = {} /\ finishCounter[t] = 0
    BY <1>0, <2>0, <2>5, CountTypes
  <2>2. ~Busy(t)'
    BY <1>0, <1>6, <2>1 DEF ReadCompletedBadly, Busy, Sole
  <2>3. \A u \in Tasks \ {t} : error'[u] = error[u]
    BY <1>0, <1>6 DEF ReadCompletedBadly
  <2>4. QED  BY <1>3, <2>1, <2>2, <2>3
<1>7. ASSUME NEW c \in Coordinators, NEW t \in Tasks, AddFile(c, t) PROVE NoErrorYet'
  <2>1. /\ Owner[t] = c /\ stage[t] = "new"
        /\ t \in todo'[c] /\ UNCHANGED <<pendingIo, finishCounter, pc, task>>
        /\ \A u \in Tasks \ {t} : error'[u] = error[u]
    BY <1>0, <1>7 DEF AddFile, Owned, Waiting
  <2>2. ~Busy(t)'
    BY <2>1, BusyRuns DEF Busy, Running
  <2>3. ASSUME NEW u \in Tasks, Busy(u)' PROVE error'[u] = "none"
    BY <2>1, <2>2, <2>3, WhoGetsBusy DEF NoErrorYet
  <2>4. ASSUME NEW u \in Tasks, pc'[Owner[u]] \in {"register", "addFiles"},
               u \notin todo'[Owner[u]]
        PROVE  error'[u] = "none"
    BY <1>0, <2>1, <2>4, WhoAdds DEF NoErrorYet
  <2>5. QED  BY <2>3, <2>4 DEF NoErrorYet
<1>8. QED  BY <1>1, <1>4, <1>5, <1>6, <1>7, WhoFails

LEMMA NoErrorInvariant == Spec => [](TInv /\ OwnerInv /\ NoErrorYet)
<1>1. TInv /\ OwnerInv /\ NoErrorYet /\ [Next]_vars => NoErrorYet'
  BY NoErrorStep
<1>2. QED  BY <1>1, NoErrorInit, OwnerInvariant, PTL DEF Spec

(* An error is set once.                                                  *)
LEMMA ErrorStays ==
  ASSUME TInv, OwnerInv, NoErrorYet, [Next]_vars
  PROVE  \A t \in Tasks : error[t] # "none" => error'[t] = error[t]
<1> DEFINE Sticks == \A t \in Tasks : error[t] # "none" => error'[t] = error[t]
<1>0. /\ error \in [Tasks -> {"none", "failed", "cancelled"}]
      /\ Workers \subseteq Threads /\ AtWork /\ Waiting
  BY DEF TInv, OwnerInv, TypeOK, TaskTypeOK, Threads
<1>1. CASE error' = error
  BY <1>1
<1>2. ASSUME NEW th \in Threads, StartReadFails(th) PROVE Sticks
  BY <1>0, <1>2 DEF StartReadFails, HasFailed
<1>3. ASSUME NEW w \in Workers, Advance(w) PROVE Sticks
  <2>1. task[w] \in Tasks /\ Busy(task[w])
    BY <1>0, <1>3 DEF Advance, AtWork, Busy
  <2>2. error[task[w]] = "none"
    BY <2>1 DEF NoErrorYet
  <2>3. QED  BY <1>0, <1>3, <2>1, <2>2 DEF Advance, MarkCancelled
<1>4. ASSUME NEW w \in Workers, NEW t \in Tasks, ReadCompletedBadly(w, t) PROVE Sticks
  <2>1. Busy(t)
    BY <1>4 DEF ReadCompletedBadly, ReadArrives, Busy
  <2>2. QED  BY <1>0, <1>4, <2>1 DEF ReadCompletedBadly, NoErrorYet
<1>5. ASSUME NEW c \in Coordinators, NEW t \in Tasks, AddFile(c, t) PROVE Sticks
  <2>1. error[t] = "none"
    BY <1>5 DEF AddFile, Owned, NoErrorYet
  <2>2. QED  BY <1>0, <1>5, <2>1 DEF AddFile
<1>6. QED  BY <1>1, <1>2, <1>3, <1>4, <1>5, WhoFails

(* Neither a cancellation nor a later failure replaces the reason a file   *)
(* failed for: whoever sets _error holds the file alone and finds none     *)
(* (FileHashTask.cpp, the constructor included).                           *)
THEOREM ErrorSticksAlways == Spec => ErrorSticks
<1> DEFINE Sticks == \A t \in Tasks : error[t] # "none" => error'[t] = error[t]
<1>1. TInv /\ OwnerInv /\ NoErrorYet /\ [Next]_vars => [Sticks]_vars
  BY ErrorStays
<1>2. QED  BY <1>1, NoErrorInvariant, PTL DEF Spec, ErrorSticks

-----------------------------------------------------------------------------
(* What is left of file t is as it was.                                    *)
Same(t) == UNCHANGED <<stage[t], error[t], offset[t], block[t], digest[t], startCounter[t],
                       finishCounter[t], pendingIo[t], pendingWork[t], readQueue[t]>>

(* A step changes files only that run or have not been started.            *)
Untouched == \A t \in Tasks : stage[t] = "done" => Same(t)

LEMMA DoneStays == ASSUME TInv, OwnerInv, [Next]_vars PROVE Untouched
<1> USE DEF Same, Untouched
<1>0. /\ AtWork /\ Waiting
      /\ error \in [Tasks -> {"none", "failed", "cancelled"}]
      /\ offset \in [Tasks -> Nat] /\ stage \in [Tasks -> Stages]
      /\ block \in [Tasks -> Blocks \cup {NoBlock}]
      /\ startCounter \in [Tasks -> Int] /\ finishCounter \in [Tasks -> Int]
      /\ digest \in [Tasks -> [Contexts -> Seq(Data)]]
      /\ readQueue \in [Tasks -> Nat] /\ pendingIo \in [Tasks -> Nat]
      /\ pendingWork \in [Tasks -> Nat]
      /\ todo \in [Coordinators -> SUBSET Tasks]
      /\ Workers \subseteq Threads /\ Coordinators \subseteq Threads
  BY DEF TInv, OwnerInv, TypeOK, TaskTypeOK, SystemTypeOK, DialogTypeOK, Threads
<1>1. \A th \in Threads : pc[th] \in TaskLabels =>
        task[th] \in Tasks /\ stage[task[th]] # "done"
  BY <1>0, WorkedOn DEF AtWork, Running
<1>2. \A t \in Tasks : pendingIo[t] > 0 \/ readQueue[t] > 0 \/ pendingWork[t] > 0
                        => stage[t] # "done"
  BY WorkedOn DEF Running
<1>3. ASSUME NEW th \in Threads, TaskStep(th) PROVE Untouched
  <2>1. CASE StartRead(th) \/ ReadBlockFailed(th) \/ TryAllocate(th) \/ AllocationGivenBack(th)
    BY <1>0, <1>1, <2>1 DEF StartRead, ReadBlockFailed, TryAllocate, AllocationGivenBack
  <2>2. CASE StartReadFails(th) \/ Enqueue(th)
    BY <1>0, <1>1, <2>2 DEF StartReadFails, Enqueue
  <2>3. CASE Complete(th) \/ Notify(th) \/ FinishDereference(th)
    BY <1>0, <1>1, <2>3 DEF Complete, Notify, FinishDereference
  <2>4. QED  BY <1>3, <2>1, <2>2, <2>3 DEF TaskStep
<1>4. ASSUME NEW w \in Workers, CallbackStep(w) PROVE Untouched
  <2>1. CASE QueueEmpty(w) \/ SubmitWork(w) \/ FinishHash(w) \/ CountProgress(w) \/ SendProgress(w)
    BY <1>0, <1>1, <2>1 DEF QueueEmpty, SubmitWork, FinishHash, CountProgress, SendProgress
  <2>a. CASE AddToHashQueue(w)
    BY <1>0, <1>1, <2>a DEF AddToHashQueue, ResetCounters
  <2>2. CASE Update(w)
    BY <1>0, <1>1, <2>2 DEF Update
  <2>3. CASE Advance(w)
    BY <1>0, <1>1, <2>3 DEF Advance, MarkCancelled
  <2>4. ASSUME NEW t \in Tasks, Dequeue(w, t) \/ BeginHash(w, t) PROVE Untouched
    BY <1>0, <1>2, <2>4 DEF Dequeue, BeginHash
  <2>5. ASSUME NEW t \in Tasks, ReadCompletedBadly(w, t) \/ ReadCompleted(w, t) PROVE Untouched
    BY <1>0, <1>2, <2>5 DEF ReadCompletedBadly, ReadCompleted, ReadArrives
  <2>6. QED  BY <1>4, <2>1, <2>a, <2>2, <2>3, <2>4, <2>5 DEF CallbackStep
<1>5. ASSUME NEW c \in Coordinators, DialogStep(c) \/ UserStep(c) \/ DeleteStep(c)
      PROVE  Untouched
  <2>1. ASSUME NEW t \in Tasks, AddFile(c, t) \/ CountFile(c, t) PROVE Untouched
    BY <1>0, <2>1 DEF AddFile, CountFile, Owned, Waiting
  <2>2. CASE StartProcessing(c)
    BY <1>0, <2>2 DEF StartProcessing, Waiting, AtWork
  <2>3. CASE \/ RegisterWindow(c) \/ FilesAdded(c) \/ NoFiles(c) \/ FilesStarted(c)
             \/ NotifyOwnWindow(c) \/ HandleFinished(c) \/ HandleProgress(c)
             \/ CancelReturns(c) \/ UnregisterWindow(c) \/ WindowDereference(c)
             \/ UserStep(c) \/ DeleteStep(c)
    BY <2>3
    DEF RegisterWindow, FilesAdded, NoFiles, FilesStarted, NotifyOwnWindow, HandleFinished,
        HandleProgress, CancelReturns, UnregisterWindow, WindowDereference, UserStep, DeleteStep,
        CancelClicked, Close, DeleteBegins, FilesCancelled, Deleted
  <2>4. QED  BY <1>0, <1>3, <1>5, <2>1, <2>2, <2>3 DEF DialogStep
<1>6. CASE UNCHANGED vars
  BY <1>6 DEF vars
<1> HIDE DEF Same, Untouched
<1>7. QED  BY <1>0, <1>3, <1>4, <1>5, <1>6 DEF Next, WorkerStep, Terminated

(* "Do NOT use this after calling Finish()": no callback, work item or     *)
(* entry of the read queue is left that could, whatever thread is late     *)
(* (FileHashTask.h:117).                                                   *)
THEOREM UntouchedAfterFinishAlways == Spec => UntouchedAfterFinish
<1> DEFINE Kept == \A t \in Tasks : stage[t] = "done" =>
                     UNCHANGED <<stage[t], error[t], offset[t], block[t], digest[t],
                                 startCounter[t], finishCounter[t], pendingIo[t],
                                 pendingWork[t], readQueue[t]>>
<1>1. TInv /\ OwnerInv /\ [Next]_vars => [Kept]_vars
  BY DoneStays DEF Untouched, Same
<1>2. QED  BY <1>1, OwnerInvariant, PTL DEF Spec, UntouchedAfterFinish

-----------------------------------------------------------------------------
(* The labels of ReadBlockAsync and Finish.                                *)
Reading == {"read", "giveBack", "enqueue", "complete", "notify", "dereference"}

(* What a window's own steps leave alone, and where they lead.             *)
LEMMA DialogQuiet ==
  ASSUME TInv, NEW c \in Coordinators, DialogStep(c) \/ UserStep(c) \/ DeleteStep(c),
         ~TaskStep(c)
  PROVE  /\ UNCHANGED <<hand, arg, offset, block, startCounter, finishCounter, digest,
                         osVars, poolVars>>
         /\ \A th \in Threads \ {c} : pc'[th] = pc[th] /\ task'[th] = task[th]
         /\ pc[c] \in (TaskLabels \cup WorkerLabels) \ {"notify"} =>
              pc'[c] = pc[c] /\ task'[c] = task[c]
         /\ pc'[c] \in TaskLabels =>
              /\ task'[c] = task[c]
              /\ \/ pc'[c] = pc[c]
                 \/ pc[c] = "start" /\ pc'[c] = "read"
                 \/ pc[c] = "notify" /\ pc'[c] = "dereference"
<1>0. pc \in [Threads -> Labels] /\ task \in [Threads -> Tasks \cup {NoTask}] /\ c \in Threads
  BY DEF TInv, TypeOK, ThreadTypeOK, Threads
<1>1. CASE UserStep(c) \/ DeleteStep(c)
  BY <1>0, <1>1 DEF UserStep, DeleteStep, CancelClicked, Close, DeleteBegins, FilesCancelled,
                    Deleted
<1>2. CASE \E t \in Tasks : AddFile(c, t) \/ CountFile(c, t)
  BY <1>0, <1>2 DEF AddFile, CountFile
<1>3. CASE StartProcessing(c) \/ NotifyOwnWindow(c)
  BY <1>0, <1>3 DEF StartProcessing, NotifyOwnWindow
<1>4. CASE \/ RegisterWindow(c) \/ FilesAdded(c) \/ NoFiles(c) \/ FilesStarted(c)
           \/ HandleFinished(c) \/ HandleProgress(c) \/ CancelReturns(c)
           \/ UnregisterWindow(c) \/ WindowDereference(c)
  BY <1>0, <1>4 DEF RegisterWindow, FilesAdded, NoFiles, FilesStarted, HandleFinished,
                    HandleProgress, CancelReturns, UnregisterWindow, WindowDereference
<1>5. QED  BY <1>1, <1>2, <1>3, <1>4 DEF DialogStep

(* What ReadBlockAsync and Finish leave alone.                             *)
LEMMA TaskQuiet ==
  ASSUME TInv, NEW th \in Threads, TaskStep(th)
  PROVE  /\ UNCHANGED <<arg, size, offset, cancelled, startCounter, finishCounter, digest,
                         pendingWork, content>>
         /\ pc[th] \in Reading /\ pc'[th] \in Reading \cup {"processing", "drain", "idle"}
         /\ pc'[th] \in Reading => task'[th] = task[th]
         /\ \A t \in Tasks \ {task[th]} : block'[t] = block[t]
<1> USE DEF Reading
<1>0. /\ pc \in [Threads -> Labels] /\ task \in [Threads -> Tasks \cup {NoTask}]
      /\ block \in [Tasks -> Blocks \cup {NoBlock}]
  BY DEF TInv, TypeOK, ThreadTypeOK, TaskTypeOK
<1>1. CASE StartRead(th) \/ ReadBlockFailed(th) \/ AllocationGivenBack(th) \/ StartReadFails(th)
  BY <1>0, <1>1 DEF StartRead, ReturnFromRead, ReadBlockFailed, AllocationGivenBack, StartReadFails
<1>2. CASE TryAllocate(th) \/ Enqueue(th)
  BY <1>0, <1>2 DEF TryAllocate, Enqueue, ReturnFromRead
<1>3. CASE Complete(th) \/ Notify(th) \/ FinishDereference(th)
  BY <1>0, <1>3 DEF Complete, Notify, FinishDereference, ReturnFromRead
<1>4. QED  BY <1>1, <1>2, <1>3 DEF TaskStep

(* A thread that runs leaves the others where they are.                    *)
LEMMA OthersStay ==
  ASSUME TInv, NEW th \in Threads, TaskStep(th) \/ CallbackStep(th)
  PROVE  \A ti \in Threads \ {th} :
           pc'[ti] = pc[ti] /\ task'[ti] = task[ti] /\ hand'[ti] = hand[ti] /\ arg'[ti] = arg[ti]
<1>0. /\ pc \in [Threads -> Labels] /\ task \in [Threads -> Tasks \cup {NoTask}]
      /\ hand \in [Threads -> Blocks \cup {NoBlock}] /\ arg \in [Threads -> Int]
  BY DEF TInv, TypeOK, ThreadTypeOK
<1>1. CASE \/ StartRead(th) \/ ReadBlockFailed(th) \/ TryAllocate(th) \/ AllocationGivenBack(th)
           \/ StartReadFails(th) \/ Enqueue(th)
  BY <1>0, <1>1 DEF StartRead, ReturnFromRead, ReadBlockFailed, TryAllocate,
                    AllocationGivenBack, StartReadFails, Enqueue
<1>2. CASE Complete(th) \/ Notify(th) \/ FinishDereference(th)
  BY <1>0, <1>2 DEF Complete, Notify, FinishDereference, ReturnFromRead
<1>3. CASE QueueEmpty(th) \/ AddToHashQueue(th) \/ SubmitWork(th) \/ Update(th) \/ FinishHash(th)
  BY <1>0, <1>3 DEF QueueEmpty, AddToHashQueue, SubmitWork, Update, FinishHash
<1>4. CASE CountProgress(th) \/ SendProgress(th) \/ Advance(th)
  BY <1>0, <1>4 DEF CountProgress, SendProgress, Advance
<1>5. ASSUME NEW t \in Tasks, \/ Dequeue(th, t) \/ ReadCompletedBadly(th, t)
                              \/ ReadCompleted(th, t) \/ BeginHash(th, t)
      PROVE  \A ti \in Threads \ {th} :
               pc'[ti] = pc[ti] /\ task'[ti] = task[ti] /\ hand'[ti] = hand[ti] /\ arg'[ti] = arg[ti]
  BY <1>0, <1>5 DEF Dequeue, ReadCompletedBadly, ReadCompleted, BeginHash
<1>6. QED  BY <1>1, <1>2, <1>3, <1>4, <1>5 DEF TaskStep, CallbackStep

(* The thread that is in a file is the only one, and nothing else is under *)
(* way for the file.                                                       *)
LEMMA InSole ==
  ASSUME TInv, OwnerInv, NEW th \in Threads, pc[th] \in SoleLabels \ {"submit"}
  PROVE  /\ task[th] \in Tasks /\ Running(task[th])
         /\ Sole(task[th]) = {th} /\ Hashing(task[th]) = {} /\ Unsubmitted(task[th]) = {}
         /\ readQueue[task[th]] = 0 /\ pendingIo[task[th]] = 0 /\ pendingWork[task[th]] = 0
         /\ finishCounter[task[th]] = 0
<1>1. TypeOK /\ AtWork /\ OneOwner /\ RoundCounted
  BY DEF TInv, OwnerInv
<1>2. PICK t \in Tasks : t = task[th]
  BY <1>1 DEF AtWork
<1>3. th \in Sole(t)
  BY <1>2 DEF Sole
<1>4. Cardinality(Sole(t)) = 1 /\ IsFiniteSet(Sole(t))
  BY <1>1, <1>3, AloneMeans, SetsFinite
<1>5. Sole(t) = {th}
  BY <1>3, <1>4, FS_Singleton
<1>6. QED  BY <1>1, <1>2, <1>3, <1>5, AloneMeans

LEMMA ReaderNotBusy ==
  ASSUME TInv, OwnerInv, NEW th \in Threads,
         pc[th] \in SoleLabels \ {"reset", "submit", "progress", "postProgress", "advance"}
  PROVE  ~Busy(task[th])
<1>1. /\ Sole(task[th]) = {th} /\ pendingIo[task[th]] = 0 /\ finishCounter[task[th]] = 0
  BY InSole
<1>2. ASSUME NEW w \in Workers, pc[w] \in {"reset", "progress", "postProgress", "advance"},
             task[w] = task[th]
      PROVE  FALSE
  BY <1>1, <1>2 DEF Sole, Threads
<1>3. QED  BY <1>1, <1>2 DEF Busy

(* A file one of whose work items is left is in its round.                 *)
LEMMA InRound ==
  ASSUME TInv, OwnerInv, NEW th \in Threads, pc[th] \in HashLabels \cup {"submit"}
  PROVE  /\ task[th] \in Tasks /\ finishCounter[task[th]] > 0
         /\ pendingIo[task[th]] = 0 /\ Sole(task[th]) = {}
<1>1. TypeOK /\ AtWork /\ OneOwner /\ RoundCounted /\ Submitting
  BY DEF TInv, OwnerInv
<1>2. PICK t \in Tasks : t = task[th]
  BY <1>1 DEF AtWork
<1>3. CASE pc[th] \in HashLabels
  <2>1. th \in Hashing(t)
    BY <1>2, <1>3 DEF Hashing
  <2>2. Cardinality(Hashing(t)) # 0
    BY <2>1, SetsFinite, FS_EmptySet
  <2>3. finishCounter[t] > 0
    BY <1>1, <2>2, SetsFinite, CountTypes DEF RoundCounted, ItemsLeft
  <2>4. pendingIo[t] = 0 /\ Sole(t) = {}
    BY <1>1, <2>3, PendingMeans, AloneMeans, CountTypes
  <2>5. QED  BY <1>2, <2>3, <2>4
<1>4. CASE pc[th] = "submit"
  <2>1. <<th, 1>> \in Unsubmitted(t)
    BY <1>1, <1>2, <1>4, TaskAssumption DEF Unsubmitted, Submitting
  <2>2. Cardinality(Unsubmitted(t)) # 0
    BY <2>1, SetsFinite, FS_EmptySet
  <2>3. finishCounter[t] > 0
    BY <1>1, <2>2, SetsFinite, CountTypes DEF RoundCounted, ItemsLeft
  <2>4. pendingIo[t] = 0 /\ Sole(t) = {}
    BY <1>1, <2>3, PendingMeans, AloneMeans, CountTypes
  <2>5. QED  BY <1>2, <2>3, <2>4
<1>5. QED  BY <1>3, <1>4

-----------------------------------------------------------------------------
(* A step that leaves the counters, the digests and the offsets alone, and *)
(* every worker that has a block in its hands where it is.                 *)
HasBlock == {"reset", "progress", "postProgress", "advance"}
LeavesAlone ==
  /\ UNCHANGED <<finishCounter, digest, offset>>
  /\ \A w \in Workers : pc'[w] \in HasBlock => pc'[w] = pc[w] /\ task'[w] = task[w]

LEMMA Undisturbed ==
  ASSUME LeavesAlone, NEW t \in Tasks, ~UnderWay(t)
  PROVE  ~UnderWay(t)' /\ UNCHANGED <<digest[t], offset[t]>>
  BY DEF LeavesAlone, HasBlock, UnderWay

(* The steps of a worker that are about a block are of a file with a block *)
(* under way; but a read that completes is of a file not cancelled.        *)
LEMMA CancelledIsLeft ==
  ASSUME TInv, OwnerInv, NEW w \in Workers, CallbackStep(w), NEW t \in Tasks,
         cancelled[t], ~UnderWay(t)
  PROVE  ~UnderWay(t)' /\ UNCHANGED <<digest[t], offset[t]>>
<1>0. /\ pc \in [Threads -> Labels] /\ task \in [Threads -> Tasks \cup {NoTask}]
      /\ finishCounter \in [Tasks -> Int] /\ offset \in [Tasks -> Nat]
      /\ digest \in [Tasks -> [Contexts -> Seq(Data)]]
      /\ Workers \subseteq Threads /\ w \in Threads
  BY DEF TInv, TypeOK, ThreadTypeOK, TaskTypeOK, Threads
<1>1. \A v \in Workers \ {w} : pc'[v] = pc[v] /\ task'[v] = task[v]
  BY <1>0, OthersStay
<1>2. CASE pc[w] \in {"reset", "update", "finishRound", "progress", "postProgress", "advance"}
  <2>1. task[w] # t
    <3>1. CASE pc[w] \in {"update", "finishRound"}
      BY <1>0, <3>1, InRound DEF UnderWay
    <3>2. QED  BY <1>2, <3>1 DEF UnderWay
  <2>2. /\ UNCHANGED <<digest[t], offset[t], finishCounter[t]>>
        /\ pc'[w] \in HasBlock => task'[w] = task[w]
    <3>1. CASE AddToHashQueue(w) \/ Update(w) \/ FinishHash(w)
      BY <1>0, <2>1, <3>1 DEF AddToHashQueue, ResetCounters, Update, FinishHash, HasBlock
    <3>2. CASE CountProgress(w) \/ SendProgress(w) \/ Advance(w)
      BY <1>0, <2>1, <3>2 DEF CountProgress, SendProgress, Advance, HasBlock
    <3>3. QED
      BY <1>2, <3>1, <3>2 DEF CallbackStep, QueueEmpty, SubmitWork, Dequeue, ReadCompletedBadly,
                              ReadCompleted, ReadArrives, BeginHash
  <2>3. QED  BY <1>1, <2>1, <2>2 DEF UnderWay, HasBlock
<1>3. ASSUME NEW u \in Tasks, ReadCompleted(w, u)
      PROVE  ~UnderWay(t)' /\ UNCHANGED <<digest[t], offset[t]>>
  <2>1. u # t /\ task'[w] = u /\ UNCHANGED <<digest, offset, finishCounter>>
    BY <1>0, <1>3 DEF ReadCompleted, MayHash
  <2>2. QED  BY <1>1, <2>1 DEF UnderWay
<1>4. CASE QueueEmpty(w) \/ SubmitWork(w)
  BY <1>0, <1>1, <1>4, Undisturbed DEF QueueEmpty, SubmitWork, LeavesAlone, HasBlock
<1>5. ASSUME NEW u \in Tasks, Dequeue(w, u) \/ ReadCompletedBadly(w, u) \/ BeginHash(w, u)
      PROVE  LeavesAlone
  BY <1>0, <1>1, <1>5 DEF Dequeue, ReadCompletedBadly, ReadArrives, BeginHash, LeavesAlone, HasBlock
<1>6. CASE Update(w) \/ FinishHash(w) \/ CountProgress(w) \/ SendProgress(w) \/ Advance(w)
           \/ AddToHashQueue(w)
  BY <1>2, <1>6 DEF Update, FinishHash, CountProgress, SendProgress, Advance, AddToHashQueue
<1>7. QED  BY <1>3, <1>4, <1>5, <1>6, Undisturbed DEF CallbackStep

(* Once a file is cancelled and the block that was on its way through the  *)
(* contexts, if any, is through, nothing more of it is hashed, whichever   *)
(* thread is between two of its steps (OverlappedCompletionRoutine).       *)
THEOREM CancelStopsHashingAlways == Spec => CancelStopsHashing
<1> DEFINE Stops == \A t \in Tasks : cancelled[t] /\ ~UnderWay(t) =>
                      ~UnderWay(t)' /\ UNCHANGED <<digest[t], offset[t]>>
<1>1. ASSUME TInv, OwnerInv, [Next]_vars PROVE Stops
  <2>0. pc \in [Threads -> Labels] /\ Workers \subseteq Threads /\ Coordinators \subseteq Threads
    BY <1>1 DEF TInv, TypeOK, ThreadTypeOK, Threads
  <2>1. ASSUME NEW w \in Workers, CallbackStep(w) PROVE Stops
    BY <1>1, <2>1, CancelledIsLeft
  <2>2. ASSUME NEW th \in Threads, TaskStep(th) PROVE LeavesAlone
    <3>1. /\ UNCHANGED <<finishCounter, digest, offset>> /\ pc'[th] \notin HasBlock
      BY <2>0, <2>2 DEF TaskStep, ReadBlockFailed, TryAllocate, AllocationGivenBack, StartRead,
                        StartReadFails, Enqueue, Complete, Notify, FinishDereference,
                        ReturnFromRead, HasBlock
    <3>2. \A ti \in Threads \ {th} : pc'[ti] = pc[ti] /\ task'[ti] = task[ti]
      BY <1>1, <2>2, OthersStay
    <3>3. QED  BY <2>0, <3>1, <3>2 DEF LeavesAlone
  <2>3. ASSUME NEW c \in Coordinators, DialogStep(c) \/ UserStep(c) \/ DeleteStep(c), ~TaskStep(c)
        PROVE  LeavesAlone
    <3>1. \A w \in Workers : w \in Threads \ {c}
      BY <2>0, TaskAssumption
    <3>2. QED  BY <1>1, <2>3, <3>1, DialogQuiet DEF LeavesAlone
  <2>4. LeavesAlone => Stops
    BY Undisturbed
  <2>5. CASE UNCHANGED vars
    BY <2>4, <2>5 DEF vars, LeavesAlone
  <2>6. QED
    BY <1>1, <2>0, <2>1, <2>2, <2>3, <2>4, <2>5 DEF Next, WorkerStep, Terminated, Threads
<1>2. TInv /\ OwnerInv /\ [Next]_vars => [Stops]_vars
  BY <1>1
<1>3. QED  BY <1>2, OwnerInvariant, PTL DEF Spec, CancelStopsHashing

-----------------------------------------------------------------------------
(* How far a file is in its life shows in the threads: it is completed as  *)
(* long as one notifies or drops its reference, counted while its window   *)
(* is about to start it; and a window's thread works on its own files.     *)
Completing ==
  \A t \in Tasks : stage[t] = "completed" <=>
    \E th \in Threads : pc[th] \in {"notify", "dereference"} /\ task[th] = t

CountedStarts ==
  \A t \in Tasks : stage[t] = "counted" => pc[Owner[t]] = "start" /\ task[Owner[t]] = t

OwnThread == \A c \in Coordinators : pc[c] \in TaskLabels => Owner[task[c]] = c

StageInv == Completing /\ CountedStarts /\ OwnThread

LEMMA StageInit == Init => StageInv
<1> SUFFICES ASSUME Init PROVE StageInv
  OBVIOUS
<1>1. \A th \in Threads : pc[th] \notin TaskLabels
  BY DEF Init
<1>2. \A t \in Tasks : stage[t] = "new"
  BY DEF Init, TaskInit
<1>3. QED  BY <1>1, <1>2 DEF StageInv, Completing, CountedStarts, OwnThread, Threads

(* Who moves a file on, adds it, starts it or finishes it.                 *)
LEMMA WhoMovesOn ==
  ASSUME [Next]_vars
  PROVE  /\ offset' = offset \/ \E w \in Workers : Advance(w)
         /\ size' = size \/ \E c \in Coordinators, t \in Tasks : AddFile(c, t)
         /\ \/ stage' = stage
            \/ \E th \in Threads : Complete(th) \/ FinishDereference(th)
            \/ \E c \in Coordinators : StartProcessing(c) \/ \E t \in Tasks : CountFile(c, t)
<1> USE DEF Threads
<1>1. ASSUME NEW th \in Threads, TaskStep(th)
      PROVE  UNCHANGED <<offset, size>> /\ (stage' = stage \/ Complete(th) \/ FinishDereference(th))
  BY <1>1 DEF TaskStep, ReadBlockFailed, TryAllocate, AllocationGivenBack, StartRead,
              StartReadFails, Enqueue, Complete, Notify, FinishDereference
<1>2. ASSUME NEW w \in Workers, CallbackStep(w)
      PROVE  UNCHANGED <<size, stage>> /\ (offset' = offset \/ Advance(w))
  BY <1>2 DEF CallbackStep, QueueEmpty, AddToHashQueue, SubmitWork, Update, FinishHash, CountProgress,
              SendProgress, Advance, Dequeue, ReadCompletedBadly, ReadCompleted, BeginHash
<1>3. ASSUME NEW c \in Coordinators, DialogStep(c) \/ UserStep(c) \/ DeleteStep(c), ~TaskStep(c)
      PROVE  /\ offset' = offset
             /\ size' = size \/ \E t \in Tasks : AddFile(c, t)
             /\ stage' = stage \/ StartProcessing(c) \/ \E t \in Tasks : CountFile(c, t)
  BY <1>3
  DEF DialogStep, UserStep, DeleteStep, RegisterWindow, FilesAdded, NoFiles, AddFile,
      CountFile, StartProcessing, FilesStarted, NotifyOwnWindow, HandleFinished, HandleProgress,
      CancelReturns, UnregisterWindow, WindowDereference, CancelClicked, Close, DeleteBegins,
      FilesCancelled, Deleted
<1>4. QED  BY <1>1, <1>2, <1>3 DEF Next, WorkerStep, Terminated, vars

(* ... and who enters or leaves the end of Finish.                         *)
LEMMA WhoEnds ==
  ASSUME TInv, [Next]_vars
  PROVE  \/ \E th \in Threads : Complete(th) \/ Notify(th) \/ FinishDereference(th)
         \/ \E c \in Coordinators : NotifyOwnWindow(c)
         \/ \A th \in Threads :
              pc[th] \in {"notify", "dereference"} \/ pc'[th] \in {"notify", "dereference"} =>
                pc'[th] = pc[th] /\ task'[th] = task[th]
<1>0. /\ pc \in [Threads -> Labels] /\ Workers \subseteq Threads /\ Coordinators \subseteq Threads
  BY DEF TInv, TypeOK, ThreadTypeOK, Threads
<1>1. ASSUME NEW th \in Threads, TaskStep(th),
             ~(Complete(th) \/ Notify(th) \/ FinishDereference(th))
      PROVE  /\ pc[th] \notin {"notify", "dereference"} /\ pc'[th] \notin {"notify", "dereference"}
             /\ \A ti \in Threads \ {th} : pc'[ti] = pc[ti] /\ task'[ti] = task[ti]
  <2>1. \A ti \in Threads \ {th} : pc'[ti] = pc[ti] /\ task'[ti] = task[ti]
    BY <1>1, OthersStay
  <2>2. QED
    BY <1>0, <1>1, <2>1 DEF TaskStep, ReadBlockFailed, TryAllocate, AllocationGivenBack, StartRead,
                            StartReadFails, Enqueue, ReturnFromRead
<1>2. ASSUME NEW w \in Workers, CallbackStep(w)
      PROVE  /\ pc[w] \notin {"notify", "dereference"} /\ pc'[w] \notin {"notify", "dereference"}
             /\ \A ti \in Threads \ {w} : pc'[ti] = pc[ti] /\ task'[ti] = task[ti]
  <2>1. \A ti \in Threads \ {w} : pc'[ti] = pc[ti] /\ task'[ti] = task[ti]
    BY <1>0, <1>2, OthersStay
  <2>2. QED
    BY <1>0, <1>2, <2>1
    DEF CallbackStep, QueueEmpty, AddToHashQueue, SubmitWork, Update, FinishHash, CountProgress, SendProgress,
        Advance, Dequeue, ReadCompletedBadly, ReadCompleted, BeginHash, ReadArrives
<1>3. ASSUME NEW c \in Coordinators, DialogStep(c) \/ UserStep(c) \/ DeleteStep(c), ~TaskStep(c),
             ~NotifyOwnWindow(c)
      PROVE  \A th \in Threads :
               pc[th] \in {"notify", "dereference"} \/ pc'[th] \in {"notify", "dereference"} =>
                 pc'[th] = pc[th] /\ task'[th] = task[th]
  <2>1. pc[c] = "notify" => UNCHANGED <<pc, task>>
    BY <1>3
    DEF DialogStep, UserStep, DeleteStep, RegisterWindow, FilesAdded, NoFiles, AddFile,
        CountFile, StartProcessing, FilesStarted, NotifyOwnWindow, HandleFinished, HandleProgress,
        CancelReturns, UnregisterWindow, WindowDereference, CancelClicked, Close, DeleteBegins,
        FilesCancelled, Deleted
  <2>2. QED  BY <1>3, <2>1, DialogQuiet
<1>4. QED
  BY <1>0, <1>1, <1>2, <1>3 DEF Next, WorkerStep, Terminated, vars

LEMMA CompletingStep ==
  ASSUME TInv, OwnerInv, StageInv, [Next]_vars PROVE Completing'
<1>0. /\ pc \in [Threads -> Labels] /\ task \in [Threads -> Tasks \cup {NoTask}]
      /\ stage \in [Tasks -> Stages] /\ Coordinators \subseteq Threads
      /\ Completing /\ AtWork /\ Waiting /\ todo \in [Coordinators -> SUBSET Tasks]
  BY DEF TInv, TypeOK, ThreadTypeOK, TaskTypeOK, DialogTypeOK, OwnerInv, StageInv, Threads
<1>1. ASSUME NEW th \in Threads, Complete(th) PROVE Completing'
  <2>1. task[th] \in Tasks
    BY <1>0, <1>1 DEF Complete, AtWork
  <2>2. /\ stage' = [stage EXCEPT ![task[th]] = "completed"] /\ task' = task
        /\ pc[th] = "complete" /\ pc'[th] \in {"notify", "dereference"}
        /\ \A ti \in Threads \ {th} : pc'[ti] = pc[ti]
    BY <1>0, <1>1 DEF Complete
  <2>3. QED  BY <1>0, <2>1, <2>2 DEF Completing
<1>2. ASSUME NEW th \in Threads, FinishDereference(th) PROVE Completing'
  <2>1. task[th] \in Tasks /\ Sole(task[th]) = {th}
    BY <1>2, InSole DEF FinishDereference
  <2>2. /\ stage' = [stage EXCEPT ![task[th]] = "done"]
        /\ pc[th] = "dereference" /\ pc'[th] \notin {"notify", "dereference"}
        /\ \A ti \in Threads \ {th} : pc'[ti] = pc[ti] /\ task'[ti] = task[ti]
    BY <1>0, <1>2 DEF FinishDereference, ReturnFromRead
  <2>3. \A ti \in Threads \ {th} : pc[ti] \in {"notify", "dereference"} => task[ti] # task[th]
    BY <2>1 DEF Sole
  <2>4. QED  BY <1>0, <2>1, <2>2, <2>3 DEF Completing
<1>3. ASSUME NEW th \in Threads, Notify(th) \/ (th \in Coordinators /\ NotifyOwnWindow(th))
      PROVE  Completing'
  <2>1. /\ stage' = stage /\ task' = task /\ pc[th] = "notify" /\ pc'[th] = "dereference"
        /\ \A ti \in Threads \ {th} : pc'[ti] = pc[ti]
    BY <1>0, <1>3 DEF Notify, NotifyOwnWindow
  <2>2. QED  BY <1>0, <2>1 DEF Completing
<1>4. ASSUME \A th \in Threads :
               pc[th] \in {"notify", "dereference"} \/ pc'[th] \in {"notify", "dereference"} =>
                 pc'[th] = pc[th] /\ task'[th] = task[th],
             ~ \E th \in Threads : Complete(th) \/ FinishDereference(th)
      PROVE  Completing'
  <2>1. CASE stage' = stage
    BY <1>0, <1>4, <2>1 DEF Completing
  <2>2. ASSUME NEW c \in Coordinators, StartProcessing(c) PROVE Completing'
    <3>1. /\ task[c] \in Tasks /\ stage[task[c]] = "counted"
          /\ stage' = [stage EXCEPT ![task[c]] = "live"]
      BY <1>0, <2>2 DEF StartProcessing, AtWork, Waiting
    <3>2. QED  BY <1>0, <1>4, <3>1 DEF Completing
  <2>3. ASSUME NEW c \in Coordinators, NEW t \in Tasks, CountFile(c, t) PROVE Completing'
    <3>1. stage[t] = "new" /\ stage' = [stage EXCEPT ![t] = "counted"]
      BY <1>0, <2>3 DEF CountFile, Waiting
    <3>2. QED  BY <1>0, <1>4, <3>1 DEF Completing
  <2>4. QED  BY <1>4, <2>1, <2>2, <2>3, WhoMovesOn
<1>5. QED  BY <1>0, <1>1, <1>2, <1>3, <1>4, WhoEnds

LEMMA StageStep ==
  ASSUME TInv, OwnerInv, StageInv, [Next]_vars PROVE StageInv'
<1>0. /\ pc \in [Threads -> Labels] /\ task \in [Threads -> Tasks \cup {NoTask}]
      /\ stage \in [Tasks -> Stages] /\ Coordinators \subseteq Threads /\ Workers \subseteq Threads
      /\ Workers \cap Coordinators = {} /\ todo \in [Coordinators -> SUBSET Tasks]
      /\ Completing /\ CountedStarts /\ OwnThread /\ AtWork /\ Waiting
      /\ \A t \in Tasks : Owner[t] \in Coordinators
  BY TaskAssumption, CoordinatorAssumption
  DEF TInv, TypeOK, ThreadTypeOK, TaskTypeOK, DialogTypeOK, OwnerInv, StageInv, Threads
<1>1. CountedStarts'
  <2>1. ASSUME NEW c \in Coordinators, pc[c] = "start", ~StartProcessing(c)
        PROVE  pc'[c] = "start" /\ task'[c] = task[c]
    <3>1. ASSUME NEW th \in Threads, TaskStep(th)
          PROVE pc'[c] = "start" /\ task'[c] = task[c]
      BY <1>0, <2>1, <3>1, TaskQuiet, OthersStay DEF Reading
    <3>2. ASSUME NEW w \in Workers, CallbackStep(w)
          PROVE pc'[c] = "start" /\ task'[c] = task[c]
      <4>1. c # w
        BY <1>0
      <4>2. QED  BY <1>0, <2>1, <3>2, <4>1, OthersStay
    <3>3. ASSUME NEW d \in Coordinators, DialogStep(d) \/ UserStep(d) \/ DeleteStep(d), ~TaskStep(d)
          PROVE pc'[c] = "start" /\ task'[c] = task[c]
      <4>1. CASE d = c
        BY <1>0, <2>1, <3>3, <4>1
        DEF DialogStep, UserStep, DeleteStep, RegisterWindow, FilesAdded, NoFiles, AddFile,
            CountFile, FilesStarted, NotifyOwnWindow, HandleFinished, HandleProgress,
            CancelReturns, UnregisterWindow, WindowDereference, CancelClicked, Close,
            DeleteBegins, FilesCancelled, Deleted
      <4>2. QED  BY <1>0, <2>1, <3>3, <4>1, DialogQuiet
    <3>4. QED  BY <1>0, <2>1, <3>1, <3>2, <3>3 DEF Next, WorkerStep, Terminated, vars
  <2>2. ASSUME NEW t \in Tasks, stage'[t] = "counted", stage[t] = "counted"
        PROVE  pc'[Owner[t]] = "start" /\ task'[Owner[t]] = t
    <3>1. pc[Owner[t]] = "start" /\ task[Owner[t]] = t
      BY <1>0, <2>2 DEF CountedStarts
    <3>2. ~StartProcessing(Owner[t])
      BY <1>0, <2>2, <3>1 DEF StartProcessing
    <3>3. QED  BY <1>0, <2>1, <3>1, <3>2
  <2>3. ASSUME NEW t \in Tasks, stage'[t] = "counted", stage[t] # "counted"
        PROVE  pc'[Owner[t]] = "start" /\ task'[Owner[t]] = t
    <3>1. ~ \E th \in Threads : Complete(th) \/ FinishDereference(th)
      BY <1>0, <2>3 DEF Complete, FinishDereference
    <3>2. ~ \E c \in Coordinators : StartProcessing(c)
      BY <1>0, <2>3 DEF StartProcessing
    <3>3. PICK c \in Coordinators, u \in Tasks : CountFile(c, u)
      BY <2>3, <3>1, <3>2, WhoMovesOn
    <3>4. u = t /\ Owner[t] = c
      BY <1>0, <2>3, <3>3 DEF CountFile, Waiting
    <3>5. QED  BY <1>0, <3>3, <3>4 DEF CountFile
  <2>4. QED  BY <2>2, <2>3 DEF CountedStarts
<1>2. OwnThread'
  <2>1. ASSUME NEW c \in Coordinators, pc'[c] \in TaskLabels
        PROVE  /\ task'[c] = task[c]
               /\ pc[c] \in TaskLabels \cup {"start"}
    <3>1. ASSUME NEW th \in Threads, TaskStep(th)
          PROVE  pc[c] \in TaskLabels \cup {"start"} /\ task'[c] = task[c]
      BY <1>0, <2>1, <3>1, TaskQuiet, OthersStay DEF Reading
    <3>2. ASSUME NEW w \in Workers, CallbackStep(w)
          PROVE  pc[c] \in TaskLabels \cup {"start"} /\ task'[c] = task[c]
      <4>1. c # w
        BY <1>0
      <4>2. QED  BY <1>0, <2>1, <3>2, <4>1, OthersStay
    <3>3. ASSUME NEW d \in Coordinators, DialogStep(d) \/ UserStep(d) \/ DeleteStep(d), ~TaskStep(d)
          PROVE  pc[c] \in TaskLabels \cup {"start"} /\ task'[c] = task[c]
      BY <1>0, <2>1, <3>3, DialogQuiet
    <3>4. QED  BY <1>0, <2>1, <3>1, <3>2, <3>3 DEF Next, WorkerStep, Terminated, vars
  <2>2. QED  BY <1>0, <2>1 DEF OwnThread, Waiting
<1>3. QED  BY <1>1, <1>2, CompletingStep DEF StageInv

LEMMA StageInvariant == Spec => [](TInv /\ OwnerInv /\ NoErrorYet /\ StageInv)
  BY NoErrorInvariant, StageInit, StageStep, PTL DEF Spec
=============================================================================
