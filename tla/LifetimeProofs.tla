--------------------------- MODULE LifetimeProofs ---------------------------
(***************************************************************************)
(* The read blocks, what is hashed from them, and the end of a file and of *)
(* a coordinator, for any number of windows, files, threads, blocks and    *)
(* contexts and any budget.                                                *)
(*                                                                         *)
(* BudgetKept is not inductive: a step that frees a block gives one unit   *)
(* back, which is right only if the block was committed, and stays right   *)
(* only if nobody else frees it too.  So BudgetInv also says that what a   *)
(* task or a thread holds is committed, and held once.  That nothing leaks *)
(* (BlocksOwned) needs to know who has a block at all: HeldInv.            *)
(*                                                                         *)
(* DigestsComplete speaks of the end of a file; DigestInv says what each   *)
(* context has seen at every moment of a round, and needs in turn that the *)
(* work items of a round have different contexts and read the block at the *)
(* file's own offset (ContextsApart, from RoundInv).                       *)
(*                                                                         *)
(* The counters that a coordinator's destructor waits for are exact, so    *)
(* nothing can reach a coordinator or its files once it is gone; the last  *)
(* file to finish tells the window; and the pipeline implements HashJobs.  *)
(***************************************************************************)
EXTENDS HashPipelineProofs, FoldProofs

USE DEF Labels, TaskLabels, HashLabels, SoleLabels, WorkerLabels,
        DialogLabels, WindowLabels, Callers, Stages, Deleting, Goto, Hold,
        Work, Left, SetError, taskVars, osVars, threadVars, poolVars,
        coordVars, dialogVars

HeldLive ==
  /\ \A th \in Threads : hand[th] # NoBlock => hand[th] \in live
  /\ \A t \in Tasks : block[t] # NoBlock => block[t] \in live

Counted ==
  /\ IsFiniteSet(live)
  /\ IsFiniteSet(GivingBack)
  /\ remaining + Cardinality(live) + Cardinality(GivingBack) = MaxAllocations
  /\ remaining + Cardinality(GivingBack) >= 0

BudgetInv == Counted /\ HeldLive /\ HoldersApart

LEMMA BudgetInit == Init => BudgetInv
<1>. SUFFICES ASSUME Init PROVE BudgetInv
  OBVIOUS
<1>1. live = {} /\ remaining = MaxAllocations /\ MaxAllocations \in Nat
  BY PoolAssumption DEF Init, PoolInit
<1>2. GivingBack = {}
  BY DEF Init, GivingBack
<1>3. Counted
  BY <1>1, <1>2, FS_EmptySet DEF Counted
<1>4. HeldLive /\ HoldersApart
  BY DEF Init, TaskInit, HeldLive, HoldersApart
<1>. QED
  BY <1>3, <1>4 DEF BudgetInv

(* The three things that happen to the counted quantities. *)
LEMMA Committed ==
  ASSUME Counted, remaining \in Int, NEW b \in Blocks, Allocate(b),
         GivingBack' = GivingBack
  PROVE  Counted'
<1>1. IsFiniteSet(live') /\ Cardinality(live') = Cardinality(live) + 1
  BY FS_AddElement DEF Allocate, Counted
<1>2. Cardinality(live) \in Nat /\ Cardinality(GivingBack) \in Nat
  BY FS_CardinalityType DEF Counted
<1>. QED
  BY <1>1, <1>2 DEF Allocate, Counted

LEMMA Freed ==
  ASSUME Counted, remaining \in Int, NEW b \in live, BlockFree(b),
         GivingBack' = GivingBack
  PROVE  Counted'
<1>1. IsFiniteSet(live') /\ Cardinality(live') = Cardinality(live) - 1
  BY FS_RemoveElement DEF BlockFree, Counted
<1>2. Cardinality(live) \in Nat /\ Cardinality(GivingBack) \in Nat
  BY FS_CardinalityType DEF Counted
<1>. QED
  BY <1>1, <1>2 DEF BlockFree, Counted

LEMMA Attempted ==
  ASSUME Counted, remaining \in Int, NEW th, th \notin GivingBack,
         AllocateFails, GivingBack' = GivingBack \cup {th}
  PROVE  Counted'
<1>1. /\ IsFiniteSet(GivingBack')
      /\ Cardinality(GivingBack') = Cardinality(GivingBack) + 1
  BY FS_AddElement DEF Counted
<1>2. Cardinality(live) \in Nat /\ Cardinality(GivingBack) \in Nat
  BY FS_CardinalityType DEF Counted
<1>. QED
  BY <1>1, <1>2 DEF AllocateFails, Counted

LEMMA Undone ==
  ASSUME Counted, remaining \in Int, NEW th \in GivingBack, GiveBack,
         GivingBack' = GivingBack \ {th}
  PROVE  Counted'
<1>1. /\ IsFiniteSet(GivingBack')
      /\ Cardinality(GivingBack') = Cardinality(GivingBack) - 1
  BY FS_RemoveElement DEF Counted
<1>2. Cardinality(live) \in Nat /\ Cardinality(GivingBack) \in Nat
  BY FS_CardinalityType DEF Counted
<1>. QED
  BY <1>1, <1>2 DEF GiveBack, Counted

LEMMA BudgetStep == ASSUME TInv, BudgetInv, [Next]_vars PROVE BudgetInv'
<1>t. TypeOK /\ AtWork /\ remaining \in Int /\ ThreadTypeOK(Labels)
  BY DEF TInv, TypeOK, PoolTypeOK
<1>b. Counted /\ HeldLive /\ HoldersApart
  BY DEF BudgetInv
<1>. USE DEF taskVars, osVars, threadVars, poolVars, coordVars, dialogVars
<1>same. ASSUME GivingBack' = GivingBack, UNCHANGED <<remaining, live, hand, block>>
         PROVE  BudgetInv'
  BY <1>same, <1>b DEF BudgetInv, Counted, HeldLive, HoldersApart
<1>1. ASSUME NEW th \in Threads, ReadBlockFailed(th), UNCHANGED dialogVars
      PROVE  BudgetInv'
  <2>1. GivingBack' = GivingBack
    BY <1>1, <1>t DEF ReadBlockFailed, GivingBack, ThreadTypeOK
  <2>2. CASE hand[th] = NoBlock
    BY <1>1, <1>t, <2>1, <2>2, <1>same
       DEF ReadBlockFailed, FreeUnlessNull, ThreadTypeOK
  <2>3. CASE hand[th] # NoBlock
    <3>1. hand[th] \in live /\ BlockFree(hand[th])
      BY <1>1, <1>b, <2>3 DEF ReadBlockFailed, FreeUnlessNull, HeldLive
    <3>2. Counted'
      BY <1>b, <1>t, <2>1, <3>1, Freed
    <3>3. HeldLive' /\ HoldersApart'
      BY <1>1, <1>t, <1>b, <2>3, <3>1
         DEF ReadBlockFailed, BlockFree, HeldLive, HoldersApart, ThreadTypeOK
    <3>. QED
      BY <3>2, <3>3 DEF BudgetInv
  <2>. QED
    BY <2>2, <2>3
<1>2. ASSUME NEW th \in Threads, TryAllocate(th), UNCHANGED dialogVars
      PROVE  BudgetInv'
  <2>1. CASE \E b \in Blocks : Allocate(b) /\ Hold(th, b) /\ UNCHANGED pc
    <3>1. PICK b \in Blocks : Allocate(b) /\ Hold(th, b) /\ UNCHANGED pc
      BY <2>1
    <3>2. GivingBack' = GivingBack
      BY <3>1 DEF GivingBack
    <3>3. Counted'
      BY <1>b, <1>t, <3>1, <3>2, Committed
    <3>4. b \notin live /\ b # NoBlock
      BY <3>1, PoolAssumption DEF Allocate
    <3>5. HeldLive' /\ HoldersApart'
      BY <1>2, <1>t, <1>b, <3>1, <3>4
         DEF TryAllocate, Allocate, HeldLive, HoldersApart, ThreadTypeOK
    <3>. QED
      BY <3>3, <3>5 DEF BudgetInv
  <2>2. CASE AllocateFails /\ Goto(th, "giveBack") /\ UNCHANGED hand
    <3>1. th \notin GivingBack /\ GivingBack' = GivingBack \cup {th}
      BY <1>2, <1>t, <2>2 DEF TryAllocate, GivingBack, ThreadTypeOK
    <3>2. Counted'
      BY <1>b, <1>t, <2>2, <3>1, Attempted
    <3>3. HeldLive' /\ HoldersApart'
      BY <1>2, <1>b, <2>2
         DEF TryAllocate, AllocateFails, HeldLive, HoldersApart
    <3>. QED
      BY <3>2, <3>3 DEF BudgetInv
  <2>. QED
    BY <1>2, <2>1, <2>2 DEF TryAllocate
<1>3. ASSUME NEW th \in Threads, AllocationGivenBack(th), UNCHANGED dialogVars
      PROVE  BudgetInv'
  <2>1. th \in GivingBack /\ GivingBack' = GivingBack \ {th}
    BY <1>3, <1>t DEF AllocationGivenBack, GivingBack, ThreadTypeOK
  <2>2. Counted'
    BY <1>3, <1>b, <1>t, <2>1, Undone DEF AllocationGivenBack
  <2>3. HeldLive' /\ HoldersApart'
    BY <1>3, <1>b
       DEF AllocationGivenBack, GiveBack, HeldLive, HoldersApart
  <2>. QED
    BY <2>2, <2>3 DEF BudgetInv
<1>4. ASSUME NEW th \in Threads, StartRead(th), UNCHANGED dialogVars
      PROVE  BudgetInv'
  <2>1. th \in Threads /\ task[th] \in Tasks
    BY <1>4, <1>t DEF StartRead, AtWork, Threads
  <2>2. GivingBack' = GivingBack
    BY <1>4, <1>t, <2>1 DEF StartRead, GivingBack, ThreadTypeOK, ReturnFromRead
  <2>3. Counted'
    BY <1>4, <1>b, <2>2 DEF StartRead, Counted
  <2>4. HeldLive'
    BY <1>4, <1>t, <1>b, <2>1
       DEF StartRead, HeldLive, TypeOK, TaskTypeOK, ThreadTypeOK
  <2>5. HoldersApart'
    BY <1>4, <1>t, <1>b, <2>1
       DEF StartRead, HoldersApart, TypeOK, TaskTypeOK, ThreadTypeOK
  <2>. QED
    BY <2>3, <2>4, <2>5 DEF BudgetInv
<1>5. ASSUME NEW th \in Threads, StartReadFails(th), UNCHANGED dialogVars
      PROVE  BudgetInv'
  <2>1. th \in Threads /\ task[th] \in Tasks
    BY <1>5, <1>t DEF StartReadFails, AtWork, Threads
  <2>2. GivingBack' = GivingBack
    BY <1>5, <1>t, <2>1 DEF StartReadFails, GivingBack, ThreadTypeOK
  <2>3. hand[th] \in live /\ BlockFree(hand[th])
    BY <1>5, <1>b DEF StartReadFails, HeldLive
  <2>4. Counted'
    BY <1>b, <1>t, <2>2, <2>3, Freed
  <2>5. HeldLive' /\ HoldersApart'
    BY <1>5, <1>t, <1>b, <2>1, <2>3
       DEF StartReadFails, BlockFree, HeldLive, HoldersApart, TypeOK,
           TaskTypeOK, ThreadTypeOK
  <2>. QED
    BY <2>4, <2>5 DEF BudgetInv
<1>6. ASSUME NEW th \in Threads, Enqueue(th), UNCHANGED dialogVars
      PROVE  BudgetInv'
  BY <1>6, <1>t, <1>same
     DEF Enqueue, GivingBack, ThreadTypeOK, ReturnFromRead
<1>7. ASSUME NEW th \in Threads, Complete(th), UNCHANGED dialogVars
      PROVE  BudgetInv'
  BY <1>7, <1>t, <1>same
     DEF Complete, GivingBack, ThreadTypeOK
<1>8. ASSUME NEW th \in Threads, Notify(th), UNCHANGED dialogVars
      PROVE  BudgetInv'
  BY <1>8, <1>t, <1>same
     DEF Notify, GivingBack, ThreadTypeOK
<1>9. ASSUME NEW th \in Threads, FinishDereference(th), UNCHANGED dialogVars
      PROVE  BudgetInv'
  BY <1>9, <1>t, <1>same
     DEF FinishDereference, GivingBack, ThreadTypeOK, ReturnFromRead
<1>10. ASSUME NEW w \in Workers, QueueEmpty(w), UNCHANGED dialogVars
      PROVE  BudgetInv'
  <2>0. w \in Threads
    BY DEF Threads
  <2>1. GivingBack' = GivingBack
    BY <1>10, <1>t, <2>0 DEF QueueEmpty, GivingBack, ThreadTypeOK
  <2>2. CASE hand[w] = NoBlock
    BY <1>10, <1>t, <2>0, <2>1, <2>2, <1>same
       DEF QueueEmpty, FreeUnlessNull, ThreadTypeOK
  <2>3. CASE hand[w] # NoBlock
    <3>1. hand[w] \in live /\ BlockFree(hand[w])
      BY <1>10, <1>b, <2>0, <2>3 DEF QueueEmpty, FreeUnlessNull, HeldLive
    <3>2. Counted'
      BY <1>b, <1>t, <2>1, <3>1, Freed
    <3>3. HeldLive' /\ HoldersApart'
      BY <1>10, <1>t, <2>0, <1>b, <2>3, <3>1
         DEF QueueEmpty, BlockFree, HeldLive, HoldersApart, ThreadTypeOK
    <3>. QED
      BY <3>2, <3>3 DEF BudgetInv
  <2>. QED
    BY <2>2, <2>3
<1>11. ASSUME NEW w \in Workers, SubmitWork(w), UNCHANGED dialogVars
      PROVE  BudgetInv'
  BY <1>11, <1>t, <1>same
     DEF SubmitWork, GivingBack, ThreadTypeOK, Threads
<1>12. ASSUME NEW w \in Workers, Update(w), UNCHANGED dialogVars
      PROVE  BudgetInv'
  BY <1>12, <1>t, <1>same
     DEF Update, GivingBack, ThreadTypeOK, Threads
<1>13. ASSUME NEW w \in Workers, FinishHash(w), UNCHANGED dialogVars
      PROVE  BudgetInv'
  BY <1>13, <1>t, <1>same
     DEF FinishHash, GivingBack, ThreadTypeOK, Threads
<1>14. ASSUME NEW w \in Workers, CountProgress(w), UNCHANGED dialogVars
      PROVE  BudgetInv'
  BY <1>14, <1>t, <1>same
     DEF CountProgress, GivingBack, ThreadTypeOK, Threads
<1>15. ASSUME NEW w \in Workers, SendProgress(w), UNCHANGED dialogVars
      PROVE  BudgetInv'
  BY <1>15, <1>t, <1>same
     DEF SendProgress, GivingBack, ThreadTypeOK, Threads
<1>16. ASSUME NEW w \in Workers, Advance(w), UNCHANGED dialogVars
      PROVE  BudgetInv'
  <2>1. w \in Threads /\ task[w] \in Tasks
    BY <1>16, <1>t DEF Advance, AtWork, Threads
  <2>2. GivingBack' = GivingBack
    BY <1>16, <1>t, <2>1 DEF Advance, GivingBack, ThreadTypeOK
  <2>3. Counted'
    BY <1>16, <1>b, <2>2 DEF Advance, Counted
  <2>4. HeldLive' /\ HoldersApart'
    BY <1>16, <1>t, <1>b, <2>1
       DEF Advance, HeldLive, HoldersApart, TypeOK, TaskTypeOK, ThreadTypeOK
  <2>. QED
    BY <2>3, <2>4 DEF BudgetInv
<1>17. ASSUME NEW w \in Workers, NEW t \in Tasks, Dequeue(w, t), UNCHANGED dialogVars
      PROVE  BudgetInv'
  BY <1>17, <1>t, <1>same
     DEF Dequeue, GivingBack, ThreadTypeOK, Threads
<1>18. ASSUME NEW w \in Workers, NEW t \in Tasks, ReadCompletedBadly(w, t),
              UNCHANGED dialogVars
      PROVE  BudgetInv'
  <2>1. w \in Threads
    BY DEF Threads
  <2>2. GivingBack' = GivingBack
    BY <1>18, <1>t, <2>1 DEF ReadCompletedBadly, GivingBack, ThreadTypeOK, ReadArrives
  <2>3. Counted'
    BY <1>18, <1>b, <2>2 DEF ReadCompletedBadly, Counted
  <2>4. HeldLive' /\ HoldersApart'
    BY <1>18, <1>t, <1>b, <2>1
       DEF ReadCompletedBadly, HeldLive, HoldersApart, TypeOK, TaskTypeOK, ThreadTypeOK
  <2>. QED
    BY <2>3, <2>4 DEF BudgetInv
<1>19. ASSUME NEW w \in Workers, NEW t \in Tasks, ReadCompleted(w, t), UNCHANGED dialogVars
      PROVE  BudgetInv'
  BY <1>19, <1>t, <1>same
     DEF ReadCompleted, GivingBack, ThreadTypeOK, Threads, ReadArrives
<1>20. ASSUME NEW w \in Workers, NEW t \in Tasks, BeginHash(w, t), UNCHANGED dialogVars
      PROVE  BudgetInv'
  BY <1>20, <1>t, <1>same
     DEF BeginHash, GivingBack, ThreadTypeOK, Threads
<1>21. ASSUME NEW c \in Coordinators, RegisterWindow(c)
      PROVE  BudgetInv'
  BY <1>21, <1>t, <1>same
     DEF RegisterWindow, GivingBack, ThreadTypeOK, Threads
<1>22. ASSUME NEW c \in Coordinators, FilesAdded(c)
      PROVE  BudgetInv'
  BY <1>22, <1>t, <1>same
     DEF FilesAdded, GivingBack, ThreadTypeOK, Threads
<1>23. ASSUME NEW c \in Coordinators, NoFiles(c)
      PROVE  BudgetInv'
  BY <1>23, <1>t, <1>same
     DEF NoFiles, GivingBack, ThreadTypeOK, Threads
<1>24. ASSUME NEW c \in Coordinators, StartProcessing(c)
      PROVE  BudgetInv'
  BY <1>24, <1>t, <1>same
     DEF StartProcessing, GivingBack, ThreadTypeOK, Threads
<1>25. ASSUME NEW c \in Coordinators, FilesStarted(c)
      PROVE  BudgetInv'
  BY <1>25, <1>t, <1>same
     DEF FilesStarted, GivingBack, ThreadTypeOK, Threads
<1>26. ASSUME NEW c \in Coordinators, NotifyOwnWindow(c)
      PROVE  BudgetInv'
  BY <1>26, <1>t, <1>same
     DEF NotifyOwnWindow, GivingBack, ThreadTypeOK, Threads
<1>27. ASSUME NEW c \in Coordinators, HandleFinished(c)
      PROVE  BudgetInv'
  BY <1>27, <1>t, <1>same
     DEF HandleFinished, GivingBack, ThreadTypeOK, Threads
<1>28. ASSUME NEW c \in Coordinators, HandleProgress(c)
      PROVE  BudgetInv'
  BY <1>28, <1>t, <1>same
     DEF HandleProgress, GivingBack, ThreadTypeOK, Threads
<1>29. ASSUME NEW c \in Coordinators, CancelReturns(c)
      PROVE  BudgetInv'
  BY <1>29, <1>t, <1>same
     DEF CancelReturns, GivingBack, ThreadTypeOK, Threads
<1>30. ASSUME NEW c \in Coordinators, UnregisterWindow(c)
      PROVE  BudgetInv'
  BY <1>30, <1>t, <1>same
     DEF UnregisterWindow, GivingBack, ThreadTypeOK, Threads
<1>31. ASSUME NEW c \in Coordinators, WindowDereference(c)
      PROVE  BudgetInv'
  BY <1>31, <1>t, <1>same
     DEF WindowDereference, GivingBack, ThreadTypeOK, Threads
<1>32. ASSUME NEW c \in Coordinators, CancelClicked(c)
      PROVE  BudgetInv'
  BY <1>32, <1>t, <1>same
     DEF CancelClicked, GivingBack, ThreadTypeOK, Threads
<1>33. ASSUME NEW c \in Coordinators, Close(c)
      PROVE  BudgetInv'
  BY <1>33, <1>t, <1>same
     DEF Close, GivingBack, ThreadTypeOK, Threads
<1>34. ASSUME NEW c \in Coordinators, DeleteBegins(c)
      PROVE  BudgetInv'
  BY <1>34, <1>t, <1>same
     DEF DeleteBegins, GivingBack, ThreadTypeOK, Threads
<1>35. ASSUME NEW c \in Coordinators, FilesCancelled(c)
      PROVE  BudgetInv'
  BY <1>35, <1>t, <1>same
     DEF FilesCancelled, GivingBack, ThreadTypeOK, Threads
<1>36. ASSUME NEW c \in Coordinators, Deleted(c)
      PROVE  BudgetInv'
  BY <1>36, <1>t, <1>same
     DEF Deleted, GivingBack, ThreadTypeOK, Threads
<1>37. ASSUME NEW c \in Coordinators, NEW t \in Tasks, AddFile(c, t)
      PROVE  BudgetInv'
  BY <1>37, <1>t, <1>same
     DEF AddFile, GivingBack, ThreadTypeOK, Threads
<1>38. ASSUME NEW c \in Coordinators, NEW t \in Tasks, CountFile(c, t)
      PROVE  BudgetInv'
  BY <1>38, <1>t, <1>same
     DEF CountFile, GivingBack, ThreadTypeOK, Threads
<1>39. ASSUME NEW w \in Workers, AddToHashQueue(w), UNCHANGED dialogVars
      PROVE  BudgetInv'
  BY <1>39, <1>t, <1>same
     DEF AddToHashQueue, GivingBack, ThreadTypeOK, Threads
<1>40. CASE UNCHANGED vars
  BY <1>40, <1>same DEF vars, GivingBack
<1>. QED
  BY <1>1, <1>2, <1>3, <1>4, <1>5, <1>6, <1>7, <1>8, <1>9, <1>10, <1>11,
     <1>12, <1>13, <1>14, <1>15, <1>16, <1>17, <1>18, <1>19, <1>20, <1>21,
     <1>22, <1>23, <1>24, <1>25, <1>26, <1>27, <1>28, <1>29, <1>30, <1>31,
     <1>32, <1>33, <1>34, <1>35, <1>36, <1>37, <1>38, <1>39, <1>40
     DEF Next, WorkerStep, TaskStep, CallbackStep, DialogStep, UserStep,
         DeleteStep, Terminated, Threads

(* At every moment the blocks that are committed, the free part of the     *)
(* budget and the attempts being undone add up to the whole budget, and    *)
(* the committed blocks do not exceed it.                                  *)
THEOREM BudgetCorrect == Spec => []BudgetKept
<1>1. ASSUME TInv, BudgetInv PROVE BudgetKept
  <2>1. Cardinality(live) \in Nat /\ Cardinality(GivingBack) \in Nat
    BY <1>1, FS_CardinalityType DEF BudgetInv, Counted
  <2>2. remaining \in Int /\ MaxAllocations \in Nat
    BY <1>1, PoolAssumption DEF TInv, TypeOK, PoolTypeOK
  <2>. QED
    BY <1>1, <2>1, <2>2 DEF BudgetInv, Counted, BudgetKept
<1>. QED
  BY <1>1, TypeInit, TypeStep, BudgetInit, BudgetStep, PTL DEF Spec

(* No block is held twice: not by two tasks, two threads, or one of each.  *)
THEOREM BlocksApart == Spec => []HoldersApart
<1>1. ASSUME BudgetInv PROVE HoldersApart
  BY <1>1 DEF BudgetInv
<1>. QED
  BY <1>1, TypeInit, TypeStep, BudgetInit, BudgetStep, PTL DEF Spec

-----------------------------------------------------------------------------
(* A file has a block exactly while it is read, hashed or advanced; a      *)
(* thread has one only on its way to the next file or to the end of its    *)
(* callback; and who is committed is with one of them.                     *)
BlockHeld == \A t \in Tasks : (block[t] # NoBlock) <=> Busy(t)

HandsEmpty ==
  \A th \in Threads : hand[th] # NoBlock =>
    \/ pc[th] \in {"read", "drain"}
    \/ pc[th] \in {"complete", "notify", "dereference"} /\ th \in Workers

LiveHeld ==
  \A b \in live : (\E t \in Tasks : block[t] = b) \/ (\E th \in Threads : hand[th] = b)

HeldInv == BlockHeld /\ HandsEmpty /\ LiveHeld

LEMMA HeldInit == Init => HeldInv
<1> SUFFICES ASSUME Init PROVE HeldInv
  OBVIOUS
<1>1. \A t \in Tasks : block[t] = NoBlock /\ ~Busy(t)
  BY DEF Init, TaskInit, Busy, Threads
<1>2. live = {} /\ \A th \in Threads : hand[th] = NoBlock
  BY DEF Init, TaskInit, PoolInit
<1>3. QED  BY <1>1, <1>2 DEF HeldInv, BlockHeld, HandsEmpty, LiveHeld

(* The steps that take a block for a file or give it up.                   *)
LEMMA HeldByTask ==
  ASSUME TInv, OwnerInv, HeldInv, NEW th \in Threads, TaskStep(th)
  PROVE  HeldInv'
<1>0. /\ pc \in [Threads -> Labels] /\ task \in [Threads -> Tasks \cup {NoTask}]
      /\ hand \in [Threads -> Blocks \cup {NoBlock}] /\ block \in [Tasks -> Blocks \cup {NoBlock}]
      /\ pendingIo \in [Tasks -> Nat] /\ finishCounter \in [Tasks -> Int]
      /\ Workers \subseteq Threads /\ Coordinators \cap Workers = {} /\ NoBlock \notin Blocks
      /\ BlockHeld /\ HandsEmpty /\ LiveHeld /\ AtWork
  BY TaskAssumption, PoolAssumption
  DEF TInv, HeldInv, TypeOK, ThreadTypeOK, SystemTypeOK, TaskTypeOK, Threads
<1>9. \A ti \in Threads \ {th} : pc'[ti] = pc[ti] /\ task'[ti] = task[ti] /\ hand'[ti] = hand[ti]
  BY OthersStay
<1>1. CASE StartRead(th)
  <2>1. PICK t \in Tasks : t = task[th]
    BY <1>0, <1>1 DEF StartRead, AtWork
  <2>2. ~Busy(t) /\ block[t] = NoBlock
    BY <1>0, <1>1, <2>1, ReaderNotBusy DEF StartRead, BlockHeld
  <2>3. BlockHeld'
    BY <1>0, <1>1, <2>1, <2>2 DEF StartRead, ReturnFromRead, BlockHeld, Busy
  <2>4. HandsEmpty'
    BY <1>0, <1>1 DEF StartRead, ReturnFromRead, HandsEmpty
  <2>5. LiveHeld'
    <3>1. /\ block'[t] = hand[th] /\ live' = live
          /\ \A u \in Tasks \ {t} : block'[u] = block[u]
          /\ \A ti \in Threads \ {th} : hand'[ti] = hand[ti]
      BY <1>0, <1>1, <1>9, <2>1 DEF StartRead
    <3>2. \A b \in live : b # NoBlock
      BY <1>0 DEF TInv, TypeOK, PoolTypeOK
    <3>3. QED  BY <1>0, <2>2, <3>1, <3>2 DEF LiveHeld
  <2>6. QED  BY <2>3, <2>4, <2>5 DEF HeldInv
<1>2. CASE StartReadFails(th)
  <2>1. PICK t \in Tasks : t = task[th]
    BY <1>0, <1>2 DEF StartReadFails, AtWork
  <2>2. ~Busy(t) /\ block[t] = NoBlock
    BY <1>0, <1>2, <2>1, ReaderNotBusy DEF StartReadFails, BlockHeld
  <2>3. block' = block
    BY <1>0, <1>2, <2>1, <2>2 DEF StartReadFails
  <2>4. BlockHeld'
    BY <1>0, <1>2, <2>3 DEF StartReadFails, BlockHeld, Busy
  <2>5. HandsEmpty'
    BY <1>0, <1>2 DEF StartReadFails, HandsEmpty
  <2>6. LiveHeld'
    BY <1>0, <1>2, <2>3 DEF StartReadFails, BlockFree, LiveHeld
  <2>7. QED  BY <2>4, <2>5, <2>6 DEF HeldInv
<1>3. CASE TryAllocate(th)
  <2>1. BlockHeld' /\ HandsEmpty'
    BY <1>0, <1>3 DEF TryAllocate, BlockHeld, HandsEmpty, Busy
  <2>2. ASSUME NEW b \in Blocks, Allocate(b), Hold(th, b) PROVE LiveHeld'
    <3>1. /\ hand'[th] = b /\ block' = block /\ live' = live \cup {b} /\ hand[th] = NoBlock
          /\ \A ti \in Threads \ {th} : hand'[ti] = hand[ti]
      BY <1>0, <1>3, <1>9, <2>2 DEF TryAllocate, Allocate
    <3>2. \A a \in live : a # NoBlock
      BY <1>0 DEF TInv, TypeOK, PoolTypeOK
    <3>3. QED  BY <1>0, <3>1, <3>2 DEF LiveHeld
  <2>3. ASSUME AllocateFails, UNCHANGED hand PROVE LiveHeld'
    <3>1. block' = block /\ live' = live /\ hand' = hand
      BY <1>3, <2>3 DEF TryAllocate, AllocateFails
    <3>2. QED  BY <1>0, <3>1 DEF LiveHeld
  <2>4. LiveHeld'
    <3>1. \/ \E b \in Blocks : Allocate(b) /\ Hold(th, b)
          \/ AllocateFails /\ UNCHANGED hand
      BY <1>3 DEF TryAllocate
    <3>2. QED  BY <2>2, <2>3, <3>1
  <2>5. QED  BY <2>1, <2>4 DEF HeldInv
<1>4. CASE ReadBlockFailed(th)
  <2>1. BlockHeld' /\ HandsEmpty'
    BY <1>0, <1>4 DEF ReadBlockFailed, BlockHeld, HandsEmpty, Busy
  <2>2. LiveHeld'
    BY <1>0, <1>4 DEF ReadBlockFailed, FreeUnlessNull, BlockFree, LiveHeld
  <2>3. QED  BY <2>1, <2>2 DEF HeldInv
<1>5. CASE AllocationGivenBack(th) \/ Enqueue(th)
  <2>1. hand[th] = NoBlock
    BY <1>0, <1>5 DEF AllocationGivenBack, Enqueue, HandsEmpty
  <2>2. BlockHeld' /\ HandsEmpty' /\ LiveHeld'
    BY <1>0, <1>5, <2>1
    DEF AllocationGivenBack, GiveBack, Enqueue, ReturnFromRead, BlockHeld, HandsEmpty, LiveHeld, Busy
  <2>3. QED  BY <2>2 DEF HeldInv
<1>6. CASE Complete(th) \/ Notify(th)
  <2>1. BlockHeld' /\ HandsEmpty' /\ LiveHeld'
    BY <1>0, <1>6 DEF Complete, Notify, BlockHeld, HandsEmpty, LiveHeld, Busy
  <2>2. QED  BY <2>1 DEF HeldInv
<1>7. CASE FinishDereference(th)
  <2>1. BlockHeld' /\ HandsEmpty' /\ LiveHeld'
    BY <1>0, <1>7 DEF FinishDereference, ReturnFromRead, BlockHeld, HandsEmpty, LiveHeld, Busy
  <2>2. QED  BY <2>1 DEF HeldInv
<1>8. QED  BY <1>1, <1>2, <1>3, <1>4, <1>5, <1>6, <1>7 DEF TaskStep

LEMMA HeldByCallback ==
  ASSUME TInv, OwnerInv, HeldInv, NEW w \in Workers, CallbackStep(w)
  PROVE  HeldInv'
<1>0. /\ pc \in [Threads -> Labels] /\ task \in [Threads -> Tasks \cup {NoTask}]
      /\ hand \in [Threads -> Blocks \cup {NoBlock}] /\ block \in [Tasks -> Blocks \cup {NoBlock}]
      /\ pendingIo \in [Tasks -> Nat] /\ finishCounter \in [Tasks -> Int]
      /\ Workers \subseteq Threads /\ w \in Threads /\ NoBlock \notin Blocks
      /\ HashCount > 0
      /\ BlockHeld /\ HandsEmpty /\ LiveHeld /\ AtWork
  BY TaskAssumption, PoolAssumption
  DEF TInv, HeldInv, TypeOK, ThreadTypeOK, SystemTypeOK, TaskTypeOK, Threads
<1>9. \A ti \in Threads \ {w} : pc'[ti] = pc[ti] /\ task'[ti] = task[ti] /\ hand'[ti] = hand[ti]
  BY <1>0, OthersStay
<1>1. CASE Advance(w)
  <2>1. PICK t \in Tasks : t = task[w]
    BY <1>0, <1>1 DEF Advance, AtWork
  <2>2. hand[w] = NoBlock
    BY <1>0, <1>1 DEF Advance, HandsEmpty
  <2>3. Sole(t) = {w} /\ pendingIo[t] = 0 /\ finishCounter[t] = 0
    BY <1>0, <1>1, <2>1, InSole DEF Advance
  <2>4. ~Busy(t)'
    BY <1>0, <1>1, <2>1, <2>3 DEF Advance, Busy, Sole
  <2>5. \A u \in Tasks \ {t} : Busy(u)' <=> Busy(u)
    BY <1>0, <1>1, <2>1 DEF Advance, Busy
  <2>6. BlockHeld'
    BY <1>0, <1>1, <2>1, <2>4, <2>5 DEF Advance, BlockHeld
  <2>7. HandsEmpty'
    BY <1>0, <1>1 DEF Advance, HandsEmpty
  <2>8. LiveHeld'
    BY <1>0, <1>1, <2>1, <2>2 DEF Advance, LiveHeld
  <2>9. QED  BY <2>6, <2>7, <2>8 DEF HeldInv
<1>2. ASSUME NEW t \in Tasks, ReadCompletedBadly(w, t) PROVE HeldInv'
  <2>1. hand[w] = NoBlock
    BY <1>0, <1>2 DEF ReadCompletedBadly, ReadArrives, HandsEmpty
  <2>2. pendingIo[t] = 1 /\ Sole(t) = {} /\ finishCounter[t] = 0
    <3>1. pendingIo[t] > 0 /\ TypeOK /\ OneOwner /\ RoundCounted
      BY <1>2 DEF ReadCompletedBadly, ReadArrives, TInv, OwnerInv
    <3>2. QED  BY <3>1, PendingMeans, CountTypes
  <2>3. ~Busy(t)'
    BY <1>0, <1>2, <2>2 DEF ReadCompletedBadly, Busy, Sole
  <2>4. \A u \in Tasks \ {t} : Busy(u)' <=> Busy(u)
    BY <1>0, <1>2 DEF ReadCompletedBadly, ReadArrives, Busy
  <2>5. BlockHeld'
    BY <1>0, <1>2, <2>3, <2>4 DEF ReadCompletedBadly, BlockHeld
  <2>6. HandsEmpty'
    BY <1>0, <1>2 DEF ReadCompletedBadly, HandsEmpty
  <2>7. LiveHeld'
    BY <1>0, <1>2, <2>1 DEF ReadCompletedBadly, LiveHeld
  <2>8. QED  BY <2>5, <2>6, <2>7 DEF HeldInv
<1>3. ASSUME NEW t \in Tasks, ReadCompleted(w, t) PROVE HeldInv'
  <2>1. pendingIo[t] > 0 /\ pc'[w] = "reset" /\ task'[w] = t
    BY <1>0, <1>3 DEF ReadCompleted, ReadArrives
  <2>2. \A u \in Tasks : Busy(u)' <=> Busy(u)
    BY <1>0, <1>3, <2>1 DEF ReadCompleted, ReadArrives, Busy
  <2>3. BlockHeld' /\ HandsEmpty' /\ LiveHeld'
    BY <1>0, <1>3, <2>2 DEF ReadCompleted, ReadArrives, BlockHeld, HandsEmpty, LiveHeld
  <2>4. QED  BY <2>3 DEF HeldInv
<1>4. CASE FinishHash(w)
  <2>1. PICK t \in Tasks : t = task[w]
    BY <1>0, <1>4 DEF FinishHash, AtWork
  <2>2. finishCounter[t] > 0
    <3>1. w \in Hashing(t)
      BY <1>0, <1>4, <2>1 DEF FinishHash, Hashing
    <3>2. Cardinality(Hashing(t)) # 0
      BY <3>1, SetsFinite, FS_EmptySet
    <3>3. TypeOK /\ RoundCounted
      BY DEF TInv, OwnerInv
    <3>4. QED  BY <3>2, <3>3, SetsFinite, CountTypes DEF RoundCounted, ItemsLeft
  <2>3. Busy(t) /\ Busy(t)'
    BY <1>0, <1>4, <2>1, <2>2 DEF FinishHash, LastOfRound, Busy
  <2>4. \A u \in Tasks \ {t} : Busy(u)' <=> Busy(u)
    BY <1>0, <1>4, <2>1 DEF FinishHash, LastOfRound, Busy
  <2>5. BlockHeld' /\ HandsEmpty' /\ LiveHeld'
    BY <1>0, <1>4, <2>3, <2>4 DEF FinishHash, BlockHeld, HandsEmpty, LiveHeld
  <2>6. QED  BY <2>5 DEF HeldInv
<1>5. CASE QueueEmpty(w)
  <2>1. BlockHeld' /\ HandsEmpty'
    BY <1>0, <1>5 DEF QueueEmpty, BlockHeld, HandsEmpty, Busy
  <2>2. LiveHeld'
    BY <1>0, <1>5 DEF QueueEmpty, FreeUnlessNull, BlockFree, LiveHeld
  <2>3. QED  BY <2>1, <2>2 DEF HeldInv
<1>6. CASE SubmitWork(w) \/ Update(w) \/ CountProgress(w) \/ SendProgress(w)
  <2>1. \A t \in Tasks : Busy(t)' <=> Busy(t)
    BY <1>0, <1>6 DEF SubmitWork, Update, CountProgress, SendProgress, Busy
  <2>2. BlockHeld' /\ HandsEmpty' /\ LiveHeld'
    BY <1>0, <1>6, <2>1
    DEF SubmitWork, Update, CountProgress, SendProgress, BlockHeld, HandsEmpty, LiveHeld
  <2>3. QED  BY <2>2 DEF HeldInv
<1>7. ASSUME NEW t \in Tasks, Dequeue(w, t) \/ BeginHash(w, t) PROVE HeldInv'
  <2>1. BlockHeld' /\ HandsEmpty' /\ LiveHeld'
    BY <1>0, <1>7 DEF Dequeue, BeginHash, BlockHeld, HandsEmpty, LiveHeld, Busy
  <2>2. QED  BY <2>1 DEF HeldInv
<1>8. CASE AddToHashQueue(w)
  <2>1. PICK t \in Tasks : t = task[w]
    BY <1>0, <1>8 DEF AddToHashQueue, AtWork
  <2>2. Busy(t)
    BY <1>8, <2>1 DEF AddToHashQueue, Busy
  <2>3. finishCounter'[t] > 0
    BY <1>0, <1>8, <2>1 DEF AddToHashQueue, ResetCounters
  <2>4. \A u \in Tasks \ {t} : Busy(u)' <=> Busy(u)
    BY <1>0, <1>8, <2>1 DEF AddToHashQueue, ResetCounters, Busy
  <2>5. BlockHeld'
    BY <1>0, <1>8, <2>2, <2>3, <2>4 DEF AddToHashQueue, BlockHeld, Busy
  <2>6. HandsEmpty' /\ LiveHeld'
    BY <1>0, <1>8 DEF AddToHashQueue, HandsEmpty, LiveHeld
  <2>7. QED  BY <2>5, <2>6 DEF HeldInv
<1>10. QED
  BY <1>1, <1>2, <1>3, <1>4, <1>5, <1>6, <1>7, <1>8 DEF CallbackStep

LEMMA HeldStep == ASSUME TInv, OwnerInv, HeldInv, [Next]_vars PROVE HeldInv'
<1>0. /\ BlockHeld /\ HandsEmpty /\ LiveHeld
      /\ Workers \subseteq Threads /\ Coordinators \subseteq Threads
      /\ Coordinators \cap Workers = {}
  BY TaskAssumption DEF HeldInv, Threads
<1>1. ASSUME NEW c \in Coordinators, DialogStep(c) \/ UserStep(c) \/ DeleteStep(c), ~TaskStep(c)
      PROVE  HeldInv'
  <2>1. /\ UNCHANGED <<hand, block, live, pendingIo, finishCounter>>
        /\ \A th \in Threads \ {c} : pc'[th] = pc[th] /\ task'[th] = task[th]
    BY <1>1, DialogQuiet
  <2>2. hand[c] # NoBlock => pc'[c] = pc[c]
    <3>1. hand[c] # NoBlock => pc[c] \in {"read", "drain"}
      BY <1>0 DEF HandsEmpty
    <3>2. QED  BY <1>1, <3>1, DialogQuiet
  <2>3. BlockHeld'
    BY <1>0, <2>1 DEF BlockHeld, Busy
  <2>4. HandsEmpty' /\ LiveHeld'
    BY <1>0, <2>1, <2>2 DEF HandsEmpty, LiveHeld
  <2>5. QED  BY <2>3, <2>4 DEF HeldInv
<1>2. CASE UNCHANGED vars
  BY <1>2 DEF vars, HeldInv, BlockHeld, HandsEmpty, LiveHeld, Busy
<1>3. QED
  BY <1>0, <1>1, <1>2, HeldByTask, HeldByCallback DEF Next, WorkerStep, Terminated

(* Every committed block is with exactly one file or one thread: none      *)
(* leaks when a read fails or a file is cancelled, and none is freed under *)
(* a reader (FileHashTask.cpp, BlockTryAllocate to BlockFree).             *)
THEOREM BlocksOwnedAlways == Spec => []BlocksOwned
<1>1. ASSUME TInv, BudgetInv, HeldInv PROVE BlocksOwned
  BY <1>1, PoolAssumption
  DEF BudgetInv, HeldInv, HeldLive, LiveHeld, BlocksOwned, TInv, TypeOK, PoolTypeOK
<1>2. Spec => [](TInv /\ BudgetInv)
  BY TypeInit, TypeStep, BudgetInit, BudgetStep, PTL DEF Spec
<1>3. QED  BY <1>1, <1>2, HeldInit, HeldStep, OwnerInvariant, PTL DEF Spec

-----------------------------------------------------------------------------
(* The start counter counts the work items that have not begun, ...        *)
StartExact ==
  \A t \in Tasks :
    /\ startCounter[t] = pendingWork[t] + Cardinality(Unsubmitted(t))
    /\ startCounter[t] <= HashCount

(* ... those that have begun have different contexts, above the counter,   *)
ItemsApart ==
  \A th \in Threads : pc[th] \in HashLabels =>
    /\ arg[th] \in startCounter[task[th]] .. HashCount - 1
    /\ \A ti \in Hashing(task[th]) \ {th} : arg[ti] # arg[th]

(* and the block holds what they are to hash, from the end of the read on. *)
Loaded(t) ==
  finishCounter[t] > 0 \/ \E w \in Workers : pc[w] = "reset" /\ task[w] = t

DataRead == \A t \in Tasks : Loaded(t) => content[block[t]] = <<t, offset[t]>>

RoundInv == StartExact /\ ItemsApart /\ DataRead

LEMMA RoundInit == Init => RoundInv
<1> SUFFICES ASSUME Init PROVE RoundInv
  OBVIOUS
<1>1. \A th \in Threads : pc[th] \notin TaskLabels
  BY DEF Init
<1>2. \A t \in Tasks : Unsubmitted(t) = {}
  BY <1>1 DEF Unsubmitted
<1>3. \A t \in Tasks : startCounter[t] = 0 /\ pendingWork[t] = 0 /\ finishCounter[t] = 0
  BY DEF Init, TaskInit
<1>4. StartExact
  <2>1. Cardinality({}) = 0
    BY FS_EmptySet
  <2>2. QED  BY <1>2, <1>3, <2>1, TaskAssumption DEF StartExact
<1>5. QED  BY <1>1, <1>3, <1>4 DEF RoundInv, ItemsApart, DataRead, Loaded, Threads

(* A step that neither submits, begins, hashes nor ends a work item, nor   *)
(* starts or ends the round of a file.                                     *)
LEMMA RoundStays ==
  ASSUME TInv, OwnerInv, RoundInv,
         UNCHANGED <<startCounter, pendingWork>>,
         \A th \in Threads : pc[th] = "submit" \/ pc'[th] = "submit" =>
           pc'[th] = pc[th] /\ task'[th] = task[th] /\ arg'[th] = arg[th],
         \A th \in Threads : pc'[th] \in HashLabels =>
           pc[th] \in HashLabels /\ task'[th] = task[th] /\ arg'[th] = arg[th]
  PROVE  StartExact' /\ ItemsApart'
<1>1. \A t \in Tasks : Unsubmitted(t)' = Unsubmitted(t)
  BY DEF Unsubmitted
<1>2. StartExact'
  BY <1>1 DEF RoundInv, StartExact
<1>3. ItemsApart'
  BY DEF RoundInv, ItemsApart, Hashing
<1>4. QED  BY <1>2, <1>3

LEMMA RoundByCallback ==
  ASSUME TInv, OwnerInv, BudgetInv, HeldInv, RoundInv, NEW w \in Workers, CallbackStep(w)
  PROVE  RoundInv'
<1>0. /\ pc \in [Threads -> Labels] /\ task \in [Threads -> Tasks \cup {NoTask}]
      /\ arg \in [Threads -> Int]
      /\ block \in [Tasks -> Blocks \cup {NoBlock}] /\ content \in [Blocks -> Data]
      /\ startCounter \in [Tasks -> Int] /\ finishCounter \in [Tasks -> Int]
      /\ pendingWork \in [Tasks -> Nat] /\ pendingIo \in [Tasks -> Nat]
      /\ offset \in [Tasks -> Nat]
      /\ Workers \subseteq Threads /\ w \in Threads /\ HashCount \in Nat \ {0}
      /\ StartExact /\ ItemsApart /\ DataRead /\ HoldersApart /\ BlockHeld /\ AtWork
      /\ OneOwner /\ RoundCounted /\ Submitting /\ TypeOK
  BY TaskAssumption
  DEF TInv, OwnerInv, BudgetInv, HeldInv, RoundInv, TypeOK, ThreadTypeOK, SystemTypeOK,
      TaskTypeOK, Threads
<1>9. \A ti \in Threads \ {w} : pc'[ti] = pc[ti] /\ task'[ti] = task[ti] /\ arg'[ti] = arg[ti]
  BY <1>0, OthersStay
<1>1. CASE QueueEmpty(w) \/ CountProgress(w) \/ SendProgress(w) \/ Update(w)
  <2>1. DataRead'
    BY <1>0, <1>1, <1>9
    DEF QueueEmpty, CountProgress, SendProgress, Update, DataRead, Loaded
  <2>2. QED
    BY <1>0, <1>1, <2>1, RoundStays
    DEF QueueEmpty, CountProgress, SendProgress, Update, RoundInv
<1>2. CASE FinishHash(w)
  <2>1. DataRead'
    BY <1>0, <1>2, <1>9 DEF FinishHash, LastOfRound, DataRead, Loaded
  <2>2. QED
    BY <1>0, <1>2, <2>1, RoundStays DEF FinishHash, RoundInv
<1>3. CASE Advance(w)
  <2>1. PICK t \in Tasks : t = task[w]
    BY <1>0, <1>3 DEF Advance, AtWork
  <2>2. finishCounter[t] = 0 /\ Sole(t) = {w}
    BY <1>0, <1>3, <2>1, InSole DEF Advance
  <2>3. ASSUME NEW u \in Tasks, Loaded(u)' PROVE content'[block'[u]] = <<u, offset'[u]>>
    <3>1. u # t /\ Loaded(u)
      BY <1>0, <1>3, <1>9, <2>2, <2>3 DEF Advance, Loaded, Sole
    <3>2. block[u] # NoBlock /\ block[u] # block[t]
      BY <1>0, <2>1, <3>1 DEF BlockHeld, Busy, Loaded, HoldersApart
    <3>3. content'[block[u]] = content[block[u]]
      BY <1>0, <1>3, <2>1, <3>2 DEF Advance, BlockReset
    <3>4. block'[u] = block[u] /\ offset'[u] = offset[u]
      BY <1>0, <1>3, <2>1, <3>1 DEF Advance
    <3>5. QED  BY <1>0, <3>1, <3>3, <3>4 DEF DataRead
  <2>4. QED
    BY <1>0, <1>3, <2>3, RoundStays DEF Advance, RoundInv, DataRead
<1>4. ASSUME NEW t \in Tasks, ReadCompletedBadly(w, t) PROVE RoundInv'
  <2>1. finishCounter[t] = 0 /\ Sole(t) = {}
    BY <1>0, <1>4, PendingMeans DEF ReadCompletedBadly, ReadArrives
  <2>2. ASSUME NEW u \in Tasks, Loaded(u)' PROVE content'[block'[u]] = <<u, offset'[u]>>
    <3>1. u # t /\ Loaded(u)
      BY <1>0, <1>4, <1>9, <2>1, <2>2 DEF ReadCompletedBadly, Loaded, Sole
    <3>2. block[u] # NoBlock /\ block[u] # block[t]
      BY <1>0, <3>1 DEF BlockHeld, Busy, Loaded, HoldersApart
    <3>3. content'[block[u]] = content[block[u]]
      BY <1>0, <1>4, <3>2 DEF ReadCompletedBadly, BlockReset
    <3>4. block'[u] = block[u] /\ offset'[u] = offset[u]
      BY <1>0, <1>4, <3>1 DEF ReadCompletedBadly
    <3>5. QED  BY <1>0, <3>1, <3>3, <3>4 DEF DataRead
  <2>3. QED
    BY <1>0, <1>4, <2>2, RoundStays DEF ReadCompletedBadly, ReadArrives, RoundInv, DataRead
<1>5. ASSUME NEW t \in Tasks, Dequeue(w, t) PROVE RoundInv'
  <2>1. DataRead'
    BY <1>0, <1>5, <1>9 DEF Dequeue, DataRead, Loaded
  <2>2. QED
    BY <1>0, <1>5, <2>1, RoundStays DEF Dequeue, RoundInv
<1>6. ASSUME NEW t \in Tasks, ReadCompleted(w, t) PROVE RoundInv'
  <2>1. Busy(t)
    BY <1>6 DEF ReadCompleted, ReadArrives, Busy
  <2>2. block[t] \in Blocks
    BY <1>0, <2>1 DEF BlockHeld
  <2>3. content'[block'[t]] = <<t, offset'[t]>>
    BY <1>0, <1>6, <2>2 DEF ReadCompleted
  <2>4. ASSUME NEW u \in Tasks \ {t}, Loaded(u)' PROVE content'[block'[u]] = <<u, offset'[u]>>
    <3>1. Loaded(u)
      BY <1>0, <1>6, <1>9, <2>4 DEF ReadCompleted, ReadArrives, Loaded
    <3>2. block[u] # NoBlock /\ block[u] # block[t]
      BY <1>0, <3>1 DEF BlockHeld, Busy, Loaded, HoldersApart
    <3>3. content'[block[u]] = content[block[u]]
      BY <1>0, <1>6, <3>2 DEF ReadCompleted
    <3>4. QED  BY <1>0, <1>6, <3>1, <3>3 DEF ReadCompleted, DataRead
  <2>5. DataRead'
    BY <2>3, <2>4 DEF DataRead
  <2>6. QED
    BY <1>0, <1>6, <2>5, RoundStays DEF ReadCompleted, ReadArrives, RoundInv
<1>7. CASE SubmitWork(w)
  <2>1. PICK t \in Tasks : t = task[w]
    BY <1>0, <1>7 DEF SubmitWork, AtWork
  <2>2. arg[w] \in 1 .. HashCount
    BY <1>0, <1>7 DEF SubmitWork, Submitting
  <2>3. /\ <<w, arg[w]>> \in Unsubmitted(t)
        /\ Unsubmitted(t)' = Unsubmitted(t) \ {<<w, arg[w]>>}
    <3>1. <<w, arg[w]>> \in Unsubmitted(t)
      BY <1>0, <1>7, <2>1, <2>2 DEF SubmitWork, Unsubmitted
    <3>2. \A s \in Threads \X (1 .. HashCount) :
            s \in Unsubmitted(t)' <=> s \in Unsubmitted(t) /\ s # <<w, arg[w]>>
      BY <1>0, <1>7, <2>1, <2>2 DEF SubmitWork, Unsubmitted
    <3>3. QED  BY <3>1, <3>2 DEF Unsubmitted
  <2>4. /\ Cardinality(Unsubmitted(t)') = Cardinality(Unsubmitted(t)) - 1
        /\ Cardinality(Unsubmitted(t)) \in Nat
    BY <2>3, SetsFinite, OneMore
  <2>5. \A u \in Tasks \ {t} : Unsubmitted(u)' = Unsubmitted(u)
    BY <1>0, <1>7, <1>9, <2>1 DEF SubmitWork, Unsubmitted
  <2>6. StartExact'
    BY <1>0, <1>7, <2>1, <2>4, <2>5 DEF SubmitWork, StartExact
  <2>7. ItemsApart'
    BY <1>0, <1>7, <1>9 DEF SubmitWork, ItemsApart, Hashing
  <2>8. DataRead'
    BY <1>0, <1>7, <1>9 DEF SubmitWork, DataRead, Loaded
  <2>9. QED  BY <2>6, <2>7, <2>8 DEF RoundInv
<1>8. ASSUME NEW t \in Tasks, BeginHash(w, t) PROVE RoundInv'
  <2>1. \A u \in Tasks : Unsubmitted(u)' = Unsubmitted(u)
    BY <1>0, <1>8, <1>9 DEF BeginHash, Unsubmitted
  <2>2. startCounter[t] > 0 /\ startCounter[t] <= HashCount
    BY <1>0, <1>8, SetsFinite DEF BeginHash, StartExact
  <2>3. StartExact'
    <3>1. /\ startCounter'[t] = startCounter[t] - 1 /\ pendingWork'[t] = pendingWork[t] - 1
          /\ \A u \in Tasks \ {t} : startCounter'[u] = startCounter[u] /\ pendingWork'[u] = pendingWork[u]
      BY <1>0, <1>8 DEF BeginHash
    <3>2. Cardinality(Unsubmitted(t)) \in Nat
      BY SetsFinite
    <3>3. startCounter'[t] = pendingWork'[t] + Cardinality(Unsubmitted(t)') /\ startCounter'[t] <= HashCount
      BY <1>0, <2>1, <2>2, <3>1, <3>2 DEF StartExact
    <3>4. QED  BY <1>0, <2>1, <3>1, <3>3 DEF StartExact
  <2>5. ItemsApart'
    BY <1>0, <1>8, <1>9, <2>2 DEF BeginHash, ItemsApart, Hashing
  <2>6. DataRead'
    BY <1>0, <1>8, <1>9 DEF BeginHash, DataRead, Loaded
  <2>7. QED  BY <2>3, <2>5, <2>6 DEF RoundInv
<1>11. CASE AddToHashQueue(w)
  <2>0. PICK t \in Tasks : t = task[w]
    BY <1>0, <1>11 DEF AddToHashQueue, AtWork
  <2>1. /\ finishCounter[t] = 0 /\ pendingWork[t] = 0
        /\ Hashing(t) = {} /\ Unsubmitted(t) = {}
    BY <1>0, <1>11, <2>0, InSole DEF AddToHashQueue
  <2>2. Unsubmitted(t)' = {w} \X (1 .. HashCount)
    <3>1. \A s : s \in Unsubmitted(t)' <=> s \in {w} \X (1 .. HashCount)
      BY <1>0, <1>11, <2>0, <2>1 DEF AddToHashQueue, Unsubmitted
    <3>2. QED  BY <3>1
  <2>3. Cardinality({w} \X (1 .. HashCount)) = HashCount
    <3>1. IsFiniteSet({w}) /\ Cardinality({w}) = 1
      BY FS_Singleton
    <3>2. IsFiniteSet(1 .. HashCount) /\ Cardinality(1 .. HashCount) = HashCount
      BY TaskAssumption, FS_Interval
    <3>3. Cardinality({w} \X (1 .. HashCount)) = Cardinality({w}) * Cardinality(1 .. HashCount)
      BY <3>1, <3>2, FS_Product
    <3>4. QED  BY <1>0, <3>1, <3>2, <3>3
  <2>4. /\ startCounter'[t] = HashCount /\ pendingWork' = pendingWork
        /\ \A u \in Tasks \ {t} : startCounter'[u] = startCounter[u]
    BY <1>0, <1>11, <2>0 DEF AddToHashQueue, ResetCounters
  <2>5. \A u \in Tasks \ {t} : Unsubmitted(u)' = Unsubmitted(u)
    BY <1>0, <1>11, <2>0, <1>9 DEF AddToHashQueue, Unsubmitted
  <2>6. StartExact'
    <3>1. startCounter'[t] = pendingWork'[t] + Cardinality(Unsubmitted(t)')
      BY <1>0, <2>1, <2>2, <2>3, <2>4
    <3>2. QED  BY <1>0, <2>4, <2>5, <3>1 DEF StartExact
  <2>7. ItemsApart'
    <3>1. \A th \in Threads : pc'[th] \in HashLabels =>
            /\ pc[th] = pc'[th] /\ task'[th] = task[th] /\ arg'[th] = arg[th] /\ task[th] # t
            /\ task[th] \in Tasks
      BY <1>0, <1>11, <2>0, <1>9, <2>1 DEF AddToHashQueue, Hashing, AtWork
    <3>2. QED  BY <1>0, <2>4, <3>1 DEF ItemsApart, Hashing
  <2>8. DataRead'
    <3>1. \A u \in Tasks : Loaded(u)' => Loaded(u)
      BY <1>0, <1>11, <1>9, <2>0 DEF AddToHashQueue, ResetCounters, Loaded
    <3>2. QED  BY <1>0, <1>11, <3>1 DEF AddToHashQueue, DataRead
  <2>9. QED  BY <2>6, <2>7, <2>8 DEF RoundInv
<1>12. QED
  BY <1>1, <1>2, <1>3, <1>4, <1>5, <1>6, <1>7, <1>8, <1>11 DEF CallbackStep

LEMMA RoundStep ==
  ASSUME TInv, OwnerInv, BudgetInv, HeldInv, RoundInv, [Next]_vars PROVE RoundInv'
<1>0. /\ DataRead /\ AtWork /\ Workers \subseteq Threads /\ Coordinators \subseteq Threads
      /\ finishCounter \in [Tasks -> Int] /\ Workers \cap Coordinators = {}
  BY TaskAssumption DEF RoundInv, TInv, TypeOK, TaskTypeOK, Threads
<1>1. ASSUME NEW th \in Threads, TaskStep(th) PROVE RoundInv'
  <2>1. \A ti \in Threads \ {th} : pc'[ti] = pc[ti] /\ task'[ti] = task[ti] /\ arg'[ti] = arg[ti]
    BY <1>1, OthersStay
  <2>2. StartExact' /\ ItemsApart'
    BY <1>1, <2>1, TaskQuiet, RoundStays DEF Reading
  <2>3. finishCounter[task[th]] = 0 /\ Sole(task[th]) = {th} /\ pc[th] # "reset"
    BY <1>1, TaskQuiet, InSole DEF Reading
  <2>4. DataRead'
    <3>1. /\ UNCHANGED <<offset, finishCounter, content>> /\ pc'[th] # "reset"
          /\ \A t \in Tasks \ {task[th]} : block'[t] = block[t]
      BY <1>1, TaskQuiet DEF Reading
    <3>2. \A t \in Tasks : Loaded(t)' => Loaded(t) /\ t # task[th]
      BY <1>0, <2>1, <2>3, <3>1 DEF Loaded, Sole
    <3>3. QED  BY <1>0, <3>1, <3>2 DEF DataRead
  <2>5. QED  BY <2>2, <2>4 DEF RoundInv
<1>2. ASSUME NEW c \in Coordinators, DialogStep(c) \/ UserStep(c) \/ DeleteStep(c), ~TaskStep(c)
      PROVE  RoundInv'
  <2>1. StartExact' /\ ItemsApart'
    BY <1>0, <1>2, DialogQuiet, RoundStays
  <2>2. /\ UNCHANGED <<finishCounter, content, block, offset>>
        /\ \A w \in Workers : pc'[w] = pc[w] /\ task'[w] = task[w]
    BY <1>0, <1>2, DialogQuiet
  <2>3. DataRead'
    BY <1>0, <2>2 DEF DataRead, Loaded
  <2>4. QED  BY <2>1, <2>3 DEF RoundInv
<1>3. CASE UNCHANGED vars
  <2>1. StartExact' /\ ItemsApart'
    BY <1>3, RoundStays DEF vars
  <2>2. QED  BY <1>0, <1>3, <2>1 DEF vars, DataRead, Loaded, RoundInv
<1>4. QED
  BY <1>0, <1>1, <1>2, <1>3, RoundByCallback DEF Next, WorkerStep, Terminated

LEMMA RoundInvariant ==
  Spec => [](TInv /\ OwnerInv /\ NoErrorYet /\ BudgetInv /\ HeldInv /\ RoundInv)
<1>1. Spec => [](TInv /\ BudgetInv)
  BY TypeInit, TypeStep, BudgetInit, BudgetStep, PTL DEF Spec
<1>2. Spec => [](TInv /\ OwnerInv /\ NoErrorYet /\ BudgetInv /\ HeldInv)
  BY <1>1, NoErrorInvariant, HeldInit, HeldStep, PTL DEF Spec
<1>3. QED  BY <1>2, RoundInit, RoundStep, PTL DEF Spec

(* The work items of a round use different contexts, and each finds in     *)
(* _block the data at the file's own offset, whatever other files reuse,   *)
(* free or reset meanwhile (DoHashRound, OverlappedCompletionRoutine).     *)
THEOREM ContextsApartAlways == Spec => []ContextsApart
<1>1. ASSUME TInv, OwnerInv, HeldInv, RoundInv PROVE ContextsApart
  <2>1. SUFFICES ASSUME NEW w \in Workers, pc[w] = "update"
        PROVE  /\ arg[w] \in Contexts
               /\ \A v \in Hashing(task[w]) \ {w} : arg[v] # arg[w]
               /\ block[task[w]] # NoBlock
               /\ BlockData(block[task[w]]) = <<task[w], offset[task[w]]>>
    BY DEF ContextsApart
  <2>2. w \in Threads
    BY DEF Threads
  <2>3. task[w] \in Tasks /\ finishCounter[task[w]] > 0
    BY <2>1, <2>2, InRound, <1>1
  <2>4. block[task[w]] # NoBlock /\ content[block[task[w]]] = <<task[w], offset[task[w]]>>
    BY <1>1, <2>3 DEF HeldInv, BlockHeld, Busy, RoundInv, DataRead, Loaded
  <2>5. /\ arg[w] \in startCounter[task[w]] .. HashCount - 1
        /\ \A v \in Hashing(task[w]) \ {w} : arg[v] # arg[w]
    BY <1>1, <2>1, <2>2 DEF RoundInv, ItemsApart
  <2>6. startCounter[task[w]] \in Int /\ startCounter[task[w]] >= 0
    <3>1. Cardinality(Unsubmitted(task[w])) \in Nat /\ pendingWork[task[w]] \in Nat
      BY <1>1, <2>3, SetsFinite DEF TInv, TypeOK, SystemTypeOK
    <3>2. QED  BY <1>1, <2>3, <3>1 DEF RoundInv, StartExact
  <2>7. arg[w] \in Contexts
    BY <2>5, <2>6, TaskAssumption DEF Contexts
  <2>8. QED  BY <2>4, <2>5, <2>7 DEF BlockData
<1>2. QED  BY <1>1, RoundInvariant, PTL

-----------------------------------------------------------------------------
(* Somebody ends the round of t.                                           *)
Ending(t) ==
  \E w \in Workers : pc[w] \in {"progress", "postProgress", "advance"} /\ task[w] = t

(* The work item of context i has hashed the block of the round of t.      *)
Hashed(t, i) ==
  \/ Ending(t)
  \/ /\ finishCounter[t] > 0 /\ i >= startCounter[t]
     /\ \A th \in Threads : ~(pc[th] = "update" /\ task[th] = t /\ arg[th] = i)

(* How many blocks of t context i has been updated with.                   *)
Fed(t, i) == offset[t] + IF Hashed(t, i) THEN BlockSize(t) ELSE 0

(* They are the first ones, each once and in order.                        *)
DigestsKept ==
  \A t \in Tasks : \A i \in Enabled : digest[t][i] = [n \in 1 .. Fed(t, i) |-> <<t, n - 1>>]

OffsetsKept ==
  \A t \in Tasks : offset[t] <= size[t] /\ (stage[t] = "new" => offset[t] = 0)

(* Who finishes a file without an error has reached its end.               *)
WholeRead ==
  /\ \A th \in Threads :
       pc[th] \in {"complete", "notify", "dereference"} /\ error[task[th]] = "none" =>
         offset[task[th]] = size[task[th]]
  /\ \A t \in Tasks : Finished(t) /\ error[t] = "none" => offset[t] = size[t]

DigestInv == DigestsKept /\ OffsetsKept /\ WholeRead

LEMMA DigestInit == Init => DigestInv
<1> SUFFICES ASSUME Init PROVE DigestInv
  OBVIOUS
<1>1. \A th \in Threads : pc[th] \notin TaskLabels
  BY DEF Init
<1>2. \A t \in Tasks : /\ offset[t] = 0 /\ size[t] = 0 /\ finishCounter[t] = 0
                       /\ stage[t] = "new" /\ \A i \in Contexts : digest[t][i] = <<>>
  BY DEF Init, TaskInit
<1>3. \A t \in Tasks, i \in Contexts : Fed(t, i) = 0
  BY <1>1, <1>2 DEF Fed, Hashed, Ending, Threads
<1>4. [n \in 1 .. 0 |-> n] = <<>>
  OBVIOUS
<1>5. DigestsKept
  BY <1>2, <1>3, TaskAssumption DEF DigestsKept
<1>6. QED  BY <1>1, <1>2, <1>5 DEF DigestInv, OffsetsKept, WholeRead, Finished

(* A step after which every context has been fed as much as before.        *)
LEMMA FedAlike ==
  ASSUME DigestsKept, digest' = digest,
         \A t \in Tasks, i \in Enabled : Fed(t, i)' = Fed(t, i)
  PROVE  DigestsKept'
  BY DEF DigestsKept

(* ... because no work item of the round of t moved.                       *)
LEMMA RoundAlike ==
  ASSUME NEW t \in Tasks,
         UNCHANGED <<offset[t], size[t], startCounter[t], finishCounter[t]>>,
         Ending(t)' <=> Ending(t),
         \A th \in Threads : (pc[th] = "update" \/ pc'[th] = "update") =>
           pc'[th] = pc[th] /\ task'[th] = task[th] /\ arg'[th] = arg[th]
  PROVE  \A i \in Enabled : Fed(t, i)' = Fed(t, i)
<1>1. \A i \in Enabled : Hashed(t, i)' <=> Hashed(t, i)
  BY DEF Hashed
<1>2. BlockSize(t)' = BlockSize(t)
  BY DEF BlockSize
<1>3. QED  BY <1>1, <1>2 DEF Fed

(* One block more.                                                         *)
LEMMA OneBlock ==
  ASSUME NEW t, NEW n \in Nat
  PROVE  Append([k \in 1 .. n |-> <<t, k - 1>>], <<t, n>>) = [k \in 1 .. n + 1 |-> <<t, k - 1>>]
  OBVIOUS

LEMMA KeptByCallback ==
  ASSUME TInv, OwnerInv, HeldInv, RoundInv, DigestsKept, NEW w \in Workers, CallbackStep(w)
  PROVE  DigestsKept'
<1>0. /\ pc \in [Threads -> Labels] /\ task \in [Threads -> Tasks \cup {NoTask}]
      /\ arg \in [Threads -> Int]
      /\ startCounter \in [Tasks -> Int] /\ finishCounter \in [Tasks -> Int]
      /\ pendingWork \in [Tasks -> Nat] /\ pendingIo \in [Tasks -> Nat]
      /\ offset \in [Tasks -> Nat] /\ digest \in [Tasks -> [Contexts -> Seq(Data)]]
      /\ Workers \subseteq Threads /\ w \in Threads /\ HashCount \in Nat \ {0}
      /\ Enabled \subseteq Contexts /\ Contexts = 0 .. HashCount - 1
      /\ StartExact /\ ItemsApart /\ DataRead /\ BlockHeld /\ AtWork
      /\ OneOwner /\ RoundCounted /\ TypeOK
  BY TaskAssumption
  DEF TInv, OwnerInv, HeldInv, RoundInv, TypeOK, ThreadTypeOK, SystemTypeOK, TaskTypeOK, Threads,
      Contexts
<1>9. \A ti \in Threads \ {w} : pc'[ti] = pc[ti] /\ task'[ti] = task[ti] /\ arg'[ti] = arg[ti]
  BY <1>0, OthersStay
<1>1. CASE QueueEmpty(w) \/ SubmitWork(w) \/ CountProgress(w) \/ SendProgress(w)
  <2>1. \A t \in Tasks : Ending(t)' <=> Ending(t)
    BY <1>0, <1>1, <1>9 DEF QueueEmpty, SubmitWork, CountProgress, SendProgress, Ending
  <2>2. UNCHANGED <<offset, size, startCounter, finishCounter, digest>>
    BY <1>1 DEF QueueEmpty, SubmitWork, CountProgress, SendProgress
  <2>3. pc[w] # "update" /\ pc'[w] # "update"
    BY <1>0, <1>1 DEF QueueEmpty, SubmitWork, CountProgress, SendProgress
  <2>4. QED  BY <1>9, <2>1, <2>2, <2>3, RoundAlike, FedAlike
<1>2. ASSUME NEW t \in Tasks, Dequeue(w, t) \/ ReadCompletedBadly(w, t) \/ ReadCompleted(w, t)
      PROVE  DigestsKept'
  <2>1. \A u \in Tasks : Ending(u)' <=> Ending(u)
    BY <1>0, <1>2, <1>9
    DEF Dequeue, ReadCompletedBadly, ReadCompleted, ReadArrives, Ending
  <2>2. UNCHANGED <<offset, size, startCounter, finishCounter, digest>>
    BY <1>2 DEF Dequeue, ReadCompletedBadly, ReadCompleted
  <2>3. pc[w] # "update" /\ pc'[w] # "update"
    BY <1>0, <1>2 DEF Dequeue, ReadCompletedBadly, ReadCompleted, ReadArrives
  <2>4. QED  BY <1>9, <2>1, <2>2, <2>3, RoundAlike, FedAlike
<1>3. CASE AddToHashQueue(w)
  <2>0. PICK t \in Tasks : t = task[w]
    BY <1>0, <1>3 DEF AddToHashQueue, AtWork
  <2>1. finishCounter[t] = 0 /\ Sole(t) = {w} /\ pc[w] = "reset"
    BY <1>0, <1>3, <2>0, InSole DEF AddToHashQueue
  <2>2. \A u \in Tasks : Ending(u)' <=> Ending(u)
    BY <1>0, <1>3, <1>9 DEF AddToHashQueue, Ending
  <2>3. pc[w] # "update" /\ pc'[w] # "update"
    BY <1>0, <1>3 DEF AddToHashQueue
  <2>4. \A u \in Tasks \ {t} : \A i \in Enabled : Fed(u, i)' = Fed(u, i)
    <3>1. ASSUME NEW u \in Tasks \ {t}
          PROVE  UNCHANGED <<offset[u], size[u], startCounter[u], finishCounter[u]>>
      BY <1>0, <1>3, <2>0 DEF AddToHashQueue, ResetCounters
    <3>2. QED  BY <1>9, <2>2, <2>3, <3>1, RoundAlike
  <2>5. ASSUME NEW i \in Enabled PROVE Fed(t, i)' = Fed(t, i)
    <3>1. ~Ending(t)
      BY <1>0, <2>1 DEF Ending, Sole, Threads
    <3>2. startCounter'[t] = HashCount /\ i < HashCount
      BY <1>0, <1>3, <2>0 DEF AddToHashQueue, ResetCounters
    <3>3. ~Hashed(t, i) /\ ~Hashed(t, i)'
      BY <1>0, <2>1, <2>2, <3>1, <3>2 DEF Hashed
    <3>4. QED  BY <1>3, <3>3 DEF Fed, AddToHashQueue
  <2>6. digest' = digest
    BY <1>3 DEF AddToHashQueue
  <2>7. QED  BY <2>4, <2>5, <2>6, FedAlike
<1>4. ASSUME NEW t \in Tasks, BeginHash(w, t) PROVE DigestsKept'
  <2>1. \A u \in Tasks : Ending(u)' <=> Ending(u)
    BY <1>0, <1>4, <1>9 DEF BeginHash, Ending
  <2>2. /\ UNCHANGED <<offset, size, finishCounter, digest>> /\ pc[w] = "idle"
        /\ pc'[w] = "update" /\ task'[w] = t /\ arg'[w] = startCounter[t] - 1
        /\ startCounter'[t] = startCounter[t] - 1
        /\ \A u \in Tasks \ {t} : startCounter'[u] = startCounter[u]
    BY <1>0, <1>4 DEF BeginHash
  <2>3. ASSUME NEW u \in Tasks \ {t}, NEW i \in Enabled PROVE Hashed(u, i)' <=> Hashed(u, i)
    <3>1. \A th \in Threads : pc'[th] = "update" /\ task'[th] = u /\ arg'[th] = i
                                <=> pc[th] = "update" /\ task[th] = u /\ arg[th] = i
      BY <1>9, <2>2
    <3>2. QED  BY <2>1, <2>2, <3>1 DEF Hashed
  <2>4. ASSUME NEW i \in Enabled PROVE Hashed(t, i)' <=> Hashed(t, i)
    <3>1. i \in Int /\ startCounter[t] \in Int
      BY <1>0
    <3>2. CASE i = startCounter[t] - 1
      BY <1>0, <2>1, <2>2, <3>1, <3>2 DEF Hashed
    <3>3. CASE i # startCounter[t] - 1
      <4>1. i >= startCounter'[t] <=> i >= startCounter[t]
        BY <2>2, <3>1, <3>3
      <4>2. \A th \in Threads : pc'[th] = "update" /\ task'[th] = t /\ arg'[th] = i
                                  <=> pc[th] = "update" /\ task[th] = t /\ arg[th] = i
        BY <1>9, <2>2, <3>3
      <4>3. QED  BY <2>1, <2>2, <4>1, <4>2 DEF Hashed
    <3>4. QED  BY <3>2, <3>3
  <2>5. \A u \in Tasks, i \in Enabled : Fed(u, i)' = Fed(u, i)
    BY <2>2, <2>3, <2>4 DEF Fed, BlockSize
  <2>6. QED  BY <2>2, <2>5, FedAlike
<1>5. CASE FinishHash(w)
  <2>1. PICK t \in Tasks : t = task[w]
    BY <1>0, <1>5 DEF FinishHash, AtWork
  <2>2. finishCounter[t] > 0 /\ Sole(t) = {}
    BY <1>0, <1>5, <2>1, InRound DEF FinishHash
  <2>3. /\ UNCHANGED <<offset, size, startCounter, digest, arg>> /\ pc[w] = "finishRound"
        /\ pc'[w] \in {"progress", "idle"} /\ finishCounter'[t] = finishCounter[t] - 1
        /\ pc'[w] = "progress" => task'[w] = t
        /\ pc'[w] = "progress" <=> finishCounter[t] = 1
        /\ \A u \in Tasks \ {t} : finishCounter'[u] = finishCounter[u]
    BY <1>0, <1>5, <2>1 DEF FinishHash, LastOfRound
  <2>4. ASSUME NEW u \in Tasks \ {t} PROVE \A i \in Enabled : Fed(u, i)' = Fed(u, i)
    <3>1. Ending(u)' <=> Ending(u)
      BY <1>0, <1>9, <2>1, <2>3 DEF Ending
    <3>2. QED  BY <1>9, <2>3, <3>1, RoundAlike
  <2>5. ASSUME NEW i \in Enabled PROVE Hashed(t, i)' <=> Hashed(t, i)
    <3>1. ~Ending(t)
      BY <1>0, <2>2 DEF Ending, Sole
    <3>2. CASE finishCounter[t] # 1
      <4>1. finishCounter'[t] > 0
        BY <1>0, <2>2, <2>3, <3>2
      <4>2. ~Ending(t)'
        BY <1>0, <1>9, <2>3, <3>1, <3>2 DEF Ending
      <4>3. \A th \in Threads : pc'[th] = "update" /\ task'[th] = t /\ arg'[th] = i
                                  <=> pc[th] = "update" /\ task[th] = t /\ arg[th] = i
        BY <1>9, <2>3
      <4>4. QED  BY <2>2, <2>3, <3>1, <4>1, <4>2, <4>3 DEF Hashed
    <3>3. CASE finishCounter[t] = 1
      <4>1. Ending(t)'
        BY <2>3, <3>3 DEF Ending
      <4>2. w \in Hashing(t)
        BY <1>0, <2>1, <2>3 DEF Hashing
      <4>3. Cardinality(Hashing(t)) # 0
        BY <4>2, SetsFinite, FS_EmptySet
      <4>4. Cardinality(Hashing(t)) = 1 /\ startCounter[t] = 0
        BY <1>0, <3>3, <4>3, SetsFinite DEF RoundCounted, ItemsLeft, StartExact
      <4>5. Hashing(t) = {w}
        BY <4>2, <4>4, SetsFinite, FS_Singleton
      <4>6. \A th \in Threads : ~(pc[th] = "update" /\ task[th] = t)
        BY <2>3, <4>5 DEF Hashing
      <4>7. i >= startCounter[t]
        BY <1>0, <4>4
      <4>8. QED  BY <2>2, <4>1, <4>6, <4>7 DEF Hashed
    <3>4. QED  BY <3>2, <3>3
  <2>6. \A i \in Enabled : Fed(t, i)' = Fed(t, i)
    BY <2>3, <2>5 DEF Fed, BlockSize
  <2>7. QED  BY <2>3, <2>4, <2>6, FedAlike
<1>6. CASE Advance(w)
  <2>1. PICK t \in Tasks : t = task[w]
    BY <1>0, <1>6 DEF Advance, AtWork
  <2>2. Sole(t) = {w} /\ finishCounter[t] = 0
    BY <1>0, <1>6, <2>1, InSole DEF Advance
  <2>3. /\ UNCHANGED <<size, startCounter, finishCounter, digest, arg, task>> /\ pc[w] = "advance"
        /\ pc'[w] \in {"read", "complete"} /\ offset'[t] = offset[t] + BlockSize(t)
        /\ \A u \in Tasks \ {t} : offset'[u] = offset[u]
    BY <1>0, <1>6, <2>1 DEF Advance
  <2>4. ASSUME NEW u \in Tasks \ {t} PROVE \A i \in Enabled : Fed(u, i)' = Fed(u, i)
    <3>1. Ending(u)' <=> Ending(u)
      BY <1>0, <1>9, <2>1, <2>3 DEF Ending
    <3>2. QED  BY <1>9, <2>3, <3>1, RoundAlike
  <2>5. ASSUME NEW i \in Enabled PROVE Fed(t, i)' = Fed(t, i)
    <3>1. Ending(t)
      BY <2>1, <2>3 DEF Ending
    <3>2. ~Ending(t)'
      <4>1. ASSUME NEW v \in Threads \ {w}, pc[v] \in {"progress", "postProgress", "advance"}
            PROVE  task[v] # t
        BY <2>2, <4>1 DEF Sole
      <4>2. QED  BY <1>0, <1>9, <2>3, <4>1 DEF Ending
    <3>3. Hashed(t, i) /\ ~Hashed(t, i)'
      BY <1>0, <2>2, <2>3, <3>1, <3>2 DEF Hashed
    <3>4. QED  BY <1>0, <2>3, <3>3 DEF Fed, BlockSize
  <2>6. QED  BY <2>3, <2>4, <2>5, FedAlike
<1>7. CASE Update(w)
  <2>1. PICK t \in Tasks : t = task[w]
    BY <1>0, <1>7 DEF Update, AtWork
  <2>2. finishCounter[t] > 0 /\ Sole(t) = {}
    BY <1>0, <1>7, <2>1, InRound DEF Update
  <2>3. block[t] # NoBlock /\ BlockData(block[t]) = <<t, offset[t]>>
    BY <1>0, <2>2 DEF BlockHeld, Busy, DataRead, Loaded, BlockData
  <2>4. /\ UNCHANGED <<offset, size, startCounter, finishCounter, arg, task>>
        /\ pc[w] = "update" /\ pc'[w] = "finishRound"
        /\ digest' = IF arg[w] \in Enabled /\ BlockSize(t) > 0
                       THEN [digest EXCEPT ![t][arg[w]] = Append(@, <<t, offset[t]>>)]
                       ELSE digest
    BY <1>0, <1>7, <2>1, <2>3 DEF Update
  <2>5. \A u \in Tasks : Ending(u)' <=> Ending(u)
    BY <1>0, <1>9, <2>4 DEF Ending
  <2>6. ASSUME NEW u \in Tasks, NEW i \in Enabled, u # t \/ i # arg[w]
        PROVE  Fed(u, i)' = Fed(u, i) /\ digest'[u][i] = digest[u][i]
    <3>1. \A th \in Threads : pc'[th] = "update" /\ task'[th] = u /\ arg'[th] = i
                                <=> pc[th] = "update" /\ task[th] = u /\ arg[th] = i
      BY <1>9, <2>1, <2>4, <2>6
    <3>2. Fed(u, i)' = Fed(u, i)
      BY <2>4, <2>5, <3>1 DEF Fed, Hashed, BlockSize
    <3>3. digest'[u][i] = digest[u][i]
      BY <1>0, <2>4, <2>6
    <3>4. QED  BY <3>2, <3>3
  <2>7. ASSUME NEW i \in Enabled, i = arg[w]
        PROVE  digest'[t][i] = [n \in 1 .. Fed(t, i)' |-> <<t, n - 1>>]
    <3>1. ~Ending(t)
      BY <1>0, <2>2 DEF Ending, Sole
    <3>2. ~Hashed(t, i)
      BY <1>0, <2>1, <2>4, <2>7, <3>1 DEF Hashed
    <3>3. digest[t][i] = [n \in 1 .. offset[t] |-> <<t, n - 1>>]
      <4>1. Fed(t, i) = offset[t]
        BY <1>0, <3>2 DEF Fed
      <4>2. QED  BY <2>7, <4>1 DEF DigestsKept
    <3>4. /\ i >= startCounter[t]
          /\ \A ti \in Threads \ {w} : pc[ti] = "update" /\ task[ti] = t => arg[ti] # i
      BY <1>0, <2>1, <2>4, <2>7 DEF ItemsApart, Hashing
    <3>5. Hashed(t, i)'
      BY <1>9, <2>2, <2>4, <2>7, <3>4 DEF Hashed
    <3>6. Fed(t, i)' = offset[t] + BlockSize(t)
      BY <2>4, <3>5 DEF Fed, BlockSize
    <3>7. CASE BlockSize(t) = 0
      <4>1. Fed(t, i)' = offset[t] /\ digest' = digest
        BY <1>0, <2>4, <3>6, <3>7
      <4>2. QED  BY <3>3, <4>1
    <3>8. CASE BlockSize(t) = 1
      <4>1. digest'[t][i] = Append(digest[t][i], <<t, offset[t]>>)
        BY <1>0, <2>4, <2>7, <3>8
      <4>2. Fed(t, i)' = offset[t] + 1
        BY <3>6, <3>8
      <4>3. offset[t] \in Nat
        BY <1>0
      <4>4. Append([n \in 1 .. offset[t] |-> <<t, n - 1>>], <<t, offset[t]>>)
              = [n \in 1 .. offset[t] + 1 |-> <<t, n - 1>>]
        BY <4>3, OneBlock
      <4>5. QED  BY <3>3, <4>1, <4>2, <4>4
    <3>9. BlockSize(t) \in {0, 1}
      BY DEF BlockSize
    <3>10. QED  BY <3>7, <3>8, <3>9
  <2>8. QED  BY <2>6, <2>7 DEF DigestsKept
<1>8. QED
  BY <1>1, <1>2, <1>3, <1>4, <1>5, <1>6, <1>7 DEF CallbackStep

LEMMA KeptStep ==
  ASSUME TInv, OwnerInv, HeldInv, RoundInv, DigestsKept, OffsetsKept, [Next]_vars
  PROVE  DigestsKept'
<1>0. /\ Workers \subseteq Threads /\ Coordinators \subseteq Threads /\ Waiting
  BY DEF OwnerInv, Threads
<1>1. ASSUME NEW th \in Threads, TaskStep(th) PROVE DigestsKept'
  <2>1. \A ti \in Threads \ {th} : pc'[ti] = pc[ti] /\ task'[ti] = task[ti] /\ arg'[ti] = arg[ti]
    BY <1>1, OthersStay
  <2>2. \A t \in Tasks : Ending(t)' <=> Ending(t)
    BY <1>0, <1>1, <2>1, TaskQuiet DEF Ending, Reading
  <2>3. /\ UNCHANGED <<offset, size, startCounter, finishCounter, digest>>
        /\ pc[th] # "update" /\ pc'[th] # "update"
    BY <1>1, TaskQuiet DEF Reading
  <2>4. QED  BY <2>1, <2>2, <2>3, RoundAlike, FedAlike
<1>2. ASSUME NEW c \in Coordinators, DialogStep(c) \/ UserStep(c) \/ DeleteStep(c), ~TaskStep(c)
      PROVE  DigestsKept'
  <2>1. /\ UNCHANGED <<offset, startCounter, finishCounter, digest, arg>>
        /\ \A th \in Threads : pc[th] \in TaskLabels \ {"read", "notify", "dereference"}
                                 \/ pc'[th] \in TaskLabels \ {"read", "dereference"} =>
             pc'[th] = pc[th] /\ task'[th] = task[th]
    BY <1>0, <1>2, DialogQuiet
  <2>2. \A t \in Tasks : Ending(t)' <=> Ending(t)
    BY <1>0, <2>1 DEF Ending
  <2>3. ASSUME NEW t \in Tasks, size'[t] = size[t] PROVE \A i \in Enabled : Fed(t, i)' = Fed(t, i)
    BY <2>1, <2>2, <2>3, RoundAlike
  <2>4. ASSUME NEW t \in Tasks, size'[t] # size[t] PROVE \A i \in Enabled : Fed(t, i)' = Fed(t, i)
    <3>1. stage[t] = "new"
      BY <1>0, <1>2, <2>4
      DEF TInv, TypeOK, TaskTypeOK, Waiting, DialogStep, UserStep, DeleteStep, RegisterWindow, FilesAdded,
          NoFiles, AddFile, Owned, CountFile, StartProcessing, FilesStarted, NotifyOwnWindow,
          HandleFinished, HandleProgress, CancelReturns, UnregisterWindow, WindowDereference,
          CancelClicked, Close, DeleteBegins, FilesCancelled, Deleted
    <3>2. ~Busy(t)
      BY <3>1, BusyRuns DEF Running
    <3>3. ~Ending(t) /\ ~(finishCounter[t] > 0)
      BY <3>2 DEF Busy, Ending
    <3>4. \A i \in Enabled : ~Hashed(t, i) /\ ~Hashed(t, i)'
      BY <2>1, <2>2, <3>3 DEF Hashed
    <3>5. QED  BY <2>1, <3>4 DEF Fed
  <2>5. QED  BY <2>1, <2>3, <2>4, FedAlike
<1>3. CASE UNCHANGED vars
  <2>1. \A t \in Tasks, i \in Enabled : Fed(t, i)' = Fed(t, i)
    BY <1>3 DEF vars, Fed, Hashed, Ending, BlockSize
  <2>2. QED  BY <1>3, <2>1, FedAlike DEF vars
<1>4. QED
  BY <1>0, <1>1, <1>2, <1>3, KeptByCallback DEF Next, WorkerStep, Terminated

(* A file does not become new again.                                       *)
LEMMA NewBefore ==
  ASSUME TInv, [Next]_vars, NEW t \in Tasks, stage'[t] = "new"
  PROVE  stage[t] = "new"
<1>0. stage \in [Tasks -> Stages]
  BY DEF TInv, TypeOK, TaskTypeOK
<1>1. QED
  BY <1>0, WhoMovesOn DEF Complete, FinishDereference, StartProcessing, CountFile

LEMMA OffsetsStep ==
  ASSUME TInv, OwnerInv, OffsetsKept, [Next]_vars PROVE OffsetsKept'
<1>0. /\ offset \in [Tasks -> Nat] /\ size \in [Tasks -> Nat] /\ Sizes \subseteq Nat
      /\ Workers \subseteq Threads /\ AtWork /\ Waiting /\ TypeOK
  BY SizesAssumption DEF TInv, TypeOK, TaskTypeOK, OwnerInv, Threads
<1>1. CASE offset' = offset /\ size' = size
  BY <1>1, NewBefore DEF OffsetsKept
<1>2. ASSUME NEW w \in Workers, Advance(w) PROVE OffsetsKept'
  <2>1. task[w] \in Tasks /\ stage[task[w]] # "new"
    BY <1>0, <1>2, InSole DEF Advance, Running
  <2>2. /\ size' = size /\ stage' = stage
        /\ offset' = [offset EXCEPT ![task[w]] = @ + BlockSize(task[w])]
    BY <1>2 DEF Advance
  <2>3. offset'[task[w]] <= size[task[w]]
    BY <1>0, <2>1, <2>2 DEF BlockSize, OffsetsKept
  <2>4. QED  BY <1>0, <2>1, <2>2, <2>3 DEF OffsetsKept
<1>3. ASSUME NEW c \in Coordinators, NEW t \in Tasks, AddFile(c, t) PROVE OffsetsKept'
  <2>1. stage[t] = "new" /\ offset[t] = 0
    BY <1>0, <1>3 DEF AddFile, Owned, Waiting, OffsetsKept
  <2>2. /\ offset' = offset /\ stage' = stage
        /\ \E n \in Nat : size' = [size EXCEPT ![t] = n]
    BY <1>0, <1>3 DEF AddFile
  <2>3. QED  BY <1>0, <2>1, <2>2 DEF OffsetsKept
<1>4. QED
  <2>1. (\E w \in Workers : Advance(w)) \/ (\E c \in Coordinators, t \in Tasks : AddFile(c, t))
          \/ (offset' = offset /\ size' = size)
    BY WhoMovesOn
  <2>2. QED  BY <1>1, <1>2, <1>3, <2>1

(* A file that is added, and that nobody advances, has still reached its   *)
(* end if it had.                                                          *)
LEMMA EndStays ==
  ASSUME TInv, OwnerInv, NoErrorYet, [Next]_vars, NEW t \in Tasks, stage[t] # "new",
         \A w \in Workers : Advance(w) => task[w] # t,
         error[t] = "none" => offset[t] = size[t]
  PROVE  error'[t] = "none" => offset'[t] = size'[t]
<1>0. /\ offset \in [Tasks -> Nat] /\ size \in [Tasks -> Nat]
      /\ AtWork /\ Waiting /\ error \in [Tasks -> {"none", "failed", "cancelled"}]
  BY DEF TInv, TypeOK, TaskTypeOK, OwnerInv
<1>1. offset'[t] = offset[t]
  <2>1. ASSUME NEW w \in Workers, Advance(w) PROVE offset'[t] = offset[t]
    BY <1>0, <2>1 DEF Advance
  <2>2. QED  BY <2>1, WhoMovesOn
<1>2. size'[t] = size[t]
  <2>1. ASSUME NEW c \in Coordinators, NEW u \in Tasks, AddFile(c, u) PROVE size'[t] = size[t]
    BY <1>0, <2>1 DEF AddFile, Owned, Waiting
  <2>2. QED  BY <2>1, WhoMovesOn
<1>3. error'[t] = "none" => error[t] = "none"
  BY ErrorStays
<1>4. QED  BY <1>1, <1>2, <1>3

(* Who comes to Finish: with an error, or at the end of a block.           *)
LEMMA WhoComesToEnd ==
  ASSUME TInv, [Next]_vars, NEW th \in Threads,
         pc'[th] \in {"complete", "notify", "dereference"}
  PROVE  \/ /\ pc[th] \in {"complete", "notify", "dereference"}
            /\ task'[th] = task[th]
         \/ error'[task'[th]] # "none"
         \/ th \in Workers /\ Advance(th)
<1>0. /\ pc \in [Threads -> Labels] /\ task \in [Threads -> Tasks \cup {NoTask}]
      /\ error \in [Tasks -> {"none", "failed", "cancelled"}]
      /\ Workers \subseteq Threads /\ Coordinators \subseteq Threads /\ AtWork
  BY DEF TInv, TypeOK, ThreadTypeOK, TaskTypeOK, Threads
<1> DEFINE Kept == pc[th] \in {"complete", "notify", "dereference"} /\ task'[th] = task[th]
<1>1. CASE TaskStep(th)
  <2>1. CASE ReadBlockFailed(th) \/ StartReadFails(th)
    BY <1>0, <2>1 DEF ReadBlockFailed, StartReadFails, HasFailed, AtWork
  <2>2. CASE StartRead(th) \/ TryAllocate(th) \/ AllocationGivenBack(th) \/ Enqueue(th)
    BY <1>0, <2>2 DEF StartRead, ReturnFromRead, TryAllocate, AllocationGivenBack, Enqueue
  <2>3. CASE Complete(th) \/ Notify(th) \/ FinishDereference(th)
    BY <1>0, <2>3 DEF Complete, Notify, FinishDereference, ReturnFromRead
  <2>4. QED  BY <1>1, <2>1, <2>2, <2>3 DEF TaskStep
<1>2. CASE th \in Workers /\ CallbackStep(th)
  <2>1. ASSUME NEW t \in Tasks, ReadCompletedBadly(th, t) PROVE error'[task'[th]] # "none"
    BY <1>0, <2>1 DEF ReadCompletedBadly
  <2>2. QED
    BY <1>0, <1>2, <2>1
    DEF CallbackStep, QueueEmpty, AddToHashQueue, SubmitWork, Update, FinishHash,
        CountProgress, SendProgress, Dequeue, ReadCompleted, BeginHash
<1>3. ASSUME NEW ti \in Threads \ {th}, TaskStep(ti) \/ CallbackStep(ti) PROVE Kept
  BY <1>3, OthersStay
<1>4. ASSUME NEW c \in Coordinators, DialogStep(c) \/ UserStep(c) \/ DeleteStep(c), ~TaskStep(c)
      PROVE  Kept
  BY <1>0, <1>4, DialogQuiet
<1>5. CASE UNCHANGED vars
  BY <1>5 DEF vars
<1>6. QED  BY <1>0, <1>1, <1>2, <1>3, <1>4, <1>5 DEF Next, WorkerStep, Terminated

LEMMA WholeStep ==
  ASSUME TInv, OwnerInv, NoErrorYet, StageInv, OffsetsKept, WholeRead, [Next]_vars
  PROVE  WholeRead'
<1>0. /\ pc \in [Threads -> Labels] /\ task \in [Threads -> Tasks \cup {NoTask}]
      /\ error \in [Tasks -> {"none", "failed", "cancelled"}] /\ stage \in [Tasks -> Stages]
      /\ offset \in [Tasks -> Nat] /\ size \in [Tasks -> Nat] /\ cancelled \in [Tasks -> BOOLEAN]
      /\ Workers \subseteq Threads /\ AtWork /\ Completing
  BY DEF TInv, TypeOK, ThreadTypeOK, TaskTypeOK, StageInv, Threads
<1>1. ASSUME NEW th \in Threads, pc[th] \in {"complete", "notify", "dereference"}
      PROVE  \A w \in Workers : Advance(w) => task[w] # task[th]
  BY <1>0, <1>1, InSole DEF Advance, Sole
<1>2. ASSUME NEW th \in Threads, pc'[th] \in {"complete", "notify", "dereference"}
      PROVE  error'[task'[th]] = "none" => offset'[task'[th]] = size'[task'[th]]
  <2>1. ASSUME pc[th] \in {"complete", "notify", "dereference"}, task'[th] = task[th]
        PROVE  error'[task'[th]] = "none" => offset'[task'[th]] = size'[task'[th]]
    <3>1. task[th] \in Tasks /\ stage[task[th]] # "new"
      BY <2>1, InSole DEF Running
    <3>2. error[task[th]] = "none" => offset[task[th]] = size[task[th]]
      BY <2>1 DEF WholeRead
    <3>3. QED  BY <1>1, <2>1, <3>1, <3>2, EndStays
  <2>2. ASSUME th \in Workers, Advance(th)
        PROVE  error'[task'[th]] = "none" => offset'[task'[th]] = size'[task'[th]]
    <3>1. PICK t \in Tasks : t = task[th]
      BY <1>0, <2>2 DEF Advance, AtWork
    <3>2. task' = task /\ size' = size /\ offset'[t] <= size[t]
      BY <2>2, <3>1, OffsetsStep DEF Advance, OffsetsKept
    <3>3. ~(offset'[t] < size[t] /\ ~cancelled[t]) /\ MarkCancelled(t)
      BY <1>0, <1>2, <2>2, <3>1 DEF Advance
    <3>4. error'[t] = "none" => ~cancelled[t]
      BY <1>0, <3>3 DEF MarkCancelled
    <3>5. offset'[t] \in Nat /\ size[t] \in Nat
      BY <1>0, TypeStep DEF TInv, TypeOK, TaskTypeOK
    <3>6. QED  BY <3>1, <3>2, <3>3, <3>4, <3>5
  <2>3. QED  BY <1>2, <2>1, <2>2, WhoComesToEnd
<1>3. ASSUME NEW t \in Tasks, Finished(t)'
      PROVE  error'[t] = "none" => offset'[t] = size'[t]
  <2>1. CASE Finished(t)
    <3>1. ASSUME NEW w \in Workers, Advance(w), task[w] = t PROVE FALSE
      <4>1. Running(t)
        BY <1>0, <3>1, WorkedOn DEF Advance
      <4>2. PICK th \in Threads : pc[th] \in {"notify", "dereference"} /\ task[th] = t
        BY <1>0, <2>1, <4>1 DEF Running, Finished, Completing
      <4>3. QED  BY <1>1, <3>1, <4>2
    <3>2. QED  BY <2>1, <3>1, EndStays DEF WholeRead, Finished
  <2>2. CASE ~Finished(t)
    <3>1. PICK th \in Threads : Complete(th) \/ FinishDereference(th)
      BY <1>0, <1>3, <2>2, WhoMovesOn DEF Finished, StartProcessing, CountFile
    <3>2. /\ task[th] = t /\ UNCHANGED <<error, offset, size>>
          /\ pc[th] \in {"complete", "dereference"}
      BY <1>0, <1>3, <2>2, <3>1 DEF Finished, Complete, FinishDereference
    <3>3. QED  BY <3>2 DEF WholeRead
  <2>3. QED  BY <2>1, <2>2
<1>4. QED  BY <1>2, <1>3 DEF WholeRead

LEMMA DigestInvariant ==
  Spec => [](TInv /\ OwnerInv /\ NoErrorYet /\ StageInv /\ HeldInv /\ RoundInv /\ DigestInv)
<1>1. TInv /\ OwnerInv /\ NoErrorYet /\ StageInv /\ HeldInv /\ RoundInv /\ DigestInv
        /\ [Next]_vars => DigestInv'
  BY KeptStep, OffsetsStep, WholeStep DEF DigestInv
<1>2. QED  BY <1>1, DigestInit, StageInvariant, RoundInvariant, PTL DEF Spec

(* What a finished file without an error has been fed is the whole file.   *)
LEMMA WholeDigest ==
  ASSUME TInv, OwnerInv, StageInv, DigestInv, NEW t \in Tasks, Finished(t), error[t] = "none"
  PROVE  WholeFileHashed(t)
<1>1. finishCounter[t] \in Int /\ Workers \subseteq Threads /\ Completing
  BY DEF TInv, TypeOK, TaskTypeOK, Threads, StageInv
<1>2. ~Ending(t) /\ ~(finishCounter[t] > 0)
  <2>1. CASE stage[t] = "done"
    BY <1>1, <2>1, WorkedOn DEF Ending, Running
  <2>2. CASE stage[t] = "completed"
    <3>1. PICK th \in Threads : pc[th] \in {"notify", "dereference"} /\ task[th] = t
      BY <1>1, <2>2 DEF Completing
    <3>2. Sole(t) = {th} /\ finishCounter[t] = 0
      BY <3>1, InSole
    <3>3. QED  BY <1>1, <3>1, <3>2 DEF Ending, Sole
  <2>3. QED  BY <2>1, <2>2 DEF Finished
<1>3. offset[t] = size[t] /\ offset[t] \in Nat
  BY DEF DigestInv, WholeRead, TInv, TypeOK, TaskTypeOK
<1>4. \A i \in Enabled : Fed(t, i) = size[t]
  BY <1>2, <1>3 DEF Fed, Hashed
<1>5. QED  BY <1>4 DEF DigestInv, DigestsKept, WholeFileHashed

(* A file that is reported without an error has had each of its blocks     *)
(* hashed once and in order by every enabled algorithm, whatever was       *)
(* cancelled, requeued or handed from file to file meanwhile               *)
(* (FileHashTask.cpp, OverlappedCompletionRoutine to FinishedBlock).       *)
THEOREM DigestsCompleteAlways == Spec => []DigestsComplete
<1>1. TInv /\ OwnerInv /\ StageInv /\ DigestInv => DigestsComplete
  BY WholeDigest DEF DigestsComplete
<1>2. QED  BY <1>1, DigestInvariant, PTL

-----------------------------------------------------------------------------
(* What _references and _files_not_finished count.                         *)
RunningOf(c) == {t \in Owned(c) : Running(t)}
UnfinishedOf(c) == {t \in Owned(c) : stage[t] \in {"counted", "live"}}

LEMMA OwnedFinite ==
  ASSUME NEW c \in Coordinators
  PROVE  /\ IsFiniteSet(Owned(c)) /\ IsFiniteSet(RunningOf(c)) /\ IsFiniteSet(UnfinishedOf(c))
         /\ Cardinality(RunningOf(c)) \in Nat /\ Cardinality(UnfinishedOf(c)) \in Nat
<1>1. /\ Owned(c) \in SUBSET Tasks /\ RunningOf(c) \in SUBSET Tasks
      /\ UnfinishedOf(c) \in SUBSET Tasks
  BY DEF Owned, RunningOf, UnfinishedOf
<1>2. QED  BY <1>1, CoordinatorAssumption, FS_Subset, FS_CardinalityType

LEMMA CountersInit == Init => CountersExact
<1> SUFFICES ASSUME Init, NEW c \in Coordinators
             PROVE  /\ references[c] = Cardinality(RunningOf(c))
                                         + Indicator(pc[c] \in WindowLabels)
                    /\ notFinished[c] = Cardinality(UnfinishedOf(c))
  BY DEF CountersExact, RunningOf, UnfinishedOf
<1>1. pc[c] = "register"
  BY TaskAssumption DEF Init, Threads
<1>2. RunningOf(c) = {} /\ UnfinishedOf(c) = {}
  BY DEF Init, TaskInit, RunningOf, UnfinishedOf, Owned, Running
<1>3. references[c] = 0 /\ notFinished[c] = 0
  BY DEF Init, CoordinatorInit
<1>4. Cardinality({}) = 0
  BY FS_EmptySet
<1>5. QED  BY <1>1, <1>2, <1>3, <1>4 DEF Indicator

(* Who changes what the counters count.                                    *)
LEMMA WhoRefers ==
  ASSUME TInv, [Next]_vars
  PROVE  \/ \E th \in Threads : Complete(th) \/ FinishDereference(th)
         \/ \E c \in Coordinators : \/ RegisterWindow(c) \/ StartProcessing(c)
                                    \/ WindowDereference(c)
                                    \/ \E t \in Tasks : CountFile(c, t)
         \/ /\ UNCHANGED <<stage, references, notFinished>>
            /\ \A c \in Coordinators : pc'[c] \in WindowLabels <=> pc[c] \in WindowLabels
<1> DEFINE Alike == /\ UNCHANGED <<stage, references, notFinished>>
                    /\ \A c \in Coordinators : pc'[c] \in WindowLabels <=> pc[c] \in WindowLabels
<1>0. /\ pc \in [Threads -> Labels] /\ Coordinators \subseteq Threads
      /\ \A c \in Coordinators : c \notin Workers
  BY TaskAssumption DEF TInv, TypeOK, ThreadTypeOK, Threads
<1>1. ASSUME NEW th \in Threads, TaskStep(th), ~(Complete(th) \/ FinishDereference(th)) PROVE Alike
  <2>1. UNCHANGED <<stage, references, notFinished>>
    BY <1>1 DEF TaskStep, ReadBlockFailed, TryAllocate, AllocationGivenBack, StartRead,
                StartReadFails, Enqueue, Notify
  <2>2. /\ pc[th] \in WindowLabels /\ pc'[th] \in WindowLabels
        /\ \A ti \in Threads \ {th} : pc'[ti] = pc[ti]
    BY <1>1, TaskQuiet, OthersStay DEF Reading
  <2>3. QED  BY <1>0, <2>1, <2>2
<1>2. ASSUME NEW w \in Workers, CallbackStep(w) PROVE Alike
  <2>1. UNCHANGED <<stage, references, notFinished>>
    BY <1>2 DEF CallbackStep, QueueEmpty, AddToHashQueue, SubmitWork, Update, FinishHash,
                CountProgress, SendProgress, Advance, Dequeue, ReadCompletedBadly,
                ReadCompleted, BeginHash
  <2>2. \A ti \in Threads \ {w} : pc'[ti] = pc[ti]
    BY <1>2, OthersStay DEF Threads
  <2>3. QED  BY <1>0, <2>1, <2>2
<1>3. ASSUME NEW c \in Coordinators, DialogStep(c) \/ UserStep(c) \/ DeleteStep(c), ~TaskStep(c),
             ~(RegisterWindow(c) \/ StartProcessing(c) \/ WindowDereference(c)),
             ~ \E t \in Tasks : CountFile(c, t)
      PROVE  Alike
  <2>1. UNCHANGED <<stage, references, notFinished>>
    BY <1>3
    DEF DialogStep, UserStep, DeleteStep, FilesAdded, NoFiles, AddFile, FilesStarted,
        NotifyOwnWindow, HandleFinished, HandleProgress, CancelReturns, UnregisterWindow,
        CancelClicked, Close, DeleteBegins, FilesCancelled, Deleted
  <2>2. pc'[c] \in WindowLabels <=> pc[c] \in WindowLabels
    BY <1>0, <1>3
    DEF DialogStep, UserStep, DeleteStep, FilesAdded, NoFiles, AddFile, FilesStarted,
        NotifyOwnWindow, HandleFinished, HandleProgress, CancelReturns, UnregisterWindow,
        CancelClicked, Close, DeleteBegins, FilesCancelled, Deleted
  <2>3. QED  BY <1>0, <1>3, <2>1, <2>2, DialogQuiet
<1>4. CASE UNCHANGED vars
  BY <1>4 DEF vars
<1>5. QED  BY <1>0, <1>1, <1>2, <1>3, <1>4 DEF Next, WorkerStep, Terminated, Threads

(* A file moves on in its life: only its own coordinator counts it.        *)
LEMMA MovedOn ==
  ASSUME TInv, NEW t \in Tasks, NEW s \in Stages, stage' = [stage EXCEPT ![t] = s]
  PROVE  \A c \in Coordinators :
           /\ c # Owner[t] \/ (s \in {"live", "completed"} <=> Running(t)) =>
                RunningOf(c)' = RunningOf(c)
           /\ c = Owner[t] /\ s \in {"live", "completed"} =>
                RunningOf(c)' = RunningOf(c) \cup {t}
           /\ c = Owner[t] /\ s \notin {"live", "completed"} =>
                RunningOf(c)' = RunningOf(c) \ {t}
           /\ c # Owner[t] \/ (s \in {"counted", "live"} <=> stage[t] \in {"counted", "live"}) =>
                UnfinishedOf(c)' = UnfinishedOf(c)
           /\ c = Owner[t] /\ s \in {"counted", "live"} =>
                UnfinishedOf(c)' = UnfinishedOf(c) \cup {t}
           /\ c = Owner[t] /\ s \notin {"counted", "live"} =>
                UnfinishedOf(c)' = UnfinishedOf(c) \ {t}
<1>1. stage \in [Tasks -> Stages]
  BY DEF TInv, TypeOK, TaskTypeOK
<1>2. TAKE c \in Coordinators
<1>3. \A u \in Tasks : /\ Running(u)' <=> IF u = t THEN s \in {"live", "completed"} ELSE Running(u)
                       /\ stage'[u] = IF u = t THEN s ELSE stage[u]
  BY <1>1 DEF Running
<1>4. RunningOf(c)' = {u \in Owned(c) : Running(u)'} /\ RunningOf(c) = {u \in Owned(c) : Running(u)}
  BY DEF RunningOf, Owned
<1>5. QED  BY <1>1, <1>3, <1>4 DEF UnfinishedOf, Owned

LEMMA CountersStep ==
  ASSUME TInv, OwnerInv, StageInv, CountersExact, [Next]_vars PROVE CountersExact'
<1> DEFINE Refs(c) == Cardinality(RunningOf(c)) + Indicator(pc[c] \in WindowLabels)
           Exact(c) == references[c] = Refs(c) /\ notFinished[c] = Cardinality(UnfinishedOf(c))
<1>0. /\ pc \in [Threads -> Labels] /\ task \in [Threads -> Tasks \cup {NoTask}]
      /\ stage \in [Tasks -> Stages] /\ references \in [Coordinators -> Int]
      /\ notFinished \in [Coordinators -> Int] /\ Coordinators \subseteq Threads
      /\ AtWork /\ Waiting /\ Completing /\ OwnThread
      /\ \A t \in Tasks : Owner[t] \in Coordinators
      /\ \A c \in Coordinators : c \notin Workers
      /\ todo \in [Coordinators -> SUBSET Tasks]
  BY TaskAssumption, CoordinatorAssumption
  DEF TInv, TypeOK, ThreadTypeOK, TaskTypeOK, CoordinatorTypeOK, DialogTypeOK, OwnerInv, StageInv,
      Threads
<1>x. \A c \in Coordinators : Exact(c)
  BY DEF CountersExact, RunningOf, UnfinishedOf
<1>y. SUFFICES \A c \in Coordinators :
                  /\ references'[c] = Cardinality(RunningOf(c)') + Indicator(pc'[c] \in WindowLabels)
                  /\ notFinished'[c] = Cardinality(UnfinishedOf(c)')
  BY DEF CountersExact, RunningOf, UnfinishedOf
<1>q. \A c \in Coordinators :
        /\ Cardinality(RunningOf(c)) \in Nat /\ Cardinality(UnfinishedOf(c)) \in Nat
        /\ \A t : t \notin RunningOf(c) =>
             Cardinality(RunningOf(c) \cup {t}) = Cardinality(RunningOf(c)) + 1
        /\ \A t \in RunningOf(c) :
             Cardinality(RunningOf(c) \ {t}) = Cardinality(RunningOf(c)) - 1
        /\ \A t : t \notin UnfinishedOf(c) =>
             Cardinality(UnfinishedOf(c) \cup {t}) = Cardinality(UnfinishedOf(c)) + 1
        /\ \A t \in UnfinishedOf(c) :
             Cardinality(UnfinishedOf(c) \ {t}) = Cardinality(UnfinishedOf(c)) - 1
  BY OwnedFinite, OneMore
<1>1. CASE /\ UNCHANGED <<stage, references, notFinished>>
           /\ \A c \in Coordinators : pc'[c] \in WindowLabels <=> pc[c] \in WindowLabels
  <2>1. \A c \in Coordinators : RunningOf(c)' = RunningOf(c) /\ UnfinishedOf(c)' = UnfinishedOf(c)
    BY <1>1 DEF RunningOf, UnfinishedOf, Owned, Running
  <2>2. QED  BY <1>x, <1>1, <2>1 DEF Indicator
<1> DEFINE Good(c) ==
             /\ references'[c] = Cardinality(RunningOf(c)') + Indicator(pc'[c] \in WindowLabels)
             /\ notFinished'[c] = Cardinality(UnfinishedOf(c)')
<1>2. ASSUME NEW th \in Threads, Complete(th) PROVE \A c \in Coordinators : Good(c)
  <2>1. PICK t \in Tasks : t = task[th]
    BY <1>0, <1>2 DEF Complete, AtWork
  <2>2. stage[t] = "live"
    <3>1. Sole(t) = {th} /\ Running(t) /\ pc[th] = "complete"
      BY <1>2, <2>1, InSole DEF Complete
    <3>2. stage[t] # "completed"
      BY <1>0, <3>1 DEF Completing, Sole
    <3>3. QED  BY <3>1, <3>2 DEF Running
  <2>3. /\ stage' = [stage EXCEPT ![t] = "completed"]
        /\ references' = references
        /\ notFinished' = [notFinished EXCEPT ![Owner[t]] = @ - 1]
        /\ \A c \in Coordinators : pc'[c] \in WindowLabels <=> pc[c] \in WindowLabels
    BY <1>0, <1>2, <2>1 DEF Complete, CountDown
  <2>4. \A c \in Coordinators :
          /\ RunningOf(c)' = RunningOf(c)
          /\ UnfinishedOf(c)' = IF c = Owner[t] THEN UnfinishedOf(c) \ {t} ELSE UnfinishedOf(c)
    BY <2>2, <2>3, MovedOn DEF Running
  <2>5. t \in UnfinishedOf(Owner[t])
    BY <2>2 DEF UnfinishedOf, Owned
  <2>6. QED  BY <1>0, <1>x, <1>q, <2>3, <2>4, <2>5 DEF Indicator
<1>3. ASSUME NEW th \in Threads, FinishDereference(th) PROVE \A c \in Coordinators : Good(c)
  <2>1. PICK t \in Tasks : t = task[th]
    BY <1>0, <1>3 DEF FinishDereference, AtWork
  <2>2. stage[t] = "completed"
    BY <1>0, <1>3, <2>1 DEF FinishDereference, Completing
  <2>3. /\ stage' = [stage EXCEPT ![t] = "done"]
        /\ notFinished' = notFinished
        /\ references' = [references EXCEPT ![Owner[t]] = @ - 1]
        /\ \A c \in Coordinators : pc'[c] \in WindowLabels <=> pc[c] \in WindowLabels
    BY <1>0, <1>3, <2>1 DEF FinishDereference, Dereference, ReturnFromRead
  <2>4. \A c \in Coordinators :
          /\ UnfinishedOf(c)' = UnfinishedOf(c)
          /\ RunningOf(c)' = IF c = Owner[t] THEN RunningOf(c) \ {t} ELSE RunningOf(c)
    BY <2>2, <2>3, MovedOn DEF Running
  <2>5. t \in RunningOf(Owner[t])
    BY <2>2 DEF RunningOf, Owned, Running
  <2>6. QED  BY <1>0, <1>x, <1>q, <2>3, <2>4, <2>5 DEF Indicator
<1>4. ASSUME NEW d \in Coordinators, RegisterWindow(d) \/ WindowDereference(d)
      PROVE  \A c \in Coordinators : Good(c)
  <2>1. UNCHANGED <<stage, notFinished>> /\ \A c \in Coordinators \ {d} : pc'[c] = pc[c]
    BY <1>0, <1>4 DEF RegisterWindow, WindowDereference
  <2>2. \A c \in Coordinators : RunningOf(c)' = RunningOf(c) /\ UnfinishedOf(c)' = UnfinishedOf(c)
    BY <2>1 DEF RunningOf, UnfinishedOf, Owned, Running
  <2>3. \/ /\ pc[d] \notin WindowLabels /\ pc'[d] \in WindowLabels
           /\ references' = [references EXCEPT ![d] = @ + 1]
        \/ /\ pc[d] \in WindowLabels /\ pc'[d] \notin WindowLabels
           /\ references' = [references EXCEPT ![d] = @ - 1]
    BY <1>0, <1>4 DEF RegisterWindow, WindowDereference, Reference, Dereference
  <2>4. QED  BY <1>0, <1>x, <1>q, <2>1, <2>2, <2>3 DEF Indicator
<1>5. ASSUME NEW d \in Coordinators, StartProcessing(d) PROVE \A c \in Coordinators : Good(c)
  <2>1. PICK t \in Tasks : t = task[d] /\ Owner[t] = d /\ stage[t] = "counted"
    BY <1>0, <1>5 DEF StartProcessing, AtWork, Waiting
  <2>2. /\ stage' = [stage EXCEPT ![t] = "live"]
        /\ notFinished' = notFinished
        /\ references' = [references EXCEPT ![d] = @ + 1]
        /\ \A c \in Coordinators : pc'[c] \in WindowLabels <=> pc[c] \in WindowLabels
    BY <1>0, <1>5, <2>1 DEF StartProcessing, Reference
  <2>6. stage' = [stage EXCEPT ![t] = "live"] /\ ~Running(t)
    BY <2>1, <2>2 DEF Running
  <2>3. \A c \in Coordinators :
          /\ UnfinishedOf(c)' = UnfinishedOf(c)
          /\ RunningOf(c)' = IF c = d THEN RunningOf(c) \cup {t} ELSE RunningOf(c)
    <3>0. Owner[t] = d /\ stage[t] = "counted"
      BY <2>1
    <3>1. \A c \in Coordinators : UnfinishedOf(c)' = UnfinishedOf(c)
      BY <2>6, <3>0, MovedOn
    <3>2. \A c \in Coordinators :
            RunningOf(c)' = IF c = d THEN RunningOf(c) \cup {t} ELSE RunningOf(c)
      BY <2>6, <3>0, MovedOn
    <3>3. QED  BY <3>1, <3>2
  <2>4. t \notin RunningOf(d)
    BY <2>1 DEF RunningOf, Running
  <2>5. QED  BY <1>0, <1>x, <1>q, <2>2, <2>3, <2>4 DEF Indicator
<1>6. ASSUME NEW d \in Coordinators, NEW t \in Tasks, CountFile(d, t)
      PROVE  \A c \in Coordinators : Good(c)
  <2>1. Owner[t] = d /\ stage[t] = "new"
    BY <1>0, <1>6 DEF CountFile, Waiting
  <2>2. /\ stage' = [stage EXCEPT ![t] = "counted"]
        /\ references' = references
        /\ notFinished' = [notFinished EXCEPT ![d] = @ + 1]
        /\ \A c \in Coordinators : pc'[c] \in WindowLabels <=> pc[c] \in WindowLabels
    BY <1>0, <1>6, <2>1 DEF CountFile
  <2>3. \A c \in Coordinators :
          /\ RunningOf(c)' = RunningOf(c)
          /\ UnfinishedOf(c)' = IF c = d THEN UnfinishedOf(c) \cup {t} ELSE UnfinishedOf(c)
    BY <2>1, <2>2, MovedOn DEF Running
  <2>4. t \notin UnfinishedOf(d)
    BY <2>1 DEF UnfinishedOf
  <2>5. QED  BY <1>0, <1>x, <1>q, <2>2, <2>3, <2>4 DEF Indicator
<1>7. QED  BY <1>1, <1>2, <1>3, <1>4, <1>5, <1>6, WhoRefers

(* The destructor and Cancel wait for exactly what they should: the window *)
(* and the running files, the files begun and not completed                *)
(* (Coordinator.cpp, _references and _files_not_finished).                 *)
THEOREM CountersExactAlways == Spec => []CountersExact
  BY CountersInit, CountersStep, StageInvariant, PTL DEF Spec

-----------------------------------------------------------------------------
(* Whoever is about to send the last completion holds the mutex of the     *)
(* coordinator, and nobody else does.                                      *)
MutexHeld ==
  /\ \A c \in Coordinators : mutex[c] # NoThread =>
       mutex[c] \in Threads /\ pc[mutex[c]] = "notify" /\ Owner[task[mutex[c]]] = c
  /\ \A th \in Threads : pc[th] = "notify" => mutex[Owner[task[th]]] = th

(* A destructor begins after the files were added; when it has ended, the  *)
(* window is closed and no file runs.                                      *)
DeletedLate ==
  \A c \in Coordinators :
    /\ deleting[c] # "no" => pc[c] \notin {"register", "addFiles"}
    /\ deleting[c] = "gone" => pc[c] = "closed" /\ \A t \in Owned(c) : ~Running(t)

LEMMA MutexInit == Init => MutexHeld
<1> SUFFICES ASSUME Init PROVE MutexHeld
  OBVIOUS
<1>1. \A th \in Threads : pc[th] \notin TaskLabels
  BY DEF Init
<1>2. QED  BY <1>1 DEF Init, CoordinatorInit, MutexHeld

LEMMA WhoLocks ==
  ASSUME [Next]_vars
  PROVE  \/ mutex' = mutex
         \/ \E th \in Threads : Complete(th) \/ Notify(th)
         \/ \E c \in Coordinators : NotifyOwnWindow(c)
<1>1. ASSUME NEW th \in Threads, TaskStep(th) PROVE mutex' = mutex \/ Complete(th) \/ Notify(th)
  BY <1>1 DEF TaskStep, ReadBlockFailed, TryAllocate, AllocationGivenBack, StartRead,
              StartReadFails, Enqueue, FinishDereference
<1>2. ASSUME NEW w \in Workers, CallbackStep(w) PROVE mutex' = mutex
  BY <1>2 DEF CallbackStep, QueueEmpty, AddToHashQueue, SubmitWork, Update, FinishHash,
              CountProgress, SendProgress, Advance, Dequeue, ReadCompletedBadly,
              ReadCompleted, BeginHash
<1>3. ASSUME NEW c \in Coordinators, DialogStep(c) \/ UserStep(c) \/ DeleteStep(c), ~TaskStep(c)
      PROVE  mutex' = mutex \/ NotifyOwnWindow(c)
  BY <1>3
  DEF DialogStep, UserStep, DeleteStep, RegisterWindow, FilesAdded, NoFiles, AddFile,
      CountFile, StartProcessing, FilesStarted, HandleFinished, HandleProgress,
      CancelReturns, UnregisterWindow, WindowDereference, CancelClicked, Close, DeleteBegins,
      FilesCancelled, Deleted
<1>4. QED  BY <1>1, <1>2, <1>3 DEF Next, WorkerStep, Terminated, vars, Threads

LEMMA MutexStep ==
  ASSUME TInv, OwnerInv, StageInv, MutexHeld, [Next]_vars PROVE MutexHeld'
<1>0. /\ pc \in [Threads -> Labels] /\ task \in [Threads -> Tasks \cup {NoTask}]
      /\ mutex \in [Coordinators -> Threads \cup {NoThread}] /\ NoThread \notin Threads
      /\ Coordinators \subseteq Threads /\ AtWork /\ OwnThread
      /\ \A t \in Tasks : Owner[t] \in Coordinators
  BY TaskAssumption, CoordinatorAssumption
  DEF TInv, TypeOK, ThreadTypeOK, CoordinatorTypeOK, StageInv, Threads
<1>1. ASSUME NEW th \in Threads, Complete(th) PROVE MutexHeld'
  <2>1. PICK t \in Tasks : t = task[th] /\ Owner[t] \in Coordinators
    BY <1>0, <1>1 DEF Complete, AtWork
  <2>2. /\ mutex[Owner[t]] = NoThread /\ task' = task /\ pc[th] = "complete"
        /\ \A ti \in Threads \ {th} : pc'[ti] = pc[ti]
        /\ \/ mutex' = [mutex EXCEPT ![Owner[t]] = th] /\ pc'[th] = "notify"
           \/ mutex' = mutex /\ pc'[th] = "dereference"
    BY <1>0, <1>1, <2>1 DEF Complete, Unlocked
  <2>3. ASSUME NEW c \in Coordinators, mutex'[c] # NoThread
        PROVE  mutex'[c] \in Threads /\ pc'[mutex'[c]] = "notify" /\ Owner[task'[mutex'[c]]] = c
    <3>1. CASE mutex'[c] = mutex[c]
      BY <2>2, <2>3, <3>1 DEF MutexHeld
    <3>2. CASE mutex'[c] # mutex[c]
      BY <1>0, <2>1, <2>2, <3>2
    <3>3. QED  BY <3>1, <3>2
  <2>4. ASSUME NEW ti \in Threads, pc'[ti] = "notify" PROVE mutex'[Owner[task'[ti]]] = ti
    <3>1. CASE ti = th
      BY <1>0, <2>1, <2>2, <2>4, <3>1
    <3>2. CASE ti # th
      <4>1. mutex[Owner[task[ti]]] = ti /\ task[ti] \in Tasks
        BY <1>0, <2>2, <2>4, <3>2 DEF MutexHeld, AtWork
      <4>2. Owner[task[ti]] # Owner[t]
        BY <1>0, <2>2, <4>1
      <4>3. QED  BY <1>0, <2>1, <2>2, <4>1, <4>2
    <3>3. QED  BY <3>1, <3>2
  <2>5. QED  BY <2>3, <2>4 DEF MutexHeld
<1>2. ASSUME NEW th \in Threads, Notify(th) \/ (th \in Coordinators /\ NotifyOwnWindow(th))
      PROVE  MutexHeld'
  <2>1. PICK t \in Tasks : t = task[th] /\ Owner[t] \in Coordinators
    BY <1>0, <1>2 DEF Notify, NotifyOwnWindow, AtWork
  <2>2. /\ mutex[Owner[t]] = th /\ task' = task /\ pc[th] = "notify" /\ pc'[th] = "dereference"
        /\ \A ti \in Threads \ {th} : pc'[ti] = pc[ti]
        /\ mutex' = [mutex EXCEPT ![Owner[t]] = NoThread]
    BY <1>0, <1>2, <2>1 DEF Notify, NotifyOwnWindow, MutexHeld, OwnThread
  <2>3. QED  BY <1>0, <2>1, <2>2 DEF MutexHeld
<1>3. ASSUME NEW th \in Threads, FinishDereference(th) PROVE MutexHeld'
  <2>1. /\ mutex' = mutex /\ pc[th] = "dereference" /\ pc'[th] # "notify"
        /\ \A ti \in Threads \ {th} : pc'[ti] = pc[ti] /\ task'[ti] = task[ti]
    BY <1>0, <1>3 DEF FinishDereference, ReturnFromRead
  <2>2. QED  BY <1>0, <2>1 DEF MutexHeld
<1>4. ASSUME mutex' = mutex,
             \A th \in Threads :
               pc[th] \in {"notify", "dereference"} \/ pc'[th] \in {"notify", "dereference"} =>
                 pc'[th] = pc[th] /\ task'[th] = task[th]
      PROVE  MutexHeld'
  BY <1>0, <1>4 DEF MutexHeld
<1>5. QED
  <2>1. \/ \E th \in Threads : Complete(th) \/ Notify(th) \/ FinishDereference(th)
        \/ \E c \in Coordinators : NotifyOwnWindow(c)
        \/ /\ mutex' = mutex
           /\ \A th \in Threads :
                pc[th] \in {"notify", "dereference"} \/ pc'[th] \in {"notify", "dereference"} =>
                  pc'[th] = pc[th] /\ task'[th] = task[th]
    BY WhoLocks, WhoEnds
  <2>2. QED  BY <1>0, <1>1, <1>2, <1>3, <1>4, <2>1

(* Files begin to run in the window's thread, which ends for good.         *)
LEMMA WhoRuns ==
  ASSUME TInv, OwnerInv, StageInv, [Next]_vars, NEW t \in Tasks, Running(t)'
  PROVE  Running(t) \/ pc[Owner[t]] = "start"
<1>0. stage \in [Tasks -> Stages] /\ AtWork /\ Waiting
  BY DEF TInv, TypeOK, TaskTypeOK, OwnerInv
<1>1. ASSUME NEW th \in Threads, Complete(th) PROVE Running(t)
  <2>1. task[th] \in Tasks /\ Running(task[th])
    BY <1>1, InSole DEF Complete
  <2>2. QED  BY <1>0, <1>1, <2>1 DEF Complete, Running
<1>2. ASSUME NEW th \in Threads, FinishDereference(th) PROVE Running(t)
  BY <1>0, <1>2 DEF FinishDereference, Running
<1>3. ASSUME NEW c \in Coordinators, StartProcessing(c) PROVE Running(t) \/ pc[Owner[t]] = "start"
  BY <1>0, <1>3 DEF StartProcessing, Running, AtWork, Waiting
<1>4. ASSUME NEW c \in Coordinators, NEW u \in Tasks, CountFile(c, u) PROVE Running(t)
  BY <1>0, <1>4 DEF CountFile, Running
<1>5. CASE stage' = stage
  BY <1>5 DEF Running
<1>6. QED  BY <1>1, <1>2, <1>3, <1>4, <1>5, WhoMovesOn

LEMMA ClosedStays ==
  ASSUME TInv, [Next]_vars, NEW c \in Coordinators, pc[c] = "closed"
  PROVE  pc'[c] = "closed"
<1>0. Coordinators \subseteq Threads /\ pc \in [Threads -> Labels] /\ c \notin Workers
  BY TaskAssumption DEF TInv, TypeOK, ThreadTypeOK, Threads
<1>1. ASSUME NEW th \in Threads, TaskStep(th) PROVE pc'[c] = "closed"
  BY <1>0, <1>1, TaskQuiet, OthersStay DEF Reading
<1>2. ASSUME NEW w \in Workers, CallbackStep(w) PROVE pc'[c] = "closed"
  BY <1>0, <1>2, OthersStay DEF Threads
<1>3. ASSUME NEW d \in Coordinators, DialogStep(d) \/ UserStep(d) \/ DeleteStep(d), ~TaskStep(d)
      PROVE pc'[c] = "closed"
  <2>1. CASE d = c
    BY <1>0, <1>3, <2>1
    DEF DialogStep, UserStep, DeleteStep, RegisterWindow, FilesAdded, NoFiles, AddFile,
        CountFile, StartProcessing, FilesStarted, NotifyOwnWindow, HandleFinished, HandleProgress,
        CancelReturns, UnregisterWindow, WindowDereference, CancelClicked, Close,
        DeleteBegins, FilesCancelled, Deleted
  <2>2. QED  BY <1>0, <1>3, <2>1, DialogQuiet
<1>4. QED  BY <1>0, <1>1, <1>2, <1>3 DEF Next, WorkerStep, Terminated, vars, Threads

LEMMA WhoDeletes ==
  ASSUME [Next]_vars
  PROVE  deleting' = deleting
           \/ \E c \in Coordinators : DeleteBegins(c) \/ FilesCancelled(c) \/ Deleted(c)
<1>1. ASSUME NEW c \in Coordinators, DialogStep(c) \/ UserStep(c) PROVE deleting' = deleting
  BY <1>1
  DEF DialogStep, UserStep, RegisterWindow, FilesAdded, NoFiles, AddFile,
      CountFile, StartProcessing, FilesStarted, NotifyOwnWindow, HandleFinished, HandleProgress,
      CancelReturns, UnregisterWindow, WindowDereference, CancelClicked, Close
<1>2. QED  BY <1>1 DEF Next, WorkerStep, DeleteStep, Terminated, vars

LEMMA DeletedStep ==
  ASSUME TInv, OwnerInv, StageInv, CountersExact, DeletedLate, [Next]_vars PROVE DeletedLate'
<1>0. /\ deleting \in [Coordinators -> Deleting] /\ Coordinators \subseteq Threads
      /\ pc \in [Threads -> Labels]
  BY DEF TInv, TypeOK, DialogTypeOK, ThreadTypeOK, Threads
<1>1. ASSUME NEW c \in Coordinators, deleting'[c] # "no" PROVE pc'[c] \notin {"register", "addFiles"}
  <2>1. CASE deleting[c] # "no"
    BY <2>1, WhoAdds DEF DeletedLate
  <2>2. CASE deleting[c] = "no"
    BY <1>0, <1>1, <2>2, WhoDeletes DEF DeleteBegins, FilesCancelled, Deleted
  <2>3. QED  BY <2>1, <2>2
<1>2. ASSUME NEW c \in Coordinators, deleting'[c] = "gone"
      PROVE  pc'[c] = "closed" /\ \A t \in Owned(c) : ~Running(t)'
  <2>1. pc[c] = "closed" /\ \A t \in Owned(c) : ~Running(t)
    <3>1. CASE deleting[c] = "gone"
      BY <3>1 DEF DeletedLate
    <3>2. CASE deleting[c] # "gone"
      <4>1. Deleted(c)
        BY <1>0, <1>2, <3>2, WhoDeletes DEF DeleteBegins, FilesCancelled, Deleted
      <4>2. references[c] = 0 /\ deleting[c] = "draining"
        BY <4>1 DEF Deleted, Unreferenced
      <4>3. 0 = Cardinality(RunningOf(c)) + Indicator(pc[c] \in WindowLabels)
        BY <4>2 DEF CountersExact, RunningOf
      <4>4. Cardinality(RunningOf(c)) = 0 /\ pc[c] \notin WindowLabels
        BY <4>3, OwnedFinite DEF Indicator
      <4>5. RunningOf(c) = {}
        BY <4>4, OwnedFinite, FS_EmptySet
      <4>6. QED  BY <1>0, <4>2, <4>4, <4>5 DEF DeletedLate, RunningOf
    <3>3. QED  BY <3>1, <3>2
  <2>2. \A t \in Owned(c) : ~Running(t)'
    BY <2>1, WhoRuns DEF Owned
  <2>3. QED  BY <2>1, <2>2, ClosedStays
<1>3. QED  BY <1>1, <1>2 DEF DeletedLate, Owned

LEMMA LifetimeInvariant ==
  Spec => [](TInv /\ OwnerInv /\ StageInv /\ HeldInv /\ DigestInv /\ CountersExact /\ MutexHeld
               /\ DeletedLate)
<1>1. Init => DeletedLate
  BY DEF Init, DeletedLate
<1>2. QED
  BY <1>1, CountersExactAlways, MutexInit, MutexStep, DeletedStep, DigestInvariant, PTL DEF Spec

(* Once ~Coordinator has passed its two waits, no thread, no callback, no  *)
(* entry of the shared read queue and no window can reach the coordinator  *)
(* or its files (Coordinator.cpp, ~Coordinator).                           *)
THEOREM NoUseAfterFreeAlways == Spec => []NoUseAfterFree
<1>1. ASSUME TInv, OwnerInv, HeldInv, MutexHeld, DeletedLate PROVE NoUseAfterFree
  <2>1. ASSUME NEW c \in Coordinators, deleting[c] = "gone", mutex[c] # NoThread PROVE FALSE
    <3>1. PICK th \in Threads : pc[th] = "notify" /\ Owner[task[th]] = c
      BY <1>1, <2>1 DEF MutexHeld
    <3>2. task[th] \in Tasks /\ Running(task[th])
      BY <1>1, <3>1, WorkedOn DEF TInv, AtWork
    <3>3. QED  BY <1>1, <2>1, <3>1, <3>2 DEF DeletedLate, Owned
  <2>2. ASSUME NEW c \in Coordinators, deleting[c] = "gone", NEW t \in Owned(c)
        PROVE  /\ readQueue[t] = 0 /\ pendingIo[t] = 0 /\ pendingWork[t] = 0
               /\ block[t] = NoBlock
               /\ \A th \in Threads : pc[th] \in TaskLabels => task[th] # t
    <3>1. t \in Tasks /\ ~Running(t)
      BY <1>1, <2>2 DEF DeletedLate, Owned
    <3>2. /\ ~(readQueue[t] > 0) /\ ~(pendingIo[t] > 0) /\ ~(pendingWork[t] > 0)
          /\ \A th \in Threads : pc[th] \in TaskLabels => task[th] # t
      BY <1>1, <3>1, WorkedOn
    <3>3. ~Busy(t)
      BY <1>1, <3>1, BusyRuns
    <3>4. readQueue[t] \in Nat /\ pendingIo[t] \in Nat /\ pendingWork[t] \in Nat
      BY <1>1, <3>1 DEF TInv, TypeOK, SystemTypeOK
    <3>5. QED  BY <1>1, <3>1, <3>2, <3>3, <3>4 DEF HeldInv, BlockHeld
  <2>3. QED  BY <1>1, <2>1, <2>2 DEF NoUseAfterFree, DeletedLate
<1>2. QED  BY <1>1, LifetimeInvariant, PTL

-----------------------------------------------------------------------------
(* The completion of the last file has been listed, is being sent, or is   *)
(* in the queue of the window.                                             *)
SaysFinished(s) == \E n \in DOMAIN s : s[n].kind = "finished"

Told(c) ==
  \/ listings[c] > 0 /\ seen[c] = Owned(c)
  \/ mutex[c] # NoThread
  \/ SaysFinished(inbox[c])

(* The files are added and started or there are some, and all are done.    *)
AllDone(c) ==
  /\ window[c] /\ pc[c] # "addFiles"
  /\ Owned(c) # {} \/ pc[c] # "processing"
  /\ \A t \in Owned(c) : Finished(t)

WindowKnown ==
  \A c \in Coordinators : window[c] <=> pc[c] \in WindowLabels \ {"uiDereference"}

LastTold == \A c \in Coordinators : AllDone(c) => Told(c)

LEMMA Saying ==
  ASSUME NEW s \in Seq(Message), NEW m \in Message
  PROVE  /\ SaysFinished(s) \/ m.kind = "finished" => SaysFinished(Append(s, m))
         /\ s # <<>> /\ Head(s).kind # "finished" /\ SaysFinished(s) => SaysFinished(Tail(s))
<1>1. ASSUME SaysFinished(s) PROVE SaysFinished(Append(s, m))
  <2>1. PICK n \in 1 .. Len(s) : s[n].kind = "finished"
    BY <1>1 DEF SaysFinished
  <2>2. n \in DOMAIN Append(s, m) /\ Append(s, m)[n] = s[n]
    BY <2>1
  <2>3. QED  BY <2>1, <2>2 DEF SaysFinished
<1>2. ASSUME m.kind = "finished" PROVE SaysFinished(Append(s, m))
  <2>1. Len(s) + 1 \in DOMAIN Append(s, m) /\ Append(s, m)[Len(s) + 1] = m
    OBVIOUS
  <2>2. QED  BY <1>2, <2>1 DEF SaysFinished
<1>3. ASSUME s # <<>>, Head(s).kind # "finished", SaysFinished(s) PROVE SaysFinished(Tail(s))
  <2>1. PICK n \in 1 .. Len(s) : s[n].kind = "finished"
    BY <1>3 DEF SaysFinished
  <2>2. n # 1
    BY <1>3, <2>1
  <2>3. n - 1 \in DOMAIN Tail(s) /\ Tail(s)[n - 1] = s[n]
    BY <1>3, <2>1, <2>2
  <2>4. QED  BY <2>1, <2>3 DEF SaysFinished
<1>4. QED  BY <1>1, <1>2, <1>3

LEMMA WindowInit == Init => WindowKnown /\ LastTold
<1> SUFFICES ASSUME Init PROVE WindowKnown /\ LastTold
  OBVIOUS
<1>1. \A c \in Coordinators : pc[c] = "register" /\ ~window[c]
  BY TaskAssumption DEF Init, CoordinatorInit, Threads
<1>2. QED  BY <1>1 DEF WindowKnown, LastTold, AllDone

LEMMA WindowStep == ASSUME TInv, WindowKnown, [Next]_vars PROVE WindowKnown'
<1>0. /\ pc \in [Threads -> Labels] /\ Coordinators \subseteq Threads
      /\ window \in [Coordinators -> BOOLEAN]
      /\ \A c \in Coordinators : c \notin Workers
  BY TaskAssumption DEF TInv, TypeOK, ThreadTypeOK, CoordinatorTypeOK, Threads
<1>1. ASSUME NEW th \in Threads, TaskStep(th), window' = window PROVE WindowKnown'
  BY <1>0, <1>1, TaskQuiet, OthersStay DEF Reading, WindowKnown
<1>2. ASSUME NEW th \in Threads, TaskStep(th) \/ CallbackStep(th)
      PROVE  window' = window
  BY <1>2 DEF TaskStep, ReadBlockFailed, TryAllocate, AllocationGivenBack, StartRead,
              StartReadFails, Enqueue, Complete, Notify, FinishDereference, CallbackStep,
              QueueEmpty, AddToHashQueue, SubmitWork, Update, FinishHash, CountProgress,
              SendProgress, Advance, Dequeue, ReadCompletedBadly, ReadCompleted, BeginHash
<1>3. ASSUME NEW w \in Workers, CallbackStep(w) PROVE WindowKnown'
  BY <1>0, <1>2, <1>3, OthersStay DEF Threads, WindowKnown
<1>4. ASSUME NEW d \in Coordinators, DialogStep(d) \/ UserStep(d) \/ DeleteStep(d), ~TaskStep(d)
      PROVE  WindowKnown'
  <2>1. ASSUME NEW c \in Coordinators PROVE (window[c] <=> pc[c] \in WindowLabels \ {"uiDereference"})'
    <3>1. (window[c] <=> pc[c] \in WindowLabels \ {"uiDereference"})
      BY DEF WindowKnown
    <3>2. CASE d = c
      BY <1>0, <1>4, <3>1, <3>2
      DEF DialogStep, UserStep, DeleteStep, RegisterWindow, FilesAdded, NoFiles, AddFile,
          CountFile, StartProcessing, FilesStarted, NotifyOwnWindow, HandleFinished, HandleProgress,
          CancelReturns, UnregisterWindow, WindowDereference, CancelClicked, Close,
          DeleteBegins, FilesCancelled, Deleted
    <3>3. CASE d # c
      <4>1. pc'[c] = pc[c]
        BY <1>0, <1>4, <3>3, DialogQuiet
      <4>2. window'[c] = window[c]
        BY <1>0, <1>4, <3>3
        DEF DialogStep, UserStep, DeleteStep, RegisterWindow, FilesAdded, NoFiles, AddFile,
            CountFile, StartProcessing, FilesStarted, NotifyOwnWindow, HandleFinished,
            HandleProgress, CancelReturns, UnregisterWindow, WindowDereference, CancelClicked,
            Close, DeleteBegins, FilesCancelled, Deleted
      <4>3. QED  BY <3>1, <4>1, <4>2
    <3>4. QED  BY <3>2, <3>3
  <2>2. QED  BY <2>1 DEF WindowKnown
<1>5. CASE UNCHANGED vars
  BY <1>5 DEF vars, WindowKnown
<1>6. QED
  BY <1>0, <1>1, <1>2, <1>3, <1>4, <1>5 DEF Next, WorkerStep, Terminated, Threads

(* The steps after which a window has nothing more to wait for.            *)
LEMMA WhoIsLast ==
  ASSUME TInv, OwnerInv, StageInv, [Next]_vars, NEW c \in Coordinators, AllDone(c)'
  PROVE  AllDone(c) \/ NoFiles(c) \/ \E th \in Threads : Complete(th) /\ Owner[task[th]] = c
<1>0. /\ pc \in [Threads -> Labels] /\ Coordinators \subseteq Threads
      /\ window \in [Coordinators -> BOOLEAN] /\ stage \in [Tasks -> Stages]
      /\ c \notin Workers /\ Waiting /\ AtWork /\ Completing /\ OwnThread
      /\ Owned(c)' = Owned(c) /\ Owned(c) \subseteq Tasks
  BY TaskAssumption
  DEF TInv, TypeOK, ThreadTypeOK, CoordinatorTypeOK, TaskTypeOK, Threads, OwnerInv, StageInv, Owned
<1>1. ASSUME NEW th \in Threads, TaskStep(th), ~(Complete(th) /\ Owner[task[th]] = c)
      PROVE  AllDone(c)
  <2>1. window' = window
    BY <1>1 DEF TaskStep, ReadBlockFailed, TryAllocate, AllocationGivenBack, StartRead,
                StartReadFails, Enqueue, Complete, Notify, FinishDereference
  <2>2. pc[c] = pc'[c] \/ pc[c] \in Reading
    BY <1>0, <1>1, TaskQuiet, OthersStay
  <2>3. ASSUME NEW t \in Owned(c) PROVE Finished(t)
    <3>1. Finished(t)'
      BY <1>0, <2>3 DEF AllDone
    <3>2. CASE Complete(th)
      BY <1>0, <1>1, <2>3, <3>1, <3>2 DEF Complete, Finished, Owned, AtWork
    <3>3. CASE FinishDereference(th)
      <4>1. stage[task[th]] = "completed"
        BY <1>0, <3>3 DEF FinishDereference, Completing, AtWork
      <4>2. QED  BY <1>0, <3>1, <3>3, <4>1 DEF FinishDereference, Finished, AtWork
    <3>4. CASE ~(Complete(th) \/ FinishDereference(th))
      <4>1. stage' = stage
        BY <1>1, <3>4 DEF TaskStep, ReadBlockFailed, TryAllocate, AllocationGivenBack, StartRead,
                    StartReadFails, Enqueue, Notify
      <4>2. QED  BY <3>1, <4>1 DEF Finished
    <3>5. QED  BY <3>2, <3>3, <3>4
  <2>4. QED  BY <1>0, <2>1, <2>2, <2>3 DEF AllDone, Reading
<1>2. ASSUME NEW w \in Workers, CallbackStep(w) PROVE AllDone(c)
  <2>1. window' = window /\ stage' = stage
    BY <1>2 DEF CallbackStep, QueueEmpty, AddToHashQueue, SubmitWork, Update, FinishHash,
                CountProgress, SendProgress, Advance, Dequeue, ReadCompletedBadly,
                ReadCompleted, BeginHash
  <2>2. pc[c] = pc'[c]
    BY <1>0, <1>2, OthersStay DEF Threads
  <2>3. QED  BY <1>0, <2>1, <2>2 DEF AllDone, Finished
<1>3. ASSUME NEW d \in Coordinators, DialogStep(d) \/ UserStep(d) \/ DeleteStep(d), ~TaskStep(d),
             ~NoFiles(c)
      PROVE  AllDone(c)
  <2>1. ASSUME NEW t \in Owned(c) PROVE Finished(t)
    <3>1. Finished(t)'
      BY <1>0, <2>1 DEF AllDone
    <3>2. \/ stage' = stage
          \/ \E u \in Tasks, s \in {"counted", "live"} : stage' = [stage EXCEPT ![u] = s]
      BY <1>0, <1>3
      DEF AtWork, DialogStep, UserStep, DeleteStep, RegisterWindow, FilesAdded, NoFiles, AddFile,
          CountFile, StartProcessing, FilesStarted, NotifyOwnWindow, HandleFinished,
          HandleProgress, CancelReturns, UnregisterWindow, WindowDereference, CancelClicked,
          Close, DeleteBegins, FilesCancelled, Deleted
    <3>3. QED  BY <1>0, <2>1, <3>1, <3>2 DEF Finished
  <2>2. CASE d # c
    <3>1. pc'[c] = pc[c]
      BY <1>0, <1>3, <2>2, DialogQuiet
    <3>2. window'[c] = window[c]
      BY <1>0, <1>3, <2>2
      DEF DialogStep, UserStep, DeleteStep, RegisterWindow, FilesAdded, NoFiles, AddFile,
          CountFile, StartProcessing, FilesStarted, NotifyOwnWindow, HandleFinished,
          HandleProgress, CancelReturns, UnregisterWindow, WindowDereference, CancelClicked,
          Close, DeleteBegins, FilesCancelled, Deleted
    <3>3. QED  BY <1>0, <2>1, <3>1, <3>2 DEF AllDone
  <2>3. CASE d = c
    <3>1. ~RegisterWindow(c)
      BY <1>0 DEF AllDone, RegisterWindow
    <3>2. ~FilesAdded(c)
      <4>1. SUFFICES ASSUME FilesAdded(c) PROVE FALSE
        OBVIOUS
      <4>2. pc[c] = "addFiles" /\ Owned(c) # {}
        BY <1>0, <4>1 DEF AllDone, FilesAdded
      <4>3. PICK t \in Owned(c) : stage[t] = "new"
        BY <1>0, <4>2 DEF Waiting, Owned
      <4>4. QED  BY <2>1, <4>3 DEF Finished
    <3>3. /\ window'[c] => window[c]
          /\ pc[c] = "addFiles" => pc'[c] = "addFiles"
          /\ pc[c] = "processing" => pc'[c] = "processing" \/ Owned(c) # {}
      BY <1>0, <1>3, <2>3, <3>1, <3>2
      DEF Waiting, Owned, DialogStep, UserStep, DeleteStep, AddFile, CountFile,
          StartProcessing, FilesStarted, NotifyOwnWindow, HandleFinished, HandleProgress,
          CancelReturns, UnregisterWindow, WindowDereference, CancelClicked, Close,
          DeleteBegins, FilesCancelled, Deleted
    <3>4. QED  BY <1>0, <2>1, <3>3 DEF AllDone
  <2>4. QED  BY <2>2, <2>3
<1>4. CASE UNCHANGED vars
  BY <1>0, <1>4 DEF vars, AllDone, Finished
<1>5. QED  BY <1>0, <1>1, <1>2, <1>3, <1>4 DEF Next, WorkerStep, Terminated, Threads

(* The steps that tell a window something, or list its files.              *)
LEMMA WhoTells ==
  ASSUME TInv, [Next]_vars, NEW c \in Coordinators
  PROVE  \/ UNCHANGED <<mutex[c], listings[c], seen[c]>>
            /\ \/ inbox'[c] = inbox[c]
               \/ \E m \in Message : inbox'[c] = Append(inbox[c], m)
         \/ UNCHANGED <<listings, seen>> /\ \E th \in Threads : Complete(th) \/ Notify(th)
         \/ \/ NotifyOwnWindow(c) \/ NoFiles(c) \/ HandleFinished(c) \/ HandleProgress(c)
            \/ UnregisterWindow(c)
<1> DEFINE Quiet == UNCHANGED <<mutex[c], listings[c], seen[c], inbox[c]>>
           Finishes == UNCHANGED <<listings, seen>> /\ \E th \in Threads : Complete(th) \/ Notify(th)
<1>0. /\ mutex \in [Coordinators -> Threads \cup {NoThread}]
      /\ listings \in [Coordinators -> Nat] /\ seen \in [Coordinators -> SUBSET Tasks]
      /\ inbox \in [Coordinators -> Seq(Message)] /\ AtWork /\ arg \in [Threads -> Int]
      /\ Workers \subseteq Threads /\ \A t \in Tasks : Owner[t] \in Coordinators
  BY CoordinatorAssumption
  DEF TInv, TypeOK, CoordinatorTypeOK, DialogTypeOK, ThreadTypeOK, Threads
<1>1. ASSUME NEW th \in Threads, TaskStep(th), UNCHANGED dialogVars, ~(Complete(th) \/ Notify(th))
      PROVE  Quiet
  BY <1>1 DEF TaskStep, ReadBlockFailed, TryAllocate, AllocationGivenBack, StartRead,
              StartReadFails, Enqueue, FinishDereference
<1>2. ASSUME NEW w \in Workers, CallbackStep(w), UNCHANGED dialogVars, ~SendProgress(w) PROVE Quiet
  BY <1>2 DEF CallbackStep, QueueEmpty, AddToHashQueue, SubmitWork, Update, FinishHash,
              CountProgress, Advance, Dequeue, ReadCompletedBadly, ReadCompleted, BeginHash
<1>3. ASSUME NEW w \in Workers, SendProgress(w), UNCHANGED dialogVars
      PROVE  UNCHANGED <<mutex[c], listings[c], seen[c]>>
             /\ \/ inbox'[c] = inbox[c]
                \/ \E m \in Message : inbox'[c] = Append(inbox[c], m)
  <2>1. PICK t \in Tasks : t = task[w]
    BY <1>0, <1>3 DEF SendProgress, AtWork
  <2>2. FileProgress(arg[w]) \in Message
    BY <1>0, <1>3 DEF SendProgress, AtWork, FileProgress, Message
  <2>3. /\ UNCHANGED <<mutex, listings, seen>>
        /\ inbox' = inbox \/ Send(Owner[t], FileProgress(arg[w]))
    BY <1>0, <1>3, <2>1 DEF SendProgress, PostProgress
  <2>4. QED  BY <1>0, <2>1, <2>2, <2>3 DEF Send
<1>4. ASSUME NEW d \in Coordinators, DialogStep(d) \/ UserStep(d) \/ DeleteStep(d),
             ~ \/ NotifyOwnWindow(c) \/ NoFiles(c) \/ HandleFinished(c) \/ HandleProgress(c)
               \/ UnregisterWindow(c)
      PROVE  Quiet \/ Finishes
  <2>1. CASE UserStep(d) \/ DeleteStep(d)
    BY <2>1 DEF UserStep, DeleteStep, CancelClicked, Close, DeleteBegins, FilesCancelled, Deleted
  <2>2. CASE \E t \in Tasks : AddFile(d, t) \/ CountFile(d, t)
    BY <2>2 DEF AddFile, CountFile
  <2>3. CASE \/ RegisterWindow(d) \/ FilesAdded(d) \/ StartProcessing(d) \/ FilesStarted(d)
             \/ CancelReturns(d) \/ WindowDereference(d)
    BY <2>3 DEF RegisterWindow, FilesAdded, StartProcessing, FilesStarted, CancelReturns,
                WindowDereference
  <2>4. CASE \/ NotifyOwnWindow(d) \/ NoFiles(d) \/ HandleFinished(d) \/ HandleProgress(d)
             \/ UnregisterWindow(d)
    <3>1. d # c
      BY <1>4, <2>4
    <3>2. QED
      BY <1>0, <2>4, <3>1 DEF NotifyOwnWindow, NoFiles, ListFiles, HandleFinished, HandleProgress,
                              UnregisterWindow
  <2>5. CASE TaskStep(d) /\ UNCHANGED dialogVars
    BY <1>1, <2>5 DEF Threads
  <2>6. QED  BY <1>4, <2>1, <2>2, <2>3, <2>4, <2>5 DEF DialogStep
<1>5. CASE UNCHANGED vars
  BY <1>5 DEF vars
<1>6. QED
  <2>1. ASSUME NEW w \in Workers, WorkerStep(w) PROVE
        \/ UNCHANGED <<mutex[c], listings[c], seen[c]>>
            /\ \/ inbox'[c] = inbox[c]
               \/ \E m \in Message : inbox'[c] = Append(inbox[c], m)
        \/ Finishes
    BY <1>0, <1>1, <1>2, <1>3, <2>1 DEF WorkerStep
  <2>2. QED  BY <1>4, <1>5, <2>1 DEF Next, Terminated

LEMMA LastToldStep ==
  ASSUME TInv, OwnerInv, StageInv, CountersExact, MutexHeld, WindowKnown, LastTold, [Next]_vars
  PROVE  LastTold'
<1> SUFFICES ASSUME NEW c \in Coordinators, AllDone(c)' PROVE Told(c)'
  BY DEF LastTold
<1>0. /\ inbox \in [Coordinators -> Seq(Message)] /\ listings \in [Coordinators -> Nat]
      /\ seen \in [Coordinators -> SUBSET Tasks] /\ notFinished \in [Coordinators -> Int]
      /\ mutex \in [Coordinators -> Threads \cup {NoThread}] /\ NoThread \notin Threads
      /\ AllFilesFinished \in Message /\ AllFilesFinished.kind = "finished"
      /\ Owned(c)' = Owned(c) /\ AtWork /\ \A t \in Tasks : Owner[t] \in Coordinators
      /\ Owned(c) \subseteq Tasks
  BY TaskAssumption, CoordinatorAssumption
  DEF TInv, TypeOK, CoordinatorTypeOK, DialogTypeOK, AllFilesFinished, Message, Owned
<1>1. ASSUME stage' = stage, ListFiles(c) PROVE Told(c)'
  <2>1. \A t \in Owned(c) : stage[t] \in {"completed", "done"}
    BY <1>0, <1>1 DEF AllDone, Finished
  <2>2. {t \in Owned(c) : stage[t] \in {"completed", "done"}} = Owned(c)
    BY <2>1
  <2>3. seen'[c] = Owned(c) /\ listings'[c] > 0
    BY <1>0, <1>1, <2>2 DEF ListFiles
  <2>4. QED  BY <1>0, <2>3 DEF Told
<1>2. ASSUME NEW th \in Threads, Complete(th), Owner[task[th]] = c PROVE Told(c)'
  <2>1. UnfinishedOf(c)' = {}
    BY <1>0 DEF AllDone, Finished, UnfinishedOf, Owned
  <2>2. notFinished'[c] = 0
    <3>1. CountersExact'
      BY CountersStep
    <3>2. notFinished'[c] = Cardinality(UnfinishedOf(c)')
      BY <3>1 DEF CountersExact, UnfinishedOf
    <3>3. QED  BY <2>1, <3>2, FS_EmptySet
  <2>3. window[c] /\ LastFile(c)
    BY <1>0, <1>2, <2>2 DEF Complete, CountDown, LastFile, AllDone
  <2>4. mutex'[c] = th
    BY <1>0, <1>2, <2>3 DEF Complete
  <2>5. QED  BY <1>0, <2>4 DEF Told
<1>3. ASSUME NEW th \in Threads, Complete(th), AllDone(c), UNCHANGED <<listings, seen>>
      PROVE  Told(c)'
  <2>1. Told(c) /\ inbox' = inbox
    BY <1>3 DEF LastTold, Complete
  <2>2. mutex'[c] = mutex[c] \/ mutex'[c] = th
    BY <1>0, <1>3 DEF Complete, AtWork
  <2>3. QED  BY <1>0, <1>3, <2>1, <2>2 DEF Told
<1>4. ASSUME NEW th \in Threads, Notify(th), AllDone(c), UNCHANGED <<listings, seen>>
      PROVE  Told(c)'
  <2>1. PICK t \in Tasks : t = task[th]
    BY <1>0, <1>4 DEF Notify, AtWork
  <2>2. Told(c)
    BY <1>4 DEF LastTold
  <2>3. CASE Owner[t] = c
    <3>1. inbox'[c] = Append(inbox[c], AllFilesFinished)
      BY <1>0, <1>4, <2>1, <2>3 DEF Notify, Send
    <3>2. SaysFinished(inbox'[c])
      BY <1>0, <3>1, Saying
    <3>3. QED  BY <3>2 DEF Told
  <2>4. CASE Owner[t] # c
    <3>1. inbox'[c] = inbox[c] /\ mutex'[c] = mutex[c]
      BY <1>0, <1>4, <2>1, <2>4 DEF Notify, Send
    <3>2. QED  BY <1>0, <1>4, <2>2, <3>1 DEF Told
  <2>5. QED  BY <2>3, <2>4
<1>5. ASSUME AllDone(c), UNCHANGED <<mutex[c], listings[c], seen[c]>>,
             \/ inbox'[c] = inbox[c]
             \/ \E m \in Message : inbox'[c] = Append(inbox[c], m)
      PROVE  Told(c)'
  <2>1. Told(c)
    BY <1>5 DEF LastTold
  <2>2. SaysFinished(inbox[c]) => SaysFinished(inbox'[c])
    BY <1>0, <1>5, Saying
  <2>3. QED  BY <1>0, <1>5, <2>1, <2>2 DEF Told
<1>6. CASE NotifyOwnWindow(c) \/ NoFiles(c) \/ HandleFinished(c)
  BY <1>1, <1>6 DEF NotifyOwnWindow, NoFiles, HandleFinished
<1>7. ASSUME HandleProgress(c), AllDone(c) PROVE Told(c)'
  <2>1. /\ inbox[c] # <<>> /\ Head(inbox[c]).kind # "finished" /\ inbox'[c] = Tail(inbox[c])
        /\ UNCHANGED <<mutex, listings, seen>>
    BY <1>0, <1>7 DEF HandleProgress
  <2>2. SaysFinished(inbox[c]) => SaysFinished(inbox'[c])
    BY <1>0, <2>1, Saying
  <2>3. QED  BY <1>0, <1>7, <2>1, <2>2 DEF LastTold, Told
<1>8. ~UnregisterWindow(c)
  BY DEF AllDone, UnregisterWindow, TInv, TypeOK, CoordinatorTypeOK
<1>9. CASE AllDone(c)
  BY <1>3, <1>4, <1>5, <1>6, <1>7, <1>8, <1>9, WhoTells
<1>10. CASE ~AllDone(c)
  BY <1>2, <1>6, <1>10, WhoIsLast
<1>11. QED  BY <1>9, <1>10

(* When all files are done and no message is on its way, the dialog has    *)
(* listed all of them: the last completion is not lost, whichever thread   *)
(* ends last (Coordinator.cpp, FileCompletionCallback; MainDialog.cpp,     *)
(* OnAllFilesFinished).                                                    *)
THEOREM LastListingSeesAllAlways == Spec => []LastListingSeesAll
<1>1. ASSUME WindowKnown, LastTold PROVE LastListingSeesAll
  BY <1>1 DEF WindowKnown, LastTold, AllDone, Told, SaysFinished, LastListingSeesAll, Unlocked
<1>2. QED
  BY <1>1, WindowInit, WindowStep, LastToldStep, LifetimeInvariant, PTL DEF Spec

-----------------------------------------------------------------------------
(* The verdict HashJobs sees is how far the file is, and its error: a file *)
(* that ends without one always has its whole digest.                      *)
Judged(t) ==
  IF stage[t] = "new" THEN "waiting"
  ELSE IF ~Finished(t) THEN "running"
  ELSE IF error[t] # "none" THEN "failed" ELSE "hashed"

VerdictsJudged == \A t \in Tasks : Verdict(t) = Judged(t)

LEMMA VerdictIs ==
  ASSUME TInv, OwnerInv, StageInv, DigestInv PROVE VerdictsJudged
<1>1. ASSUME NEW t \in Tasks PROVE Verdict(t) = Judged(t)
  <2>1. CASE stage[t] = "new"
    BY <2>1 DEF Verdict, Judged, Finished
  <2>2. CASE stage[t] # "new" /\ ~Finished(t)
    BY <2>2 DEF Verdict, Judged, Finished
  <2>3. CASE Finished(t) /\ error[t] # "none"
    BY <2>3 DEF Verdict, Judged, Finished
  <2>4. CASE Finished(t) /\ error[t] = "none"
    <3>1. WholeFileHashed(t) /\ stage[t] # "new"
      BY <2>4, WholeDigest DEF Finished
    <3>2. QED  BY <2>4, <3>1 DEF Verdict, Judged
  <2>5. QED  BY <2>1, <2>2, <2>3, <2>4
<1>2. QED  BY <1>1 DEF VerdictsJudged

(* Nobody sets the error of a finished file.                               *)
LEMMA VerdictStays ==
  ASSUME TInv, OwnerInv, StageInv, [Next]_vars, NEW t \in Tasks, Finished(t)
  PROVE  error'[t] = error[t]
<1>0. /\ error \in [Tasks -> {"none", "failed", "cancelled"}] /\ Workers \subseteq Threads
      /\ AtWork /\ Waiting /\ Completing
  BY DEF TInv, TypeOK, TaskTypeOK, OwnerInv, StageInv, Threads
<1>1. ASSUME NEW th \in Threads, task[th] = t, pc[th] \in {"read", "advance"} PROVE FALSE
  <2>1. Running(t) /\ Sole(t) = {th}
    BY <1>1, InSole
  <2>2. PICK ti \in Threads : pc[ti] \in {"notify", "dereference"} /\ task[ti] = t
    BY <1>0, <2>1 DEF Running, Finished, Completing
  <2>3. QED  BY <1>1, <2>1, <2>2 DEF Sole
<1>2. ASSUME pendingIo[t] > 0 PROVE FALSE
  <2>1. Running(t)
    BY <1>2, WorkedOn
  <2>2. PICK ti \in Threads : pc[ti] \in {"notify", "dereference"} /\ task[ti] = t
    BY <1>0, <2>1 DEF Running, Finished, Completing
  <2>3. QED  BY <1>2, <2>2, InSole
<1>3. ASSUME NEW th \in Threads, StartReadFails(th) PROVE error'[t] = error[t]
  BY <1>0, <1>1, <1>3 DEF StartReadFails
<1>4. ASSUME NEW w \in Workers, Advance(w) PROVE error'[t] = error[t]
  BY <1>0, <1>1, <1>4 DEF Advance, MarkCancelled
<1>5. ASSUME NEW w \in Workers, NEW u \in Tasks, ReadCompletedBadly(w, u)
      PROVE  error'[t] = error[t]
  BY <1>0, <1>2, <1>5 DEF ReadCompletedBadly, ReadArrives
<1>6. ASSUME NEW c \in Coordinators, NEW u \in Tasks, AddFile(c, u) PROVE error'[t] = error[t]
  BY <1>0, <1>6 DEF AddFile, Owned, Waiting, Finished
<1>7. QED  BY <1>3, <1>4, <1>5, <1>6, WhoFails

JobsInv == TInv /\ OwnerInv /\ StageInv /\ DeletedLate /\ VerdictsJudged

(* A destroyed coordinator has no file that is started.                    *)
LEMMA Destroyed ==
  ASSUME JobsInv, NEW t \in Tasks, deleting[Owner[t]] = "gone"
  PROVE  /\ pc[Owner[t]] = "closed" /\ ~Running(t) /\ stage[t] # "counted"
         /\ Judged(t) # "running"
<1>1. Owner[t] \in Coordinators /\ stage \in [Tasks -> Stages]
  BY CoordinatorAssumption DEF JobsInv, TInv, TypeOK, TaskTypeOK
<1>2. pc[Owner[t]] = "closed" /\ ~Running(t) /\ stage[t] # "counted"
  BY <1>1 DEF JobsInv, DeletedLate, Owned, StageInv, CountedStarts
<1>3. QED  BY <1>1, <1>2 DEF Judged, Running, Finished

(* A file that nobody moves on keeps its verdict.                          *)
LEMMA JudgedStays ==
  ASSUME TInv, OwnerInv, StageInv, [Next]_vars, NEW t \in Tasks, stage'[t] = stage[t]
  PROVE  Judged(t)' = Judged(t)
<1>1. Finished(t) => error'[t] = error[t]
  BY VerdictStays
<1>2. QED  BY <1>1 DEF Judged, Finished

LEMMA JobsInit == Init => Jobs!Init
<1> SUFFICES ASSUME Init PROVE Jobs!Init
  OBVIOUS
<1>1. \A t \in Tasks : Verdict(t) = "waiting"
  BY DEF Init, TaskInit, Verdict, Finished
<1>2. \A c \in Coordinators : deleting[c] # "gone"
  BY DEF Init
<1>3. QED  BY <1>1, <1>2 DEF Jobs!Init

LEMMA JobsStep ==
  ASSUME JobsInv, JobsInv', [Next]_vars PROVE [Jobs!Next]_(Jobs!jobVars)
<1> DEFINE verdict == [t \in Tasks |-> Verdict(t)]
           exists == [c \in Coordinators |-> deleting[c] # "gone"]
<1>j. TInv /\ OwnerInv /\ StageInv
  BY DEF JobsInv
<1>0. /\ pc \in [Threads -> Labels] /\ task \in [Threads -> Tasks \cup {NoTask}]
      /\ stage \in [Tasks -> Stages] /\ deleting \in [Coordinators -> Deleting]
      /\ error \in [Tasks -> {"none", "failed", "cancelled"}]
      /\ Coordinators \subseteq Threads /\ AtWork /\ Waiting /\ Completing
      /\ todo \in [Coordinators -> SUBSET Tasks]
      /\ \A t \in Tasks : Owner[t] \in Coordinators
  BY <1>j, CoordinatorAssumption
  DEF TInv, TypeOK, ThreadTypeOK, TaskTypeOK, DialogTypeOK, OwnerInv, StageInv, Threads
<1>1. \A t \in Tasks : verdict[t] = Judged(t) /\ verdict'[t] = Judged(t)'
  BY DEF JobsInv, VerdictsJudged
<1>2. ASSUME pc' # pc PROVE exists' = exists
  <2>1. deleting' = deleting
    BY <1>2, WhoDeletes DEF DeleteBegins, FilesCancelled, Deleted
  <2>2. QED  BY <2>1
<1>3. ASSUME NEW t \in Tasks, NEW s \in Stages, stage' = [stage EXCEPT ![t] = s]
      PROVE  verdict' = [verdict EXCEPT ![t] = Judged(t)']
  <2>1. \A u \in Tasks \ {t} : Judged(u)' = Judged(u)
    BY <1>j, <1>3, JudgedStays
  <2>2. QED  BY <1>1, <2>1
<1>4. ASSUME stage' = stage PROVE verdict' = verdict
  <2>1. \A u \in Tasks : Judged(u)' = Judged(u)
    BY <1>j, <1>4, JudgedStays
  <2>2. QED  BY <1>1, <2>1
<1>5. ASSUME NEW c \in Coordinators, NEW t \in Tasks, CountFile(c, t) PROVE Jobs!Start(t)
  <2>1. /\ stage[t] = "new" /\ Owner[t] = c /\ pc[c] = "processing"
        /\ stage' = [stage EXCEPT ![t] = "counted"] /\ deleting' = deleting
    BY <1>0, <1>5 DEF CountFile, Waiting
  <2>2. exists' = exists /\ exists[Owner[t]]
    BY <1>0, <2>1, Destroyed
  <2>3. Judged(t) = "waiting" /\ Judged(t)' = "running"
    BY <1>0, <2>1 DEF Judged, Finished
  <2>4. verdict' = [verdict EXCEPT ![t] = "running"] /\ verdict[t] = "waiting"
    BY <1>1, <1>3, <2>1, <2>3
  <2>5. QED  BY <2>2, <2>4 DEF Jobs!Start
<1>6. ASSUME NEW th \in Threads, Complete(th) PROVE \E t \in Tasks : Jobs!Decide(t)
  <2>1. PICK t \in Tasks : t = task[th]
    BY <1>0, <1>6 DEF Complete, AtWork
  <2>2. stage[t] = "live"
    <3>1. Sole(t) = {th} /\ Running(t) /\ pc[th] = "complete"
      BY <1>j, <1>6, <2>1, InSole DEF Complete
    <3>2. stage[t] # "completed"
      BY <1>0, <3>1 DEF Completing, Sole
    <3>3. QED  BY <3>1, <3>2 DEF Running
  <2>3. stage' = [stage EXCEPT ![t] = "completed"] /\ pc' # pc
    BY <1>0, <1>6, <2>1 DEF Complete
  <2>4. exists' = exists /\ exists[Owner[t]]
    BY <1>0, <1>2, <2>2, <2>3, Destroyed DEF Running
  <2>5. Judged(t) = "running" /\ Judged(t)' \in {"hashed", "failed"}
    BY <1>0, <2>2, <2>3 DEF Judged, Finished
  <2>6. verdict' = [verdict EXCEPT ![t] = Judged(t)'] /\ verdict[t] = "running"
    BY <1>1, <1>3, <2>3, <2>5
  <2>7. QED  BY <2>4, <2>5, <2>6 DEF Jobs!Decide
<1>7. ASSUME NEW th \in Threads, FinishDereference(th) PROVE UNCHANGED Jobs!jobVars
  <2>1. PICK t \in Tasks : t = task[th] /\ stage[t] = "completed"
    BY <1>0, <1>7 DEF FinishDereference, AtWork, Completing
  <2>2. stage' = [stage EXCEPT ![t] = "done"] /\ pc' # pc /\ error' = error
    BY <1>0, <1>7, <2>1 DEF FinishDereference, ReturnFromRead
  <2>3. Judged(t)' = Judged(t)
    BY <1>0, <2>1, <2>2 DEF Judged, Finished
  <2>4. verdict' = verdict
    BY <1>1, <1>3, <2>2, <2>3
  <2>5. QED  BY <1>2, <2>2, <2>4 DEF Jobs!jobVars
<1>8. ASSUME NEW c \in Coordinators, StartProcessing(c) PROVE UNCHANGED Jobs!jobVars
  <2>1. PICK t \in Tasks : t = task[c] /\ stage[t] = "counted"
    BY <1>0, <1>8 DEF StartProcessing, AtWork, Waiting
  <2>2. stage' = [stage EXCEPT ![t] = "live"] /\ deleting' = deleting
    BY <1>8, <2>1 DEF StartProcessing
  <2>3. Judged(t)' = Judged(t)
    BY <1>0, <2>1, <2>2 DEF Judged, Finished
  <2>4. verdict' = verdict
    BY <1>1, <1>3, <2>2, <2>3
  <2>5. QED  BY <2>2, <2>4 DEF Jobs!jobVars
<1>9. ASSUME stage' = stage PROVE Jobs!Next \/ UNCHANGED Jobs!jobVars
  <2>1. verdict' = verdict
    BY <1>4, <1>9
  <2>2. CASE exists' = exists
    BY <2>1, <2>2 DEF Jobs!jobVars
  <2>3. CASE exists' # exists
    <3>1. PICK c \in Coordinators : DeleteBegins(c) \/ FilesCancelled(c) \/ Deleted(c)
      BY <2>3, WhoDeletes
    <3>2. Deleted(c) /\ deleting[c] = "draining" /\ deleting' = [deleting EXCEPT ![c] = "gone"]
      BY <1>0, <2>3, <3>1 DEF DeleteBegins, FilesCancelled, Deleted
    <3>3. exists[c] /\ exists' = [exists EXCEPT ![c] = FALSE]
      BY <1>0, <3>2
    <3>4. ASSUME NEW t \in Tasks, Owner[t] = c PROVE verdict[t] # "running"
      <4>1. ~Running(t)'
        BY <1>0, <3>2, <3>4 DEF JobsInv, DeletedLate, Owned
      <4>2. pc'[c] = "closed" /\ pc' = pc
        BY <1>0, <3>2 DEF JobsInv, DeletedLate, Deleted
      <4>3. ~Running(t) /\ stage[t] # "counted"
        BY <1>j, <1>9, <3>4, <4>1, <4>2 DEF Running, StageInv, CountedStarts
      <4>4. QED  BY <1>0, <1>1, <4>3 DEF Judged, Running, Finished
    <3>5. Jobs!Destroy(c)
      BY <2>1, <3>3, <3>4 DEF Jobs!Destroy
    <3>6. QED  BY <3>5 DEF Jobs!Next
  <2>4. QED  BY <2>2, <2>3
<1>10. QED
  BY <1>0, <1>5, <1>6, <1>7, <1>8, <1>9, WhoMovesOn DEF Jobs!Next

(* Seen from the window the pipeline is HashJobs: every file is started at *)
(* most once and gets one verdict that never changes, "hashed" only with   *)
(* its whole digest, and a coordinator disappears only while none of its   *)
(* files is being worked on.                                               *)
THEOREM HashJobsImplemented == Spec => ImplementsHashJobs
<1>1. TInv /\ OwnerInv /\ StageInv /\ DigestInv /\ DeletedLate => JobsInv
  BY VerdictIs DEF JobsInv
<1>2. JobsInv /\ JobsInv' /\ [Next]_vars => [Jobs!Next]_(Jobs!jobVars)
  BY JobsStep
<1>3. QED
  BY <1>1, <1>2, JobsInit, LifetimeInvariant, PTL DEF Spec, ImplementsHashJobs, Jobs!Spec

-----------------------------------------------------------------------------
(* A thread has counted the block of t and not yet moved the offset on.    *)
Moving(t) == \E w \in Workers : pc[w] \in {"postProgress", "advance"} /\ task[w] = t

(* What t has added to _size_progressed.                                   *)
Added(t) == offset[t] + IF Moving(t) THEN BlockSize(t) ELSE 0
Counts == [t \in Tasks |-> Added(t)]

SizesTotal == \A c \in Coordinators : sizeTotal[c] = SumFunctionOnSet(size, Owned(c))

NotAdded ==
  \A t \in Tasks : pc[Owner[t]] \in {"register", "addFiles"} /\ t \notin todo[Owner[t]] => size[t] = 0

Progressed == \A c \in Coordinators : progressed[c] = SumFunctionOnSet(Counts, Owned(c))

(* No position beyond the end of the bar is sent or about to be.           *)
InBar ==
  /\ \A w \in Workers : pc[w] = "postProgress" => arg[w] <= Resolution
  /\ \A c \in Coordinators : \A n \in DOMAIN inbox[c] : inbox[c][n].part <= Resolution

ProgressInv == SizesTotal /\ NotAdded /\ Progressed /\ InBar

LEMMA CountsNat ==
  ASSUME TInv, OffsetsKept, NEW c \in Coordinators
  PROVE  /\ IsFiniteSet(Owned(c)) /\ Owned(c) \subseteq Tasks
         /\ Naturally(size, Owned(c)) /\ Naturally(Counts, Owned(c)) /\ Naturally(offset, Owned(c))
         /\ \A t \in Tasks : Counts[t] = Added(t) /\ Counts[t] <= size[t]
<1>1. \A t \in Tasks : /\ size[t] \in Nat /\ offset[t] \in Nat /\ offset[t] <= size[t]
                       /\ Counts[t] = Added(t)
  BY DEF TInv, TypeOK, TaskTypeOK, OffsetsKept, Counts
<1>2. \A t \in Tasks : Counts[t] \in Nat /\ Counts[t] <= size[t]
  BY <1>1 DEF Added, BlockSize
<1>3. QED  BY <1>1, <1>2, OwnedFinite DEF Owned, Naturally

LEMMA ProgressInit == Init => ProgressInv
<1> SUFFICES ASSUME Init PROVE ProgressInv
  OBVIOUS
<1>0. TInv /\ OffsetsKept
  BY TypeInit, DigestInit DEF DigestInv
<1>1. \A th \in Threads : pc[th] \notin TaskLabels
  BY DEF Init
<1>2. \A t \in Tasks : size[t] = 0 /\ offset[t] = 0 /\ Counts[t] = 0
  BY <1>1 DEF Init, TaskInit, Counts, Added, Moving, Threads
<1>3. ASSUME NEW c \in Coordinators, NEW f, Naturally(f, Owned(c)), \A t \in Owned(c) : f[t] = 0
      PROVE  SumFunctionOnSet(f, Owned(c)) = 0
  BY <1>3, CoordinatorAssumption, OwnedFinite, SumZero
<1>4. SizesTotal /\ Progressed
  <2>1. \A c \in Coordinators : sizeTotal[c] = 0 /\ progressed[c] = 0
    BY DEF Init, CoordinatorInit
  <2>2. QED  BY <1>0, <1>2, <1>3, <2>1, CountsNat DEF SizesTotal, Progressed
<1>5. InBar
  BY <1>1 DEF Init, CoordinatorInit, InBar, Threads
<1>6. QED  BY <1>2, <1>4, <1>5 DEF ProgressInv, NotAdded

(* The bar never passes its end.                                           *)
LEMMA ProgressBounded ==
  ASSUME TInv, OffsetsKept, SizesTotal, Progressed, NEW c \in Coordinators
  PROVE  progressed[c] <= sizeTotal[c]
<1>1. /\ IsFiniteSet(Owned(c)) /\ Naturally(Counts, Owned(c)) /\ Naturally(size, Owned(c))
      /\ \A t \in Owned(c) : Counts[t] <= size[t]
  BY CountsNat
<1>2. SumFunctionOnSet(Counts, Owned(c)) <= SumFunctionOnSet(size, Owned(c))
  BY <1>1, SumBelow
<1>3. QED  BY <1>2 DEF SizesTotal, Progressed

LEMMA PartInBar ==
  ASSUME NEW s \in Nat \ {0}, NEW n \in Nat, n <= s, NEW r \in Nat
  PROVE  (n * r) \div s <= r
<1>1. n * r <= s * r /\ n * r \in Nat
  OBVIOUS
<1> DEFINE q == (n * r) \div s
           m == (n * r) % s
<1>2. q \in Nat /\ m \in Nat /\ n * r = s * q + m
  BY <1>1
<1>3. SUFFICES ASSUME r < q PROVE FALSE
  BY <1>2
<1>4. s * (r + 1) <= s * q /\ s * (r + 1) = s * r + s
  BY <1>2, <1>3
<1>5. QED  BY <1>1, <1>2, <1>4

(* Who changes what the bar shows.                                         *)
LEMMA WhoProgresses ==
  ASSUME TInv, [Next]_vars
  PROVE  \/ \E c \in Coordinators, t \in Tasks : AddFile(c, t)
         \/ UNCHANGED dialogVars /\ \E w \in Workers : CountProgress(w) \/ Advance(w)
         \/ /\ UNCHANGED <<size, sizeTotal, offset, progressed>>
            /\ \A t \in Tasks : Moving(t)' <=> Moving(t)
<1> DEFINE Alike == /\ UNCHANGED <<size, sizeTotal, offset, progressed>>
                    /\ \A w \in Workers :
                         \/ pc[w] = pc'[w] /\ task[w] = task'[w]
                         \/ /\ pc[w] \notin {"postProgress", "advance"}
                            /\ pc'[w] \notin {"postProgress", "advance"}
                         \/ /\ task[w] = task'[w]
                            /\ pc[w] = "postProgress" /\ pc'[w] = "advance"
<1>0. /\ pc \in [Threads -> Labels] /\ task \in [Threads -> Tasks \cup {NoTask}]
      /\ Workers \subseteq Threads /\ Coordinators \subseteq Threads
      /\ Workers \cap Coordinators = {}
  BY TaskAssumption DEF TInv, TypeOK, ThreadTypeOK, Threads
<1>1. ASSUME NEW th \in Threads, TaskStep(th) PROVE Alike
  <2>1. UNCHANGED <<size, sizeTotal, offset, progressed>>
    BY <1>1 DEF TaskStep, ReadBlockFailed, TryAllocate, AllocationGivenBack, StartRead,
                StartReadFails, Enqueue, Complete, Notify, FinishDereference
  <2>2. QED  BY <1>0, <1>1, <2>1, TaskQuiet, OthersStay DEF Reading
<1>2. ASSUME NEW w \in Workers, CallbackStep(w), ~CountProgress(w), ~Advance(w) PROVE Alike
  <2>1. UNCHANGED <<size, sizeTotal, offset, progressed>>
    BY <1>2 DEF CallbackStep, QueueEmpty, AddToHashQueue, SubmitWork, Update, FinishHash,
                SendProgress, Dequeue, ReadCompletedBadly, ReadCompleted, BeginHash
  <2>2. \/ pc[w] \notin {"postProgress", "advance"} /\ pc'[w] \notin {"postProgress", "advance"}
        \/ task[w] = task'[w] /\ pc[w] = "postProgress" /\ pc'[w] = "advance"
    <3>1. CASE SendProgress(w) \/ Update(w) \/ FinishHash(w)
      BY <1>0, <3>1 DEF SendProgress, Update, FinishHash
    <3>2. CASE QueueEmpty(w) \/ AddToHashQueue(w) \/ SubmitWork(w)
      BY <1>0, <3>2 DEF QueueEmpty, AddToHashQueue, SubmitWork
    <3>3. CASE \E t \in Tasks : \/ Dequeue(w, t) \/ ReadCompletedBadly(w, t)
                                \/ ReadCompleted(w, t) \/ BeginHash(w, t)
      BY <1>0, <3>3 DEF Dequeue, ReadCompletedBadly, ReadCompleted, ReadArrives, BeginHash
    <3>4. QED  BY <1>2, <3>1, <3>2, <3>3 DEF CallbackStep
  <2>3. QED  BY <1>0, <1>2, <2>1, <2>2, OthersStay
<1>3. ASSUME NEW c \in Coordinators, DialogStep(c) \/ UserStep(c) \/ DeleteStep(c), ~TaskStep(c),
             ~ \E t \in Tasks : AddFile(c, t)
      PROVE  Alike
  <2>1. UNCHANGED <<size, sizeTotal, offset, progressed>>
    BY <1>3
    DEF DialogStep, UserStep, DeleteStep, RegisterWindow, FilesAdded, NoFiles, CountFile,
        StartProcessing, FilesStarted, NotifyOwnWindow, HandleFinished, HandleProgress,
        CancelReturns, UnregisterWindow, WindowDereference, CancelClicked, Close, DeleteBegins,
        FilesCancelled, Deleted
  <2>2. QED  BY <1>0, <1>3, <2>1, DialogQuiet
<1>4. CASE UNCHANGED vars
  BY <1>4 DEF vars, Moving
<1>5. ASSUME Alike PROVE \A t \in Tasks : Moving(t)' <=> Moving(t)
  BY <1>5 DEF Moving
<1>6. QED  BY <1>0, <1>1, <1>2, <1>3, <1>4, <1>5 DEF Next, WorkerStep, Terminated

(* A thread that moves a file on is the only one.                          *)
LEMMA MovingAlone ==
  ASSUME TInv, OwnerInv, NEW w \in Workers, pc[w] \in {"progress", "postProgress", "advance"}
  PROVE  /\ w \in Threads /\ task[w] \in Tasks /\ Running(task[w])
         /\ Moving(task[w]) <=> pc[w] # "progress"
         /\ \A v \in Workers \ {w} :
              pc[v] \in {"postProgress", "advance"} => task[v] # task[w]
<1>1. w \in Threads /\ Workers \subseteq Threads
  BY DEF Threads
<1>2. Sole(task[w]) = {w} /\ task[w] \in Tasks /\ Running(task[w])
  BY <1>1, InSole
<1>3. QED  BY <1>1, <1>2 DEF Sole, Moving

LEMMA CountingStep ==
  ASSUME TInv, OwnerInv, DigestInv, ProgressInv, NEW w \in Workers, CountProgress(w),
         UNCHANGED dialogVars
  PROVE  /\ SizesTotal' /\ NotAdded' /\ Progressed'
         /\ pc'[w] = "postProgress" => arg'[w] <= Resolution
<1>0. /\ pc \in [Threads -> Labels] /\ arg \in [Threads -> Int]
      /\ progressed \in [Coordinators -> Nat] /\ sizeTotal \in [Coordinators -> Nat]
      /\ size \in [Tasks -> Nat] /\ offset \in [Tasks -> Nat]
      /\ OffsetsKept /\ SizesTotal /\ Progressed /\ pc[w] = "progress"
      /\ Resolution \in Nat
  BY CoordinatorAssumption
  DEF TInv, TypeOK, ThreadTypeOK, CoordinatorTypeOK, TaskTypeOK, DigestInv, ProgressInv, CountProgress
<1>t. PICK t \in Tasks, c \in Coordinators, n \in Nat : t = task[w] /\ c = Owner[t] /\ n = BlockSize(t)
  BY <1>0, MovingAlone, CoordinatorAssumption DEF BlockSize
<1>1. /\ w \in Threads /\ ~Moving(t) /\ \A d \in Coordinators : d # w /\ d \in Threads
  BY <1>0, <1>t, MovingAlone, CoordinatorAssumption, TaskAssumption DEF Threads
<1>2. /\ UNCHANGED <<size, offset, sizeTotal, todo, task>>
      /\ pc'[w] \in {"postProgress", "advance"} /\ \A v \in Threads \ {w} : pc'[v] = pc[v]
      /\ progressed' = [progressed EXCEPT ![c] = IF sizeTotal[c] = 0 THEN @ ELSE @ + n]
      /\ pc'[w] = "postProgress" => sizeTotal[c] # 0 /\ arg'[w] = Part(c, progressed[c] + n)
  BY <1>0, <1>t, <1>1 DEF CountProgress, AddProgress, BarMoves
<1>3. SizesTotal' /\ NotAdded' /\ OffsetsKept'
  <2>1. SizesTotal'
    BY <1>0, <1>2 DEF SizesTotal, Owned
  <2>2. \A u \in Tasks : pc'[Owner[u]] = pc[Owner[u]]
    BY <1>1, <1>2, CoordinatorAssumption
  <2>3. OffsetsKept'
    BY <1>0, <1>2 DEF OffsetsKept, CountProgress
  <2>4. QED  BY <1>2, <2>1, <2>2, <2>3 DEF ProgressInv, NotAdded
<1>4. /\ Counts'[t] = Counts[t] + n
      /\ \A u \in Tasks \ {t} : Counts'[u] = Counts[u]
  <2>2. Moving(t)' /\ \A u \in Tasks \ {t} : Moving(u)' <=> Moving(u)
    <3>1. Moving(t)'
      BY <1>t, <1>2 DEF Moving
    <3>2. ASSUME NEW u \in Tasks \ {t} PROVE Moving(u)' <=> Moving(u)
      BY <1>t, <1>1, <1>2 DEF Moving, Threads
    <3>3. QED  BY <3>1, <3>2
  <2>3. \A u \in Tasks : offset'[u] = offset[u] /\ BlockSize(u)' = BlockSize(u)
    BY <1>2 DEF BlockSize
  <2>4. QED  BY <1>0, <1>t, <1>1, <2>2, <2>3 DEF Counts, Added
<1>5. ASSUME sizeTotal[c] = 0 PROVE n = 0
  <2>1. SumFunctionOnSet(size, Owned(c)) = 0 /\ t \in Owned(c)
    BY <1>0, <1>t, <1>5 DEF SizesTotal, Owned
  <2>2. IsFiniteSet(Owned(c)) /\ Naturally(size, Owned(c)) /\ Naturally(size, Owned(c) \ {t})
    BY <1>0, <1>1, CountsNat DEF Naturally
  <2>3. SumFunctionOnSet(size, Owned(c)) = size[t] + SumFunctionOnSet(size, Owned(c) \ {t})
    BY <2>1, <2>2, SumParts
  <2>4. SumFunctionOnSet(size, Owned(c) \ {t}) \in Nat
    BY <2>2, FS_Subset, SumParts
  <2>5. size[t] = 0
    BY <1>0, <1>1, <2>1, <2>3, <2>4
  <2>6. QED  BY <1>0, <1>t, <2>5 DEF BlockSize
<1>6. progressed'[c] = progressed[c] + n /\ \A d \in Coordinators \ {c} : progressed'[d] = progressed[d]
  BY <1>0, <1>1, <1>2, <1>4, <1>5
<1>7. Progressed'
  <2>1. ASSUME NEW d \in Coordinators
        PROVE  progressed'[d] = SumFunctionOnSet(Counts', Owned(d))
    <3>1. /\ IsFiniteSet(Owned(d)) /\ Naturally(Counts, Owned(d)) /\ Owned(d) \subseteq Tasks
          /\ progressed[d] = SumFunctionOnSet(Counts, Owned(d))
      BY <1>0, CountsNat DEF Progressed
    <3>2. CASE d = c
      <4>1. t \in Owned(d)
        BY <1>t, <3>2 DEF Owned
      <4>2. SumFunctionOnSet(Counts', Owned(d)) = SumFunctionOnSet(Counts, Owned(d)) + n
        BY <1>4, <3>1, <4>1, SumPut
      <4>3. QED  BY <1>6, <3>1, <3>2, <4>2
    <3>3. CASE d # c
      <4>1. \A u \in Owned(d) : Counts[u] = Counts'[u]
        BY <1>t, <1>4, <3>3 DEF Owned
      <4>2. SumFunctionOnSet(Counts, Owned(d)) = SumFunctionOnSet(Counts', Owned(d))
        BY <3>1, <4>1, SumAlike
      <4>3. QED  BY <1>6, <3>1, <3>3, <4>2
    <3>4. QED  BY <3>2, <3>3
  <2>2. QED  BY <2>1 DEF Progressed, Owned
<1>8. ASSUME pc'[w] = "postProgress" PROVE arg'[w] <= Resolution
  <2>1. progressed[c] + n <= sizeTotal[c] /\ progressed[c] + n \in Nat
    <3>1. \A u \in Tasks : Counts'[u] \in Nat /\ Counts'[u] <= size'[u] /\ size'[u] \in Nat
      <4>1. \A u \in Tasks : Counts[u] \in Nat /\ Counts[u] <= size[u]
        BY <1>0 DEF Counts, Added, BlockSize, OffsetsKept
      <4>2. Counts[t] + n <= size[t]
        BY <1>0, <1>t, <1>1 DEF Counts, Added, BlockSize, OffsetsKept
      <4>3. QED  BY <1>0, <1>2, <1>4, <4>1, <4>2
    <3>2. /\ IsFiniteSet(Owned(c)) /\ Naturally(Counts', Owned(c)) /\ Naturally(size', Owned(c))
          /\ \A u \in Owned(c) : Counts'[u] <= size'[u]
      BY <3>1, OwnedFinite DEF Naturally, Owned
    <3>3. SumFunctionOnSet(Counts', Owned(c)) <= SumFunctionOnSet(size', Owned(c))
      BY <3>2, SumBelow
    <3>4. progressed'[c] <= sizeTotal'[c]
      BY <1>3, <1>7, <3>3 DEF SizesTotal, Progressed, Owned
    <3>5. QED  BY <1>0, <1>2, <1>6, <3>4
  <2>2. sizeTotal[c] \in Nat \ {0}
    BY <1>0, <1>2, <1>8
  <2>3. QED  BY <1>0, <1>2, <1>8, <2>1, <2>2, PartInBar DEF Part
<1>9. QED  BY <1>3, <1>7, <1>8

LEMMA AdvancingStep ==
  ASSUME TInv, OwnerInv, DigestInv, ProgressInv, NEW w \in Workers, Advance(w),
         UNCHANGED dialogVars
  PROVE  SizesTotal' /\ NotAdded' /\ Progressed'
<1>0. /\ pc \in [Threads -> Labels] /\ offset \in [Tasks -> Nat] /\ pc[w] = "advance"
      /\ OffsetsKept /\ SizesTotal /\ Progressed /\ size \in [Tasks -> Nat]
  BY DEF TInv, TypeOK, ThreadTypeOK, TaskTypeOK, DigestInv, ProgressInv, Advance
<1>t. PICK t \in Tasks : t = task[w]
  BY <1>0, MovingAlone
<1>1. /\ w \in Threads /\ Moving(t)
      /\ \A v \in Workers \ {w} : pc[v] \in {"postProgress", "advance"} => task[v] # t
      /\ \A d \in Coordinators : d # w /\ d \in Threads
  BY <1>0, <1>t, MovingAlone, TaskAssumption DEF Threads
<1>2. /\ UNCHANGED <<size, sizeTotal, progressed, todo, task>>
      /\ pc'[w] \notin {"postProgress", "advance"} /\ \A v \in Threads \ {w} : pc'[v] = pc[v]
      /\ offset'[t] = offset[t] + BlockSize(t)
      /\ \A u \in Tasks \ {t} : offset'[u] = offset[u]
  BY <1>0, <1>t, <1>1 DEF Advance
<1>3. SizesTotal' /\ NotAdded'
  <2>1. \A u \in Tasks : pc'[Owner[u]] = pc[Owner[u]]
    BY <1>1, <1>2, CoordinatorAssumption
  <2>2. SizesTotal'
    BY <1>0, <1>2 DEF SizesTotal, Owned
  <2>3. QED  BY <1>2, <2>1, <2>2 DEF ProgressInv, NotAdded
<1>4. ~Moving(t)' /\ \A u \in Tasks \ {t} : Moving(u)' <=> Moving(u)
  <2>1. ~Moving(t)'
    BY <1>t, <1>1, <1>2 DEF Moving, Threads
  <2>2. ASSUME NEW u \in Tasks \ {t} PROVE Moving(u)' <=> Moving(u)
    BY <1>t, <1>1, <1>2 DEF Moving, Threads
  <2>3. QED  BY <2>1, <2>2
<1>5. \A u \in Tasks : Counts[u] = Counts'[u]
  <2>1. \A u \in Tasks \ {t} : BlockSize(u)' = BlockSize(u)
    BY <1>2 DEF BlockSize
  <2>2. Counts'[t] = Counts[t]
    BY <1>0, <1>1, <1>2, <1>4 DEF Counts, Added, BlockSize
  <2>3. QED  BY <1>2, <1>4, <2>1, <2>2 DEF Counts, Added
<1>6. Progressed'
  <2>1. ASSUME NEW d \in Coordinators
        PROVE  SumFunctionOnSet(Counts, Owned(d)) = SumFunctionOnSet(Counts', Owned(d))
    <3>1. IsFiniteSet(Owned(d)) /\ Naturally(Counts, Owned(d)) /\ Owned(d) \subseteq Tasks
      BY <1>0, CountsNat
    <3>2. \A u \in Owned(d) : Counts[u] = Counts'[u]
      BY <1>5, <3>1
    <3>3. QED  BY <3>1, <3>2, SumAlike
  <2>2. QED  BY <1>0, <1>2, <2>1 DEF Progressed, Owned
<1>7. QED  BY <1>3, <1>6

LEMMA AddingStep ==
  ASSUME TInv, OwnerInv, DigestInv, ProgressInv, NEW d \in Coordinators, NEW t \in Tasks,
         AddFile(d, t)
  PROVE  SizesTotal' /\ NotAdded' /\ Progressed'
<1>0. /\ pc \in [Threads -> Labels] /\ offset \in [Tasks -> Nat] /\ size \in [Tasks -> Nat]
      /\ todo \in [Coordinators -> SUBSET Tasks] /\ sizeTotal \in [Coordinators -> Nat]
      /\ OffsetsKept /\ SizesTotal /\ Progressed /\ Waiting /\ pc[d] = "addFiles"
  BY DEF TInv, TypeOK, ThreadTypeOK, TaskTypeOK, DialogTypeOK, CoordinatorTypeOK, DigestInv,
         ProgressInv, OwnerInv, AddFile
<1>1. /\ Owner[t] = d /\ t \notin todo[d] /\ size[t] = 0 /\ stage[t] = "new" /\ offset[t] = 0
  BY <1>0 DEF AddFile, Owned, ProgressInv, NotAdded, Waiting, OffsetsKept
<1>2. PICK n \in Nat : /\ size' = [size EXCEPT ![t] = n]
                       /\ sizeTotal' = [sizeTotal EXCEPT ![d] = @ + n]
  BY SizesAssumption DEF AddFile
<1>3. /\ UNCHANGED <<offset, progressed, pc, task>>
      /\ todo'[d] = todo[d] \cup {t} /\ \A c \in Coordinators \ {d} : todo'[c] = todo[c]
  BY <1>0 DEF AddFile
<1>4. SizesTotal'
  <2>1. ASSUME NEW c \in Coordinators
        PROVE  sizeTotal'[c] = SumFunctionOnSet(size', Owned(c))
    <3>1. /\ IsFiniteSet(Owned(c)) /\ Naturally(size, Owned(c)) /\ Owned(c) \subseteq Tasks
          /\ sizeTotal[c] = SumFunctionOnSet(size, Owned(c))
      BY <1>0, CountsNat DEF SizesTotal
    <3>2. CASE c = d
      <4>1. /\ t \in Owned(c) /\ size'[t] = size[t] + n
            /\ \A u \in Owned(c) \ {t} : size'[u] = size[u]
        BY <1>0, <1>1, <1>2, <3>1, <3>2 DEF Owned
      <4>2. SumFunctionOnSet(size', Owned(c)) = SumFunctionOnSet(size, Owned(c)) + n
        BY <3>1, <4>1, SumPut
      <4>3. QED  BY <1>0, <1>2, <3>1, <3>2, <4>2
    <3>3. CASE c # d
      <4>1. \A u \in Owned(c) : size[u] = size'[u]
        BY <1>0, <1>1, <1>2, <3>3 DEF Owned
      <4>2. SumFunctionOnSet(size, Owned(c)) = SumFunctionOnSet(size', Owned(c))
        BY <3>1, <4>1, SumAlike
      <4>3. QED  BY <1>0, <1>2, <3>1, <3>3, <4>2
    <3>4. QED  BY <3>2, <3>3
  <2>2. QED  BY <2>1 DEF SizesTotal, Owned
<1>5. NotAdded'
  <2>1. SUFFICES ASSUME NEW u \in Tasks, pc[Owner[u]] \in {"register", "addFiles"},
                        u \notin todo'[Owner[u]]
                 PROVE  size'[u] = 0
    BY <1>3 DEF NotAdded
  <2>2. u # t /\ u \notin todo[Owner[u]]
    BY <1>1, <1>3, <2>1, CoordinatorAssumption
  <2>3. QED  BY <1>0, <1>2, <2>1, <2>2 DEF ProgressInv, NotAdded
<1>6. \A u \in Tasks : Counts[u] = Counts'[u]
  <2>1. \A u \in Tasks : Moving(u)' <=> Moving(u)
    BY <1>3 DEF Moving
  <2>2. ~Moving(t)
    BY <1>1, MovingAlone DEF Moving, Running
  <2>3. \A u \in Tasks \ {t} : BlockSize(u)' = BlockSize(u)
    BY <1>0, <1>2, <1>3 DEF BlockSize
  <2>4. QED  BY <1>3, <2>1, <2>2, <2>3 DEF Counts, Added
<1>7. Progressed'
  <2>1. ASSUME NEW c \in Coordinators
        PROVE  SumFunctionOnSet(Counts, Owned(c)) = SumFunctionOnSet(Counts', Owned(c))
    <3>1. IsFiniteSet(Owned(c)) /\ Naturally(Counts, Owned(c)) /\ Owned(c) \subseteq Tasks
      BY <1>0, CountsNat
    <3>2. \A u \in Owned(c) : Counts[u] = Counts'[u]
      BY <1>6, <3>1
    <3>3. QED  BY <3>1, <3>2, SumAlike
  <2>2. QED  BY <1>0, <1>3, <2>1 DEF Progressed, Owned
<1>8. QED  BY <1>4, <1>5, <1>7

(* Messages within the bar, and how a queue of them changes.               *)
Within(s) == \A n \in DOMAIN s : s[n].part <= Resolution

LEMMA WithinKept ==
  ASSUME NEW s \in Seq(Message), Within(s)
  PROVE  /\ \A m \in Message : m.part <= Resolution => Within(Append(s, m))
         /\ s # <<>> => Within(Tail(s))
         /\ Within(<<>>)
<1>1. ASSUME NEW m \in Message, m.part <= Resolution, NEW n \in DOMAIN Append(s, m)
      PROVE  Append(s, m)[n].part <= Resolution
  <2>1. n \in 1 .. Len(s) + 1 /\ Append(s, m)[n] = IF n = Len(s) + 1 THEN m ELSE s[n]
    BY <1>1
  <2>2. n # Len(s) + 1 => n \in DOMAIN s
    BY <2>1
  <2>3. QED  BY <1>1, <2>1, <2>2 DEF Within
<1>2. ASSUME s # <<>>, NEW n \in DOMAIN Tail(s) PROVE Tail(s)[n].part <= Resolution
  <2>1. n + 1 \in DOMAIN s /\ Tail(s)[n] = s[n + 1]
    BY <1>2
  <2>2. QED  BY <2>1 DEF Within
<1>3. QED  BY <1>1, <1>2 DEF Within

LEMMA WhatIsSent ==
  ASSUME TInv, [Next]_vars, NEW c \in Coordinators, Within(inbox[c]),
         \A w \in Workers : pc[w] = "postProgress" => arg[w] <= Resolution
  PROVE  Within(inbox'[c])
<1>0. /\ inbox \in [Coordinators -> Seq(Message)] /\ AtWork /\ arg \in [Threads -> Int]
      /\ Workers \subseteq Threads /\ \A t \in Tasks : Owner[t] \in Coordinators
      /\ AllFilesFinished \in Message /\ AllFilesFinished.part <= Resolution
  BY CoordinatorAssumption
  DEF TInv, TypeOK, CoordinatorTypeOK, ThreadTypeOK, Threads, AllFilesFinished, Message
<1>1. ASSUME NEW th \in Threads, TaskStep(th) PROVE Within(inbox'[c])
  <2>1. CASE Notify(th)
    <3>1. inbox'[c] = inbox[c] \/ inbox'[c] = Append(inbox[c], AllFilesFinished)
      BY <1>0, <2>1 DEF Notify, Send
    <3>2. QED  BY <1>0, <3>1, WithinKept
  <2>2. CASE ~Notify(th)
    BY <1>1, <2>2 DEF TaskStep, ReadBlockFailed, TryAllocate, AllocationGivenBack, StartRead,
                      StartReadFails, Enqueue, Complete, FinishDereference
  <2>3. QED  BY <2>1, <2>2
<1>2. ASSUME NEW w \in Workers, CallbackStep(w) PROVE Within(inbox'[c])
  <2>1. CASE SendProgress(w)
    <3>1. FileProgress(arg[w]) \in Message /\ FileProgress(arg[w]).part <= Resolution
      BY <1>0, <2>1 DEF SendProgress, AtWork, FileProgress, Message
    <3>2. PICK m \in Message : m = FileProgress(arg[w]) /\ m.part <= Resolution
      BY <3>1
    <3>3. inbox' = inbox \/ Send(Owner[task[w]], m)
      BY <2>1, <3>2 DEF SendProgress, PostProgress
    <3>4. inbox'[c] = inbox[c] \/ inbox'[c] = Append(inbox[c], m)
      BY <1>0, <3>3 DEF Send
    <3>5. QED  BY <1>0, <3>2, <3>4, WithinKept
  <2>2. CASE ~SendProgress(w)
    BY <1>2, <2>2 DEF CallbackStep, QueueEmpty, AddToHashQueue, SubmitWork, Update,
                      FinishHash, CountProgress, Advance, Dequeue, ReadCompletedBadly,
                      ReadCompleted, BeginHash
  <2>3. QED  BY <2>1, <2>2
<1>3. ASSUME NEW d \in Coordinators, DialogStep(d) \/ UserStep(d) \/ DeleteStep(d), ~TaskStep(d)
      PROVE  Within(inbox'[c])
  <2>1. CASE HandleFinished(d) \/ HandleProgress(d)
    <3>1. \/ inbox'[c] = inbox[c]
          \/ inbox[c] # <<>> /\ inbox'[c] = Tail(inbox[c])
      BY <1>0, <2>1 DEF HandleFinished, HandleProgress
    <3>2. inbox[c] \in Seq(Message)
      BY <1>0
    <3>3. QED  BY <3>1, <3>2, WithinKept
  <2>2. CASE UnregisterWindow(d)
    BY <1>0, <2>2, WithinKept DEF UnregisterWindow
  <2>3. CASE ~(HandleFinished(d) \/ HandleProgress(d) \/ UnregisterWindow(d))
    BY <1>3, <2>3
    DEF DialogStep, UserStep, DeleteStep, RegisterWindow, FilesAdded, NoFiles, AddFile, CountFile,
        StartProcessing, FilesStarted, NotifyOwnWindow, CancelReturns, WindowDereference,
        CancelClicked, Close, DeleteBegins, FilesCancelled, Deleted
  <2>4. QED  BY <2>1, <2>2, <2>3
<1>4. CASE UNCHANGED vars
  BY <1>4 DEF vars
<1>5. QED  BY <1>0, <1>1, <1>2, <1>3, <1>4 DEF Next, WorkerStep, Terminated, Threads

(* A thread reaches postProgress only with what it has computed there.     *)
LEMMA WhoPosts ==
  ASSUME TInv, [Next]_vars, NEW w \in Workers, pc'[w] = "postProgress"
  PROVE  \/ CountProgress(w) /\ UNCHANGED dialogVars
         \/ pc[w] = "postProgress" /\ arg'[w] = arg[w]
<1>0. /\ pc \in [Threads -> Labels] /\ Workers \subseteq Threads
      /\ Coordinators \subseteq Threads /\ w \notin Coordinators
  BY TaskAssumption DEF TInv, TypeOK, ThreadTypeOK, Threads
<1>1. ASSUME NEW th \in Threads, TaskStep(th) PROVE pc[w] = "postProgress" /\ arg'[w] = arg[w]
  BY <1>0, <1>1, TaskQuiet, OthersStay DEF Reading
<1>2. ASSUME NEW v \in Workers, CallbackStep(v), UNCHANGED dialogVars,
             ~(CountProgress(w) /\ UNCHANGED dialogVars)
      PROVE  pc[w] = "postProgress" /\ arg'[w] = arg[w]
  <2>1. CASE v # w
    BY <1>0, <1>2, <2>1, OthersStay
  <2>2. CASE v = w
    <3>1. ~(SendProgress(w) \/ Update(w) \/ FinishHash(w) \/ Advance(w))
      BY <1>0 DEF SendProgress, Update, FinishHash, Advance
    <3>2. ~(QueueEmpty(w) \/ AddToHashQueue(w) \/ SubmitWork(w))
      BY <1>0 DEF QueueEmpty, AddToHashQueue, SubmitWork
    <3>3. ~ \E t \in Tasks : \/ Dequeue(w, t) \/ ReadCompletedBadly(w, t)
                             \/ ReadCompleted(w, t) \/ BeginHash(w, t)
      BY <1>0 DEF Dequeue, ReadCompletedBadly, ReadCompleted, ReadArrives, BeginHash
    <3>4. QED  BY <1>2, <2>2, <3>1, <3>2, <3>3 DEF CallbackStep
  <2>3. QED  BY <2>1, <2>2
<1>3. ASSUME NEW d \in Coordinators, DialogStep(d) \/ UserStep(d) \/ DeleteStep(d), ~TaskStep(d)
      PROVE  pc[w] = "postProgress" /\ arg'[w] = arg[w]
  BY <1>0, <1>3, DialogQuiet
<1>4. CASE UNCHANGED vars
  BY <1>4 DEF vars
<1>5. QED  BY <1>0, <1>1, <1>2, <1>3, <1>4 DEF Next, WorkerStep, Terminated

LEMMA ProgressStep ==
  ASSUME TInv, OwnerInv, DigestInv, ProgressInv, [Next]_vars PROVE ProgressInv'
<1>0. Workers \subseteq Threads /\ \A t \in Tasks : Owner[t] \in Coordinators
  BY CoordinatorAssumption DEF Threads
<1>1. ASSUME NEW w \in Workers, CountProgress(w), UNCHANGED dialogVars
      PROVE  SizesTotal' /\ NotAdded' /\ Progressed' /\ (pc'[w] = "postProgress" => arg'[w] <= Resolution)
  BY <1>1, CountingStep
<1>2. ASSUME NEW w \in Workers, Advance(w), UNCHANGED dialogVars
      PROVE  SizesTotal' /\ NotAdded' /\ Progressed'
  BY <1>2, AdvancingStep
<1>3. ASSUME UNCHANGED <<size, sizeTotal, offset, progressed>>, \A t \in Tasks : Moving(t)' <=> Moving(t)
      PROVE  SizesTotal' /\ NotAdded' /\ Progressed'
  <2>1. \A t \in Tasks : Counts[t] = Counts'[t]
    BY <1>3 DEF Counts, Added, BlockSize
  <2>2. Counts' = Counts
    BY <2>1 DEF Counts
  <2>3. NotAdded'
    <3>1. SUFFICES ASSUME NEW t \in Tasks, pc'[Owner[t]] \in {"register", "addFiles"},
                          t \notin todo'[Owner[t]]
                   PROVE  size'[t] = 0
      BY DEF NotAdded
    <3>2. pc[Owner[t]] \in {"register", "addFiles"} /\ t \notin todo[Owner[t]]
      BY <1>0, <3>1, WhoAdds
    <3>3. QED  BY <1>3, <3>2 DEF ProgressInv, NotAdded
  <2>4. QED  BY <1>3, <2>2, <2>3 DEF ProgressInv, SizesTotal, Progressed, Owned
<1>4. SizesTotal' /\ NotAdded' /\ Progressed'
  BY <1>1, <1>2, <1>3, AddingStep, WhoProgresses
<1>5. \A w \in Workers : pc'[w] = "postProgress" => arg'[w] <= Resolution
  BY <1>1, WhoPosts DEF ProgressInv, InBar
<1>6. \A c \in Coordinators : Within(inbox'[c])
  BY WhatIsSent DEF ProgressInv, InBar, Within
<1>7. InBar'
  BY <1>5, <1>6 DEF InBar, Within
<1>8. QED  BY <1>4, <1>7 DEF ProgressInv

LEMMA ProgressInvariant ==
  Spec => [](TInv /\ OwnerInv /\ StageInv /\ DigestInv /\ ProgressInv)
  BY ProgressInit, ProgressStep, DigestInvariant, PTL DEF Spec

(* _size_progressed counts every block once that was hashed and not yet    *)
(* left behind, so the bar is never sent beyond its end, whatever fails or *)
(* is cancelled (Coordinator.cpp, FileProgressCallback).                   *)
THEOREM ProgressExactAlways == Spec => []ProgressExact
<1>1. ASSUME TInv, OwnerInv, DigestInv, ProgressInv, NEW c \in Coordinators
      PROVE  LET ahead == {t \in Owned(c) : \E w \in Workers :
                             /\ pc[w] \in {"postProgress", "advance"} /\ task[w] = t
                             /\ BlockSize(t) > 0}
             IN  /\ progressed[c] = SumFunctionOnSet(offset, Owned(c)) + Cardinality(ahead)
                 /\ progressed[c] <= sizeTotal[c]
                 /\ \A n \in DOMAIN inbox[c] : inbox[c][n].part <= Resolution
  <2> DEFINE ahead == {t \in Owned(c) : \E w \in Workers :
                         /\ pc[w] \in {"postProgress", "advance"} /\ task[w] = t
                         /\ BlockSize(t) > 0}
  <2>0. OffsetsKept /\ SizesTotal /\ Progressed /\ InBar
    BY <1>1 DEF DigestInv, ProgressInv
  <2>1. /\ IsFiniteSet(Owned(c)) /\ Naturally(offset, Owned(c)) /\ Owned(c) \subseteq Tasks
        /\ offset \in [Tasks -> Nat]
    BY <1>1, <2>0, CountsNat DEF TInv, TypeOK, TaskTypeOK
  <2>2. \A t \in Owned(c) : Counts[t] = offset[t] + IF t \in ahead THEN 1 ELSE 0
    BY <2>1 DEF Counts, Added, Moving, BlockSize
  <2>3. ahead \in SUBSET Owned(c)
    OBVIOUS
  <2> HIDE DEF ahead
  <2>4. SumFunctionOnSet(Counts, Owned(c)) = SumFunctionOnSet(offset, Owned(c)) + Cardinality(ahead)
    BY <2>1, <2>2, <2>3, SumCounts
  <2>5. progressed[c] = SumFunctionOnSet(offset, Owned(c)) + Cardinality(ahead)
    BY <2>0, <2>4 DEF Progressed
  <2>6. progressed[c] <= sizeTotal[c]
    BY <1>1, <2>0, ProgressBounded
  <2>7. QED  BY <2>0, <2>5, <2>6 DEF InBar, ahead
<1>2. ASSUME TInv, OwnerInv, DigestInv, ProgressInv PROVE ProgressExact
  BY <1>1, <1>2 DEF ProgressExact
<1>3. QED  BY <1>2, ProgressInvariant, PTL
=============================================================================
