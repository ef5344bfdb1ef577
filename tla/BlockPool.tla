------------------------------ MODULE BlockPool ------------------------------
(***************************************************************************)
(* The budget of 2 MB read blocks that every FileHashTask of the process   *)
(* shares (FileHashTask.cpp:22-56).  s_allocations_remaining is an atomic  *)
(* integer that is decremented before VirtualAlloc is tried and            *)
(* incremented again when the attempt failed, so for a moment it is lower  *)
(* than the number of free slots, and may be negative.                     *)
(*                                                                         *)
(* The operators are steps of a thread: the module that models the threads *)
(* conjoins them with the movement of the thread's program counter.        *)
(***************************************************************************)
EXTENDS Integers, FiniteSets

CONSTANTS Blocks,          \* addresses VirtualAlloc may return
          NoBlock,         \* nullptr
          MaxAllocations,  \* k_max_allocations, 512 in the code
          Faults           \* what the environment may do wrong, see FaultKinds

(***************************************************************************)
(* "open"    a file cannot be opened (constructor sets _error)             *)
(* "commit"  VirtualAlloc returns nullptr although the budget allows       *)
(* "busy"    ReadFile: ERROR_INVALID_USER_BUFFER, ERROR_NOT_ENOUGH_MEMORY  *)
(* "read"    ReadFile fails with another error                             *)
(* "disk"    a read that was started completes with an error               *)
(* "release" the property sheet releases the page while its dialog runs    *)
(***************************************************************************)
FaultKinds == {"open", "commit", "busy", "read", "disk", "release"}

ASSUME PoolAssumption ==
  /\ NoBlock \notin Blocks
  /\ MaxAllocations \in Nat \ {0}
  /\ Faults \subseteq FaultKinds

VARIABLES remaining,  \* s_allocations_remaining
          live        \* the blocks that are committed

poolVars == <<remaining, live>>

PoolTypeOK ==
  /\ remaining \in Int
  /\ live \subseteq Blocks

PoolInit ==
  /\ remaining = MaxAllocations
  /\ live = {}

(* BlockTryAllocate, both of whose outcomes decrement first. *)
Allocate(b) ==
  /\ remaining - 1 >= 0
  /\ b \in Blocks \ live
  /\ remaining' = remaining - 1
  /\ live' = live \cup {b}

AllocateFails ==
  /\ remaining - 1 < 0 \/ "commit" \in Faults
  /\ remaining' = remaining - 1
  /\ UNCHANGED live

(* ... and the increment that undoes a failed attempt. *)
GiveBack ==
  /\ remaining' = remaining + 1
  /\ UNCHANGED live

(* BlockFree, and its callers' "if (reuse_block) BlockFree(reuse_block)". *)
BlockFree(b) ==
  /\ live' = live \ {b}
  /\ remaining' = remaining + 1

(* Seeded faults: the null check is missing; the block is not freed. *)
FreeUnlessNull_Unchecked(b) == BlockFree(b)

FreeUnlessNull_Leak(b) == UNCHANGED poolVars

FreeUnlessNull(b) ==
  IF b = NoBlock THEN UNCHANGED poolVars ELSE BlockFree(b)
=============================================================================
