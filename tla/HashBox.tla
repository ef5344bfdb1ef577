------------------------------ MODULE HashBox -------------------------------
(***************************************************************************)
(* HashBox (Hasher2.h): the owner of a context in aligned memory.  A file  *)
(* task has one per algorithm and move-assigns a context to it.  This      *)
(* forgets what the box held, so it is right only for an empty one, which  *)
(* is what FileHashTask's constructor does; every other sequence of calls  *)
(* on a box that was constructed is allowed here.                          *)
(***************************************************************************)
EXTENDS Naturals

CONSTANTS
  Boxes,       \* places for a box: variables, array elements, temporaries
  Memory,      \* blocks that _aligned_malloc may return
  AlgorithmNames

None == "none"
ASSUME HashBoxAssumption == None \notin Memory \cup AlgorithmNames

VARIABLES
  box,    \* _algorithm and _ctx of the boxes that exist
  heap,   \* the algorithm whose context is in a block, None if the block is free
  freed,  \* whether a block was freed that held no context
  misfed     \* whether a context was given to another algorithm's functions

boxVars == <<box, heap, freed, misfed>>

Empty == [algorithm |-> None, ctx |-> None]
Exists(b) == b \in DOMAIN box
HashBoxInit == box = << >> /\ heap = [m \in Memory |-> None] /\ freed = FALSE /\ misfed = FALSE

With(b, value) == [x \in DOMAIN box \cup {b} |-> IF x = b THEN value ELSE box[x]]
Allocated(a, m) == [algorithm |-> a, ctx |-> m]

Default(b) == /\ ~Exists(b) /\ box' = With(b, Empty)
              /\ UNCHANGED <<heap, freed, misfed>>

(* HashBox(algorithm, params), by HashAlgorithm::MakeContext               *)
Construct(b, a) ==
  /\ ~Exists(b)
  /\ \E m \in Memory : /\ heap[m] = None
                       /\ box' = With(b, Allocated(a, m))
                       /\ heap' = [heap EXCEPT ![m] = a]
  /\ UNCHANGED <<freed, misfed>>

(* _delete_fn and _aligned_free, neither of them for a null pointer.       *)
Release(c) ==
  /\ heap' = IF c.ctx = None THEN heap ELSE [heap EXCEPT ![c.ctx] = None]
  /\ freed' = (freed \/ (c.ctx # None /\ heap[c.ctx] = None))
  /\ misfed' = (misfed \/ (c.ctx # None /\ heap[c.ctx] # c.algorithm))

Destroy(b) ==
  /\ Exists(b)
  /\ box' = [x \in DOMAIN box \ {b} |-> box[x]]
  /\ Release(box[b])

Given_Kept(from) == box[from]
Given(from) == Empty

MoveConstruct(to, from) ==
  /\ ~Exists(to) /\ Exists(from)
  /\ box' = [x \in DOMAIN box \cup {to} |->
               IF x = to THEN box[from] ELSE IF x = from THEN Given(from) ELSE box[x]]
  /\ UNCHANGED <<heap, freed, misfed>>

MoveAssign(to, from) ==
  /\ Exists(to) /\ Exists(from) /\ to # from
  /\ box[to].ctx = None  \* the callers', not the operator's
  /\ box' = [box EXCEPT ![to] = box[from], ![from] = Given(from)]
  /\ UNCHANGED <<heap, freed, misfed>>

(* Releases what the box has, then allocates, maybe the same block.        *)
Initialize(b, a) ==
  /\ Exists(b)
  /\ \E m \in Memory :
       LET old == box[b] IN
       /\ m = old.ctx \/ heap[m] = None
       /\ box' = With(b, Allocated(a, m))
       /\ heap' = [x \in Memory |-> IF x = m THEN a ELSE IF x = old.ctx THEN None ELSE heap[x]]
       /\ freed' = (freed \/ (old.ctx # None /\ heap[old.ctx] = None))
       /\ misfed' = (misfed \/ (old.ctx # None /\ heap[old.ctx] # old.algorithm))

(* Update, Finish, GetOutputSize, for a box that IsInitialized.            *)
Use(b) ==
  /\ Exists(b) /\ box[b].ctx # None
  /\ misfed' = (misfed \/ heap[box[b].ctx] # box[b].algorithm)
  /\ UNCHANGED <<box, heap, freed>>

HashBoxNext == \/ \E b \in Boxes : Default(b) \/ Destroy(b) \/ Use(b)
               \/ \E b \in Boxes, a \in AlgorithmNames : Construct(b, a) \/ Initialize(b, a)
               \/ \E to, from \in Boxes : MoveConstruct(to, from) \/ MoveAssign(to, from)
HashBoxSpec == HashBoxInit /\ [][HashBoxNext]_boxVars
-----------------------------------------------------------------------------
BoxTypeOK ==
  /\ DOMAIN box \subseteq Boxes
  /\ \A b \in DOMAIN box :
       box[b] \in [algorithm : AlgorithmNames \cup {None}, ctx : Memory \cup {None}]
  /\ heap \in [Memory -> AlgorithmNames \cup {None}]
  /\ freed \in BOOLEAN /\ misfed \in BOOLEAN

(* After any sequence of moves every context is owned by exactly one box,  *)
(* which knows its algorithm, and every box without a context is empty; so *)
(* no context is leaked, freed twice, used after that or passed to another *)
(* algorithm's functions (HashBox's moves, Initialize and destructor).     *)
OwnedOnce ==
  /\ \A m \in Memory : heap[m] # None => \E b \in DOMAIN box : box[b].ctx = m
  /\ \A b, c \in DOMAIN box : box[b].ctx = box[c].ctx /\ box[b].ctx # None => b = c
  /\ \A b \in DOMAIN box : IF box[b].ctx = None THEN box[b] = Empty
                           ELSE heap[box[b].ctx] = box[b].algorithm
  /\ ~freed /\ ~misfed
=============================================================================
