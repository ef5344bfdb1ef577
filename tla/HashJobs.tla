------------------------------ MODULE HashJobs ------------------------------
(***************************************************************************)
(* What a window may rely on when it hands files to a Coordinator, with    *)
(* nothing said of threads, blocks, queues or work items: every file is    *)
(* started at most once and gets one verdict that never changes, "hashed"  *)
(* only with the complete digest; and a coordinator disappears only while  *)
(* none of its files is being worked on.                                   *)
(***************************************************************************)
CONSTANTS Coordinators, Tasks, Owner

VARIABLES verdict,  \* per file: "waiting", "running", "hashed" or "failed"
          exists    \* per coordinator: not destroyed yet

jobVars == <<verdict, exists>>

Init ==
  /\ verdict = [t \in Tasks |-> "waiting"]
  /\ exists = [c \in Coordinators |-> TRUE]

Start(t) ==
  /\ exists[Owner[t]]
  /\ verdict[t] = "waiting"
  /\ verdict' = [verdict EXCEPT ![t] = "running"]
  /\ UNCHANGED exists

Decide(t) ==
  /\ exists[Owner[t]]
  /\ verdict[t] = "running"
  /\ \E v \in {"hashed", "failed"} : verdict' = [verdict EXCEPT ![t] = v]
  /\ UNCHANGED exists

Destroy(c) ==
  /\ exists[c]
  /\ \A t \in Tasks : Owner[t] = c => verdict[t] # "running"
  /\ exists' = [exists EXCEPT ![c] = FALSE]
  /\ UNCHANGED verdict

Next ==
  \/ \E t \in Tasks : Start(t) \/ Decide(t)
  \/ \E c \in Coordinators : Destroy(c)

Spec == Init /\ [][Next]_jobVars
=============================================================================
