---------------------------- MODULE VerifiedOnce ----------------------------
(***************************************************************************)
(* What the proof pipeline promises about one kind of thing after another: *)
(* what was asked for is anchored once, what is anchored is recorded once, *)
(* an outcome never before the dispute it closes, and what the books call  *)
(* verified has been recorded.  The books may lag behind the chain and may *)
(* forget; they never run ahead of it.                                     *)
(***************************************************************************)
CONSTANTS
    Jobs,
    Before      \* the jobs that must be recorded before a job is

VARIABLES
    stage,      \* how far each job has come
    believed    \* the jobs the books call verified

Stages == {"unknown", "asked", "anchored", "recorded"}

Init ==
    /\ stage = [j \in Jobs |-> "unknown"]
    /\ believed = {}

Move(j, from, to) ==
    /\ stage[j] = from
    /\ stage' = [stage EXCEPT ![j] = to]
    /\ UNCHANGED believed

Ask(j) == Move(j, "unknown", "asked")

Anchor(j) ==
    /\ \A k \in Before[j] : stage[k] \in {"anchored", "recorded"}
    /\ Move(j, "asked", "anchored")

Record(j) ==
    /\ \A k \in Before[j] : stage[k] = "recorded"
    /\ Move(j, "anchored", "recorded")

Believe(j) ==
    /\ stage[j] = "recorded"
    /\ believed' = believed \cup {j}
    /\ UNCHANGED stage

Forget(j) ==
    /\ believed' = believed \ {j}
    /\ UNCHANGED stage

Next == \E j \in Jobs :
            Ask(j) \/ Anchor(j) \/ Record(j) \/ Believe(j) \/ Forget(j)

Spec == Init /\ [][Next]_<<stage, believed>>
=============================================================================
