------------------------------ MODULE RunSlot ------------------------------
(***************************************************************************)
(* What the owned-run slot promises the rest of the application, with no   *)
(* threads, channels or processes: at most one run is live, every run has  *)
(* an identity of its own, and a run that ends is reported killed exactly  *)
(* when its process group was signalled.                                   *)
(***************************************************************************)
EXTENDS Naturals

VARIABLES
  slot,       \* how the current run stands
  id,         \* the newest identity handed out, 0 before the first
  signalled   \* the current run's process group was signalled

vars == <<slot, id, signalled>>

Init == slot = "free" /\ id = 0 /\ signalled = FALSE

Launch == /\ slot # "live"
          /\ slot' = "live" /\ id' = id + 1 /\ signalled' = FALSE

FailLaunch == slot = "live" /\ ~signalled /\ slot' = "failed" /\ UNCHANGED <<id, signalled>>

Signal == slot = "live" /\ ~signalled /\ signalled' = TRUE /\ UNCHANGED <<slot, id>>

End == /\ slot = "live"
       /\ slot' = IF signalled THEN "killed" ELSE "done"
       /\ UNCHANGED <<id, signalled>>

Forget == slot \in {"done", "killed", "failed"} /\ slot' = "free" /\ UNCHANGED <<id, signalled>>

Next == Launch \/ FailLaunch \/ Signal \/ End \/ Forget
Spec == Init /\ [][Next]_vars
=============================================================================
