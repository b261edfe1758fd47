---------------------------- MODULE MersiBudget ----------------------------
(***************************************************************************)
(* The system under a number of requests: cores, prefetchers, the DMA      *)
(* device and other lines may disturb the line MaxRequests times, or       *)
(* without a bound.  What a finite number starts must come to an end.      *)
(***************************************************************************)
EXTENDS MersiThreeLevel

CONSTANT MaxRequests

Unbounded == -1

ASSUME BudgetAssumption == MaxRequests \in Nat \cup {Unbounded}

VARIABLE left   \* the requests still to come, or Unbounded

budgetVars == <<vars, left>>

BudgetInit == Init /\ left = MaxRequests

(* Every buffer is empty and no controller is in a transient state. *)
Quiet ==
    /\ net = {} /\ waiting = {}
    /\ \A c \in Core : /\ up[c] = <<>> /\ down[c] = <<>> /\ held[c] = <<>>
                       /\ l0[c].st \in {"I", "S", "E", "M"}
                       /\ l1[c].st \in {"I", "S", "SS", "E", "EE", "M", "MM"}
    /\ \A k \in Cluster : inv[k] = 0 /\ l2[k].st \in {"NP", "SS", "M", "MT"}
    /\ dir.st \in {"I", "M"} /\ memq = Idle /\ dma = "READY"

(* The end of a behaviour; anything else without a next step is stuck. *)
Rest == left = 0 /\ Quiet /\ UNCHANGED budgetVars

Spend ==
    /\ left # 0
    /\ left' = IF left = Unbounded THEN left ELSE left - 1

BudgetNext ==
    \/ Spend /\ Request
    \/ React /\ UNCHANGED left
    \/ Rest

BudgetSpec == BudgetInit /\ [][BudgetNext]_budgetVars

(* Some ready in-port is served: wakeup() runs while a message is ready,    *)
(* the network delivers and memory answers.                                 *)
FairBudgetSpec == BudgetSpec /\ WF_budgetVars(React /\ UNCHANGED left)

(* Once the requests stop, every miss, upgrade, writeback, eviction and     *)
(* invalidation they started completes: no stalled message is left asleep   *)
(* and no two controllers wait for each other.                              *)
AllSettles == <>[]Quiet
=============================================================================
