-------------------------- MODULE MCEventProcessing --------------------------
(* Small instances of EventProcessing for TLC. *)
EXTENDS EventProcessing, TLC

CONSTANTS m1, m2, m3, k1, k2

(* Two messages of one event (EventBridge delivers at least once). *)
OneEventTwice == [m \in Msgs |-> k1]

(* Two messages of one event and a message of another. *)
TwoEvents == [m \in Msgs |-> IF m = m3 THEN k2 ELSE k1]

WorkerSymmetry == Permutations(Workers)
==============================================================================
