---------------------------- MODULE MCTaskBilling ----------------------------
(* Instances of TaskBilling for TLC.                                        *)
EXTENDS TaskBilling, TLC

AllVideo == [t \in Tasks |-> "video"]
VideoAndSuno ==
    LET v == CHOOSE t \in Tasks : TRUE
    IN  [t \in Tasks |-> IF t = v THEN "video" ELSE "suno"]
AllLive == [t \in Tasks |-> "live"]

Symmetry == Permutations(Pollers)

=============================================================================
