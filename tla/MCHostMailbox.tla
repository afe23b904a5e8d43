--------------------------- MODULE MCHostMailbox ---------------------------
EXTENDS HostMailbox, TLC

\* The liveness run spends part of the bounds before it starts: a failure beside the host's
\* own turns, or a turn of the user with a session change.
LiveInit ==
    /\ NewHost
    /\ \/ prompts = MaxPrompts /\ faults = 0 /\ generation = MaxGenerations
       \/ prompts = 0 /\ faults = MaxFaults /\ generation = 1

LiveSpec == LiveInit /\ [][Next]_vars /\ Fairness

DeliverySymmetry == Permutations(Deliveries)
=============================================================================
