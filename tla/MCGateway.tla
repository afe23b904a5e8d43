---------------------------- MODULE MCGateway ----------------------------
EXTENDS Gateway

CONSTANTS a1, a2, m1, m2, m3, w1

\* Two chats; m1 and m2 are messages of one of them, m3 is one of the other.
MCChatOf == [m \in Msgs |-> IF m = m3 THEN a2 ELSE a1]

\* Either chat may be bound to either workspace; with OneBound the first one
\* has a fixed workspace, which covers every case up to renaming.
AllBound == [a \in Actors |-> Workspaces]
OneBound == [a \in Actors |-> IF a = a1 THEN {w1} ELSE Workspaces]

MCSymmetry == Permutations({m1, m2})
=============================================================================
