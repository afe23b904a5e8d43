------------------------------ MODULE MCHostData ------------------------------
(***************************************************************************)
(* One TLC run for the components of HostData.                             *)
(***************************************************************************)
EXTENDS HostData

CONSTANTS p1, p2, r1, r2, t1, t2

\* "b" needs "a".
MCDeps == [q \in {"a", "b"} |-> IF q = "b" THEN {"a"} ELSE {}]

\* An agent that may do all, one that only delegates, and one between them.
MCToolsOf ==
  [n \in {"a", "b", "c"} |-> CASE n = "a" -> {"subagent", "x", "y"}
                               [] n = "b" -> {"subagent"}
                               [] OTHER -> {"x", "subagent"}]
===============================================================================
