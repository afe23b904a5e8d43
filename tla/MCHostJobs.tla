------------------------------ MODULE MCHostJobs ------------------------------
(***************************************************************************)
(* One TLC run for the components of HostJobs.                             *)
(***************************************************************************)
EXTENDS HostJobs

CONSTANTS g1, g2, g3, c1, l1

\* One change of each kind.
MCKind == [c \in {"a", "b", "c"} |-> CASE c = "a" -> "open" [] c = "b" -> "fork"
                                       [] OTHER -> "new"]
===============================================================================
