---------------------------- MODULE MCHostDrivers ----------------------------
(***************************************************************************)
(* The host mailbox under both of its drivers: the TUI, whose worker runs  *)
(* the jobs one by one and may bind another session, and the line driver,  *)
(* whose jobs run beside the user's turns.  Init picks the driver.         *)
(***************************************************************************)
EXTENDS HostMailbox, TLC

VARIABLE driver

Line == INSTANCE HostMailbox WITH Serial <- FALSE, MaxGenerations <- 1

DriversInit == Init /\ driver \in {"tui", "line"}

DriversNext ==
  /\ UNCHANGED driver
  /\ \/ driver = "tui" /\ Next
     \/ driver = "line" /\ Line!Next

DriversSpec == DriversInit /\ [][DriversNext]_<<vars, driver>>

DeliverySymmetry == Permutations(Deliveries)
=============================================================================
