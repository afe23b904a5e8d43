--------------------------- MODULE CommandInvocation ---------------------------
(***************************************************************************)
(* One invocation of an extension's command, and the session changes its   *)
(* goroutines ask for while it lives: beginMutation, the done it returns,  *)
(* and invalidate when the handler has returned                            *)
(* (internal/cli/tui_bridge.go, commandInvocation).                        *)
(***************************************************************************)
EXTENDS Naturals, FiniteSets

CONSTANTS Callers      \* goroutines of the handler that change the session

VARIABLES
  valid,               \* i.active
  opCancelled,         \* the context of its operations is cancelled
  slot,                \* tokens in mutCh
  wg,                  \* mutations invalidate waits for
  at,                  \* where each caller is
  handler              \* the handler: "runs", "waits" in invalidate, "over"

vars == <<valid, opCancelled, slot, wg, at, handler>>

Init ==
  /\ valid = TRUE /\ opCancelled = FALSE /\ slot = 1 /\ wg = 0
  /\ at = [g \in Callers |-> "idle"] /\ handler = "runs"

Goto(g, s) == at' = [at EXCEPT ![g] = s]

\* The first look, under i.mu.
BeginMutation(g) ==
  /\ at[g] = "idle"
  /\ Goto(g, IF valid THEN "queued" ELSE "refused")
  /\ UNCHANGED <<valid, opCancelled, slot, wg, handler>>

\* The token, or the end of the operation, or of the caller's own context.
TakeSlot(g) ==
  /\ at[g] = "queued" /\ slot = 1
  /\ slot' = 0 /\ Goto(g, "granted")
  /\ UNCHANGED <<valid, opCancelled, wg, handler>>

GiveUp(g) ==
  /\ at[g] = "queued" /\ opCancelled
  /\ Goto(g, "refused")
  /\ UNCHANGED <<valid, opCancelled, slot, wg, handler>>

SignalEnds(g) ==
  /\ at[g] = "queued" /\ Goto(g, "refused")
  /\ UNCHANGED <<valid, opCancelled, slot, wg, handler>>

\* MUTANT of MayProceed: no second look with the token in hand.
MutantMayProceed(g) == TRUE
MayProceed(g) == valid /\ ~opCancelled

\* The second look, with the token, under i.mu.
Proceed(g) ==
  /\ at[g] = "granted"
  /\ \/ MayProceed(g) /\ wg' = wg + 1 /\ Goto(g, "changing") /\ UNCHANGED slot
     \/ slot' = 1 /\ Goto(g, "refused") /\ UNCHANGED wg   \* or its context ended
  /\ UNCHANGED <<valid, opCancelled, handler>>

Done(g) ==
  /\ at[g] = "changing"
  /\ slot' = 1 /\ wg' = wg - 1 /\ Goto(g, "idle")
  /\ UNCHANGED <<valid, opCancelled, handler>>

Invalidate ==
  /\ handler = "runs" /\ handler' = "waits"
  /\ valid' = FALSE
  /\ UNCHANGED <<opCancelled, slot, wg, at>>

CancelOperations ==
  /\ handler = "waits" /\ ~opCancelled
  /\ opCancelled' = TRUE
  /\ UNCHANGED <<valid, slot, wg, at, handler>>

InvalidateReturns ==
  /\ handler = "waits" /\ opCancelled /\ wg = 0
  /\ handler' = "over"
  /\ UNCHANGED <<valid, opCancelled, slot, wg, at>>

Caller(g) == TakeSlot(g) \/ GiveUp(g) \/ Proceed(g) \/ Done(g)
Next ==
  \/ \E g \in Callers : BeginMutation(g) \/ SignalEnds(g) \/ Caller(g)
  \/ Invalidate \/ CancelOperations \/ InvalidateReturns

Fair == /\ \A g \in Callers : WF_vars(Caller(g))
        /\ WF_vars(CancelOperations) /\ WF_vars(InvalidateReturns)
Spec == Init /\ [][Next]_vars /\ Fair

-----------------------------------------------------------------------------
(***************************************************************************)
(* No session change of a command runs once invalidate has returned, never *)
(* two at a time, and the one token is neither lost nor doubled on any way *)
(* out of beginMutation.                                                   *)
(***************************************************************************)
ChangesWithin ==
  /\ handler = "over" => \A g \in Callers : at[g] # "changing"
  /\ slot + Cardinality({g \in Callers : at[g] \in {"granted", "changing"}}) = 1
  /\ wg = Cardinality({g \in Callers : at[g] = "changing"})

(***************************************************************************)
(* A caller that waits for the token gets an answer once the handler has   *)
(* returned, and invalidate gets out.                                      *)
(***************************************************************************)
InvalidationEnds ==
  /\ handler = "waits" ~> handler = "over"
  /\ \A g \in Callers : (at[g] = "queued" /\ ~valid) ~> at[g] # "queued"
===============================================================================
