----------------------------- MODULE DelegatedRuns -----------------------------
(***************************************************************************)
(* Delegation to agents (internal/agents): a turn calls the tool           *)
(* "subagent", which runs an agent of the catalog in a session file of its *)
(* own; that agent may call the tool again.  A child sees the tools its    *)
(* definition names, cut down to those its parent sees now; the tool       *)
(* "subagent" it sees is one built for it, which carries its depth and its *)
(* ancestry.  Tools run one at a time, so the runs under way form a stack. *)
(* Extensions change the root's active tools, and replace its "subagent",  *)
(* at any time.                                                            *)
(***************************************************************************)
EXTENDS Integers, Sequences, FiniteSets

CONSTANTS
  Agents,      \* the names in the catalog
  ToolsOf,     \* definition.Tools of an agent; AllTools when ToolsSet is false
  AllTools,
  Offered,     \* the tools the root's registry holds, "subagent" among them
  DepthLimit,  \* Dependencies.DepthLimit
  MaxRuns,     \* bound: session files
  MaxFaults,   \* bound: failing file operations
  MaxToggles   \* bound: changes of the root's tools

VARIABLES
  active,      \* the root's active tools
  ours,        \* the root's "subagent" is a *agents.Tool
  stack,       \* the runs under way, the innermost last
  cancelled,   \* the context of the turn
  files,       \* session files on disk: those with their marker, by run
  handles,     \* runs whose session is open
  started,     \* runs whose turn was started
  unremoved,   \* runs whose file could not be removed
  runs, faults, toggles

vars == <<active, ours, stack, cancelled, files, handles, started, unremoved, runs,
          faults, toggles>>

Top == stack[Len(stack)]
Set(field, value) == [stack EXCEPT ![Len(stack)][field] = value]
Pop == SubSeq(stack, 1, Len(stack) - 1)

Allows(agent, tool) == ToolsOf[agent] = AllTools \/ tool \in ToolsOf[agent]

\* MUTANT of SubagentView: the parent's tool is handed down as it is.
MutantSubagentView(i, stored) == stored

\* Whose "subagent" run i gets for the one its parent gets (-1: an extension's).
SubagentView(i, stored) == IF stored < 0 THEN stored ELSE i

\* GetActive of the view of run i, 0 being the root's catalog.  For "subagent",
\* "by" is the run the tool was built for.
GetActive(i, tool) ==
  LET view[j \in 0..Len(stack)] ==
        IF j = 0
          THEN [ok |-> tool \in active, by |-> IF tool = "subagent" /\ ~ours THEN -1 ELSE 0]
        ELSE IF ~Allows(stack[j].name, tool) THEN [ok |-> FALSE, by |-> j]
        ELSE LET above == view[stack[j].view]
             IN [ok |-> above.ok,
                 by |-> IF tool = "subagent" THEN SubagentView(j, above.by) ELSE above.by]
  IN view[i]

\* newNestedTool: the Parent that the tool built for run i hands to Run.
ParentOf(i) ==
  IF i = 0 THEN [depth |-> 0, ancestry |-> <<>>, view |-> 0]
  ELSE [depth |-> stack[i].depth, ancestry |-> Append(stack[i].ancestry, stack[i].name),
        view |-> i]

Enter(name, parent) ==
  stack' = Append(stack, [name |-> name, depth |-> parent.depth + 1,
                          ancestry |-> parent.ancestry, view |-> parent.view,
                          at |-> "check", run |-> 0, overflowed |-> FALSE,
                          compactions |-> 0])

\* runHostSubagent, or the command /agent: a run asked for by the root.
Ask(name) ==
  /\ stack = <<>> /\ runs < MaxRuns
  /\ cancelled' = FALSE
  /\ Enter(name, ParentOf(0))
  /\ UNCHANGED <<active, ours, files, handles, started, unremoved, runs, faults, toggles>>

\* Run returns: deferred close, and the parent's tool call has its result.
Return ==
  /\ stack' = Pop
  /\ handles' = handles \ {Top.run}

\* The depth and the ancestry admit the run.
Admitted(name) ==
  /\ Top.depth <= DepthLimit
  /\ \A k \in DOMAIN Top.ancestry : Top.ancestry[k] # name

\* Run up to buildTools: the checks, and the client factory, which may fail.
Check ==
  /\ stack # <<>> /\ Top.at = "check"
  /\ \/ /\ ~cancelled /\ Admitted(Top.name)
        /\ stack' = Set("at", "tools") /\ UNCHANGED handles
     \/ Return
  /\ UNCHANGED <<active, ours, cancelled, files, started, unremoved, runs, faults, toggles>>

\* buildTools: the tools a definition names must be active for the parent.
BuildTools ==
  /\ stack # <<>> /\ Top.at = "tools"
  /\ IF /\ ~cancelled
        /\ ToolsOf[Top.name] # AllTools =>
             \A t \in ToolsOf[Top.name] : GetActive(Top.view, t).ok
       THEN stack' = Set("at", "create") /\ UNCHANGED handles
       ELSE Return
  /\ UNCHANGED <<active, ours, cancelled, files, started, unremoved, runs, faults, toggles>>

\* newChildSession: the file is created, its handle open.
Create ==
  /\ stack # <<>> /\ Top.at = "create"
  /\ \/ /\ ~cancelled /\ runs < MaxRuns
        /\ runs' = runs + 1
        /\ files' = [f \in DOMAIN files \union {runs'} |-> f \in DOMAIN files /\ files[f]]
        /\ handles' = handles \union {runs'}
        /\ stack' = [stack EXCEPT ![Len(stack)].at = "mark", ![Len(stack)].run = runs']
     \/ Return /\ UNCHANGED <<files, runs>>
  /\ UNCHANGED <<active, ours, cancelled, started, unremoved, faults, toggles>>

\* discardChildCandidate: close, and remove the file, which may fail too.
Discard ==
  /\ Return
  /\ \/ files' = [f \in DOMAIN files \ {Top.run} |-> files[f]] /\ UNCHANGED unremoved
     \/ /\ faults + 1 < MaxFaults
        /\ unremoved' = unremoved \union {Top.run} /\ UNCHANGED files

\* The candidate is marked, closed and opened again; every step may fail.
Prepare(from, to) ==
  /\ stack # <<>> /\ Top.at = from
  /\ \/ /\ stack' = Set("at", to)
        /\ files' = IF from = "mark" THEN [files EXCEPT ![Top.run] = TRUE] ELSE files
        /\ handles' = IF from = "close" THEN handles \ {Top.run}
                      ELSE IF from = "open" THEN handles \union {Top.run} ELSE handles
        /\ started' = IF to = "turn" THEN started \union {Top.run} ELSE started
        /\ UNCHANGED <<faults, unremoved>>
     \/ /\ faults < MaxFaults /\ faults' = faults + 1
        /\ Discard /\ UNCHANGED started
  /\ UNCHANGED <<active, ours, cancelled, runs, toggles>>

Mark == Prepare("mark", "close")
Close == Prepare("close", "open")
Open == Prepare("open", "turn")

\* The child's turn calls "subagent": its own tool when it may, and an error
\* result, or an extension's tool, otherwise.
Delegate(name) ==
  /\ stack # <<>> /\ Top.at = "turn" /\ ~cancelled
  /\ LET tool == GetActive(Len(stack), "subagent")
     IN tool.ok /\ tool.by >= 0 /\ Enter(name, ParentOf(tool.by))
  /\ UNCHANGED <<active, ours, cancelled, files, handles, started, unremoved, runs, faults,
                 toggles>>

\* The preparer compacts the child's context before a request.
Compact ==
  /\ stack # <<>> /\ Top.at = "turn" /\ Top.compactions = 0
  /\ stack' = Set("compactions", 1)
  /\ UNCHANGED <<active, ours, cancelled, files, handles, started, unremoved, runs, faults,
                 toggles>>

\* runChild: a first overflow forces the safety compaction and continues the
\* turn from the file; another one, and any other end, leaves the turn.
TurnEnds ==
  /\ stack # <<>> /\ Top.at = "turn"
  /\ \/ /\ ~Top.overflowed /\ ~cancelled /\ stack' = Set("overflowed", TRUE)
     \/ stack' = Set("at", "drain")
  /\ UNCHANGED <<active, ours, cancelled, files, handles, started, unremoved, runs, faults,
                 toggles>>

\* Run after runChild: the preparer's compactions are appended, the answer is
\* bounded, and the session closed on the way out.
Drain ==
  /\ stack # <<>> /\ Top.at = "drain"
  /\ IF Top.compactions > 0
       THEN stack' = Set("compactions", 0) /\ UNCHANGED handles
       ELSE Return
  /\ UNCHANGED <<active, ours, cancelled, files, started, unremoved, runs, faults, toggles>>

Cancel ==
  /\ stack # <<>> /\ ~cancelled /\ cancelled' = TRUE
  /\ UNCHANGED <<active, ours, stack, files, handles, started, unremoved, runs, faults, toggles>>

\* An extension changes the active tools, or registers or removes a "subagent".
Toggle ==
  /\ toggles < MaxToggles /\ toggles' = toggles + 1
  /\ \/ \E t \in Offered : active' = (active \ {t}) \union ({t} \ active)
        /\ UNCHANGED ours
     \/ ours' = ~ours /\ UNCHANGED active
  /\ UNCHANGED <<stack, cancelled, files, handles, started, unremoved, runs, faults>>

Init ==
  /\ active = Offered /\ ours = TRUE /\ stack = <<>> /\ cancelled = FALSE
  /\ files = <<>> /\ handles = {} /\ started = {} /\ unremoved = {}
  /\ runs = 0 /\ faults = 0 /\ toggles = 0

Next ==
  \/ \E name \in Agents : Ask(name) \/ Delegate(name)
  \/ Check \/ BuildTools \/ Create \/ Mark \/ Close \/ Open
  \/ Compact \/ TurnEnds \/ Drain \/ Cancel \/ Toggle

Spec == Init /\ [][Next]_vars
-----------------------------------------------------------------------------
\* A run knows the runs it stands under: its depth and its ancestry are those
\* of the stack, whatever happened to the root's "subagent" since, so that no
\* agent runs under itself and none below the limit.
Lineage ==
  \A i \in DOMAIN stack :
    /\ stack[i].depth = i
    /\ stack[i].ancestry = [k \in 1..(i - 1) |-> stack[k].name]
    /\ stack[i].at # "check" =>
         /\ i <= DepthLimit
         /\ \A k \in 1..(i - 1) : stack[k].name # stack[i].name

\* A run can call no tool that the root has inactive now or that the definition
\* of a run above it, or its own, leaves out.
ToolsContained ==
  \A i \in DOMAIN stack, t \in Offered :
    GetActive(i, t).ok =>
      t \in active /\ \A k \in 1..i : Allows(stack[k].name, t)

\* Session files: the open handles are those of runs between creation and their
\* return, a turn starts only in a marked file, and a start that failed leaves
\* no file behind unless its removal failed as well.
SessionsOwned ==
  /\ handles = {stack[i].run : i \in {j \in DOMAIN stack :
                                        stack[j].at \in {"mark", "close", "turn", "drain"}}}
  /\ \A f \in DOMAIN files :
       \/ f \in started /\ files[f]
       \/ f \in unremoved
       \/ \E i \in DOMAIN stack : stack[i].run = f
  /\ started \subseteq DOMAIN files

\* Delegated runs keep their lineage, their tools and their session files.
DelegationSafe == Lineage /\ ToolsContained /\ SessionsOwned
=============================================================================
