----------------------------- MODULE SessionTree -----------------------------
(***************************************************************************)
(* What a session file promises to the rest of the program: a tree of      *)
(* entries, each hanging from an earlier one or from the root, in which an *)
(* entry whose append was acknowledged, and everything it hangs from,      *)
(* stays.  Entries that were not acknowledged may appear and disappear.    *)
(* SessionLog shows that the file, its lock and its recovery implement it. *)
(***************************************************************************)
EXTENDS Naturals

Root == 0               \* the parent of a first entry; entries are 1, 2, ...

VARIABLES tree,         \* the readable entries: pairs of an entry and its parent
          acked         \* the entries whose append was acknowledged

vars == <<tree, acked>>

TreeInit == tree = {} /\ acked = {}

Entries(t) == {link[1] : link \in t}

\* A new entry; an acknowledged one hangs from a readable entry.
Add(old, new) ==
  \E link \in new \ old :
    /\ link[1] \notin Entries(old) /\ new = old \cup {link}
    /\ \/ acked' = acked
       \/ acked' = acked \cup {link[1]} /\ link[2] \in Entries(old) \cup {Root}

\* Only entries nothing acknowledged depends on are lost.
Lose(old, new) ==
  /\ new \subseteq old /\ acked \subseteq Entries(new)
  /\ \A link \in new : link[2] \in Entries(new) \/ link[2] \notin Entries(old)
  /\ UNCHANGED acked

Change(old, new) == Add(old, new) \/ Lose(old, new)
TreeNext == Change(tree, tree')

TreeSpec == TreeInit /\ [][TreeNext]_vars
===============================================================================
