------------------------------ MODULE SessionLog ------------------------------
(***************************************************************************)
(* One session file and the processes that use it: the JSON lines that     *)
(* Session.append writes (internal/session/session.go), Store.Open with    *)
(* its lock and its repair of a torn tail (open.go), and what the loader   *)
(* makes of the bytes it finds (loader.go).                                *)
(*                                                                         *)
(* A write may leave nothing, a part of its line, the line without its     *)
(* newline, or all of it, and fail or crash the process after that.  A     *)
(* line is its kind and its links; what an entry says is left out.  An id  *)
(* is drawn at random among those the handle does not know: two processes  *)
(* never draw the same one here.                                           *)
(***************************************************************************)
EXTENDS Naturals, Sequences, FiniteSets, FiniteSetsExt, SequencesExt

CONSTANTS Procs,        \* the processes that open the session
          Strict,       \* how the processes open it: in the program, strictly
          MaxEntries,   \* bound: entries ever drawn
          MaxFaults     \* bound: failed writes and crashes

Root == 0
NoProc == "nobody"
Wrote == {"none", "part", "whole", "all"}   \* how far a write got

VARIABLES
  there, lines,         \* the file: whether it exists, its lines
  lock,                 \* the holder of path.lock
  handle,               \* what each process has of the session
  drawn, faults,        \* entries drawn and faults so far
  sole,                 \* processes that opened the file whole and alone,
                        \*   and whose appends all succeeded since
  acked                 \* the entries whose append such a process acknowledged

vars == <<there, lines, lock, handle, drawn, faults, sole, acked>>

Line(kind, id, up, kept, nl) ==
  [kind |-> kind, id |-> id, up |-> up, kept |-> kept, nl |-> nl]
Header == Line("header", Root, Root, Root, TRUE)
Garbage(nl) == Line("garbage", Root, Root, Root, nl)

Closed == [st |-> "none", seen |-> << >>, leaf |-> Root, branch |-> << >>]

Init ==
  /\ there = FALSE /\ lines = << >> /\ lock = NoProc
  /\ handle = [p \in Procs |-> Closed]
  /\ drawn = 0 /\ faults = 0 /\ sole = {} /\ acked = {}

-----------------------------------------------------------------------------
\* The bytes.  A line written behind an unterminated one continues it, and
\* two JSON values on one line decode to nothing.
Torn(ls) == ls # << >> /\ ~Last(ls).nl

Write(ls, ln, how) ==
  CASE how = "none" -> ls
    [] how # "none" /\ Torn(ls) -> Append(Front(ls), Garbage(how = "all"))
    [] how = "part" /\ ~Torn(ls) -> Append(ls, Garbage(FALSE))
    [] OTHER -> Append(ls, [ln EXCEPT !.nl = (how = "all")])

Newline(ls) == IF Torn(ls) THEN Append(Front(ls), [Last(ls) EXCEPT !.nl = TRUE])
               ELSE ls

\* What a load finds: undecodable lines are skipped, strictly only a torn last.
Decoded(ls) == {i \in DOMAIN ls : ls[i].kind # "garbage"}
HasHeader(ls) ==
  \E h \in Decoded(ls) : ls[h].kind = "header" /\ \A i \in Decoded(ls) : h <= i
RecoverableTrailingLine(ls, i) == i = Len(ls) /\ ~ls[i].nl
Loads(ls, strict) ==
  /\ HasHeader(ls)
  /\ strict => \A i \in DOMAIN ls :
                 ls[i].kind = "garbage" => RecoverableTrailingLine(ls, i)

\* The lines of the entries, by number.
Entries(ls) == IF HasHeader(ls) THEN {i \in Decoded(ls) : ls[i].kind # "header"} ELSE {}

\* The index of a load: entries by id, the leaf, and the way to the root.
ById(ls) ==
  [id \in {ls[i].id : i \in Entries(ls)} |->
     ls[Max({i \in Entries(ls) : ls[i].id = id})]]
Leaf(ls) == IF Entries(ls) = {} THEN Root ELSE ls[Max(Entries(ls))].id
Branch(ls, from) ==
  LET by == ById(ls)
      path[id \in DOMAIN by] ==
        IF by[id].up \in DOMAIN by THEN Append(path[by[id].up], id) ELSE <<id>>
  IN IF from \in DOMAIN by THEN path[from] ELSE << >>
ActiveBranch(ls) == Branch(ls, Leaf(ls))

\* MUTANT of KeptBefore: starts behind the first entry that is kept.
MutantKeptBefore(path, by, c) ==
  LET kept == {i \in 1..(c - 1) : path[i] = by[path[c]].kept}
  IN IF kept = {} THEN << >> ELSE SubSeq(path, Min(kept) + 1, c - 1)

\* What a compaction kept: the entries before it from the first one it names.
KeptBefore(path, by, c) ==
  LET kept == {i \in 1..(c - 1) : path[i] = by[path[c]].kept}
  IN IF kept = {} THEN << >> ELSE SubSeq(path, Min(kept), c - 1)

\* The entries a model is shown: the last compaction of the active branch, what
\* it kept of the entries before it, and everything after it.
BuildContextEntries(ls) ==
  LET path == ActiveBranch(ls)
      by == ById(ls)
      cs == {i \in DOMAIN path : by[path[i]].kind = "compaction"}
      c == Max(cs)
  IN IF cs = {} THEN path
     ELSE <<path[c]>> \o KeptBefore(path, by, c) \o SubSeq(path, c + 1, Len(path))

-----------------------------------------------------------------------------
Alive == {p \in Procs : handle[p].st \in {"new", "header", "open"}}
MayFail == faults < MaxFaults
Fault == faults' = faults + 1

\* The entry of an append: a fresh id under the leaf of the handle.
NewEntry(p, kind, kept) == Line(kind, drawn + 1, handle[p].leaf, kept, TRUE)
MayDraw(p, kind, kept) ==
  /\ drawn < MaxEntries
  /\ kind = "compaction" <=> kept # Root
  /\ kept # Root => kept \in Range(handle[p].branch)

Appended(p, e) ==
  /\ handle' = [handle EXCEPT ![p].st = "open", ![p].leaf = e.id,
                              ![p].branch = Append(@, e.id)]
  /\ acked' = IF p \in sole THEN acked \cup {e.id} ELSE acked

\* A new session takes no lock, and no file before its first entry.
Create(p) ==
  /\ ~there /\ Alive = {} /\ handle[p].st = "none"
  /\ handle' = [handle EXCEPT ![p] = [Closed EXCEPT !.st = "new"]]
  /\ sole' = {p}
  /\ UNCHANGED <<there, lines, lock, drawn, faults, acked>>

FirstWriteHeader(p) ==
  /\ handle[p].st = "new" /\ ~there
  /\ \/ /\ there' = TRUE /\ lines' = <<Header>>
        /\ handle' = [handle EXCEPT ![p].st = "header"]
        /\ UNCHANGED faults
     \/ /\ MayFail /\ Fault                    \* closed and removed again
        /\ UNCHANGED <<there, lines, handle>>
  /\ UNCHANGED <<lock, drawn, sole, acked>>

FirstWriteLine(p) ==
  /\ handle[p].st = "header" /\ MayDraw(p, "message", Root)
  /\ drawn' = drawn + 1
  /\ LET e == NewEntry(p, "message", Root) IN
     \/ /\ lines' = Write(lines, e, "all") /\ Appended(p, e)
        /\ UNCHANGED <<there, faults>>
     \/ /\ MayFail /\ Fault
        /\ there' = FALSE /\ lines' = << >>    \* the clean-up removes the file,
        /\ handle' = [q \in Procs |->          \* under whoever opened it
             CASE q = p -> [handle[p] EXCEPT !.st = "new"]
               [] handle[q].st = "open" -> [handle[q] EXCEPT !.st = "unlinked"]
               [] OTHER -> handle[q]]
        /\ UNCHANGED acked
  /\ UNCHANGED <<lock, sole>>

\* A failed append leaves its bytes in the file and the handle as it was.
AppendEntry(p, kind, kept) ==
  /\ handle[p].st = "open" /\ MayDraw(p, kind, kept)
  /\ drawn' = drawn + 1
  /\ LET e == NewEntry(p, kind, kept) IN
     \/ lines' = Write(lines, e, "all") /\ Appended(p, e) /\ UNCHANGED <<faults, sole>>
     \/ /\ MayFail /\ Fault
        /\ \E how \in Wrote : lines' = Write(lines, e, how)
        /\ sole' = {}
        /\ UNCHANGED <<handle, acked>>
  /\ UNCHANGED <<there, lock>>

Unlocked(p) == IF lock = p THEN NoProc ELSE lock
Gone(p) ==
  /\ handle' = [handle EXCEPT ![p] = Closed]
  /\ lock' = Unlocked(p)
  /\ sole' = sole \ {p}

Close(p) ==
  /\ handle[p].st \in {"new", "open", "unlinked"}
  /\ Gone(p)
  /\ UNCHANGED <<there, lines, drawn, faults, acked>>

\* The process dies, in the middle of a write or not; the kernel drops its lock.
Crash(p) ==
  /\ handle[p].st # "none" /\ MayFail /\ Fault /\ Gone(p)
  /\ CASE handle[p].st = "new" /\ ~there ->
            \E how \in Wrote \ {"none"} : there' = TRUE /\ lines' = Write(<< >>, Header, how)
       [] handle[p].st \in {"header", "open"} /\ drawn < MaxEntries ->
            /\ \E how \in Wrote :
                 lines' = Write(lines, NewEntry(p, "message", Root), how)
            /\ UNCHANGED there
       [] OTHER -> UNCHANGED <<there, lines>>
  /\ drawn' = Min({drawn + 1, MaxEntries})
  /\ UNCHANGED acked

\* Open first loads the file ...
OpenLoad(p) ==
  /\ handle[p].st = "none" /\ there /\ Loads(lines, Strict)
  /\ handle' = [handle EXCEPT ![p] =
       [st |-> "loaded", seen |-> lines, leaf |-> Leaf(lines),
        branch |-> ActiveBranch(lines)]]
  /\ UNCHANGED <<there, lines, lock, drawn, faults, sole, acked>>

\* ... and locks it then, without a second look.  The newline behind a torn
\* tail is written if the load saw one.
OpenRefused(p) ==
  /\ handle[p].st = "loaded"
  /\ lock # NoProc \/ ~there
  /\ handle' = [handle EXCEPT ![p] = Closed]
  /\ UNCHANGED <<there, lines, lock, drawn, faults, sole, acked>>

\* MUTANT of Terminated: the torn tail is left as it is.
MutantTerminated(p) == lines
Terminated(p) == IF Torn(handle[p].seen) THEN Newline(lines) ELSE lines

OpenLock(p) ==
  /\ handle[p].st = "loaded" /\ lock = NoProc /\ there
  /\ \/ /\ lines' = Terminated(p)
        /\ lock' = p
        /\ handle' = [handle EXCEPT ![p].st = "open", ![p].seen = << >>]
        /\ sole' = IF Alive = {} /\ handle[p].seen = lines THEN {p} ELSE {}
        /\ UNCHANGED faults
     \/ /\ MayFail /\ Fault /\ Torn(handle[p].seen)
        /\ lines' \in {lines, Terminated(p)}
        /\ handle' = [handle EXCEPT ![p] = Closed]
        /\ UNCHANGED <<lock, sole>>
  /\ UNCHANGED <<there, drawn, acked>>

Next ==
  \E p \in Procs :
    \/ Create(p) \/ FirstWriteHeader(p) \/ FirstWriteLine(p)
    \/ \E kind \in {"message", "compaction"}, kept \in 0..MaxEntries :
         AppendEntry(p, kind, kept)
    \/ Close(p) \/ Crash(p)
    \/ OpenLoad(p) \/ OpenRefused(p) \/ OpenLock(p)

Spec == Init /\ [][Next]_vars

-----------------------------------------------------------------------------
(***************************************************************************)
(* The file implements the tree of SessionTree: an entry acknowledged to a *)
(* handle that opened the file whole and alone is never lost again, nor is *)
(* anything it hangs from, whatever crashes, torn lines, failed writes and *)
(* careless second writers come later.                                     *)
(***************************************************************************)
Tree == INSTANCE SessionTree WITH
          tree <- {<<lines[i].id, lines[i].up>> : i \in Entries(lines)}
ImplementsTree == Tree!TreeSpec

\* The context is what a branch asks for: its last compaction, what that names
\* to keep of the branch before it, and what came after it.
Shows(ctx, b, by) ==
  LET compacted == {i \in DOMAIN b : by[b[i]].kind = "compaction"}
      c == Max(compacted)
      first == CHOOSE i \in DOMAIN b : b[i] = by[b[c]].kept
      from == IF by[b[c]].kept \in Range(b) THEN first ELSE c
  IN IF compacted = {} THEN ctx = b
     ELSE ctx = <<b[c]>> \o SubSeq(b, from, c - 1) \o SubSeq(b, c + 1, Len(b))

(***************************************************************************)
(* A load shows what the writer thinks it wrote: while a process is alone  *)
(* with the file, the context that a load builds holds exactly the entries *)
(* of its own branch from the first one its last compaction kept.          *)
(***************************************************************************)
ContextOfWriter ==
  \A p \in sole : handle[p].st = "open" =>
    /\ Range(handle[p].branch) \subseteq DOMAIN ById(lines)
    /\ Shows(BuildContextEntries(lines), handle[p].branch, ById(lines))

(***************************************************************************)
(* open_test.go:263 wants a strict Open to recover a torn last line.  Every *)
(* later strict load of the program should then succeed too.               *)
(***************************************************************************)
RecoveredLoads == \A p \in sole : handle[p].st = "open" => Loads(lines, TRUE)
===============================================================================
