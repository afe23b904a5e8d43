------------------------------ MODULE MainScreen ------------------------------
(***************************************************************************)
(* The differential renderer of the main screen (internal/tui,             *)
(* render_main.go).  The program never reads the terminal: it remembers    *)
(* the lines it drew, the row the cursor stands on and the first visible   *)
(* line, and sends only what changed.  The terminal is modelled beside it: *)
(* the rows a user sees, and its cursor.  Lines and rows count from 0.     *)
(***************************************************************************)
EXTENDS Integers, Sequences, SequencesExt

CONSTANTS
  Texts,     \* what a line may hold
  MaxLines,  \* bound: lines of a frame
  Heights    \* heights of the terminal

VARIABLES
  previousLines, previousHeight, previousViewportTop,
  widthChanged,       \* previousWidth is neither 0 nor the width
  hardwareCursorRow,
  height, rows, at,   \* the terminal: height, what each row shows, its cursor's row
  drawn,              \* the last frame was drawn on the terminal as it is
  astray,             \* a frame went wrong since the last clear, see Strays
  stopped

vars == <<previousLines, previousHeight, previousViewportTop, widthChanged,
          hardwareCursorRow, height, rows, at, drawn, astray, stopped>>

Blank == "blank"    \* an empty row
Junk == "junk"      \* a row another program wrote, or one written over another

Least(a, b) == IF a < b THEN a ELSE b
Most(a, b) == IF a > b THEN a ELSE b

----------------------------------------------------------------------------
\* The terminal.  Writing a row that was not erased mixes the two.

Clear == [op |-> "clear", n |-> 0, text |-> Blank]
NewLine == [op |-> "newline", n |-> 0, text |-> Blank]
EraseLine == [op |-> "erase", n |-> 0, text |-> Blank]
Put(text) == [op |-> "put", n |-> 0, text |-> text]
\* CursorMoveLines: down when positive, up when negative, within the screen.
MoveLines(n) == [op |-> "move", n |-> n, text |-> Blank]

Scrolled(r) == [i \in 0..(height - 1) |-> IF i < height - 1 THEN r[i + 1] ELSE Blank]

Written(t, o) ==
  CASE o.op = "clear" -> [rows |-> [i \in 0..(height - 1) |-> Blank], at |-> 0]
    [] o.op = "newline" /\ t.at < height - 1 -> [t EXCEPT !.at = t.at + 1]
    [] o.op = "newline" -> [t EXCEPT !.rows = Scrolled(t.rows)]
    [] o.op = "erase" -> [t EXCEPT !.rows[t.at] = Blank]
    [] o.op = "put" ->
         [t EXCEPT !.rows[t.at] = IF t.rows[t.at] = Blank THEN o.text ELSE Junk]
    [] OTHER -> [t EXCEPT !.at = Most(0, Least(height - 1, t.at + o.n))]

\* The terminal after the operations of one frame.
Write(ops) ==
  LET t == FoldLeft(Written, [rows |-> rows, at |-> at], ops)
  IN rows' = t.rows /\ at' = t.at

----------------------------------------------------------------------------
\* doRender: the operations of a frame and the state they leave.

Frame(ops, hardwareRow, top) == [ops |-> ops, row |-> hardwareRow, top |-> top]

\* The lines from the first to the last, each written below the other, after
\* what prepares its row.
Lines(lines, first, last, prepare) ==
  FlattenSeq([k \in 1..(last - first + 1) |->
                (IF k > 1 THEN <<NewLine>> ELSE <<>>) \o prepare \o <<Put(lines[first + k])>>])

FullRender(lines, clear) ==
  Frame((IF clear THEN <<Clear>> ELSE <<>>) \o Lines(lines, 0, Len(lines) - 1, <<>>),
        Most(0, Len(lines) - 1), Most(0, Len(lines) - height))

Line(lines, i) == IF i < Len(lines) THEN lines[i + 1] ELSE ""

Differ(lines) ==
  {i \in 0..(Most(Len(lines), Len(previousLines)) - 1) :
     Line(lines, i) # Line(previousLines, i)}
FirstChanged(lines) == CHOOSE i \in Differ(lines) : \A j \in Differ(lines) : i <= j
LastChanged(lines) == CHOOSE i \in Differ(lines) : \A j \in Differ(lines) : j <= i

\* Only trailing lines went away: their rows are erased, the cursor moving up
\* from the first of them.
ShrunkFrame(lines) ==
  LET target == Most(0, Len(lines) - 1)
      extra == Len(previousLines) - Len(lines)
      offset == IF lines = <<>> THEN 0 ELSE 1
      erased == FlattenSeq([k \in 1..extra |->
                              IF k < extra THEN <<EraseLine, MoveLines(-1)>> ELSE <<EraseLine>>])
  IN IF target < previousViewportTop \/ extra > height THEN FullRender(lines, TRUE)
     ELSE Frame(<<MoveLines(target - hardwareCursorRow), MoveLines(offset)>> \o erased
                  \o <<MoveLines(-Most(0, extra - 1 + offset))>>,
                target, previousViewportTop)

\* MUTANT of ChangedFrame: lines that went away below the changed ones stay.
MutantChangedFrame(lines) ==
  LET first == FirstChanged(lines)
      last == Least(LastChanged(lines), Len(lines) - 1)
  IN Frame(<<MoveLines(first - hardwareCursorRow)>> \o Lines(lines, first, last, <<EraseLine>>),
           last, Most(previousViewportTop, last - height + 1))

\* The changed lines are drawn again; lines that went away are erased below.
ChangedFrame(lines) ==
  LET first == FirstChanged(lines)
      appendStart == first = Len(previousLines) /\ first > 0
      target == IF appendStart THEN first - 1 ELSE first
      beyond == Most(0, target - (previousViewportTop + height - 1))
      screenRow == Most(0, Least(height - 1, hardwareCursorRow - previousViewportTop))
      scroll == IF beyond > 0 THEN <<MoveLines(height - 1 - screenRow)>>
                                     \o [k \in 1..beyond |-> NewLine]
                ELSE <<MoveLines(target - hardwareCursorRow)>>
      renderEnd == Least(LastChanged(lines), Len(lines) - 1)
      extra == Len(previousLines) - Len(lines)
      down == IF extra > 0 THEN Len(lines) - 1 - renderEnd ELSE 0
      removed == IF extra > 0
                   THEN <<MoveLines(down)>>
                          \o FlattenSeq([k \in 1..extra |-> <<NewLine, EraseLine>>])
                          \o <<MoveLines(-extra)>>
                   ELSE <<>>
  IN Frame(scroll \o (IF appendStart THEN <<NewLine>> ELSE <<>>)
             \o Lines(lines, first, renderEnd, <<EraseLine>>) \o removed,
           renderEnd + down,
           Most(previousViewportTop + beyond, renderEnd + down - height + 1))

FrameOf(lines) ==
  LET heightChanged == previousHeight # 0 /\ previousHeight # height
  IN IF widthChanged \/ heightChanged THEN FullRender(lines, TRUE)
     ELSE IF previousLines = <<>> THEN FullRender(lines, FALSE)
     ELSE IF Differ(lines) = {} THEN Frame(<<>>, hardwareCursorRow, previousViewportTop)
     ELSE IF FirstChanged(lines) >= Len(lines) THEN ShrunkFrame(lines)
     ELSE IF FirstChanged(lines) < previousViewportTop THEN FullRender(lines, TRUE)
     ELSE ChangedFrame(lines)

\* positionHardwareCursor: to the row of the cursor marker, if a line holds it.
Positioned(frame, cursor) ==
  IF cursor < 0 THEN frame
  ELSE [frame EXCEPT !.ops = Append(@, MoveLines(cursor - frame.row)), !.row = cursor]

\* The two frames that leave the screen in disorder: one that deletes several
\* trailing lines, and one whose cursor marker stands above the visible lines.
Strays(lines, cursor, frame) ==
  \/ /\ Len(previousLines) > Len(lines) + 1
     /\ Differ(lines) \subseteq Len(lines)..Len(previousLines)
  \/ cursor \in 0..(frame.top - 1)

Render(lines, cursor) ==
  /\ ~stopped
  /\ LET frame == Positioned(FrameOf(lines), cursor)
     IN /\ Write(frame.ops)
        /\ hardwareCursorRow' = frame.row /\ previousViewportTop' = frame.top
        /\ astray' = (Head(frame.ops \o <<NewLine>>) # Clear
                          /\ (astray \/ Strays(lines, cursor, frame)))
  /\ previousLines' = lines /\ previousHeight' = height /\ widthChanged' = FALSE
  /\ drawn' = TRUE
  /\ UNCHANGED <<height, stopped>>

----------------------------------------------------------------------------
\* The terminal is resized: what it shows of the frame then is its own affair.
\* Bound: one resize between two frames; one that is undone before the next
\* frame would not be noticed.
Resize(h) ==
  /\ ~stopped /\ drawn
  /\ height' = h /\ widthChanged' \in {TRUE, widthChanged}
  /\ h # height \/ widthChanged' # widthChanged
  /\ at' = Least(at, h - 1)
  /\ rows' = [i \in 0..(h - 1) |-> Junk]
  /\ drawn' = FALSE
  /\ UNCHANGED <<previousLines, previousHeight, previousViewportTop, hardwareCursorRow,
                 astray, stopped>>

\* SuspendScreen to ResumeScreen: another program had the terminal, and
\* resetRenderState forgets the frame.
Resume ==
  /\ ~stopped
  /\ rows' = [i \in 0..(height - 1) |-> Junk] /\ at' \in 0..(height - 1)
  /\ previousLines' = <<>> /\ previousHeight' = -1 /\ widthChanged' = TRUE
  /\ hardwareCursorRow' = 0 /\ previousViewportTop' = 0
  /\ drawn' = FALSE
  /\ UNCHANGED <<height, astray, stopped>>

\* beforeTerminalStop: the shell's prompt goes below the last line.
Stop ==
  /\ ~stopped /\ stopped' = TRUE
  /\ Write(IF previousLines = <<>> THEN <<>>
           ELSE <<MoveLines(Len(previousLines) - hardwareCursorRow), NewLine>>)
  /\ UNCHANGED <<previousLines, previousHeight, previousViewportTop, widthChanged,
                 hardwareCursorRow, height, drawn, astray>>

\* The program starts at some row below what the shell wrote.
Init ==
  /\ previousLines = <<>> /\ previousHeight = 0 /\ previousViewportTop = 0
  /\ widthChanged = FALSE /\ hardwareCursorRow = 0
  /\ height \in Heights /\ at \in 0..(height - 1)
  /\ rows = [i \in 0..(height - 1) |-> IF i < at THEN Junk ELSE Blank]
  /\ drawn = FALSE /\ astray = FALSE /\ stopped = FALSE

Next ==
  \/ \E lines \in UNION {[1..n -> Texts] : n \in 0..MaxLines} :
       \E cursor \in {-1} \union (Most(0, Len(lines) - height)..(Len(lines) - 1)) :
         Render(lines, cursor)
  \/ \E h \in Heights : Resize(h)
  \/ Resume \/ Stop

Spec == Init /\ [][Next]_vars
-----------------------------------------------------------------------------
\* The row of the terminal that line i is taken to stand on.
RowOf(i) == at - hardwareCursorRow + i

\* What is on the screen after a frame: the lines from the first visible one on,
\* each on its row, and nothing below them; and once stopped, the cursor on an
\* empty row below.  The frames of Strays are excepted, until a frame clears the
\* screen: see DeletedLinesErased.
ScreenShows ==
  drawn /\ ~astray =>
    IF stopped THEN rows[at] = Blank \/ previousLines = <<>>
    ELSE /\ \A i \in previousViewportTop..(Len(previousLines) - 1) :
              RowOf(i) \in DOMAIN rows /\ rows[RowOf(i)] = Line(previousLines, i)
         /\ \A r \in DOMAIN rows : r >= RowOf(Len(previousLines)) => rows[r] = Blank

\* render_main_test.go: "deleted lines should be erased".
\* The code does not keep it (README, section 9).
DeletedLinesErased ==
  drawn /\ ~stopped =>
    \A r \in DOMAIN rows : r >= RowOf(Len(previousLines)) => rows[r] = Blank
===============================================================================
