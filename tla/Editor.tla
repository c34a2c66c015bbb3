------------------------------- MODULE Editor -------------------------------
(***************************************************************************)
(* The text editor of flareOS (kernel/core/editor.c).  g_lines is an array *)
(* of rows of characters; a row's text ends at its first zero, and what is *)
(* left behind that zero by earlier texts stays there.  One step is one    *)
(* key, with the scroll and cursor adjustments at the end of               *)
(* editor_keyboard_event; opening a file and saving it are keys too.       *)
(*                                                                         *)
(* A file is the sequence of its lines: the newline behind the last one    *)
(* makes no difference to editor_start.  While it is open nobody else      *)
(* writes it: a shell command of another session could.                    *)
(***************************************************************************)
EXTENDS Integers, Sequences

CONSTANTS
    Char,      \* printable characters
    Blank,     \* the one that Tab types twice
    End,       \* '\0'
    MaxLines,  \* EDITOR_MAX_LINES, 500
    MaxLine,   \* EDITOR_MAX_LINE, 256
    Rows,      \* editor_avail_rows(), at least 5
    Cols,      \* editor_avail_cols(), at least 10
    SaveSize,  \* editor_save's buffer, 16384
    Files      \* what the file may hold before it is edited: sequences of lines

Line == 0 .. MaxLines - 1
Cell == 0 .. MaxLine - 1
Row == [Cell -> Char \cup {End}]
Move == {"up", "down", "left", "right", "home", "end", "pageup", "pagedown"}
Edit == {"tab", "enter", "backspace", "delete"}

ASSUME EditorAssumption ==
    /\ Blank \in Char
    /\ End \notin Char
    /\ Char \cap (Edit \cup Move) = {}
    /\ MaxLines \in Nat \ {0}
    /\ MaxLine \in Nat /\ MaxLine > 4
    /\ Rows \in Nat \ {0}
    /\ Cols \in Nat /\ Cols > 2
    /\ SaveSize \in Nat /\ SaveSize >= MaxLine
    /\ Files \subseteq Seq(Seq(Char))

VARIABLES
    ed,     \* g_lines, g_line_count, g_cx, g_cy, g_scroll and g_modified
    active, \* g_active
    file,   \* the file on the disk
    lost    \* history: a load or a save since the file was opened did not take all

vars == <<ed, active, file, lost>>

-----------------------------------------------------------------------------
(* Strings in rows *)

\* The first zero at k or behind it; MaxLine if there is none, where the code reads on.
EndFrom(r, k) == CHOOSE n \in k .. MaxLine : /\ n < MaxLine => r[n] = End
                                            /\ \A i \in k .. n - 1 : r[i] # End

StrLen(r) == EndFrom(r, 0)

\* strcpy(dst + at, src)
StrCpy(dst, at, src) ==
    [i \in Cell |-> IF at <= i /\ i <= at + StrLen(src) THEN src[i - at] ELSE dst[i]]

\* A string taken from elsewhere, with its zero.
Put(dst, text) ==
    [i \in Cell |-> IF i < Len(text) THEN text[i + 1] ELSE IF i = Len(text) THEN End ELSE dst[i]]

\* The character at k goes, and those up to the next zero move down.
Cut(r, k) == [i \in Cell |-> IF k <= i /\ i < EndFrom(r, k) THEN r[i + 1] ELSE r[i]]

\* The rows from the k-th on move up by one.
Pull(rows, k, count) ==
    [i \in Line |-> IF k <= i /\ i < count - 1 THEN StrCpy(rows[i], 0, rows[i + 1]) ELSE rows[i]]

\* The text of the editor.
Text(e) == [k \in 1 .. e.count |->
               [i \in 1 .. StrLen(e.rows[k - 1]) |-> e.rows[k - 1][i - 1]]]

-----------------------------------------------------------------------------
(* Keys that change the text; e is ed *)

\* Mutant: no test for a full row.
InsertAnyway(e, c) ==
    LET r == e.rows[e.cy]
        n == StrLen(r)
    IN  [e EXCEPT !.rows[e.cy] = [i \in Cell |-> IF i = e.cx THEN c
                                                 ELSE IF e.cx < i /\ i <= n + 1 THEN r[i - 1]
                                                 ELSE r[i]],
                  !.cx = @ + 1,
                  !.modified = TRUE]

\* editor_insert_char: behind the end of the text it writes past the zero, and moves nothing.
Insert(e, c) ==
    LET r == e.rows[e.cy]
        n == StrLen(r)
    IN  IF n >= MaxLine - 1 THEN e
        ELSE [e EXCEPT !.rows[e.cy] = [i \in Cell |-> IF i = e.cx THEN c
                                                      ELSE IF e.cx < i /\ i <= n + 1 THEN r[i - 1]
                                                      ELSE r[i]],
                       !.cx = @ + 1,
                       !.modified = TRUE]

\* Mutant: no test for the number of lines.
NewlineAnyway(e) ==
    LET r == e.rows[e.cy]
        rest == IF StrLen(r) < e.cx THEN 0 ELSE StrLen(r) - e.cx
        pushed == [i \in Line |-> IF e.cy + 1 < i /\ i <= e.count
                                  THEN StrCpy(e.rows[i], 0, e.rows[i - 1]) ELSE e.rows[i]]
        tail == [i \in Cell |-> IF i <= rest THEN r[e.cx + i] ELSE pushed[e.cy + 1][i]]
    IN  [e EXCEPT !.rows = [pushed EXCEPT ![e.cy + 1] = tail, ![e.cy][e.cx] = End],
                  !.count = @ + 1, !.cy = @ + 1, !.cx = 0, !.modified = TRUE]

\* editor_newline: what is behind the cursor goes to a row of its own; behind the end of
\* the text that is one left-over character, without a zero.
Newline(e) ==
    LET r == e.rows[e.cy]
        rest == IF StrLen(r) < e.cx THEN 0 ELSE StrLen(r) - e.cx
        pushed == [i \in Line |-> IF e.cy + 1 < i /\ i <= e.count
                                  THEN StrCpy(e.rows[i], 0, e.rows[i - 1]) ELSE e.rows[i]]
        tail == [i \in Cell |-> IF i <= rest THEN r[e.cx + i] ELSE pushed[e.cy + 1][i]]
    IN  IF e.count >= MaxLines THEN e
        ELSE [e EXCEPT !.rows = [pushed EXCEPT ![e.cy + 1] = tail, ![e.cy][e.cx] = End],
                       !.count = @ + 1, !.cy = @ + 1, !.cx = 0, !.modified = TRUE]

\* The row behind k is appended to row k, when there is room.
Join(e, k) ==
    LET n == StrLen(e.rows[k])
        joined == [e.rows EXCEPT ![k] = StrCpy(@, n, e.rows[k + 1])]
    IN  IF n + StrLen(e.rows[k + 1]) >= MaxLine - 1 THEN e
        ELSE [e EXCEPT !.rows = Pull(joined, k + 1, e.count), !.count = @ - 1,
                       !.cy = k, !.cx = IF k < e.cy THEN n ELSE @, !.modified = TRUE]

\* editor_backspace
Backspace(e) ==
    IF e.cx > 0
    THEN [e EXCEPT !.rows[e.cy] = Cut(@, e.cx - 1), !.cx = @ - 1, !.modified = TRUE]
    ELSE IF e.cy > 0 THEN Join(e, e.cy - 1) ELSE e

\* Mutant: does not mark the text as modified.
DeleteUnmarked(e) ==
    IF e.rows[e.cy][e.cx] # End THEN [e EXCEPT !.rows[e.cy] = Cut(@, e.cx)]
    ELSE IF e.cy + 1 < e.count THEN Join(e, e.cy) ELSE e

\* editor_delete
Delete(e) ==
    IF e.rows[e.cy][e.cx] # End
    THEN [e EXCEPT !.rows[e.cy] = Cut(@, e.cx), !.modified = TRUE]
    ELSE IF e.cy + 1 < e.count THEN Join(e, e.cy) ELSE e

-----------------------------------------------------------------------------
(* Keys that move the cursor, and the end of editor_keyboard_event *)

Moved(e, k) ==
    CASE k = "up" -> [e EXCEPT !.cy = IF @ > 0 THEN @ - 1 ELSE @]
      [] k = "down" -> [e EXCEPT !.cy = IF @ + 1 < e.count THEN @ + 1 ELSE @]
      [] k = "left" -> [e EXCEPT !.cx = IF @ > 0 THEN @ - 1 ELSE @]
      [] k = "right" -> [e EXCEPT !.cx = IF @ < StrLen(e.rows[e.cy]) THEN @ + 1 ELSE @]
      [] k = "home" -> [e EXCEPT !.cx = 0]
      [] k = "end" -> [e EXCEPT !.cx = StrLen(e.rows[e.cy])]
      [] k = "pageup" -> [e EXCEPT !.cy = IF @ < Rows THEN 0 ELSE @ - Rows]
      [] k = "pagedown" -> [e EXCEPT !.cy = IF @ + Rows >= e.count THEN e.count - 1 ELSE @ + Rows]

Pressed(e, k) ==
    CASE k \in Char -> Insert(e, k)
      [] k = "tab" -> Insert(Insert(e, Blank), Blank)
      [] k = "enter" -> Newline(e)
      [] k = "backspace" -> Backspace(e)
      [] k = "delete" -> Delete(e)
      [] k \in Move -> Moved(e, k)

\* Mutant: the last row counts as shown when it is just below the screen.
ScrolledLate(e) ==
    IF e.cy < e.scroll THEN e.cy ELSE IF e.cy > e.scroll + Rows THEN e.cy - Rows + 1 ELSE e.scroll

\* The row at the top of the screen follows the cursor.
Scrolled(e) ==
    IF e.cy < e.scroll THEN e.cy ELSE IF e.cy >= e.scroll + Rows THEN e.cy - Rows + 1 ELSE e.scroll

\* The cursor is put back to the end of the text, then at least to the third column, whether
\* there is text in front of it or not, and then on the screen.
Clamped(e) ==
    LET n == StrLen(e.rows[e.cy])
        onText == IF e.cx > n THEN n ELSE e.cx
        fromTwo == IF onText < 2 THEN 2 ELSE onText
    IN  IF fromTwo >= Cols THEN Cols - 1 ELSE fromTwo

Adjusted(e) == [e EXCEPT !.scroll = Scrolled(e), !.cx = Clamped(e)]

Key(k) ==
    /\ active
    /\ ed' = Adjusted(Pressed(ed, k))
    /\ UNCHANGED <<active, file, lost>>

-----------------------------------------------------------------------------
(* The file *)

\* A line that is too long for a row takes several.
Chunks(l) ==
    LET width == MaxLine - 1
        n == IF l = <<>> THEN 1 ELSE (Len(l) + width - 1) \div width
    IN  [k \in 1 .. n |-> SubSeq(l, (k - 1) * width + 1,
                                 IF k * width < Len(l) THEN k * width ELSE Len(l))]

\* The rows a file needs; an empty file needs one.
Needed(f) ==
    LET first[k \in 0 .. Len(f)] == IF k = 0 THEN <<>> ELSE first[k - 1] \o Chunks(f[k])
    IN  IF f = <<>> THEN << <<>> >> ELSE first[Len(f)]

\* The rows editor_start fills of them.
Loaded(f) == SubSeq(Needed(f), 1, IF Len(Needed(f)) < MaxLines THEN Len(Needed(f)) ELSE MaxLines)

\* The lines that fit editor_save's buffer, each with its newline.
Kept(e) ==
    LET size[k \in 0 .. e.count] == IF k = 0 THEN 0 ELSE size[k - 1] + StrLen(e.rows[k - 1]) + 1
    IN  CHOOSE k \in 0 .. e.count : /\ size[k] <= SaveSize
                                    /\ k < e.count => size[k + 1] > SaveSize

\* editor_start, by the edit command, which another session may give while the text is open.
Open ==
    /\ active' = TRUE
    /\ ed' = [rows |-> [k \in Line |-> IF k < Len(Loaded(file))
                                       THEN Put(ed.rows[k], Loaded(file)[k + 1]) ELSE ed.rows[k]],
              count |-> Len(Loaded(file)), cx |-> 0, cy |-> 0, scroll |-> 0, modified |-> FALSE]
    /\ lost' = (Loaded(file) # Needed(file))
    /\ UNCHANGED file

\* Ctrl+S, with a root file system that is writable: whether fs_write_file succeeds is not
\* looked at.
Save ==
    /\ active
    /\ ed' = [ed EXCEPT !.modified = FALSE]
    /\ \/ file' = SubSeq(Text(ed), 1, Kept(ed)) /\ lost' = (Kept(ed) < ed.count)
       \/ UNCHANGED file /\ lost' = TRUE
    /\ UNCHANGED active

\* Ctrl+Q and esc: what is not saved is dropped.
Quit == active /\ active' = FALSE /\ UNCHANGED <<ed, file, lost>>

Init ==
    /\ ed = [rows |-> [k \in Line |-> [i \in Cell |-> End]], count |-> 0, cx |-> 0, cy |-> 0,
             scroll |-> 0, modified |-> FALSE]
    /\ active = FALSE
    /\ file \in Files
    /\ lost = FALSE

Next ==
    \/ \E k \in Char \cup Edit \cup Move : Key(k)
    \/ Open
    \/ Save
    \/ Quit

Spec == Init /\ [][Next]_vars
-----------------------------------------------------------------------------
(* Properties *)

\* The cursor is in a line of the text and inside its row.
TypeOK ==
    /\ ed \in [rows : [Line -> Row], count : 0 .. MaxLines, cx : Cell, cy : Line,
               scroll : Line, modified : BOOLEAN]
    /\ active \in BOOLEAN
    /\ active => ed.cy < ed.count
    /\ file \in Seq(Seq(Char))
    /\ lost \in BOOLEAN

\* No sequence of keys, joins, splits and loads over left-over text fills a row to its last
\* cell: every strlen, strcpy and shifting loop of editor.c finds a zero inside its row.
RowsAreTerminated == \A k \in Line : ed.rows[k][MaxLine - 1] = End

\* The line with the cursor is on the screen.
CursorIsShown == active => ed.scroll <= ed.cy /\ ed.cy < ed.scroll + Rows

\* Without the star in its header the editor shows what opening the file again would show,
\* unless the file has more lines than the editor, the text is too long for the buffer of
\* editor_save, or the write failed.
UnmodifiedIsSaved == (active /\ ~ed.modified /\ ~lost) => Text(ed) = Loaded(file)
=============================================================================
