------------------------------ MODULE Browser ------------------------------
(***************************************************************************)
(* The browser of flareOS (kernel/core/browser.c): how html_strip turns    *)
(* the bytes of a page into lines and links, tag by tag and character by   *)
(* character, and how the keys move through them.  The page is arbitrary:  *)
(* any tag or character may come next, and it may end anywhere.            *)
(*                                                                         *)
(* Of a line only its length counts, of a link the line it is shown on,    *)
(* and of the colours whether they are those of plain text.  How the page  *)
(* comes over the network is in NetFetch, how sessions share the browser   *)
(* in ShellApps.                                                           *)
(***************************************************************************)
EXTENDS Integers, Sequences, SequencesExt

CONSTANTS
    MaxLines,   \* BROWSER_MAX_LINES, 500
    MaxLine,    \* characters of a line, BROWSER_MAX_LINE - 1 = 127
    MaxLinks,   \* BROWSER_MAX_LINKS, 200
    StackSize,  \* open blocks whose colours are remembered, 64
    MaxDepth,   \* bound on the blocks open at once
    Rows, Cols  \* brows_rows and brows_cols, at least 3 and 20

ASSUME BrowserAssumption ==
    /\ {MaxLines, MaxLinks, StackSize, Cols} \subseteq Nat \ {0}
    /\ MaxLine \in Nat /\ MaxLine >= 2
    /\ MaxDepth \in Nat /\ MaxDepth > StackSize
    /\ Rows \in Nat /\ Rows >= 3

VARIABLES
    active,   \* g_active
    fetch,    \* g_fetch_state
    lines,    \* the lengths of g_lines up to g_line_count
    links,    \* g_links up to g_link_count
    sel,      \* g_sel_link
    scroll,   \* g_scroll
    dirty,    \* g_dirty
    shown,    \* history: what browser_render shows has not changed since it last ran
    pc,       \* "view" between calls, where html_strip is during one
    text,     \* tpos, the characters of the line it collects
    style,    \* cur_fg, cur_bg and cur_border
    stack,    \* fg_stack, bg_stack and border_depth up to stack_pos
    depth,    \* style_depth
    around,   \* history: for every block open, the colours around it
    over,     \* history: since all blocks were closed, more were open than the stack remembers
    taken,    \* history: the characters of the page so far
    skipped   \* history: a title that filled the line has cost a character

view == <<lines, links, sel, scroll>>
colours == <<style, stack, depth, around, over>>
strip == <<text, colours, taken, skipped>>
vars == <<active, fetch, view, dirty, shown, pc, strip>>

\* Asks for a drawing.
Redraw == dirty' = TRUE /\ shown' = FALSE

-----------------------------------------------------------------------------
(* html_strip, one tag or character per step *)

NoBlocks ==
    /\ style' = "plain"
    /\ stack' = <<>>
    /\ depth' = 0
    /\ around' = <<>>
    /\ over' = FALSE

StripStart ==
    /\ lines' = <<>>
    /\ links' = <<>>
    /\ sel' = -1
    /\ text' = 0
    /\ NoBlocks
    /\ taken' = 0
    /\ skipped' = FALSE
    /\ pc' = "strip"

\* The loop goes on as long as there is room for a line.
Stripping == pc = "strip" /\ Len(lines) < MaxLines

\* The text collected so far becomes a line.
Flush == IF text > 0 THEN Append(lines, text) ELSE lines

\* History: where the first character of a link is when it is not on a line yet, or on another line
\* than the one that was begun at its tag.
Pending == -1
Elsewhere == -2

\* The links that wait for their first character get it on the line with this index.
Land(n) == [i \in DOMAIN links |-> IF links[i].on = Pending THEN [links[i] EXCEPT !.on = n] ELSE links[i]]

\* The line ends before they got one.
Part == Land(Elsewhere)

\* Mutant: a full line is only noticed by the character after it.
CharLate ==
    /\ Stripping
    /\ lines' = IF text = MaxLine THEN Append(lines, text) ELSE lines
    /\ text' = IF text = MaxLine THEN 1 ELSE text + 1
    /\ links' = Land(Len(lines'))
    /\ taken' = taken + 1
    /\ UNCHANGED <<active, fetch, sel, scroll, dirty, shown, pc, colours, skipped>>

\* A character of the page; a full line is stored at once.
Char ==
    /\ Stripping
    /\ links' = Land(Len(lines))
    /\ lines' = IF text + 1 = MaxLine THEN Append(lines, MaxLine) ELSE lines
    /\ text' = IF text + 1 = MaxLine THEN 0 ELSE text + 1
    /\ taken' = taken + 1
    /\ UNCHANGED <<active, fetch, sel, scroll, dirty, shown, pc, colours, skipped>>

\* Mutant: the text before the break is dropped.
LineTagDrops ==
    /\ Stripping
    /\ text' = 0
    /\ UNCHANGED <<active, fetch, view, dirty, shown, pc, colours, taken, skipped>>

\* br, h1, h2 and h3, opening or closing.
LineTag ==
    /\ Stripping /\ text > 0
    /\ lines' = Flush
    /\ text' = 0
    /\ links' = Part
    /\ UNCHANGED <<active, fetch, sel, scroll, dirty, shown, pc, colours, taken, skipped>>

\* p, opening or closing, and whatever starts with p: an empty line follows while there is room.
ParagraphTag ==
    /\ Stripping
    /\ lines' = IF Len(Flush) < MaxLines THEN Append(Flush, 0) ELSE Flush
    /\ text' = 0
    /\ links' = Part
    /\ UNCHANGED <<active, fetch, sel, scroll, dirty, shown, pc, colours, taken, skipped>>

\* li, opening or closing: a bullet starts the next line.
ItemTag ==
    /\ Stripping
    /\ lines' = Flush
    /\ text' = 1
    /\ links' = IF text > 0 THEN Part ELSE Land(Len(lines))
    /\ taken' = taken + 1
    /\ UNCHANGED <<active, fetch, sel, scroll, dirty, shown, pc, colours, skipped>>

\* a with an address; no more than MaxLinks of them.
LinkTag ==
    /\ Stripping /\ Len(links) < MaxLinks
    /\ links' = Append(links, [line |-> Len(lines), on |-> Pending])
    /\ UNCHANGED <<active, fetch, lines, sel, scroll, dirty, shown, pc, strip>>

\* title, opening or closing: its text joins what has been collected.
TitleTag ==
    /\ Stripping
    /\ pc' = "title"
    /\ UNCHANGED <<active, fetch, view, dirty, shown, strip>>

TitleChar ==
    /\ pc = "title" /\ text < MaxLine
    /\ text' = text + 1
    /\ taken' = taken + 1
    /\ links' = Land(Len(lines))
    /\ UNCHANGED <<active, fetch, lines, sel, scroll, dirty, shown, pc, colours, skipped>>

\* At the next tag, whose < the loop then steps over, so that its name is taken for text; at the
\* end of the page; or when the line is full, with a character that the loop steps over.
TitleEnd ==
    /\ pc = "title"
    /\ lines' = Flush
    /\ text' = 0
    /\ links' = IF text > 0 THEN Part ELSE links
    /\ skipped' \in {skipped} \cup (IF text = MaxLine THEN {TRUE} ELSE {})
    /\ pc' = "strip"
    /\ UNCHANGED <<active, fetch, sel, scroll, dirty, shown, colours, taken>>

\* parse_style_attr, on a tag cut off at its first space: it finds colours or none.
Colours == {style, "coloured"}

\* The block is counted, remembered or not.
Nest ==
    /\ depth' = depth + 1
    /\ around' = Append(around, style)
    /\ over' = (over \/ Len(stack) >= StackSize)
    /\ UNCHANGED <<active, fetch, view, dirty, shown, pc, text, taken, skipped>>

\* Mutant: no look at the size of the stack.
OpenBlockUnbounded ==
    /\ Stripping /\ depth < MaxDepth
    /\ stack' = Append(stack, style)
    /\ style' \in Colours
    /\ Nest

\* Mutant: remembers the colours of the block, not those around it.
OpenBlockLate ==
    /\ Stripping /\ depth < MaxDepth
    /\ style' \in Colours
    /\ stack' = IF Len(stack) < StackSize THEN Append(stack, style') ELSE stack
    /\ Nest

\* div, span, table, td and th.
OpenBlock ==
    /\ Stripping /\ depth < MaxDepth
    /\ stack' = IF Len(stack) < StackSize THEN Append(stack, style) ELSE stack
    /\ style' \in Colours
    /\ Nest

\* The last block of around closes.
Unnest ==
    /\ around' = Front(around)
    /\ over' = (over /\ Len(around) > 1)
    /\ UNCHANGED <<active, fetch, view, dirty, shown, pc, text, taken, skipped>>

\* A block that closes takes the last colours remembered, its own or not.
CloseBlock ==
    /\ Stripping /\ depth > 0 /\ stack # <<>>
    /\ style' = Last(stack)
    /\ stack' = Front(stack)
    /\ depth' = depth - 1
    /\ Unnest

\* With no colours remembered any more nothing happens; the block closes all the same.
CloseForgotten ==
    /\ Stripping /\ stack = <<>> /\ around # <<>>
    /\ UNCHANGED <<style, stack, depth>>
    /\ Unnest

\* The page ends, or has no more room for a line: the last line, if there is room, and what does
\* not fit the screen is cut off.
StripEnd ==
    /\ pc = "strip"
    /\ LET all == IF Len(lines) < MaxLines THEN Flush ELSE lines
       IN  lines' = [i \in DOMAIN all |-> IF all[i] > Cols THEN Cols ELSE all[i]]
    /\ text' = 0
    /\ NoBlocks
    /\ fetch' = "ready"
    /\ Redraw
    /\ pc' = "view"
    /\ UNCHANGED <<active, links, sel, scroll, taken, skipped>>

-----------------------------------------------------------------------------
(* The page: browser_start and browser_tick *)

\* One line, "browser: failed to fetch URL".
ErrorPage == <<MaxLine>>

\* browser_start: the links of the page before stay until another one is taken apart.
StartFetch ==
    /\ sel' = -1
    /\ scroll' = 0
    /\ active' = TRUE
    /\ Redraw
    /\ \/ fetch' = "loading" /\ lines' = <<>>
       \/ fetch' = "error" /\ lines' = ErrorPage
    /\ taken' = 0
    /\ skipped' = FALSE
    /\ UNCHANGED <<links, pc, text, colours>>

\* The browser command, in any session.
Start == pc = "view" /\ StartFetch

\* net_async_http_poll reports a page with bytes,
Arrives ==
    /\ pc = "view" /\ fetch = "loading" /\ active
    /\ StripStart
    /\ UNCHANGED <<active, fetch, scroll, dirty, shown>>

\* one without any,
ArrivesEmpty ==
    /\ pc = "view" /\ fetch = "loading" /\ active
    /\ fetch' = "ready"
    /\ Redraw
    /\ UNCHANGED <<active, view, pc, strip>>

\* or a failure.
Fails ==
    /\ pc = "view" /\ fetch = "loading" /\ active
    /\ fetch' = "error"
    /\ lines' = ErrorPage
    /\ Redraw
    /\ UNCHANGED <<active, links, sel, scroll, pc, strip>>

-----------------------------------------------------------------------------
(* browser_keyboard_event *)

\* esc and ctrl+q; a fetch is given up.
Leave ==
    /\ pc = "view" /\ active
    /\ active' = FALSE
    /\ fetch' = IF fetch = "loading" THEN "idle" ELSE fetch
    /\ UNCHANGED <<view, dirty, shown, pc, strip>>

AtKeys == pc = "view" /\ active /\ fetch \in {"ready", "error"}

ScrollTo(n) ==
    /\ scroll' = n
    /\ Redraw
    /\ UNCHANGED <<active, fetch, lines, links, sel, pc, strip>>

Up == AtKeys /\ scroll > 0 /\ ScrollTo(scroll - 1)

Down == AtKeys /\ scroll + Rows < Len(lines) /\ ScrollTo(scroll + 1)

PageUp == AtKeys /\ ScrollTo(IF scroll < Rows THEN 0 ELSE scroll - Rows)

\* Mutant: no look at the end of the page.
PageDownUnbounded == AtKeys /\ scroll <= Len(lines) /\ ScrollTo(scroll + Rows)

\* On a page without lines scroll becomes -1.
PageDown == AtKeys /\ ScrollTo(IF scroll + Rows >= Len(lines) THEN Len(lines) - 1 ELSE scroll + Rows)

Home == AtKeys /\ ScrollTo(0)

End == AtKeys /\ ScrollTo(IF Len(lines) < Rows THEN 0 ELSE Len(lines) - Rows)

\* The next link, the first one after the last.
Tab ==
    /\ AtKeys /\ links # <<>>
    /\ sel' = IF sel < 0 THEN 0 ELSE (sel + 1) % Len(links)
    /\ Redraw
    /\ UNCHANGED <<active, fetch, lines, links, scroll, pc, strip>>

\* Enter follows the selected link.
Follow == AtKeys /\ sel \in 0 .. Len(links) - 1 /\ StartFetch

\* browser_render
Render ==
    /\ pc = "view" /\ active /\ dirty
    /\ dirty' = FALSE
    /\ shown' = TRUE
    /\ UNCHANGED <<active, fetch, view, pc, strip>>

-----------------------------------------------------------------------------
Init ==
    /\ active = FALSE
    /\ fetch = "idle"
    /\ lines = <<>>
    /\ links = <<>>
    /\ sel = 0
    /\ scroll = 0
    /\ dirty = FALSE
    /\ shown = FALSE
    /\ pc = "view"
    /\ text = 0
    /\ style = "plain"
    /\ stack = <<>>
    /\ depth = 0
    /\ around = <<>>
    /\ over = FALSE
    /\ taken = 0
    /\ skipped = FALSE

Strip == Char \/ LineTag \/ ParagraphTag \/ ItemTag \/ LinkTag \/ TitleTag \/ TitleChar \/ TitleEnd
         \/ OpenBlock \/ CloseBlock \/ CloseForgotten \/ StripEnd

Page == Start \/ Arrives \/ ArrivesEmpty \/ Fails

Keys == Leave \/ Up \/ Down \/ PageUp \/ PageDown \/ Home \/ End \/ Tab \/ Follow

Next == Strip \/ Page \/ Keys \/ Render

Spec == Init /\ [][Next]_vars
-----------------------------------------------------------------------------
(* Properties *)

\* Every variable has its type: the arrays of html_strip are not overrun, however long the page's
\* lines, however many its links and however deep its blocks.
TypeOK ==
    /\ {active, dirty, shown, over, skipped} \subseteq BOOLEAN
    /\ fetch \in {"idle", "loading", "ready", "error"}
    /\ lines \in Seq(0 .. MaxLine) /\ Len(lines) <= MaxLines
    /\ \A i \in DOMAIN links :
           links[i].line \in 0 .. MaxLines - 1 /\ links[i].on \in {Pending, Elsewhere} \cup 0 .. MaxLines - 1
    /\ Len(links) <= MaxLinks
    /\ sel \in -1 .. MaxLinks - 1
    /\ pc \in {"view", "strip", "title"}
    /\ text \in 0 .. MaxLine
    /\ style \in {"plain", "coloured"} /\ stack \in Seq({"plain", "coloured"})
    /\ Len(stack) <= StackSize /\ depth \in 0 .. MaxDepth
    /\ around \in Seq({"plain", "coloured"}) /\ Len(around) <= depth
    /\ taken \in Nat

\* Whatever pages come and go and however they are scrolled, the first row of the screen is a line
\* of the page, where it has any, and the selected link is one there is.
ViewIsInPage ==
    active =>
        /\ IF lines = <<>> THEN scroll \in {-1, 0} ELSE scroll \in 0 .. Len(lines) - 1
        /\ sel < Len(links)

\* A link is shown on the line its first character is on, unless a tag between the two ends a line.
LinkIsOnItsText == \A i \in DOMAIN links : links[i].on \in {Pending, Elsewhere, links[i].line}

\* The characters of lines of these lengths.
Characters(ls) ==
    LET sum[k \in 0 .. Len(ls)] == IF k = 0 THEN 0 ELSE sum[k - 1] + ls[k]
    IN  sum[Len(ls)]

\* The characters html_strip takes from the page, and the bullets it adds, are in the lines: on the way,
\* and when the page is ready.  A title that fills the line costs one, and the end of html_strip
\* (browser.c:390-394) costs what a line has beyond the width of the screen: a page all of whose lines
\* are shorter than that, and that has fewer than MaxLines of them, shows every character.
TextIsKept ==
    ~skipped =>
        /\ pc # "view" => taken = Characters(lines) + text
        /\ (pc = "view" /\ fetch = "ready" /\ Len(lines) < MaxLines /\ \A i \in DOMAIN lines : lines[i] < Cols)
               => taken = Characters(lines)

\* Colours end with the block that set them.  Outside of all blocks text is plain, even when more blocks
\* were open than the stack remembers; and a block that closes gives back the colours around it, as
\* long as there were not more.  Once there were, a block that was not remembered takes the colours
\* from one that was and is still open (browser.c:276-283), so then the code keeps the first part only.
ColoursEnd ==
    [][/\ around' = <<>> => style' = "plain"
       /\ (pc' = "strip" /\ Len(around') < Len(around) /\ ~over) => style' = Last(around)]_vars

\* What asks for no drawing has changed nothing that is shown.
ViewIsCurrent == (active /\ pc = "view" /\ ~dirty) => shown
=============================================================================
