---------------------------- MODULE BrowserProofs ----------------------------
(***************************************************************************)
(* Theorems about Browser, for arrays and screens of every size.           *)
(***************************************************************************)
EXTENDS Browser, SequenceTheorems, WellFoundedInduction, TLAPS

-----------------------------------------------------------------------------
(* The inductive invariant.  The histories of the blocks and of the characters, which the code does not
   have, get invariants of their own below. *)

Style == {"plain", "coloured"}
Place == {Pending, Elsewhere} \cup 0 .. MaxLines - 1
Link == [line : 0 .. MaxLines - 1, on : Place]

TypedPage ==
    /\ lines \in Seq(0 .. MaxLine) /\ Len(lines) <= MaxLines
    /\ links \in Seq(Link) /\ Len(links) <= MaxLinks
    /\ text \in 0 .. MaxLine

TypedColours ==
    /\ style \in Style /\ stack \in Seq(Style) /\ Len(stack) <= StackSize
    /\ depth \in 0 .. MaxDepth

TypedView ==
    /\ active \in BOOLEAN /\ dirty \in BOOLEAN /\ shown \in BOOLEAN /\ skipped \in BOOLEAN
    /\ fetch \in {"idle", "loading", "ready", "error"}
    /\ sel \in -1 .. MaxLinks - 1
    /\ scroll \in Int
    /\ pc \in {"view", "strip", "title"}

\* A tag finds room in the line, and a title a line to end on.
Room ==
    /\ pc = "strip" => text < MaxLine
    /\ pc = "title" => Len(lines) < MaxLines

\* A link without its first character was begun on the line html_strip is at.
Linked ==
    /\ pc # "view" => \A i \in DOMAIN links : links[i].on = Pending => links[i].line = Len(lines)
    /\ \A i \in DOMAIN links : links[i].on \in {Pending, Elsewhere, links[i].line}

\* The outermost block was opened in plain text.
Coloured ==
    /\ Len(stack) <= depth
    /\ IF stack = <<>> THEN style = "plain" ELSE stack[1] = "plain"

\* A page that comes is shown from its top.
Viewed ==
    /\ pc # "view" => active /\ fetch = "loading"
    /\ (active /\ fetch = "loading") => scroll = 0 /\ (pc = "view" => lines = <<>>)
    /\ active => sel < Len(links)
    /\ (active /\ fetch # "loading") =>
           IF lines = <<>> THEN scroll \in {-1, 0} ELSE scroll \in 0 .. Len(lines) - 1

IInv == TypedPage /\ TypedColours /\ TypedView /\ Room /\ Linked /\ Coloured /\ Viewed /\ ViewIsCurrent

-----------------------------------------------------------------------------
(* Lines, links and blocks *)

LEMMA Bounds ==
    /\ MaxLines \in Nat /\ MaxLines > 0 /\ MaxLinks \in Nat /\ MaxLinks > 0
    /\ StackSize \in Nat /\ StackSize > 0 /\ Cols \in Nat /\ MaxLine \in Nat /\ MaxLine >= 2
    /\ MaxDepth \in Nat /\ Rows \in Nat /\ Rows >= 3
  BY BrowserAssumption

LEMMA Flushed ==
    ASSUME TypedPage
    PROVE  /\ Flush \in Seq(0 .. MaxLine) /\ Len(lines) \in Nat
           /\ Len(Flush) = IF text > 0 THEN Len(lines) + 1 ELSE Len(lines)
           /\ text = 0 => Flush = lines
  <1>1. lines \in Seq(0 .. MaxLine) /\ Len(lines) \in Nat /\ text \in 0 .. MaxLine
    BY LenProperties DEF TypedPage
  <1>2. Append(lines, text) \in Seq(0 .. MaxLine) /\ Len(Append(lines, text)) = Len(lines) + 1
    BY <1>1, AppendProperties
  <1>3. CASE text > 0
    BY <1>1, <1>2, <1>3 DEF Flush
  <1>4. CASE text = 0
    BY <1>1, <1>4 DEF Flush
  <1> QED
    BY <1>1, <1>3, <1>4, Bounds

\* Links that have got their first character wait for none, and the others keep their places.
LEMMA Landed ==
    ASSUME TypedPage, NEW n \in Place, n # Pending
    PROVE  /\ Land(n) \in Seq(Link) /\ Len(Land(n)) = Len(links) /\ DOMAIN Land(n) = DOMAIN links
           /\ \A i \in DOMAIN links :
                  /\ Land(n)[i].line = links[i].line
                  /\ Land(n)[i].on = IF links[i].on = Pending THEN n ELSE links[i].on
                  /\ Land(n)[i].on # Pending
  <1>1. Len(links) \in Nat /\ DOMAIN links = 1 .. Len(links) /\ links \in [1 .. Len(links) -> Link]
    BY LenProperties DEF TypedPage
  <1>2. \A i \in 1 .. Len(links) :
            /\ Land(n)[i] \in Link
            /\ Land(n)[i].line = links[i].line
            /\ Land(n)[i].on = IF links[i].on = Pending THEN n ELSE links[i].on
    BY <1>1 DEF Land, Link
  <1>3. Land(n) = [i \in 1 .. Len(links) |-> Land(n)[i]]
    BY <1>1 DEF Land
  <1>4. Land(n) \in [1 .. Len(links) -> Link]
    BY <1>2, <1>3
  <1>5. Land(n) \in Seq(Link)
    <2>1. Land(n) \in UNION {[1 .. k -> Link] : k \in Nat}
      BY <1>1, <1>4
    <2> QED
      BY <2>1, SeqDef, Zenon
  <1>6. DOMAIN Land(n) = 1 .. Len(links)
    BY <1>4
  <1>7. Len(Land(n)) = Len(links)
    BY <1>1, <1>5, <1>6, LenProperties
  <1> QED
    BY <1>1, <1>2, <1>5, <1>6, <1>7

\* Links that all have their first character are where it is, if they were begun there.
LEMMA LandedLinked ==
    ASSUME TypedPage, Linked, pc # "view", NEW n \in Place, n = Len(lines) \/ n = Elsewhere
    PROVE  \A i \in DOMAIN Land(n) :
               Land(n)[i].on # Pending /\ Land(n)[i].on \in {Pending, Elsewhere, Land(n)[i].line}
  <1>1. n # Pending
    BY LenProperties DEF TypedPage, Pending, Elsewhere
  <1> QED
    BY <1>1, Landed DEF Linked

-----------------------------------------------------------------------------
(* html_strip *)

\* What most steps of html_strip leave alone.
LEMMA StripFrame ==
    ASSUME IInv, pc # "view", UNCHANGED <<active, fetch, sel, scroll, dirty, shown>>,
           Len(links') >= Len(links), Len(links) \in Nat, Len(links') \in Nat,
           pc' \in {"strip", "title"}, skipped' \in BOOLEAN
    PROVE  TypedView' /\ Viewed' /\ ViewIsCurrent'
  <1>1. TypedView'
    BY DEF IInv, TypedView
  <1>2. Viewed'
    <2>1. active /\ fetch = "loading" /\ scroll = 0 /\ sel < Len(links) /\ sel \in Int
      BY Bounds DEF IInv, Viewed, TypedView
    <2> QED
      BY <2>1 DEF Viewed
  <1>3. ViewIsCurrent'
    BY DEF ViewIsCurrent
  <1> QED
    BY <1>1, <1>2, <1>3

LEMMA CharIInv == IInv /\ Char => IInv'
  <1> SUFFICES ASSUME IInv, Char PROVE IInv'
    OBVIOUS
  <1>0. TypedPage /\ TypedColours /\ Linked /\ Room /\ Coloured /\ pc = "strip" /\ pc' = pc /\ text < MaxLine
    BY DEF IInv, Char, Stripping, Room
  <1>1. Len(lines) \in 0 .. MaxLines - 1 /\ Len(links) \in Nat
    BY <1>0, Bounds, LenProperties DEF Char, Stripping, TypedPage
  <1>2. Len(lines) \in Place /\ Len(lines) # Pending
    BY <1>1 DEF Place, Pending
  <1>3. /\ links' \in Seq(Link) /\ Len(links') = Len(links)
        /\ \A i \in DOMAIN links' : links'[i].on # Pending /\ links'[i].on \in {Pending, Elsewhere, links'[i].line}
    BY <1>0, <1>2, Landed, LandedLinked DEF Char
  <1>4. TypedPage' /\ Room'
    <2>1. lines' \in Seq(0 .. MaxLine) /\ Len(lines') <= MaxLines
      <3>1. MaxLine \in 0 .. MaxLine /\ lines \in Seq(0 .. MaxLine) /\ Len(lines) <= MaxLines
        BY <1>0, Bounds DEF TypedPage
      <3>2. Append(lines, MaxLine) \in Seq(0 .. MaxLine) /\ Len(Append(lines, MaxLine)) = Len(lines) + 1
        BY <3>1, AppendProperties
      <3>3. lines' = lines \/ lines' = Append(lines, MaxLine)
        BY DEF Char
      <3> QED
        BY <1>1, <3>1, <3>2, <3>3, Bounds
    <2>2. text' \in 0 .. MaxLine /\ text' < MaxLine
      BY <1>0, Bounds DEF Char, TypedPage
    <2> QED
      BY <1>0, <1>3, <2>1, <2>2 DEF TypedPage, Room
  <1>5. Linked'
    BY <1>3 DEF Linked
  <1>6. TypedColours' /\ Coloured'
    BY <1>0 DEF Char, TypedColours, Coloured, colours
  <1>7. TypedView' /\ Viewed' /\ ViewIsCurrent'
    BY <1>0, <1>1, <1>3, StripFrame DEF Char, IInv, TypedView
  <1> QED
    BY <1>4, <1>5, <1>6, <1>7 DEF IInv

\* The tags that end a line.
LEMMA EndOfLineIInv == IInv /\ (LineTag \/ ParagraphTag \/ ItemTag) => IInv'
  <1> SUFFICES ASSUME IInv, LineTag \/ ParagraphTag \/ ItemTag PROVE IInv'
    OBVIOUS
  <1>0. /\ TypedPage /\ TypedColours /\ Linked /\ Room /\ Coloured /\ pc = "strip" /\ pc' = pc
        /\ UNCHANGED <<active, fetch, sel, scroll, dirty, shown, style, stack, depth, skipped>>
    BY DEF IInv, LineTag, ParagraphTag, ItemTag, Stripping, colours
  <1>1. Len(lines) \in 0 .. MaxLines - 1 /\ Len(links) \in Nat /\ text \in 0 .. MaxLine
    BY Bounds, LenProperties, <1>0 DEF LineTag, ParagraphTag, ItemTag, Stripping, TypedPage
  <1>2. /\ Len(lines) \in Place /\ Len(lines) # Pending
        /\ Elsewhere \in Place /\ Elsewhere # Pending
    BY <1>1 DEF Place, Pending, Elsewhere
  <1>3. links' \in {Land(Len(lines)), Part}
    BY DEF LineTag, ParagraphTag, ItemTag
  <1>4. /\ links' \in Seq(Link) /\ Len(links') = Len(links)
        /\ \A i \in DOMAIN links' : links'[i].on # Pending /\ links'[i].on \in {Pending, Elsewhere, links'[i].line}
    <2>1. CASE links' = Land(Len(lines))
      BY <1>0, <1>2, <2>1, Landed, LandedLinked
    <2>2. CASE links' = Land(Elsewhere)
      BY <1>0, <1>2, <2>2, Landed, LandedLinked
    <2> QED
      BY <1>3, <2>1, <2>2 DEF Part
  <1>5. lines' \in Seq(0 .. MaxLine) /\ Len(lines') <= MaxLines
    <2>1. /\ Flush \in Seq(0 .. MaxLine) /\ Len(Flush) \in Nat /\ Len(Flush) <= MaxLines
      BY <1>0, <1>1, Flushed, Bounds, LenProperties
    <2>2. CASE lines' = Flush
      BY <2>1, <2>2
    <2>3. CASE ParagraphTag
      <3>1. 0 \in 0 .. MaxLine
        BY Bounds
      <3>2. Append(Flush, 0) \in Seq(0 .. MaxLine) /\ Len(Append(Flush, 0)) = Len(Flush) + 1
        BY <2>1, <3>1, AppendProperties
      <3> QED
        <4>1. \/ lines' = Flush
              \/ lines' = Append(Flush, 0) /\ Len(Flush) < MaxLines
          BY <2>3 DEF ParagraphTag
        <4> QED
          BY <2>1, <3>2, <4>1, Bounds
    <2> QED
      BY <2>2, <2>3 DEF LineTag, ItemTag
  <1>6. text' \in 0 .. MaxLine /\ text' < MaxLine
    BY Bounds DEF LineTag, ParagraphTag, ItemTag
  <1>7. TypedPage' /\ Room' /\ Linked'
    BY <1>0, <1>4, <1>5, <1>6 DEF TypedPage, Room, Linked
  <1>8. TypedColours' /\ Coloured'
    BY <1>0 DEF TypedColours, Coloured
  <1>9. TypedView' /\ Viewed' /\ ViewIsCurrent'
    BY <1>0, <1>1, <1>4, StripFrame DEF IInv, TypedView
  <1> QED
    BY <1>7, <1>8, <1>9 DEF IInv

LEMMA LinkIInv == IInv /\ LinkTag => IInv'
  <1> SUFFICES ASSUME IInv, LinkTag PROVE IInv'
    OBVIOUS
  <1> DEFINE new == [line |-> Len(lines), on |-> Pending]
  <1>0. /\ TypedPage /\ TypedColours /\ Linked /\ Room /\ Coloured /\ pc = "strip" /\ pc' = pc
        /\ UNCHANGED <<active, fetch, lines, sel, scroll, dirty, shown, text, style, stack, depth, skipped>>
        /\ links' = Append(links, new)
    BY DEF IInv, LinkTag, Stripping, strip, colours
  <1>1. Len(lines) \in 0 .. MaxLines - 1 /\ Len(links) \in Nat /\ Len(links) < MaxLinks
    BY Bounds, LenProperties, <1>0 DEF LinkTag, Stripping, TypedPage
  <1>2. new \in Link
    BY <1>1 DEF Link, Place
  <1>3. new.line = Len(lines) /\ new.on = Pending
    OBVIOUS
  <1> HIDE DEF new
  <1>4. /\ links' \in Seq(Link) /\ Len(links') = Len(links) + 1
        /\ \A i \in 1 .. Len(links) : links'[i] = links[i]
        /\ links'[Len(links) + 1] = new
    BY <1>0, <1>2, AppendProperties DEF TypedPage
  <1>5. DOMAIN links' = 1 .. Len(links) + 1 /\ DOMAIN links = 1 .. Len(links)
    BY <1>0, <1>4, LenProperties DEF TypedPage
  <1>6. Linked'
    <2>1. ASSUME NEW i \in DOMAIN links'
          PROVE  /\ links'[i].on = Pending => links'[i].line = Len(lines')
                 /\ links'[i].on \in {Pending, Elsewhere, links'[i].line}
      <3>1. CASE i = Len(links) + 1
        BY <1>0, <1>3, <1>4, <3>1
      <3>2. CASE i \in 1 .. Len(links)
        BY <1>0, <1>4, <1>5, <3>2 DEF Linked
      <3> QED
        BY <1>1, <1>5, <3>1, <3>2
    <2> QED
      BY <2>1 DEF Linked
  <1>7. TypedPage' /\ Room'
    BY <1>0, <1>1, <1>4, Bounds DEF TypedPage, Room
  <1>8. TypedColours' /\ Coloured'
    BY <1>0 DEF TypedColours, Coloured
  <1>9. TypedView' /\ Viewed' /\ ViewIsCurrent'
    BY <1>0, <1>1, <1>4, StripFrame DEF IInv, TypedView
  <1> QED
    BY <1>6, <1>7, <1>8, <1>9 DEF IInv

LEMMA TitleIInv == IInv /\ (TitleTag \/ TitleChar \/ TitleEnd) => IInv'
  <1> SUFFICES ASSUME IInv, TitleTag \/ TitleChar \/ TitleEnd PROVE IInv'
    OBVIOUS
  <1>0. /\ TypedPage /\ TypedColours /\ Linked /\ Room /\ Coloured /\ TypedView
        /\ pc # "view" /\ pc' \in {"strip", "title"}
        /\ UNCHANGED <<active, fetch, sel, scroll, dirty, shown, style, stack, depth>>
    BY DEF IInv, TitleTag, TitleChar, TitleEnd, Stripping, strip, view, colours
  <1>1. Len(lines) \in 0 .. MaxLines - 1 /\ Len(links) \in Nat /\ text \in 0 .. MaxLine
    <2>1. Len(lines) \in Nat /\ Len(links) \in Nat /\ text \in 0 .. MaxLine
      BY <1>0, LenProperties DEF TypedPage
    <2>2. Len(lines) < MaxLines
      BY <1>0 DEF TitleTag, TitleChar, TitleEnd, Stripping, Room
    <2> QED
      BY <2>1, <2>2, Bounds
  <1>2. /\ Len(lines) \in Place /\ Len(lines) # Pending
        /\ Elsewhere \in Place /\ Elsewhere # Pending
    BY <1>1 DEF Place, Pending, Elsewhere
  <1>3. skipped' \in BOOLEAN
    BY <1>0 DEF TitleTag, TitleChar, TitleEnd, strip, TypedView
  <1>4. TypedPage' /\ Room' /\ Linked' /\ Len(links') = Len(links)
    <2>1. CASE TitleTag
      BY <1>0, <1>1, <2>1 DEF TitleTag, Stripping, TypedPage, Room, Linked, view, strip
    <2>2. CASE TitleChar
      <3>1. /\ links' \in Seq(Link) /\ Len(links') = Len(links)
            /\ \A i \in DOMAIN links' : links'[i].on # Pending /\ links'[i].on \in {Pending, Elsewhere, links'[i].line}
        BY <1>0, <1>2, <2>2, Landed, LandedLinked DEF TitleChar
      <3>2. lines' = lines /\ text' \in 0 .. MaxLine /\ pc' = "title"
        BY <1>1, <2>2, Bounds DEF TitleChar
      <3> QED
        BY <1>0, <1>1, <3>1, <3>2, Bounds DEF TypedPage, Room, Linked
    <2>3. CASE TitleEnd
      <3>1. /\ lines' \in Seq(0 .. MaxLine) /\ Len(lines') \in Nat /\ Len(lines') <= MaxLines
            /\ text' = 0 /\ pc' = "strip"
        BY <1>0, <1>1, <2>3, Flushed, Bounds, LenProperties DEF TitleEnd
      <3>2. CASE text > 0
        <4>1. /\ links' \in Seq(Link) /\ Len(links') = Len(links)
              /\ \A i \in DOMAIN links' : links'[i].on # Pending /\ links'[i].on \in {Pending, Elsewhere, links'[i].line}
          BY <1>0, <1>2, <2>3, <3>2, Landed, LandedLinked DEF TitleEnd, Part
        <4> QED
          BY <1>0, <3>1, <4>1, Bounds DEF TypedPage, Room, Linked
      <3>3. CASE text = 0
        <4>1. links' = links /\ lines' = lines
          BY <1>0, <1>1, <2>3, <3>3, Flushed DEF TitleEnd
        <4> QED
          BY <1>0, <3>1, <4>1, Bounds DEF TypedPage, Room, Linked
      <3> QED
        BY <1>1, <3>2, <3>3
    <2> QED
      BY <2>1, <2>2, <2>3
  <1>5. TypedColours' /\ Coloured'
    BY <1>0 DEF TypedColours, Coloured
  <1>6. TypedView' /\ Viewed' /\ ViewIsCurrent'
    BY <1>0, <1>1, <1>3, <1>4, StripFrame
  <1> QED
    BY <1>4, <1>5, <1>6 DEF IInv

LEMMA BlockIInv == IInv /\ (OpenBlock \/ CloseBlock \/ CloseForgotten) => IInv'
  <1> SUFFICES ASSUME IInv, OpenBlock \/ CloseBlock \/ CloseForgotten PROVE IInv'
    OBVIOUS
  <1>0. /\ TypedPage /\ TypedColours /\ Linked /\ Room /\ Coloured /\ TypedView /\ pc = "strip" /\ pc' = pc
        /\ UNCHANGED <<active, fetch, lines, links, sel, scroll, dirty, shown, text, skipped>>
    BY DEF IInv, OpenBlock, CloseBlock, CloseForgotten, Nest, Unnest, Stripping, view
  <1>1. Len(stack) \in Nat /\ Len(links) \in Nat /\ depth \in Nat
    BY <1>0, LenProperties DEF TypedColours, TypedPage
  <1>2. TypedColours' /\ Coloured'
    <2>1. CASE OpenBlock
      <3>1. style' \in Style /\ depth' = depth + 1 /\ depth < MaxDepth
        BY <1>0, <2>1 DEF OpenBlock, Nest, Colours, Style, TypedColours
      <3>2. CASE Len(stack) < StackSize
        <4>1. stack' = Append(stack, style)
          BY <2>1, <3>2 DEF OpenBlock
        <4>2. /\ stack' \in Seq(Style) /\ stack' # <<>> /\ Len(stack') = Len(stack) + 1
              /\ \A i \in 1 .. Len(stack) : stack'[i] = stack[i]
              /\ stack'[Len(stack) + 1] = style
          BY <1>0, <4>1, AppendProperties DEF TypedColours
        <4>3. stack'[1] = "plain"
          <5>1. CASE stack = <<>>
            BY <1>0, <4>2, <5>1, EmptySeq DEF Coloured
          <5>2. CASE stack # <<>>
            BY <1>0, <1>1, <4>2, <5>2, EmptySeq DEF Coloured, TypedColours
          <5> QED
            BY <5>1, <5>2
        <4> QED
          BY <1>0, <1>1, <3>1, <3>2, <4>2, <4>3, Bounds DEF TypedColours, Coloured
      <3>3. CASE ~(Len(stack) < StackSize)
        <4>1. stack' = stack /\ stack # <<>>
          BY <2>1, <3>3, Bounds, EmptySeq DEF OpenBlock
        <4> QED
          BY <1>0, <1>1, <3>1, <4>1, Bounds DEF TypedColours, Coloured
      <3> QED
        BY <3>2, <3>3
    <2>2. CASE CloseBlock
      <3> DEFINE n == Len(stack) - 1
      <3>1. n \in Nat /\ n + 1 \in 1 .. Len(stack) /\ 1 \in 1 .. Len(stack)
        BY <1>0, <1>1, <2>2, EmptySeq DEF CloseBlock, TypedColours
      <3>2. stack' = SubSeq(stack, 1, n) /\ style' = stack[n + 1] /\ depth' = depth - 1 /\ depth > 0
        BY <2>2, <1>1 DEF CloseBlock, Front, Last
      <3>3. \A i \in 1 .. Len(stack) : stack[i] \in Style
        BY <1>0, ElementOfSeq DEF TypedColours
      <3>4. /\ stack' \in Seq(Style) /\ Len(stack') = n
            /\ \A i \in 1 .. n : stack'[i] = stack[i]
        <4>1. \A i \in 1 .. n : stack[i] \in Style
          BY <3>1, <3>3
        <4> HIDE DEF n
        <4>2. /\ SubSeq(stack, 1, n) \in Seq(Style)
              /\ Len(SubSeq(stack, 1, n)) = IF 1 <= n THEN n - 1 + 1 ELSE 0
              /\ \A i \in 1 .. n - 1 + 1 : SubSeq(stack, 1, n)[i] = stack[1 + i - 1]
          BY <3>1, <4>1, SubSeqProperties
        <4> QED
          BY <3>1, <3>2, <4>2
      <3>5. stack[1] = "plain" /\ Len(stack) <= depth
        BY <1>0, <2>2 DEF CloseBlock, Coloured
      <3> HIDE DEF n
      <3>6. IF stack' = <<>> THEN style' = "plain" ELSE stack'[1] = "plain"
        <4>1. CASE n = 0
          <5>1. stack' = <<>>
            BY <3>4, <4>1, EmptySeq
          <5>2. style' = stack[1]
            BY <3>2, <4>1
          <5> QED
            BY <3>5, <5>1, <5>2
        <4>2. CASE n > 0
          <5>1. stack' # <<>>
            BY <3>4, <4>2, EmptySeq
          <5>2. stack'[1] = stack[1]
            BY <3>1, <3>4, <4>2
          <5> QED
            BY <3>5, <5>1, <5>2
        <4> QED
          BY <3>1, <4>1, <4>2
      <3>7. style' \in Style
        BY <3>1, <3>2, <3>3
      <3> QED
        BY <1>0, <1>1, <3>1, <3>2, <3>4, <3>5, <3>6, <3>7, Bounds DEF TypedColours, Coloured
    <2>3. CASE CloseForgotten
      BY <1>0, <2>3 DEF CloseForgotten, TypedColours, Coloured
    <2> QED
      BY <2>1, <2>2, <2>3
  <1>3. TypedPage' /\ Room' /\ Linked'
    BY <1>0 DEF TypedPage, Room, Linked
  <1>4. TypedView' /\ Viewed' /\ ViewIsCurrent'
    BY <1>0, <1>1, StripFrame DEF TypedView
  <1> QED
    BY <1>2, <1>3, <1>4 DEF IInv

LEMMA StripEndIInv == IInv /\ StripEnd => IInv'
  <1> SUFFICES ASSUME IInv, StripEnd PROVE IInv'
    OBVIOUS
  <1> DEFINE all == IF Len(lines) < MaxLines THEN Flush ELSE lines
             cut == [i \in DOMAIN all |-> IF all[i] > Cols THEN Cols ELSE all[i]]
  <1>0. /\ TypedPage /\ TypedView /\ Linked /\ Viewed /\ pc # "view" /\ pc' = "view" /\ lines' = cut
        /\ UNCHANGED <<active, links, sel, scroll>>
        /\ text' = 0 /\ style' = "plain" /\ stack' = <<>> /\ depth' = 0 /\ skipped' = skipped
        /\ fetch' = "ready" /\ dirty' = TRUE /\ shown' = FALSE
    BY DEF IInv, StripEnd, NoBlocks, Redraw
  <1>1. all \in Seq(0 .. MaxLine) /\ Len(all) \in Nat /\ Len(all) <= MaxLines
    <2>1. CASE Len(lines) < MaxLines
      BY <1>0, <2>1, Flushed, Bounds, LenProperties
    <2>2. CASE ~(Len(lines) < MaxLines)
      BY <1>0, <2>2, LenProperties DEF TypedPage
    <2> QED
      BY <2>1, <2>2
  <1>2. all \in [1 .. Len(all) -> 0 .. MaxLine] /\ DOMAIN all = 1 .. Len(all)
    BY <1>1, LenProperties
  <1> HIDE DEF all
  <1>3. cut \in [1 .. Len(all) -> 0 .. MaxLine]
    BY <1>2, Bounds
  <1>4. cut \in Seq(0 .. MaxLine)
    <2>1. cut \in UNION {[1 .. k -> 0 .. MaxLine] : k \in Nat}
      BY <1>1, <1>3
    <2> QED
      BY <2>1, SeqDef, Zenon
  <1> HIDE DEF cut
  <1>5. Len(cut) = Len(all)
    <2>1. DOMAIN cut = 1 .. Len(cut) /\ Len(cut) \in Nat
      BY <1>4, LenProperties
    <2> QED
      BY <1>1, <1>3, <2>1
  <1>6. TypedPage' /\ Room' /\ Linked'
    BY <1>0, <1>1, <1>4, <1>5, Bounds DEF TypedPage, Room, Linked
  <1>7. TypedColours' /\ Coloured'
    <2>1. <<>> \in Seq(Style) /\ Len(<<>>) = 0
      BY EmptySeq
    <2> QED
      BY <1>0, <2>1, Bounds DEF TypedColours, Coloured, Style
  <1>8. TypedView' /\ ViewIsCurrent'
    BY <1>0 DEF TypedView, ViewIsCurrent
  <1>9. Viewed'
    <2>1. lines' = <<>> \/ 0 \in 0 .. Len(lines') - 1
      BY <1>0, <1>4, EmptySeq
    <2> QED
      BY <1>0, <2>1 DEF Viewed
  <1> QED
    BY <1>6, <1>7, <1>8, <1>9 DEF IInv

-----------------------------------------------------------------------------
(* Pages, keys and drawing *)

LEMMA NoLines == <<>> \in Seq(0 .. MaxLine) /\ Len(<<>>) = 0 /\ ErrorPage \in Seq(0 .. MaxLine) /\ Len(ErrorPage) = 1
  BY Bounds, EmptySeq DEF ErrorPage

LEMMA PageIInv == IInv /\ (Start \/ Arrives \/ ArrivesEmpty \/ Fails \/ Follow) => IInv'
  <1> SUFFICES ASSUME IInv, Start \/ Arrives \/ ArrivesEmpty \/ Fails \/ Follow PROVE IInv'
    OBVIOUS
  <1>0. TypedPage /\ TypedColours /\ TypedView /\ Room /\ Linked /\ Coloured /\ Viewed /\ pc = "view"
    BY DEF IInv, Start, Arrives, ArrivesEmpty, Fails, Follow, AtKeys
  <1>1. Len(links) \in Nat
    BY <1>0, LenProperties DEF TypedPage
  <1>2. CASE Start \/ Follow
    <2>1. /\ sel' = -1 /\ scroll' = 0 /\ active' = TRUE /\ dirty' = TRUE /\ shown' = FALSE
          /\ \/ fetch' = "loading" /\ lines' = <<>>
             \/ fetch' = "error" /\ lines' = ErrorPage
          /\ skipped' = FALSE
          /\ UNCHANGED <<links, pc, text, style, stack, depth>>
      BY <1>2 DEF Start, Follow, StartFetch, Redraw, colours
    <2>2. TypedPage' /\ Room' /\ Linked'
      <3>1. lines' \in Seq(0 .. MaxLine) /\ Len(lines') <= MaxLines
        <4>1. CASE lines' = <<>>
          BY <4>1, NoLines, Bounds
        <4>2. CASE lines' = ErrorPage
          BY <4>2, NoLines, Bounds
        <4> QED
          BY <2>1, <4>1, <4>2
      <3> QED
        BY <1>0, <2>1, <3>1 DEF TypedPage, Room, Linked
    <2>3. TypedColours' /\ Coloured'
      BY <1>0, <2>1 DEF TypedColours, Coloured
    <2>4. TypedView' /\ ViewIsCurrent'
      <3>1. sel' \in -1 .. MaxLinks - 1 /\ scroll' \in Int
        BY <2>1, Bounds
      <3>2. TypedView'
        BY <1>0, <2>1, <3>1 DEF TypedView
      <3> QED
        BY <2>1, <3>2 DEF ViewIsCurrent
    <2>5. Viewed'
      <3>1. CASE fetch' = "loading" /\ lines' = <<>>
        BY <1>0, <1>1, <2>1, <3>1 DEF Viewed
      <3>2. CASE fetch' = "error" /\ lines' = ErrorPage
        BY <1>0, <1>1, <2>1, <3>2, NoLines DEF Viewed
      <3> QED
        BY <2>1, <3>1, <3>2
    <2> QED
      BY <2>2, <2>3, <2>4, <2>5 DEF IInv
  <1>3. CASE Arrives
    <2>1. /\ lines' = <<>> /\ links' = <<>> /\ sel' = -1 /\ text' = 0 /\ style' = "plain" /\ stack' = <<>>
          /\ depth' = 0 /\ skipped' = FALSE /\ pc' = "strip" /\ fetch = "loading" /\ active
          /\ UNCHANGED <<active, fetch, scroll, dirty, shown>>
      BY <1>3 DEF Arrives, StripStart, NoBlocks
    <2>2. <<>> \in Seq(Link) /\ <<>> \in Seq(Style) /\ DOMAIN <<>> = {}
      BY EmptySeq
    <2>3. TypedPage' /\ Room' /\ Linked'
      BY <2>1, <2>2, NoLines, Bounds DEF TypedPage, Room, Linked
    <2>4. TypedColours' /\ Coloured'
      BY <2>1, <2>2, NoLines, Bounds DEF TypedColours, Coloured, Style
    <2>5. TypedView' /\ ViewIsCurrent' /\ Viewed'
      <3>1. sel' \in -1 .. MaxLinks - 1
        BY <2>1, Bounds
      <3>2. TypedView'
        BY <1>0, <2>1, <3>1 DEF TypedView
      <3>3. Viewed'
        BY <1>0, <2>1, NoLines DEF Viewed
      <3> QED
        BY <2>1, <3>2, <3>3 DEF ViewIsCurrent
    <2> QED
      BY <2>3, <2>4, <2>5 DEF IInv
  <1>4. CASE ArrivesEmpty
    <2>1. /\ fetch = "loading" /\ active /\ fetch' = "ready" /\ dirty' = TRUE /\ shown' = FALSE
          /\ UNCHANGED <<active, lines, links, sel, scroll, pc, text, style, stack, depth, skipped>>
      BY <1>4 DEF ArrivesEmpty, Redraw, view, strip, colours
    <2>2. TypedPage' /\ Room' /\ Linked' /\ TypedColours' /\ Coloured'
      BY <1>0, <2>1 DEF TypedPage, Room, Linked, TypedColours, Coloured
    <2>3. TypedView' /\ ViewIsCurrent'
      BY <1>0, <2>1 DEF TypedView, ViewIsCurrent
    <2>4. Viewed'
      BY <1>0, <2>1 DEF Viewed
    <2> QED
      BY <2>2, <2>3, <2>4 DEF IInv
  <1>5. CASE Fails
    <2>1. /\ fetch = "loading" /\ active /\ fetch' = "error" /\ lines' = ErrorPage /\ dirty' = TRUE /\ shown' = FALSE
          /\ UNCHANGED <<active, links, sel, scroll, pc, text, style, stack, depth, skipped>>
      BY <1>5 DEF Fails, Redraw, strip, colours
    <2>2. TypedPage' /\ Room' /\ Linked' /\ TypedColours' /\ Coloured'
      BY <1>0, <2>1, NoLines, Bounds DEF TypedPage, Room, Linked, TypedColours, Coloured
    <2>3. TypedView' /\ ViewIsCurrent'
      BY <1>0, <2>1 DEF TypedView, ViewIsCurrent
    <2>4. Viewed'
      BY <1>0, <2>1, NoLines DEF Viewed
    <2> QED
      BY <2>2, <2>3, <2>4 DEF IInv
  <1> QED
    BY <1>2, <1>3, <1>4, <1>5

LEMMA ScrollIInv == IInv /\ (Up \/ Down \/ PageUp \/ PageDown \/ Home \/ End) => IInv'
  <1> SUFFICES ASSUME IInv, Up \/ Down \/ PageUp \/ PageDown \/ Home \/ End PROVE IInv'
    OBVIOUS
  <1>0. /\ TypedPage /\ TypedColours /\ TypedView /\ Room /\ Linked /\ Coloured /\ Viewed
        /\ pc = "view" /\ active /\ fetch # "loading"
        /\ dirty' = TRUE /\ shown' = FALSE
        /\ UNCHANGED <<active, fetch, lines, links, sel, pc, text, style, stack, depth, skipped>>
    BY DEF IInv, Up, Down, PageUp, PageDown, Home, End, AtKeys, ScrollTo, Redraw, strip, colours
  <1>1. Len(lines) \in Nat /\ (lines = <<>> <=> Len(lines) = 0) /\ Rows \in Nat /\ Rows >= 3
    BY <1>0, EmptySeq, LenProperties, Bounds DEF TypedPage
  <1>2. IF Len(lines) = 0 THEN scroll \in {-1, 0} ELSE scroll \in 0 .. Len(lines) - 1
    BY <1>0, <1>1 DEF Viewed
  <1>3. IF Len(lines) = 0 THEN scroll' \in {-1, 0} ELSE scroll' \in 0 .. Len(lines) - 1
    <2>1. CASE Up
      BY <1>1, <1>2, <2>1 DEF Up, ScrollTo
    <2>2. CASE Down
      BY <1>1, <1>2, <2>2 DEF Down, ScrollTo
    <2>3. CASE PageUp
      BY <1>1, <1>2, <2>3 DEF PageUp, ScrollTo
    <2>4. CASE PageDown
      BY <1>1, <1>2, <2>4 DEF PageDown, ScrollTo
    <2>5. CASE Home
      BY <1>1, <1>2, <2>5 DEF Home, ScrollTo
    <2>6. CASE End
      BY <1>1, <1>2, <2>6 DEF End, ScrollTo
    <2> QED
      BY <2>1, <2>2, <2>3, <2>4, <2>5, <2>6
  <1>4. TypedPage' /\ Room' /\ Linked' /\ TypedColours' /\ Coloured'
    BY <1>0 DEF TypedPage, Room, Linked, TypedColours, Coloured
  <1>5. TypedView' /\ ViewIsCurrent'
    <2>1. scroll' \in Int
      BY <1>1, <1>3
    <2>2. TypedView'
      BY <1>0, <2>1 DEF TypedView
    <2> QED
      BY <1>0, <2>2 DEF ViewIsCurrent
  <1>6. Viewed'
    BY <1>0, <1>1, <1>3 DEF Viewed
  <1> QED
    BY <1>4, <1>5, <1>6 DEF IInv

LEMMA OtherIInv == IInv /\ (Leave \/ Tab \/ Render \/ UNCHANGED vars) => IInv'
  <1> SUFFICES ASSUME IInv, Leave \/ Tab \/ Render \/ UNCHANGED vars PROVE IInv'
    OBVIOUS
  <1>0. /\ TypedPage /\ TypedColours /\ TypedView /\ Room /\ Linked /\ Coloured /\ Viewed /\ ViewIsCurrent
        /\ UNCHANGED <<lines, links, scroll, pc, text, style, stack, depth, skipped>>
    BY DEF IInv, Leave, Tab, Render, vars, view, strip, colours
  <1>1. TypedPage' /\ Room' /\ Linked' /\ TypedColours' /\ Coloured'
    BY <1>0 DEF TypedPage, Room, Linked, TypedColours, Coloured
  <1>2. TypedView' /\ ViewIsCurrent' /\ Viewed'
    <2>1. CASE Leave
      <3>1. active' = FALSE /\ pc = "view" /\ fetch' \in {"idle", fetch} /\ UNCHANGED <<sel, dirty, shown>>
        BY <2>1 DEF Leave, view
      <3> QED
        BY <1>0, <3>1 DEF TypedView, ViewIsCurrent, Viewed
    <2>2. CASE Tab
      <3>1. /\ dirty' = TRUE /\ shown' = FALSE /\ UNCHANGED <<active, fetch>> /\ links # <<>>
            /\ sel' = IF sel < 0 THEN 0 ELSE (sel + 1) % Len(links)
        BY <2>2 DEF Tab, Redraw
      <3>2. Len(links) \in Nat \ {0} /\ Len(links) <= MaxLinks /\ sel \in Int
        BY <1>0, <3>1, EmptySeq DEF TypedPage, TypedView
      <3>3. sel' \in 0 .. Len(links) - 1
        BY <3>1, <3>2
      <3>4. sel' \in -1 .. MaxLinks - 1
        BY <3>2, <3>3, Bounds
      <3> QED
        <4>1. TypedView'
          BY <1>0, <3>1, <3>4 DEF TypedView
        <4>2. Viewed'
          BY <1>0, <3>1, <3>2, <3>3 DEF Viewed
        <4> QED
          BY <3>1, <4>1, <4>2 DEF ViewIsCurrent
    <2>3. CASE Render
      <3>1. dirty' = FALSE /\ shown' = TRUE /\ UNCHANGED <<active, fetch, sel>>
        BY <2>3 DEF Render, view
      <3> QED
        BY <1>0, <3>1 DEF TypedView, ViewIsCurrent, Viewed
    <2>4. CASE UNCHANGED vars
      BY <1>0, <2>4 DEF TypedView, ViewIsCurrent, Viewed, vars, view
    <2> QED
      BY <2>1, <2>2, <2>3, <2>4
  <1> QED
    BY <1>1, <1>2 DEF IInv

-----------------------------------------------------------------------------
LEMMA InitIInv == Init => IInv
  <1> SUFFICES ASSUME Init PROVE IInv
    OBVIOUS
  <1>1. <<>> \in Seq(Link) /\ <<>> \in Seq(Style) /\ DOMAIN <<>> = {} /\ Len(<<>>) = 0 /\ 0 \in -1 .. MaxLinks - 1
    BY EmptySeq, Bounds
  <1>2. TypedPage /\ Room /\ Linked /\ TypedColours /\ Coloured
    BY <1>1, NoLines, Bounds DEF Init, TypedPage, Room, Linked, TypedColours, Coloured, Style
  <1>3. TypedView /\ Viewed /\ ViewIsCurrent
    <2>1. TypedView
      <3>1. active \in BOOLEAN /\ dirty \in BOOLEAN /\ shown \in BOOLEAN /\ skipped \in BOOLEAN
        BY Zenon DEF Init
      <3>2. scroll \in Int /\ sel \in -1 .. MaxLinks - 1
        BY <1>1 DEF Init
      <3>3. fetch \in {"idle", "loading", "ready", "error"} /\ pc \in {"view", "strip", "title"}
        BY Zenon DEF Init
      <3> QED
        BY <3>1, <3>2, <3>3, Zenon DEF TypedView
    <2> QED
      BY <2>1 DEF Init, Viewed, ViewIsCurrent
  <1> QED
    BY <1>2, <1>3 DEF IInv

LEMMA SpecIInv == Spec => []IInv
  <1>1. IInv /\ [Next]_vars => IInv'
    BY CharIInv, EndOfLineIInv, LinkIInv, TitleIInv, BlockIInv, StripEndIInv, PageIInv, ScrollIInv, OtherIInv
       DEF Next, Strip, Page, Keys
  <1> QED
    BY <1>1, InitIInv, PTL DEF Spec

\* The first row of the screen is a line of the page, where it has any, and the selected link is one
\* there is, whatever pages come and go, for every number of rows and links.
THEOREM ViewStaysInPage == Spec => []ViewIsInPage
  <1>1. IInv => ViewIsInPage
    <2> SUFFICES ASSUME IInv, active PROVE ViewIsInPage
      BY DEF ViewIsInPage
    <2>0. TypedPage /\ Viewed
      BY DEF IInv
    <2>1. lines = <<>> \/ 0 \in 0 .. Len(lines) - 1
      BY <2>0, EmptySeq DEF TypedPage
    <2> QED
      BY <2>0, <2>1 DEF Viewed, ViewIsInPage
  <1> QED
    BY <1>1, SpecIInv, PTL

\* A link is shown on the line of its first character, unless a tag between the two ends a line.
THEOREM LinksStayOnTheirText == Spec => []LinkIsOnItsText
  <1>1. IInv => LinkIsOnItsText
    BY DEF IInv, Linked, LinkIsOnItsText
  <1> QED
    BY <1>1, SpecIInv, PTL

-----------------------------------------------------------------------------
(* Blocks within blocks.  As long as no more blocks were open than the stack remembers it holds the
   colours around each of them; after that no more than there are blocks. *)

Nested ==
    /\ around \in Seq(Style) /\ over \in BOOLEAN /\ taken \in Nat
    /\ Len(stack) <= Len(around) /\ Len(around) <= depth
    /\ over \/ stack = around
    /\ pc = "view" => around = <<>>

LEMMA FrontOf ==
    ASSUME NEW q \in Seq(Style), q # <<>>
    PROVE  Front(q) \in Seq(Style) /\ Len(Front(q)) = Len(q) - 1 /\ Len(q) \in Nat \ {0}
  <1> DEFINE n == Len(q) - 1
  <1>1. n \in Nat /\ Len(q) \in Nat \ {0}
    BY EmptySeq, LenProperties
  <1>2. \A i \in 1 .. n : q[i] \in Style
    BY <1>1, ElementOfSeq
  <1>3. Front(q) = SubSeq(q, 1, n)
    BY DEF Front
  <1> HIDE DEF n
  <1>4. /\ SubSeq(q, 1, n) \in Seq(Style)
        /\ Len(SubSeq(q, 1, n)) = IF 1 <= n THEN n - 1 + 1 ELSE 0
    BY <1>1, <1>2, SubSeqProperties
  <1>5. Len(SubSeq(q, 1, n)) = n
    BY <1>1, <1>4
  <1> QED
    BY <1>1, <1>3, <1>4, <1>5 DEF n

\* A block that opens: it is put on both, or is one too many.
LEMMA NestedOpen == IInv /\ Nested /\ OpenBlock => Nested'
  <1> SUFFICES ASSUME IInv, Nested, OpenBlock PROVE Nested'
    OBVIOUS
  <1>1. /\ stack \in Seq(Style) /\ Len(stack) \in Nat /\ style \in Style /\ depth \in Nat
        /\ around \in Seq(Style) /\ Len(around) \in Nat
    BY LenProperties DEF IInv, TypedColours, Nested
  <1>2. /\ depth' = depth + 1 /\ around' = Append(around, style)
        /\ over' = (over \/ Len(stack) >= StackSize)
        /\ stack' = IF Len(stack) < StackSize THEN Append(stack, style) ELSE stack
        /\ UNCHANGED <<pc, taken>> /\ pc = "strip"
    BY DEF OpenBlock, Nest, Stripping
  <1>3. around' \in Seq(Style) /\ Len(around') = Len(around) + 1
    BY <1>1, <1>2, AppendProperties
  <1>4. Len(stack') <= Len(stack) + 1
    <2>1. Len(Append(stack, style)) = Len(stack) + 1
      BY <1>1, AppendProperties
    <2>2. stack' = Append(stack, style) \/ stack' = stack
      BY <1>2
    <2> QED
      BY <1>1, <2>1, <2>2
  <1>5. over' \/ stack' = around'
    <2>1. CASE Len(stack) < StackSize
      BY <1>2, <2>1 DEF Nested
    <2>2. CASE ~(Len(stack) < StackSize)
      <3>1. Len(stack) >= StackSize
        BY <1>1, <2>2, Bounds
      <3> QED
        BY <1>2, <3>1
    <2> QED
      BY <2>1, <2>2
  <1>6. Len(stack') \in Nat /\ over' \in BOOLEAN
    <2>1. stack' \in Seq(Style)
      BY <1>1, <1>2, AppendProperties
    <2>2. over' \in BOOLEAN
      BY <1>2, Zenon DEF Nested
    <2> QED
      BY <2>1, <2>2, LenProperties
  <1> QED
    BY <1>1, <1>2, <1>3, <1>4, <1>5, <1>6 DEF Nested

\* A block that closes: its colours, if any are left, and the block.
LEMMA NestedClose == IInv /\ Nested /\ (CloseBlock \/ CloseForgotten) => Nested'
  <1> SUFFICES ASSUME IInv, Nested, CloseBlock \/ CloseForgotten PROVE Nested'
    OBVIOUS
  <1>1. /\ stack \in Seq(Style) /\ Len(stack) \in Nat /\ depth \in Nat
        /\ around \in Seq(Style) /\ Len(around) \in Nat
    BY LenProperties DEF IInv, TypedColours, Nested
  <1>2. /\ around' = Front(around) /\ over' = (over /\ Len(around) > 1)
        /\ UNCHANGED <<pc, taken>> /\ pc = "strip"
    BY DEF CloseBlock, CloseForgotten, Unnest, Stripping
  <1>3. around # <<>>
    <2>1. CASE CloseBlock
      <3>1. Len(stack) > 0
        BY <1>1, <2>1, EmptySeq DEF CloseBlock
      <3> QED
        BY <1>1, <3>1, EmptySeq DEF Nested
    <2> QED
      BY <2>1 DEF CloseForgotten
  <1>4. around' \in Seq(Style) /\ Len(around') = Len(around) - 1 /\ Len(around) \in Nat \ {0}
    BY <1>1, <1>2, <1>3, FrontOf
  <1>5. over' \in BOOLEAN
    BY <1>2, Zenon DEF Nested
  <1>6. /\ Len(stack') \in Nat /\ Len(stack') <= Len(around') /\ Len(around') <= depth'
        /\ over' \/ stack' = around'
    <2>1. CASE CloseBlock
      <3>1. stack' = Front(stack) /\ stack # <<>> /\ depth' = depth - 1
        BY <2>1 DEF CloseBlock
      <3>2. Len(stack') = Len(stack) - 1 /\ Len(stack) \in Nat \ {0} /\ stack' \in Seq(Style)
        BY <1>1, <3>1, FrontOf
      <3>3. /\ Len(stack') \in Nat /\ Len(stack') <= Len(around') /\ Len(around') <= depth'
        BY <1>1, <1>4, <3>1, <3>2 DEF Nested
      <3>4. over' \/ stack' = around'
        <4>1. CASE ~over
          BY <1>2, <3>1, <4>1 DEF Nested
        <4>2. CASE over /\ ~(Len(around) > 1)
          <5>1. Len(around') = 0 /\ Len(stack') = 0
            BY <1>4, <3>2, <3>3, <4>2
          <5> QED
            BY <1>4, <3>2, <5>1, EmptySeq
        <4> QED
          BY <1>2, <4>1, <4>2
      <3> QED
        BY <3>3, <3>4
    <2>2. CASE CloseForgotten
      <3>1. stack = <<>> /\ stack' = <<>> /\ depth' = depth
        BY <2>2 DEF CloseForgotten
      <3>2. Len(stack') = 0
        BY <3>1, EmptySeq
      <3>3. over
        BY <1>3, <3>1 DEF Nested
      <3>4. over' \/ stack' = around'
        <4>1. CASE ~(Len(around) > 1)
          BY <1>4, <3>1, <4>1, EmptySeq
        <4> QED
          BY <1>2, <3>3, <4>1
      <3> QED
        BY <1>1, <1>4, <3>1, <3>2, <3>4 DEF Nested
    <2> QED
      BY <2>1, <2>2
  <1> QED
    BY <1>2, <1>4, <1>5, <1>6 DEF Nested

LEMMA NestedStep == IInv /\ Nested /\ [Next]_vars => Nested'
  <1> SUFFICES ASSUME IInv, Nested, [Next]_vars PROVE Nested'
    OBVIOUS
  <1>1. CASE OpenBlock
    BY <1>1, NestedOpen
  <1>2. CASE CloseBlock \/ CloseForgotten
    BY <1>2, NestedClose
  <1>3. CASE Arrives \/ StripEnd
    <2>1. /\ stack' = <<>> /\ around' = <<>> /\ over' = FALSE /\ depth' = 0 /\ taken' \in {0, taken}
      BY <1>3 DEF Arrives, StripStart, StripEnd, NoBlocks
    <2>2. <<>> \in Seq(Style) /\ Len(<<>>) = 0
      BY EmptySeq
    <2>3. over' \in BOOLEAN
      BY <2>1, Zenon
    <2> QED
      BY <2>1, <2>2, <2>3 DEF Nested
  <1>4. CASE Char \/ LineTag \/ ParagraphTag \/ ItemTag \/ LinkTag \/ TitleTag \/ TitleChar \/ TitleEnd
    <2>1. UNCHANGED <<stack, depth, around, over>> /\ taken' \in {taken, taken + 1} /\ pc' # "view"
      BY <1>4 DEF Char, LineTag, ParagraphTag, ItemTag, LinkTag, TitleTag, TitleChar, TitleEnd, Stripping,
                  strip, colours
    <2>2. taken' \in Nat
      BY <2>1 DEF Nested
    <2> QED
      BY <2>1, <2>2 DEF Nested
  <1>5. CASE Start \/ ArrivesEmpty \/ Fails \/ Keys \/ Render \/ UNCHANGED vars
    <2>1. UNCHANGED <<stack, depth, around, over, pc>> /\ taken' \in {0, taken}
      BY <1>5 DEF Start, StartFetch, ArrivesEmpty, Fails, Keys, Leave, Up, Down, PageUp, PageDown, Home, End,
                  ScrollTo, Tab, Follow, Render, vars, strip, colours
    <2> QED
      BY <2>1 DEF Nested
  <1> QED
    BY <1>1, <1>2, <1>3, <1>4, <1>5 DEF Next, Strip, Page

LEMMA SpecNested == Spec => []Nested
  <1>1. Init => Nested
    <2>1. <<>> \in Seq(Style) /\ Len(<<>>) = 0
      BY EmptySeq
    <2>2. Init => over \in BOOLEAN
      BY Zenon DEF Init
    <2>3. Init => around = <<>> /\ stack = <<>> /\ depth = 0 /\ taken = 0
      BY DEF Init
    <2> QED
      BY <2>1, <2>2, <2>3 DEF Nested
  <1> QED
    BY <1>1, NestedStep, SpecIInv, PTL DEF Spec

\* Whatever the page, html_strip overruns none of its arrays and no count leaves its range.
THEOREM BrowserKeepsTypes == Spec => []TypeOK
  <1>1. IInv /\ Nested => TypeOK
    <2> SUFFICES ASSUME IInv, Nested PROVE TypeOK
      OBVIOUS
    <2>0. TypedPage /\ TypedColours /\ TypedView
      BY DEF IInv
    <2>1. {active, dirty, shown, over, skipped} \subseteq BOOLEAN
      BY <2>0, Zenon DEF TypedView, Nested
    <2>2. \A i \in DOMAIN links : links[i].line \in 0 .. MaxLines - 1 /\ links[i].on \in Place
      <3>1. \A i \in DOMAIN links : links[i] \in Link
        BY <2>0, LenProperties DEF TypedPage
      <3> QED
        BY <3>1 DEF Link
    <2> QED
      BY <2>0, <2>1, <2>2 DEF TypedPage, TypedColours, TypedView, Nested, TypeOK, Place, Style
  <1> QED
    BY <1>1, SpecIInv, SpecNested, PTL

\* Outside of all blocks text is plain, for every size of the stack and every nesting; and a block that
\* closes gives back the colours around it, as long as no more were open than the stack remembers.
THEOREM ColoursDoEnd == Spec => ColoursEnd
  <1>1. IInv' /\ Nested' => (around' = <<>> => style' = "plain")
    <2> SUFFICES ASSUME IInv', Nested', around' = <<>> PROVE style' = "plain"
      OBVIOUS
    <2>1. stack' = <<>>
      BY EmptySeq, LenProperties DEF IInv, TypedColours, Nested
    <2> QED
      BY <2>1 DEF IInv, Coloured
  <1>2. IInv /\ Nested /\ [Next]_vars
            => ((pc' = "strip" /\ Len(around') < Len(around) /\ ~over) => style' = Last(around))
    <2> SUFFICES ASSUME IInv, Nested, [Next]_vars, pc' = "strip", Len(around') < Len(around), ~over
                 PROVE  style' = Last(around)
      OBVIOUS
    <2>1. stack = around /\ Len(around) \in Nat /\ around # <<>>
      <3>1. Len(around) \in Nat /\ Len(around') \in Nat
        BY NestedStep, LenProperties DEF Nested
      <3> QED
        BY <3>1, EmptySeq DEF Nested
    <2>2. CASE CloseBlock
      BY <2>1, <2>2 DEF CloseBlock
    <2>3. CASE CloseForgotten
      BY <2>1, <2>3 DEF CloseForgotten
    <2>4. CASE OpenBlock
      <3>1. Len(around') = Len(around) + 1
        BY <2>4, AppendProperties DEF OpenBlock, Nest, IInv, TypedColours, Nested
      <3> QED
        BY <2>1, <3>1
    <2>5. CASE StripEnd \/ Arrives
      BY <2>1, <2>5 DEF StripEnd, Arrives, Nested
    <2>6. CASE UNCHANGED around
      BY <2>1, <2>6
    <2>7. CASE Char \/ LineTag \/ ParagraphTag \/ ItemTag \/ LinkTag \/ TitleTag \/ TitleChar \/ TitleEnd
      BY <2>6, <2>7 DEF Char, LineTag, ParagraphTag, ItemTag, LinkTag, TitleTag, TitleChar, TitleEnd, strip, colours
    <2>8. CASE Start \/ ArrivesEmpty \/ Fails \/ Keys \/ Render \/ UNCHANGED vars
      BY <2>6, <2>8 DEF Start, StartFetch, ArrivesEmpty, Fails, Keys, Leave, Up, Down, PageUp, PageDown, Home, End,
                        ScrollTo, Tab, Follow, Render, vars, strip, colours
    <2> QED
      BY <2>2, <2>3, <2>4, <2>5, <2>7, <2>8 DEF Next, Strip, Page
  <1>3. IInv /\ Nested /\ IInv' /\ Nested' /\ [Next]_vars
            => [/\ around' = <<>> => style' = "plain"
                /\ (pc' = "strip" /\ Len(around') < Len(around) /\ ~over) => style' = Last(around)]_vars
    BY <1>1, <1>2
  <1> QED
    BY <1>3, SpecIInv, SpecNested, PTL DEF Spec, ColoursEnd

\* What asks for no drawing has changed nothing that is shown.
THEOREM ViewStaysCurrent == Spec => []ViewIsCurrent
  <1>1. IInv => ViewIsCurrent
    BY DEF IInv
  <1> QED
    BY <1>1, SpecIInv, PTL

-----------------------------------------------------------------------------
(* The characters of the page *)

\* A set with 0 that is closed under successor up to n holds 0 .. n: else there were a least number
\* that is missing, and its predecessor would be missing too.
LEMMA Induction ==
    ASSUME NEW n \in Nat, NEW S, 0 \in S, \A k \in 0 .. n - 1 : k \in S => k + 1 \in S
    PROVE  \A k \in 0 .. n : k \in S
  <1> DEFINE Less == {p \in Nat \X Nat : p[1] < p[2]}
             Miss == {k \in 0 .. n : k \notin S}
  <1>1. SUFFICES ASSUME Miss # {} PROVE FALSE
    BY <1>1
  <1>2. IsWellFoundedOn(Less, Nat)
    BY NatLessThanWellFounded DEF OpToRel
  <1>3. Miss \subseteq Nat
    OBVIOUS
  <1> HIDE DEF Less
  <1>4. PICK k \in Miss : \A j \in Miss : <<j, k>> \notin Less
    BY <1>1, <1>2, <1>3, WFMin
  <1>5. k - 1 \in Miss
    BY DEF Miss
  <1>6. <<k - 1, k>> \in Less
    BY <1>5 DEF Less
  <1> QED
    BY <1>4, <1>5, <1>6

\* The running sums of lines, as Characters adds them.
IsSum(s, ls) ==
    /\ s[0] = 0
    /\ \A k \in 1 .. Len(ls) : s[k] = s[k - 1] + ls[k]

\* They exist, and Characters is the last of them.
LEMMA CharactersIs ==
    ASSUME NEW ls \in Seq(Nat)
    PROVE  \E s : /\ s \in [0 .. Len(ls) -> Nat]
                  /\ IsSum(s, ls)
                  /\ Characters(ls) = s[Len(ls)]
  <1> DEFINE n == Len(ls)
             Is(g, m) == g = [k \in 0 .. m |-> IF k = 0 THEN 0 ELSE g[k - 1] + ls[k]]
             Has == {m \in 0 .. n : \E g : Is(g, m)}
  <1>1. n \in Nat /\ 0 \in 0 .. n /\ \A k \in 1 .. n : ls[k] \in Nat
    OBVIOUS
  <1> HIDE DEF n
  <1>2. 0 \in Has
    <2> DEFINE g == [k \in 0 .. 0 |-> IF k = 0 THEN 0 ELSE 0 + ls[k]]
    <2>1. \A k \in 0 .. 0 : k = 0
      OBVIOUS
    <2>2. g = [k \in 0 .. 0 |-> IF k = 0 THEN 0 ELSE g[k - 1] + ls[k]]
      BY <2>1
    <2> HIDE DEF g
    <2> QED
      BY ONLY <1>1, <2>2
  <1>3. \A m \in 0 .. n - 1 : m \in Has => m + 1 \in Has
    <2>1. SUFFICES ASSUME NEW m \in 0 .. n - 1, m \in Has PROVE m + 1 \in Has
      BY <2>1
    <2>2. PICK g : Is(g, m)
      BY <2>1
    <2>3. \A k \in 0 .. m : g[k] = IF k = 0 THEN 0 ELSE g[k - 1] + ls[k]
      BY ONLY <2>2
    <2> HIDE DEF Is
    <2> DEFINE h == [k \in 0 .. m + 1 |-> IF k <= m THEN g[k] ELSE g[m] + ls[k]]
    <2>4. \A k \in 0 .. m + 1 : h[k] = IF k = 0 THEN 0 ELSE h[k - 1] + ls[k]
      <3>1. SUFFICES ASSUME NEW k \in 0 .. m + 1
                     PROVE  h[k] = IF k = 0 THEN 0 ELSE h[k - 1] + ls[k]
        BY <3>1
      <3>2. CASE k = 0
        BY <2>3, <3>2
      <3>3. CASE k # 0 /\ k <= m
        <4>1. k \in 0 .. m /\ h[k] = g[k] /\ h[k - 1] = g[k - 1]
          BY <3>3
        <4> QED
          BY ONLY <2>3, <3>3, <4>1
      <3>4. CASE k = m + 1
        <4>1. /\ k \in 0 .. m + 1 /\ k - 1 \in 0 .. m + 1
              /\ ~ (k <= m) /\ k - 1 <= m /\ k - 1 = m /\ k # 0
          BY <3>4
        <4>2. h[k] = g[m] + ls[k] /\ h[k - 1] = g[m]
          BY ONLY <4>1
        <4> QED
          BY ONLY <4>1, <4>2
      <3> QED
        BY <3>2, <3>3, <3>4
    <2>5. Is(h, m + 1)
      <3>1. h = [k \in 0 .. m + 1 |-> h[k]]
        OBVIOUS
      <3> HIDE DEF h
      <3> QED
        BY ONLY <2>4, <3>1 DEF Is
    <2> HIDE DEF h
    <2>6. m + 1 \in 0 .. n
      BY <1>1
    <2> QED
      BY <2>5, <2>6
  <1>4. \E g : Is(g, n)
    <2>1. n \in 0 .. n
      BY <1>1
    <2> HIDE DEF Is
    <2>2. \A m \in 0 .. n : m \in Has
      <3> HIDE DEF Has
      <3> QED
        BY ONLY <1>1, <1>2, <1>3, Induction
    <2> QED
      BY <2>1, <2>2
  <1> DEFINE s == CHOOSE g : Is(g, n)
  <1>5. Is(s, n)
    <2> HIDE DEF Is
    <2> QED
      BY <1>4
  <1>6. Characters(ls) = s[n]
    BY DEF Characters, n
  <1> HIDE DEF s
  <1>7. \A k \in 0 .. n : s[k] = IF k = 0 THEN 0 ELSE s[k - 1] + ls[k]
    BY ONLY <1>5
  <1>8. \A k \in 0 .. n : s[k] \in Nat
    <2> DEFINE Num == {k \in 0 .. n : s[k] \in Nat}
    <2>1. 0 \in Num
      BY <1>1, <1>7
    <2>2. \A k \in 0 .. n - 1 : k \in Num => k + 1 \in Num
      <3>1. SUFFICES ASSUME NEW k \in 0 .. n - 1, s[k] \in Nat
                     PROVE  k + 1 \in 0 .. n /\ s[k + 1] \in Nat
        BY <3>1
      <3>2. k + 1 \in 0 .. n /\ k + 1 # 0 /\ (k + 1) - 1 = k /\ k + 1 \in 1 .. n
        BY <1>1
      <3>3. s[k + 1] = s[(k + 1) - 1] + ls[k + 1] /\ ls[k + 1] \in Nat
        BY ONLY <1>1, <1>7, <3>2
      <3> QED
        BY ONLY <3>1, <3>2, <3>3
    <2> HIDE DEF Num
    <2>3. \A k \in 0 .. n : k \in Num
      BY ONLY <1>1, <2>1, <2>2, Induction
    <2> QED
      BY <2>3 DEF Num
  <1>9. s = [k \in 0 .. n |-> s[k]]
    BY ONLY <1>5
  <1>10. s \in [0 .. n -> Nat]
    BY ONLY <1>8, <1>9
  <1>11. IsSum(s, ls)
    <2>1. s[0] = 0
      BY ONLY <1>1, <1>7
    <2>2. ASSUME NEW k \in 1 .. n PROVE s[k] = s[k - 1] + ls[k]
      <3>1. k \in 0 .. n /\ k # 0
        BY <1>1
      <3> QED
        BY ONLY <1>7, <3>1
    <2> QED
      BY ONLY <2>1, <2>2 DEF IsSum, n
  <1> QED
    BY ONLY <1>6, <1>10, <1>11 DEF n

\* A line more adds its characters.
LEMMA CharactersOfAppend ==
    ASSUME NEW ls \in Seq(Nat), NEW c \in Nat
    PROVE  /\ Characters(ls) \in Nat
           /\ Characters(Append(ls, c)) = Characters(ls) + c
  <1> DEFINE n == Len(ls)
             ms == Append(ls, c)
  <1>1. /\ n \in Nat /\ ms \in Seq(Nat) /\ Len(ms) = n + 1 /\ ms[n + 1] = c
        /\ \A k \in 1 .. n : ms[k] = ls[k]
    OBVIOUS
  <1> HIDE DEF ms
  <1>2. PICK s : s \in [0 .. n -> Nat] /\ IsSum(s, ls) /\ Characters(ls) = s[n]
    BY CharactersIs
  <1>3. PICK t : t \in [0 .. n + 1 -> Nat] /\ IsSum(t, ms) /\ Characters(ms) = t[n + 1]
    BY <1>1, CharactersIs
  <1> HIDE DEF n
  <1>4. \A k \in 0 .. n : t[k] = s[k]
    <2> DEFINE Same == {k \in 0 .. n : t[k] = s[k]}
    <2>1. 0 \in Same
      BY <1>1, <1>2, <1>3 DEF IsSum
    <2>2. \A k \in 0 .. n - 1 : k \in Same => k + 1 \in Same
      <3>1. SUFFICES ASSUME NEW k \in 0 .. n - 1, t[k] = s[k]
                     PROVE  k + 1 \in 0 .. n /\ t[k + 1] = s[k + 1]
        BY <3>1
      <3>2. k + 1 \in 0 .. n /\ (k + 1) - 1 = k /\ k + 1 \in 1 .. n /\ k + 1 \in 1 .. n + 1
        BY <1>1
      <3>3. s[k + 1] = s[(k + 1) - 1] + ls[k + 1]
        BY ONLY <1>2, <3>2 DEF IsSum, n
      <3>4. t[k + 1] = t[(k + 1) - 1] + ms[k + 1]
        BY ONLY <1>1, <1>3, <3>2 DEF IsSum
      <3>5. ms[k + 1] = ls[k + 1]
        BY ONLY <1>1, <3>2
      <3> QED
        BY ONLY <3>1, <3>2, <3>3, <3>4, <3>5
    <2> HIDE DEF Same
    <2>3. \A k \in 0 .. n : k \in Same
      BY ONLY <1>1, <2>1, <2>2, Induction
    <2> QED
      BY <2>3 DEF Same
  <1>5. n \in 0 .. n /\ n + 1 \in 1 .. n + 1 /\ (n + 1) - 1 = n
    BY <1>1
  <1>6. t[n + 1] = t[(n + 1) - 1] + ms[n + 1]
    BY ONLY <1>1, <1>3, <1>5 DEF IsSum
  <1>7. s[n] \in Nat
    BY <1>2, <1>5
  <1> QED
    BY ONLY <1>1, <1>2, <1>3, <1>4, <1>5, <1>6, <1>7 DEF ms

\* No lines have no characters.
LEMMA NoCharacters == Characters(<<>>) = 0
  <1>1. <<>> \in Seq(Nat) /\ Len(<<>>) = 0
    OBVIOUS
  <1>2. PICK s : IsSum(s, <<>>) /\ Characters(<<>>) = s[Len(<<>>)]
    BY <1>1, CharactersIs
  <1> QED
    BY <1>1, <1>2 DEF IsSum

\* Storing the collected text as a line keeps the sum, and so does an empty line after it.
LEMMA FlushKeeps ==
    ASSUME IInv
    PROVE  /\ Characters(lines) \in Nat
           /\ Characters(Flush) = Characters(lines) + text
           /\ Characters(Append(Flush, 0)) = Characters(lines) + text
  <1>1. lines \in Seq(Nat) /\ text \in Nat
    <2>1. lines \in Seq(0 .. MaxLine) /\ text \in 0 .. MaxLine /\ MaxLine \in Nat
      BY Bounds DEF IInv, TypedPage
    <2> QED
      BY <2>1
  <1> DEFINE total == Characters(lines)
  <1>2. total \in Nat /\ \A c \in Nat : Characters(Append(lines, c)) = total + c
    BY <1>1, CharactersOfAppend
  <1>2a. total \in Nat /\ text \in Nat
    BY <1>1, <1>2
  <1>4. /\ Characters(Flush) = total + text
        /\ Characters(Append(Flush, 0)) = total + text
    <2>1. Characters(Flush) = total + text
      <3>1. CASE text > 0
        <4>1. Flush = Append(lines, text)
          BY <3>1 DEF Flush
        <4> QED
          BY <1>2, <1>2a, <4>1
      <3>2. CASE ~ (text > 0)
        <4>1. Flush = lines
          BY <3>2 DEF Flush
        <4>2. text = 0
          BY ONLY <1>2a, <3>2
        <4> HIDE DEF total
        <4>3. total = total + text
          BY ONLY <1>2a, <4>2
        <4> QED
          BY <4>1, <4>3 DEF total
      <3> QED
        BY <3>1, <3>2
    <2>2. Flush \in Seq(Nat)
      BY <1>1 DEF Flush
    <2>3. Characters(Append(Flush, 0)) = Characters(Flush) + 0
      BY <2>2, CharactersOfAppend
    <2> HIDE DEF total
    <2>4. total + text + 0 = total + text
      BY ONLY <1>2a
    <2> QED
      BY <2>1, <2>3, <2>4
  <1> HIDE DEF total
  <1> QED
    BY <1>2a, <1>4 DEF total

\* While a page is awaited none of its characters has been taken.
Awaited == (pc = "view" /\ fetch = "loading") => taken = 0

\* Each step of html_strip takes as many characters as it adds to lines and collected text.
LEMMA TextStep ==
    ASSUME IInv, TextIsKept, [Next]_vars
    PROVE  (pc' # "view" /\ ~skipped') => taken' = Characters(lines') + text'
  <1> SUFFICES ASSUME pc' # "view", ~skipped'
               PROVE  taken' = Characters(lines') + text'
    OBVIOUS
  <1>1. lines \in Seq(Nat) /\ text \in Nat /\ MaxLine \in Nat
    <2>1. lines \in Seq(0 .. MaxLine) /\ text \in 0 .. MaxLine /\ MaxLine \in Nat
      BY Bounds DEF IInv, TypedPage
    <2> QED
      BY <2>1
  <1> DEFINE total == Characters(lines)
  <1>2. total \in Nat /\ \A c \in Nat : Characters(Append(lines, c)) = total + c
    BY <1>1, CharactersOfAppend
  <1>2a. total \in Nat /\ text \in Nat /\ MaxLine \in Nat
    BY <1>1, <1>2
  <1>3. (pc # "view" /\ ~skipped) => taken = total + text
    BY DEF TextIsKept
  <1>4. /\ Characters(Flush) = total + text
        /\ Characters(Append(Flush, 0)) = total + text
    BY FlushKeeps
  <1> HIDE DEF total
  <1>5. CASE Char
    <2>1. pc # "view" /\ ~skipped /\ taken' = taken + 1
      BY <1>5 DEF Char, Stripping
    <2>2. taken = total + text
      BY <1>3, <2>1
    <2>3. taken' = total + (text + 1)
      BY ONLY <1>2a, <2>1, <2>2
    <2>4. CASE text + 1 = MaxLine
      <3>1. lines' = Append(lines, MaxLine) /\ text' = 0
        BY <1>5, <2>4 DEF Char
      <3>2. Characters(lines') = total + MaxLine
        BY <1>2, <1>2a, <3>1
      <3>3. taken' = total + MaxLine
        BY <2>3, <2>4
      <3>4. total + MaxLine = (total + MaxLine) + 0
        BY ONLY <1>2a
      <3> QED
        BY <3>1, <3>2, <3>3, <3>4
    <2>5. CASE text + 1 # MaxLine
      <3>1. lines' = lines /\ text' = text + 1
        BY <1>5, <2>5 DEF Char
      <3>2. Characters(lines') = total
        BY <3>1 DEF total
      <3> QED
        BY <2>3, <3>1, <3>2
    <2> QED
      BY <2>4, <2>5
  <1>6. CASE LineTag \/ TitleEnd
    <2>1. pc # "view" /\ taken' = taken /\ lines' = Flush /\ text' = 0
      BY <1>6 DEF LineTag, TitleEnd, Stripping
    <2>2. ~skipped
      BY <1>6, Zenon DEF LineTag, TitleEnd
    <2>3. taken' = total + text /\ Characters(lines') = total + text
      BY <1>3, <1>4, <2>1, <2>2
    <2>4. total + text = (total + text) + 0
      BY ONLY <1>2a
    <2> QED
      BY <2>1, <2>3, <2>4
  <1>7. CASE ParagraphTag
    <2>1. /\ pc # "view" /\ ~skipped /\ taken' = taken /\ text' = 0
          /\ lines' = Append(Flush, 0) \/ lines' = Flush
      BY <1>7 DEF ParagraphTag, Stripping
    <2>2. taken' = total + text
      BY <1>3, <2>1
    <2>3. Characters(lines') = total + text
      BY <1>4, <2>1
    <2>4. total + text = (total + text) + 0
      BY ONLY <1>2a
    <2> QED
      BY <2>1, <2>2, <2>3, <2>4
  <1>8. CASE ItemTag
    <2>1. pc # "view" /\ ~skipped /\ taken' = taken + 1 /\ lines' = Flush /\ text' = 1
      BY <1>8 DEF ItemTag, Stripping
    <2>2. taken' = (total + text) + 1 /\ Characters(lines') = total + text
      BY <1>3, <1>4, <2>1
    <2> QED
      BY <2>1, <2>2
  <1>9. CASE TitleChar
    <2>1. pc # "view" /\ ~skipped /\ taken' = taken + 1 /\ lines' = lines /\ text' = text + 1
      BY <1>9 DEF TitleChar
    <2>2. taken = total + text
      BY <1>3, <2>1
    <2>3. taken' = total + (text + 1)
      BY ONLY <1>2a, <2>1, <2>2
    <2>4. Characters(lines') = total
      BY <2>1 DEF total
    <2> QED
      BY <2>1, <2>3, <2>4
  <1>10. CASE LinkTag \/ TitleTag \/ OpenBlock \/ CloseBlock \/ CloseForgotten
    <2>1. pc # "view" /\ ~skipped /\ UNCHANGED <<taken, lines, text>>
      BY <1>10 DEF LinkTag, TitleTag, OpenBlock, CloseBlock, CloseForgotten, Nest, Unnest, Stripping, strip, view
    <2> QED
      BY <1>3, <2>1 DEF total
  <1>11. CASE Arrives
    <2>1. lines' = <<>> /\ text' = 0 /\ taken' = 0
      BY <1>11 DEF Arrives, StripStart
    <2> QED
      BY <2>1, NoCharacters
  <1>12. CASE StripEnd \/ Start \/ ArrivesEmpty \/ Fails \/ Keys \/ Render
    <2>1. pc' = "view"
      BY <1>12 DEF StripEnd, Start, StartFetch, ArrivesEmpty, Fails, Keys, Leave, AtKeys, Up, Down, PageUp,
                   PageDown, Home, End, ScrollTo, Tab, Follow, Render
    <2> QED
      BY <2>1
  <1>13. CASE UNCHANGED vars
    <2>1. pc' = pc /\ skipped' = skipped /\ UNCHANGED <<taken, lines, text>>
      BY <1>13 DEF vars, view, strip
    <2> QED
      BY <1>3, <2>1 DEF total
  <1> QED
    BY <1>5, <1>6, <1>7, <1>8, <1>9, <1>10, <1>11, <1>12, <1>13 DEF Next, Strip, Page

\* The end of html_strip changes only lines wider than the screen, and drops only text for which there
\* is no line.
LEMMA TextAtEnd ==
    ASSUME IInv, TextIsKept, StripEnd,
           ~skipped', Len(lines') < MaxLines, \A i \in DOMAIN lines' : lines'[i] < Cols
    PROVE  taken' = Characters(lines')
  <1> DEFINE all == IF Len(lines) < MaxLines THEN Flush ELSE lines
             cut == [i \in DOMAIN all |-> IF all[i] > Cols THEN Cols ELSE all[i]]
  <1>1. lines' = cut /\ pc = "strip" /\ taken' = taken /\ ~skipped
    BY DEF StripEnd
  <1>2. all \in Seq(0 .. MaxLine) /\ lines \in Seq(0 .. MaxLine)
    BY Flushed DEF IInv, TypedPage
  <1>3. all \in [1 .. Len(all) -> 0 .. MaxLine] /\ DOMAIN all = 1 .. Len(all) /\ Len(all) \in Nat
    BY <1>2, LenProperties
  <1>4. cut = all
    <2> HIDE DEF all
    <2>1. ASSUME NEW i \in DOMAIN all PROVE cut[i] = all[i]
      <3>1. cut[i] < Cols /\ cut[i] = IF all[i] > Cols THEN Cols ELSE all[i]
        BY <1>1
      <3>2. all[i] \in Nat
        BY <1>3, Bounds
      <3> QED
        BY <3>1, <3>2, Bounds
    <2> QED
      BY <1>3, <2>1
  <1>5. Len(lines) < MaxLines
    BY <1>1, <1>4
  <1>6. lines' = Flush
    BY <1>1, <1>4, <1>5
  <1> HIDE DEF cut, all
  <1>7. Characters(lines') = Characters(lines) + text
    BY <1>6, FlushKeeps
  <1> QED
    BY <1>1, <1>7 DEF TextIsKept

LEMMA TextInView ==
    ASSUME IInv, TextIsKept, Awaited, [Next]_vars
    PROVE  TextIsKept' /\ Awaited'
  <1>1. (pc' # "view" /\ ~skipped') => taken' = Characters(lines') + text'
    BY TextStep
  <1> SUFFICES ASSUME pc' = "view"
               PROVE  /\ (~skipped' /\ fetch' = "ready" /\ Len(lines') < MaxLines
                            /\ \A i \in DOMAIN lines' : lines'[i] < Cols) => taken' = Characters(lines')
                      /\ Awaited'
    BY <1>1 DEF TextIsKept, Awaited
  <1>2. CASE StripEnd
    BY <1>2, TextAtEnd DEF StripEnd, Awaited
  <1>3. CASE Start \/ Follow
    BY <1>3 DEF Start, Follow, StartFetch, Awaited
  <1>4. CASE ArrivesEmpty
    <2>1. lines' = <<>> /\ taken' = 0 /\ fetch' = "ready"
      BY <1>4 DEF ArrivesEmpty, IInv, Viewed, Awaited, view, strip
    <2> QED
      BY <2>1, NoCharacters DEF Awaited
  <1>5. CASE Fails
    BY <1>5 DEF Fails, Awaited
  <1>6. CASE Leave
    <2>1. UNCHANGED <<lines, taken, skipped, pc>> /\ fetch' \in {fetch, "idle"}
      BY <1>6 DEF Leave, view, strip
    <2> QED
      BY <2>1 DEF TextIsKept, Awaited
  <1>7. CASE Up \/ Down \/ PageUp \/ PageDown \/ Home \/ End \/ Tab \/ Render \/ UNCHANGED vars
    <2>1. UNCHANGED <<lines, taken, skipped, pc, fetch>>
      BY <1>7 DEF Up, Down, PageUp, PageDown, Home, End, ScrollTo, Tab, Render, vars, view, strip
    <2> QED
      BY <2>1 DEF TextIsKept, Awaited
  <1>8. CASE Arrives
    BY <1>8 DEF Arrives, StripStart
  <1>9. CASE Char \/ LineTag \/ ParagraphTag \/ ItemTag \/ LinkTag \/ TitleTag \/ TitleChar \/ TitleEnd
             \/ OpenBlock \/ CloseBlock \/ CloseForgotten
    BY <1>9 DEF Char, LineTag, ParagraphTag, ItemTag, LinkTag, TitleTag, TitleChar, TitleEnd, OpenBlock,
                CloseBlock, CloseForgotten, Nest, Unnest, Stripping
  <1> QED
    BY <1>2, <1>3, <1>4, <1>5, <1>6, <1>7, <1>8, <1>9 DEF Next, Strip, Page, Keys

\* The characters html_strip takes are in the lines, on the way and when the page is ready, however long
\* the lines are and wherever tags end them: but one to a title that fills a line, and what the end of
\* html_strip cuts off at the width of the screen or has no line for.
THEOREM TextStaysKept == Spec => []TextIsKept
  <1>1. Init => TextIsKept /\ Awaited
    BY DEF Init, TextIsKept, Awaited
  <1>2. IInv /\ TextIsKept /\ Awaited /\ [Next]_vars => TextIsKept' /\ Awaited'
    BY TextInView
  <1> QED
    BY <1>1, <1>2, SpecIInv, PTL DEF Spec
=============================================================================
