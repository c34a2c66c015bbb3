---------------------------- MODULE EditorProofs ----------------------------
(***************************************************************************)
(* Theorems about Editor, for every size of its rows, its screen and its   *)
(* save buffer, and for every text of the file.                            *)
(*                                                                         *)
(* A row is sound when its last cell is its zero; then strlen stays in it. *)
(* Each key takes an editor with sound rows to one with sound rows, and    *)
(* either marks it as modified or leaves rows and count alone.  That alone *)
(* is not inductive: a character goes into the cell under the cursor, so   *)
(* the cursor must not be far behind the end of the text (Near), or it     *)
(* could be on the last cell of a row that still has room.                 *)
(***************************************************************************)
EXTENDS Editor, SequenceTheorems, WellFoundedInduction, TLAPS

-----------------------------------------------------------------------------
(* Induction *)

\* A set with 0 that is closed under successor up to n holds 0 .. n: else there were a least number
\* that is missing, and its predecessor would be missing too.
LEMMA Induction ==
    ASSUME NEW n \in Nat, NEW S, 0 \in S, \A k \in 0 .. n - 1 : k \in S => k + 1 \in S
    PROVE  \A k \in 0 .. n : k \in S
<1> DEFINE Less == {p \in Nat \X Nat : p[1] < p[2]}
           Miss == {k \in 0 .. n : k \notin S}
<1>1. SUFFICES ASSUME Miss # {} PROVE FALSE
  BY <1>1
<1>2. IsWellFoundedOn(Less, Nat)
  BY NatLessThanWellFounded DEF OpToRel
<1>3. Miss \subseteq Nat
  OBVIOUS
<1> HIDE DEF Less
<1>4. PICK k \in Miss : \A j \in Miss : <<j, k>> \notin Less
  BY <1>1, <1>2, <1>3, WFMin
<1>5. k - 1 \in Miss
  BY DEF Miss
<1>6. <<k - 1, k>> \in Less
  BY <1>5 DEF Less
<1> QED  BY <1>4, <1>5, <1>6

-----------------------------------------------------------------------------
(* Strings in rows *)

\* EndFrom is the first zero, or the size of the row.
LEMMA EndFromIs ==
    ASSUME NEW r \in Row, NEW k \in 0 .. MaxLine
    PROVE  /\ EndFrom(r, k) \in k .. MaxLine
           /\ EndFrom(r, k) < MaxLine => r[EndFrom(r, k)] = End
           /\ \A i \in k .. EndFrom(r, k) - 1 : r[i] # End
<1> USE EditorAssumption
<1> DEFINE P(n) == (n < MaxLine => r[n] = End) /\ \A i \in k .. n - 1 : r[i] # End
           Clear == {n \in 0 .. MaxLine : \A i \in k .. n - 1 : r[i] # End}
<1>1. \E n \in k .. MaxLine : P(n)
  <2>1. SUFFICES ASSUME ~ \E n \in k .. MaxLine : P(n) PROVE FALSE
    BY <2>1
  <2>2. 0 \in Clear
    OBVIOUS
  <2>3. ASSUME NEW n \in 0 .. MaxLine - 1, n \in Clear PROVE n + 1 \in Clear
    <3>1. CASE n < k
      BY <3>1
    <3>2. CASE n >= k
      <4>1. r[n] # End
        BY <2>1, <2>3, <3>2
      <4> QED  BY <2>3, <4>1, <3>2
    <3> QED  BY <3>1, <3>2
  <2>4. MaxLine \in Nat
    OBVIOUS
  <2> HIDE DEF Clear
  <2>5. \A n \in 0 .. MaxLine : n \in Clear
    <3>1. \A n \in 0 .. MaxLine - 1 : n \in Clear => n + 1 \in Clear
      BY <2>3
    <3> QED  BY ONLY <2>2, <2>4, <3>1, Induction
  <2>6. MaxLine \in Clear
    BY <2>4, <2>5
  <2>7. P(MaxLine)
    BY <2>6 DEF Clear
  <2> QED  BY <2>1, <2>4, <2>7
<1>2. EndFrom(r, k) = CHOOSE n \in k .. MaxLine : P(n)
  BY DEF EndFrom
<1> HIDE DEF P
<1>3. EndFrom(r, k) \in k .. MaxLine /\ P(EndFrom(r, k))
  BY <1>1, <1>2
<1> QED  BY <1>3 DEF P

\* There is one such place.
LEMMA EndFromAt ==
    ASSUME NEW r \in Row, NEW k \in 0 .. MaxLine, NEW n \in k .. MaxLine,
           n < MaxLine => r[n] = End, \A i \in k .. n - 1 : r[i] # End
    PROVE  EndFrom(r, k) = n
<1> DEFINE m == EndFrom(r, k)
<1>1. /\ m \in k .. MaxLine
      /\ m < MaxLine => r[m] = End
      /\ \A i \in k .. m - 1 : r[i] # End
  BY EndFromIs
<1> HIDE DEF m
<1>2. ~ (m < n)
  BY <1>1, EditorAssumption
<1>3. ~ (n < m)
  BY <1>1, EditorAssumption
<1> QED  BY <1>1, <1>2, <1>3, EditorAssumption DEF m

\* A row in which every strlen, strcpy and shifting loop finds a zero.
Ended(r) == r \in Row /\ r[MaxLine - 1] = End

\* strlen stays inside such a row.
LEMMA StrLenIs ==
    ASSUME NEW r, Ended(r)
    PROVE  /\ StrLen(r) \in Cell
           /\ r[StrLen(r)] = End
           /\ \A i \in 0 .. StrLen(r) - 1 : r[i] # End
<1> USE EditorAssumption
<1> DEFINE n == StrLen(r)
<1>1. /\ n \in 0 .. MaxLine
      /\ n < MaxLine => r[n] = End
      /\ \A i \in 0 .. n - 1 : r[i] # End
  BY EndFromIs DEF StrLen, Ended
<1>2. r[MaxLine - 1] = End
  BY DEF Ended
<1> HIDE DEF n
<1>3. n # MaxLine
  BY <1>1, <1>2
<1>4. n \in Cell
  BY <1>1, <1>3 DEF Cell
<1> QED  BY <1>1, <1>4 DEF n, Cell

\* The first zero is where the text ends.
LEMMA StrLenAt ==
    ASSUME NEW r \in Row, NEW n \in Cell, r[n] = End, \A i \in 0 .. n - 1 : r[i] # End
    PROVE  StrLen(r) = n
BY EndFromAt, EditorAssumption DEF StrLen, Cell

\* strcpy keeps the last zero, when what it copies fits.
LEMMA StrCpyEnded ==
    ASSUME NEW dst, Ended(dst), NEW src, Ended(src), NEW at \in Cell, at + StrLen(src) < MaxLine
    PROVE  Ended(StrCpy(dst, at, src))
<1> USE EditorAssumption
<1> DEFINE n == StrLen(src)
<1>1. n \in Cell /\ src[n] = End
  BY StrLenIs
<1>2. n \in Nat /\ at \in Nat /\ at + n < MaxLine
  BY <1>1 DEF Cell
<1>3. StrCpy(dst, at, src) = [i \in Cell |-> IF at <= i /\ i <= at + n THEN src[i - at] ELSE dst[i]]
  BY DEF StrCpy
<1> HIDE DEF n
<1>4. \A i \in Cell : at <= i /\ i <= at + n => i - at \in Cell
  BY <1>2 DEF Cell
<1>5. StrCpy(dst, at, src) \in Row
  BY <1>3, <1>4 DEF Ended, Row
<1>6. StrCpy(dst, at, src)[MaxLine - 1] = End
  <2>1. MaxLine - 1 \in Cell
    BY DEF Cell
  <2>2. CASE MaxLine - 1 <= at + n
    <3>1. MaxLine - 1 = at + n /\ (MaxLine - 1) - at = n
      BY <1>2, <2>2
    <3> QED  BY <1>1, <1>2, <1>3, <2>1, <3>1
  <2>3. CASE ~ (MaxLine - 1 <= at + n)
    BY <1>2, <1>3, <2>1, <2>3 DEF Ended
  <2> QED  BY <2>2, <2>3
<1> QED  BY <1>5, <1>6 DEF Ended

\* So does taking a character out, at the cursor or before it.
LEMMA CutEnded ==
    ASSUME NEW r, Ended(r), NEW k \in Cell
    PROVE  Ended(Cut(r, k))
<1> USE EditorAssumption
<1> DEFINE n == EndFrom(r, k)
<1>1. n \in k .. MaxLine /\ (\A i \in k .. n - 1 : r[i] # End)
  BY EndFromIs DEF Ended, Cell
<1>2. Cut(r, k) = [i \in Cell |-> IF k <= i /\ i < n THEN r[i + 1] ELSE r[i]]
  BY DEF Cut
<1> HIDE DEF n
<1>3. n <= MaxLine - 1
  BY <1>1 DEF Ended, Cell
<1>4. Cut(r, k) \in Row
  BY <1>1, <1>2, <1>3 DEF Ended, Row, Cell
<1>5. Cut(r, k)[MaxLine - 1] = End
  BY <1>1, <1>2, <1>3 DEF Ended, Cell
<1> QED  BY <1>4, <1>5 DEF Ended

\* So does filling a row with a line of the file, which can then be read back.
LEMMA PutEnded ==
    ASSUME NEW dst, Ended(dst), NEW text \in Seq(Char), Len(text) < MaxLine
    PROVE  /\ Ended(Put(dst, text))
           /\ StrLen(Put(dst, text)) = Len(text)
           /\ \A i \in 1 .. Len(text) : Put(dst, text)[i - 1] = text[i]
<1> USE EditorAssumption
<1> DEFINE p == Put(dst, text)
           n == Len(text)
<1>1. n \in Nat /\ n < MaxLine /\ \A i \in 1 .. n : text[i] \in Char
  OBVIOUS
<1>2. p = [i \in Cell |-> IF i < n THEN text[i + 1] ELSE IF i = n THEN End ELSE dst[i]]
  BY DEF Put
<1> HIDE DEF p, n
<1>3. p \in Row
  BY <1>1, <1>2 DEF Ended, Row, Cell
<1>4. p[MaxLine - 1] = End
  BY <1>1, <1>2 DEF Ended, Cell
<1>5. n \in Cell /\ p[n] = End
  BY <1>1, <1>2 DEF Cell
<1>6. \A i \in 0 .. n - 1 : p[i] \in Char
  BY <1>1, <1>2 DEF Cell
<1>7. StrLen(p) = n
  BY <1>3, <1>5, <1>6, StrLenAt
<1>8. \A i \in 1 .. n : p[i - 1] = text[i]
  BY <1>1, <1>2 DEF Cell
<1> QED  BY <1>3, <1>4, <1>7, <1>8 DEF Ended, p, n

-----------------------------------------------------------------------------
(* Keys *)

\* The values TypeOK allows for ed.
Editors == [rows : [Line -> Row], count : 0 .. MaxLines, cx : Cell, cy : Line,
            scroll : Line, modified : BOOLEAN]

\* An editor with a text, all of its rows ended.
Sound(e) ==
    /\ e \in Editors
    /\ \A k \in Line : Ended(e.rows[k])
    /\ e.cy < e.count

\* f shows the star, or nothing of the text and the star differs from e.
Tells(e, f) ==
    \/ f.modified = TRUE
    \/ f.rows = e.rows /\ f.count = e.count /\ f.modified = e.modified

\* The cursor is on the text, at its end, or in one of the first columns.
Near(e, k) == e.cx <= k \/ e.cx <= StrLen(e.rows[e.cy])

\* The parts of a sound editor.
LEMMA SoundHas ==
    ASSUME NEW e, Sound(e)
    PROVE  /\ e.rows \in [Line -> Row]
           /\ e.count \in 1 .. MaxLines
           /\ e.cx \in Cell
           /\ e.cy \in Line
           /\ e.scroll \in Line
           /\ \A k \in Line : e.rows[k] \in Row /\ Ended(e.rows[k])
BY EditorAssumption DEF Sound, Editors, Line

\* editor_insert_char: it may come twice in a row, for a tab, before the cursor is clamped.
LEMMA InsertIsSound ==
    ASSUME NEW e, Sound(e), NEW c \in Char, Near(e, 3)
    PROVE  /\ Sound(Insert(e, c))
           /\ Tells(e, Insert(e, c))
           /\ Near(e, 2) => Near(Insert(e, c), 3)
<1> USE EditorAssumption
<1> DEFINE r == e.rows[e.cy]
           n == StrLen(r)
           s == [i \in Cell |-> IF i = e.cx THEN c
                                ELSE IF e.cx < i /\ i <= n + 1 THEN r[i - 1] ELSE r[i]]
           f == [e EXCEPT !.rows[e.cy] = s, !.cx = @ + 1, !.modified = TRUE]
<1>1. CASE n >= MaxLine - 1
  <2>1. Insert(e, c) = e
    BY <1>1 DEF Insert
  <2>2. e.cx \in Nat
    BY SoundHas DEF Cell
  <2> QED  BY <2>1, <2>2 DEF Tells, Near
<1>2. CASE ~ (n >= MaxLine - 1)
  <2>1. Insert(e, c) = f
    BY <1>2 DEF Insert
  <2>2. r \in Row /\ r[MaxLine - 1] = End /\ e.cx \in Cell /\ e.cy \in Line
    BY SoundHas DEF Ended
  <2>3. n \in Cell /\ r[n] = End /\ \A i \in 0 .. n - 1 : r[i] # End
    <3>1. Ended(r)
      BY SoundHas
    <3> QED  BY <3>1, StrLenIs
  <2>4. n < MaxLine - 1 /\ e.cx < MaxLine - 1
    BY <1>2, <2>2, <2>3 DEF Near, Cell
  <2>5. e \in Editors /\ e.cy < e.count /\ \A k \in Line : e.rows[k] \in Row /\ Ended(e.rows[k])
    BY SoundHas DEF Sound
  <2>6. s \in Row
    BY <2>2, <2>3 DEF Row, Cell
  <2>7. s[MaxLine - 1] = End
    <3>1. MaxLine - 1 \in Cell
      BY DEF Cell
    <3>2. CASE MaxLine - 1 <= n + 1
      <4>1. (MaxLine - 1) - 1 = n
        BY <2>3, <2>4, <3>2 DEF Cell
      <4> QED  BY <2>2, <2>3, <2>4, <3>1, <3>2, <4>1 DEF Cell
    <3>3. CASE ~ (MaxLine - 1 <= n + 1)
      BY <2>2, <2>3, <2>4, <3>1, <3>3 DEF Cell
    <3> QED  BY <3>2, <3>3
  <2>8. ASSUME e.cx <= n PROVE e.cx + 1 <= StrLen(s)
    <3>1. s[n + 1] = End
      BY <2>2, <2>3, <2>4, <2>8 DEF Cell
    <3>2. \A i \in 0 .. (n + 1) - 1 : s[i] # End
      <4>1. SUFFICES ASSUME NEW i \in 0 .. n PROVE s[i] # End
        BY <2>3, <4>1 DEF Cell
      <4>2. i \in Cell
        BY <2>3 DEF Cell
      <4>3. CASE i < e.cx
        BY <2>2, <2>3, <2>8, <4>2, <4>3 DEF Cell
      <4>4. CASE i = e.cx
        BY <4>2, <4>4
      <4>5. CASE i > e.cx
        <5>1. s[i] = r[i - 1]
          BY <2>2, <2>3, <4>2, <4>5 DEF Cell
        <5>2. i - 1 \in 0 .. n - 1
          BY <2>2, <2>3, <4>5 DEF Cell
        <5> QED  BY <2>3, <5>1, <5>2
      <4> QED  BY <2>2, <4>3, <4>4, <4>5 DEF Cell
    <3>3. n + 1 \in Cell
      BY <2>3, <2>4 DEF Cell
    <3>4. StrLen(s) = n + 1
      BY <2>6, <3>1, <3>2, <3>3, StrLenAt
    <3> QED  BY <2>2, <2>3, <2>8, <3>4 DEF Cell
  <2> HIDE DEF s, n, r
  <2>9. /\ f \in Editors
        /\ f.rows = [e.rows EXCEPT ![e.cy] = s]
        /\ f.cx = e.cx + 1
        /\ f.cy = e.cy
        /\ f.count = e.count
        /\ f.modified = TRUE
    <3>1. e.cx + 1 \in Cell
      BY <2>2, <2>4 DEF Cell
    <3> QED  BY <2>5, <2>6, <3>1 DEF Editors
  <2> HIDE DEF f
  <2>10. \A k \in Line : f.rows[k] = IF k = e.cy THEN s ELSE e.rows[k]
    BY <2>5, <2>9 DEF Editors
  <2>11. Ended(s)
    BY <2>6, <2>7 DEF Ended
  <2>12. Sound(f)
    BY <2>5, <2>9, <2>10, <2>11 DEF Sound
  <2>13. Near(e, 2) => Near(f, 3)
    <3>1. f.rows[f.cy] = s
      BY <2>2, <2>9, <2>10
    <3>2. CASE e.cx <= n
      BY <2>8, <2>9, <3>1, <3>2 DEF Near
    <3>3. CASE e.cx <= 2
      BY <2>2, <2>9, <3>3 DEF Near, Cell
    <3> QED  BY <3>2, <3>3 DEF Near, n, r
  <2> QED  BY <2>1, <2>9, <2>12, <2>13 DEF Tells
<1> QED  BY <1>1, <1>2

\* editor_newline, wherever in the row the cursor is.
LEMMA NewlineIsSound ==
    ASSUME NEW e, Sound(e)
    PROVE  Sound(Newline(e)) /\ Tells(e, Newline(e))
<1> USE EditorAssumption
<1> DEFINE r == e.rows[e.cy]
           n == StrLen(r)
           rest == IF n < e.cx THEN 0 ELSE n - e.cx
           pushed == [i \in Line |-> IF e.cy + 1 < i /\ i <= e.count
                                     THEN StrCpy(e.rows[i], 0, e.rows[i - 1]) ELSE e.rows[i]]
           tail == [i \in Cell |-> IF i <= rest THEN r[e.cx + i] ELSE pushed[e.cy + 1][i]]
           rows == [pushed EXCEPT ![e.cy + 1] = tail, ![e.cy][e.cx] = End]
           f == [e EXCEPT !.rows = rows, !.count = @ + 1, !.cy = @ + 1, !.cx = 0, !.modified = TRUE]
<1>1. CASE e.count >= MaxLines
  <2>1. Newline(e) = e
    BY <1>1 DEF Newline
  <2> QED  BY <2>1 DEF Tells
<1>2. CASE ~ (e.count >= MaxLines)
  <2>1. Newline(e) = f
    BY <1>2 DEF Newline
  <2>2. /\ e \in Editors
        /\ e.rows \in [Line -> Row]
        /\ e.cx \in Cell
        /\ e.cy \in Line
        /\ e.count \in 1 .. MaxLines - 1
        /\ e.cy < e.count
    BY <1>2, SoundHas DEF Sound, Line
  <2>3. \A k \in Line : e.rows[k] \in Row /\ Ended(e.rows[k])
    BY SoundHas
  <2>4. n \in Cell /\ r[n] = End /\ r \in Row
    BY <2>2, <2>3, StrLenIs
  <2>5. e.cy + 1 \in Line /\ e.cy + 1 # e.cy
    BY <2>2 DEF Line
  <2>6. \A k \in Line : Ended(pushed[k])
    <3>1. SUFFICES ASSUME NEW k \in Line PROVE Ended(pushed[k])
      BY <3>1
    <3>2. CASE e.cy + 1 < k /\ k <= e.count
      <4>1. k - 1 \in Line
        BY <2>2, <3>2 DEF Line
      <4>2. 0 \in Cell /\ 0 + StrLen(e.rows[k - 1]) < MaxLine
        BY <2>3, <4>1, StrLenIs DEF Cell
      <4>3. Ended(StrCpy(e.rows[k], 0, e.rows[k - 1]))
        BY <2>3, <4>1, <4>2, StrCpyEnded
      <4> QED  BY <3>2, <4>3
    <3>3. CASE ~ (e.cy + 1 < k /\ k <= e.count)
      BY <2>3, <3>3
    <3> QED  BY <3>2, <3>3
  <2>7. pushed[e.cy] = r
    BY <2>2 DEF Line
  <2>8. pushed = [k \in Line |-> pushed[k]]
    OBVIOUS
  <2> HIDE DEF pushed
  <2>9. Ended(tail)
    <3>1. rest \in 0 .. n /\ e.cx + rest \in Cell /\ (rest = MaxLine - 1 => e.cx + rest = n)
      BY <2>2, <2>4 DEF Cell
    <3>2. \A i \in Cell : pushed[e.cy + 1][i] \in Char \cup {End}
      BY <2>5, <2>6 DEF Ended, Row
    <3>3. \A i \in Cell : i <= rest => e.cx + i \in Cell
      BY <2>2, <3>1 DEF Cell
    <3> HIDE DEF rest
    <3>4. tail \in Row
      BY <2>4, <3>2, <3>3 DEF Row
    <3>5. tail[MaxLine - 1] = End
      <4>1. MaxLine - 1 \in Cell /\ pushed[e.cy + 1][MaxLine - 1] = End
        BY <2>5, <2>6 DEF Ended, Cell
      <4>2. CASE MaxLine - 1 <= rest
        <5>1. rest = MaxLine - 1
          BY <2>4, <3>1, <4>2 DEF Cell
        <5> QED  BY <2>4, <3>1, <4>1, <5>1
      <4>3. CASE ~ (MaxLine - 1 <= rest)
        BY <4>1, <4>3
      <4> QED  BY <4>2, <4>3
    <3> QED  BY <3>4, <3>5 DEF Ended
  <2> HIDE DEF tail
  <2>10. Ended([r EXCEPT ![e.cx] = End])
    BY <2>2, <2>3 DEF Ended, Row, Cell
  <2>11. rows = [k \in Line |-> IF k = e.cy THEN [r EXCEPT ![e.cx] = End]
                                ELSE IF k = e.cy + 1 THEN tail ELSE pushed[k]]
    BY <2>2, <2>5, <2>7, <2>8
  <2> HIDE DEF rows, r
  <2>12. \A k \in Line : Ended(rows[k])
    BY <2>6, <2>9, <2>10, <2>11
  <2>13. rows \in [Line -> Row]
    BY <2>11, <2>12 DEF Ended
  <2>14. 0 \in Cell /\ e.count + 1 \in 0 .. MaxLines
    BY <2>2 DEF Cell
  <2>15. /\ f \in Editors
         /\ f.rows = rows
         /\ f.cy = e.cy + 1
         /\ f.count = e.count + 1
         /\ f.modified = TRUE
    BY <2>2, <2>5, <2>13, <2>14 DEF Editors
  <2> HIDE DEF f
  <2>16. Sound(f)
    BY <2>2, <2>12, <2>15 DEF Sound, Line
  <2> QED  BY <2>1, <2>15, <2>16 DEF Tells
<1> QED  BY <1>1, <1>2

\* Two rows that fit in one are joined, and the rows below move up.
LEMMA JoinIsSound ==
    ASSUME NEW e, Sound(e), NEW k \in Line, k + 1 < e.count
    PROVE  Sound(Join(e, k)) /\ Tells(e, Join(e, k))
<1> USE EditorAssumption
<1> DEFINE n == StrLen(e.rows[k])
           joined == [e.rows EXCEPT ![k] = StrCpy(@, n, e.rows[k + 1])]
           rows == Pull(joined, k + 1, e.count)
           cx == IF k < e.cy THEN n ELSE e.cx
           f == [e EXCEPT !.rows = rows, !.count = @ - 1,
                          !.cy = k, !.cx = IF k < e.cy THEN n ELSE @, !.modified = TRUE]
<1>1. CASE n + StrLen(e.rows[k + 1]) >= MaxLine - 1
  <2>1. Join(e, k) = e
    BY <1>1 DEF Join
  <2> QED  BY <2>1 DEF Tells
<1>2. CASE ~ (n + StrLen(e.rows[k + 1]) >= MaxLine - 1)
  <2>1. Join(e, k) = f
    BY <1>2 DEF Join
  <2>2. /\ e \in Editors
        /\ e.rows \in [Line -> Row]
        /\ e.cx \in Cell
        /\ e.count \in 1 .. MaxLines
    BY SoundHas DEF Sound
  <2>3. \A j \in Line : Ended(e.rows[j])
    BY DEF Sound
  <2>4. k + 1 \in Line /\ k \in 0 .. e.count - 2
    BY <2>2 DEF Line
  <2>5. n \in Cell /\ StrLen(e.rows[k + 1]) \in Cell
    BY <2>3, <2>4, StrLenIs
  <2>6. n + StrLen(e.rows[k + 1]) < MaxLine
    BY <1>2, <2>5 DEF Cell
  <2>7. Ended(StrCpy(e.rows[k], n, e.rows[k + 1]))
    BY <2>3, <2>4, <2>5, <2>6, StrCpyEnded
  <2>8. \A j \in Line : Ended(joined[j])
    BY <2>2, <2>3, <2>7
  <2> HIDE DEF joined
  <2>9. \A j \in Line : Ended(rows[j])
    <3>1. SUFFICES ASSUME NEW j \in Line PROVE Ended(rows[j])
      BY <3>1
    <3>2. rows[j] = IF k + 1 <= j /\ j < e.count - 1 THEN StrCpy(joined[j], 0, joined[j + 1])
                    ELSE joined[j]
      BY DEF Pull
    <3>3. CASE k + 1 <= j /\ j < e.count - 1
      <4>1. j + 1 \in Line
        BY <2>2, <3>3 DEF Line
      <4>2. 0 \in Cell /\ 0 + StrLen(joined[j + 1]) < MaxLine
        BY <2>8, <4>1, StrLenIs DEF Cell
      <4>3. Ended(StrCpy(joined[j], 0, joined[j + 1]))
        BY <2>8, <4>1, <4>2, StrCpyEnded
      <4> QED  BY <3>2, <3>3, <4>3
    <3>4. CASE ~ (k + 1 <= j /\ j < e.count - 1)
      BY <2>8, <3>2, <3>4
    <3> QED  BY <3>3, <3>4
  <2>10. rows \in [Line -> Row]
    BY <2>9 DEF Pull, Ended
  <2> HIDE DEF rows, n
  <2>11. cx \in Cell /\ e.count - 1 \in 0 .. MaxLines
    BY <2>2, <2>5
  <2>12. f = [e EXCEPT !.rows = rows, !.count = e.count - 1, !.cy = k, !.cx = cx, !.modified = TRUE]
    OBVIOUS
  <2> HIDE DEF f, cx
  <2>13. /\ f \in Editors
         /\ f.rows = rows
         /\ f.cy = k
         /\ f.count = e.count - 1
         /\ f.modified = TRUE
    BY <2>2, <2>10, <2>11, <2>12 DEF Editors
  <2>14. Sound(f)
    BY <2>2, <2>4, <2>9, <2>13 DEF Sound
  <2> QED  BY <2>1, <2>13, <2>14 DEF Tells
<1> QED  BY <1>1, <1>2

\* One character of the row with the cursor goes.
LEMMA RowCutIsSound ==
    ASSUME NEW e, Sound(e), NEW k \in Cell, NEW c \in Cell, NEW f,
           f = [e EXCEPT !.rows[e.cy] = Cut(e.rows[e.cy], k), !.cx = c, !.modified = TRUE]
    PROVE  Sound(f) /\ Tells(e, f)
<1> DEFINE s == Cut(e.rows[e.cy], k)
<1>1. /\ e \in Editors
      /\ e.rows \in [Line -> Row]
      /\ e.cy \in Line
      /\ e.cy < e.count
      /\ \A j \in Line : Ended(e.rows[j])
  BY SoundHas DEF Sound
<1>2. Ended(s)
  BY <1>1, CutEnded
<1>3. f = [e EXCEPT !.rows[e.cy] = s, !.cx = c, !.modified = TRUE]
  OBVIOUS
<1> HIDE DEF s
<1>4. s \in Row
  BY <1>2 DEF Ended
<1>5. /\ f \in Editors
      /\ f.rows = [e.rows EXCEPT ![e.cy] = s]
      /\ f.cy = e.cy
      /\ f.count = e.count
      /\ f.modified = TRUE
  <2>1. c \in Cell
    OBVIOUS
  <2> QED  BY ONLY <1>1, <1>3, <1>4, <2>1 DEF Editors
<1>6. \A j \in Line : f.rows[j] = IF j = e.cy THEN s ELSE e.rows[j]
  BY <1>1, <1>5
<1>7. Sound(f)
  BY <1>1, <1>2, <1>5, <1>6 DEF Sound
<1> QED  BY <1>5, <1>7 DEF Tells

\* editor_backspace
LEMMA BackspaceIsSound ==
    ASSUME NEW e, Sound(e)
    PROVE  Sound(Backspace(e)) /\ Tells(e, Backspace(e))
<1> USE EditorAssumption
<1>1. /\ e.cx \in Cell
      /\ e.cy \in Line
      /\ e.count \in 1 .. MaxLines
      /\ e.cy < e.count
  BY SoundHas DEF Sound
<1>2. CASE e.cx > 0
  <2>1. e.cx - 1 \in Cell
    BY <1>1, <1>2 DEF Cell
  <2>2. Backspace(e) = [e EXCEPT !.rows[e.cy] = Cut(e.rows[e.cy], e.cx - 1), !.cx = e.cx - 1,
                                 !.modified = TRUE]
    BY <1>1, <1>2, SoundHas DEF Backspace, Sound, Editors
  <2> QED  BY ONLY Sound(e), <2>1, <2>2, RowCutIsSound
<1>3. CASE ~ (e.cx > 0) /\ e.cy > 0
  <2>1. e.cy - 1 \in Line /\ (e.cy - 1) + 1 < e.count
    BY <1>1, <1>3 DEF Line
  <2>2. Backspace(e) = Join(e, e.cy - 1)
    BY <1>3 DEF Backspace
  <2> QED  BY <2>1, <2>2, JoinIsSound
<1>4. CASE ~ (e.cx > 0) /\ ~ (e.cy > 0)
  BY <1>4 DEF Backspace, Tells
<1> QED  BY <1>2, <1>3, <1>4

\* editor_delete
LEMMA DeleteIsSound ==
    ASSUME NEW e, Sound(e)
    PROVE  Sound(Delete(e)) /\ Tells(e, Delete(e))
<1> USE EditorAssumption
<1>1. /\ e.cx \in Cell
      /\ e.cy \in Line
      /\ e.count \in 1 .. MaxLines
      /\ e.cy < e.count
  BY SoundHas DEF Sound
<1>2. CASE e.rows[e.cy][e.cx] # End
  <2>1. Delete(e) = [e EXCEPT !.rows[e.cy] = Cut(e.rows[e.cy], e.cx), !.cx = e.cx,
                              !.modified = TRUE]
    BY <1>1, <1>2, SoundHas DEF Delete, Sound, Editors
  <2> QED  BY ONLY Sound(e), <1>1, <2>1, RowCutIsSound
<1>3. CASE ~ (e.rows[e.cy][e.cx] # End) /\ e.cy + 1 < e.count
  BY <1>1, <1>3, JoinIsSound DEF Delete
<1>4. CASE ~ (e.rows[e.cy][e.cx] # End) /\ ~ (e.cy + 1 < e.count)
  BY <1>4 DEF Delete, Tells
<1> QED  BY <1>2, <1>3, <1>4

\* A step that moves only the cursor and the screen.
LEMMA SameText ==
    ASSUME NEW e, Sound(e), NEW f \in Editors, f.cy < e.count,
           f.rows = e.rows, f.count = e.count, f.modified = e.modified
    PROVE  Sound(f) /\ Tells(e, f)
BY DEF Sound, Tells

\* The keys that move the cursor.
LEMMA MovedIsSound ==
    ASSUME NEW e, Sound(e), NEW k \in Move
    PROVE  Sound(Moved(e, k)) /\ Tells(e, Moved(e, k))
<1> USE EditorAssumption
<1> DEFINE n == StrLen(e.rows[e.cy])
<1>1. /\ e \in Editors
      /\ e.cx \in Cell
      /\ e.cy \in Line
      /\ e.scroll \in Line
      /\ e.count \in 1 .. MaxLines
      /\ e.cy < e.count
  BY SoundHas DEF Sound
<1>2. n \in Cell
  BY <1>1, SoundHas, StrLenIs
<1> HIDE DEF n
<1>3. \A x \in Cell : Sound([e EXCEPT !.cx = x]) /\ Tells(e, [e EXCEPT !.cx = x])
  <2>1. SUFFICES ASSUME NEW x \in Cell
                 PROVE  Sound([e EXCEPT !.cx = x]) /\ Tells(e, [e EXCEPT !.cx = x])
    BY <2>1
  <2> DEFINE f == [e EXCEPT !.cx = x]
  <2>2. /\ f \in Editors
        /\ f.rows = e.rows
        /\ f.count = e.count
        /\ f.modified = e.modified
        /\ f.cy < e.count
    BY <1>1, <2>1 DEF Editors
  <2> HIDE DEF f
  <2>3. Sound(f) /\ Tells(e, f)
    BY <2>2, SameText
  <2> QED  BY <2>3 DEF f
<1>4. \A y \in Line : y < e.count => Sound([e EXCEPT !.cy = y]) /\ Tells(e, [e EXCEPT !.cy = y])
  <2>1. SUFFICES ASSUME NEW y \in Line, y < e.count
                 PROVE  Sound([e EXCEPT !.cy = y]) /\ Tells(e, [e EXCEPT !.cy = y])
    BY <2>1
  <2> DEFINE f == [e EXCEPT !.cy = y]
  <2>2. /\ f \in Editors
        /\ f.rows = e.rows
        /\ f.count = e.count
        /\ f.modified = e.modified
        /\ f.cy < e.count
    BY <1>1, <2>1 DEF Editors
  <2> HIDE DEF f
  <2>3. Sound(f) /\ Tells(e, f)
    BY <2>2, SameText
  <2> QED  BY <2>3 DEF f
<1>5. CASE k = "up"
  <2> DEFINE y == IF e.cy > 0 THEN e.cy - 1 ELSE e.cy
  <2>1. Moved(e, k) = [e EXCEPT !.cy = y]
    BY <1>5 DEF Moved
  <2>2. y \in Line /\ y < e.count
    BY <1>1 DEF Line
  <2> QED  BY ONLY <1>4, <2>1, <2>2
<1>6. CASE k = "down"
  <2> DEFINE y == IF e.cy + 1 < e.count THEN e.cy + 1 ELSE e.cy
  <2>1. Moved(e, k) = [e EXCEPT !.cy = y]
    BY <1>6 DEF Moved
  <2>2. y \in Line /\ y < e.count
    BY <1>1 DEF Line
  <2> QED  BY ONLY <1>4, <2>1, <2>2
<1>7. CASE k = "left"
  <2> DEFINE x == IF e.cx > 0 THEN e.cx - 1 ELSE e.cx
  <2>1. Moved(e, k) = [e EXCEPT !.cx = x]
    BY <1>7 DEF Moved
  <2>2. x \in Cell
    BY <1>1 DEF Cell
  <2> QED  BY ONLY <1>3, <2>1, <2>2
<1>8. CASE k = "right"
  <2> DEFINE x == IF e.cx < n THEN e.cx + 1 ELSE e.cx
  <2>1. Moved(e, k) = [e EXCEPT !.cx = x]
    BY <1>8 DEF Moved, n
  <2>2. x \in Cell
    BY <1>1, <1>2 DEF Cell
  <2> QED  BY ONLY <1>3, <2>1, <2>2
<1>9. CASE k = "home"
  <2>1. Moved(e, k) = [e EXCEPT !.cx = 0]
    BY <1>9 DEF Moved
  <2>2. 0 \in Cell
    BY DEF Cell
  <2> QED  BY ONLY <1>3, <2>1, <2>2
<1>10. CASE k = "end"
  <2>1. Moved(e, k) = [e EXCEPT !.cx = n]
    BY <1>10 DEF Moved, n
  <2> QED  BY ONLY <1>2, <1>3, <2>1
<1>11. CASE k = "pageup"
  <2> DEFINE y == IF e.cy < Rows THEN 0 ELSE e.cy - Rows
  <2>1. Moved(e, k) = [e EXCEPT !.cy = y]
    BY <1>11 DEF Moved
  <2>2. y \in Line /\ y < e.count
    BY <1>1 DEF Line
  <2> QED  BY ONLY <1>4, <2>1, <2>2
<1>12. CASE k = "pagedown"
  <2> DEFINE y == IF e.cy + Rows >= e.count THEN e.count - 1 ELSE e.cy + Rows
  <2>1. Moved(e, k) = [e EXCEPT !.cy = y]
    BY <1>12 DEF Moved
  <2>2. y \in Line /\ y < e.count
    BY <1>1 DEF Line
  <2> QED  BY ONLY <1>4, <2>1, <2>2
<1> QED  BY <1>5, <1>6, <1>7, <1>8, <1>9, <1>10, <1>11, <1>12 DEF Move

\* Every key.
LEMMA PressedIsSound ==
    ASSUME NEW e, Sound(e), Near(e, 2), NEW k \in Char \cup Edit \cup Move
    PROVE  Sound(Pressed(e, k)) /\ Tells(e, Pressed(e, k))
<1>1. Near(e, 3)
  BY SoundHas, EditorAssumption DEF Near, Cell
<1>2. CASE k \in Char
  <2>1. Pressed(e, k) = Insert(e, k)
    BY <1>2, EditorAssumption DEF Pressed, Edit, Move
  <2> QED  BY <1>1, <1>2, <2>1, InsertIsSound
<1>3. CASE k \notin Char /\ k = "tab"
  <2> DEFINE f == Insert(e, Blank)
  <2>1. Pressed(e, k) = Insert(f, Blank)
    BY <1>3, EditorAssumption DEF Pressed, Edit, Move
  <2>2. Blank \in Char
    BY EditorAssumption
  <2>3. Sound(f) /\ Tells(e, f) /\ Near(f, 3)
    BY <1>1, <2>2, InsertIsSound
  <2> HIDE DEF f
  <2>4. Sound(Insert(f, Blank)) /\ Tells(f, Insert(f, Blank))
    BY <2>2, <2>3, InsertIsSound
  <2>5. Tells(e, Insert(f, Blank))
    BY <2>3, <2>4 DEF Tells
  <2> QED  BY <2>1, <2>4, <2>5
<1>4. CASE k \notin Char /\ k = "enter"
  <2>1. Pressed(e, k) = Newline(e)
    BY <1>4, EditorAssumption DEF Pressed, Edit, Move
  <2> QED  BY <2>1, NewlineIsSound
<1>5. CASE k \notin Char /\ k = "backspace"
  <2>1. Pressed(e, k) = Backspace(e)
    BY <1>5, EditorAssumption DEF Pressed, Edit, Move
  <2> QED  BY <2>1, BackspaceIsSound
<1>6. CASE k \notin Char /\ k = "delete"
  <2>1. Pressed(e, k) = Delete(e)
    BY <1>6, EditorAssumption DEF Pressed, Edit, Move
  <2> QED  BY <2>1, DeleteIsSound
<1>7. CASE k \notin Char /\ k \in Move
  <2>1. Pressed(e, k) = Moved(e, k)
    BY <1>7, EditorAssumption DEF Pressed, Edit, Move
  <2> QED  BY <1>7, <2>1, MovedIsSound
<1> QED  BY <1>2, <1>3, <1>4, <1>5, <1>6, <1>7 DEF Edit

\* The end of editor_keyboard_event: the line with the cursor is shown, and the cursor is
\* near its text.
LEMMA AdjustedIsSound ==
    ASSUME NEW e, Sound(e)
    PROVE  /\ Sound(Adjusted(e))
           /\ Tells(e, Adjusted(e))
           /\ Near(Adjusted(e), 2)
           /\ Adjusted(e).scroll <= Adjusted(e).cy
           /\ Adjusted(e).cy < Adjusted(e).scroll + Rows
<1> USE EditorAssumption
<1> DEFINE n == StrLen(e.rows[e.cy])
           f == Adjusted(e)
           x == Clamped(e)
           z == Scrolled(e)
<1>1. /\ e \in Editors
      /\ e.cx \in Cell
      /\ e.cy \in Line
      /\ e.scroll \in Line
      /\ e.count \in 1 .. MaxLines
      /\ e.cy < e.count
  BY SoundHas DEF Sound
<1>2. n \in Cell
  BY <1>1, SoundHas, StrLenIs
<1>3. x \in Cell /\ (x <= 2 \/ x <= n)
  BY <1>1, <1>2 DEF Clamped, Cell
<1>4. z \in Line /\ z <= e.cy /\ e.cy < z + Rows
  BY <1>1 DEF Scrolled, Line
<1>5. f = [e EXCEPT !.scroll = z, !.cx = x]
  BY DEF Adjusted
<1> HIDE DEF f, x, z
<1>6. /\ f \in Editors
      /\ f.rows = e.rows
      /\ f.count = e.count
      /\ f.modified = e.modified
      /\ f.cx = x
      /\ f.cy = e.cy
      /\ f.scroll = z
  BY <1>1, <1>3, <1>4, <1>5 DEF Editors
<1>7. Sound(f) /\ Tells(e, f)
  BY <1>1, <1>6, SameText
<1>8. Near(f, 2)
  BY <1>3, <1>6 DEF Near
<1> QED  BY <1>4, <1>6, <1>7, <1>8 DEF f

-----------------------------------------------------------------------------
(* Files *)

\* A file whose lines all fit a row.
Short(f) == f \in Seq(Seq(Char)) /\ \A k \in 1 .. Len(f) : Len(f[k]) < MaxLine

\* The rows that a line of L characters takes.
LEMMA ChunkCount ==
    ASSUME NEW w \in Nat \ {0}, NEW L \in Nat \ {0}
    PROVE  /\ (L + w - 1) \div w \in Nat \ {0}
           /\ L <= w => (L + w - 1) \div w = 1
<1> DEFINE q == (L + w - 1) \div w
<1>1. q \in Nat \ {0}
  OBVIOUS
<1>2. ASSUME L <= w PROVE q = 1
  <2>1. w * q <= L + w - 1
    OBVIOUS
  <2>2. ~ (q >= 2)
    BY <1>1, <1>2, <2>1
  <2> QED  BY <1>1, <2>2
<1> QED  BY <1>1, <1>2

\* They are short, and a line that fits is one of them.
LEMMA ChunksAreShort ==
    ASSUME NEW l \in Seq(Char)
    PROVE  /\ Short(Chunks(l))
           /\ Len(Chunks(l)) >= 1
           /\ Len(l) < MaxLine => Chunks(l) = <<l>>
<1> DEFINE w == MaxLine - 1
           L == Len(l)
           n == IF l = <<>> THEN 1 ELSE (L + w - 1) \div w
           to(k) == IF k * w < L THEN k * w ELSE L
           c == [k \in 1 .. n |-> SubSeq(l, (k - 1) * w + 1, to(k))]
<1>1. w \in Nat \ {0} /\ L \in Nat /\ (L = 0 <=> l = <<>>)
  BY EditorAssumption
<1>2. Chunks(l) = c
  BY DEF Chunks
<1>3. n \in Nat \ {0} /\ (L <= w => n = 1)
  <2> HIDE DEF w, L
  <2>1. CASE l = <<>>
    BY <2>1
  <2>2. CASE l # <<>>
    <3>1. L \in Nat \ {0} /\ n = (L + w - 1) \div w
      BY <1>1, <2>2
    <3> QED  BY ONLY <1>1, <3>1, ChunkCount
  <2> QED  BY <2>1, <2>2
<1>4. MaxLine = w + 1
  BY EditorAssumption
<1> HIDE DEF w, L, n
<1>5. \A k \in 1 .. n : /\ SubSeq(l, (k - 1) * w + 1, to(k)) \in Seq(Char)
                        /\ Len(SubSeq(l, (k - 1) * w + 1, to(k))) <= w
  <2>1. SUFFICES ASSUME NEW k \in 1 .. n
                 PROVE  /\ SubSeq(l, (k - 1) * w + 1, to(k)) \in Seq(Char)
                        /\ Len(SubSeq(l, (k - 1) * w + 1, to(k))) <= w
    BY <2>1
  <2> DEFINE a == (k - 1) * w
  <2>2. a \in Nat /\ k * w = a + w
    <3>1. k - 1 \in Nat /\ k \in Nat
      BY <1>3
    <3> QED  BY <1>1, <3>1
  <2> HIDE DEF a
  <2>3. to(k) = IF a + w < L THEN a + w ELSE L
    BY <2>2
  <2> HIDE DEF to
  <2>4. to(k) \in 0 .. L /\ to(k) <= a + w
    BY <1>1, <2>2, <2>3
  <2>5. SubSeq(l, a + 1, to(k)) \in Seq(Char)
    BY <1>1, <2>2, <2>4 DEF L
  <2>6. Len(SubSeq(l, a + 1, to(k))) <= w
    <3>1. a + 1 \in Int /\ to(k) \in Int
      BY <1>1, <2>2, <2>4
    <3>2. Len(SubSeq(l, a + 1, to(k))) = IF a + 1 <= to(k) THEN to(k) - (a + 1) + 1 ELSE 0
      BY <1>1, <2>2, <2>4
    <3> QED  BY <1>1, <2>2, <2>4, <3>2
  <2> QED  BY <2>5, <2>6 DEF a
<1>6. c \in Seq(Seq(Char)) /\ Len(c) = n
  BY <1>3, <1>5
<1>7. Short(c)
  <2>1. \A k \in 1 .. n : Len(c[k]) <= w
    BY <1>5
  <2> HIDE DEF c
  <2>2. \A k \in 1 .. n : Len(c[k]) \in Nat
    BY <1>6
  <2> QED  BY <1>1, <1>4, <1>6, <2>1, <2>2 DEF Short
<1>8. ASSUME L < MaxLine PROVE c = <<l>>
  <2>1. n = 1 /\ 1 * w = w /\ (1 - 1) * w + 1 = 1
    BY <1>1, <1>3, <1>4, <1>8
  <2>2. to(1) = L
    BY <1>1, <1>4, <1>8, <2>1
  <2>3. c[1] = SubSeq(l, 1, L)
    <3>1. 1 \in 1 .. n
      BY <2>1
    <3>2. c[1] = SubSeq(l, (1 - 1) * w + 1, to(1))
      BY ONLY <3>1
    <3> QED  BY ONLY <2>1, <2>2, <3>2
  <2>4. SubSeq(l, 1, L) = l
    BY DEF L
  <2> HIDE DEF c
  <2>5. <<l>> \in Seq(Seq(Char)) /\ Len(<<l>>) = 1 /\ <<l>>[1] = l
    OBVIOUS
  <2>6. \A i \in 1 .. Len(c) : c[i] = <<l>>[i]
    <3>1. \A i \in 1 .. Len(c) : i = 1
      BY ONLY <1>6, <2>1
    <3> QED  BY ONLY <2>3, <2>4, <2>5, <3>1
  <2>7. Len(c) = Len(<<l>>)
    BY ONLY <1>6, <2>1, <2>5
  <2> QED  BY ONLY <1>6, <2>5, <2>6, <2>7, SeqEqual
<1> HIDE DEF c
<1> QED  BY ONLY <1>2, <1>3, <1>6, <1>7, <1>8 DEF L

\* The rows of the first lines of a file, as Needed builds them.
First(f) ==
    LET first[k \in 0 .. Len(f)] == IF k = 0 THEN <<>> ELSE first[k - 1] \o Chunks(f[k])
    IN  first

\* The recursion has a solution, so the function it defines is one.
LEMMA FirstIs ==
    ASSUME NEW f \in Seq(Seq(Char))
    PROVE  First(f) = [k \in 0 .. Len(f) |->
                          IF k = 0 THEN <<>> ELSE First(f)[k - 1] \o Chunks(f[k])]
<1> DEFINE Is(g, m) == g = [k \in 0 .. m |-> IF k = 0 THEN <<>> ELSE g[k - 1] \o Chunks(f[k])]
           Has == {m \in 0 .. Len(f) : \E g : Is(g, m)}
<1>1. 0 \in Has
  <2> DEFINE g == [k \in 0 .. 0 |-> IF k = 0 THEN <<>> ELSE <<>> \o Chunks(f[k])]
  <2>1. g = [k \in 0 .. 0 |-> IF k = 0 THEN <<>> ELSE g[k - 1] \o Chunks(f[k])]
    <3>1. \A k \in 0 .. 0 : k = 0
      OBVIOUS
    <3> QED  BY <3>1
  <2> HIDE DEF g
  <2>2. 0 \in 0 .. Len(f)
    OBVIOUS
  <2> QED  BY ONLY <2>1, <2>2
<1>2. \A m \in 0 .. Len(f) - 1 : m \in Has => m + 1 \in Has
  <2>1. SUFFICES ASSUME NEW m \in 0 .. Len(f) - 1, m \in Has PROVE m + 1 \in Has
    BY <2>1
  <2>2. PICK g : Is(g, m)
    BY <2>1
  <2>5. \A k \in 0 .. m : g[k] = IF k = 0 THEN <<>> ELSE g[k - 1] \o Chunks(f[k])
    BY ONLY <2>2
  <2> HIDE DEF Is
  <2> DEFINE h == [k \in 0 .. m + 1 |-> IF k <= m THEN g[k] ELSE g[m] \o Chunks(f[m + 1])]
  <2>3. \A k \in 0 .. m + 1 : h[k] = IF k = 0 THEN <<>> ELSE h[k - 1] \o Chunks(f[k])
    <3>1. SUFFICES ASSUME NEW k \in 0 .. m + 1
                   PROVE  h[k] = IF k = 0 THEN <<>> ELSE h[k - 1] \o Chunks(f[k])
      BY <3>1
    <3>2. CASE k = 0
      <4>1. h[k] = g[k] /\ g[0] = <<>>
        BY <2>5, <3>2
      <4> QED  BY ONLY <3>2, <4>1
    <3>3. CASE k # 0 /\ k <= m
      <4>1. k \in 0 .. m
        BY <3>3
      <4>3. g[k] = g[k - 1] \o Chunks(f[k])
        BY ONLY <2>5, <3>3, <4>1
      <4>2. h[k] = g[k] /\ h[k - 1] = g[k - 1]
        BY <3>3
      <4> QED  BY ONLY <3>3, <4>2, <4>3
    <3>4. CASE k = m + 1
      <4>1. k \in 0 .. m + 1 /\ k - 1 \in 0 .. m + 1 /\ ~ (k <= m) /\ k - 1 <= m /\ k - 1 = m /\ k # 0
        BY <3>4
      <4>2. h[k] = g[m] \o Chunks(f[m + 1])
        BY ONLY <4>1
      <4>3. h[k - 1] = g[m]
        BY ONLY <4>1
      <4> QED  BY ONLY <3>4, <4>1, <4>2, <4>3
    <3> QED  BY <3>2, <3>3, <3>4
  <2>4. Is(h, m + 1)
    <3>1. h = [k \in 0 .. m + 1 |-> h[k]]
      OBVIOUS
    <3> HIDE DEF h
    <3> QED  BY ONLY <2>3, <3>1 DEF Is
  <2> HIDE DEF h, Is
  <2> QED  BY <2>4
<1>3. Len(f) \in Nat
  OBVIOUS
<1> HIDE DEF Has
<1>4. \A m \in 0 .. Len(f) : m \in Has
  BY ONLY <1>1, <1>2, <1>3, Induction
<1>5. Len(f) \in Has
  BY <1>3, <1>4
<1>6. \E g : Is(g, Len(f))
  BY <1>5 DEF Has
<1>7. First(f) = CHOOSE g : Is(g, Len(f))
  BY DEF First
<1> HIDE DEF Is
<1>8. Is(First(f), Len(f))
  BY <1>6, <1>7
<1> QED  BY <1>8 DEF Is

\* The recursion, line by line.
LEMMA FirstStep ==
    ASSUME NEW f \in Seq(Seq(Char))
    PROVE  /\ First(f)[0] = <<>>
           /\ \A k \in 0 .. Len(f) - 1 : First(f)[k + 1] = First(f)[k] \o Chunks(f[k + 1])
<1> DEFINE g == First(f)
<1>1. g = [k \in 0 .. Len(f) |-> IF k = 0 THEN <<>> ELSE g[k - 1] \o Chunks(f[k])]
  BY FirstIs
<1> HIDE DEF g
<1>2. \A k \in 0 .. Len(f) : g[k] = IF k = 0 THEN <<>> ELSE g[k - 1] \o Chunks(f[k])
  BY ONLY <1>1
<1>3. Len(f) \in Nat
  OBVIOUS
<1>4. g[0] = <<>>
  BY <1>2, <1>3
<1>5. ASSUME NEW k \in 0 .. Len(f) - 1 PROVE g[k + 1] = g[k] \o Chunks(f[k + 1])
  <2>1. k + 1 \in 0 .. Len(f) /\ k + 1 # 0 /\ (k + 1) - 1 = k
    BY <1>3
  <2>2. g[k + 1] = g[(k + 1) - 1] \o Chunks(f[k + 1])
    BY ONLY <1>2, <2>1
  <2> QED  BY ONLY <2>1, <2>2
<1> QED  BY <1>4, <1>5 DEF g

\* Whatever the file, its rows are short, and there are no fewer than lines.
LEMMA FirstIsShort ==
    ASSUME NEW f \in Seq(Seq(Char))
    PROVE  Short(First(f)[Len(f)]) /\ Len(First(f)[Len(f)]) >= Len(f)
<1> DEFINE g == First(f)
           Fine == {k \in 0 .. Len(f) : Short(g[k]) /\ Len(g[k]) >= k}
<1>1. Len(f) \in Nat
  OBVIOUS
<1> HIDE DEF g
<1>2. 0 \in Fine
  <2>1. g[0] = <<>>
    BY FirstStep DEF g
  <2>2. Short(<<>>) /\ Len(<<>>) >= 0
    BY DEF Short
  <2>3. 0 \in 0 .. Len(f)
    BY <1>1
  <2> QED  BY ONLY <2>1, <2>2, <2>3
<1>3. \A k \in 0 .. Len(f) - 1 : k \in Fine => k + 1 \in Fine
  <2>1. SUFFICES ASSUME NEW k \in 0 .. Len(f) - 1, k \in Fine PROVE k + 1 \in Fine
    BY <2>1
  <2> DEFINE a == g[k]
             b == Chunks(f[k + 1])
  <2>2. g[k + 1] = a \o b
    BY FirstStep DEF g
  <2>3. Short(a) /\ Len(a) >= k
    BY <2>1
  <2>4. Short(b) /\ Len(b) >= 1
    <3>1. f[k + 1] \in Seq(Char)
      BY <1>1
    <3> QED  BY <3>1, ChunksAreShort
  <2> HIDE DEF a, b
  <2>5. /\ a \in Seq(Seq(Char)) /\ b \in Seq(Seq(Char))
        /\ \A i \in 1 .. Len(a) : Len(a[i]) < MaxLine
        /\ \A i \in 1 .. Len(b) : Len(b[i]) < MaxLine
        /\ Len(a) \in Nat /\ Len(b) \in Nat
    BY <2>3, <2>4 DEF Short
  <2>6. /\ a \o b \in Seq(Seq(Char))
        /\ Len(a \o b) = Len(a) + Len(b)
        /\ \A i \in 1 .. Len(a) + Len(b) : (a \o b)[i] = IF i <= Len(a) THEN a[i] ELSE b[i - Len(a)]
    BY ONLY <2>5, ConcatProperties
  <2>7. \A i \in 1 .. Len(a \o b) : Len((a \o b)[i]) < MaxLine
    <3>1. SUFFICES ASSUME NEW i \in 1 .. Len(a) + Len(b) PROVE Len((a \o b)[i]) < MaxLine
      BY <2>6
    <3>2. CASE i <= Len(a)
      BY <2>5, <2>6, <3>2
    <3>3. CASE ~ (i <= Len(a))
      <4>1. i - Len(a) \in 1 .. Len(b)
        BY <2>5, <3>3
      <4>2. (a \o b)[i] = b[i - Len(a)]
        BY <2>6, <3>3
      <4> QED  BY <2>5, <4>1, <4>2
    <3> QED  BY <3>2, <3>3
  <2>8. Short(a \o b) /\ Len(a \o b) >= k + 1
    BY <2>3, <2>4, <2>5, <2>6, <2>7 DEF Short
  <2>9. k + 1 \in 0 .. Len(f)
    BY <1>1
  <2> QED  BY <2>2, <2>8, <2>9
<1> HIDE DEF Fine
<1>4. \A k \in 0 .. Len(f) : k \in Fine
  BY ONLY <1>1, <1>2, <1>3, Induction
<1>5. Len(f) \in Fine
  BY <1>1, <1>4
<1> QED  BY <1>5 DEF Fine, g

\* A file of short lines is the sequence of its rows.
LEMMA FirstIsSame ==
    ASSUME NEW f, Short(f)
    PROVE  First(f)[Len(f)] = f
<1> DEFINE g == First(f)
           Same == {k \in 0 .. Len(f) : g[k] = SubSeq(f, 1, k)}
<1>1. /\ f \in Seq(Seq(Char))
      /\ Len(f) \in Nat
      /\ \A k \in 1 .. Len(f) : f[k] \in Seq(Char) /\ Len(f[k]) < MaxLine
  BY DEF Short
<1> HIDE DEF g
<1>2. 0 \in Same
  <2>1. g[0] = <<>>
    BY <1>1, FirstStep DEF g
  <2>2. SubSeq(f, 1, 0) = <<>>
    BY <1>1
  <2>3. 0 \in 0 .. Len(f)
    BY <1>1
  <2> QED  BY ONLY <2>1, <2>2, <2>3
<1>3. \A k \in 0 .. Len(f) - 1 : k \in Same => k + 1 \in Same
  <2>1. SUFFICES ASSUME NEW k \in 0 .. Len(f) - 1, k \in Same PROVE k + 1 \in Same
    BY <2>1
  <2>2. g[k + 1] = g[k] \o Chunks(f[k + 1])
    BY <1>1, FirstStep DEF g
  <2>3. k + 1 \in 1 .. Len(f)
    BY <1>1
  <2>4. Chunks(f[k + 1]) = <<f[k + 1]>>
    BY <1>1, <2>3, ChunksAreShort
  <2>5. g[k + 1] = SubSeq(f, 1, k) \o <<f[k + 1]>>
    BY <2>1, <2>2, <2>4
  <2>6. SubSeq(f, 1, k) \o <<f[k + 1]>> = SubSeq(f, 1, k + 1)
    <3> DEFINE a == SubSeq(f, 1, k)
               b == <<f[k + 1]>>
               c == SubSeq(f, 1, k + 1)
    <3>1. /\ a \in Seq(Seq(Char)) /\ Len(a) = k
          /\ \A i \in 1 .. k : a[i] = f[i]
      BY <1>1, <2>3
    <3>2. b \in Seq(Seq(Char)) /\ Len(b) = 1 /\ b[1] = f[k + 1]
      BY <1>1, <2>3
    <3>3. /\ c \in Seq(Seq(Char)) /\ Len(c) = k + 1
          /\ \A i \in 1 .. k + 1 : c[i] = f[i]
      BY <1>1, <2>3
    <3> HIDE DEF a, b, c
    <3>4. /\ a \o b \in Seq(Seq(Char))
          /\ Len(a \o b) = k + 1
          /\ \A i \in 1 .. k + 1 : (a \o b)[i] = IF i <= k THEN a[i] ELSE b[i - k]
      <4>1. /\ a \o b \in Seq(Seq(Char))
            /\ Len(a \o b) = Len(a) + Len(b)
            /\ \A i \in 1 .. Len(a) + Len(b) :
                 (a \o b)[i] = IF i <= Len(a) THEN a[i] ELSE b[i - Len(a)]
        BY ONLY <3>1, <3>2, ConcatProperties
      <4>2. Len(a) = k /\ Len(b) = 1
        BY ONLY <3>1, <3>2
      <4> QED  BY ONLY <4>1, <4>2
    <3>5. \A i \in 1 .. k + 1 : (a \o b)[i] = f[i]
      <4>1. SUFFICES ASSUME NEW i \in 1 .. k + 1 PROVE (a \o b)[i] = f[i]
        BY <4>1
      <4>2. CASE i <= k
        BY <2>3, <3>1, <3>4, <4>2
      <4>3. CASE i = k + 1
        <5>1. ~ (i <= k) /\ i - k = 1
          BY <4>3
        <5>2. (a \o b)[i] = b[i - k]
          BY ONLY <3>4, <4>1, <5>1
        <5>3. b[i - k] = b[1]
          BY ONLY <5>1, Zenon
        <5>4. f[i] = f[k + 1]
          BY ONLY <4>3, Zenon
        <5>5. b[1] = f[k + 1]
          BY <3>2
        <5> QED  BY <5>2, <5>3, <5>4, <5>5
      <4>4. i <= k \/ i = k + 1
        BY <1>1
      <4> QED  BY ONLY <4>2, <4>3, <4>4
    <3>6. \A i \in 1 .. Len(a \o b) : (a \o b)[i] = c[i]
      BY <3>3, <3>4, <3>5
    <3>7. Len(a \o b) = Len(c)
      BY <3>3, <3>4
    <3>8. a \o b = c
      BY ONLY <3>3, <3>4, <3>6, <3>7, SeqEqual
    <3> QED  BY <3>8 DEF a, b, c
  <2>7. k + 1 \in 0 .. Len(f)
    BY <1>1
  <2> QED  BY <2>5, <2>6, <2>7
<1> HIDE DEF Same
<1>4. \A k \in 0 .. Len(f) : k \in Same
  BY ONLY <1>1, <1>2, <1>3, Induction
<1>5. g[Len(f)] = SubSeq(f, 1, Len(f))
  BY <1>1, <1>4 DEF Same
<1> QED  BY <1>1, <1>5 DEF g

\* What editor_start loads fits its rows, and is at least one row.
LEMMA LoadedIsShort ==
    ASSUME NEW f \in Seq(Seq(Char))
    PROVE  Short(Loaded(f)) /\ Len(Loaded(f)) \in 1 .. MaxLines
<1> USE EditorAssumption
<1>1. Short(Needed(f)) /\ Len(Needed(f)) >= 1
  <2>1. CASE f = <<>>
    <3>1. Needed(f) = << <<>> >>
      BY <2>1 DEF Needed
    <3> QED  BY <3>1 DEF Short
  <2>2. CASE f # <<>>
    <3>1. Needed(f) = First(f)[Len(f)]
      BY <2>2 DEF Needed, First
    <3>2. Len(f) \in Nat /\ Len(f) >= 1
      BY <2>2
    <3>3. Short(First(f)[Len(f)]) /\ Len(First(f)[Len(f)]) >= Len(f)
      BY FirstIsShort
      <3>4. Len(Needed(f)) \in Nat
      BY <3>1, <3>3 DEF Short
    <3> QED  BY <3>1, <3>2, <3>3, <3>4
  <2> QED  BY <2>1, <2>2
<1> DEFINE g == Needed(f)
           n == IF Len(g) < MaxLines THEN Len(g) ELSE MaxLines
<1>2. Loaded(f) = SubSeq(g, 1, n)
  BY DEF Loaded
<1> HIDE DEF g
<1>3. g \in Seq(Seq(Char)) /\ Len(g) \in Nat /\ Len(g) >= 1 /\ \A k \in 1 .. Len(g) : Len(g[k]) < MaxLine
  BY <1>1 DEF Short, g
<1>4. n \in 1 .. MaxLines /\ n <= Len(g)
  BY <1>3
<1> HIDE DEF n
<1>5. SubSeq(g, 1, n) \in Seq(Seq(Char)) /\ Len(SubSeq(g, 1, n)) = n
  BY <1>3, <1>4
<1>6. \A k \in 1 .. n : SubSeq(g, 1, n)[k] = g[k]
  BY <1>3, <1>4
<1> QED  BY <1>2, <1>3, <1>4, <1>5, <1>6 DEF Short

\* A file of short lines, no more than the editor has rows, is loaded as it is.
LEMMA LoadedIsSame ==
    ASSUME NEW f, Short(f), Len(f) \in 1 .. MaxLines
    PROVE  Loaded(f) = f
<1>1. f \in Seq(Seq(Char)) /\ f # <<>>
  BY DEF Short
<1>2. Needed(f) = First(f)[Len(f)]
  BY <1>1 DEF Needed, First
<1>3. Needed(f) = f
  BY <1>2, FirstIsSame
<1>4. (IF Len(f) < MaxLines THEN Len(f) ELSE MaxLines) = Len(f)
  BY EditorAssumption
<1>5. SubSeq(f, 1, Len(f)) = f
  BY <1>1
<1> QED  BY <1>3, <1>4, <1>5 DEF Loaded

-----------------------------------------------------------------------------
(* Saving *)

\* The bytes that the first lines of the text take in editor_save's buffer, as Kept adds them.
Size(e) ==
    LET size[k \in 0 .. e.count] == IF k = 0 THEN 0 ELSE size[k - 1] + StrLen(e.rows[k - 1]) + 1
    IN  size

\* The sum exists, starts at zero and is a number.
LEMMA SizeIs ==
    ASSUME NEW e, Sound(e)
    PROVE  /\ Size(e)[0] = 0
           /\ \A k \in 0 .. e.count : Size(e)[k] \in Nat
<1> DEFINE Is(g, m) == g = [k \in 0 .. m |->
                               IF k = 0 THEN 0 ELSE g[k - 1] + StrLen(e.rows[k - 1]) + 1]
           Has == {m \in 0 .. e.count : \E g : Is(g, m)}
           Num == {m \in 0 .. e.count : Size(e)[m] \in Nat}
<1>1. e.count \in Nat /\ 0 \in 0 .. e.count
  BY SoundHas, EditorAssumption
<1>2. \A k \in 1 .. e.count : StrLen(e.rows[k - 1]) \in Nat
  <2>1. SUFFICES ASSUME NEW k \in 1 .. e.count PROVE StrLen(e.rows[k - 1]) \in Nat
    BY <2>1
  <2>2. k - 1 \in Line
    BY SoundHas, EditorAssumption DEF Line
  <2>3. Ended(e.rows[k - 1])
    BY <2>2, SoundHas
  <2> QED  BY <2>3, StrLenIs, EditorAssumption DEF Cell
<1>3. 0 \in Has
  <2> DEFINE g == [k \in 0 .. 0 |-> IF k = 0 THEN 0 ELSE 0 + StrLen(e.rows[k - 1]) + 1]
  <2>1. g = [k \in 0 .. 0 |-> IF k = 0 THEN 0 ELSE g[k - 1] + StrLen(e.rows[k - 1]) + 1]
    <3>1. \A k \in 0 .. 0 : k = 0
      OBVIOUS
    <3> QED  BY <3>1
  <2> HIDE DEF g
  <2> QED  BY ONLY <1>1, <2>1
<1>4. \A m \in 0 .. e.count - 1 : m \in Has => m + 1 \in Has
  <2>1. SUFFICES ASSUME NEW m \in 0 .. e.count - 1, m \in Has PROVE m + 1 \in Has
    BY <2>1
  <2>2. PICK g : Is(g, m)
    BY <2>1
  <2>3. \A k \in 0 .. m : g[k] = IF k = 0 THEN 0 ELSE g[k - 1] + StrLen(e.rows[k - 1]) + 1
    BY ONLY <2>2
  <2> HIDE DEF Is
  <2> DEFINE h == [k \in 0 .. m + 1 |-> IF k <= m THEN g[k] ELSE g[m] + StrLen(e.rows[m]) + 1]
  <2>4. \A k \in 0 .. m + 1 : h[k] = IF k = 0 THEN 0 ELSE h[k - 1] + StrLen(e.rows[k - 1]) + 1
    <3>1. SUFFICES ASSUME NEW k \in 0 .. m + 1
                   PROVE  h[k] = IF k = 0 THEN 0 ELSE h[k - 1] + StrLen(e.rows[k - 1]) + 1
      BY <3>1
    <3>2. CASE k = 0
      <4>1. h[k] = g[k] /\ g[0] = 0
        BY <1>1, <2>3, <3>2
      <4> QED  BY ONLY <3>2, <4>1
    <3>3. CASE k # 0 /\ k <= m
      <4>1. k \in 0 .. m
        BY <3>3
      <4>2. h[k] = g[k] /\ h[k - 1] = g[k - 1]
        BY <3>3
      <4>3. g[k] = g[k - 1] + StrLen(e.rows[k - 1]) + 1
        BY ONLY <2>3, <3>3, <4>1
      <4> QED  BY ONLY <3>3, <4>2, <4>3
    <3>4. CASE k = m + 1
      <4>1. /\ k \in 0 .. m + 1 /\ k - 1 \in 0 .. m + 1
            /\ ~ (k <= m) /\ k - 1 <= m /\ k - 1 = m /\ k # 0
        BY <3>4
      <4>2. h[k] = g[m] + StrLen(e.rows[m]) + 1
        BY ONLY <4>1
      <4>3. h[k - 1] = g[m]
        BY ONLY <4>1
      <4> QED  BY ONLY <3>4, <4>1, <4>2, <4>3
    <3> QED  BY <3>2, <3>3, <3>4
  <2>5. Is(h, m + 1)
    <3>1. h = [k \in 0 .. m + 1 |-> h[k]]
      OBVIOUS
    <3> HIDE DEF h
    <3> QED  BY ONLY <2>4, <3>1 DEF Is
  <2> HIDE DEF h
  <2>6. m + 1 \in 0 .. e.count
    BY <1>1
  <2> QED  BY <2>5, <2>6
<1> HIDE DEF Has
<1>5. \A m \in 0 .. e.count : m \in Has
  BY ONLY <1>1, <1>3, <1>4, Induction
<1>6. e.count \in Has
  BY <1>1, <1>5
<1>7. \E g : Is(g, e.count)
  BY <1>6 DEF Has
<1>8. Size(e) = CHOOSE g : Is(g, e.count)
  BY DEF Size
<1> HIDE DEF Is
<1>9. Is(Size(e), e.count)
  BY <1>7, <1>8
<1> DEFINE s == Size(e)
<1>10. s = [k \in 0 .. e.count |-> IF k = 0 THEN 0 ELSE s[k - 1] + StrLen(e.rows[k - 1]) + 1]
  BY <1>9 DEF Is
<1> HIDE DEF s
<1>11. \A k \in 0 .. e.count : s[k] = IF k = 0 THEN 0 ELSE s[k - 1] + StrLen(e.rows[k - 1]) + 1
  BY ONLY <1>10
<1>12. s[0] = 0
  BY <1>1, <1>11
<1>13. \A m \in 0 .. e.count - 1 : m \in Num => m + 1 \in Num
  <2>1. SUFFICES ASSUME NEW m \in 0 .. e.count - 1, s[m] \in Nat
                 PROVE  m + 1 \in 0 .. e.count /\ s[m + 1] \in Nat
    BY <2>1 DEF s
  <2>2. m + 1 \in 0 .. e.count /\ m + 1 # 0 /\ (m + 1) - 1 = m /\ m + 1 \in 1 .. e.count
    BY <1>1
  <2>3. s[m + 1] = s[(m + 1) - 1] + StrLen(e.rows[(m + 1) - 1]) + 1
    BY ONLY <1>11, <2>2
  <2>4. StrLen(e.rows[(m + 1) - 1]) \in Nat
    BY ONLY <1>2, <2>2
  <2> QED  BY ONLY <2>1, <2>2, <2>3, <2>4
<1>14. 0 \in Num
  BY <1>1, <1>12 DEF s
<1> HIDE DEF Num
<1>15. \A m \in 0 .. e.count : m \in Num
  BY ONLY <1>1, <1>13, <1>14, Induction
<1> QED  BY <1>12, <1>15 DEF Num, s

\* Some number of lines is the most that fits, so Kept is one.
LEMMA KeptIs ==
    ASSUME NEW e, Sound(e)
    PROVE  Kept(e) \in 0 .. e.count
<1> DEFINE s == Size(e)
           P(k) == s[k] <= SaveSize /\ (k < e.count => s[k + 1] > SaveSize)
           Fits == {k \in 0 .. e.count : s[k] <= SaveSize}
<1>1. e.count \in Nat /\ SaveSize \in Nat
  BY SoundHas, EditorAssumption
<1>2. s[0] = 0 /\ \A k \in 0 .. e.count : s[k] \in Nat
  BY SizeIs
<1>3. Kept(e) = CHOOSE k \in 0 .. e.count : P(k)
  BY DEF Kept, Size
<1> HIDE DEF s
<1>4. \E k \in 0 .. e.count : P(k)
  <2>1. SUFFICES ASSUME ~ \E k \in 0 .. e.count : P(k) PROVE FALSE
    BY <2>1
  <2>2. 0 \in Fits
    BY <1>1, <1>2
  <2>3. \A k \in 0 .. e.count - 1 : k \in Fits => k + 1 \in Fits
    <3>1. SUFFICES ASSUME NEW k \in 0 .. e.count - 1, k \in Fits PROVE k + 1 \in Fits
      BY <3>1
    <3>2. k \in 0 .. e.count /\ k + 1 \in 0 .. e.count /\ k < e.count
      BY <1>1
    <3>3. ~ P(k)
      BY <2>1, <3>2
    <3>4. ~ (s[k + 1] > SaveSize)
      BY <3>1, <3>2, <3>3
    <3>5. s[k + 1] <= SaveSize
      BY <1>1, <1>2, <3>2, <3>4
    <3> QED  BY <3>2, <3>5
  <2> HIDE DEF Fits
  <2>4. \A k \in 0 .. e.count : k \in Fits
    BY ONLY <1>1, <2>2, <2>3, Induction
  <2>5. e.count \in Fits
    BY <1>1, <2>4
  <2>6. P(e.count)
    BY <1>1, <2>5 DEF Fits
  <2>7. e.count \in 0 .. e.count
    BY <1>1
  <2> QED  BY <2>1, <2>6, <2>7
<1> HIDE DEF P
<1> QED  BY <1>3, <1>4

\* The text of a sound editor is a file of short lines.
LEMMA TextIsShort ==
    ASSUME NEW e, Sound(e)
    PROVE  Short(Text(e)) /\ Len(Text(e)) = e.count
<1> USE EditorAssumption
<1> DEFINE line(k) == [i \in 1 .. StrLen(e.rows[k - 1]) |-> e.rows[k - 1][i - 1]]
           t == [k \in 1 .. e.count |-> line(k)]
<1>1. e.count \in Nat
  BY SoundHas
<1>2. Text(e) = t
  BY DEF Text
<1>3. \A k \in 1 .. e.count : line(k) \in Seq(Char) /\ Len(line(k)) < MaxLine
  <2>1. SUFFICES ASSUME NEW k \in 1 .. e.count
                 PROVE  line(k) \in Seq(Char) /\ Len(line(k)) < MaxLine
    BY <2>1
  <2> DEFINE r == e.rows[k - 1]
             n == StrLen(r)
             l == [i \in 1 .. n |-> r[i - 1]]
  <2>2. k - 1 \in Line
    BY SoundHas DEF Line
  <2>3. Ended(r)
    BY <2>2, SoundHas
  <2>4. n \in 0 .. MaxLine - 1 /\ \A i \in 0 .. n - 1 : r[i] # End
    BY <2>3, StrLenIs DEF Cell
  <2>5. \A i \in Cell : r[i] \in Char \cup {End}
    BY <2>3 DEF Ended, Row
  <2> HIDE DEF n, r
  <2>6. \A i \in 1 .. n : r[i - 1] \in Char
    <3>1. SUFFICES ASSUME NEW i \in 1 .. n PROVE r[i - 1] \in Char
      BY <3>1
    <3>2. i - 1 \in Cell /\ i - 1 \in 0 .. n - 1
      BY <2>4 DEF Cell
    <3> QED  BY <2>4, <2>5, <3>2
  <2>7. l \in Seq(Char) /\ Len(l) = n
    BY <2>4, <2>6
  <2> QED  BY <2>4, <2>7 DEF n, r
<1> HIDE DEF line
<1>4. t \in Seq(Seq(Char)) /\ Len(t) = e.count
  BY <1>1, <1>3
<1>5. \A k \in 1 .. Len(t) : Len(t[k]) < MaxLine
  BY <1>3, <1>4
<1> QED  BY <1>2, <1>4, <1>5 DEF Short

-----------------------------------------------------------------------------
(* The inductive invariant *)

\* An editor e, which is open or not (a), over a file f that it may not hold entirely (l).
Fine(e, a, f, l) ==
    /\ e \in Editors
    /\ \A k \in Line : Ended(e.rows[k])
    /\ Near(e, 2)
    /\ a \in BOOLEAN
    /\ f \in Seq(Seq(Char))
    /\ l \in BOOLEAN
    /\ a => e.cy < e.count /\ e.scroll <= e.cy /\ e.cy < e.scroll + Rows
    /\ (a /\ ~e.modified /\ ~l) => Text(e) = Loaded(f)

\* The invariant.
IInv == Fine(ed, active, file, lost)

\* An open editor is sound.
LEMMA FineHas ==
    ASSUME NEW e, NEW a, NEW f, NEW l, Fine(e, a, f, l)
    PROVE  a => Sound(e)
BY DEF Fine, Sound

\* Every row starts as zeros.
LEMMA InitIsFine == Init => IInv
<1> USE EditorAssumption
<1>1. SUFFICES ASSUME Init PROVE IInv
  OBVIOUS
<1> DEFINE blank == [k \in Line |-> [i \in Cell |-> End]]
<1>2. ed = [rows |-> blank, count |-> 0, cx |-> 0, cy |-> 0, scroll |-> 0, modified |-> FALSE]
  BY <1>1 DEF Init
<1>3. blank \in [Line -> Row] /\ \A k \in Line : Ended(blank[k])
  BY DEF Row, Cell, Ended
<1> HIDE DEF blank
<1>4. 0 \in Cell /\ 0 \in Line /\ 0 \in 0 .. MaxLines
  BY DEF Cell, Line
<1>5. ed \in Editors /\ ed.rows = blank /\ ed.cx = 0
  BY <1>2, <1>3, <1>4 DEF Editors
<1>6. active = FALSE /\ lost = FALSE /\ file \in Seq(Seq(Char))
  BY <1>1 DEF Init
<1>7. Near(ed, 2)
  BY <1>5 DEF Near
<1>8. ~ active /\ active \in BOOLEAN /\ lost \in BOOLEAN
  BY <1>6
<1>9. \A k \in Line : Ended(ed.rows[k])
  BY <1>3, <1>5
<1> QED  BY ONLY <1>5, <1>6, <1>7, <1>8, <1>9 DEF IInv, Fine

\* A key that leaves the star off leaves the text as it was.
LEMMA KeyIsFine ==
    ASSUME NEW e, NEW a, NEW f, NEW l, Fine(e, a, f, l), a = TRUE,
           NEW k \in Char \cup Edit \cup Move
    PROVE  Fine(Adjusted(Pressed(e, k)), a, f, l)
<1> DEFINE p == Pressed(e, k)
           g == Adjusted(p)
<1>1. Sound(e) /\ Near(e, 2)
  BY FineHas DEF Fine
<1>2. Sound(p) /\ Tells(e, p)
  BY <1>1, PressedIsSound
<1> HIDE DEF p
<1>3. /\ Sound(g) /\ Tells(p, g) /\ Near(g, 2)
      /\ g.scroll <= g.cy /\ g.cy < g.scroll + Rows
  BY <1>2, AdjustedIsSound
<1>4. Tells(e, g)
  BY <1>2, <1>3 DEF Tells
<1> HIDE DEF g
<1>5. ASSUME ~ g.modified, ~ l PROVE Text(g) = Loaded(f)
  <2>1. g.rows = e.rows /\ g.count = e.count /\ g.modified = e.modified
    BY <1>4, <1>5 DEF Tells
  <2>2. Text(g) = Text(e)
    BY <2>1 DEF Text
  <2> QED  BY <1>5, <2>1, <2>2 DEF Fine
<1> QED  BY <1>3, <1>5 DEF Fine, Sound, p, g

\* editor_start shows the file, over whatever the rows held.
LEMMA OpenIsFine ==
    ASSUME NEW e, NEW a, NEW f, NEW l, Fine(e, a, f, l), NEW m \in BOOLEAN, NEW g,
           g = [rows |-> [k \in Line |-> IF k < Len(Loaded(f))
                                         THEN Put(e.rows[k], Loaded(f)[k + 1]) ELSE e.rows[k]],
                count |-> Len(Loaded(f)), cx |-> 0, cy |-> 0, scroll |-> 0, modified |-> FALSE]
    PROVE  Fine(g, TRUE, f, m)
<1> USE EditorAssumption
<1> DEFINE t == Loaded(f)
           rows == [k \in Line |-> IF k < Len(t) THEN Put(e.rows[k], t[k + 1]) ELSE e.rows[k]]
<1>1. /\ f \in Seq(Seq(Char))
      /\ e.rows \in [Line -> Row]
      /\ \A k \in Line : Ended(e.rows[k])
  BY DEF Fine, Editors
<1>2. /\ t \in Seq(Seq(Char))
      /\ Len(t) \in 1 .. MaxLines
      /\ \A k \in 1 .. Len(t) : t[k] \in Seq(Char) /\ Len(t[k]) < MaxLine
  <2>1. Short(t) /\ Len(t) \in 1 .. MaxLines
    BY <1>1, LoadedIsShort
  <2> HIDE DEF t
  <2> QED  BY <2>1 DEF Short
<1>3. g = [rows |-> rows, count |-> Len(t), cx |-> 0, cy |-> 0, scroll |-> 0, modified |-> FALSE]
  OBVIOUS
<1> HIDE DEF t
<1>4. ASSUME NEW k \in Line, k < Len(t)
      PROVE  /\ Ended(rows[k])
             /\ StrLen(rows[k]) = Len(t[k + 1])
             /\ \A i \in 1 .. Len(t[k + 1]) : rows[k][i - 1] = t[k + 1][i]
  <2>1. t[k + 1] \in Seq(Char) /\ Len(t[k + 1]) < MaxLine
    BY <1>2, <1>4 DEF Line
  <2>2. rows[k] = Put(e.rows[k], t[k + 1])
    BY <1>4
  <2>3. Ended(e.rows[k])
    BY <1>1
  <2> HIDE DEF rows
  <2> QED  BY <2>1, <2>2, <2>3, PutEnded
<1>5. \A k \in Line : Ended(rows[k])
  <2>1. SUFFICES ASSUME NEW k \in Line PROVE Ended(rows[k])
    BY <2>1
  <2>2. CASE k < Len(t)
    BY <1>4, <2>2
  <2>3. CASE ~ (k < Len(t))
    BY <1>1, <2>3
  <2> QED  BY <2>2, <2>3
<1>6. rows \in [Line -> Row]
  BY <1>5 DEF Ended
<1> HIDE DEF rows
<1>7. 0 \in Cell /\ 0 \in Line /\ Len(t) \in 0 .. MaxLines
  BY <1>2 DEF Cell, Line
<1>8. /\ g \in Editors
      /\ g.rows = rows
      /\ g.count = Len(t)
      /\ g.cx = 0 /\ g.cy = 0 /\ g.scroll = 0
  BY <1>3, <1>6, <1>7 DEF Editors
<1>9. Text(g) = t
  <2> DEFINE line(k) == [i \in 1 .. StrLen(g.rows[k - 1]) |-> g.rows[k - 1][i - 1]]
             x == [k \in 1 .. g.count |-> line(k)]
  <2>1. Text(g) = x
    BY DEF Text
  <2>2. ASSUME NEW k \in 1 .. Len(t) PROVE line(k) = t[k]
    <3> DEFINE r == rows[k - 1]
               c == t[k]
    <3>1. k - 1 \in Line /\ k - 1 < Len(t) /\ (k - 1) + 1 = k
      BY <1>2 DEF Line
    <3>2. StrLen(r) = Len(t[(k - 1) + 1])
      BY <1>4, <3>1
    <3>3. \A i \in 1 .. Len(t[(k - 1) + 1]) : r[i - 1] = t[(k - 1) + 1][i]
      BY <1>4, <3>1
    <3>4. t[(k - 1) + 1] = c
      BY <3>1
    <3>5. line(k) = [i \in 1 .. StrLen(r) |-> r[i - 1]]
      BY <1>8
    <3>6. c \in Seq(Char)
      BY <1>2
    <3> HIDE DEF r, c, line
    <3>7. StrLen(r) = Len(c) /\ \A i \in 1 .. Len(c) : r[i - 1] = c[i]
      BY <3>2, <3>3, <3>4
    <3>8. line(k) = [i \in 1 .. Len(c) |-> c[i]]
      BY <3>5, <3>7
    <3>9. c = [i \in 1 .. Len(c) |-> c[i]]
      BY <3>6
    <3> QED  BY <3>8, <3>9 DEF c
  <2> HIDE DEF line
  <2>3. x = [k \in 1 .. Len(t) |-> t[k]]
    BY <1>8, <2>2
  <2>4. t = [k \in 1 .. Len(t) |-> t[k]]
    BY <1>2
  <2> QED  BY <2>1, <2>3, <2>4
<1>10. Near(g, 2)
  BY <1>8 DEF Near
<1>11. g.cy < g.count /\ g.scroll <= g.cy /\ g.cy < g.scroll + Rows
  BY <1>2, <1>8
<1>12. \A k \in Line : Ended(g.rows[k])
  BY <1>5, <1>8
<1> QED  BY <1>1, <1>8, <1>9, <1>10, <1>11, <1>12 DEF Fine, t

\* What is saved whole is loaded as it was; what was not is counted as lost.
LEMMA SaveIsFine ==
    ASSUME NEW e, NEW a, NEW f, NEW l, Fine(e, a, f, l), a = TRUE,
           NEW g, g = [e EXCEPT !.modified = FALSE]
    PROVE  /\ Fine(g, a, f, TRUE)
           /\ Fine(g, a, SubSeq(Text(e), 1, Kept(e)), Kept(e) < e.count)
<1>1. Sound(e) /\ Near(e, 2) /\ f \in Seq(Seq(Char))
  BY FineHas DEF Fine
<1>2. /\ g \in Editors
      /\ g.rows = e.rows
      /\ g.count = e.count
      /\ g.cx = e.cx /\ g.cy = e.cy /\ g.scroll = e.scroll
  BY DEF Fine, Editors
<1>3. /\ \A k \in Line : Ended(g.rows[k])
      /\ Near(g, 2)
      /\ g.cy < g.count /\ g.scroll <= g.cy /\ g.cy < g.scroll + Rows
  BY <1>2 DEF Fine, Near
<1>4. Text(g) = Text(e)
  BY <1>2 DEF Text
<1> DEFINE t == Text(e)
           n == Kept(e)
           o == SubSeq(t, 1, n)
<1>5. Short(t) /\ Len(t) = e.count /\ e.count \in 1 .. MaxLines
  BY <1>1, TextIsShort, SoundHas
<1>6. n \in 0 .. e.count
  BY <1>1, KeptIs
<1> HIDE DEF t, n
<1>7. t \in Seq(Seq(Char)) /\ Len(t) \in Nat
  BY <1>5 DEF Short
<1>8. o \in Seq(Seq(Char))
  BY <1>5, <1>6, <1>7
<1>9. ASSUME ~ (n < e.count) PROVE t = Loaded(o)
  <2>1. n = Len(t)
    BY <1>5, <1>6, <1>9, EditorAssumption
  <2>2. o = t
    BY <1>7, <2>1
  <2> HIDE DEF o
  <2> QED  BY <1>5, <2>2, LoadedIsSame
<1> HIDE DEF o
<1>10. Fine(g, a, f, TRUE)
  BY <1>1, <1>2, <1>3 DEF Fine
<1>11. (n < e.count) \in BOOLEAN
  OBVIOUS
<1>12. Fine(g, a, o, n < e.count)
  BY <1>2, <1>3, <1>4, <1>8, <1>9, <1>11 DEF Fine, t
<1> QED  BY <1>10, <1>12 DEF n, o, t

\* Every step.
LEMMA NextIsFine == IInv /\ [Next]_vars => IInv'
<1> SUFFICES ASSUME IInv, [Next]_vars PROVE Fine(ed', active', file', lost')
  BY DEF IInv
<1> USE DEF IInv
<1>1. ASSUME NEW k \in Char \cup Edit \cup Move, Key(k)
      PROVE  Fine(ed', active', file', lost')
  <2>1. /\ active = TRUE /\ ed' = Adjusted(Pressed(ed, k))
        /\ active' = active /\ file' = file /\ lost' = lost
    BY <1>1 DEF Key, Fine
  <2>2. Fine(Adjusted(Pressed(ed, k)), active, file, lost)
    BY <2>1, KeyIsFine
  <2> QED  BY <2>1, <2>2
<1>2. CASE Open
  <2>1. lost' \in BOOLEAN
    BY <1>2 DEF Open
  <2>2. active' = TRUE /\ file' = file
    BY <1>2 DEF Open
  <2>3. Fine(ed', TRUE, file, lost')
    BY <1>2, <2>1, OpenIsFine DEF Open
  <2> QED  BY <2>2, <2>3
<1>3. CASE Save
  <2>1. active = TRUE /\ active' = active /\ ed' = [ed EXCEPT !.modified = FALSE]
    BY <1>3 DEF Save, Fine
  <2>2. /\ Fine(ed', active, file, TRUE)
        /\ Fine(ed', active, SubSeq(Text(ed), 1, Kept(ed)), Kept(ed) < ed.count)
    BY <2>1, SaveIsFine
  <2>3. \/ file' = SubSeq(Text(ed), 1, Kept(ed)) /\ lost' = (Kept(ed) < ed.count)
        \/ file' = file /\ lost' = TRUE
    BY <1>3 DEF Save
  <2> QED  BY ONLY <2>1, <2>2, <2>3
<1>4. CASE Quit
  BY <1>4 DEF Quit, Fine
<1>5. CASE UNCHANGED vars
  BY <1>5 DEF vars
<1> QED  BY <1>1, <1>2, <1>3, <1>4, <1>5 DEF Next

\* The invariant holds throughout.
LEMMA AlwaysFine == Spec => []IInv
BY InitIsFine, NextIsFine, PTL DEF Spec

-----------------------------------------------------------------------------
(* Theorems *)

\* The cursor of editor.c is inside its row, and in a line of the text while it is open.
THEOREM TypeCorrect == Spec => []TypeOK
<1>1. IInv => TypeOK
  BY DEF IInv, Fine, Editors, TypeOK
<1> QED  BY <1>1, AlwaysFine, PTL

\* No sequence of keys, loads and saves fills a row of g_lines to its last cell: strlen,
\* strcpy and the shifting loops of editor.c never leave a row.
THEOREM RowsEnd == Spec => []RowsAreTerminated
<1>1. IInv => RowsAreTerminated
  BY DEF IInv, Fine, Ended, RowsAreTerminated
<1> QED  BY <1>1, AlwaysFine, PTL

\* After every key the line with the cursor is on the screen, whatever the screen's size.
THEOREM CursorStaysShown == Spec => []CursorIsShown
<1>1. IInv => CursorIsShown
  BY DEF IInv, Fine, CursorIsShown
<1> QED  BY <1>1, AlwaysFine, PTL

\* Without its star the editor shows what opening the file again would show, unless a load or
\* a save since it was opened did not take all: editor_start and editor_save are inverse.
THEOREM StarTells == Spec => []UnmodifiedIsSaved
<1>1. IInv => UnmodifiedIsSaved
  BY DEF IInv, Fine, UnmodifiedIsSaved
<1> QED  BY <1>1, AlwaysFine, PTL
=============================================================================
