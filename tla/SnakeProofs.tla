----------------------------- MODULE SnakeProofs -----------------------------
(***************************************************************************)
(* Theorems about Snake, for every grid and speed.                         *)
(***************************************************************************)
EXTENDS Snake, SequenceTheorems, FiniteSetTheorems, TLAPS

-----------------------------------------------------------------------------
(* The grid *)

LEMMA GridFacts ==
    /\ Cols \in Nat /\ Rows \in Nat /\ MaxCells \in Nat /\ MaxCells > 4
    /\ <<0, 0>> \in Grid
    /\ IsFiniteSet(Grid) /\ Cardinality(Grid) = MaxCells
  <1>1. Cols \in Nat /\ Rows \in Nat /\ Cols >= 6 /\ Rows >= 1
    BY SnakeAssumption
  <1>2. MaxCells \in Nat /\ MaxCells > 4
    <2>1. Cols * Rows >= Cols * 1
      BY <1>1, Z3
    <2> QED
      BY <1>1, <2>1 DEF MaxCells
  <1>3. IsFiniteSet(0 .. Cols - 1) /\ Cardinality(0 .. Cols - 1) = Cols
    BY <1>1, FS_Interval
  <1>4. IsFiniteSet(0 .. Rows - 1) /\ Cardinality(0 .. Rows - 1) = Rows
    BY <1>1, FS_Interval
  <1>5. IsFiniteSet(Grid) /\ Cardinality(Grid) = Cardinality(0 .. Cols - 1) * Cardinality(0 .. Rows - 1)
    BY <1>3, <1>4, FS_Product, Zenon DEF Grid
  <1>6. Cardinality(Grid) = MaxCells
    BY <1>3, <1>4, <1>5, Zenon DEF MaxCells
  <1>7. 0 \in 0 .. Cols - 1 /\ 0 \in 0 .. Rows - 1
    BY <1>1
  <1>8. <<0, 0>> \in Grid
    BY <1>7 DEF Grid
  <1> QED
    BY <1>1, <1>2, <1>5, <1>6, <1>8

LEMMA AheadFacts ==
    ASSUME NEW c \in Grid, NEW d \in Dir
    PROVE  Ahead(c, d) # c /\ Beside(Ahead(c, d), c)
  BY GridFacts DEF Grid, Dir, Ahead, Beside

LEMMA BackFacts ==
    ASSUME NEW d \in Dir
    PROVE  Back(d) \in Dir /\ Back(d) # d /\ \A e \in Dir : (e # Back(d)) <=> (d # Back(e))
  BY DEF Dir, Back

-----------------------------------------------------------------------------
(* The body of the snake *)

\* A cell in front of a chain that it is not part of.
LEMMA Pushed ==
    ASSUME NEW s \in Seq(Grid), NEW c \in Grid
    PROVE  LET t == <<c>> \o s
           IN  /\ t \in Seq(Grid) /\ Len(t) = Len(s) + 1 /\ t[1] = c
               /\ \A i \in 2 .. Len(t) : t[i] = s[i - 1]
               /\ Cells(t) = Cells(s) \cup {c}
  <1> DEFINE t == <<c>> \o s
  <1>1. <<c>> \in Seq(Grid) /\ Len(<<c>>) = 1 /\ Len(s) \in Nat
    BY LenProperties
  <1>2. /\ t \in Seq(Grid) /\ Len(t) = 1 + Len(s)
        /\ \A i \in 1 .. 1 + Len(s) : t[i] = IF i <= 1 THEN <<c>>[i] ELSE s[i - 1]
    BY <1>1, ConcatProperties
  <1>3. DOMAIN t = 1 .. Len(s) + 1 /\ DOMAIN s = 1 .. Len(s)
    BY <1>2, LenProperties
  <1> HIDE DEF t
  <1>4. t[1] = c /\ \A i \in 2 .. Len(t) : t[i] = s[i - 1]
    BY <1>1, <1>2
  <1>5. Cells(t) = Cells(s) \cup {c}
    <2>1. ASSUME NEW i \in DOMAIN t PROVE t[i] \in Cells(s) \cup {c}
      <3>1. i = 1 \/ (i \in 2 .. Len(t) /\ i - 1 \in DOMAIN s)
        BY <1>1, <1>2, <1>3
      <3> QED
        BY <3>1, <1>4 DEF Cells
    <2>2. ASSUME NEW i \in DOMAIN s PROVE s[i] \in Cells(t)
      <3>1. i + 1 \in 2 .. Len(t) /\ i + 1 \in DOMAIN t /\ (i + 1) - 1 = i
        BY <1>1, <1>2, <1>3
      <3>2. t[i + 1] = s[i]
        BY <3>1, <1>4
      <3> QED
        BY <3>1, <3>2 DEF Cells
    <2>3. c \in Cells(t)
      <3>1. 1 \in DOMAIN t
        BY <1>1, <1>3
      <3> QED
        BY <3>1, <1>4 DEF Cells
    <2> QED
      BY <2>1, <2>2, <2>3 DEF Cells
  <1>6. t \in Seq(Grid) /\ Len(t) = Len(s) + 1
    BY <1>1, <1>2
  <1> QED
    BY <1>4, <1>5, <1>6 DEF t

\* It stays in one piece.
LEMMA PushedWhole ==
    ASSUME NEW s \in Seq(Grid), Len(s) >= 1, OnePiece(s), NEW d \in Dir,
           Ahead(s[1], d) \in Grid, Ahead(s[1], d) \notin Cells(s)
    PROVE  OnePiece(<<Ahead(s[1], d)>> \o s)
  <1> DEFINE c == Ahead(s[1], d)
             t == <<c>> \o s
  <1>0. DOMAIN s = 1 .. Len(s) /\ Len(s) \in Nat /\ s[1] \in Grid
    <2>1. DOMAIN s = 1 .. Len(s) /\ Len(s) \in Nat
      BY LenProperties
    <2>2. 1 \in 1 .. Len(s)
      BY <2>1
    <2> QED
      BY <2>1, <2>2, ElementOfSeq
  <1>1. /\ t \in Seq(Grid) /\ Len(t) = Len(s) + 1 /\ t[1] = c
        /\ \A i \in 2 .. Len(t) : t[i] = s[i - 1]
    BY Pushed
  <1>2. Beside(c, s[1]) /\ c \notin Cells(s)
    BY <1>0, AheadFacts
  <1>3. DOMAIN t = 1 .. Len(s) + 1
    BY <1>1, LenProperties
  <1> HIDE DEF t, c
  <1>4. ASSUME NEW i \in DOMAIN t, NEW j \in 1 .. i - 1 PROVE t[i] # t[j]
    <2>1. i \in 2 .. Len(t) /\ i - 1 \in DOMAIN s /\ t[i] = s[i - 1]
      BY <1>0, <1>1, <1>3
    <2>2. CASE j = 1
      BY <2>1, <2>2, <1>1, <1>2 DEF Cells
    <2>3. CASE j \in 2 .. i - 1
      <3>1. j \in 2 .. Len(t) /\ j - 1 \in 1 .. (i - 1) - 1
        BY <2>1, <2>3, <1>0, <1>1
      <3>2. t[j] = s[j - 1]
        BY <3>1, <1>1
      <3> QED
        BY <2>1, <3>1, <3>2 DEF OnePiece
    <2> QED
      BY <2>1, <2>2, <2>3
  <1>5. ASSUME NEW i \in 1 .. Len(t) - 1 PROVE Beside(t[i], t[i + 1])
    <2>1. i + 1 \in 2 .. Len(t) /\ (i + 1) - 1 = i
      BY <1>0, <1>1
    <2>2. t[i + 1] = s[i]
      BY <2>1, <1>1
    <2>3. CASE i = 1
      BY <2>2, <2>3, <1>1, <1>2
    <2>4. CASE i \in 2 .. Len(t) - 1
      <3>1. i \in 2 .. Len(t) /\ i - 1 \in 1 .. Len(s) - 1 /\ (i - 1) + 1 = i
        BY <2>4, <1>0, <1>1
      <3>2. t[i] = s[i - 1]
        BY <3>1, <1>1
      <3>3. Beside(s[i - 1], s[(i - 1) + 1])
        BY <3>1 DEF OnePiece
      <3> QED
        BY <2>2, <3>1, <3>2, <3>3
    <2> QED
      BY <2>3, <2>4, <1>0, <1>1
  <1>6. OnePiece(t)
    BY <1>4, <1>5 DEF OnePiece
  <1> QED
    BY <1>6 DEF t, c

\* A part of the snake from its head is a snake.
LEMMA FrontWhole ==
    ASSUME NEW s \in Seq(Grid), OnePiece(s), NEW n \in 1 .. Len(s)
    PROVE  LET u == SubSeq(s, 1, n)
           IN  /\ u \in Seq(Grid) /\ Len(u) = n /\ u[1] = s[1]
               /\ Cells(u) \subseteq Cells(s) /\ OnePiece(u)
  <1> DEFINE u == SubSeq(s, 1, n)
  <1>0. DOMAIN s = 1 .. Len(s) /\ Len(s) \in Nat /\ n \in Nat /\ \A i \in 1 .. n : s[i] \in Grid
    BY LenProperties
  <1>1. u \in Seq(Grid) /\ Len(u) = n /\ \A i \in 1 .. n : u[i] = s[i]
    <2>1. /\ u \in Seq(Grid)
          /\ Len(u) = IF 1 <= n THEN n - 1 + 1 ELSE 0
          /\ \A i \in 1 .. n - 1 + 1 : u[i] = s[1 + i - 1]
      BY <1>0, SubSeqProperties
    <2> QED
      BY <1>0, <2>1
  <1>2. DOMAIN u = 1 .. n
    BY <1>1, LenProperties
  <1> HIDE DEF u
  <1>3. Cells(u) \subseteq Cells(s)
    BY <1>0, <1>1, <1>2 DEF Cells
  <1>4. OnePiece(u)
    <2>1. ASSUME NEW i \in DOMAIN u, NEW j \in 1 .. i - 1 PROVE u[i] # u[j]
      BY <1>0, <1>1, <1>2 DEF OnePiece
    <2>2. ASSUME NEW i \in 1 .. Len(u) - 1 PROVE Beside(u[i], u[i + 1])
      <3>1. i \in 1 .. n /\ i + 1 \in 1 .. n /\ i \in 1 .. Len(s) - 1
        BY <1>0, <1>1
      <3> QED
        BY <3>1, <1>1 DEF OnePiece
    <2> QED
      BY <2>1, <2>2 DEF OnePiece
  <1> QED
    BY <1>0, <1>1, <1>3, <1>4 DEF u

\* The snake fits the grid, and when it fills it every cell is its own.
LEMMA Fits ==
    ASSUME NEW s \in Seq(Grid), OnePiece(s)
    PROVE  Len(s) <= MaxCells /\ (Len(s) = MaxCells => Cells(s) = Grid)
  <1>0. s \in [1 .. Len(s) -> Grid] /\ Len(s) \in Nat /\ DOMAIN s = 1 .. Len(s)
    BY LenProperties
  <1>1. \A i, j \in 1 .. Len(s) : s[i] = s[j] => i = j
    <2> SUFFICES ASSUME NEW i \in 1 .. Len(s), NEW j \in 1 .. Len(s), i # j PROVE s[i] # s[j]
      OBVIOUS
    <2>1. i \in 1 .. j - 1 \/ j \in 1 .. i - 1
      BY <1>0
    <2> QED
      BY <1>0, <2>1 DEF OnePiece
  <1>2. s \in Injection(1 .. Len(s), Grid)
    BY <1>0, <1>1 DEF Injection, IsInjective
  <1>3. Cardinality(1 .. Len(s)) = Len(s)
    <2>1. Cardinality(1 .. Len(s)) = IF 1 > Len(s) THEN 0 ELSE Len(s) - 1 + 1
      <3> DEFINE n == Len(s)
      <3>1. 1 \in Int /\ n \in Int
        BY <1>0
      <3> HIDE DEF n
      <3>2. Cardinality(1 .. n) = IF 1 > n THEN 0 ELSE n - 1 + 1
        BY <3>1, FS_Interval
      <3> QED
        BY <3>2 DEF n
    <2> QED
      BY <1>0, <2>1
  <1>4. /\ Len(s) <= Cardinality(Grid)
        /\ Len(s) = Cardinality(Grid) => s \in Surjection(1 .. Len(s), Grid)
    BY <1>2, <1>3, GridFacts, FS_Injection
  <1>5. s \in Surjection(1 .. Len(s), Grid) => Cells(s) = Grid
    BY <1>0 DEF Surjection, Cells
  <1> QED
    BY <1>4, <1>5, GridFacts

-----------------------------------------------------------------------------
(* The inductive invariant *)

Typed ==
    /\ active \in BOOLEAN /\ dirty \in BOOLEAN /\ shellDirty \in BOOLEAN
    /\ watched \in BOOLEAN /\ raced \in BOOLEAN /\ shown \in BOOLEAN /\ missed \in BOOLEAN
    /\ state \in {"splash", "play", "paused", "over"}
    /\ dir \in Dir /\ nextDir \in Dir /\ want \in Dir
    /\ div \in {0} \cup MinDiv .. StartDiv
    /\ acc \in 0 .. StartDiv
    /\ body \in Seq(Grid) /\ food \in Grid
    /\ score \in Nat
    /\ pc \in {"loop", "start", "round", "pause", "resume", "turn", "over?", "clear"}

\* What a key finds out before it stores is still so, but for the end of the game.
Steps ==
    /\ pc \in {"pause", "resume", "turn"} => state # "splash"
    /\ pc = "round" => state \in {"splash", "over"}
    /\ (pc = "turn" /\ ~raced /\ state = "play") => dir # Back(want)

\* A round has been set up, and not been thrown away by the start of a new game.
InRound == state # "splash" \/ pc = "round"

Whole == Len(body) = 4 + score /\ OnePiece(body)
FoodFree == Len(body) < MaxCells => food \notin Cells(body) \ {<<0, 0>>}
Speedy == div \in MinDiv .. StartDiv
Rounds == (InRound => Whole /\ FoodFree /\ Speedy) /\ (~InRound => score = 0)

\* What of the screen is up to date, at each place of the main loop.
Screen ==
    /\ (active /\ watched /\ pc = "loop" /\ ~dirty /\ ~shellDirty) => shown \/ missed
    /\ pc = "over?" => (shown \/ missed \/ state = "over")
    /\ pc = "clear" => shown \/ missed

IInv == Typed /\ Steps /\ Rounds /\ Screen

LEMMA InitIInv == Init => IInv
  <1> SUFFICES ASSUME Init PROVE IInv
    OBVIOUS
  <1>1. Typed
    <2>1. <<>> \in Seq(Grid) /\ <<0, 0>> \in Grid /\ 0 \in 0 .. StartDiv
      BY GridFacts, SnakeAssumption
    <2> QED
      BY <2>1 DEF Init, Typed, Dir
  <1>2. Steps /\ Rounds /\ Screen
    BY DEF Init, Steps, Rounds, InRound, Screen
  <1> QED
    BY <1>1, <1>2 DEF IInv

\* The food put down lies in the grid, and on a free cell or in the corner.
LEMMA FoodPlaced ==
    ASSUME NEW s \in Seq(Grid), food \in Grid, NEW f \in PlaceFood(s, food)
    PROVE  f \in Grid /\ (Len(s) < MaxCells => f \notin Cells(s) \ {<<0, 0>>})
  <1>1. Len(s) \in Nat /\ MaxCells \in Nat /\ <<0, 0>> \in Grid
    BY GridFacts, LenProperties
  <1>2. CASE Len(s) >= MaxCells
    BY <1>1, <1>2 DEF PlaceFood
  <1>3. CASE Len(s) < MaxCells
    BY <1>1, <1>3 DEF PlaceFood
  <1> QED
    BY <1>1, <1>2, <1>3

-----------------------------------------------------------------------------
(* Every step preserves it *)

\* The cell in front of the head of a round.
LEMMA HeadOfRound ==
    ASSUME Typed, Whole
    PROVE  /\ Len(body) \in Nat /\ Len(body) >= 4 /\ DOMAIN body = 1 .. Len(body)
           /\ body[1] \in Grid /\ Ahead(body[1], nextDir) # body[1]
  <1>1. Len(body) \in Nat /\ DOMAIN body = 1 .. Len(body) /\ Len(body) >= 4
    BY LenProperties DEF Typed, Whole
  <1>2. body[1] \in Grid
    BY <1>1, ElementOfSeq DEF Typed
  <1> QED
    BY <1>1, <1>2, AheadFacts DEF Typed

LEMMA GlideStep ==
    ASSUME IInv, InRound, Glide
    PROVE  /\ body' \in Seq(Grid) /\ body' # body /\ Len(body') = Len(body)
           /\ OnePiece(body') /\ (FoodFree => FoodFree')
  <1> DEFINE c == Ahead(body[1], nextDir)
             n == Len(body) - 1
             u == SubSeq(body, 1, n)
  <1>0. Typed /\ Whole
    BY DEF IInv, Rounds
  <1>1. n \in 1 .. Len(body) /\ n \in Nat
    BY <1>0, HeadOfRound
  <1>2. u \in Seq(Grid) /\ Len(u) = n /\ u[1] = body[1] /\ Cells(u) \subseteq Cells(body) /\ OnePiece(u)
    BY <1>0, <1>1, FrontWhole DEF Typed, Whole
  <1>3. c \in Grid /\ c \notin Cells(u) /\ c # food /\ food' = food /\ body' = <<c>> \o u
    BY DEF Glide, Hits
  <1>4. c # body[1]
    BY <1>0, HeadOfRound
  <1>5. OnePiece(<<Ahead(u[1], nextDir)>> \o u)
    <2>1. Len(u) >= 1 /\ nextDir \in Dir
      BY <1>0, <1>1, <1>2 DEF Typed
    <2>2. Ahead(u[1], nextDir) \in Grid /\ Ahead(u[1], nextDir) \notin Cells(u)
      BY <1>2, <1>3
    <2> HIDE DEF u
    <2> QED
      BY <2>1, <2>2, <1>2, PushedWhole
  <1> HIDE DEF c, u
  <1>6. body' \in Seq(Grid) /\ Len(body') = n + 1 /\ body'[1] = c /\ Cells(body') = Cells(u) \cup {c}
    BY <1>2, <1>3, Pushed
  <1>7. OnePiece(body')
    BY <1>2, <1>3, <1>5 DEF c
  <1>8. Len(body') = Len(body)
    BY <1>0, <1>6, HeadOfRound
  <1>9. FoodFree => FoodFree'
    BY <1>2, <1>3, <1>6, <1>8 DEF FoodFree
  <1> QED
    BY <1>4, <1>6, <1>7, <1>8, <1>9

LEMMA EatStep ==
    ASSUME IInv, InRound, Eat
    PROVE  /\ body' \in Seq(Grid) /\ Len(body') = Len(body) + 1 /\ OnePiece(body')
           /\ food' \in Grid /\ FoodFree'
  <1> DEFINE c == Ahead(body[1], nextDir)
  <1>0. Typed /\ Whole
    BY DEF IInv, Rounds
  <1>1. Len(body) \in Nat /\ Len(body) >= 4
    BY <1>0, HeadOfRound
  <1>2. c \in Grid /\ c \notin Cells(body)
    <2>1. SubSeq(body, 1, Len(body)) = body
      BY <1>0, SubSeqFull DEF Typed
    <2> QED
      BY <2>1 DEF Eat, Hits
  <1>3. body' = <<c>> \o body /\ food' \in PlaceFood(body', food)
    BY DEF Eat
  <1>4. OnePiece(body')
    BY <1>0, <1>1, <1>2, <1>3, PushedWhole DEF Typed, Whole
  <1> HIDE DEF c
  <1>5. body' \in Seq(Grid) /\ Len(body') = Len(body) + 1
    BY <1>0, <1>2, <1>3, Pushed DEF Typed
  <1>6. food' \in Grid /\ (Len(body') < MaxCells => food' \notin Cells(body') \ {<<0, 0>>})
    BY <1>0, <1>3, <1>5, FoodPlaced DEF Typed
  <1> QED
    BY <1>4, <1>5, <1>6 DEF FoodFree

\* The timer interrupt.
LEMMA TickIInv == IInv /\ Tick => IInv'
  <1> SUFFICES ASSUME IInv, Tick PROVE IInv'
    OBVIOUS
  <1> USE DEF IInv
  <1>0. /\ UNCHANGED <<active, watched, shellDirty, pc, want>>
        /\ raced' = (raced \/ (pc = "turn" /\ body' # body))
        /\ IF state' = state /\ score' = score THEN UNCHANGED <<shown, missed>>
           ELSE shown' = FALSE /\ missed' = (pc \in {"over?", "clear"})
        /\ raced' \in BOOLEAN /\ shown' \in BOOLEAN /\ missed' \in BOOLEAN
    <2>1. /\ UNCHANGED <<active, watched, shellDirty, pc, want>>
          /\ raced' = (raced \/ (pc = "turn" /\ body' # body))
          /\ IF state' = state /\ score' = score THEN UNCHANGED <<shown, missed>>
             ELSE shown' = FALSE /\ missed' = (pc \in {"over?", "clear"})
      BY Zenon DEF Tick
    <2>2. raced' \in BOOLEAN
      BY <2>1, Zenon
    <2>3. shown \in BOOLEAN /\ missed \in BOOLEAN
      BY DEF Typed
    <2>4. shown' \in BOOLEAN /\ missed' \in BOOLEAN
      <3>1. CASE state' = state /\ score' = score
        BY <2>1, <2>3, <3>1
      <3>2. CASE ~(state' = state /\ score' = score)
        <4>1. shown' = FALSE /\ missed' = (pc \in {"over?", "clear"})
          BY <2>1, <3>2
        <4>2. (pc \in {"over?", "clear"}) \in BOOLEAN
          OBVIOUS
        <4> QED
          BY <4>1, <4>2
      <3> QED
        BY <3>1, <3>2
    <2> QED
      BY <2>1, <2>2, <2>4
  <1>1. CASE UNCHANGED <<state, round, dirty>>
    <2>1. Typed' /\ Screen'
      BY <1>0, <1>1 DEF Typed, Screen, round
    <2>2. Steps' /\ Rounds'
      BY <1>0, <1>1 DEF Steps, Rounds, InRound, Whole, FoodFree, Speedy, round
    <2> QED
      BY <2>1, <2>2
  <1>2. CASE state = "play" /\ Wait
    <2>1. acc' \in 0 .. StartDiv
      BY <1>2, SnakeAssumption DEF Wait, Counts, Typed
    <2>2. Typed' /\ Screen'
      BY <1>0, <1>2, <2>1 DEF Typed, Screen, Wait
    <2>3. Steps' /\ Rounds'
      BY <1>0, <1>2 DEF Steps, Rounds, InRound, Whole, FoodFree, Speedy, Wait
    <2> QED
      BY <2>2, <2>3
  <1>3. CASE state = "play" /\ Crash
    <2>1. /\ state' = "over" /\ dir' = nextDir /\ acc' = 0 /\ dirty' = TRUE
          /\ UNCHANGED <<nextDir, div, body, food, score>>
      BY <1>3 DEF Crash
    <2>2. Typed'
      BY <1>0, <2>1, SnakeAssumption DEF Typed
    <2>3. Screen'
      BY <1>0, <2>1, <1>3 DEF Screen, Typed
    <2>4. Steps' /\ Rounds'
      BY <1>0, <1>3, <2>1 DEF Steps, Rounds, InRound, Whole, FoodFree, Speedy
    <2> QED
      BY <2>2, <2>3, <2>4
  <1>4. CASE state = "play" /\ Glide
    <2>1. dir' = nextDir /\ acc' = 0 /\ UNCHANGED <<state, nextDir, div, food, score, dirty>>
      BY <1>4 DEF Glide
    <2>2. /\ body' \in Seq(Grid) /\ body' # body /\ Len(body') = Len(body)
          /\ OnePiece(body') /\ (FoodFree => FoodFree')
      BY <1>4, GlideStep DEF InRound
    <2>3. Typed'
      BY <1>0, <2>1, <2>2, SnakeAssumption DEF Typed
    <2>4. Screen'
      BY <1>0, <2>1 DEF Screen
    <2>5. Steps'
      BY <1>0, <1>4, <2>1, <2>2 DEF Steps
    <2>6. Rounds'
      BY <1>0, <1>4, <2>1, <2>2 DEF Rounds, InRound, Whole, Speedy
    <2> QED
      BY <2>3, <2>4, <2>5, <2>6
  <1>5. CASE state = "play" /\ Eat
    <2>1. /\ dir' = nextDir /\ acc' = 0 /\ dirty' = TRUE /\ nextDir' = nextDir
          /\ score' = score + 1 /\ state' \in {"play", "over"}
          /\ div' = Speed(score + 1, div)
      BY <1>5 DEF Eat
    <2>2. /\ body' \in Seq(Grid) /\ Len(body') = Len(body) + 1 /\ OnePiece(body')
          /\ food' \in Grid /\ FoodFree'
      BY <1>5, EatStep DEF InRound
    <2>3. Whole /\ Speedy /\ Len(body) \in Nat /\ body' # body
      BY <1>5, <2>2, HeadOfRound DEF Rounds, InRound
    <2>4. div' \in MinDiv .. StartDiv
      BY <2>1, <2>3, SnakeAssumption DEF Speedy, Speed
    <2>5. Typed'
      BY <1>0, <2>1, <2>2, <2>4, SnakeAssumption DEF Typed
    <2>6. Screen'
      BY <1>0, <1>5, <2>1, <2>3 DEF Screen, Typed
    <2>7. Steps'
      BY <1>0, <1>5, <2>1, <2>3 DEF Steps
    <2>8. Rounds'
      BY <1>0, <1>5, <2>1, <2>2, <2>3, <2>4 DEF Rounds, InRound, Whole, Speedy, Typed
    <2> QED
      BY <2>5, <2>6, <2>7, <2>8
  <1> QED
    BY <1>1, <1>2, <1>3, <1>4, <1>5 DEF Tick

\* reset_round: a snake of four cells, and its first food.
LEMMA ResetIInv == IInv /\ ResetRound => IInv'
  <1> SUFFICES ASSUME IInv, ResetRound PROVE IInv'
    OBVIOUS
  <1> USE DEF Unshown
  <1> DEFINE x == Cols \div 2
             y == Rows \div 2
             b == [i \in 1 .. 4 |-> <<x + 1 - i, y>>]
  <1>0. Typed /\ Steps /\ Rounds /\ Screen
    BY DEF IInv
  <1>1. x \in 3 .. Cols - 1 /\ y \in 0 .. Rows - 1
    BY SnakeAssumption
  <1>2. /\ body' = b /\ dir' = "right" /\ nextDir' = "right" /\ acc' = 0 /\ score' = 0
        /\ div' = StartDiv /\ Unshown /\ pc' = "round" /\ pc = "loop"
        /\ state \in {"splash", "over"} /\ food' \in PlaceFood(body', food)
        /\ UNCHANGED <<life, state, dirty, shellDirty, want, raced>>
    BY DEF ResetRound, AtKeys
  <1> HIDE DEF x, y
  <1>3. \A i \in 1 .. 4 : b[i] = <<x + 1 - i, y>> /\ b[i] \in Grid /\ b[i][1] = x + 1 - i /\ b[i][2] = y
    BY <1>1, SnakeAssumption DEF Grid
  <1>4. DOMAIN b = 1 .. 4
    OBVIOUS
  <1> HIDE DEF b
  <1>5. b \in Seq(Grid) /\ Len(b) = 4
    <2>1. b \in [1 .. 4 -> Grid]
      <3>1. b = [i \in 1 .. 4 |-> b[i]]
        BY DEF b
      <3> QED
        BY <1>3, <3>1
    <2>2. b \in Seq(Grid)
      <3>1. 4 \in Nat
        OBVIOUS
      <3> QED
        BY <2>1, <3>1, SeqDef, Zenon
    <2> QED
      BY <2>1, <2>2, <1>4
  <1>6. OnePiece(b)
    <2>1. ASSUME NEW i \in 1 .. 4, NEW j \in 1 .. i - 1 PROVE b[i] # b[j]
      <3>1. j \in 1 .. 4 /\ i # j
        OBVIOUS
      <3>2. b[i][1] # b[j][1]
        BY <1>1, <1>3, <3>1
      <3> QED
        BY <3>2
    <2>2. ASSUME NEW i \in 1 .. 3 PROVE Beside(b[i], b[i + 1])
      <3>1. i \in 1 .. 4 /\ i + 1 \in 1 .. 4
        OBVIOUS
      <3>2. b[i][2] = b[i + 1][2] /\ b[i][1] - b[i + 1][1] = 1
        BY <1>1, <1>3, <3>1
      <3> QED
        BY <3>2 DEF Beside
    <2> QED
      BY <2>1, <2>2, <1>4, <1>5 DEF OnePiece
  <1>7. food' \in Grid /\ (Len(b) < MaxCells => food' \notin Cells(b) \ {<<0, 0>>})
    BY <1>0, <1>2, <1>5, FoodPlaced DEF Typed
  <1>8. Typed'
    <2>1. active' = active /\ watched' = watched
      BY <1>2 DEF life
    <2>2. {"right"} \subseteq Dir /\ StartDiv \in MinDiv .. StartDiv /\ 0 \in 0 .. StartDiv
      BY SnakeAssumption DEF Dir
    <2> QED
      BY <1>0, <1>2, <1>5, <1>7, <2>1, <2>2 DEF Typed
  <1>9. Steps' /\ Screen'
    BY <1>2 DEF Steps, Screen, life
  <1>10. Rounds'
    BY <1>2, <1>5, <1>6, <1>7, SnakeAssumption DEF Rounds, InRound, Whole, FoodFree, Speedy
  <1> QED
    BY <1>8, <1>9, <1>10 DEF IInv

\* The start of a game, until its state is stored.
LEMMA StartIInv == IInv /\ (Start \/ StartSplash) => IInv'
  <1> SUFFICES ASSUME IInv, Start \/ StartSplash PROVE IInv'
    OBVIOUS
  <1> USE DEF Unshown
  <1>0. Typed /\ Steps /\ Rounds /\ Screen
    BY DEF IInv
  <1>1. CASE Start
    <2>1. Typed'
      BY <1>0, <1>1 DEF Typed, Start, round
    <2>2. Steps' /\ Screen' /\ Rounds'
      BY <1>0, <1>1 DEF Steps, Screen, Rounds, InRound, Whole, FoodFree, Speedy, Start, round
    <2> QED
      BY <2>1, <2>2 DEF IInv
  <1>2. CASE StartSplash
    <2>1. Typed'
      <3>1. <<>> \in Seq(Grid) /\ <<0, 0>> \in Grid /\ 0 \in 0 .. StartDiv /\ "up" \in Dir
        BY GridFacts, SnakeAssumption DEF Dir
      <3> QED
        BY <1>0, <1>2, <3>1 DEF Typed, StartSplash, NoRound, life
    <2>2. Steps' /\ Screen' /\ Rounds'
      BY <1>2 DEF Steps, Screen, Rounds, InRound, StartSplash
    <2> QED
      BY <2>1, <2>2 DEF IInv
  <1> QED
    BY <1>1, <1>2

\* The other keys: none of them touches the snake.
LEMMA KeyIInv ==
    IInv /\ (StartRound \/ Finish \/ Pause \/ PauseStores \/ (\E d \in Dir : Turn(d)) \/ TurnStores
             \/ OtherKey \/ Switch) => IInv'
  <1> SUFFICES ASSUME IInv, StartRound \/ Finish \/ Pause \/ PauseStores \/ (\E d \in Dir : Turn(d))
                            \/ TurnStores \/ OtherKey \/ Switch
               PROVE  IInv'
    OBVIOUS
  <1> USE DEF Unshown
  <1>0. Typed /\ Steps /\ Rounds /\ Screen
    BY DEF IInv
  <1> USE DEF Rounds, InRound, Whole, FoodFree, Speedy, AtKeys
  <1>1. CASE StartRound
    <2>1. Typed'
      BY <1>0, <1>1 DEF Typed, StartRound, round, life
    <2>2. Steps' /\ Screen' /\ Rounds'
      BY <1>0, <1>1 DEF Steps, Screen, StartRound, round, life
    <2> QED
      BY <2>1, <2>2 DEF IInv
  <1>2. CASE Finish
    <2>1. Typed'
      BY <1>0, <1>2 DEF Typed, Finish, round
    <2>2. Steps' /\ Screen' /\ Rounds'
      BY <1>0, <1>2 DEF Steps, Screen, Finish, round
    <2> QED
      BY <2>1, <2>2 DEF IInv
  <1>3. CASE Pause
    <2>1. Typed'
      BY <1>0, <1>3 DEF Typed, Pause, round, life, drawn
    <2>2. Steps' /\ Screen' /\ Rounds'
      BY <1>0, <1>3 DEF Steps, Screen, Pause, round, life, drawn
    <2> QED
      BY <2>1, <2>2 DEF IInv
  <1>4. CASE PauseStores
    <2>1. Typed'
      BY <1>0, <1>4 DEF Typed, PauseStores, round, life
    <2>2. Steps' /\ Screen' /\ Rounds'
      BY <1>0, <1>4 DEF Steps, Screen, PauseStores, round, life
    <2> QED
      BY <2>1, <2>2 DEF IInv
  <1>5. ASSUME NEW d \in Dir, Turn(d) PROVE IInv'
    <2>1. Typed'
      BY <1>0, <1>5 DEF Typed, Turn, round, life, drawn
    <2>2. Steps' /\ Screen' /\ Rounds'
      BY <1>0, <1>5 DEF Steps, Screen, Turn, round, life, drawn
    <2> QED
      BY <2>1, <2>2 DEF IInv
  <1>6. CASE TurnStores
    <2>1. Typed'
      BY <1>0, <1>6 DEF Typed, TurnStores, life, Dir
    <2>2. Steps' /\ Screen' /\ Rounds'
      BY <1>0, <1>6 DEF Steps, Screen, TurnStores, life
    <2> QED
      BY <2>1, <2>2 DEF IInv
  <1>7. CASE OtherKey
    <2>1. Typed'
      BY <1>0, <1>7 DEF Typed, OtherKey, round, life
    <2>2. Steps' /\ Screen' /\ Rounds'
      BY <1>0, <1>7 DEF Steps, Screen, OtherKey, round, life
    <2> QED
      BY <2>1, <2>2 DEF IInv
  <1>8. CASE Switch
    <2>1. Typed'
      BY <1>0, <1>8 DEF Typed, Switch, round
    <2>2. Steps' /\ Screen' /\ Rounds'
      BY <1>0, <1>8 DEF Steps, Screen, Switch, round
    <2> QED
      BY <2>1, <2>2 DEF IInv
  <1> QED
    BY <1>1, <1>2, <1>3, <1>4, <1>5, <1>6, <1>7, <1>8

\* Drawing.
LEMMA DrawIInv == IInv /\ (Draws \/ UNCHANGED vars) => IInv'
  <1> SUFFICES ASSUME IInv, Draws \/ UNCHANGED vars PROVE IInv'
    OBVIOUS
  <1> USE DEF Unshown
  <1>0. Typed /\ Steps /\ Rounds /\ Screen
    BY DEF IInv
  <1>1. UNCHANGED <<life, state, round, want, raced>>
    BY DEF Draws, Draw, DrawOver, DrawClears, DrawOther, vars
  <1>2. Rounds'
    <2>1. pc' = "round" => pc = "round"
      BY DEF Draws, Draw, DrawOver, DrawClears, DrawOther, vars
    <2>2. pc = "round" => pc' = "round"
      BY DEF Draws, Draw, DrawOver, DrawClears, DrawOther, vars
    <2> QED
      BY <1>0, <1>1, <2>1, <2>2 DEF Rounds, InRound, Whole, FoodFree, Speedy, round
  <1>3. Steps'
    <2>1. pc' \in {"pause", "resume", "turn", "round"} => pc' = pc
      BY DEF Draws, Draw, DrawOver, DrawClears, DrawOther, vars
    <2> QED
      BY <1>0, <1>1, <2>1 DEF Steps, round
  <1>4. Typed' /\ Screen'
    <2>1. CASE Draw
      BY <1>0, <1>1, <2>1 DEF Typed, Screen, Draw, round, life
    <2>2. CASE DrawOver
      BY <1>0, <1>1, <2>2 DEF Typed, Screen, DrawOver, round, life
    <2>3. CASE DrawClears
      BY <1>0, <1>1, <2>3 DEF Typed, Screen, DrawClears, round, life
    <2>4. CASE DrawOther
      <3>1. Typed'
        BY <1>0, <1>1, <2>4 DEF Typed, DrawOther, round, life
      <3>2. Screen'
        BY <1>1, <2>4 DEF Screen, DrawOther, life
      <3> QED
        BY <3>1, <3>2
    <2>5. CASE UNCHANGED vars
      BY <1>0, <2>5 DEF Typed, Screen, vars, round, life, drawn
    <2> QED
      BY <2>1, <2>2, <2>3, <2>4, <2>5 DEF Draws
  <1> QED
    BY <1>2, <1>3, <1>4 DEF IInv

LEMMA NextIInv == IInv /\ [Next]_vars => IInv'
  BY TickIInv, ResetIInv, StartIInv, KeyIInv, DrawIInv DEF Next, Keys

LEMMA SpecIInv == Spec => []IInv
  BY InitIInv, NextIInv, PTL DEF Spec

-----------------------------------------------------------------------------
(* What it shows *)

\* Every variable keeps its type; the score never outgrows the grid, because the body, in which no
\* cell is there twice, cannot.
THEOREM SnakeKeepsTypes == Spec => []TypeOK
  <1>1. IInv => TypeOK
    <2> SUFFICES ASSUME IInv PROVE TypeOK
      OBVIOUS
    <2>0. Typed /\ Rounds
      BY DEF IInv
    <2>1. {active, dirty, shellDirty, watched, raced, shown, missed} \subseteq BOOLEAN
      <3>1. /\ active \in BOOLEAN /\ dirty \in BOOLEAN /\ shellDirty \in BOOLEAN
            /\ watched \in BOOLEAN /\ raced \in BOOLEAN /\ shown \in BOOLEAN /\ missed \in BOOLEAN
        BY <2>0 DEF Typed
      <3> QED
        BY <3>1, Zenon
    <2>2. score \in 0 .. MaxCells
      <3>1. CASE InRound
        <4>1. Len(body) = 4 + score /\ Len(body) <= MaxCells
          BY <2>0, <3>1, Fits DEF Typed, Rounds, Whole
        <4> QED
          BY <2>0, <4>1, GridFacts DEF Typed
      <3>2. CASE ~InRound
        BY <2>0, <3>2, GridFacts DEF Rounds
      <3> QED
        BY <3>1, <3>2
    <2> QED
      BY <2>0, <2>1, <2>2 DEF TypeOK, Typed
  <1> QED
    BY <1>1, SpecIInv, PTL

\* On every grid, at every speed and whenever the timer comes, the snake that a tick moves or a
\* drawing shows is one piece: a chain of neighbours as long as the score says, no cell twice.
THEOREM SnakeStaysWhole == Spec => []SnakeIsWhole
  <1>1. IInv => SnakeIsWhole
    BY DEF IInv, Rounds, InRound, Whole, SnakeIsWhole
  <1> QED
    BY <1>1, SpecIInv, PTL

\* While a cell is free the food does not lie under the snake, but for the corner that place_food
\* falls back on.
THEOREM FoodStaysFree == Spec => []FoodIsFree
  <1>1. IInv => FoodIsFree
    BY DEF IInv, Rounds, InRound, FoodFree, FoodIsFree
  <1> QED
    BY <1>1, SpecIInv, PTL

\* When nothing asks for a drawing the screen shows the state and the score of the game, on every grid and
\* at every speed, unless a tick has changed them while the last drawing went on: that drawing clears
\* the request of the tick, the one way in which ticks, keys and drawings leave the screen behind.
THEOREM ScreenStaysCurrent == Spec => []ScreenIsCurrent
  <1>1. IInv => ScreenIsCurrent
    BY DEF IInv, Screen, ScreenIsCurrent
  <1> QED
    BY <1>1, SpecIInv, PTL

\* No step tells the snake to turn into its own neck, unless it has moved between the test of a key
\* and its store: a tick takes the direction asked for, and only the store of a key asks for one.
THEOREM SnakeDoesNotTurnBack == Spec => NeverTurnsBack
  <1>1. IInv /\ [Next]_vars => [(state' = "play" /\ nextDir' = Back(dir') /\ nextDir # Back(dir)) => raced]_vars
    <2> SUFFICES ASSUME IInv, Next, state' = "play", nextDir' = Back(dir'), nextDir # Back(dir)
                 PROVE  raced
      OBVIOUS
    <2>0. Typed /\ Steps
      BY DEF IInv
    <2>1. CASE UNCHANGED <<dir, nextDir>>
      BY <2>1
    <2>2. CASE Tick
      <3>1. UNCHANGED <<dir, nextDir>> \/ (dir' = nextDir /\ nextDir' = nextDir)
        BY <2>2 DEF Tick, Wait, Crash, Glide, Eat, round
      <3>2. Back(nextDir) # nextDir
        BY <2>0, BackFacts DEF Typed
      <3> QED
        BY <2>1, <3>1, <3>2
    <2>3. CASE TurnStores
      <3>1. pc = "turn" /\ state = "play" /\ nextDir' = want /\ dir' = dir
        BY <2>3 DEF TurnStores
      <3>2. raced \in BOOLEAN /\ dir \in Dir /\ want \in Dir
        BY <2>0 DEF Typed
      <3>3. raced \/ want # Back(dir)
        BY <2>0, <3>1, <3>2, BackFacts DEF Steps
      <3> QED
        BY <3>1, <3>3
    <2>4. CASE ResetRound \/ StartSplash
      <3>1. nextDir' = dir' /\ dir' \in Dir
        BY <2>4 DEF ResetRound, StartSplash, NoRound, Dir
      <3> QED
        BY <3>1, BackFacts
    <2> QED
      <3>1. \/ UNCHANGED <<dir, nextDir>> \/ Tick \/ TurnStores \/ ResetRound \/ StartSplash
        BY DEF Next, Keys, Draws, Start, StartRound, Finish, Pause, PauseStores, Turn, OtherKey, Switch,
               Draw, DrawOver, DrawClears, DrawOther, round
      <3> QED
        BY <2>1, <2>2, <2>3, <2>4, <3>1
  <1> QED
    BY <1>1, SpecIInv, PTL DEF Spec, NeverTurnsBack
=============================================================================
