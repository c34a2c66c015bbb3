------------------------------- MODULE Snake -------------------------------
(***************************************************************************)
(* The game of flareOS (kernel/core/snake.c) between the main loop, which  *)
(* handles its keys and draws it, and the timer interrupt, which moves the *)
(* snake.  shell_timer_tick runs whole, with interrupts off, and may come  *)
(* between any two accesses of the main loop to the globals of snake.c;    *)
(* pc says where the main loop is.                                         *)
(*                                                                         *)
(* How sessions share the game, and what becomes of its result, is in      *)
(* ShellApps; here the player looks at the session of the game or at       *)
(* another one.                                                            *)
(***************************************************************************)
EXTENDS Integers, Sequences, FiniteSets

CONSTANTS
    Cols, Rows,  \* g_cols and g_rows, at least 10 each
    StartDiv,    \* ticks per move at the start of a round, 6
    MinDiv,      \* and at the highest speed, 2
    Faster       \* points between two speeds, 5

ASSUME SnakeAssumption ==
    /\ Cols \in Nat /\ Cols >= 6
    /\ Rows \in Nat \ {0}
    /\ MinDiv \in Nat \ {0}
    /\ StartDiv \in Nat /\ StartDiv >= MinDiv
    /\ Faster \in Nat \ {0}

VARIABLES
    active,      \* g_active
    state,       \* g_state
    dir,         \* g_dir
    nextDir,     \* g_next_dir
    acc,         \* g_move_acc
    div,         \* g_tick_div
    body,        \* g_x and g_y up to g_len, the head first
    food,        \* g_fx, g_fy
    score,       \* g_score
    dirty,       \* g_dirty
    shellDirty,  \* g_shell_dirty
    watched,     \* snake_visible_for_active_session, but for g_active
    shown,       \* history: the last drawing, when done, shows the state and the score there are
    missed,      \* history: it does not, since a tick has changed them while it went on
    pc,          \* where the main loop is
    want,        \* the direction of the key it handles, "up" between keys
    raced        \* history: the snake has moved between the test of the direction and its store

round == <<dir, nextDir, acc, div, body, food, score>>
drawn == <<shown, missed, dirty, shellDirty>>
life == <<active, watched>>
vars == <<life, state, round, drawn, pc, want, raced>>

Grid == (0 .. Cols - 1) \X (0 .. Rows - 1)
MaxCells == Cols * Rows
Dir == {"up", "right", "down", "left"}
Back(d) == CASE d = "up" -> "down" [] d = "down" -> "up" [] d = "left" -> "right" [] d = "right" -> "left"

\* The cell in front of the head; it may lie outside the grid.
Ahead(c, d) ==
    CASE d = "up" -> <<c[1], c[2] - 1>> [] d = "right" -> <<c[1] + 1, c[2]>>
      [] d = "down" -> <<c[1], c[2] + 1>> [] d = "left" -> <<c[1] - 1, c[2]>>

\* What the screen shows is out of date.
Unshown == shown' = FALSE /\ missed' = FALSE

Cells(s) == {s[i] : i \in DOMAIN s}

\* Mutant: looks at the last cell only.
PlaceFoodAnywhere(s, old) == IF Len(s) >= MaxCells THEN {old} ELSE Grid \ {s[Len(s)]}

\* place_food: a free cell, or the corner when 4096 draws have found none; nothing on a full grid.
PlaceFood(s, old) ==
    IF Len(s) >= MaxCells THEN {old} ELSE (Grid \ Cells(s)) \cup {<<0, 0>>}

-----------------------------------------------------------------------------
(* snake_timer_tick, in the timer interrupt *)

\* Mutant: one cell of the tail too many counts as free.
HitsOneShort(c, grow) ==
    \/ c \notin Grid
    \/ c \in Cells(SubSeq(body, 1, IF grow THEN Len(body) - 1 ELSE Len(body) - 2))

\* The wall, or the snake; its tail moves on unless it grows.
Hits(c, grow) ==
    \/ c \notin Grid
    \/ c \in Cells(SubSeq(body, 1, IF grow THEN Len(body) ELSE Len(body) - 1))

\* Ticks that only count.
Counts == acc + 1 < div

Wait == Counts /\ acc' = acc + 1 /\ UNCHANGED <<state, dir, nextDir, div, body, food, score, dirty>>

\* Mutant: asks for no drawing.
CrashUnseen ==
    LET c == Ahead(body[1], nextDir)
    IN  /\ ~Counts /\ Hits(c, c = food)
        /\ state' = "over"
        /\ dir' = nextDir
        /\ acc' = 0
        /\ UNCHANGED <<nextDir, div, body, food, score, dirty>>

\* The game is over, with the body where it was.
Crash ==
    LET c == Ahead(body[1], nextDir)
    IN  /\ ~Counts /\ Hits(c, c = food)
        /\ state' = "over"
        /\ dir' = nextDir
        /\ acc' = 0
        /\ dirty' = TRUE
        /\ UNCHANGED <<nextDir, div, body, food, score>>

Glide ==
    LET c == Ahead(body[1], nextDir)
    IN  /\ ~Counts /\ c # food /\ ~Hits(c, FALSE)
        /\ body' = <<c>> \o SubSeq(body, 1, Len(body) - 1)
        /\ dir' = nextDir
        /\ acc' = 0
        /\ UNCHANGED <<state, nextDir, div, food, score, dirty>>

\* Mutant: no highest speed.
SpeedWithoutEnd(n, d) == IF n % Faster = 0 THEN d - 1 ELSE d

\* Faster every few points.
Speed(n, d) == IF n % Faster = 0 /\ d > MinDiv THEN d - 1 ELSE d

\* The snake eats; with no cell left the game is over too.
Eat ==
    LET c == Ahead(body[1], nextDir)
    IN  /\ ~Counts /\ c = food /\ ~Hits(c, TRUE)
        /\ body' = <<c>> \o body
        /\ dir' = nextDir
        /\ acc' = 0
        /\ score' = score + 1
        /\ div' = Speed(score + 1, div)
        /\ state' = IF Len(body) + 1 >= MaxCells THEN "over" ELSE state
        /\ food' \in PlaceFood(body', food)
        /\ dirty' = TRUE
        /\ UNCHANGED nextDir

\* shell_timer_tick
Tick ==
    /\ IF watched /\ active /\ state = "play" THEN Wait \/ Crash \/ Glide \/ Eat
       ELSE UNCHANGED <<state, round, dirty>>
    /\ raced' = (raced \/ (pc = "turn" /\ body' # body))
    /\ IF state' = state /\ score' = score THEN UNCHANGED <<shown, missed>>
       ELSE shown' = FALSE /\ missed' = (pc \in {"over?", "clear"})
    /\ UNCHANGED <<active, watched, shellDirty, pc, want>>

-----------------------------------------------------------------------------
(* The main loop: keys *)

\* What is left of a round that nothing reads before reset_round overwrites it: its first value.
NoRound ==
    /\ dir' = "up"
    /\ nextDir' = "up"
    /\ acc' = 0
    /\ div' = 0
    /\ body' = <<>>
    /\ food' = <<0, 0>>

\* snake_start, by the snake command: until its second step the state is that of the last game.
Start ==
    /\ pc = "loop" /\ ~active /\ watched
    /\ active' = TRUE
    /\ dirty' = TRUE
    /\ pc' = "start"
    /\ Unshown
    /\ UNCHANGED <<watched, state, round, shellDirty, want, raced>>

StartSplash ==
    /\ pc = "start"
    /\ state' = "splash"
    /\ score' = 0
    /\ NoRound
    /\ shellDirty' = TRUE
    /\ pc' = "loop"
    /\ Unshown
    /\ UNCHANGED <<life, dirty, want, raced>>

\* A key that the game gets, at the end of which shell_keyboard_event asks for a drawing.
AtKeys == pc = "loop" /\ watched /\ active

\* reset_round: all of it while the state keeps the timer away.
ResetRound ==
    /\ AtKeys /\ state \in {"splash", "over"}
    /\ body' = [i \in 1 .. 4 |-> <<(Cols \div 2) + 1 - i, Rows \div 2>>]
    /\ dir' = "right"
    /\ nextDir' = "right"
    /\ acc' = 0
    /\ score' = 0
    /\ div' = StartDiv
    /\ food' \in PlaceFood(body', food)
    /\ Unshown
    /\ pc' = "round"
    /\ UNCHANGED <<life, state, dirty, shellDirty, want, raced>>

\* Enter, or space: after the round is set up the timer may move the snake.
StartRound ==
    /\ pc = "round"
    /\ state' = "play"
    /\ dirty' = TRUE
    /\ shellDirty' = TRUE
    /\ pc' = "loop"
    /\ Unshown
    /\ UNCHANGED <<life, round, want, raced>>

\* q or esc: finish_session.
Finish ==
    /\ AtKeys
    /\ active' = FALSE
    /\ dirty' = FALSE
    /\ shellDirty' = TRUE
    /\ Unshown
    /\ UNCHANGED <<watched, state, round, pc, want, raced>>

\* p: the state is tested, and then stored.
Pause ==
    /\ AtKeys /\ state \in {"play", "paused"}
    /\ pc' = IF state = "paused" THEN "resume" ELSE "pause"
    /\ UNCHANGED <<life, state, round, drawn, want, raced>>

PauseStores ==
    /\ pc \in {"pause", "resume"}
    /\ state' = IF pc = "pause" THEN "paused" ELSE "play"
    /\ dirty' = TRUE
    /\ shellDirty' = TRUE
    /\ pc' = "loop"
    /\ Unshown
    /\ UNCHANGED <<life, round, want, raced>>

\* Mutant: compares with the direction asked for, not with the one the snake moves in.
TurnFromNext(d) ==
    /\ AtKeys /\ state = "play"
    /\ nextDir # Back(d)
    /\ want' = d
    /\ pc' = "turn"
    /\ UNCHANGED <<life, state, round, drawn, raced>>

\* w, a, s and d: the test.
Turn(d) ==
    /\ AtKeys /\ state = "play"
    /\ dir # Back(d)
    /\ want' = d
    /\ pc' = "turn"
    /\ UNCHANGED <<life, state, round, drawn, raced>>

TurnStores ==
    /\ pc = "turn"
    /\ nextDir' = want
    /\ want' = "up"
    /\ raced' = FALSE
    /\ shellDirty' = TRUE
    /\ pc' = "loop"
    /\ Unshown
    /\ UNCHANGED <<life, state, dir, acc, div, body, food, score, dirty>>

\* Any other key: nothing but a drawing.
OtherKey ==
    /\ AtKeys
    /\ shellDirty' = TRUE
    /\ Unshown
    /\ UNCHANGED <<life, state, round, dirty, pc, want, raced>>

\* shell_set_active_session, to the session of the game or to another one.
Switch ==
    /\ pc = "loop"
    /\ watched' = ~watched
    /\ shellDirty' = TRUE
    /\ Unshown
    /\ UNCHANGED <<active, state, round, dirty, pc, want, raced>>

-----------------------------------------------------------------------------
(* The main loop: drawing *)

\* shell_needs_redraw with the game in sight, and render_full up to the box of a lost game: a tick
\* neither pauses nor resumes, so the tests of the state in between are one step.
Draw ==
    /\ pc = "loop" /\ watched /\ active /\ (dirty \/ shellDirty)
    /\ shown' = (state # "over")
    /\ missed' = FALSE
    /\ pc' = IF state = "splash" THEN "clear" ELSE "over?"
    /\ UNCHANGED <<life, state, round, dirty, shellDirty, want, raced>>

\* The box of a lost game, with its score; g_high_score is brought up to date here.
DrawOver ==
    /\ pc = "over?"
    /\ shown' = (shown \/ state = "over")
    /\ missed' = (missed /\ state # "over")
    /\ pc' = "clear"
    /\ UNCHANGED <<life, state, round, dirty, shellDirty, want, raced>>

\* g_dirty, and then g_shell_dirty, which ticks of the game leave alone: whatever a tick asked for
\* since Draw is taken for answered.
DrawClears ==
    /\ pc = "clear"
    /\ dirty' = FALSE
    /\ shellDirty' = FALSE
    /\ pc' = "loop"
    /\ UNCHANGED <<life, state, round, shown, missed, want, raced>>

\* The other session's view, drawn over the game's.
DrawOther ==
    /\ pc = "loop" /\ ~(watched /\ active) /\ shellDirty
    /\ shellDirty' = FALSE
    /\ Unshown
    /\ UNCHANGED <<life, state, round, dirty, pc, want, raced>>

-----------------------------------------------------------------------------
Init ==
    /\ active = FALSE
    /\ state = "splash"
    /\ dir = "up"
    /\ nextDir = "up"
    /\ acc = 0
    /\ div = 0
    /\ body = <<>>
    /\ food = <<0, 0>>
    /\ score = 0
    /\ dirty = FALSE
    /\ shellDirty = TRUE
    /\ watched = TRUE
    /\ shown = FALSE
    /\ missed = FALSE
    /\ pc = "loop"
    /\ want = "up"
    /\ raced = FALSE

Keys == Start \/ StartSplash \/ ResetRound \/ StartRound \/ Finish \/ Pause \/ PauseStores
        \/ (\E d \in Dir : Turn(d)) \/ TurnStores \/ OtherKey \/ Switch

Draws == Draw \/ DrawOver \/ DrawClears \/ DrawOther

Next == Keys \/ Draws \/ Tick

Spec == Init /\ [][Next]_vars
-----------------------------------------------------------------------------
(* Properties *)

\* Every variable has its type.
TypeOK ==
    /\ {active, dirty, shellDirty, watched, raced, shown, missed} \subseteq BOOLEAN
    /\ state \in {"splash", "play", "paused", "over"}
    /\ {dir, nextDir, want} \subseteq Dir
    /\ div \in {0} \cup MinDiv .. StartDiv
    /\ acc \in 0 .. StartDiv
    /\ body \in Seq(Grid) /\ food \in Grid
    /\ score \in 0 .. MaxCells
    /\ pc \in {"loop", "start", "round", "pause", "resume", "turn", "over?", "clear"}

\* Two cells with a side in common.
Beside(a, b) ==
    \/ a[1] = b[1] /\ a[2] - b[2] \in {-1, 1}
    \/ a[2] = b[2] /\ a[1] - b[1] \in {-1, 1}

\* A chain of neighbours in which no cell is there twice.
OnePiece(s) ==
    /\ \A i \in DOMAIN s : \A j \in 1 .. i - 1 : s[i] # s[j]
    /\ \A i \in 1 .. Len(s) - 1 : Beside(s[i], s[i + 1])

\* Whenever a tick may move it or a drawing show it the snake is one piece without knots:
\* no tick sees a round half set up, and none takes the tail for a wall or a wall for free.
SnakeIsWhole ==
    (active /\ state # "splash") => Len(body) = 4 + score /\ OnePiece(body)

\* What there is to eat can be reached: while there is a free cell the food does not lie under
\* the snake, but for the corner that place_food falls back on.
FoodIsFree ==
    (state \in {"play", "paused"} /\ Len(body) < MaxCells) => food \notin Cells(body) \ {<<0, 0>>}

\* However fast keys follow each other no step tells the snake to turn into its own neck, unless
\* the snake has moved between the test of a key and its store.
NeverTurnsBack ==
    [][(state' = "play" /\ nextDir' = Back(dir') /\ nextDir # Back(dir)) => raced]_vars

\* When nothing asks for a drawing the screen shows the state and the score of the game, whatever keys,
\* ticks and sessions came in between, with one exception: a tick that changes them while a drawing goes
\* on, and after it has drawn them, asks for another, and the drawing clears that request at its end
\* (snake.c:238).  Until something else asks for a drawing the screen then stays as it is.
ScreenIsCurrent ==
    (active /\ watched /\ pc = "loop" /\ ~dirty /\ ~shellDirty) => shown \/ missed
=============================================================================
