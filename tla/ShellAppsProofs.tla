-------------------------- MODULE ShellAppsProofs --------------------------
(* Proofs about ShellApps for any number of sessions and files and any size of the heap. *)
EXTENDS ShellApps, TLAPS

\* The inductive invariant: the two invariants below with the types they rest on.
\* OneAppPerSession needs no place of the main loop: a launch checks the session's owners
\* and sets its own in one step, and ticks only clear owners.  ResetOnlyFrees needs the sum
\* kmalloc is about to store: no mark is taken before it is.
Inv ==
    /\ current \in Session
    /\ owner \in [App -> Session \cup {None}]
    /\ top \in Nat
    /\ mark \in Nat
    /\ sum \in Nat
    /\ pc = "grow" => mark <= sum
    /\ ResetOnlyFrees
    /\ OneAppPerSession

\* What the steps that leave the owners and the heap alone preserve.
LEMMA InvUnchanged ==
    ASSUME Inv, UNCHANGED <<owner, mark, top, sum>>, current' \in Session, pc' # "grow" \/ pc' = pc
    PROVE  Inv'
BY DEF Inv, ResetOnlyFrees, OneAppPerSession

\* Clearing owners keeps them distinct.
LEMMA OwnersCleared ==
    ASSUME OneAppPerSession, NEW o \in [App -> Session \cup {None}],
           \A a \in App : o[a] \in {owner[a], None}
    PROVE  \A a, b \in App : (a # b /\ o[a] # None) => o[a] # o[b]
BY DEF OneAppPerSession

\* The initial state.
LEMMA InvInit == Init => Inv
BY ShellAssumption DEF Init, Inv, ResetOnlyFrees, OneAppPerSession, None

\* Every step keeps the invariant.
LEMMA InvStep == Inv /\ [Next]_vars => Inv'
<1> SUFFICES ASSUME Inv, [Next]_vars PROVE Inv'
    OBVIOUS
<1> USE DEF apps, screen, main, memory, request
<1>1. CASE WriteFile \/ SaveFile \/ SendPacket
    <2>1. UNCHANGED <<owner, mark, top, sum, current>> /\ pc' = "add"
        BY <1>1 DEF WriteFile, SaveFile, SendPacket, Allocate
    <2> QED
        BY <2>1, InvUnchanged DEF Inv
<1>2. CASE AddSize
    BY <1>2 DEF AddSize, Inv, ResetOnlyFrees, OneAppPerSession
<1>3. CASE Grow
    BY <1>3 DEF Grow, Inv, ResetOnlyFrees, OneAppPerSession
<1>4. CASE Fill
    <2>1. UNCHANGED <<owner, mark, top, sum, current>> /\ pc' # "grow"
        BY <1>4 DEF Fill
    <2> QED
        BY <2>1, InvUnchanged DEF Inv
<1>5. CASE RemoveFile \/ SwitchSession \/ OpenView \/ CloseView
    BY <1>5, InvUnchanged DEF RemoveFile, SwitchSession, OpenView, CloseView, Inv
<1>6. ASSUME NEW a \in App, Launch(a) PROVE Inv'
    <2>1. ~HasApp
        BY <1>6 DEF Launch, AtPrompt, Visible, App, HasApp
    <2>2. \A b \in App : owner[b] # current
        BY <2>1 DEF HasApp
    <2>3. owner' = [owner EXCEPT ![a] = current] /\ UNCHANGED <<current, top, mark, sum>> /\ pc' = "mark"
        BY <1>6 DEF Launch
    <2> QED
        BY <2>2, <2>3 DEF Inv, ResetOnlyFrees, OneAppPerSession
<1>7. ASSUME NEW a \in App, Quit(a) PROVE Inv'
    BY <1>7, InvUnchanged DEF Quit, Inv
<1>8. CASE TakeMark
    BY <1>8 DEF TakeMark, Inv, ResetOnlyFrees, OneAppPerSession
<1>9. CASE Start \/ FetchEnds \/ FollowLink \/ FinishGame \/ Consume \/ IndexOwner
    BY <1>9, InvUnchanged DEF Start, FetchEnds, FollowLink, FinishGame, Consume, IndexOwner, Inv
<1>10. CASE PushScore \/ CleanupApps
    <2>1. /\ owner' \in [App -> Session \cup {None}]
          /\ \A a \in App : owner'[a] \in {owner[a], None}
          /\ UNCHANGED <<current, top, mark, sum>> /\ pc' # "grow"
        BY <1>10 DEF PushScore, CleanupApps, Inv
    <2> QED
        BY <2>1, OwnersCleared DEF Inv, ResetOnlyFrees, OneAppPerSession
<1>11. CASE Tick
    <2>1. /\ owner' \in [App -> Session \cup {None}]
          /\ \A a \in App : owner'[a] \in {owner[a], None}
        BY <1>11 DEF Tick, Inv, App
    <2>2. /\ UNCHANGED <<current, mark, sum, pc>>
          /\ top' \in {mark, top}
        BY <1>11 DEF Tick
    <2> QED
        BY <2>1, <2>2, OwnersCleared DEF Inv, ResetOnlyFrees, OneAppPerSession
<1>12. CASE UNCHANGED vars
    BY <1>12, InvUnchanged DEF vars, Inv
<1> QED
    BY <1>1, <1>2, <1>3, <1>4, <1>5, <1>6, <1>7, <1>8, <1>9, <1>10, <1>11, <1>12 DEF Next

\* A session never runs two applications, for any number of sessions.
THEOREM SessionsStaySingle == Spec => []OneAppPerSession
<1>1. Inv => OneAppPerSession
    BY DEF Inv
<1> QED
    BY InvInit, InvStep, <1>1, PTL DEF Spec

\* heap_reset never moves the top of the heap up.
THEOREM ResetNeverGrows == Spec => []ResetOnlyFrees
<1>1. Inv => ResetOnlyFrees
    BY DEF Inv
<1> QED
    BY InvInit, InvStep, <1>1, PTL DEF Spec

-----------------------------------------------------------------------------
(* The snake stays with its session.  A step may take its owner away only when the
   game is over, so a score that is due, or being reported, must mean just that. *)

GameOver ==
    /\ active \in [App -> BOOLEAN]
    /\ app \in App
    /\ result => ~active["snake"]
    /\ pc \in {"consume", "index", "push"} => ~active["snake"]

LEMMA GameOverInit == Init => GameOver
BY DEF Init, GameOver, App

LEMMA GameOverStep == GameOver /\ [Next]_vars => GameOver'
<1> SUFFICES ASSUME GameOver, [Next]_vars PROVE GameOver'
    OBVIOUS
<1> USE DEF apps, screen, main, memory, request, GameOver
<1>1. CASE WriteFile \/ RemoveFile \/ SaveFile \/ SendPacket \/ AddSize \/ Grow \/ Fill
    BY <1>1 DEF WriteFile, RemoveFile, SaveFile, SendPacket, Allocate, AddSize, Grow, Fill
<1>2. CASE SwitchSession \/ OpenView \/ CloseView
    BY <1>2 DEF SwitchSession, OpenView, CloseView
<1>3. ASSUME NEW a \in App, Launch(a) PROVE GameOver'
    BY <1>3 DEF Launch
<1>4. ASSUME NEW a \in App, Quit(a) PROVE GameOver'
    BY <1>4 DEF Quit
<1>5. CASE TakeMark
    BY <1>5 DEF TakeMark
<1>6. CASE Start
    BY <1>6 DEF Start, App
<1>7. CASE FetchEnds \/ FollowLink
    BY <1>7 DEF FetchEnds, FollowLink
<1>8. CASE FinishGame
    BY <1>8 DEF FinishGame, App
<1>9. CASE Consume \/ IndexOwner \/ PushScore
    BY <1>9 DEF Consume, IndexOwner, PushScore
<1>10. CASE Tick \/ CleanupApps
    BY <1>10 DEF Tick, CleanupApps
<1>11. CASE UNCHANGED vars
    BY <1>11 DEF vars
<1> QED
    BY <1>1, <1>2, <1>3, <1>4, <1>5, <1>6, <1>7, <1>8, <1>9, <1>10, <1>11 DEF Next

\* The step of SnakeIsNotStolen.
KeepsOwner ==
    (active["snake"] /\ owner["snake"] # None /\ active'["snake"] /\ pc' # "stopped")
        => owner'["snake"] = owner["snake"]

LEMMA KeepsOwnerStep == Inv /\ GameOver /\ [Next]_vars => KeepsOwner
<1> SUFFICES ASSUME Inv, GameOver, [Next]_vars,
                    active["snake"], owner["snake"] # None, pc' # "stopped"
             PROVE  owner'["snake"] = owner["snake"]
    BY DEF KeepsOwner
<1> "snake" \in App
    BY DEF App
<1>1. ASSUME NEW a \in App, Launch(a) PROVE owner'["snake"] = owner["snake"]
    <2>1. a # "snake"
        BY <1>1 DEF Launch, AtPrompt, Visible
    <2> QED
        BY <1>1, <2>1 DEF Launch, Inv
<1>2. CASE PushScore
    BY <1>2 DEF PushScore, GameOver
<1>3. CASE Tick
    BY <1>3 DEF Tick, Exited, GameOver
<1>4. CASE UNCHANGED owner
    BY <1>4
<1>5. CASE WriteFile \/ RemoveFile \/ SaveFile \/ SendPacket \/ AddSize \/ Grow \/ Fill
    BY <1>4, <1>5 DEF apps, WriteFile, RemoveFile, SaveFile, SendPacket, Allocate, AddSize, Grow, Fill
<1>6. CASE CleanupApps
    BY <1>6 DEF CleanupApps
<1> QED
    BY <1>1, <1>2, <1>3, <1>4, <1>5, <1>6
    DEF Next, vars, apps, SwitchSession, OpenView, CloseView, Quit, TakeMark, Start, FetchEnds,
        FollowLink, FinishGame, Consume, IndexOwner

\* No launch and no tick takes a running game from its session; only the recovery from a fault does.
THEOREM SnakeKeepsItsSession == Spec => SnakeIsNotStolen
<1>1. Inv /\ GameOver /\ [Next]_vars
        => [(active["snake"] /\ owner["snake"] # None /\ active'["snake"] /\ pc' # "stopped")
                => owner'["snake"] = owner["snake"]]_vars
    BY KeepsOwnerStep DEF KeepsOwner
<1> QED
    BY InvInit, InvStep, GameOverInit, GameOverStep, <1>1, PTL DEF Spec, SnakeIsNotStolen
-----------------------------------------------------------------------------
(* The score.  From the moment a game ends until its score is written, its owner is the
   player's session or has been cleared: launches wait for the main loop, and a tick only
   clears.  So both readings of the owner are harmless. *)

ScoreIsOwned ==
    /\ owner \in [App -> Session \cup {None}]
    /\ pc \in {"consume", "index"} => owner["snake"] \in {player, None}
    /\ ScoreGoesHome

LEMMA ScoreIsOwnedStep == ScoreIsOwned /\ current \in Session /\ [Next]_vars => ScoreIsOwned'
<1> SUFFICES ASSUME ScoreIsOwned, current \in Session, [Next]_vars PROVE ScoreIsOwned'
    OBVIOUS
<1> USE DEF apps, screen, main, memory, request, ScoreIsOwned, ScoreGoesHome
<1> "snake" \in App
    BY DEF App
<1>1. CASE WriteFile \/ RemoveFile \/ SaveFile \/ SendPacket \/ AddSize \/ Grow \/ Fill
    BY <1>1 DEF WriteFile, RemoveFile, SaveFile, SendPacket, Allocate, AddSize, Grow, Fill
<1>2. CASE SwitchSession \/ OpenView \/ CloseView
    BY <1>2 DEF SwitchSession, OpenView, CloseView
<1>3. ASSUME NEW a \in App, Launch(a) PROVE ScoreIsOwned'
    BY <1>3 DEF Launch
<1>4. ASSUME NEW a \in App, Quit(a) PROVE ScoreIsOwned'
    BY <1>4 DEF Quit
<1>5. CASE TakeMark \/ Start
    BY <1>5 DEF TakeMark, Start
<1>6. CASE FetchEnds \/ FollowLink
    BY <1>6 DEF FetchEnds, FollowLink
<1>7. CASE FinishGame
    BY <1>7 DEF FinishGame, Visible
<1>8. CASE Consume
    BY <1>8 DEF Consume
<1>9. CASE IndexOwner
    BY <1>9 DEF IndexOwner
<1>10. CASE PushScore \/ CleanupApps
    BY <1>10 DEF PushScore, CleanupApps
<1>11. CASE Tick
    <2>1. /\ owner' \in [App -> Session \cup {None}]
          /\ owner'["snake"] \in {owner["snake"], None}
        BY <1>11 DEF Tick
    <2>2. UNCHANGED <<pc, target, player>>
        BY <1>11 DEF Tick
    <2> QED
        BY <2>1, <2>2
<1>12. CASE UNCHANGED vars
    BY <1>12 DEF vars
<1> QED
    BY <1>1, <1>2, <1>3, <1>4, <1>5, <1>6, <1>7, <1>8, <1>9, <1>10, <1>11, <1>12 DEF Next

\* A score is written to the session its game was played in, or to none.
THEOREM ScoresGoHome == Spec => []ScoreGoesHome
<1>1. Init => ScoreIsOwned
    BY DEF Init, ScoreIsOwned, ScoreGoesHome
<1>2. Inv => current \in Session
    BY DEF Inv
<1>3. ScoreIsOwned => ScoreGoesHome
    BY DEF ScoreIsOwned
<1> QED
    BY InvInit, InvStep, ScoreIsOwnedStep, <1>1, <1>2, <1>3, PTL DEF Spec
-----------------------------------------------------------------------------
(* Types *)

\* Where kmalloc and its caller are, there is room for what they still take: a tick only gives back.
HasRoom ==
    /\ pc = "add" => top + 1 + job.copies <= HeapSize
    /\ pc = "grow" => sum + job.copies <= HeapSize
    /\ pc = "fill" => /\ top + job.copies <= HeapSize
                     /\ ptr \in Block

Typed ==
    /\ TypeOK
    /\ ResetOnlyFrees
    /\ HasRoom
    /\ pc \in {"add", "grow"} => ptr \in Block
    /\ pc = "grow" => mark <= sum

\* kmalloc's first step, for any of the three that take memory.
LEMMA AllocateTypes ==
    ASSUME Typed, NEW j \in Job, Allocate(j)
    PROVE  Typed'
<1>1. j.copies \in {0, 1}
    BY DEF Job, NoJob
<1>2. ptr' \in Block /\ top + 1 + job'.copies <= HeapSize /\ pc' = "add"
    BY <1>1, ShellAssumption DEF Typed, TypeOK, Allocate, Block
<1> QED
    BY <1>2, ShellAssumption
    DEF Allocate, Typed, TypeOK, HasRoom, ResetOnlyFrees, memory, apps, screen, Block

\* The caller's step, for the first and for the last block.
LEMMA FillTypes == Typed /\ Fill => Typed'
<1> SUFFICES ASSUME Typed, Fill PROVE Typed'
    OBVIOUS
<1>1. /\ job \in Job /\ job.copies \in {0, 1} /\ job.text \in Text \cup {Packet}
      /\ job.file \in File => job.text \in Text
    BY ShellAssumption DEF Typed, TypeOK, Job, NoJob
<1>2. /\ heap' \in [Block -> Text \cup {Packet}]
      /\ ptr \in Block
    BY <1>1 DEF Fill, Typed, TypeOK, HasRoom
<1>3. CASE job.copies > 0
    <2>1. /\ ptr' = top + 1
          /\ job' = [job EXCEPT !.copies = 0]
          /\ pc' = "add"
          /\ UNCHANGED <<file, saved, top, mark, sum>>
        BY <1>3 DEF Fill
    <2>2. job' \in Job /\ job'.copies = 0
        BY <1>1, <1>3, <2>1 DEF Job, NoJob
    <2>3. top + 1 <= HeapSize
        BY <1>1, <1>3, ShellAssumption DEF Fill, Typed, TypeOK, HasRoom
    <2>4. ptr' \in Block /\ top' + 1 + job'.copies <= HeapSize
        BY <2>1, <2>2, <2>3, ShellAssumption DEF Typed, TypeOK, Block
    <2> QED
        BY <1>2, <2>1, <2>2, <2>4, ShellAssumption
        DEF Fill, Typed, TypeOK, HasRoom, ResetOnlyFrees, apps, screen, Block
<1>4. CASE ~(job.copies > 0)
    <2>1. /\ file' = [f \in File |-> IF f = job.file THEN ptr ELSE file[f]]
          /\ saved' = [f \in File |-> IF f # job.file THEN saved[f]
                                       ELSE IF job.kept THEN job.text ELSE Unset]
          /\ ptr' = 0
          /\ job' = NoJob
          /\ pc' = "loop"
          /\ UNCHANGED <<top, mark, sum>>
        BY <1>4 DEF Fill
    <2>2. file' \in [File -> 0 .. HeapSize]
        BY <1>2, <2>1 DEF Typed, TypeOK, Block
    <2>3. saved' \in [File -> Text \cup {Unset}]
        BY <1>1, <2>1 DEF Typed, TypeOK
    <2> QED
        BY <1>2, <2>1, <2>2, <2>3, ShellAssumption
        DEF Job, Fill, Typed, TypeOK, HasRoom, ResetOnlyFrees, apps, screen, Block
<1> QED
    BY <1>3, <1>4

LEMMA TypedStep == Typed /\ [Next]_vars => Typed'
<1> SUFFICES ASSUME Typed, [Next]_vars PROVE Typed'
    OBVIOUS
<1> USE DEF apps, screen, main, memory, request
<1>0. NoJob \in Job
    BY DEF Job
<1>1. CASE WriteFile \/ SaveFile \/ SendPacket
    <2>1. PICK j \in Job : Allocate(j)
        BY <1>0, <1>1 DEF WriteFile, SaveFile, SendPacket, Job
    <2> QED
        BY <2>1, AllocateTypes
<1>2. CASE RemoveFile
    <2>1. PICK f \in File : /\ file' = [file EXCEPT ![f] = 0]
                            /\ saved' = [saved EXCEPT ![f] = Unset]
        BY <1>2 DEF RemoveFile
    <2>2. file' \in [File -> 0 .. HeapSize] /\ saved' \in [File -> Text \cup {Unset}]
        BY <2>1, ShellAssumption DEF Typed, TypeOK
    <2> QED
        BY <1>2, <2>2 DEF RemoveFile, Typed, TypeOK, HasRoom, ResetOnlyFrees
<1>3. CASE AddSize
    BY <1>3, ShellAssumption DEF AddSize, Typed, TypeOK, HasRoom, ResetOnlyFrees, Job, NoJob
<1>4. CASE Grow
    BY <1>4, ShellAssumption DEF Grow, Typed, TypeOK, HasRoom, ResetOnlyFrees
<1>5. CASE Fill
    BY <1>5, FillTypes
<1>6. CASE SwitchSession \/ OpenView \/ CloseView
    BY <1>6 DEF SwitchSession, OpenView, CloseView, Typed, TypeOK, View, HasRoom, ResetOnlyFrees
<1>7. ASSUME NEW a \in App, Launch(a) PROVE Typed'
    BY <1>7 DEF Launch, Typed, TypeOK, HasRoom, ResetOnlyFrees
<1>8. ASSUME NEW a \in App, Quit(a) PROVE Typed'
    BY <1>8 DEF Quit, Typed, TypeOK, HasRoom, ResetOnlyFrees
<1>9. CASE TakeMark
    BY <1>9, ShellAssumption DEF TakeMark, Typed, TypeOK, HasRoom, ResetOnlyFrees
<1>10. CASE Start
    BY <1>10 DEF Start, Typed, TypeOK, App, HasRoom, ResetOnlyFrees
<1>11. CASE FetchEnds \/ FollowLink \/ FinishGame
    BY <1>11 DEF FetchEnds, FollowLink, FinishGame, Typed, TypeOK, HasRoom, ResetOnlyFrees
<1>12. CASE Consume
    BY <1>12 DEF Consume, Typed, TypeOK, HasRoom, ResetOnlyFrees
<1>13. CASE IndexOwner \/ PushScore
    BY <1>13 DEF IndexOwner, PushScore, Typed, TypeOK, App, HasRoom, ResetOnlyFrees
<1>14. CASE Tick
    <2>1. /\ owner' \in [App -> Session \cup {None}]
          /\ top' \in {mark, top} /\ result' = FALSE
          /\ UNCHANGED <<active, loading, heap, mark, file, saved, request, screen, main>>
        BY <1>14 DEF Tick, Typed, TypeOK
    <2>2. top' \in 0 .. HeapSize /\ mark' <= top' /\ top' <= top
        BY <2>1, ShellAssumption DEF Typed, TypeOK, ResetOnlyFrees
    <2>3. TypeOK' /\ ResetOnlyFrees'
        BY <2>1, <2>2 DEF Typed, TypeOK, ResetOnlyFrees
    <2>4. job.copies \in {0, 1}
        BY DEF Typed, TypeOK, Job, NoJob
    <2>5. HasRoom'
        BY <2>1, <2>2, <2>4, ShellAssumption DEF Typed, TypeOK, HasRoom
    <2> QED
        BY <2>1, <2>3, <2>5 DEF Typed
<1>15. CASE CleanupApps
    BY <1>15 DEF CleanupApps, Typed, TypeOK, App, HasRoom, ResetOnlyFrees
<1>16. CASE UNCHANGED vars
    BY <1>16 DEF vars, Typed, TypeOK, HasRoom, ResetOnlyFrees
<1> QED
    BY <1>1, <1>2, <1>3, <1>4, <1>5, <1>6, <1>7, <1>8, <1>9, <1>10, <1>11, <1>12, <1>13, <1>14, <1>15,
       <1>16 DEF Next

\* Every variable of the shell keeps its type: no allocation leaves the heap's bound, and every file
\* points into the heap.
THEOREM ShellKeepsTypes == Spec => []TypeOK
<1>1. Init => Typed
    <2> SUFFICES ASSUME Init PROVE Typed
        OBVIOUS
    <2>1. heap \in [Block -> Text \cup {Packet}]
        BY DEF Init
    <2>2. file \in [File -> 0 .. HeapSize] /\ saved \in [File -> Text \cup {Unset}]
        BY ShellAssumption DEF Init
    <2>3. /\ top \in 0 .. HeapSize /\ mark \in 0 .. HeapSize /\ mark <= top
          /\ ptr \in 0 .. HeapSize /\ sum \in 0 .. HeapSize
        BY ShellAssumption DEF Init
    <2>4. owner \in [App -> Session \cup {None}] /\ active \in [App -> BOOLEAN] /\ job \in Job
        BY DEF Init, Job
    <2>5. TypeOK
        BY <2>1, <2>2, <2>3, <2>4, ShellAssumption DEF Init, TypeOK, View, App
    <2> QED
        BY <2>3, <2>5 DEF Init, Typed, HasRoom, ResetOnlyFrees
<1>2. Typed => TypeOK
    BY DEF Typed
<1> QED
    BY TypedStep, <1>1, <1>2, PTL DEF Spec
=============================================================================
