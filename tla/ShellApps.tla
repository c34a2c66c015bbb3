----------------------------- MODULE ShellApps -----------------------------
(***************************************************************************)
(* The applications of the shell (kernel/core/shell.c with the life cycle  *)
(* of snake.c, editor.c and browser.c): which session owns which running   *)
(* application, and the kernel heap they share (memory.c).                 *)
(*                                                                         *)
(* The main loop handles one key at a time; a launch, the end of a snake   *)
(* game and an allocation take it several steps, and shell_timer_tick may  *)
(* run between any two of them, in the timer interrupt.  The kernel is     *)
(* built without optimisation: in these paths each load or store of an     *)
(* owner, of heap_offset or of the mark is a step of its own.  What only   *)
(* the main loop reads and writes, the views and the files, changes in     *)
(* one step with its key.                                                  *)
(***************************************************************************)
EXTENDS Integers, FiniteSets

CONSTANTS
    Session,   \* 0 .. SHELL_SESSION_COUNT - 1
    File,      \* names of root files
    BootFile,  \* the one the mount has read into the heap
    Text,      \* file contents
    Packet,    \* the content of a transmit buffer
    Unset,     \* not written since the boot
    HeapSize   \* bound: blocks of the heap (memory.c has none)

NoFile == "none"

ASSUME ShellAssumption ==
    /\ Session \subseteq Nat
    /\ 0 \in Session
    /\ BootFile \in File /\ NoFile \notin File
    /\ Text # {}
    /\ {Packet, Unset} \cap Text = {}
    /\ HeapSize \in Nat \ {0}

VARIABLES
    current,   \* g_active_session
    view,      \* g_shell_view
    owner,     \* g_snake_, g_editor_ and g_browser_owner_session
    active,    \* snake_active(), editor_active(), browser_active()
    result,    \* g_result_ready of snake.c
    loading,   \* g_fetch_state = FETCH_LOADING of browser.c
    top,       \* heap_offset, in blocks
    heap,      \* what the blocks hold
    mark,      \* g_app_heap_mark
    file,      \* the block g_files[].data points to, 0 for no such file
    saved,     \* history: the text the editor has saved in the file, if that was its last write
    ptr,       \* ptr of kmalloc, a block
    sum,       \* heap_offset += size: the value to be stored
    job,       \* what is allocated for
    pc,        \* the main loop's place in the key it handles, "stopped" when it sleeps for ever
    app,       \* the application it launches
    target,    \* the session it reports a score to
    player     \* history: the session of the game whose score is due

memory == <<top, heap, mark, file, saved>>
request == <<ptr, sum, job>>
apps == <<owner, active, result, loading>>
screen == <<current, view>>
main == <<pc, app, target, player>>
vars == <<memory, request, apps, screen, main>>

App == {"snake", "editor", "browser"}
None == -1
View == {"session", "switcher", "taskman", "installer"}
Block == 1 .. HeapSize

\* snake_, editor_ and browser_visible_for_active_session
Visible(a) == view = "session" /\ active[a] /\ owner[a] = current

\* current_session_has_app
HasApp == \E a \in App : owner[a] = current

\* The keys go to the prompt of the current session.
AtPrompt == pc = "loop" /\ view = "session" /\ \A a \in App : ~Visible(a)

-----------------------------------------------------------------------------
(* The heap *)

\* What a block is taken for: a text that goes to a file, or nothing that is read again.  In front
\* of the block of an append there is one for its copy of old and new text.
NoJob == [file |-> NoFile, text |-> Packet, copies |-> 0, kept |-> FALSE]
Job == [file : File, text : Text, copies : {0, 1}, kept : BOOLEAN] \cup {NoJob}

\* kmalloc reads heap_offset for the block it returns ...
Allocate(j) ==
    /\ top + 1 + j.copies <= HeapSize
    /\ ptr' = top + 1
    /\ job' = j
    /\ pc' = "add"
    /\ UNCHANGED <<sum, memory, apps, screen, app, target, player>>

\* ... reads it again to add to it ...
AddSize ==
    /\ pc = "add"
    /\ sum' = top + 1
    /\ pc' = "grow"
    /\ UNCHANGED <<ptr, job, memory, apps, screen, app, target, player>>

\* ... and stores the sum.
Grow ==
    /\ pc = "grow"
    /\ top' = sum
    /\ sum' = 0
    /\ pc' = "fill"
    /\ UNCHANGED <<ptr, job, heap, mark, file, saved, apps, screen, app, target, player>>

\* The caller fills the block and points the file to it, or goes on to the second block.
Fill ==
    /\ pc = "fill"
    /\ heap' = [heap EXCEPT ![ptr] = job.text]
    /\ IF job.copies > 0
       THEN /\ ptr' = top + 1
            /\ job' = [job EXCEPT !.copies = 0]
            /\ pc' = "add"
            /\ UNCHANGED <<file, saved>>
       ELSE /\ file' = [f \in File |-> IF f = job.file THEN ptr ELSE file[f]]
            /\ saved' = [f \in File |-> IF f # job.file THEN saved[f]
                                        ELSE IF job.kept THEN job.text ELSE Unset]
            /\ ptr' = 0
            /\ job' = NoJob
            /\ pc' = "loop"
    /\ UNCHANGED <<top, mark, sum, apps, screen, app, target, player>>

\* The write, append and curl -o commands.
WriteFile ==
    /\ AtPrompt
    /\ \E f \in File, t \in Text, n \in {0, 1} :
          Allocate([file |-> f, text |-> t, copies |-> n, kept |-> FALSE])

\* Ctrl+S in the editor.
SaveFile ==
    /\ pc = "loop"
    /\ Visible("editor")
    /\ \E f \in File, t \in Text :
          Allocate([file |-> f, text |-> t, copies |-> 0, kept |-> TRUE])

\* curl, or browser_tick while a page loads: rtl8139.c takes a new buffer for each packet.
SendPacket ==
    /\ AtPrompt \/ (pc = "loop" /\ loading)
    /\ Allocate(NoJob)

\* rm: the block is not freed.
RemoveFile ==
    /\ AtPrompt
    /\ \E f \in File :
          /\ file[f] # 0
          /\ file' = [file EXCEPT ![f] = 0]
          /\ saved' = [saved EXCEPT ![f] = Unset]
    /\ UNCHANGED <<top, heap, mark, request, apps, screen, main>>

-----------------------------------------------------------------------------
(* Sessions and views *)

\* shell_set_active_session: F1-F4, a digit or enter in a menu, the switch command.
SwitchSession ==
    /\ pc = "loop"
    /\ current' \in Session
    /\ view' = "session"
    /\ UNCHANGED <<memory, request, apps, main>>

\* F10 anywhere; esc and the sessions, top and install commands at the prompt.
OpenView ==
    /\ pc = "loop"
    /\ view' \in {"taskman"} \cup (IF AtPrompt THEN {"switcher", "installer"} ELSE {})
    /\ UNCHANGED <<current, memory, request, apps, main>>

\* esc or q
CloseView ==
    /\ pc = "loop"
    /\ view # "session"
    /\ view' = "session"
    /\ UNCHANGED <<current, memory, request, apps, main>>

-----------------------------------------------------------------------------
(* Launching: shell_launch_snake, and the edit and browse commands *)

\* Mutant: does not look at what the session already runs.
LaunchAnywhere(a) ==
    /\ AtPrompt
    /\ a = "snake" => ~(active["snake"] /\ owner["snake"] # current)
    /\ owner' = [owner EXCEPT ![a] = current]
    /\ app' = a
    /\ pc' = "mark"
    /\ UNCHANGED <<active, result, loading, memory, request, screen, target, player>>

\* Mutant: does not look at the snake of another session.
LaunchSteals(a) ==
    /\ AtPrompt
    /\ ~HasApp
    /\ owner' = [owner EXCEPT ![a] = current]
    /\ app' = a
    /\ pc' = "mark"
    /\ UNCHANGED <<active, result, loading, memory, request, screen, target, player>>

\* The checks, and the owner they set when they pass.
Launch(a) ==
    /\ AtPrompt
    /\ a = "snake" => /\ ~(active["snake"] /\ owner["snake"] # current)
                      /\ HasApp => active["snake"]
    /\ a # "snake" => ~HasApp
    /\ owner' = [owner EXCEPT ![a] = current]
    /\ app' = a
    /\ pc' = "mark"
    /\ UNCHANGED <<active, result, loading, memory, request, screen, target, player>>

\* g_app_heap_mark = heap_mark()
TakeMark ==
    /\ pc = "mark"
    /\ mark' = top
    /\ pc' = "start"
    /\ UNCHANGED <<top, heap, file, saved, request, apps, screen, app, target, player>>

\* snake_start, editor_start or browser_start
Start ==
    /\ pc = "start"
    /\ active' = [active EXCEPT ![app] = TRUE]
    /\ result' = (result /\ app # "snake")
    /\ loading' \in IF app = "browser" THEN BOOLEAN ELSE {loading}
    /\ app' = "snake"
    /\ pc' = "loop"
    /\ UNCHANGED <<owner, memory, request, screen, target, player>>

-----------------------------------------------------------------------------
(* Leaving *)

\* Ctrl+Q or esc: the owner stays until the next tick.
Quit(a) ==
    /\ pc = "loop"
    /\ a \in {"editor", "browser"}
    /\ Visible(a)
    /\ active' = [active EXCEPT ![a] = FALSE]
    /\ loading' = (loading /\ a # "browser")
    /\ UNCHANGED <<owner, result, memory, request, screen, main>>

\* The page arrives, or the fetch fails; a fetch nobody wants is aborted.
FetchEnds ==
    /\ pc = "loop"
    /\ loading
    /\ loading' = FALSE
    /\ UNCHANGED <<owner, active, result, memory, request, screen, main>>

\* enter on a link: browser_start again.
FollowLink ==
    /\ pc = "loop"
    /\ Visible("browser")
    /\ ~loading
    /\ loading' = TRUE
    /\ UNCHANGED <<owner, active, result, memory, request, screen, main>>

\* finish_session of snake.c, on q or esc.
FinishGame ==
    /\ pc = "loop"
    /\ Visible("snake")
    /\ active' = [active EXCEPT !["snake"] = FALSE]
    /\ result' = TRUE
    /\ player' = current
    /\ pc' = "consume"
    /\ UNCHANGED <<owner, loading, memory, request, screen, app, target>>

\* shell_consume_snake_result: takes the score and checks the owner...
Consume ==
    /\ pc = "consume"
    /\ result' = FALSE
    /\ LET reports == result /\ owner["snake"] \in Session
       IN  /\ pc' = IF reports THEN "index" ELSE "loop"
           /\ player' = IF reports THEN player ELSE None
    /\ UNCHANGED <<owner, active, loading, memory, request, screen, app, target>>

\* Mutant: reports to the first session.
IndexFirst ==
    /\ pc = "index"
    /\ target' = 0
    /\ pc' = "push"
    /\ UNCHANGED <<apps, memory, request, screen, app, player>>

\* ... reads the owner again for the index ...
IndexOwner ==
    /\ pc = "index"
    /\ target' = owner["snake"]
    /\ pc' = "push"
    /\ UNCHANGED <<apps, memory, request, screen, app, player>>

\* ... and writes "snake score " to that session.
PushScore ==
    /\ pc = "push"
    /\ owner' = [owner EXCEPT !["snake"] = None]
    /\ target' = None
    /\ player' = None
    /\ pc' = "loop"
    /\ UNCHANGED <<active, result, loading, memory, request, screen, app>>

-----------------------------------------------------------------------------
(* shell_timer_tick: shell_cleanup_exited_apps, then shell_consume_snake_result *)

Exited(a) == owner[a] # None /\ ~active[a]

\* Mutant: shell_cleanup_exited_apps forgets the browser.
TickForgetsBrowser ==
    LET cleaned == [a \in App |-> IF Exited(a) /\ a # "browser" THEN None ELSE owner[a]]
        reports == result /\ cleaned["snake"] \in Session
    IN  /\ pc # "stopped"
        /\ owner' = IF reports THEN [cleaned EXCEPT !["snake"] = None] ELSE cleaned
        /\ top' = IF \E a \in App : Exited(a) THEN mark ELSE top
        /\ result' = FALSE
        /\ UNCHANGED <<active, loading, heap, mark, file, saved, request, screen, main>>

\* An application that is no longer active loses its owner, and the heap goes back to
\* the mark; a result is taken here too, and reported when its game still has an owner.
Tick ==
    LET cleaned == [a \in App |-> IF Exited(a) THEN None ELSE owner[a]]
        reports == result /\ cleaned["snake"] \in Session
    IN  /\ pc # "stopped"
        /\ owner' = IF reports THEN [cleaned EXCEPT !["snake"] = None] ELSE cleaned
        /\ top' = IF \E a \in App : Exited(a) THEN mark ELSE top
        /\ result' = FALSE
        /\ UNCHANGED <<active, loading, heap, mark, file, saved, request, screen, main>>

\* A fault anywhere in a key, a drawing or a tick of them: panic_exception calls shell_cleanup_apps and
\* sends the loop, with interrupts off, into a hlt that nothing ends (KernelLoop).
CleanupApps ==
    /\ pc # "stopped"
    /\ owner' = [a \in App |-> None]
    /\ pc' = "stopped"
    /\ UNCHANGED <<active, result, loading, memory, request, screen, app, target, player>>

-----------------------------------------------------------------------------
\* shell_init, after the mount has read the root files.
Init ==
    /\ current = 0
    /\ view = "session"
    /\ owner = [a \in App |-> None]
    /\ active = [a \in App |-> FALSE]
    /\ result = FALSE
    /\ loading = FALSE
    /\ top = 1
    /\ \E t \in Text : heap = [b \in Block |-> t]
    /\ saved = [f \in File |-> Unset]
    /\ ptr = 0
    /\ sum = 0
    /\ job = NoJob
    /\ mark = 0
    /\ file = [f \in File |-> IF f = BootFile THEN 1 ELSE 0]
    /\ pc = "loop"
    /\ app = "snake"
    /\ target = None
    /\ player = None

Next ==
    \/ WriteFile \/ RemoveFile \/ SaveFile \/ SendPacket \/ AddSize \/ Grow \/ Fill
    \/ SwitchSession \/ OpenView \/ CloseView
    \/ \E a \in App : Launch(a) \/ Quit(a)
    \/ TakeMark \/ Start
    \/ FetchEnds \/ FollowLink \/ FinishGame \/ Consume \/ IndexOwner \/ PushScore
    \/ Tick \/ CleanupApps

Spec == Init /\ [][Next]_vars
\* The timer keeps ticking; a key being handled is handled to its end.
FairSpec == Spec /\ WF_vars(Tick)
            /\ WF_vars(AddSize \/ Grow \/ Fill \/ TakeMark \/ Start \/ Consume \/ IndexOwner \/ PushScore)

-----------------------------------------------------------------------------
(* Properties *)

\* Every variable has its type.
TypeOK ==
    /\ current \in Session
    /\ view \in View
    /\ owner \in [App -> Session \cup {None}]
    /\ active \in [App -> BOOLEAN]
    /\ result \in BOOLEAN
    /\ loading \in BOOLEAN
    /\ top \in 0 .. HeapSize
    /\ heap \in [Block -> Text \cup {Packet}]
    /\ mark \in 0 .. HeapSize
    /\ file \in [File -> 0 .. HeapSize]
    /\ saved \in [File -> Text \cup {Unset}]
    /\ ptr \in 0 .. HeapSize
    /\ sum \in 0 .. HeapSize
    /\ job \in Job
    /\ pc \in {"loop", "add", "grow", "fill", "mark", "start", "consume", "index", "push", "stopped"}
    /\ app \in App
    /\ target \in Session \cup {None}
    /\ player \in Session \cup {None}

\* A session runs at most one application, whatever sessions they were launched from and
\* wherever the ticks fell: the keys of a session have one taker.
OneAppPerSession ==
    \A a, b \in App : (a # b /\ owner[a] # None) => owner[a] # owner[b]

\* heap_reset only ever frees: the mark it goes back to is never above the heap's top.
ResetOnlyFrees == mark <= top

\* A snake game in progress stays with its session: no launch in another session takes
\* it over, and no tick drops it (snake.c has one game for all sessions).  Only the recovery from a
\* fault takes it away, as it takes every application away, and it leaves the game running.
SnakeIsNotStolen ==
    [][(active["snake"] /\ owner["snake"] # None /\ active'["snake"] /\ pc' # "stopped")
            => owner'["snake"] = owner["snake"]]_vars

\* A score that is reported goes to the session the game was played in.  The owner is
\* read twice, for the check and for the index, and a tick in between may have cleared it:
\* then target is None, and no session gets the score.
ScoreGoesHome == pc = "push" => target \in {player, None}

\* An application that was left, or lost its owner while it was starting, does not keep
\* its session busy: the owner is released.
ExitedAppIsReleased ==
    \A a \in App : Exited(a) ~> (owner[a] = None \/ active[a])

\* What Ctrl+S has saved in the editor (editor.c) is what cat shows until the file is written or
\* removed by someone else: leaving the editor does not free it.
SavedTextIsKept == \A f \in File : saved[f] # Unset => heap[file[f]] = saved[f]
=============================================================================
