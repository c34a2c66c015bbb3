----------------------------- MODULE KernelLoop -----------------------------
(***************************************************************************)
(* The main loop of kernel_main (kernel/core/kernel.c), the interrupts     *)
(* that come between its steps, and the exception path: a fault inside the *)
(* loop's recovery window goes back to recovery_point, any other shows the *)
(* BSOD and halts.  One step is one call of the loop, or one stage of an   *)
(* interrupt handler (body, end of interrupt, iretq).                      *)
(*                                                                         *)
(* The timer runs at 60 Hz and is the only interrupt that comes by itself. *)
(* A handler runs with interrupts off (idt.c installs interrupt gates).    *)
(***************************************************************************)
EXTENDS Naturals, Sequences, FiniteSets

CONSTANTS
    Commands,     \* what a key may do: of {"plain", "panic", "halt"}
    FaultPoints,  \* the code that may fault: of {"poll", "browser", "draw", "timer"}
    QueueRoom,    \* keys the queue holds (31)
    MaxTyped      \* bound: keys the user types

ASSUME LoopAssumption ==
    /\ Commands \subseteq {"plain", "panic", "halt"}
    /\ FaultPoints \subseteq {"poll", "browser", "draw", "timer"}
    /\ QueueRoom \in Nat \ {0}
    /\ MaxTyped \in Nat

VARIABLES
    pc,       \* the loop's next call; "asleep" is inside its hlt()
    iflag,    \* RFLAGS.IF
    inApp,    \* g_fault_in_app
    handler,  \* the interrupt being served
    stage,    \* and how far its handler is
    inService,\* the 8259's in-service bits
    ticked,   \* a timer interrupt is pending at the 8259
    scan,     \* keys the keyboard controller has not delivered yet
    keys,     \* keys in the queue
    dirty,    \* the screen needs redrawing
    bsod,     \* bsod_show was called
    typed     \* keys typed so far, for the bound

io == <<ticked, scan, typed>>
vars == <<pc, iflag, inApp, handler, stage, inService, keys, dirty, bsod, io>>

Irqs == {"timer", "key"}
\* The loop steps between set_app_fault_recovery and clear_app_fault_recovery.
Window == {"poll", "browser", "check", "draw", "disarm"}

-----------------------------------------------------------------------------
(* The 8259 *)

\* A non-specific EOI clears the in-service bit of the highest priority: the timer's.
AfterEoi == IF "timer" \in inService THEN inService \ {"timer"} ELSE {}

Pending == (IF ticked THEN {"timer"} ELSE {}) \cup (IF scan # <<>> THEN {"key"} ELSE {})

\* The 8259 offers no interrupt below, or the same as, one in service.
Deliverable(irq) ==
    /\ irq \in Pending
    /\ inService = {} \/ (irq = "timer" /\ inService = {"key"})
    /\ irq = "key" => ~ticked

\* Mutant: the PIT is left in its one-shot mode.
TickOnce == UNCHANGED vars

\* PIT channel 0: an edge that comes while one is pending is lost.
Tick ==
    /\ ticked' = TRUE
    /\ UNCHANGED <<pc, iflag, inApp, handler, stage, inService, keys, dirty, bsod, scan, typed>>

\* The user presses a key.
Type ==
    /\ typed < MaxTyped
    /\ typed' = typed + 1
    /\ \E c \in Commands : scan' = Append(scan, c)
    /\ UNCHANGED <<pc, iflag, inApp, handler, stage, inService, keys, dirty, bsod, ticked>>

-----------------------------------------------------------------------------
(* Exceptions *)

\* Mutant: recovers without clear_app_fault_recovery.
RecoverArmed ==
    /\ pc' = "hlt"
    /\ iflag' = FALSE
    /\ handler' = "none"
    /\ stage' = "none"
    /\ inService' = AfterEoi
    /\ UNCHANGED <<inApp, bsod>>

\* Mutant: interrupt_dispatch sends no EOI for an exception.
RecoverNoEoi ==
    /\ pc' = "hlt"
    /\ iflag' = FALSE
    /\ inApp' = FALSE
    /\ handler' = "none"
    /\ stage' = "none"
    /\ UNCHANGED <<inService, bsod>>

\* panic_exception in the window: back to recovery_point with RFLAGS.IF cleared; then
\* interrupt_dispatch falls through to its default case and sends an EOI all the same.
Recover ==
    /\ pc' = "hlt"
    /\ iflag' = FALSE
    /\ inApp' = FALSE
    /\ handler' = "none"
    /\ stage' = "none"
    /\ inService' = AfterEoi
    /\ UNCHANGED bsod

\* panic_exception elsewhere: the BSOD, then cli and hlt for ever.
Panic ==
    /\ pc' = "halted"
    /\ iflag' = FALSE
    /\ bsod' = TRUE
    /\ UNCHANGED <<inApp, handler, stage, inService>>

Exception == (inApp /\ Recover) \/ (~inApp /\ Panic)

-----------------------------------------------------------------------------
(* The main loop *)

Running(at) == pc = at /\ handler = "none"

Goto(to) ==
    /\ pc' = to
    /\ UNCHANGED <<iflag, handler, stage, inService, bsod, io>>

\* set_app_fault_recovery
Arm == Running("arm") /\ inApp' = TRUE /\ Goto("poll") /\ UNCHANGED <<keys, dirty>>

\* keyboard_poll_event: at most one key a turn, handled by shell_keyboard_event.
Poll ==
    /\ Running("poll")
    /\ \/ keys = <<>> /\ Goto("browser") /\ UNCHANGED <<inApp, keys, dirty>>
       \/ /\ keys # <<>>
          /\ keys' = Tail(keys)
          /\ CASE Head(keys) = "plain" -> dirty' = TRUE /\ Goto("browser") /\ UNCHANGED inApp
               [] Head(keys) = "panic" -> Exception /\ UNCHANGED <<dirty, io>>
               [] Head(keys) = "halt" ->
                    /\ pc' = "halted"
                    /\ iflag' = FALSE
                    /\ dirty' = FALSE
                    /\ UNCHANGED <<inApp, handler, stage, inService, bsod, io>>

\* browser_tick
Browser == Running("browser") /\ Goto("check") /\ UNCHANGED <<inApp, keys, dirty>>

\* shell_needs_redraw
Check ==
    /\ Running("check")
    /\ Goto(IF dirty THEN "draw" ELSE "disarm")
    /\ UNCHANGED <<inApp, keys, dirty>>

\* shell_render clears the flag once it has drawn, also one set while it was drawing.
Draw == Running("draw") /\ dirty' = FALSE /\ Goto("disarm") /\ UNCHANGED <<inApp, keys>>

\* clear_app_fault_recovery
Disarm == Running("disarm") /\ inApp' = FALSE /\ Goto("hlt") /\ UNCHANGED <<keys, dirty>>

\* hlt() at recovery_point: only an interrupt that comes after it wakes the loop.
Hlt == Running("hlt") /\ Goto("asleep") /\ UNCHANGED <<inApp, keys, dirty>>

\* A call of the loop faults.
LoopFault ==
    /\ handler = "none"
    /\ pc \in FaultPoints
    /\ Exception
    /\ UNCHANGED <<keys, dirty, io>>

Main == Arm \/ Poll \/ Browser \/ Check \/ Draw \/ Disarm \/ Hlt

-----------------------------------------------------------------------------
(* Interrupt handlers *)

\* The CPU takes an interrupt between two instructions, or out of hlt.
Interrupt ==
    /\ pc # "halted"
    /\ iflag
    /\ handler = "none"
    /\ \E irq \in Irqs :
          /\ Deliverable(irq)
          /\ handler' = irq
          /\ inService' = inService \cup {irq}
          /\ ticked' = (ticked /\ irq # "timer")
    /\ iflag' = FALSE
    /\ stage' = "body"
    /\ UNCHANGED <<pc, inApp, keys, dirty, bsod, scan, typed>>

\* ++g_ticks and shell_timer_tick: the task manager, or a running app, may want a redraw.
TimerBody ==
    /\ handler = "timer"
    /\ stage = "body"
    /\ pc # "halted"
    /\ dirty' \in {dirty, TRUE}
    /\ stage' = "eoi"
    /\ UNCHANGED <<pc, iflag, inApp, handler, inService, keys, bsod, io>>

\* shell_timer_tick faults.
TimerFault ==
    /\ "timer" \in FaultPoints
    /\ handler = "timer"
    /\ stage = "body"
    /\ pc # "halted"
    /\ Exception
    /\ UNCHANGED <<keys, dirty, io>>

\* keyboard_handle_irq: one key is read; it is dropped when the queue is full.
KeyBody ==
    /\ handler = "key"
    /\ stage = "body"
    /\ scan' = Tail(scan)
    /\ keys' = IF Len(keys) < QueueRoom THEN Append(keys, Head(scan)) ELSE keys
    /\ stage' = "eoi"
    /\ UNCHANGED <<pc, iflag, inApp, handler, inService, dirty, bsod, ticked, typed>>

\* pic_send_eoi
Eoi ==
    /\ stage = "eoi"
    /\ inService' = AfterEoi
    /\ stage' = "iret"
    /\ UNCHANGED <<pc, iflag, inApp, handler, keys, dirty, bsod, io>>

\* iretq restores RFLAGS; a loop that was asleep goes on behind its hlt().
Iret ==
    /\ stage = "iret"
    /\ handler' = "none"
    /\ stage' = "none"
    /\ iflag' = TRUE
    /\ pc' = IF pc = "asleep" THEN "arm" ELSE pc
    /\ UNCHANGED <<inApp, inService, keys, dirty, bsod, io>>

Serve == Interrupt \/ TimerBody \/ KeyBody \/ Eoi \/ Iret

-----------------------------------------------------------------------------
\* kernel_main at its sti(), after shell_render.
Init ==
    /\ pc = "arm"
    /\ iflag = TRUE
    /\ inApp = FALSE
    /\ handler = "none"
    /\ stage = "none"
    /\ inService = {}
    /\ ticked = FALSE
    /\ scan = <<>>
    /\ keys = <<>>
    /\ dirty = FALSE
    /\ bsod = FALSE
    /\ typed = 0

Next == Main \/ LoopFault \/ Serve \/ TimerFault \/ Tick \/ Type

Spec == Init /\ [][Next]_vars

\* A tick's handler takes less than the 16 ms to the next tick.
TimerIsSlow == []<>(pc = "halted" \/ (handler = "none" /\ ~(iflag /\ ticked)))

\* The CPU runs the loop when no handler does, takes what the 8259 offers, ends every
\* handler, and the PIT keeps ticking.  Nothing else is promised: keys need not come.
Fairness ==
    /\ TimerIsSlow
    /\ SF_vars(Main)
    /\ SF_vars(Interrupt /\ handler' = "key")
    /\ WF_vars(Serve)
    /\ WF_vars(Tick)

FairSpec == Spec /\ Fairness

-----------------------------------------------------------------------------
(* Properties *)

\* Every variable has its type.
TypeOK ==
    /\ pc \in Window \cup {"arm", "hlt", "asleep", "halted"}
    /\ iflag \in BOOLEAN
    /\ inApp \in BOOLEAN
    /\ handler \in Irqs \cup {"none"}
    /\ stage \in {"none", "body", "eoi", "iret"}
    /\ inService \subseteq Irqs
    /\ ticked \in BOOLEAN
    /\ scan \in Seq(Commands)
    /\ keys \in Seq(Commands)
    /\ Len(keys) <= QueueRoom
    /\ dirty \in BOOLEAN
    /\ bsod \in BOOLEAN
    /\ typed \in 0 .. MaxTyped

\* While the loop is alive the recovery window is exactly its three calls: a fault in
\* them is never a BSOD, and one in the sleeping loop is never sent to recovery_point,
\* also after a recovery out of the middle of the window or out of a handler.
WindowIsArmed == pc # "halted" => (inApp <=> pc \in Window)

\* The 8259 holds an interrupt in service only while its handler has not sent its EOI:
\* nothing is left in service in the loop, so no interrupt stays masked, even when the
\* timer handler was abandoned by a fault (interrupt_dispatch's default EOI stands in).
NothingLeftInService ==
    inService = IF handler = "none" \/ stage = "iret" THEN {} ELSE {handler}

\* Halted, by a BSOD or the halt command, or on its way into a hlt with interrupts off.
Stopped == pc = "halted" \/ (handler = "none" /\ ~iflag /\ pc \in {"hlt", "asleep"})

\* A key typed, a key queued and a redraw asked for are all dealt with, although the loop
\* takes one key a turn and sleeps after it: a key queued between keyboard_poll_event and
\* hlt() waits for the next timer interrupt, not for the next key.
InputIsHandled ==
    (scan # <<>> \/ keys # <<>> \/ dirty)
        ~> ((scan = <<>> /\ keys = <<>> /\ ~dirty) \/ Stopped)

\* The loop turns for ever unless it was halted (BSOD or halt command), or sleeps with
\* interrupts off behind a recovered fault.
OnlyFaultsStopIt ==
    []<>(pc = "poll") \/ <>[](pc = "halted") \/ <>[](pc = "asleep" /\ ~iflag)
=============================================================================
