-------------------------- MODULE KernelLoopProofs --------------------------
(***************************************************************************)
(* Proofs about KernelLoop for every set of commands, every choice of      *)
(* faulting code, any queue size and any number of keys typed.             *)
(***************************************************************************)
EXTENDS KernelLoop, TLAPS

\* A handler is in one of its stages, and has the interrupts off; a halted loop has them
\* off too, so that no handler starts there.
HandlerShape ==
    /\ handler \in Irqs \cup {"none"}
    /\ stage \in {"none", "body", "eoi", "iret"}
    /\ handler = "none" <=> stage = "none"
    /\ iflag => (handler = "none" /\ pc # "halted")
    /\ pc = "halted" => (handler # "key" /\ stage \in {"none", "body"})

\* The loop is somewhere, and the window is open exactly in its calls.
LoopShape ==
    /\ pc \in Window \cup {"arm", "hlt", "asleep", "halted"}
    /\ inApp \in BOOLEAN
    /\ WindowIsArmed

\* Keys waiting are keys the user can press: keyboard_poll_event has a case for each.
KeysShape == scan \in Seq(Commands) /\ keys \in Seq(Commands)
             /\ ((handler = "key" /\ stage = "body") => scan # <<>>)

Inv == HandlerShape /\ LoopShape /\ KeysShape /\ NothingLeftInService

LEMMA InvInit == Init => Inv
<1> SUFFICES ASSUME Init PROVE Inv
    OBVIOUS
<1>1. KeysShape
    <2>1. <<>> \in Seq(Commands)
        OBVIOUS
    <2> QED
        BY <2>1 DEF Init, KeysShape
<1> QED
    BY <1>1 DEF Init, Inv, HandlerShape, LoopShape, WindowIsArmed, NothingLeftInService, Irqs,
                Window

\* Wherever an exception comes from, with or without a handler to abandon, the spurious
\* EOI of a recovery clears the only bit that can be in service.
LEMMA ExceptionStep ==
    ASSUME Inv, pc # "halted", handler # "key", stage \in {"none", "body"}, Exception,
           KeysShape'
    PROVE  Inv'
<1>1. CASE inApp /\ Recover
    <2>1. inService' = {}
        BY <1>1 DEF Recover, AfterEoi, Inv, NothingLeftInService, HandlerShape, Irqs
    <2> QED
        BY <1>1, <2>1 DEF Recover, Inv, HandlerShape, LoopShape, WindowIsArmed,
                          NothingLeftInService, Window
<1>2. CASE ~inApp /\ Panic
    BY <1>2 DEF Panic, Inv, HandlerShape, LoopShape, WindowIsArmed, NothingLeftInService
<1> QED
    BY <1>1, <1>2 DEF Exception

\* A call of the loop that goes on to the next.
LEMMA GotoStep ==
    ASSUME Inv, NEW at, NEW to \in Window \cup {"arm", "hlt", "asleep"},
           Running(at), at # "halted", Goto(to), inApp' \in BOOLEAN, inApp' <=> to \in Window,
           KeysShape'
    PROVE  Inv'
BY DEF Running, Goto, Inv, HandlerShape, LoopShape, WindowIsArmed, NothingLeftInService, Window

\* Taking the first key.
LEMMA FirstKey ==
    ASSUME KeysShape, keys # <<>>
    PROVE  Head(keys) \in {"plain", "panic", "halt"} /\ Tail(keys) \in Seq(Commands)
<1>1. Head(keys) \in Commands /\ Tail(keys) \in Seq(Commands)
    BY DEF KeysShape
<1>2. Commands \subseteq {"plain", "panic", "halt"}
    BY LoopAssumption
<1> QED
    BY <1>1, <1>2

\* keyboard_poll_event, by what the key does.
LEMMA PollStep == Inv /\ Poll => Inv'
<1> SUFFICES ASSUME Inv, Poll PROVE Inv'
    OBVIOUS
<1>0. pc = "poll" /\ handler = "none" /\ stage = "none" /\ inApp = TRUE
    BY DEF Poll, Running, Inv, HandlerShape, LoopShape, WindowIsArmed, Window
<1>1. ASSUME Goto("browser"), UNCHANGED inApp, keys' \in Seq(Commands) PROVE Inv'
    <2>1. KeysShape'
        BY <1>1 DEF Goto, io, Inv, KeysShape
    <2> QED
        BY <1>0, <1>1, <2>1, GotoStep DEF Poll, Window
<1>2. CASE keys = <<>>
    BY <1>1, <1>2 DEF Poll, Inv, KeysShape
<1>3. CASE keys # <<>>
    <2>1. Head(keys) \in {"plain", "panic", "halt"} /\ keys' \in Seq(Commands)
        BY <1>3, FirstKey DEF Poll, Inv
    <2>2. CASE Head(keys) = "plain"
        BY <1>1, <1>3, <2>1, <2>2 DEF Poll
    <2>3. CASE Head(keys) = "panic"
        <3>1. Exception /\ UNCHANGED io
            BY <1>3, <2>3 DEF Poll
        <3>2. handler' = "none"
            BY <1>0, <3>1 DEF Exception, Recover, Panic
        <3>3. KeysShape'
            BY <2>1, <3>1, <3>2 DEF io, Inv, KeysShape
        <3> QED
            BY <1>0, <3>1, <3>3, ExceptionStep
    <2>4. CASE Head(keys) = "halt"
        <3>1. /\ pc' = "halted"
              /\ iflag' = FALSE
              /\ UNCHANGED <<inApp, handler, stage, inService, io>>
            BY <1>3, <2>4 DEF Poll
        <3> QED
            BY <1>0, <2>1, <3>1 DEF io, Inv, HandlerShape, LoopShape, KeysShape, WindowIsArmed,
                                    NothingLeftInService
    <2> QED
        BY <2>1, <2>2, <2>3, <2>4
<1> QED
    BY <1>2, <1>3

\* The other calls of the loop leave the keys alone.
LEMMA MainStep == Inv /\ Main => Inv'
<1> SUFFICES ASSUME Inv, Main PROVE Inv'
    OBVIOUS
<1> USE DEF Window
<1>0. pc # "halted" => (inApp \in BOOLEAN /\ (inApp <=> pc \in Window))
    BY DEF Inv, LoopShape, WindowIsArmed
<1>1. ASSUME NEW at, NEW to \in Window \cup {"arm", "hlt", "asleep"}, Running(at), at # "halted",
             Goto(to), UNCHANGED keys, inApp' \in BOOLEAN, inApp' <=> to \in Window
      PROVE  Inv'
    <2>1. KeysShape'
        BY <1>1 DEF Goto, io, Inv, KeysShape
    <2> QED
        BY <1>1, <2>1, GotoStep
<1>2. CASE Arm
    BY <1>1, <1>2 DEF Arm
<1>3. CASE Browser
    BY <1>0, <1>1, <1>3 DEF Browser, Running
<1>4. CASE Check
    <2> DEFINE to == IF dirty THEN "draw" ELSE "disarm"
    <2>1. Goto(to) /\ to \in Window
        BY <1>4 DEF Check
    <2> QED
        BY <1>0, <1>1, <1>4, <2>1 DEF Check, Running
<1>5. CASE Draw
    BY <1>0, <1>1, <1>5 DEF Draw, Running
<1>6. CASE Disarm
    BY <1>1, <1>6 DEF Disarm
<1>7. CASE Hlt
    BY <1>0, <1>1, <1>7 DEF Hlt, Running
<1> QED
    BY <1>2, <1>3, <1>4, <1>5, <1>6, <1>7, PollStep DEF Main

\* keyboard_handle_irq moves a key from the controller to the queue, or drops it.  It only
\* runs with a byte to read: the controller raised the interrupt for it.
LEMMA KeyRead == Inv /\ KeyBody => KeysShape'
<1> SUFFICES ASSUME Inv, KeyBody PROVE KeysShape'
    OBVIOUS
<1>1. scan # <<>>
    BY DEF KeyBody, Inv, KeysShape
<1>2. Head(scan) \in Commands /\ Tail(scan) \in Seq(Commands)
    BY <1>1 DEF Inv, KeysShape
<1> QED
    BY <1>2 DEF KeyBody, Inv, KeysShape

\* The stages of a handler.
LEMMA ServeStep == Inv /\ Serve => Inv'
<1> SUFFICES ASSUME Inv, Serve PROVE Inv'
    OBVIOUS
<1> USE DEF Inv, HandlerShape, LoopShape, WindowIsArmed, NothingLeftInService, Irqs, Window
<1>0. (UNCHANGED <<scan, keys>> /\ stage' # "body") => KeysShape'
    BY DEF KeysShape
<1>1. CASE Interrupt
    <2>1. PICK irq \in Irqs : /\ irq \in Pending
                              /\ handler' = irq
                              /\ inService' = inService \cup {irq}
        BY <1>1 DEF Interrupt, Deliverable
    <2>2. irq = "key" => scan # <<>>
        BY <2>1 DEF Pending
    <2>3. KeysShape'
        BY <1>1, <2>1, <2>2 DEF Interrupt, KeysShape
    <2> QED
        BY <1>1, <2>1, <2>3 DEF Interrupt
<1>2. CASE TimerBody
    <2>1. UNCHANGED <<pc, iflag, inApp, handler, inService, scan, keys>> /\ stage' = "eoi"
        BY <1>2 DEF TimerBody, io
    <2>2. handler = "timer" /\ stage = "body" /\ pc # "halted"
        BY <1>2 DEF TimerBody
    <2>3. KeysShape'
        BY <1>0, <2>1
    <2>4. HandlerShape' /\ LoopShape'
        BY <2>1, <2>2
    <2>5. NothingLeftInService'
        BY <2>1, <2>2
    <2> QED
        BY <2>3, <2>4, <2>5
<1>3. CASE KeyBody
    <2>1. pc # "halted" /\ handler = "key" /\ UNCHANGED <<pc, iflag, inApp, handler, inService>>
        BY <1>3 DEF KeyBody
    <2>2. KeysShape'
        BY <1>3, KeyRead
    <2> QED
        BY <1>3, <2>1, <2>2 DEF KeyBody
<1>4. CASE Eoi
    <2>1. inService' = {}
        BY <1>4 DEF Eoi, AfterEoi
    <2> QED
        BY <1>0, <1>4, <2>1 DEF Eoi, io
<1>5. CASE Iret
    BY <1>0, <1>5 DEF Iret, io
<1> QED
    BY <1>1, <1>2, <1>3, <1>4, <1>5 DEF Serve

LEMMA InvStep == Inv /\ [Next]_vars => Inv'
<1> SUFFICES ASSUME Inv, [Next]_vars PROVE Inv'
    OBVIOUS
<1>1. CASE Main
    BY <1>1, MainStep
<1>2. CASE LoopFault
    <2>1. pc # "halted" /\ handler = "none" /\ stage = "none"
        BY <1>2, LoopAssumption DEF LoopFault, Inv, HandlerShape
    <2>2. handler' = "none"
        BY <1>2, <2>1 DEF LoopFault, Exception, Recover, Panic
    <2>3. KeysShape'
        BY <1>2, <2>2 DEF LoopFault, io, Inv, KeysShape
    <2> QED
        BY <1>2, <2>1, <2>3, ExceptionStep DEF LoopFault
<1>3. CASE Serve
    BY <1>3, ServeStep
<1>4. CASE TimerFault
    <2>1. handler = "timer" /\ handler' \in {"timer", "none"}
        BY <1>4 DEF TimerFault, Exception, Recover, Panic
    <2>2. KeysShape'
        BY <1>4, <2>1 DEF TimerFault, io, Inv, KeysShape
    <2> QED
        BY <1>4, <2>1, <2>2, ExceptionStep DEF TimerFault
<1>5. CASE Tick \/ UNCHANGED vars
    BY <1>5 DEF Tick, vars, io, Inv, KeysShape, HandlerShape, LoopShape, WindowIsArmed,
                NothingLeftInService
<1>6. CASE Type
    <2>1. PICK c \in Commands : scan' = Append(scan, c)
        BY <1>6 DEF Type
    <2>2. KeysShape'
        BY <1>6, <2>1 DEF Type, Inv, KeysShape
    <2> QED
        BY <1>6, <2>2 DEF Type, Inv, HandlerShape, LoopShape, WindowIsArmed, NothingLeftInService
<1> QED
    BY <1>1, <1>2, <1>3, <1>4, <1>5, <1>6 DEF Next

\* The recovery window is open in the loop's calls and nowhere else.
THEOREM WindowStaysArmed == Spec => []WindowIsArmed
<1>1. Inv => WindowIsArmed
    BY DEF Inv, LoopShape
<1> QED
    BY InvInit, InvStep, <1>1, PTL DEF Spec

\* No interrupt is left in service, whichever handler a fault cuts short.
THEOREM EveryInterruptIsEnded == Spec => []NothingLeftInService
<1>1. Inv => NothingLeftInService
    BY DEF Inv
<1> QED
    BY InvInit, InvStep, <1>1, PTL DEF Spec
-----------------------------------------------------------------------------
(* Types *)

\* What Inv does not say of the types.
Types ==
    /\ iflag \in BOOLEAN
    /\ ticked \in BOOLEAN
    /\ dirty \in BOOLEAN
    /\ bsod \in BOOLEAN
    /\ inService \subseteq Irqs
    /\ keys \in Seq(Commands) /\ Len(keys) <= QueueRoom
    /\ typed \in 0 .. MaxTyped

LEMMA TypesStep == Inv /\ Types /\ [Next]_vars => Types'
<1> SUFFICES ASSUME Inv, Types, [Next]_vars PROVE Types'
    OBVIOUS
<1> USE LoopAssumption DEF Types, Irqs, io
<1>0. Len(<<>>) <= QueueRoom
    OBVIOUS
<1>1. ASSUME Exception, UNCHANGED <<dirty, io>>,
             keys' \in Seq(Commands), Len(keys') <= QueueRoom
      PROVE  Types'
    BY <1>1 DEF Exception, Recover, Panic, AfterEoi
<1>2. CASE Poll
    <2>1. keys' \in Seq(Commands) /\ Len(keys') <= QueueRoom
        <3>1. CASE keys = <<>>
            BY <1>2, <3>1 DEF Poll
        <3>2. CASE keys # <<>>
            <4>1. keys' = Tail(keys)
                BY <1>2, <3>2 DEF Poll
            <4>2. keys' \in Seq(Commands) /\ Len(keys') = Len(keys) - 1
                BY <3>2, <4>1
            <4>3. Len(keys) \in Nat
                OBVIOUS
            <4> QED
                BY <4>2, <4>3
        <3> QED
            BY <3>1, <3>2
    <2>2. CASE keys = <<>>
        BY <1>2, <2>1, <2>2 DEF Poll, Goto
    <2>3. CASE keys # <<>>
        <3>1. Head(keys) \in {"plain", "panic", "halt"}
            BY <2>3, FirstKey DEF Inv
        <3>2. CASE Head(keys) = "plain"
            BY <1>2, <2>1, <2>3, <3>2 DEF Poll, Goto
        <3>3. CASE Head(keys) = "panic"
            <4>1. Exception /\ UNCHANGED <<dirty, io>>
                BY <1>2, <2>3, <3>3 DEF Poll
            <4> QED
                BY <1>1, <2>1, <4>1
        <3>4. CASE Head(keys) = "halt"
            <4>1. dirty' = FALSE /\ iflag' = FALSE /\ UNCHANGED <<inService, bsod, io>>
                BY <1>2, <2>3, <3>4 DEF Poll
            <4> QED
                BY <2>1, <4>1
        <3> QED
            BY <3>1, <3>2, <3>3, <3>4
    <2> QED
        BY <2>2, <2>3
<1>3. CASE Arm \/ Browser \/ Check \/ Draw \/ Disarm \/ Hlt
    BY <1>3 DEF Arm, Browser, Check, Draw, Disarm, Hlt, Goto
<1>4. CASE LoopFault \/ TimerFault
    BY <1>1, <1>4 DEF LoopFault, TimerFault
<1>5. CASE Interrupt
    BY <1>5 DEF Interrupt, Deliverable
<1>6. CASE KeyBody
    <2>1. Head(scan) \in Commands
        BY <1>6 DEF KeyBody, Inv, KeysShape
    <2>2. keys' \in Seq(Commands) /\ Len(keys') <= QueueRoom
        BY <1>6, <2>1 DEF KeyBody
    <2> QED
        BY <1>6, <2>2 DEF KeyBody
<1>7. CASE TimerBody \/ Eoi \/ Iret
    BY <1>7 DEF TimerBody, Eoi, Iret, AfterEoi
<1>8. CASE Tick \/ Type
    <2>1. CASE Tick
        BY <2>1 DEF Tick
    <2>2. CASE Type
        <3>1. typed' \in 0 .. MaxTyped
            BY <2>2 DEF Type
        <3> QED
            BY <2>2, <3>1 DEF Type
    <2> QED
        BY <1>8, <2>1, <2>2
<1>9. CASE UNCHANGED vars
    BY <1>9 DEF vars
<1> QED
    BY <1>2, <1>3, <1>4, <1>5, <1>6, <1>7, <1>8, <1>9 DEF Next, Main, Serve

\* Every variable of the loop keeps its type; the key queue its room.
THEOREM LoopKeepsTypes == Spec => []TypeOK
<1>1. Init => Types
    <2> SUFFICES ASSUME Init PROVE Types
        OBVIOUS
    <2>1. keys \in Seq(Commands) /\ Len(keys) = 0
        BY DEF Init
    <2>2. 0 \in 0 .. MaxTyped /\ 0 <= QueueRoom
        BY LoopAssumption
    <2>3. /\ {iflag, ticked, dirty, bsod} \subseteq BOOLEAN
          /\ inService \subseteq Irqs
          /\ typed = 0
        BY DEF Init
    <2> QED
        BY <2>1, <2>2, <2>3 DEF Types
<1>2. Inv /\ Types => TypeOK
    BY DEF Inv, Types, HandlerShape, LoopShape, KeysShape, TypeOK
<1> QED
    BY InvInit, InvStep, TypesStep, <1>1, <1>2, PTL DEF Spec
=============================================================================
