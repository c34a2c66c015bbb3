--------------------------- MODULE KeyboardDriver ---------------------------
(***************************************************************************)
(* kernel/drivers/keyboard.c as a whole: the decoder (Keyboard) and the    *)
(* queue (KeyQueue) in one interrupt handler, between a keyboard that may  *)
(* send the next byte at any time and the main loop that takes the keys    *)
(* out.  One interrupt decodes one byte and queues, or drops, the key that *)
(* byte completes.                                                         *)
(***************************************************************************)
EXTENDS KeyQueue, SequencesExt

CONSTANTS PhysKeys, PlainMap, ExtMap, MaxPresses  \* see Keyboard

VARIABLES
    held, capsOn, wire, extended, ctrl, shift, caps, got, meant, presses,  \* see Keyboard
    handled,  \* history: the keys the main loop has handled
    lost      \* history: the queue was full for a key

Dec == INSTANCE Keyboard

\* The codes of the key maps are key codes; a scancode leaves bit 7 to the release.
ASSUME DriverAssumption ==
    /\ Dec!Keys \subseteq Key
    /\ \A k \in PhysKeys : k.code \in 0 .. 127 /\ k.ext \in BOOLEAN

decoding == <<held, capsOn, wire, extended, ctrl, shift, caps, got, meant, presses>>
driver == <<vars, decoding, handled, lost>>

\* A key goes down, repeats or comes up; its bytes are on their way.
Typing ==
    /\ \E k \in PhysKeys : Dec!Press(k) \/ Dec!Release(k)
    /\ UNCHANGED <<vars, handled, lost>>

\* Bytes that complete no key.
NoKeyIrq == Dec!Irq /\ got' = got /\ UNCHANGED <<vars, handled, lost>>

QueuedIrq ==
    /\ Dec!Irq /\ got' # got
    /\ Enqueue(Last(got'))
    /\ UNCHANGED <<handled, lost>>

DroppedIrq ==
    /\ Dec!Irq /\ got' # got
    /\ Drop(Last(got'))
    /\ lost' = TRUE
    /\ UNCHANGED handled

\* keyboard_handle_irq
HandleIrq == NoKeyIrq \/ QueuedIrq \/ DroppedIrq

\* keyboard_poll_event, in the main loop.
PollEvent ==
    /\ Poll
    /\ handled' = IF pc = "handle" THEN Append(handled, key) ELSE handled
    /\ UNCHANGED <<decoding, lost>>

DriverInit == Init /\ Dec!Init /\ handled = <<>> /\ lost = FALSE

DriverNext == Typing \/ HandleIrq \/ PollEvent

DriverSpec == DriverInit /\ [][DriverNext]_driver

\* The main loop calls keyboard_poll_event on every turn.
FairDriverSpec == DriverSpec /\ WF_driver(PollEvent)

-----------------------------------------------------------------------------
(* Properties; ImplementsFifo and KeysGetHandled are those of KeyQueue *)

\* Once every byte has come, the keys decoded are the keys pressed, each with the modifiers held
\* when it was pressed, however presses and releases overlapped ("Ctrl+S save  Ctrl+Q quit",
\* editor.c).
DecodesWhatIsTyped == Dec!DecodesWhatIsTyped

\* No modifier sticks: with every key up, Ctrl and Shift are off and caps lock is as the user left
\* it, in whatever order keys were pressed, repeated and released.
ModifiersAreReleased == Dec!ModifiersAreReleased

\* From the fingers to the shell: the keys handled, the one in hand and those waiting are what was
\* typed, in that order, unless the queue has been full; even then nothing is handled that was not
\* decoded.
HandlesWhatIsTyped ==
    LET inHand == IF pc = "handle" THEN <<key>> ELSE <<>>
        waits == [i \in 1 .. Waiting |-> slots[SlotAt(i - 1)]]
        all == handled \o inHand \o waits
    IN  IF lost THEN Len(all) < Len(got) /\ Range(all) \subseteq Range(got)
        ELSE all = got /\ (wire = <<>> => all = meant)
=============================================================================
