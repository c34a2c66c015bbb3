------------------------------ MODULE Keyboard ------------------------------
(***************************************************************************)
(* The scancode decoder of kernel/drivers/keyboard.c: keyboard_handle_irq  *)
(* up to the key it queues (the queue is KeyQueue).  The keyboard sends    *)
(* set 1 codes, some of them behind an 0xE0 byte; each byte is an          *)
(* interrupt of its own, and the decoder keeps what it has to remember     *)
(* from one byte to the next in g_extended, g_ctrl, g_shift and g_caps.    *)
(***************************************************************************)
EXTENDS Integers, Sequences

CONSTANTS
    PhysKeys,   \* the keys pressed: records [code, ext], ext for an 0xE0 prefix
    PlainMap,   \* g_keymap: code -> key, a record [kind, name]
    ExtMap,     \* g_ext_keymap
    MaxPresses  \* bound: presses of keys

VARIABLES
    held,     \* the keys held down
    capsOn,   \* how often caps lock was pressed is odd
    wire,     \* bytes on their way to port 0x60
    extended, ctrl, shift, caps,   \* g_extended, g_ctrl, g_shift, g_caps
    got,      \* the keys decoded
    meant,    \* the keys a keyboard's legends promise for what was pressed
    presses   \* for the bound

decoder == <<extended, ctrl, shift, caps, got>>
vars == <<held, capsOn, wire, decoder, meant, presses>>

E0 == 224
CtrlCode == 29
ShiftCodes == {42, 54}
CapsCode == 58
\* A release is the code with bit 7 set.
Up(code) == code + 128

\* Keys that are modifiers, whichever side they are on.
IsModifier(k) == k.code \in {CtrlCode, CapsCode} \cup ShiftCodes
CtrlHeld == \E k \in held : k.code = CtrlCode
ShiftHeld == \E k \in held : k.code \in ShiftCodes

\* A key with its modifiers, as keyboard_handle_irq combines them.
Modified(key, c, s, l) ==
    LET mod == CASE key.kind = "letter" /\ c -> "ctrl"
                 [] key.kind = "letter" /\ ~c /\ s # l -> "upper"
                 [] key.kind = "symbol" /\ s -> "shifted"
                 [] OTHER -> "plain"
    IN  [name |-> key.name, mod |-> mod]

-----------------------------------------------------------------------------
(* The keyboard *)

Bytes(k, code) == IF k.ext THEN <<E0, code>> ELSE <<code>>

\* What the key just pressed means, with the modifiers held at that moment.
Legend(k) ==
    IF IsModifier(k) THEN <<>>
    ELSE IF k.ext THEN <<[name |-> ExtMap[k.code].name, mod |-> "plain"]>>
    ELSE <<Modified(PlainMap[k.code], CtrlHeld, ShiftHeld, capsOn)>>

\* Pressed, or repeated while it is held.
Press(k) ==
    /\ presses < MaxPresses
    /\ presses' = presses + 1
    /\ held' = held \cup {k}
    /\ wire' = wire \o Bytes(k, k.code)
    /\ meant' = meant \o Legend(k)
    /\ capsOn' = (capsOn # (k.code = CapsCode))
    /\ UNCHANGED decoder

Release(k) ==
    /\ k \in held
    /\ held' = held \ {k}
    /\ wire' = wire \o Bytes(k, Up(k.code))
    /\ UNCHANGED <<capsOn, meant, presses, decoder>>

-----------------------------------------------------------------------------
(* keyboard_handle_irq, one early return after the other *)

PrefixByte(b) == b = E0 /\ extended' = TRUE /\ UNCHANGED <<ctrl, shift, caps, got>>

CtrlByte(b) ==
    /\ b \in {CtrlCode, Up(CtrlCode)}
    /\ ctrl' = (b = CtrlCode)
    /\ UNCHANGED <<extended, shift, caps, got>>

\* Mutant: only the left Shift key is seen going up.
ShiftByteLeft(b) ==
    /\ b \in ShiftCodes \cup {Up(c) : c \in ShiftCodes}
    /\ shift' = (b # Up(42))
    /\ UNCHANGED <<extended, ctrl, caps, got>>

ShiftByte(b) ==
    /\ b \in ShiftCodes \cup {Up(c) : c \in ShiftCodes}
    /\ shift' = (b \in ShiftCodes)
    /\ UNCHANGED <<extended, ctrl, caps, got>>

CapsByte(b) == b = CapsCode /\ caps' = ~caps /\ UNCHANGED <<extended, ctrl, shift, got>>

\* The codes the tests above have returned on.
Consumed == {E0, CtrlCode, Up(CtrlCode), CapsCode} \cup ShiftCodes \cup {Up(c) : c \in ShiftCodes}

ReleaseByte(b) ==
    /\ b \notin Consumed
    /\ b >= 128
    /\ extended' = FALSE
    /\ UNCHANGED <<ctrl, shift, caps, got>>

\* Mutant: a prefix stays in force after its key.
KeyBytePrefixed(b) ==
    /\ b \notin Consumed
    /\ b < 128
    /\ got' = IF extended
              THEN IF b \in DOMAIN ExtMap
                   THEN Append(got, [name |-> ExtMap[b].name, mod |-> "plain"]) ELSE got
              ELSE IF b \in DOMAIN PlainMap
                   THEN Append(got, Modified(PlainMap[b], ctrl, shift, caps)) ELSE got
    /\ UNCHANGED <<extended, ctrl, shift, caps>>

\* A key of the map in use; one the map does not have is dropped.
KeyByte(b) ==
    /\ b \notin Consumed
    /\ b < 128
    /\ extended' = FALSE
    /\ got' = IF extended
              THEN IF b \in DOMAIN ExtMap
                   THEN Append(got, [name |-> ExtMap[b].name, mod |-> "plain"]) ELSE got
              ELSE IF b \in DOMAIN PlainMap
                   THEN Append(got, Modified(PlainMap[b], ctrl, shift, caps)) ELSE got
    /\ UNCHANGED <<ctrl, shift, caps>>

Irq ==
    /\ wire # <<>>
    /\ wire' = Tail(wire)
    /\ LET b == Head(wire)
       IN  PrefixByte(b) \/ CtrlByte(b) \/ ShiftByte(b) \/ CapsByte(b) \/ ReleaseByte(b) \/ KeyByte(b)
    /\ UNCHANGED <<held, capsOn, meant, presses>>

-----------------------------------------------------------------------------
Init ==
    /\ held = {}
    /\ capsOn = FALSE
    /\ wire = <<>>
    /\ extended = FALSE
    /\ ctrl = FALSE
    /\ shift = FALSE
    /\ caps = FALSE
    /\ got = <<>>
    /\ meant = <<>>
    /\ presses = 0

Next == (\E k \in PhysKeys : Press(k) \/ Release(k)) \/ Irq

Spec == Init /\ [][Next]_vars
-----------------------------------------------------------------------------
(* Properties *)

\* The keys it may decode.
Keys == [name : {PlainMap[c].name : c \in DOMAIN PlainMap} \cup {ExtMap[c].name : c \in DOMAIN ExtMap},
         mod : {"plain", "ctrl", "upper", "shifted"}]

\* A keyboard the decoder can follow: every key is in its map and no release reads as a prefix;
\* there is one key of each modifier (two would share a flag, which the first release clears),
\* and none has a prefix (the tests on modifiers return before the prefix is cleared).
OneOfEach ==
    /\ \A k \in PhysKeys :
          IF IsModifier(k) THEN ~k.ext
          ELSE /\ k.code \in IF k.ext THEN DOMAIN ExtMap ELSE DOMAIN PlainMap
               /\ Up(k.code) # E0
    /\ \A j, k \in PhysKeys :
          (j.code = k.code \/ {j.code, k.code} \subseteq ShiftCodes) /\ IsModifier(j) => j = k

\* Once every byte has come, the keys decoded are the keys pressed, each with the
\* modifiers held when it was pressed, however presses and releases overlapped
\* ("Ctrl+S save  Ctrl+Q quit", editor.c).
DecodesWhatIsTyped == wire = <<>> => got = meant

\* No modifier sticks: with every key up, Ctrl and Shift are off and caps lock is as the
\* user left it, in whatever order keys were pressed, repeated and released.
ModifiersAreReleased ==
    (wire = <<>> /\ held = {}) => (~ctrl /\ ~shift /\ caps = capsOn)
=============================================================================
