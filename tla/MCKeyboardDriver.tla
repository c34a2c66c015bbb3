-------------------------- MODULE MCKeyboardDriver --------------------------
(* A small keyboard for KeyboardDriver: a letter, a digit, an arrow and the modifiers. *)
EXTENDS KeyboardDriver

Letter == [code |-> 31, ext |-> FALSE]        \* S
Digit == [code |-> 2, ext |-> FALSE]          \* 1
Arrow == [code |-> 72, ext |-> TRUE]          \* up
LeftCtrl == [code |-> 29, ext |-> FALSE]
RightShift == [code |-> 54, ext |-> FALSE]
CapsLock == [code |-> 58, ext |-> FALSE]

\* A keyboard with one key of each modifier.
MCOneOfEach == {Letter, Digit, Arrow, LeftCtrl, RightShift, CapsLock}

MCPlainMap == [c \in {2, 31} |-> IF c = 31 THEN [kind |-> "letter", name |-> "s"]
                                           ELSE [kind |-> "symbol", name |-> "1"]]
MCExtMap == [c \in {72} |-> [kind |-> "other", name |-> "up"]]

ASSUME InstanceAssumption == Dec!OneOfEach

\* What these keys decode to.
MCKey == [name : {"s", "1", "up"}, mod : {"plain", "ctrl", "upper", "shifted"}]
=============================================================================
