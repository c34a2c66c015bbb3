------------------------------ MODULE KeyQueue ------------------------------
(***************************************************************************)
(* The key queue of kernel/drivers/keyboard.c.  keyboard_handle_irq puts   *)
(* keys in from the interrupt handler; keyboard_poll_event takes them out  *)
(* in the main loop, and the interrupt may come between any two of its     *)
(* accesses to the queue.  The handler itself runs with interrupts off.    *)
(***************************************************************************)
EXTENDS Integers, Sequences

CONSTANTS Key,       \* the key codes the decoder can produce
          NoKey,     \* an empty slot (the array starts zeroed)
          QueueSize  \* KEY_QUEUE_SIZE, 32

ASSUME QueueAssumption ==
    /\ QueueSize \in Nat /\ QueueSize > 1
    /\ NoKey \notin Key

VARIABLES slots,   \* key_queue
          head,    \* key_queue_head, written by the interrupt handler only
          tail,    \* key_queue_tail, written by the main loop only
          pc,      \* where keyboard_poll_event is
          key      \* its local: the key it has read

vars == <<slots, head, tail, pc, key>>

Slot == 0 .. QueueSize - 1

\* (index + 1u) % KEY_QUEUE_SIZE
Next1(i) == (i + 1) % QueueSize

\* Mutant: queues over the oldest key.
EnqueueAlways(k) ==
    /\ slots' = [slots EXCEPT ![head] = k]
    /\ head' = Next1(head)
    /\ UNCHANGED <<tail, pc, key>>

\* The end of keyboard_handle_irq: the decoded key is queued, or dropped when
\* advancing the head would meet the tail.
Enqueue(k) ==
    /\ Next1(head) # tail
    /\ slots' = [slots EXCEPT ![head] = k]
    /\ head' = Next1(head)
    /\ UNCHANGED <<tail, pc, key>>

Drop(k) == Next1(head) = tail /\ UNCHANGED vars

KeyIrq == \E k \in Key : Enqueue(k) \/ Drop(k)

\* Mutant: forgets that the head wraps.
PollSeesUnwrapped ==
    /\ pc = "idle"
    /\ tail < head
    /\ pc' = "read"
    /\ UNCHANGED <<slots, head, tail, key>>

\* keyboard_poll_event: the queue is not empty.
PollSees ==
    /\ pc = "idle"
    /\ tail # head
    /\ pc' = "read"
    /\ UNCHANGED <<slots, head, tail, key>>

PollReads ==
    /\ pc = "read"
    /\ key' = slots[tail]
    /\ pc' = "advance"
    /\ UNCHANGED <<slots, head, tail>>

PollAdvances ==
    /\ pc = "advance"
    /\ tail' = Next1(tail)
    /\ pc' = "handle"
    /\ UNCHANGED <<slots, head, key>>

\* shell_keyboard_event(key, 1) has run.
PollHandles ==
    /\ pc = "handle"
    /\ pc' = "idle"
    /\ key' = NoKey
    /\ UNCHANGED <<slots, head, tail>>

Poll == PollSees \/ PollReads \/ PollAdvances \/ PollHandles

Init ==
    /\ slots = [i \in Slot |-> NoKey]
    /\ head = 0
    /\ tail = 0
    /\ pc = "idle"
    /\ key = NoKey

Next == KeyIrq \/ Poll

Spec == Init /\ [][Next]_vars

\* The main loop calls keyboard_poll_event on every turn.
FairSpec == Spec /\ WF_vars(Poll)

-----------------------------------------------------------------------------
\* Slots, cursors and the key in hand have their types.
TypeOK ==
    /\ slots \in [Slot -> Key \cup {NoKey}]
    /\ head \in Slot
    /\ tail \in Slot
    /\ pc \in {"idle", "read", "advance", "handle"}
    /\ key \in Key \cup {NoKey}

\* The number of keys waiting.
Waiting == IF tail <= head THEN head - tail ELSE head + QueueSize - tail

\* The i-th key waiting, from the tail.
SlotAt(i) == IF tail + i < QueueSize THEN tail + i ELSE tail + i - QueueSize

\* The key being handed over stays in its slot until the tail has moved past it: the
\* interrupt handler never writes a slot that keyboard_poll_event is still reading.
SlotIsStable ==
    /\ pc \in {"read", "advance"} => tail # head
    /\ pc = "advance" => (key = slots[tail] /\ key \in Key)
    /\ pc = "handle" => key \in Key
    /\ \A i \in 0 .. Waiting - 1 : slots[SlotAt(i)] \in Key

Fifo == INSTANCE BoundedFifo WITH
    Capacity <- QueueSize - 1,
    fifo <- [i \in 1 .. Waiting |-> slots[SlotAt(i - 1)]],
    out <- IF pc = "handle" THEN <<key>> ELSE <<>>

\* The ring with its two unlocked cursors is a FIFO of 31 keys: whatever the interleaving,
\* no key is lost once queued, handled twice or handled out of order.
ImplementsFifo == Fifo!FifoSpec

\* Keys do not stay in the queue: it drains, or keys keep being handled.
KeysGetHandled == (tail # head) ~> (pc = "handle")
=============================================================================
