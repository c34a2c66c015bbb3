------------------------ MODULE KeyboardDriverProofs ------------------------
(***************************************************************************)
(* Theorems about KeyQueue, for a queue of any size and any set of keys,   *)
(* and about KeyboardDriver, in which the decoder fills that queue, for    *)
(* any keyboard and any key maps.                                          *)
(***************************************************************************)
EXTENDS KeyboardDriver, SequenceTheorems, TLAPS

\* The inductive invariant: types, and the keys from tail to head are all there.
IInv == TypeOK /\ SlotIsStable

Contents == [i \in 1 .. Waiting |-> slots[SlotAt(i - 1)]]
InHand == IF pc = "handle" THEN <<key>> ELSE <<>>

-----------------------------------------------------------------------------
(* Arithmetic of the ring *)

\* The % of the code is a wrap to zero at the end of the array.
LEMMA NextWraps ==
    ASSUME NEW i \in Slot
    PROVE  /\ Next1(i) = IF i + 1 = QueueSize THEN 0 ELSE i + 1
           /\ Next1(i) \in Slot
  <1>1. i \in Nat /\ QueueSize \in Nat /\ QueueSize > 1 /\ i + 1 <= QueueSize
    BY QueueAssumption DEF Slot
  <1>2. CASE i + 1 = QueueSize
    BY <1>1, <1>2 DEF Next1, Slot
  <1>3. CASE i + 1 < QueueSize
    <2>1. (i + 1) % QueueSize = i + 1
      BY <1>1, <1>3
    <2> QED
      BY <1>1, <1>3, <2>1 DEF Next1, Slot
  <1> QED
    BY <1>1, <1>2, <1>3

LEMMA RingFacts ==
    ASSUME head \in Slot, tail \in Slot
    PROVE  /\ Waiting \in 0 .. QueueSize - 1
           /\ Waiting = 0 <=> head = tail
           /\ Waiting < QueueSize - 1 <=> Next1(head) # tail
           /\ \A i \in 0 .. QueueSize - 1 : SlotAt(i) \in Slot
           /\ SlotAt(0) = tail
           /\ SlotAt(Waiting) = head
           /\ \A i \in 0 .. Waiting - 1 : SlotAt(i) # head
  BY NextWraps, QueueAssumption DEF Slot, Waiting, SlotAt

-----------------------------------------------------------------------------
LEMMA InitIInv == Init => IInv
  BY QueueAssumption DEF Init, IInv, TypeOK, SlotIsStable, Slot, Waiting

\* A put fills the slot at head, which no waiting key occupies.
LEMMA EnqueueStep ==
    ASSUME IInv, NEW k \in Key, Enqueue(k)
    PROVE  IInv' /\ Waiting' = Waiting + 1 /\ Waiting + 1 <= QueueSize - 1
           /\ Contents' = Append(Contents, k)
  <1> USE DEF IInv, TypeOK
  <1>1. head \in Slot /\ tail \in Slot /\ tail' = tail /\ head' = Next1(head)
    BY DEF Enqueue
  <1>2. TypeOK'
    BY <1>1, NextWraps DEF Enqueue
  <1>3. Waiting' = Waiting + 1 /\ Waiting < QueueSize - 1 /\ Waiting \in Nat
    <2>1. head' = IF head + 1 = QueueSize THEN 0 ELSE head + 1
      BY <1>1, NextWraps
    <2>2. head' # tail
      BY <1>1 DEF Enqueue
    <2> QED
      BY <1>1, <2>1, <2>2, QueueAssumption DEF Waiting, Slot
  <1>4. \A i \in Int : SlotAt(i)' = SlotAt(i)
    BY <1>1 DEF SlotAt
  <1>5. \A i \in 0 .. Waiting - 1 : SlotAt(i) \in Slot /\ slots'[SlotAt(i)] = slots[SlotAt(i)]
    BY <1>1, <1>3, RingFacts, QueueAssumption DEF Enqueue
  <1>6. slots'[SlotAt(Waiting)] = k
    BY <1>1, RingFacts DEF Enqueue
  <1>7. tail' # head'
    BY <1>1 DEF Enqueue
  <1>8. slots'[tail] = slots[tail] \/ tail = head
    BY <1>1 DEF Enqueue
  <1>9. SlotIsStable'
    <2>1. \A i \in 0 .. Waiting' - 1 : slots'[SlotAt(i)'] \in Key
      <3> SUFFICES ASSUME NEW i \in 0 .. Waiting' - 1 PROVE slots'[SlotAt(i)'] \in Key
        OBVIOUS
      <3>1. i \in Int /\ (i = Waiting \/ i \in 0 .. Waiting - 1)
        BY <1>3
      <3> QED
        BY <3>1, <1>4, <1>5, <1>6 DEF SlotIsStable
    <2> QED
      BY <1>1, <1>7, <1>8, <2>1 DEF SlotIsStable, Enqueue
  <1>10. Contents' = Append(Contents, k)
    <2>1. Contents \in Seq(Key) /\ Len(Contents) = Waiting
      <3>1. \A i \in 1 .. Waiting : slots[SlotAt(i - 1)] \in Key
        BY <1>3 DEF SlotIsStable
      <3>2. Contents \in [1 .. Waiting -> Key]
        BY <3>1 DEF Contents
      <3> QED
        BY <1>3, <3>2
    <2>2. \A i \in 1 .. Waiting + 1 : slots'[SlotAt(i - 1)'] = Append(Contents, k)[i]
      <3> SUFFICES ASSUME NEW i \in 1 .. Waiting + 1
                   PROVE  slots'[SlotAt(i - 1)'] = Append(Contents, k)[i]
        OBVIOUS
      <3>1. CASE i = Waiting + 1
        <4>1. SlotAt(i - 1)' = SlotAt(Waiting)
          BY <3>1, <1>3, <1>4
        <4>2. Append(Contents, k)[i] = k
          BY <3>1, <2>1, AppendProperties
        <4> QED
          BY <4>1, <4>2, <1>6
      <3>2. CASE i \in 1 .. Waiting
        <4>1. i - 1 \in 0 .. Waiting - 1 /\ i - 1 \in Int
          BY <3>2, <1>3
        <4>2. Contents[i] = slots[SlotAt(i - 1)]
          BY <3>2 DEF Contents
        <4>3. Append(Contents, k)[i] = Contents[i]
          BY <3>2, <2>1, AppendProperties
        <4> QED
          BY <4>1, <4>2, <4>3, <1>4, <1>5
      <3>3. i = Waiting + 1 \/ i \in 1 .. Waiting
        BY <1>3
      <3> QED
        BY <3>1, <3>2, <3>3
    <2>3. Append(Contents, k) = [i \in 1 .. Waiting + 1 |-> Append(Contents, k)[i]]
      <3>1. Append(Contents, k) \in Seq(Key) /\ Len(Append(Contents, k)) = Waiting + 1
        BY <2>1, AppendProperties
      <3>2. Append(Contents, k) \in [1 .. Waiting + 1 -> Key]
        BY <3>1, LenProperties
      <3> QED
        BY <3>2
    <2>4. Contents' = [i \in 1 .. Waiting + 1 |-> slots'[SlotAt(i - 1)']]
      BY <1>3 DEF Contents
    <2> QED
      BY <2>2, <2>3, <2>4
  <1> QED
    BY <1>2, <1>3, <1>9, <1>10, QueueAssumption

\* A take removes the key at tail, which is the one in hand.
LEMMA AdvanceStep ==
    ASSUME IInv, PollAdvances
    PROVE  IInv' /\ Waiting > 0 /\ Contents' = Tail(Contents) /\ key' = Head(Contents)
  <1> USE DEF IInv, TypeOK
  <1>1. head \in Slot /\ tail \in Slot /\ head' = head /\ tail' = Next1(tail) /\ tail # head
    BY DEF PollAdvances, SlotIsStable
  <1>2. TypeOK'
    BY <1>1, NextWraps DEF PollAdvances
  <1>0. tail' = IF tail + 1 = QueueSize THEN 0 ELSE tail + 1
    BY <1>1, NextWraps
  <1>3. Waiting' = Waiting - 1 /\ Waiting > 0 /\ Waiting \in Nat /\ Waiting < QueueSize
    BY <1>0, <1>1, QueueAssumption DEF Waiting, Slot
  <1>4. ASSUME NEW i \in 0 .. Waiting - 2 PROVE SlotAt(i)' = SlotAt(i + 1)
    BY <1>0, <1>1, <1>3, QueueAssumption DEF SlotAt, Slot
  <1>5. slots' = slots
    BY DEF PollAdvances
  <1>6. \A i \in 0 .. Waiting - 1 : slots[SlotAt(i)] \in Key
    BY DEF SlotIsStable
  <1>7. SlotIsStable'
    <2>1. ASSUME NEW i \in 0 .. Waiting' - 1 PROVE slots'[SlotAt(i)'] \in Key
      <3>1. i \in 0 .. Waiting - 2 /\ i + 1 \in 0 .. Waiting - 1
        BY <1>3
      <3> QED
        BY <3>1, <1>4, <1>5, <1>6
    <2> QED
      BY <2>1 DEF SlotIsStable, PollAdvances
  <1>8. Contents \in Seq(Key) /\ Len(Contents) = Waiting
    <2>1. \A i \in 1 .. Waiting : slots[SlotAt(i - 1)] \in Key
      BY <1>3, <1>6
    <2>2. Contents \in [1 .. Waiting -> Key]
      BY <2>1 DEF Contents
    <2> QED
      BY <1>3, <2>2
  <1>9. Head(Contents) = slots[tail]
    <2>1. Contents[1] = slots[SlotAt(0)]
      BY <1>3 DEF Contents
    <2> QED
      BY <2>1, <1>1, <1>3, <1>8, RingFacts
  <1>10. Contents' = Tail(Contents)
    <2>1. Tail(Contents) = [i \in 1 .. Waiting - 1 |-> Contents[i + 1]]
      <3>1. Contents # <<>>
        BY <1>3, <1>8, EmptySeq
      <3>2. /\ Tail(Contents) \in Seq(Key) /\ Len(Tail(Contents)) = Waiting - 1
            /\ \A i \in 1 .. Len(Tail(Contents)) : Tail(Contents)[i] = Contents[i + 1]
        BY <3>1, <1>8, HeadTailProperties
      <3>3. Tail(Contents) \in [1 .. Waiting - 1 -> Key]
        BY <3>2, LenProperties
      <3> QED
        BY <3>2, <3>3
    <2>2. ASSUME NEW i \in 1 .. Waiting - 1 PROVE slots'[SlotAt(i - 1)'] = Contents[i + 1]
      <3>1. i - 1 \in 0 .. Waiting - 2 /\ i + 1 \in 1 .. Waiting /\ (i - 1) + 1 = i /\ (i + 1) - 1 = i
        BY <1>3
      <3>2. Contents[i + 1] = slots[SlotAt(i)]
        BY <3>1 DEF Contents
      <3> QED
        BY <3>1, <3>2, <1>4, <1>5
    <2>3. Contents' = [i \in 1 .. Waiting - 1 |-> slots'[SlotAt(i - 1)']]
      BY <1>3 DEF Contents
    <2> QED
      BY <2>1, <2>2, <2>3
  <1> QED
    BY <1>2, <1>3, <1>7, <1>9, <1>10 DEF PollAdvances, SlotIsStable

\* The other steps leave the ring alone.
LEMMA LocalStep ==
    ASSUME IInv, PollSees \/ PollReads \/ PollHandles \/ UNCHANGED vars
    PROVE  IInv' /\ Contents' = Contents
  <1> USE DEF IInv, TypeOK
  <1>1. UNCHANGED <<slots, head, tail>>
    BY DEF PollSees, PollReads, PollHandles, vars
  <1>2. Contents' = Contents /\ Waiting' = Waiting /\ \A i \in Int : SlotAt(i)' = SlotAt(i)
    BY <1>1 DEF Contents, Waiting, SlotAt
  <1>3. pc = "read" => slots[tail] \in Key
    <2>1. pc = "read" => Waiting > 0 /\ Waiting \in Nat /\ SlotAt(0) = tail
      BY RingFacts DEF SlotIsStable
    <2> QED
      BY <2>1 DEF SlotIsStable
  <1>4. TypeOK'
    BY <1>1, <1>3 DEF PollSees, PollReads, PollHandles, vars
  <1>5. \A i \in 0 .. Waiting' - 1 : slots'[SlotAt(i)'] \in Key
    BY <1>1, <1>2 DEF SlotIsStable
  <1>6. SlotIsStable'
    BY <1>1, <1>3, <1>5 DEF SlotIsStable, PollSees, PollReads, PollHandles, vars
  <1> QED
    BY <1>2, <1>4, <1>6

LEMMA NextIInv == IInv /\ [Next]_vars => IInv'
  BY EnqueueStep, AdvanceStep, LocalStep DEF Next, KeyIrq, Poll, Drop

-----------------------------------------------------------------------------
\* The handler never overwrites the key the main loop is taking, at any queue size.
THEOREM SlotsStayStable == Spec => []SlotIsStable
  BY InitIInv, NextIInv, PTL DEF Spec, IInv

\* The ring implements a FIFO of QueueSize - 1 keys under every interleaving of the
\* keyboard interrupt with keyboard_poll_event.
THEOREM RingIsFifo == Spec => ImplementsFifo
  <1> DEFINE F == Fifo!FifoInit
  <1>1. Init => Fifo!FifoInit
    BY QueueAssumption DEF Init, Fifo!FifoInit, Waiting
  <1>2. IInv /\ [Next]_vars => [Fifo!FifoNext]_(Fifo!fvars)
    <2> SUFFICES ASSUME IInv, [Next]_vars PROVE [Fifo!FifoNext]_(Fifo!fvars)
      OBVIOUS
    <2>0. head \in Slot /\ tail \in Slot /\ Waiting \in Nat
      BY RingFacts DEF IInv, TypeOK
    <2>1. ASSUME NEW k \in Key, Enqueue(k) PROVE Fifo!Put
      <3>1. Contents' = Append(Contents, k) /\ Waiting + 1 <= QueueSize - 1
        BY <2>1, EnqueueStep
      <3>2. Len(Contents) = Waiting
        BY <2>0 DEF Contents
      <3>3. InHand' = InHand
        BY <2>1 DEF InHand, Enqueue
      <3>4. Len(Contents) < QueueSize - 1
        BY <3>1, <3>2, <2>0, QueueAssumption
      <3>5. \E j \in Key : Contents' = Append(Contents, j)
        BY <3>1
      <3> QED
        BY <3>3, <3>4, <3>5 DEF Fifo!Put, Contents, InHand
    <2>2. CASE PollAdvances
      <3>1. Waiting > 0 /\ Contents' = Tail(Contents) /\ key' = Head(Contents)
        BY <2>2, AdvanceStep
      <3>2. Contents # <<>>
        BY <3>1, <2>0 DEF Contents
      <3>3. InHand = <<>> /\ InHand' = <<Head(Contents)>>
        BY <2>2, <3>1 DEF InHand, PollAdvances
      <3> QED
        BY <3>1, <3>2, <3>3 DEF Fifo!FifoNext, Fifo!Take, Contents, InHand
    <2>3. CASE PollHandles
      <3>1. Contents' = Contents
        BY <2>3, LocalStep
      <3> QED
        BY <2>3, <3>1 DEF Fifo!FifoNext, Fifo!Handled, Contents, InHand, PollHandles
    <2>4. CASE PollSees \/ PollReads \/ UNCHANGED vars
      <3>1. Contents' = Contents
        BY <2>4, LocalStep
      <3>2. InHand' = InHand
        BY <2>4 DEF InHand, PollSees, PollReads, vars
      <3> QED
        BY <3>1, <3>2 DEF Fifo!fvars, Contents, InHand
    <2> QED
      BY <2>1, <2>2, <2>3, <2>4 DEF Next, KeyIrq, Poll, Drop, Fifo!FifoNext
  <1> QED
    BY <1>1, <1>2, InitIInv, NextIInv, PTL DEF Spec, ImplementsFifo, Fifo!FifoSpec

-----------------------------------------------------------------------------
(* The decoder in front of the ring *)

\* A step of the decoder either completes no key or puts a key of the key maps behind those decoded.
LEMMA IrqDecodes ==
    ASSUME Dec!Irq
    PROVE  got' = got \/ \E k \in Dec!Keys : got' = Append(got, k)
  <1> DEFINE b == Head(wire)
  <1>1. CASE Dec!KeyByte(b)
    <2>1. ASSUME b \in DOMAIN ExtMap
          PROVE  [name |-> ExtMap[b].name, mod |-> "plain"] \in Dec!Keys
      BY <2>1 DEF Dec!Keys
    <2>2. ASSUME b \in DOMAIN PlainMap
          PROVE  Dec!Modified(PlainMap[b], ctrl, shift, caps) \in Dec!Keys
      <3> DEFINE m == Dec!Modified(PlainMap[b], ctrl, shift, caps)
      <3>1. \E mod \in {"plain", "ctrl", "upper", "shifted"} : m = [name |-> PlainMap[b].name, mod |-> mod]
        BY DEF Dec!Modified
      <3>2. PlainMap[b].name \in {PlainMap[c].name : c \in DOMAIN PlainMap}
        BY <2>2
      <3> HIDE DEF m
      <3>3. m \in Dec!Keys
        BY <3>1, <3>2 DEF Dec!Keys
      <3> QED
        BY <3>3 DEF m
    <2> QED
      BY <1>1, <2>1, <2>2 DEF Dec!KeyByte
  <1>2. CASE ~Dec!KeyByte(b)
    BY <1>2 DEF Dec!Irq, Dec!PrefixByte, Dec!CtrlByte, Dec!ShiftByte, Dec!CapsByte, Dec!ReleaseByte
  <1> QED
    BY <1>1, <1>2

\* What has been decoded are keys.
DecInv == got \in Seq(Key)

LEMMA DecInit == DriverInit => DecInv
  BY DEF DriverInit, Dec!Init, DecInv

LEMMA DecStep == DecInv /\ [DriverNext]_driver => DecInv'
  <1> SUFFICES ASSUME DecInv, [DriverNext]_driver PROVE DecInv'
    OBVIOUS
  <1>1. CASE HandleIrq
    <2>1. Dec!Irq
      BY <1>1 DEF HandleIrq, NoKeyIrq, QueuedIrq, DroppedIrq
    <2> QED
      BY <2>1, IrqDecodes, AppendProperties, DriverAssumption DEF DecInv
  <1>2. CASE Typing \/ PollEvent \/ UNCHANGED driver
    BY <1>2 DEF Typing, PollEvent, driver, decoding, Dec!Press, Dec!Release, Dec!decoder, DecInv
  <1> QED
    BY <1>1, <1>2 DEF DriverNext

\* The interrupt puts the key just decoded into the queue.
LEMMA IrqQueues ==
    ASSUME DecInv, Dec!Irq, got' # got
    PROVE  Last(got') \in Key /\ got' = Append(got, Last(got'))
  <1>1. PICK k \in Key : got' = Append(got, k)
    BY IrqDecodes, DriverAssumption
  <1>2. Last(got') = k
    <2>1. got' \in Seq(Key) /\ Len(got') = Len(got) + 1 /\ got'[Len(got) + 1] = k
      BY <1>1, AppendProperties DEF DecInv
    <2> QED
      BY <2>1 DEF Last
  <1> QED
    BY <1>1, <1>2

\* Every step of the driver is one of the queue or leaves it alone.
LEMMA DriverStepsQueue == DecInv /\ [DriverNext]_driver => [Next]_vars
  <1> SUFFICES ASSUME DecInv, [DriverNext]_driver PROVE [Next]_vars
    OBVIOUS
  <1>1. CASE QueuedIrq
    <2>1. Last(got') \in Key
      BY <1>1, IrqQueues DEF QueuedIrq
    <2> QED
      BY <1>1, <2>1 DEF QueuedIrq, Next, KeyIrq
  <1>2. CASE DroppedIrq
    BY <1>2 DEF DroppedIrq, Drop
  <1>3. CASE PollEvent
    BY <1>3 DEF PollEvent, Next
  <1>4. CASE Typing \/ NoKeyIrq \/ UNCHANGED driver
    BY <1>4 DEF Typing, NoKeyIrq, driver, vars
  <1> QED
    BY <1>1, <1>2, <1>3, <1>4 DEF DriverNext, HandleIrq

\* The driver is a keyboard queue: what has been proved of KeyQueue, for any interrupts, holds with
\* the decoder in front of it.
THEOREM DriverIsQueue == DriverSpec => Spec
  <1>1. DriverInit => Init
    BY DEF DriverInit
  <1> QED
    BY <1>1, DecInit, DecStep, DriverStepsQueue, PTL DEF DriverSpec, Spec

-----------------------------------------------------------------------------
(* From the decoder to the shell *)

LEMMA RangeOfAppend ==
    ASSUME NEW S, NEW s \in Seq(S), NEW e \in S
    PROVE  Range(Append(s, e)) = Range(s) \cup {e}
  <1> DEFINE t == Append(s, e)
  <1>1. /\ t \in Seq(S) /\ Len(t) = Len(s) + 1
        /\ \A i \in 1 .. Len(s) : t[i] = s[i]
        /\ t[Len(s) + 1] = e
    BY AppendProperties
  <1>2. DOMAIN t = 1 .. Len(t) /\ DOMAIN s = 1 .. Len(s) /\ Len(s) \in Nat
    BY <1>1, LenProperties
  <1> HIDE DEF t
  <1>3. \A i \in DOMAIN t : i \in DOMAIN s \/ i = Len(s) + 1
    BY <1>1, <1>2
  <1>4. DOMAIN s \subseteq DOMAIN t /\ Len(s) + 1 \in DOMAIN t
    BY <1>1, <1>2
  <1>5. Range(t) = Range(s) \cup {e}
    BY <1>1, <1>2, <1>3, <1>4 DEF Range
  <1> QED
    BY <1>5 DEF t

\* The keys taken out of the queue and those still in it.
All == handled \o InHand \o Contents

Path ==
    /\ handled \in Seq(Key)
    /\ IF lost THEN Len(All) < Len(got) /\ Range(All) \subseteq Range(got) ELSE All = got

LEMMA Parts ==
    ASSUME IInv, handled \in Seq(Key)
    PROVE  /\ InHand \in Seq(Key) /\ Contents \in Seq(Key)
           /\ handled \o InHand \in Seq(Key) /\ All \in Seq(Key)
  <1>1. Waiting \in Nat
    BY RingFacts DEF IInv, TypeOK
  <1>2. \A i \in 1 .. Waiting : slots[SlotAt(i - 1)] \in Key
    BY <1>1 DEF IInv, SlotIsStable
  <1>3. Contents \in [1 .. Waiting -> Key]
    BY <1>2 DEF Contents
  <1>4. Contents \in Seq(Key)
    BY <1>1, <1>3
  <1>5. InHand \in Seq(Key)
    BY DEF InHand, IInv, SlotIsStable
  <1>6. handled \o InHand \in Seq(Key)
    BY <1>5, ConcatProperties
  <1>7. All \in Seq(Key)
    BY <1>4, <1>6, ConcatProperties DEF All
  <1> QED
    BY <1>4, <1>5, <1>6, <1>7

\* Polling moves keys from the queue to those handled and changes none.
LEMMA PollKeepsAll ==
    ASSUME IInv, handled \in Seq(Key), PollEvent
    PROVE  handled' \in Seq(Key) /\ All' = All
  <1>0. /\ InHand \in Seq(Key) /\ Contents \in Seq(Key) /\ handled \o InHand \in Seq(Key)
    BY Parts
  <1>1. CASE PollAdvances
    <2>1. handled' = handled /\ InHand = <<>>
      BY <1>1 DEF PollEvent, PollAdvances, InHand
    <2>2. Waiting > 0 /\ Contents' = Tail(Contents) /\ InHand' = <<Head(Contents)>>
      BY <1>1, AdvanceStep DEF InHand, PollAdvances
    <2>3. Contents # <<>>
      <3>1. Waiting \in Nat /\ Len(Contents) = Waiting
        BY RingFacts DEF IInv, TypeOK, Contents
      <3> QED
        BY <2>2, <3>1
    <2>4. Head(Contents) \in Key /\ Tail(Contents) \in Seq(Key)
      BY <1>0, <2>3, HeadTailProperties
    <2>5. <<Head(Contents)>> \o Tail(Contents) = Contents
      <3>1. 1 \in 1 .. Len(Contents) /\ Len(Contents) \in 1 .. Len(Contents)
        BY <1>0, <2>3, EmptySeq, LenProperties
      <3>2. Tail(Contents) = SubSeq(Contents, 2, Len(Contents))
        BY <1>0, <2>3, TailIsSubSeq
      <3>3. SubSeq(Contents, 1, Len(Contents)) = <<Contents[1]>> \o SubSeq(Contents, 1 + 1, Len(Contents))
        BY <1>0, <3>1, SubSeqRecursiveFirst
      <3>4. SubSeq(Contents, 1, Len(Contents)) = Contents
        BY <1>0, SubSeqFull
      <3> QED
        BY <1>0, <2>3, <3>2, <3>3, <3>4
    <2>6. All' = (handled \o <<Head(Contents)>>) \o Tail(Contents)
      BY <2>1, <2>2 DEF All
    <2>7. (handled \o <<Head(Contents)>>) \o Tail(Contents) = handled \o (<<Head(Contents)>> \o Tail(Contents))
      <3>1. <<Head(Contents)>> \in Seq(Key)
        BY <2>4
      <3> QED
        BY <2>4, <3>1, ConcatAssociative
    <2>8. All = handled \o Contents
      BY <2>1, ConcatEmptySeq DEF All
    <2> QED
      BY <2>1, <2>5, <2>6, <2>7, <2>8
  <1>2. CASE PollHandles
    <2>1. key \in Key /\ InHand = <<key>> /\ InHand' = <<>>
      BY <1>2 DEF IInv, SlotIsStable, PollHandles, InHand
    <2>2. handled' = Append(handled, key)
      BY <1>2 DEF PollEvent, PollHandles
    <2>3. handled' \in Seq(Key) /\ handled' = handled \o <<key>>
      BY <2>1, <2>2, AppendProperties, AppendIsConcat
    <2>4. Contents' = Contents
      BY <1>2, LocalStep
    <2>5. handled' \o InHand' = handled \o InHand
      BY <2>1, <2>3, ConcatEmptySeq
    <2> QED
      BY <2>3, <2>4, <2>5 DEF All
  <1>3. CASE PollSees \/ PollReads
    <2>1. Contents' = Contents
      BY <1>3, LocalStep
    <2>2. handled' = handled /\ InHand' = InHand
      BY <1>3 DEF PollEvent, PollSees, PollReads, InHand
    <2> QED
      BY <2>1, <2>2 DEF All
  <1> QED
    BY <1>1, <1>2, <1>3 DEF PollEvent, Poll

LEMMA PathInit == DriverInit => Path
  <1> SUFFICES ASSUME DriverInit PROVE Path
    OBVIOUS
  <1>1. handled = <<>> /\ InHand = <<>> /\ got = <<>> /\ lost = FALSE
    BY DEF DriverInit, Init, Dec!Init, InHand
  <1>2. Contents = <<>>
    <2>1. Waiting = 0
      BY QueueAssumption DEF DriverInit, Init, Waiting
    <2> QED
      BY <2>1 DEF Contents
  <1>3. All = <<>>
    BY <1>1, <1>2 DEF All
  <1> QED
    BY <1>1, <1>3 DEF Path

\* One byte: the key it completes is at the end both of what was decoded and of what waits, or lost.
LEMMA PathIrq ==
    ASSUME IInv, DecInv, Path, HandleIrq
    PROVE  Path'
  <1>0. handled \in Seq(Key) /\ handled' = handled
    BY DEF Path, HandleIrq, NoKeyIrq, QueuedIrq, DroppedIrq
  <1>1. CASE NoKeyIrq
    <2>1. UNCHANGED vars /\ got' = got /\ lost' = lost
      BY <1>1 DEF NoKeyIrq
    <2>2. All' = All
      BY <1>0, <2>1, LocalStep DEF All, InHand, vars
    <2> QED
      BY <1>0, <2>1, <2>2 DEF Path
  <1>2. CASE QueuedIrq
    <2> DEFINE k == Last(got')
    <2>1. k \in Key /\ got' = Append(got, k) /\ Enqueue(k) /\ lost' = lost
      BY <1>2, IrqQueues DEF QueuedIrq
    <2> HIDE DEF k
    <2>2. Contents' = Append(Contents, k) /\ InHand' = InHand
      BY <2>1, EnqueueStep DEF InHand, Enqueue
    <2>3. /\ InHand \in Seq(Key) /\ Contents \in Seq(Key)
          /\ handled \o InHand \in Seq(Key) /\ All \in Seq(Key)
      BY <1>0, Parts
    <2>4. All' = Append(All, k)
      <3>1. Append(Contents, k) = Contents \o <<k>> /\ Append(All, k) = All \o <<k>> /\ <<k>> \in Seq(Key)
        BY <2>1, <2>3, AppendIsConcat
      <3>2. All' = (handled \o InHand) \o (Contents \o <<k>>)
        BY <1>0, <2>2, <3>1 DEF All
      <3>3. (handled \o InHand) \o (Contents \o <<k>>) = ((handled \o InHand) \o Contents) \o <<k>>
        BY <2>3, <3>1, ConcatAssociative
      <3> QED
        BY <3>1, <3>2, <3>3 DEF All
    <2>5. /\ Len(All') = Len(All) + 1 /\ Len(got') = Len(got) + 1
          /\ Len(All) \in Nat /\ Len(got) \in Nat
      BY <2>1, <2>3, <2>4, AppendProperties, LenProperties DEF DecInv
    <2>6. Range(All') = Range(All) \cup {k} /\ Range(got') = Range(got) \cup {k}
      BY <2>1, <2>3, <2>4, RangeOfAppend DEF DecInv
    <2> QED
      BY <1>0, <2>1, <2>4, <2>5, <2>6 DEF Path
  <1>3. CASE DroppedIrq
    <2> DEFINE k == Last(got')
    <2>1. k \in Key /\ got' = Append(got, k) /\ UNCHANGED vars /\ lost' = TRUE
      BY <1>3, IrqQueues DEF DroppedIrq, Drop
    <2> HIDE DEF k
    <2>2. All' = All
      BY <1>0, <2>1, LocalStep DEF All, InHand, vars
    <2>3. All \in Seq(Key)
      BY <1>0, Parts
    <2>4. Len(got') = Len(got) + 1 /\ Len(All) \in Nat /\ Len(got) \in Nat
      BY <2>1, <2>3, AppendProperties, LenProperties DEF DecInv
    <2>5. Range(got') = Range(got) \cup {k}
      BY <2>1, RangeOfAppend DEF DecInv
    <2>6. Len(All) <= Len(got) /\ Range(All) \subseteq Range(got)
      BY <2>4 DEF Path
    <2> QED
      BY <1>0, <2>1, <2>2, <2>4, <2>5, <2>6 DEF Path
  <1> QED
    BY <1>1, <1>2, <1>3 DEF HandleIrq

LEMMA PathStep == IInv /\ DecInv /\ Path /\ [DriverNext]_driver => Path'
  <1> SUFFICES ASSUME IInv, DecInv, Path, [DriverNext]_driver PROVE Path'
    OBVIOUS
  <1>1. CASE HandleIrq
    BY <1>1, PathIrq
  <1>2. CASE PollEvent
    <2>1. got' = got /\ lost' = lost
      BY <1>2 DEF PollEvent, decoding
    <2> QED
      BY <1>2, <2>1, PollKeepsAll DEF Path
  <1>3. CASE Typing \/ UNCHANGED driver
    <2>1. UNCHANGED vars /\ got' = got /\ lost' = lost /\ handled' = handled
      BY <1>3 DEF Typing, driver, decoding, Dec!Press, Dec!Release, Dec!decoder
    <2>2. All' = All
      BY <2>1, LocalStep DEF All, InHand, vars
    <2> QED
      BY <2>1, <2>2 DEF Path
  <1> QED
    BY <1>1, <1>2, <1>3 DEF DriverNext

\* No key is lost, doubled or reordered between the decoder and the shell while the queue has room,
\* for every keyboard, key map, queue size and interleaving: as long as the decoder is right
\* (DecodesWhatIsTyped; KeysAreDecoded says on which keyboards) the shell handles what was typed.
THEOREM DriverKeepsKeys == DriverSpec => [](DecodesWhatIsTyped => HandlesWhatIsTyped)
  <1>1. DriverInit => IInv
    BY InitIInv DEF DriverInit
  <1>2. IInv /\ DecInv /\ [DriverNext]_driver => IInv'
    BY DriverStepsQueue, NextIInv
  <1>3. Path => (DecodesWhatIsTyped => HandlesWhatIsTyped)
    <2> SUFFICES ASSUME Path, DecodesWhatIsTyped PROVE HandlesWhatIsTyped
      OBVIOUS
    <2>1. IF lost THEN Len(All) < Len(got) /\ Range(All) \subseteq Range(got)
          ELSE All = got /\ (wire = <<>> => All = meant)
      BY DEF Path, DecodesWhatIsTyped, Dec!DecodesWhatIsTyped
    <2> QED
      BY <2>1 DEF HandlesWhatIsTyped, All, InHand, Contents
  <1> QED
    BY <1>1, <1>2, <1>3, DecInit, DecStep, PathInit, PathStep, PTL DEF DriverSpec
-----------------------------------------------------------------------------
(* The decoder.  What the user has typed and what has been decoded differ by the bytes on the wire;
   the invariant speaks of the state the decoder will be in once it has seen them all.  That state
   is the end of a path of states, one for each byte, so that a byte more or less is a step more or
   less of the path and needs no induction. *)

\* A flag as the byte it is in the code.
Bit(P) == IF P THEN 1 ELSE 0

WithBits(k, c, s, l) == Dec!Modified(k, c = 1, s = 1, l = 1)

\* The keys decoded, with that of the code when its map has it.
ExtAfter(g, b) ==
    IF b \in DOMAIN ExtMap THEN Append(g, [name |-> ExtMap[b].name, mod |-> "plain"]) ELSE g
PlainAfter(g, b, c, s, l) ==
    IF b \in DOMAIN PlainMap THEN Append(g, WithBits(PlainMap[b], c, s, l)) ELSE g

State(x, c, s, l, g) == [extended |-> x, ctrl |-> c, shift |-> s, caps |-> l, got |-> g]

\* keyboard_handle_irq as a function of its flags, the keys decoded and the byte.
Decode(d, b) ==
    IF b = Dec!E0 THEN [d EXCEPT !.extended = 1]
    ELSE IF b \in {Dec!CtrlCode, Dec!Up(Dec!CtrlCode)} THEN [d EXCEPT !.ctrl = Bit(b = Dec!CtrlCode)]
    ELSE IF b \in Dec!ShiftCodes \cup {Dec!Up(c) : c \in Dec!ShiftCodes}
         THEN [d EXCEPT !.shift = Bit(b \in Dec!ShiftCodes)]
    ELSE IF b = Dec!CapsCode THEN [d EXCEPT !.caps = 1 - d.caps]
    ELSE IF b >= 128 THEN [d EXCEPT !.extended = 0]
    ELSE IF d.extended = 1
         THEN State(0, d.ctrl, d.shift, d.caps, ExtAfter(d.got, b))
    ELSE State(0, d.ctrl, d.shift, d.caps, PlainAfter(d.got, b, d.ctrl, d.shift, d.caps))

Now == State(Bit(extended), Bit(ctrl), Bit(shift), Bit(caps), got)

\* From d, the bytes w lead to e.
Lands(d, w, e) ==
    \E s : /\ s[0] = d
           /\ \A i \in 1 .. Len(w) : s[i] = Decode(s[i - 1], w[i])
           /\ s[Len(w)] = e

LEMMA LandsEmpty == \A d, e : Lands(d, <<>>, e) <=> d = e
  <1>1. ASSUME NEW d PROVE Lands(d, <<>>, d)
    <2>1. /\ [i \in {0} |-> d][0] = d
          /\ \A i \in 1 .. Len(<<>>) : [j \in {0} |-> d][i] = Decode([j \in {0} |-> d][i - 1], <<>>[i])
          /\ [i \in {0} |-> d][Len(<<>>)] = d
      OBVIOUS
    <2> QED
      BY <2>1 DEF Lands
  <1>2. ASSUME NEW d, NEW e, Lands(d, <<>>, e) PROVE d = e
    BY <1>2 DEF Lands
  <1> QED
    BY <1>1, <1>2

\* The first byte is decoded.
LEMMA LandsTail ==
    ASSUME NEW d, NEW w \in Seq(Nat), NEW e, w # <<>>, Lands(d, w, e)
    PROVE  Lands(Decode(d, Head(w)), Tail(w), e)
  <1>1. PICK s : /\ s[0] = d
                 /\ \A i \in 1 .. Len(w) : s[i] = Decode(s[i - 1], w[i])
                 /\ s[Len(w)] = e
    BY DEF Lands
  <1>2. /\ Len(w) \in Nat /\ Len(w) > 0 /\ Len(Tail(w)) = Len(w) - 1 /\ Head(w) = w[1]
        /\ \A i \in 1 .. Len(w) - 1 : Tail(w)[i] = w[i + 1]
    BY EmptySeq, HeadTailProperties, LenProperties
  <1> DEFINE t == [i \in Nat |-> s[i + 1]]
  <1>3. t[0] = Decode(d, Head(w))
    <2>1. t[0] = s[1] /\ 1 \in 1 .. Len(w)
      BY <1>2
    <2> QED
      BY <2>1, <1>1, <1>2
  <1>4. ASSUME NEW i \in 1 .. Len(Tail(w)) PROVE t[i] = Decode(t[i - 1], Tail(w)[i])
    <2>1. i \in Nat /\ i - 1 \in Nat /\ (i - 1) + 1 = i /\ i + 1 \in 1 .. Len(w) /\ (i + 1) - 1 = i
      BY <1>2
    <2>2. t[i] = s[i + 1] /\ t[i - 1] = s[i] /\ Tail(w)[i] = w[i + 1]
      BY <1>2, <2>1
    <2> QED
      BY <1>1, <2>1, <2>2
  <1>5. t[Len(Tail(w))] = e
    BY <1>1, <1>2
  <1> HIDE DEF t
  <1> QED
    BY <1>3, <1>4, <1>5 DEF Lands

\* A byte more.
LEMMA LandsAppend ==
    ASSUME NEW d, NEW w \in Seq(Nat), NEW e, NEW b \in Nat, Lands(d, w, e)
    PROVE  Lands(d, Append(w, b), Decode(e, b))
  <1>1. PICK s : /\ s[0] = d
                 /\ \A i \in 1 .. Len(w) : s[i] = Decode(s[i - 1], w[i])
                 /\ s[Len(w)] = e
    BY DEF Lands
  <1>2. /\ Len(w) \in Nat /\ Len(Append(w, b)) = Len(w) + 1
        /\ \A i \in 1 .. Len(w) : Append(w, b)[i] = w[i]
        /\ Append(w, b)[Len(w) + 1] = b
    BY AppendProperties, LenProperties
  <1> DEFINE t == [i \in Nat |-> IF i = Len(w) + 1 THEN Decode(e, b) ELSE s[i]]
  <1>3. t[0] = d
    BY <1>1, <1>2
  <1>4. ASSUME NEW i \in 1 .. Len(Append(w, b)) PROVE t[i] = Decode(t[i - 1], Append(w, b)[i])
    <2>1. i \in Nat /\ i - 1 \in Nat /\ i - 1 # Len(w) + 1 /\ t[i - 1] = s[i - 1]
      BY <1>2
    <2>2. CASE i = Len(w) + 1
      <3>1. i - 1 = Len(w) /\ t[i] = Decode(e, b) /\ Append(w, b)[i] = b
        BY <1>2, <2>1, <2>2
      <3> QED
        BY <1>1, <2>1, <3>1
    <2>3. CASE i # Len(w) + 1
      <3>1. i \in 1 .. Len(w) /\ t[i] = s[i] /\ Append(w, b)[i] = w[i]
        BY <1>2, <2>1, <2>3
      <3> QED
        BY <1>1, <2>1, <3>1
    <2> QED
      BY <2>2, <2>3
  <1>5. t[Len(Append(w, b))] = Decode(e, b)
    BY <1>2
  <1> HIDE DEF t
  <1> QED
    BY <1>3, <1>4, <1>5 DEF Lands

\* The types of the decoder and of the keyboard.
DecTypes ==
    /\ wire \in Seq(Nat)
    /\ extended \in BOOLEAN /\ ctrl \in BOOLEAN /\ shift \in BOOLEAN /\ caps \in BOOLEAN
    /\ capsOn \in BOOLEAN
    /\ held \subseteq PhysKeys

LEMMA ModifiedBits ==
    ASSUME NEW k, NEW c \in BOOLEAN, NEW s \in BOOLEAN, NEW l \in BOOLEAN
    PROVE  WithBits(k, Bit(c), Bit(s), Bit(l)) = Dec!Modified(k, c, s, l)
  BY DEF WithBits, Dec!Modified, Bit

LEMMA Equality == \A v, x, y : v = (x = y) => v \in BOOLEAN /\ (v = TRUE <=> x = y)
  BY Zenon
LEMMA EitherEquality ==
    \A v, x, y, z : v = (x = y \/ x = z) => v \in BOOLEAN /\ (v = TRUE <=> x = y \/ x = z)
  BY Zenon
LEMMA Negation == \A x \in BOOLEAN : \A v : v = ~x => v \in BOOLEAN /\ (v = TRUE <=> x = FALSE)
  BY Zenon

\* A byte that no test on modifiers takes.
NoModByte(b) ==
    /\ b # Dec!E0 /\ b \notin {Dec!CtrlCode, Dec!Up(Dec!CtrlCode)} /\ b # Dec!CapsCode
    /\ b \notin Dec!ShiftCodes \cup {Dec!Up(f) : f \in Dec!ShiftCodes}

LEMMA DecodeKey ==
    ASSUME NEW x, NEW c, NEW s, NEW l, NEW g, NEW b \in Nat, NoModByte(b), b < 128
    PROVE  /\ x = 1 => Decode(State(x, c, s, l, g), b) = State(0, c, s, l, ExtAfter(g, b))
           /\ x # 1 => Decode(State(x, c, s, l, g), b) = State(0, c, s, l, PlainAfter(g, b, c, s, l))
  <1> DEFINE d == State(x, c, s, l, g)
  <1>1. d.extended = x /\ d.got = g /\ d.ctrl = c /\ d.shift = s /\ d.caps = l
    BY DEF State
  <1>2. ~(b >= 128)
    OBVIOUS
  <1> HIDE DEF d
  <1>3. CASE x = 1
    <2>1. Decode(d, b) = State(0, c, s, l, ExtAfter(g, b))
      BY ONLY NoModByte(b), <1>1, <1>2, <1>3 DEF Decode, NoModByte
    <2> QED
      BY <1>3, <2>1 DEF d
  <1>4. CASE x # 1
    <2>1. Decode(d, b) = State(0, c, s, l, PlainAfter(g, b, c, s, l))
      BY ONLY NoModByte(b), <1>1, <1>2, <1>4 DEF Decode, NoModByte
    <2> QED
      BY <1>4, <2>1 DEF d
  <1> QED
    BY <1>3, <1>4 DEF d

LEMMA DecodeUp ==
    ASSUME NEW x, NEW c, NEW s, NEW l, NEW g, NEW b \in Nat, NoModByte(b), b >= 128
    PROVE  Decode(State(x, c, s, l, g), b) = State(0, c, s, l, g)
  BY DEF Decode, State, NoModByte

LEMMA DecodePrefix == \A x, c, s, l, g : Decode(State(x, c, s, l, g), Dec!E0) = State(1, c, s, l, g)
  BY DEF Decode, State

LEMMA IrqIsDecode ==
    ASSUME DecTypes, Dec!Irq
    PROVE  /\ Now' = Decode(Now, Head(wire))
           /\ wire # <<>> /\ wire' = Tail(wire) /\ Head(wire) \in Nat
           /\ extended' \in BOOLEAN /\ ctrl' \in BOOLEAN /\ shift' \in BOOLEAN /\ caps' \in BOOLEAN
           /\ UNCHANGED <<held, capsOn, meant>>
  <1> DEFINE b == Head(wire)
  <1>1. wire # <<>> /\ wire' = Tail(wire) /\ b \in Nat /\ UNCHANGED <<held, capsOn, meant>>
    BY HeadTailProperties DEF Dec!Irq, DecTypes
  <1>2. Dec!PrefixByte(b) \/ Dec!CtrlByte(b) \/ Dec!ShiftByte(b) \/ Dec!CapsByte(b)
            \/ Dec!ReleaseByte(b) \/ Dec!KeyByte(b)
    BY DEF Dec!Irq
  <1> HIDE DEF b
  <1> USE DEF DecTypes
  <1> SUFFICES /\ Now' = Decode(Now, b)
               /\ extended' \in BOOLEAN /\ ctrl' \in BOOLEAN /\ shift' \in BOOLEAN /\ caps' \in BOOLEAN
    BY <1>1 DEF b
  <1> USE DEF Now, State, Decode, Bit, Dec!E0, Dec!CtrlCode, Dec!ShiftCodes, Dec!CapsCode, Dec!Up
  <1>3. CASE Dec!PrefixByte(b)
    BY <1>3 DEF Dec!PrefixByte
  <1>4. CASE Dec!CtrlByte(b)
    <2>1. b \in {29, 157} /\ UNCHANGED <<extended, shift, caps, got>>
      BY <1>4 DEF Dec!CtrlByte
    <2>2. ctrl' \in BOOLEAN /\ (ctrl' = TRUE <=> b = 29)
      BY ONLY <1>4, Equality, Zenon DEF Dec!CtrlByte, Dec!CtrlCode
    <2> QED
      BY <2>1, <2>2
  <1>5. CASE Dec!ShiftByte(b)
    <2>1. b \in {42, 54, 170, 182} /\ UNCHANGED <<extended, ctrl, caps, got>>
      BY <1>5 DEF Dec!ShiftByte
    <2>2. shift' = (b = 42 \/ b = 54)
      BY ONLY <1>5, SMT DEF Dec!ShiftByte, Dec!ShiftCodes
    <2>3. shift' \in BOOLEAN /\ (shift' = TRUE <=> b = 42 \/ b = 54)
      BY ONLY <2>2, EitherEquality, Zenon
    <2>4. CASE b \in {42, 54}
      <3>1. Bit(shift') = 1
        BY ONLY <2>3, <2>4
      <3>2. Decode(Now, b) = State(Bit(extended), Bit(ctrl), 1, Bit(caps), got)
        BY ONLY <2>4
      <3> QED
        BY <2>1, <2>3, <3>1, <3>2
    <2>5. CASE b \in {170, 182}
      <3>1. Bit(shift') = 0
        BY ONLY <2>3, <2>5
      <3>2. Decode(Now, b) = State(Bit(extended), Bit(ctrl), 0, Bit(caps), got)
        BY ONLY <2>5
      <3> QED
        BY <2>1, <2>3, <3>1, <3>2
    <2> QED
      BY <2>1, <2>4, <2>5
  <1>6. CASE Dec!CapsByte(b)
    <2>1. b = 58 /\ UNCHANGED <<extended, ctrl, shift, got>>
      BY <1>6 DEF Dec!CapsByte
    <2>2. caps' \in BOOLEAN /\ (caps' = TRUE <=> caps = FALSE)
      BY ONLY <1>6, DecTypes, Negation, Zenon DEF Dec!CapsByte, DecTypes
    <2> QED
      BY <2>1, <2>2
  <1>7. CASE Dec!ReleaseByte(b)
    BY <1>7, <1>1 DEF Dec!ReleaseByte, Dec!Consumed
  <1>8. CASE Dec!KeyByte(b)
    <2>1. b \notin {224, 29, 157, 58, 42, 54, 170, 182} /\ b < 128 /\ ~(b >= 128)
      BY <1>1, <1>8 DEF Dec!KeyByte, Dec!Consumed, b
    <2>2. NoModByte(b) /\ b \in Nat
      BY <1>1, <2>1 DEF NoModByte, b
    <2> HIDE DEF Bit, Now, Decode, State
    <2>3. extended' = FALSE /\ Bit(extended)' = 0 /\ UNCHANGED <<ctrl, shift, caps>>
      BY <1>8 DEF Dec!KeyByte, Bit
    <2>4. CASE extended = TRUE
      <3>1. Bit(extended) = 1 /\ got' = ExtAfter(got, b)
        BY <1>8, <2>4 DEF Dec!KeyByte, Bit, ExtAfter
      <3>2. Decode(Now, b) = State(0, Bit(ctrl), Bit(shift), Bit(caps), ExtAfter(got, b))
        BY ONLY <2>1, <2>2, <3>1, DecodeKey DEF Now
      <3> QED
        BY <2>3, <3>1, <3>2 DEF Now
    <2>5. CASE extended = FALSE
      <3> DEFINE g == PlainAfter(got, b, Bit(ctrl), Bit(shift), Bit(caps))
      <3>1. Bit(extended) = 0
        BY <2>5 DEF Bit
      <3>2. WithBits(PlainMap[b], Bit(ctrl), Bit(shift), Bit(caps))
              = Dec!Modified(PlainMap[b], ctrl, shift, caps)
        BY ModifiedBits
      <3>3. got' = IF b \in DOMAIN PlainMap
                   THEN Append(got, Dec!Modified(PlainMap[b], ctrl, shift, caps)) ELSE got
        BY <1>8, <2>5 DEF Dec!KeyByte
      <3>4. got' = g
        BY ONLY <3>2, <3>3, Zenon DEF PlainAfter
      <3>5. Decode(Now, b) = State(0, Bit(ctrl), Bit(shift), Bit(caps), g)
        BY ONLY <2>1, <2>2, <3>1, DecodeKey DEF Now
      <3> QED
        BY <2>3, <3>4, <3>5 DEF Now
    <2> QED
      BY <2>4, <2>5
  <1> QED
    BY <1>2, <1>3, <1>4, <1>5, <1>6, <1>7, <1>8

\* The decoder's state once the bytes of one press or release more have come.
After(d, k, code) == IF k.ext THEN Decode(Decode(d, Dec!E0), code) ELSE Decode(d, code)

LEMMA TwoAppends ==
    ASSUME NEW S, NEW w \in Seq(S), NEW a \in S, NEW b \in S
    PROVE  w \o <<a, b>> = Append(Append(w, a), b)
  <1>1. Len(w \o <<a, b>>) = Len(w) + 2 /\ Len(Append(Append(w, a), b)) = Len(w) + 2 /\ Len(w) \in Nat
    OBVIOUS
  <1>2. \A i \in 1 .. Len(w) + 2 : (w \o <<a, b>>)[i] = Append(Append(w, a), b)[i]
    OBVIOUS
  <1>3. w \o <<a, b>> \in Seq(S) /\ Append(Append(w, a), b) \in Seq(S)
    OBVIOUS
  <1> QED
    BY <1>1, <1>2, <1>3

LEMMA TypingLands ==
    ASSUME DecTypes, NEW k \in PhysKeys, NEW code \in Nat, wire' = wire \o Dec!Bytes(k, code),
           UNCHANGED <<extended, ctrl, shift, caps, got>>, NEW e, Lands(Now, wire, e)
    PROVE  Lands(Now', wire', After(e, k, code)) /\ wire' \in Seq(Nat)
  <1>1. Now' = Now
    BY DEF Now, Bit
  <1>2. wire \in Seq(Nat) /\ Dec!E0 \in Nat
    BY DEF DecTypes, Dec!E0
  <1>3. CASE k.ext
    <2> DEFINE w == Append(wire, Dec!E0)
    <2>1. wire' = Append(w, code) /\ w \in Seq(Nat)
      <3>1. wire' = wire \o <<Dec!E0, code>>
        BY <1>3 DEF Dec!Bytes
      <3> QED
        BY <1>2, <3>1, TwoAppends, AppendProperties
    <2>2. Lands(Now, w, Decode(e, Dec!E0))
      BY <1>2, LandsAppend
    <2> HIDE DEF w
    <2>3. Lands(Now, Append(w, code), Decode(Decode(e, Dec!E0), code))
      BY <2>1, <2>2, LandsAppend
    <2> QED
      BY <1>1, <1>3, <2>1, <2>3, AppendProperties DEF After
  <1>4. CASE ~k.ext
    <2>1. wire' = Append(wire, code)
      <3>1. wire' = wire \o <<code>>
        BY <1>4 DEF Dec!Bytes
      <3> QED
        BY <1>2, <3>1
    <2>2. Lands(Now, Append(wire, code), Decode(e, code))
      BY <1>2, LandsAppend
    <2> QED
      BY <1>1, <1>2, <1>4, <2>1, <2>2, AppendProperties DEF After
  <1> QED
    BY <1>3, <1>4

LEMMA IrqLands ==
    ASSUME DecTypes, Dec!Irq, NEW e, Lands(Now, wire, e)
    PROVE  Lands(Now', wire', e)
  <1>1. Now' = Decode(Now, Head(wire)) /\ wire # <<>> /\ wire' = Tail(wire)
    BY IrqIsDecode
  <1>2. wire \in Seq(Nat)
    BY DEF DecTypes
  <1>3. Lands(Decode(Now, Head(wire)), Tail(wire), e)
    BY <1>1, <1>2, LandsTail
  <1> QED
    BY <1>1, <1>3

LEMMA DecTypesInit == DriverInit => DecTypes
  <1> SUFFICES ASSUME DriverInit PROVE DecTypes
    OBVIOUS
  <1>1. /\ wire = <<>> /\ held = {} /\ capsOn = FALSE
        /\ extended = FALSE /\ ctrl = FALSE /\ shift = FALSE /\ caps = FALSE
    BY DEF DriverInit, Dec!Init
  <1>2. wire \in Seq(Nat) /\ held \subseteq PhysKeys
    BY <1>1
  <1>3. /\ extended \in BOOLEAN /\ ctrl \in BOOLEAN /\ shift \in BOOLEAN /\ caps \in BOOLEAN
        /\ capsOn \in BOOLEAN
    BY ONLY <1>1, Zenon
  <1> QED
    BY <1>2, <1>3 DEF DecTypes

LEMMA UpIsByte == ASSUME NEW k \in PhysKeys PROVE k.code \in Nat /\ Dec!Up(k.code) \in Nat
  <1>1. k.code \in 0 .. 127
    BY DriverAssumption
  <1> QED
    BY <1>1 DEF Dec!Up

LEMMA DecTypesStep == DecTypes /\ [DriverNext]_driver => DecTypes'
  <1> SUFFICES ASSUME DecTypes, [DriverNext]_driver PROVE DecTypes'
    OBVIOUS
  <1>1. CASE HandleIrq
    <2>1. Dec!Irq
      BY <1>1 DEF HandleIrq, NoKeyIrq, QueuedIrq, DroppedIrq
    <2>2. wire # <<>> /\ wire' = Tail(wire)
      BY <2>1 DEF Dec!Irq
    <2>3. wire' \in Seq(Nat)
      BY <2>2, HeadTailProperties DEF DecTypes
    <2> QED
      BY <2>1, <2>3, IrqIsDecode DEF DecTypes
  <1>2. CASE Typing
    <2>1. PICK k \in PhysKeys : Dec!Press(k) \/ Dec!Release(k)
      BY <1>2 DEF Typing
    <2>2. /\ held' \subseteq PhysKeys
          /\ UNCHANGED <<extended, ctrl, shift, caps>>
      BY <2>1 DEF Dec!Press, Dec!Release, Dec!decoder, DecTypes
    <2>3. capsOn' \in BOOLEAN
      <3>1. CASE Dec!Press(k)
        <4>1. capsOn' = (capsOn # (k.code = Dec!CapsCode))
          BY <3>1 DEF Dec!Press
        <4> QED
          BY <4>1, Zenon
      <3>2. CASE Dec!Release(k)
        BY <3>2 DEF Dec!Release, DecTypes
      <3> QED
        BY <2>1, <3>1, <3>2
    <2>4. wire' \in Seq(Nat)
      <3>1. \E code \in Nat : wire' = wire \o Dec!Bytes(k, code)
        BY <2>1, UpIsByte DEF Dec!Press, Dec!Release
      <3>2. \A code \in Nat : Dec!Bytes(k, code) \in Seq(Nat)
        BY DEF Dec!Bytes, Dec!E0
      <3> QED
        BY <3>1, <3>2, ConcatProperties DEF DecTypes
    <2> QED
      BY <2>2, <2>3, <2>4 DEF DecTypes
  <1>3. CASE PollEvent \/ UNCHANGED driver
    BY <1>3 DEF PollEvent, driver, decoding, DecTypes
  <1> QED
    BY <1>1, <1>2, <1>3 DEF DriverNext

-----------------------------------------------------------------------------
(* No modifier sticks, on any keyboard: the state to come has no flag whose keys are all up. *)

ModsHeld(d) ==
    \E x, c, s, g :
        /\ d = State(x, c, s, Bit(capsOn), g)
        /\ c \in {0, 1} /\ (c = 1 => Dec!CtrlHeld)
        /\ s \in {0, 1} /\ (s = 1 => Dec!ShiftHeld)

ModsWillBe == \E d : Lands(Now, wire, d) /\ ModsHeld(d)

\* What one byte, and one press or release, does to the modifiers.
LEMMA DecodeMods ==
    ASSUME NEW x, NEW c, NEW s, NEW l, NEW g, NEW b \in Nat
    PROVE  \E x2, g2 :
               Decode(State(x, c, s, l, g), b) =
                   State(x2, IF b = 29 THEN 1 ELSE IF b = 157 THEN 0 ELSE c,
                         IF b \in {42, 54} THEN 1 ELSE IF b \in {170, 182} THEN 0 ELSE s,
                         IF b = 58 THEN 1 - l ELSE l, g2)
  <1> USE DEF Dec!E0, Dec!CtrlCode, Dec!ShiftCodes, Dec!CapsCode, Dec!Up
  <1>1. CASE b = 224
    <2>1. Decode(State(x, c, s, l, g), b) = State(1, c, s, l, g)
      BY <1>1 DEF Decode, State
    <2> QED
      BY <1>1, <2>1
  <1>2. CASE b \in {29, 157}
    <2>1. Decode(State(x, c, s, l, g), b) = State(x, IF b = 29 THEN 1 ELSE 0, s, l, g)
      BY <1>2 DEF Decode, State, Bit
    <2> QED
      BY <1>2, <2>1
  <1>3. CASE b \in {42, 54, 170, 182}
    <2>1. Decode(State(x, c, s, l, g), b) = State(x, c, IF b \in {42, 54} THEN 1 ELSE 0, l, g)
      BY <1>3 DEF Decode, State, Bit
    <2> QED
      BY <1>3, <2>1
  <1>4. CASE b = 58
    <2>1. Decode(State(x, c, s, l, g), b) = State(x, c, s, 1 - l, g)
      BY <1>4 DEF Decode, State
    <2> QED
      BY <1>4, <2>1
  <1>5. CASE b \notin {224, 29, 157, 42, 54, 170, 182, 58}
    <2>1. \E g2 : Decode(State(x, c, s, l, g), b) = State(0, c, s, l, g2)
      <3>0. NoModByte(b)
        BY <1>5 DEF NoModByte
      <3> HIDE DEF Dec!E0, Dec!CtrlCode, Dec!ShiftCodes, Dec!CapsCode, Dec!Up
      <3>1. CASE b >= 128
        BY <3>0, <3>1, DecodeUp
      <3>2. CASE b < 128
        BY <3>0, <3>2, DecodeKey
      <3> QED
        BY <3>1, <3>2
    <2> QED
      BY <1>5, <2>1
  <1> QED
    BY <1>1, <1>2, <1>3, <1>4, <1>5

LEMMA AfterMods ==
    ASSUME NEW x, NEW c, NEW s, NEW l, NEW g, NEW k, NEW b \in Nat
    PROVE  \E x2, g2 :
               After(State(x, c, s, l, g), k, b) =
                   State(x2, IF b = 29 THEN 1 ELSE IF b = 157 THEN 0 ELSE c,
                         IF b \in {42, 54} THEN 1 ELSE IF b \in {170, 182} THEN 0 ELSE s,
                         IF b = 58 THEN 1 - l ELSE l, g2)
  <1>1. Decode(State(x, c, s, l, g), Dec!E0) = State(1, c, s, l, g)
    BY DecodePrefix
  <1>2. CASE k.ext
    BY <1>1, <1>2, DecodeMods DEF After
  <1>3. CASE ~k.ext
    BY <1>3, DecodeMods DEF After
  <1> QED
    BY <1>2, <1>3

LEMMA Toggle ==
    \A x \in BOOLEAN : \A v, a, b :
        v = (x # (a = b)) => /\ v \in BOOLEAN
                             /\ a = b => (v = TRUE <=> x = FALSE)
                             /\ a # b => (v = TRUE <=> x = TRUE)
  BY Zenon

LEMMA CapsPressed ==
    ASSUME DecTypes, NEW k, Dec!Press(k)
    PROVE  Bit(capsOn') = IF k.code = 58 THEN 1 - Bit(capsOn) ELSE Bit(capsOn)
  <1>1. capsOn \in BOOLEAN /\ capsOn' = (capsOn # (k.code = 58))
    BY DEF Dec!Press, Dec!CapsCode, DecTypes
  <1>2. /\ capsOn' \in BOOLEAN
        /\ k.code = 58 => (capsOn' = TRUE <=> capsOn = FALSE)
        /\ k.code # 58 => (capsOn' = TRUE <=> capsOn = TRUE)
    BY ONLY <1>1, Toggle, Zenon
  <1> QED
    BY <1>1, <1>2 DEF Bit

LEMMA ModsInit == DriverInit => ModsWillBe
  <1> SUFFICES ASSUME DriverInit PROVE ModsWillBe
    OBVIOUS
  <1>1. Lands(Now, wire, Now)
    BY LandsEmpty DEF DriverInit, Dec!Init
  <1>2. ctrl = FALSE /\ shift = FALSE /\ caps = FALSE /\ capsOn = FALSE
    BY DEF DriverInit, Dec!Init
  <1>3. Bit(ctrl) = 0 /\ Bit(shift) = 0 /\ Bit(caps) = Bit(capsOn)
    BY <1>2 DEF Bit
  <1>4. ModsHeld(Now)
    BY <1>3 DEF ModsHeld, Now
  <1> QED
    BY <1>1, <1>4 DEF ModsWillBe

LEMMA ModsTyping ==
    ASSUME DecTypes, ModsWillBe, NEW k \in PhysKeys, Dec!Press(k) \/ Dec!Release(k)
    PROVE  ModsWillBe'
  <1>0. k.code \in 0 .. 127 /\ Dec!Up(k.code) = k.code + 128
    BY DriverAssumption DEF Dec!Up
  <1>1. PICK d : Lands(Now, wire, d) /\ ModsHeld(d)
    BY DEF ModsWillBe
  <1>2. PICK x, c, s, g : /\ d = State(x, c, s, Bit(capsOn), g)
                          /\ c \in {0, 1} /\ (c = 1 => Dec!CtrlHeld)
                          /\ s \in {0, 1} /\ (s = 1 => Dec!ShiftHeld)
    BY <1>1 DEF ModsHeld
  <1>3. CASE Dec!Press(k)
    <2>1. Lands(Now', wire', After(d, k, k.code))
      <3>1. wire' = wire \o Dec!Bytes(k, k.code) /\ UNCHANGED <<extended, ctrl, shift, caps, got>>
        BY <1>3 DEF Dec!Press, Dec!decoder
      <3> QED
        BY <1>1, <3>1, UpIsByte, TypingLands
    <2> DEFINE c2 == IF k.code = 29 THEN 1 ELSE IF k.code = 157 THEN 0 ELSE c
               s2 == IF k.code \in {42, 54} THEN 1 ELSE IF k.code \in {170, 182} THEN 0 ELSE s
    <2>2. PICK x2, g2 : After(d, k, k.code) = State(x2, c2, s2, Bit(capsOn'), g2)
      <3>1. \E x2, g2 : After(d, k, k.code) =
                   State(x2, c2, s2, IF k.code = 58 THEN 1 - Bit(capsOn) ELSE Bit(capsOn), g2)
        BY <1>0, <1>2, AfterMods
      <3> QED
        BY <1>3, <3>1, CapsPressed
    <2>3. held' = held \cup {k}
      BY <1>3 DEF Dec!Press
    <2>4. c2 \in {0, 1} /\ (c2 = 1 => Dec!CtrlHeld')
      BY <1>0, <1>2, <2>3 DEF Dec!CtrlHeld, Dec!CtrlCode
    <2>5. s2 \in {0, 1} /\ (s2 = 1 => Dec!ShiftHeld')
      BY <1>0, <1>2, <2>3 DEF Dec!ShiftHeld, Dec!ShiftCodes
    <2> HIDE DEF c2, s2
    <2>6. ModsHeld(After(d, k, k.code))'
      BY <2>2, <2>4, <2>5 DEF ModsHeld
    <2> QED
      BY <2>1, <2>6 DEF ModsWillBe
  <1>4. CASE Dec!Release(k)
    <2> DEFINE up == Dec!Up(k.code)
    <2>1. Lands(Now', wire', After(d, k, up))
      <3>1. wire' = wire \o Dec!Bytes(k, up) /\ UNCHANGED <<extended, ctrl, shift, caps, got>>
        BY <1>4 DEF Dec!Release, Dec!decoder
      <3>2. up \in Nat
        BY UpIsByte
      <3> HIDE DEF up
      <3> QED
        BY <1>1, <3>1, <3>2, TypingLands
    <2> DEFINE c2 == IF up = 29 THEN 1 ELSE IF up = 157 THEN 0 ELSE c
               s2 == IF up \in {42, 54} THEN 1 ELSE IF up \in {170, 182} THEN 0 ELSE s
    <2>2. /\ capsOn' = capsOn /\ held' = held \ {k}
          /\ up \in Nat /\ up >= 128 /\ up = k.code + 128
      <3>1. capsOn' = capsOn /\ held' = held \ {k}
        BY <1>4 DEF Dec!Release
      <3>2. up \in Nat /\ up >= 128 /\ up = k.code + 128
        BY <1>0
      <3> QED
        BY <3>1, <3>2
    <2>3. PICK x2, g2 : After(d, k, up) = State(x2, c2, s2, Bit(capsOn'), g2)
      <3>1. \E x2, g2 : After(d, k, up) =
                   State(x2, c2, s2, IF up = 58 THEN 1 - Bit(capsOn) ELSE Bit(capsOn), g2)
        BY <1>2, <2>2, AfterMods
      <3>2. up # 58 /\ Bit(capsOn') = Bit(capsOn)
        BY <2>2 DEF Bit
      <3> QED
        BY <3>1, <3>2
    <2>4. c2 \in {0, 1} /\ (c2 = 1 => Dec!CtrlHeld')
      BY <1>0, <1>2, <2>2 DEF Dec!CtrlHeld, Dec!CtrlCode
    <2>5. s2 \in {0, 1} /\ (s2 = 1 => Dec!ShiftHeld')
      BY <1>0, <1>2, <2>2 DEF Dec!ShiftHeld, Dec!ShiftCodes
    <2> HIDE DEF c2, s2
    <2>6. ModsHeld(After(d, k, up))'
      BY <2>3, <2>4, <2>5 DEF ModsHeld
    <2> QED
      BY <2>1, <2>6 DEF ModsWillBe
  <1> QED
    BY <1>3, <1>4

LEMMA ModsStep == DecTypes /\ ModsWillBe /\ [DriverNext]_driver => ModsWillBe'
  <1> SUFFICES ASSUME DecTypes, ModsWillBe, [DriverNext]_driver PROVE ModsWillBe'
    OBVIOUS
  <1>1. CASE HandleIrq
    <2>1. Dec!Irq
      BY <1>1 DEF HandleIrq, NoKeyIrq, QueuedIrq, DroppedIrq
    <2>2. UNCHANGED <<held, capsOn>>
      BY <2>1 DEF Dec!Irq
    <2>3. PICK d : Lands(Now, wire, d) /\ ModsHeld(d)
      BY DEF ModsWillBe
    <2>4. Lands(Now', wire', d)
      BY <2>1, <2>3, IrqLands
    <2>5. ModsHeld(d)'
      BY <2>2, <2>3 DEF ModsHeld, Bit, Dec!CtrlHeld, Dec!ShiftHeld
    <2> QED
      BY <2>4, <2>5 DEF ModsWillBe
  <1>2. CASE Typing
    BY <1>2, ModsTyping DEF Typing
  <1>3. CASE PollEvent \/ UNCHANGED driver
    <2>1. UNCHANGED <<held, capsOn, wire, extended, ctrl, shift, caps, got>>
      BY <1>3 DEF PollEvent, driver, decoding
    <2>2. Now' = Now /\ Dec!CtrlHeld' = Dec!CtrlHeld /\ Dec!ShiftHeld' = Dec!ShiftHeld
      BY <2>1 DEF Now, Bit, Dec!CtrlHeld, Dec!ShiftHeld
    <2>3. PICK d : Lands(Now, wire, d) /\ ModsHeld(d)
      BY DEF ModsWillBe
    <2>4. Lands(Now', wire', d)
      BY <2>1, <2>2, <2>3
    <2>5. ModsHeld(d)'
      BY <2>1, <2>2, <2>3 DEF ModsHeld, Bit
    <2> QED
      BY <2>4, <2>5 DEF ModsWillBe
  <1> QED
    BY <1>1, <1>2, <1>3 DEF DriverNext

\* No modifier sticks, on any keyboard and with any key maps: once every byte has come and every
\* key is up, Ctrl and Shift are off and caps lock is as the user left it.
THEOREM ModifiersComeUp == DriverSpec => []ModifiersAreReleased
  <1>1. DecTypes /\ ModsWillBe => ModifiersAreReleased
    <2> SUFFICES ASSUME DecTypes, ModsWillBe, wire = <<>>, held = {}
                 PROVE  ~ctrl /\ ~shift /\ caps = capsOn
      BY DEF ModifiersAreReleased, Dec!ModifiersAreReleased
    <2>1. ModsHeld(Now)
      BY LandsEmpty DEF ModsWillBe
    <2>2. ~Dec!CtrlHeld /\ ~Dec!ShiftHeld
      BY DEF Dec!CtrlHeld, Dec!ShiftHeld
    <2>3. Bit(ctrl) = 0 /\ Bit(shift) = 0 /\ Bit(caps) = Bit(capsOn)
      BY <2>1, <2>2 DEF ModsHeld, Now, State
    <2> QED
      BY <2>3 DEF Bit, DecTypes
  <1> QED
    BY <1>1, DecTypesInit, DecTypesStep, ModsInit, ModsStep, PTL DEF DriverSpec
-----------------------------------------------------------------------------
(* What is decoded is what was typed, on a keyboard the decoder can follow: the state to come is
   known in full. *)

Promised == State(0, Bit(Dec!CtrlHeld), Bit(Dec!ShiftHeld), Bit(capsOn), meant)

Follows == meant \in Seq(Key) /\ Lands(Now, wire, Promised)

\* The key of a code is a key, whatever the modifiers.
LEMMA MapKeys ==
    /\ \A b \in DOMAIN ExtMap : [name |-> ExtMap[b].name, mod |-> "plain"] \in Key
    /\ \A b \in DOMAIN PlainMap : \A c, s, l : WithBits(PlainMap[b], c, s, l) \in Key
  <1>1. ASSUME NEW b \in DOMAIN ExtMap PROVE [name |-> ExtMap[b].name, mod |-> "plain"] \in Dec!Keys
    BY DEF Dec!Keys
  <1>2. ASSUME NEW b \in DOMAIN PlainMap, NEW c, NEW s, NEW l
        PROVE  WithBits(PlainMap[b], c, s, l) \in Dec!Keys
    <2>1. \E mod \in {"plain", "ctrl", "upper", "shifted"} :
              WithBits(PlainMap[b], c, s, l) = [name |-> PlainMap[b].name, mod |-> mod]
      BY DEF WithBits, Dec!Modified
    <2>2. PlainMap[b].name \in {PlainMap[e].name : e \in DOMAIN PlainMap}
      OBVIOUS
    <2> QED
      BY <2>1, <2>2 DEF Dec!Keys
  <1> QED
    BY <1>1, <1>2, DriverAssumption

\* The bytes of a key that is no modifier pass the tests on modifiers, pressed and released.
LEMMA KeyBytes ==
    ASSUME Dec!OneOfEach, NEW k \in PhysKeys, ~Dec!IsModifier(k)
    PROVE  /\ k.code \in Nat /\ k.code < 128 /\ NoModByte(k.code)
           /\ Dec!Up(k.code) \in Nat /\ Dec!Up(k.code) >= 128 /\ NoModByte(Dec!Up(k.code))
           /\ k.code \in IF k.ext THEN DOMAIN ExtMap ELSE DOMAIN PlainMap
  <1>1. k.code \in 0 .. 127 /\ Dec!Up(k.code) = k.code + 128
    BY DriverAssumption DEF Dec!Up
  <1>2. k.code \notin {29, 58, 42, 54}
    BY DEF Dec!IsModifier, Dec!CtrlCode, Dec!CapsCode, Dec!ShiftCodes
  <1>3. Dec!Up(k.code) # 224 /\ k.code \in IF k.ext THEN DOMAIN ExtMap ELSE DOMAIN PlainMap
    BY DEF Dec!OneOfEach, Dec!E0
  <1> DEFINE up == Dec!Up(k.code)
  <1>4. up \in Nat /\ up >= 128 /\ up \notin {157, 170, 182, 29, 58, 42, 54, 224}
    BY <1>1, <1>2, <1>3
  <1>5. k.code \notin {157, 170, 182, 29, 58, 42, 54, 224} /\ k.code \in Nat /\ k.code < 128
    BY <1>1, <1>2
  <1> HIDE DEF up
  <1>6. \A b : b \notin {157, 170, 182, 29, 58, 42, 54, 224} => NoModByte(b)
    BY DEF NoModByte, Dec!E0, Dec!CtrlCode, Dec!CapsCode, Dec!ShiftCodes, Dec!Up
  <1> QED
    BY <1>3, <1>4, <1>5, <1>6 DEF up

\* A modifier has no prefix, and no other key of the keyboard is the same modifier.
LEMMA ModKeys ==
    ASSUME Dec!OneOfEach, NEW k \in PhysKeys, Dec!IsModifier(k)
    PROVE  /\ ~k.ext /\ k.code \in {29, 58, 42, 54}
           /\ \A j \in PhysKeys : j.code = k.code => j = k
           /\ k.code \in {42, 54} => \A j \in PhysKeys : j.code \in {42, 54} => j = k
  <1>1. ~k.ext
    BY DEF Dec!OneOfEach
  <1>2. k.code \in {29, 58, 42, 54}
    BY DEF Dec!IsModifier, Dec!CtrlCode, Dec!CapsCode, Dec!ShiftCodes
  <1>3. \A j \in PhysKeys : (j.code = k.code \/ {j.code, k.code} \subseteq Dec!ShiftCodes) => j = k
    <2>1. ASSUME NEW j \in PhysKeys, j.code = k.code \/ {j.code, k.code} \subseteq Dec!ShiftCodes
          PROVE  j = k
      <3>1. Dec!IsModifier(j)
        BY <2>1 DEF Dec!IsModifier
      <3> QED
        BY <2>1, <3>1 DEF Dec!OneOfEach
    <2> QED
      BY <2>1
  <1> QED
    BY <1>1, <1>2, <1>3 DEF Dec!ShiftCodes

LEMMA LegendAppends ==
    ASSUME DecTypes, Follows, NEW k \in PhysKeys, Dec!OneOfEach
    PROVE  /\ meant \o Dec!Legend(k) \in Seq(Key)
           /\ Dec!IsModifier(k) => meant \o Dec!Legend(k) = meant
           /\ (~Dec!IsModifier(k) /\ k.ext) => meant \o Dec!Legend(k) = ExtAfter(meant, k.code)
           /\ (~Dec!IsModifier(k) /\ ~k.ext) =>
                  meant \o Dec!Legend(k)
                      = PlainAfter(meant, k.code, Bit(Dec!CtrlHeld), Bit(Dec!ShiftHeld), Bit(capsOn))
  <1>0. meant \in Seq(Key)
    BY DEF Follows
  <1>1. CASE Dec!IsModifier(k)
    <2>1. Dec!Legend(k) = <<>>
      BY <1>1 DEF Dec!Legend
    <2> QED
      BY <1>0, <1>1, <2>1, ConcatEmptySeq
  <1>2. CASE ~Dec!IsModifier(k) /\ k.ext
    <2> DEFINE e == [name |-> ExtMap[k.code].name, mod |-> "plain"]
    <2>1. k.code \in DOMAIN ExtMap
      BY <1>2, KeyBytes
    <2>2. e \in Key
      BY <2>1, MapKeys
    <2>3. Dec!Legend(k) = <<e>>
      BY <1>2 DEF Dec!Legend
    <2>4. ExtAfter(meant, k.code) = Append(meant, e)
      BY <2>1 DEF ExtAfter
    <2> HIDE DEF e
    <2>5. meant \o <<e>> = Append(meant, e) /\ Append(meant, e) \in Seq(Key)
      BY <1>0, <2>2, AppendIsConcat, AppendProperties
    <2> QED
      BY <1>2, <2>3, <2>4, <2>5
  <1>3. CASE ~Dec!IsModifier(k) /\ ~k.ext
    <2> DEFINE e == WithBits(PlainMap[k.code], Bit(Dec!CtrlHeld), Bit(Dec!ShiftHeld), Bit(capsOn))
    <2>1. k.code \in DOMAIN PlainMap
      BY <1>3, KeyBytes
    <2>2. e \in Key
      BY <2>1, MapKeys
    <2>3. Dec!Legend(k) = <<e>>
      <3>1. Dec!Legend(k) = <<Dec!Modified(PlainMap[k.code], Dec!CtrlHeld, Dec!ShiftHeld, capsOn)>>
        BY <1>3 DEF Dec!Legend
      <3>2. e = Dec!Modified(PlainMap[k.code], Dec!CtrlHeld, Dec!ShiftHeld, capsOn)
        <4>1. capsOn \in BOOLEAN /\ Dec!CtrlHeld \in BOOLEAN /\ Dec!ShiftHeld \in BOOLEAN
          BY DEF DecTypes, Dec!CtrlHeld, Dec!ShiftHeld
        <4> QED
          BY <4>1, ModifiedBits
      <3> QED
        BY <3>1, <3>2
    <2>4. PlainAfter(meant, k.code, Bit(Dec!CtrlHeld), Bit(Dec!ShiftHeld), Bit(capsOn))
            = Append(meant, e)
      BY <2>1 DEF PlainAfter
    <2> HIDE DEF e
    <2>5. meant \o <<e>> = Append(meant, e) /\ Append(meant, e) \in Seq(Key)
      BY <1>0, <2>2, AppendIsConcat, AppendProperties
    <2> QED
      BY <1>3, <2>3, <2>4, <2>5
  <1> QED
    BY <1>1, <1>2, <1>3

\* What one byte of a modifier does.
LEMMA DecodeModByte ==
    ASSUME NEW c, NEW s, NEW l, NEW g
    PROVE  /\ Decode(State(0, c, s, l, g), 29) = State(0, 1, s, l, g)
           /\ Decode(State(0, c, s, l, g), 157) = State(0, 0, s, l, g)
           /\ \A b \in {42, 54} : Decode(State(0, c, s, l, g), b) = State(0, c, 1, l, g)
           /\ \A b \in {170, 182} : Decode(State(0, c, s, l, g), b) = State(0, c, 0, l, g)
           /\ Decode(State(0, c, s, l, g), 58) = State(0, c, s, 1 - l, g)
           /\ Decode(State(0, c, s, l, g), 186) = State(0, c, s, l, g)
  <1> USE DEF Decode, State, Bit, Dec!E0, Dec!CtrlCode, Dec!ShiftCodes, Dec!CapsCode, Dec!Up
  <1>1. Decode(State(0, c, s, l, g), 29) = State(0, 1, s, l, g)
    OBVIOUS
  <1>2. Decode(State(0, c, s, l, g), 157) = State(0, 0, s, l, g)
    OBVIOUS
  <1>3. \A b \in {42, 54} : Decode(State(0, c, s, l, g), b) = State(0, c, 1, l, g)
    OBVIOUS
  <1>4. \A b \in {170, 182} : Decode(State(0, c, s, l, g), b) = State(0, c, 0, l, g)
    OBVIOUS
  <1>5. Decode(State(0, c, s, l, g), 58) = State(0, c, s, 1 - l, g)
    OBVIOUS
  <1>6. Decode(State(0, c, s, l, g), 186) = State(0, c, s, l, g)
    OBVIOUS
  <1> QED
    BY ONLY <1>1, <1>2, <1>3, <1>4, <1>5, <1>6

\* A press: the state to come is the one promised.
LEMMA PressKept ==
    ASSUME DecTypes, Follows, Dec!OneOfEach, NEW k \in PhysKeys, Dec!Press(k)
    PROVE  Promised' = After(Promised, k, k.code)
  <1> DEFINE c == Bit(Dec!CtrlHeld)
             s == Bit(Dec!ShiftHeld)
             l == Bit(capsOn)
  <1>1. held' = held \cup {k} /\ meant' = meant \o Dec!Legend(k)
    BY DEF Dec!Press
  <1>2. Bit(capsOn') = IF k.code = 58 THEN 1 - l ELSE l
    BY CapsPressed
  <1>3. Bit(Dec!CtrlHeld') = IF k.code = 29 THEN 1 ELSE c
    BY <1>1 DEF Bit, Dec!CtrlHeld, Dec!CtrlCode
  <1>4. Bit(Dec!ShiftHeld') = IF k.code \in {42, 54} THEN 1 ELSE s
    BY <1>1 DEF Bit, Dec!ShiftHeld, Dec!ShiftCodes
  <1>5. Promised = State(0, c, s, l, meant)
    BY DEF Promised
  <1>6. Promised' = State(0, Bit(Dec!CtrlHeld'), Bit(Dec!ShiftHeld'), Bit(capsOn'), meant')
    BY DEF Promised
  <1>7. CASE Dec!IsModifier(k)
    <2>1. meant' = meant
      BY <1>1, <1>7, LegendAppends
    <2>2. ~k.ext /\ k.code \in {29, 58, 42, 54}
      BY <1>7, ModKeys
    <2>3. After(Promised, k, k.code) = Decode(State(0, c, s, l, meant), k.code)
      BY <1>5, <2>2 DEF After
    <2> HIDE DEF c, s, l
    <2>4. CASE k.code = 29
      BY <1>2, <1>3, <1>4, <1>6, <2>1, <2>3, <2>4, DecodeModByte
    <2>5. CASE k.code \in {42, 54}
      BY <1>2, <1>3, <1>4, <1>6, <2>1, <2>3, <2>5, DecodeModByte
    <2>6. CASE k.code = 58
      BY <1>2, <1>3, <1>4, <1>6, <2>1, <2>3, <2>6, DecodeModByte
    <2> QED
      BY <2>2, <2>4, <2>5, <2>6
  <1>8. CASE ~Dec!IsModifier(k)
    <2>1. k.code \in Nat /\ k.code < 128 /\ NoModByte(k.code)
      BY <1>8, KeyBytes
    <2>2. k.code \notin {29, 58, 42, 54}
      BY <2>1 DEF NoModByte, Dec!CtrlCode, Dec!CapsCode, Dec!ShiftCodes
    <2>3. Promised' = State(0, c, s, l, meant')
      BY <1>2, <1>3, <1>4, <1>6, <2>2
    <2>4. CASE k.ext
      <3>1. meant' = ExtAfter(meant, k.code)
        BY <1>1, <1>8, <2>4, LegendAppends
      <3>2. Decode(Promised, Dec!E0) = State(1, c, s, l, meant)
        BY <1>5, DecodePrefix
      <3>3. Decode(State(1, c, s, l, meant), k.code) = State(0, c, s, l, ExtAfter(meant, k.code))
        BY <2>1, DecodeKey
      <3> QED
        BY <2>3, <2>4, <3>1, <3>2, <3>3 DEF After
    <2>5. CASE ~k.ext
      <3>1. meant' = PlainAfter(meant, k.code, c, s, l)
        BY <1>1, <1>8, <2>5, LegendAppends
      <3>2. Decode(Promised, k.code) = State(0, c, s, l, PlainAfter(meant, k.code, c, s, l))
        <4> HIDE DEF c, s, l
        <4> QED
          BY <1>5, <2>1, DecodeKey
      <3> QED
        BY <2>3, <2>5, <3>1, <3>2 DEF After
    <2> QED
      BY <2>4, <2>5
  <1> QED
    BY <1>7, <1>8

\* A release likewise.
LEMMA ReleaseKept ==
    ASSUME DecTypes, Follows, Dec!OneOfEach, NEW k \in PhysKeys, Dec!Release(k)
    PROVE  Promised' = After(Promised, k, Dec!Up(k.code))
  <1> DEFINE c == Bit(Dec!CtrlHeld)
             s == Bit(Dec!ShiftHeld)
             l == Bit(capsOn)
             up == Dec!Up(k.code)
  <1>1. k \in held /\ held' = held \ {k} /\ meant' = meant /\ capsOn' = capsOn /\ held \subseteq PhysKeys
    BY DEF Dec!Release, DecTypes
  <1>2. Promised = State(0, c, s, l, meant)
    BY DEF Promised
  <1>3. Promised' = State(0, Bit(Dec!CtrlHeld'), Bit(Dec!ShiftHeld'), l, meant)
    BY <1>1 DEF Promised, Bit
  <1>4. Bit(Dec!CtrlHeld') = IF k.code = 29 THEN 0 ELSE c
    <2>1. CASE k.code = 29
      <3>1. \A j \in PhysKeys : j.code = 29 => j = k
        BY <2>1, ModKeys DEF Dec!IsModifier, Dec!CtrlCode
      <3> QED
        BY <1>1, <2>1, <3>1 DEF Bit, Dec!CtrlHeld, Dec!CtrlCode
    <2>2. CASE k.code # 29
      BY <1>1, <2>2 DEF Bit, Dec!CtrlHeld, Dec!CtrlCode
    <2> QED
      BY <2>1, <2>2
  <1>5. Bit(Dec!ShiftHeld') = IF k.code \in {42, 54} THEN 0 ELSE s
    <2>1. CASE k.code \in {42, 54}
      <3>1. \A j \in PhysKeys : j.code \in {42, 54} => j = k
        BY <2>1, ModKeys DEF Dec!IsModifier, Dec!ShiftCodes
      <3> QED
        BY <1>1, <2>1, <3>1 DEF Bit, Dec!ShiftHeld, Dec!ShiftCodes
    <2>2. CASE k.code \notin {42, 54}
      BY <1>1, <2>2 DEF Bit, Dec!ShiftHeld, Dec!ShiftCodes
    <2> QED
      BY <2>1, <2>2
  <1>6. CASE Dec!IsModifier(k)
    <2>1. ~k.ext /\ k.code \in {29, 58, 42, 54}
      BY <1>6, ModKeys
    <2>2. After(Promised, k, up) = Decode(State(0, c, s, l, meant), k.code + 128)
      BY <1>2, <2>1 DEF After, Dec!Up
    <2> HIDE DEF c, s, l
    <2>3. CASE k.code = 29
      BY <1>3, <1>4, <1>5, <2>2, <2>3, DecodeModByte
    <2>4. CASE k.code \in {42, 54}
      BY <1>3, <1>4, <1>5, <2>2, <2>4, DecodeModByte
    <2>5. CASE k.code = 58
      BY <1>3, <1>4, <1>5, <2>2, <2>5, DecodeModByte
    <2> QED
      BY <2>1, <2>3, <2>4, <2>5
  <1>7. CASE ~Dec!IsModifier(k)
    <2>1. up \in Nat /\ up >= 128 /\ NoModByte(up) /\ NoModByte(k.code)
      BY <1>7, KeyBytes
    <2>2. k.code \notin {29, 58, 42, 54}
      BY <2>1 DEF NoModByte, Dec!CtrlCode, Dec!CapsCode, Dec!ShiftCodes
    <2>3. Promised' = State(0, c, s, l, meant)
      BY <1>3, <1>4, <1>5, <2>2
    <2>4. Decode(Promised, Dec!E0) = State(1, c, s, l, meant)
      BY <1>2, DecodePrefix
    <2> HIDE DEF c, s, l, up
    <2>5. \A x : Decode(State(x, c, s, l, meant), up) = State(0, c, s, l, meant)
      BY <2>1, DecodeUp
    <2>6. After(Promised, k, up) = State(0, c, s, l, meant)
      BY <1>2, <2>4, <2>5 DEF After
    <2> QED
      BY <2>3, <2>6 DEF up
  <1> QED
    BY <1>6, <1>7

LEMMA FollowsInit == DriverInit => Follows
  <1> SUFFICES ASSUME DriverInit PROVE Follows
    OBVIOUS
  <1>1. /\ wire = <<>> /\ held = {} /\ got = <<>> /\ meant = <<>> /\ extended = FALSE
        /\ ctrl = FALSE /\ shift = FALSE /\ caps = FALSE /\ capsOn = FALSE
    BY DEF DriverInit, Dec!Init
  <1>2. ~Dec!CtrlHeld /\ ~Dec!ShiftHeld
    BY <1>1 DEF Dec!CtrlHeld, Dec!ShiftHeld
  <1>3. Now = Promised
    BY <1>1, <1>2 DEF Now, Promised, Bit
  <1>4. Lands(Now, wire, Promised)
    BY <1>1, <1>3, LandsEmpty
  <1>5. meant \in Seq(Key)
    BY <1>1
  <1> QED
    BY <1>4, <1>5 DEF Follows

LEMMA FollowsStep == Dec!OneOfEach /\ DecTypes /\ Follows /\ [DriverNext]_driver => Follows'
  <1> SUFFICES ASSUME Dec!OneOfEach, DecTypes, Follows, [DriverNext]_driver PROVE Follows'
    OBVIOUS
  <1>0. meant \in Seq(Key) /\ Lands(Now, wire, Promised)
    BY DEF Follows
  <1>1. ASSUME NEW k \in PhysKeys, Dec!Press(k) PROVE Follows'
    <2>1. Lands(Now', wire', After(Promised, k, k.code))
      <3>1. wire' = wire \o Dec!Bytes(k, k.code) /\ UNCHANGED <<extended, ctrl, shift, caps, got>>
        BY <1>1 DEF Dec!Press, Dec!decoder
      <3> QED
        BY <1>0, <3>1, UpIsByte, TypingLands
    <2>2. meant' \in Seq(Key)
      BY <1>1, LegendAppends DEF Dec!Press
    <2> QED
      BY <1>1, <2>1, <2>2, PressKept DEF Follows
  <1>2. ASSUME NEW k \in PhysKeys, Dec!Release(k) PROVE Follows'
    <2>1. Lands(Now', wire', After(Promised, k, Dec!Up(k.code)))
      <3>1. /\ wire' = wire \o Dec!Bytes(k, Dec!Up(k.code))
            /\ UNCHANGED <<extended, ctrl, shift, caps, got>>
        BY <1>2 DEF Dec!Release, Dec!decoder
      <3> QED
        BY <1>0, <3>1, UpIsByte, TypingLands
    <2>2. meant' = meant
      BY <1>2 DEF Dec!Release
    <2> QED
      BY <1>0, <1>2, <2>1, <2>2, ReleaseKept DEF Follows
  <1>3. CASE HandleIrq
    <2>1. Dec!Irq
      BY <1>3 DEF HandleIrq, NoKeyIrq, QueuedIrq, DroppedIrq
    <2>2. UNCHANGED <<held, capsOn, meant>>
      BY <2>1 DEF Dec!Irq
    <2>3. Promised' = Promised
      BY <2>2 DEF Promised, Bit, Dec!CtrlHeld, Dec!ShiftHeld
    <2> QED
      BY <1>0, <2>1, <2>2, <2>3, IrqLands DEF Follows
  <1>4. CASE PollEvent \/ UNCHANGED driver
    <2>1. UNCHANGED <<held, capsOn, meant, wire, extended, ctrl, shift, caps, got>>
      BY <1>4 DEF PollEvent, driver, decoding
    <2>2. Promised' = Promised /\ Now' = Now
      BY <2>1 DEF Promised, Now, Bit, Dec!CtrlHeld, Dec!ShiftHeld
    <2> QED
      BY <1>0, <2>1, <2>2 DEF Follows
  <1> QED
    BY <1>1, <1>2, <1>3, <1>4 DEF DriverNext, Typing

\* On every keyboard the decoder can follow, with any key maps and however presses, repeats and
\* releases overlap: once every byte has come, the keys decoded are the keys typed.
THEOREM KeysAreDecoded == Dec!OneOfEach => (DriverSpec => []DecodesWhatIsTyped)
  <1> SUFFICES ASSUME Dec!OneOfEach PROVE DriverSpec => []DecodesWhatIsTyped
    OBVIOUS
  <1>1. Follows => DecodesWhatIsTyped
    <2> SUFFICES ASSUME Follows, wire = <<>> PROVE got = meant
      BY DEF DecodesWhatIsTyped, Dec!DecodesWhatIsTyped
    <2>1. Now = Promised
      BY LandsEmpty DEF Follows
    <2> QED
      BY <2>1 DEF Now, Promised, State
  <1>2. DecTypes /\ Follows /\ [DriverNext]_driver => Follows'
    BY FollowsStep
  <1> QED
    BY <1>1, <1>2, DecTypesInit, DecTypesStep, FollowsInit, PTL DEF DriverSpec

\* From the fingers to the shell: on such a keyboard the shell handles what was typed, in that
\* order, as long as the queue has room; even then it handles nothing that was not decoded.
THEOREM ShellGetsWhatIsTyped == Dec!OneOfEach => (DriverSpec => []HandlesWhatIsTyped)
  BY DriverKeepsKeys, KeysAreDecoded, PTL
=============================================================================
