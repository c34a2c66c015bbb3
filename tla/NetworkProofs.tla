---------------------------- MODULE NetworkProofs ----------------------------
(***************************************************************************)
(* Theorems about the network: the receive ring of the card (RxRing) for   *)
(* every size of ring, slack and packets, and the fetches (NetFetch) for   *)
(* any hosts, answers, buffer and faults.                                  *)
(***************************************************************************)
EXTENDS NetFetch, RxRing, SequenceTheorems, WellFoundedInduction, TLAPS

-----------------------------------------------------------------------------
(* The receive ring *)

\* The remainders the ring takes: of an offset inside it, and of one less than a ring behind it.
LEMMA ModFacts ==
    ASSUME NEW n \in Nat \ {0}, NEW a \in Int
    PROVE  /\ a % n \in 0 .. n - 1
           /\ (0 <= a /\ a < n) => a % n = a
           /\ (n <= a /\ a < n + n) => a % n = a - n
<1> DEFINE q == a \div n
           r == a % n
<1>1. q \in Int /\ r \in 0 .. n - 1 /\ a = n * q + r
  OBVIOUS
<1> HIDE DEF q, r
<1>2. ASSUME 0 <= a, a < n PROVE r = a
  <2>1. ~ (q <= -1)
    <3>1. q <= -1 => n * q <= -n
      BY <1>1
    <3> QED  BY <1>1, <1>2, <3>1
  <2>2. ~ (q >= 1)
    <3>1. q >= 1 => n * q >= n
      BY <1>1
    <3> QED  BY <1>1, <1>2, <3>1
  <2>3. q = 0
    BY <1>1, <2>1, <2>2
  <2> QED  BY <1>1, <2>3
<1>3. ASSUME n <= a, a < n + n PROVE r = a - n
  <2>1. ~ (q <= 0)
    <3>1. q <= 0 => n * q <= 0
      BY <1>1
    <3> QED  BY <1>1, <1>3, <3>1
  <2>2. ~ (q >= 2)
    <3>1. q >= 2 => n * q >= n + n
      BY <1>1
    <3> QED  BY <1>1, <1>3, <3>1
  <2>3. q = 1
    BY <1>1, <2>1, <2>2
  <2> QED  BY <1>1, <2>3
<1> QED  BY <1>1, <1>2, <1>3 DEF r

\* No unit of the buffer is of a packet that has not been received.
Known == \A i \in 0 .. BufSize - 1 : mem[i][1] <= Len(size)

\* Where the card puts the next packet, had the ring no end.
End == IF lap = 0 THEN cbr ELSE RingSize + cbr

\* The packets lie behind each other at at[1], at[2], ... as the card wrote them; the driver has
\* handed over the first Len(got) of them and looks for its next header where the next one begins,
\* or will begin.  Packets in use are packets of the ring.
Placed(at) ==
    /\ at[Len(size) + 1] = End /\ End < RingSize + Slack
    /\ \A k \in 1 .. Len(size) : /\ at[k + 1] = at[k] + size[k]
                                 /\ at[k + 1] <= End
                                 /\ Whole(at[k], size[k], k)
    /\ Len(got) <= Len(size)
    /\ \A i \in 1 .. Len(got) : got[i] = i
    /\ offset = at[Len(got) + 1]
    /\ \A i \in 1 .. Len(using) :
          \E k \in 1 .. Len(size) : using[i].at = at[k] /\ using[i].size = size[k]

\* That is so until the card goes on at the start of the ring.
InPlace == lap < 2 => \E at \in [1 .. Len(size) + 1 -> Nat] : Placed(at)

\* The ring's assumption, conjunct by conjunct.
LEMMA Units ==
    /\ RingSize \in Nat \ {0} /\ Slack \in Nat \ {0} /\ BufPad \in Nat \ {0}
    /\ MaxPackets \in Nat \ {0} /\ MaxNest \in Nat \ {0}
    /\ BufSize \in Nat /\ BufSize = RingSize + Slack + BufPad
    /\ \A s \in PacketSizes : s \in Nat /\ s >= 2 /\ s < RingSize /\ s <= Slack
<1>1. RingSize \in Nat \ {0} /\ Slack \in Nat \ {0} /\ BufPad \in Nat \ {0}
      /\ MaxPackets \in Nat \ {0} /\ MaxNest \in Nat \ {0}
  BY RingAssumption
<1>2. \A s \in PacketSizes : s \in Nat /\ s >= 2 /\ s < RingSize /\ s <= Slack
  BY <1>1, RingAssumption
<1> QED  BY <1>1, <1>2 DEF BufSize

\* The type invariant, conjunct by conjunct.
LEMMA RingHas ==
    ASSUME RingTypeOK
    PROVE  /\ mem \in [0 .. BufSize - 1 -> (0 .. MaxPackets) \X Nat]
           /\ size \in Seq(PacketSizes) /\ Len(size) \in 0 .. MaxPackets
           /\ cbr \in 0 .. RingSize - 1 /\ capr \in 0 .. RingSize - 1
           /\ offset \in 0 .. RingSize + Slack - 1 /\ offset \in 0 .. BufSize - 1
           /\ capr = offset % RingSize
           /\ using \in Seq([at : 0 .. BufSize - 1, size : PacketSizes])
           /\ Len(using) \in 0 .. MaxNest
           /\ got \in Seq(0 .. MaxPackets) /\ Len(got) \in Nat
           /\ lap \in 0 .. 2
<1>1. /\ mem \in [0 .. BufSize - 1 -> (0 .. MaxPackets) \X Nat]
      /\ size \in Seq(PacketSizes) /\ Len(size) <= MaxPackets
      /\ cbr \in 0 .. RingSize - 1 /\ capr \in 0 .. RingSize - 1
      /\ offset \in 0 .. RingSize + Slack - 1
      /\ capr = offset % RingSize
      /\ using \in Seq([at : 0 .. BufSize - 1, size : PacketSizes])
      /\ Len(using) <= MaxNest
      /\ got \in Seq(0 .. MaxPackets)
      /\ lap \in 0 .. 2
  BY DEF RingTypeOK
<1>2. Len(size) \in Nat /\ Len(using) \in Nat /\ Len(got) \in Nat
  BY <1>1
<1>3. Len(size) \in 0 .. MaxPackets /\ Len(using) \in 0 .. MaxNest
  BY <1>1, <1>2, Units
<1>4. offset \in 0 .. BufSize - 1
  BY <1>1, Units
<1> QED  BY ONLY <1>1, <1>2, <1>3, <1>4

\* rtl8139_init leaves the ring empty.
LEMMA RingInitTypes == RingInit => RingTypeOK /\ Known
<1> SUFFICES ASSUME RingInit PROVE RingTypeOK /\ Known
  OBVIOUS
<1>1. mem \in [0 .. BufSize - 1 -> (0 .. MaxPackets) \X Nat]
  <2>1. <<0, 0>> \in (0 .. MaxPackets) \X Nat
    BY Units
  <2> QED  BY <2>1 DEF RingInit
<1>2. \A i \in 0 .. BufSize - 1 : mem[i][1] = 0
  BY DEF RingInit
<1>3. capr = offset % RingSize
  BY Units, ModFacts DEF RingInit
<1>4. 0 \in 0 .. RingSize - 1 /\ 0 \in 0 .. RingSize + Slack - 1 /\ 0 <= MaxPackets /\ 0 <= MaxNest
  BY Units
<1>5. /\ size = <<>> /\ using = <<>> /\ got = <<>>
      /\ cbr = 0 /\ capr = 0 /\ offset = 0 /\ lap = 0 /\ busy = FALSE
  BY DEF RingInit
<1>6. Known
  BY <1>2, <1>5 DEF Known
<1>7. RingTypeOK
  <2>1. /\ size \in Seq(PacketSizes) /\ Len(size) <= MaxPackets
        /\ using \in Seq([at : 0 .. BufSize - 1, size : PacketSizes]) /\ Len(using) <= MaxNest
        /\ got \in Seq(0 .. MaxPackets)
    BY <1>4, <1>5
  <2>2. {cbr, capr} \subseteq 0 .. RingSize - 1 /\ offset \in 0 .. RingSize + Slack - 1
    BY <1>4, <1>5
  <2>3. busy \in BOOLEAN /\ (using # <<>> => busy)
    BY ONLY <1>5
  <2>4. lap \in 0 .. 2
    BY <1>5
  <2> QED  BY ONLY <1>1, <1>3, <2>1, <2>2, <2>3, <2>4 DEF RingTypeOK
<1> QED  BY <1>6, <1>7

\* The card writes inside its buffer and wraps its own offset.
LEMMA ReceiveTypes ==
    ASSUME RingTypeOK, Known, NEW s \in PacketSizes, Receive(s)
    PROVE  RingTypeOK' /\ Known'
<1> DEFINE id == Len(size) + 1
<1>1. s \in Nat /\ s >= 2
  BY Units
<1>2. /\ size \in Seq(PacketSizes) /\ Len(size) \in Nat
      /\ id \in 1 .. MaxPackets
      /\ cbr \in 0 .. RingSize - 1
  <2>1. Len(size) + 1 <= MaxPackets
    BY DEF Receive
  <2> QED  BY <2>1, RingHas, Units
<1>3. size' = Append(size, s) /\ size' \in Seq(PacketSizes) /\ Len(size') = id
  BY <1>2 DEF Receive
<1>4. mem' = [i \in 0 .. BufSize - 1 |->
                 IF i \in cbr .. cbr + s - 1 THEN <<id, i - cbr>> ELSE mem[i]]
  BY DEF Receive, RingTypeOK
<1> HIDE DEF id
<1>5. mem' \in [0 .. BufSize - 1 -> (0 .. MaxPackets) \X Nat]
  <2>1. \A i \in cbr .. cbr + s - 1 : <<id, i - cbr>> \in (0 .. MaxPackets) \X Nat
    BY <1>1, <1>2, Units
  <2>2. \A i \in 0 .. BufSize - 1 : mem[i] \in (0 .. MaxPackets) \X Nat
    BY DEF RingTypeOK
  <2> QED  BY <1>4, <2>1, <2>2
<1>6. Known'
  <2>1. SUFFICES ASSUME NEW i \in 0 .. BufSize - 1 PROVE mem'[i][1] <= id
    BY <1>3 DEF Known, BufSize
  <2>2. mem[i][1] <= Len(size) /\ mem[i][1] \in Int
    BY DEF Known, RingTypeOK
  <2>3. CASE i \in cbr .. cbr + s - 1
    BY <1>2, <1>4, <2>3
  <2>4. CASE ~ (i \in cbr .. cbr + s - 1)
    BY <1>2, <1>4, <2>2, <2>4 DEF id
  <2> QED  BY <2>3, <2>4
<1>7. cbr' \in 0 .. RingSize - 1
  BY <1>1, <1>2, ModFacts, Units DEF Receive
<1>8. lap' \in 0 .. 2
  BY DEF Receive
<1>9. UNCHANGED <<capr, offset, busy, using, got>>
  BY DEF Receive
<1> QED  BY <1>2, <1>3, <1>5, <1>6, <1>7, <1>8, <1>9 DEF RingTypeOK, BufSize

\* What a poll takes for a header.
LEMMA HeaderIs ==
    ASSUME RingTypeOK, Known, NEW h \in Header
    PROVE  h.size \in PacketSizes \cup {0} /\ h.rok \in BOOLEAN
<1> DEFINE p == mem[offset][1]
           u == mem[offset][2]
<1>1. offset \in 0 .. BufSize - 1
  BY Units DEF RingTypeOK
<1>2. p \in Nat /\ p <= Len(size) /\ size \in Seq(PacketSizes)
  BY <1>1 DEF RingTypeOK, Known
<1>3. Header = IF p = 0 THEN {[rok |-> FALSE, size |-> 0]}
               ELSE IF u = 0 THEN {[rok |-> TRUE, size |-> size[p]]}
               ELSE [rok : BOOLEAN, size : PacketSizes \cup {0}]
  BY DEF Header
<1> HIDE DEF p, u
<1>4. CASE p = 0
  <2>1. h = [rok |-> FALSE, size |-> 0]
    BY <1>3, <1>4
  <2> QED  BY <2>1
<1>5. CASE p # 0 /\ u = 0
  <2>1. size[p] \in PacketSizes
    BY <1>2, <1>5
  <2>2. h = [rok |-> TRUE, size |-> size[p]]
    BY <1>3, <1>5
  <2> QED  BY <2>1, <2>2
<1>6. CASE p # 0 /\ u # 0
  BY <1>3, <1>6
<1> QED  BY <1>4, <1>5, <1>6

\* CAPR follows the driver's offset.
LEMMA MoveIsTyped ==
    ASSUME RingTypeOK, NEW o \in 0 .. RingSize + Slack - 1, MoveTo(o)
    PROVE  /\ offset' \in 0 .. RingSize + Slack - 1
           /\ capr' \in 0 .. RingSize - 1
           /\ capr' = offset' % RingSize
BY Units, ModFacts DEF MoveTo

\* The driver never goes on behind the slack.
LEMMA NextOffsetIs ==
    ASSUME RingTypeOK, NEW s \in PacketSizes
    PROVE  NextOffset(s) \in 0 .. RingSize + Slack - 1
<1>1. s \in Nat
  BY Units
<1>2. offset \in Nat
  BY RingHas
<1>3. 0 \in 0 .. RingSize + Slack - 1
  BY Units
<1>4. ASSUME ~ (offset + s >= RingSize + Slack) PROVE offset + s \in 0 .. RingSize + Slack - 1
  BY <1>1, <1>2, <1>4, Units
<1> QED  BY <1>3, <1>4 DEF NextOffset

\* Whatever the driver takes for a header, it stays inside the buffer, and so does what it hands out.
LEMMA PollTypes ==
    ASSUME RingTypeOK, Known, PacketIsInBuffer, Poll
    PROVE  RingTypeOK' /\ Known' /\ PacketIsInBuffer'
<1> DEFINE Use == [at : 0 .. BufSize - 1, size : PacketSizes]
<1>1. UNCHANGED <<mem, size, cbr, busy, lap>> /\ busy = TRUE
  BY DEF Poll, PollCorrupt, PollSkips, PollTakes, RingTypeOK
<1>2. Known'
  BY <1>1 DEF Known, BufSize
<1>3. \E o \in 0 .. RingSize + Slack - 1 : MoveTo(o)
  <2>1. CASE PollCorrupt
    <3>1. 0 \in 0 .. RingSize + Slack - 1
      BY Units
    <3> QED  BY <2>1, <3>1 DEF PollCorrupt
  <2>2. CASE PollSkips \/ PollTakes
    <3>1. PICK h \in Header : ~ Corrupt(h) /\ MoveTo(NextOffset(h.size))
      BY <2>2 DEF PollSkips, PollTakes
    <3>2. h.size \in PacketSizes
      BY <3>1, HeaderIs DEF Corrupt
    <3> QED  BY <3>1, <3>2, NextOffsetIs
  <2> QED  BY <2>1, <2>2 DEF Poll
<1>4. /\ offset' \in 0 .. RingSize + Slack - 1
      /\ capr' \in 0 .. RingSize - 1
      /\ capr' = offset' % RingSize
  BY <1>3, MoveIsTyped
<1>5. /\ using' \in Seq(Use) /\ Len(using') <= MaxNest
      /\ PacketIsInBuffer'
      /\ got' \in Seq(0 .. MaxPackets)
  <2>1. CASE PollCorrupt \/ PollSkips
    <3>1. using' = using /\ got' = got
      BY <2>1 DEF PollCorrupt, PollSkips
    <3> QED  BY <3>1, RingHas DEF PacketIsInBuffer, BufSize
  <2>2. CASE PollTakes
    <3>1. PICK h \in Header : /\ ~ Corrupt(h)
                              /\ using' = Append(using, [at |-> offset, size |-> h.size])
                              /\ LET p == mem[offset][1]
                                 IN  got' = IF lap = 2 \/ Len(got) = MaxPackets THEN got
                                            ELSE Append(got, IF Whole(offset, h.size, p) THEN p ELSE 0)
      BY <2>2 DEF PollTakes
    <3> DEFINE u == [at |-> offset, size |-> h.size]
    <3>2. h.size \in PacketSizes /\ offset + h.size < BufSize
      <4>1. h.size \in PacketSizes
        BY <3>1, HeaderIs DEF Corrupt
      <4>2. ~ (offset + h.size >= BufSize)
        BY <3>1 DEF Corrupt
      <4>3. offset \in Nat /\ h.size \in Nat /\ BufSize \in Nat
        <5>1. offset \in 0 .. BufSize - 1
          BY RingHas
        <5>2. h.size \in Nat /\ BufSize \in Nat
          BY <4>1, Units
        <5> QED  BY ONLY <5>1, <5>2
      <4> QED  BY <4>1, <4>2, <4>3
    <3>3. offset \in 0 .. BufSize - 1 /\ using \in Seq(Use) /\ Len(using) < MaxNest
      BY <2>2, RingHas DEF PollTakes
    <3>4. u \in Use /\ u.at = offset /\ u.size = h.size
      BY <3>2, <3>3
    <3>5. using' = Append(using, u)
      BY <3>1
    <3> HIDE DEF u, Use
    <3>6. using' \in Seq(Use) /\ Len(using') = Len(using) + 1
      BY <3>3, <3>4, <3>5
    <3>7. Len(using') <= MaxNest
      BY <3>3, <3>6, Units
    <3>8. PacketIsInBuffer'
      <4>1. SUFFICES ASSUME NEW i \in 1 .. Len(using) + 1
                     PROVE  using'[i].at + using'[i].size < BufSize
        BY <3>6 DEF PacketIsInBuffer, BufSize
      <4>2. CASE i \in 1 .. Len(using)
        <5>1. using'[i] = using[i]
          BY <3>3, <3>4, <3>5, <4>2
        <5> QED  BY <3>3, <4>2, <5>1 DEF PacketIsInBuffer
      <4>3. CASE i = Len(using) + 1
        <5>1. using'[i] = u
          BY <3>3, <3>4, <3>5, <4>3
        <5> QED  BY <3>2, <3>4, <5>1
      <4> QED  BY <3>3, <4>2, <4>3
    <3>9. got' \in Seq(0 .. MaxPackets)
      <4>1. mem[offset][1] \in 0 .. MaxPackets /\ 0 \in 0 .. MaxPackets
        BY <3>3, RingHas, Units
      <4>2. got \in Seq(0 .. MaxPackets)
        BY RingHas
      <4>3. \/ got' = got
            \/ got' = Append(got, mem[offset][1])
            \/ got' = Append(got, 0)
        BY ONLY <3>1
      <4>4. \A x \in 0 .. MaxPackets : Append(got, x) \in Seq(0 .. MaxPackets)
        BY ONLY <4>2, AppendProperties
      <4> QED  BY ONLY <4>1, <4>2, <4>3, <4>4
    <3> QED  BY <3>6, <3>7, <3>8, <3>9
  <2> QED  BY <2>1, <2>2 DEF Poll
<1>6. BufSize' = BufSize
  BY DEF BufSize
<1>7. /\ mem \in [0 .. BufSize - 1 -> (0 .. MaxPackets) \X Nat]
      /\ size \in Seq(PacketSizes) /\ Len(size) <= MaxPackets
      /\ cbr \in 0 .. RingSize - 1
      /\ lap \in 0 .. 2
  BY DEF RingTypeOK
<1>8. RingTypeOK'
  BY ONLY <1>1, <1>4, <1>5, <1>6, <1>7 DEF RingTypeOK, Use
<1> QED  BY <1>2, <1>5, <1>8

\* A handler that returns takes a packet off the end of those in use.
LEMMA UsedTypes ==
    ASSUME RingTypeOK, Known, PacketIsInBuffer, Used
    PROVE  RingTypeOK' /\ Known' /\ PacketIsInBuffer'
<1> DEFINE Use == [at : 0 .. BufSize - 1, size : PacketSizes]
<1>1. /\ UNCHANGED <<mem, size, cbr, capr, offset, busy, lap, got>>
      /\ using # <<>>
      /\ using' = SubSeq(using, 1, Len(using) - 1)
  BY DEF Used
<1>2. using \in Seq(Use) /\ Len(using) <= MaxNest /\ Len(using) \in Nat \ {0}
  BY <1>1, RingHas, Units
<1> HIDE DEF Use
<1>3. /\ using' \in Seq(Use) /\ Len(using') = Len(using) - 1
      /\ \A i \in 1 .. Len(using) - 1 : using'[i] = using[i]
  <2> DEFINE n == Len(using) - 1
             u == SubSeq(using, 1, n)
  <2>1. n \in Nat /\ n <= Len(using)
    BY <1>2
  <2> HIDE DEF n
  <2>2. u \in Seq(Use) /\ Len(u) = n /\ \A i \in 1 .. n : u[i] = using[i]
    BY ONLY <1>2, <2>1
  <2> QED  BY <1>1, <2>2 DEF n
<1>4. PacketIsInBuffer'
  BY <1>2, <1>3 DEF PacketIsInBuffer, BufSize
<1>5. Known'
  BY <1>1 DEF Known, BufSize
<1>6. Len(using') <= MaxNest /\ busy = TRUE
  BY <1>1, <1>2, <1>3, Units DEF RingTypeOK
<1>7. RingTypeOK'
  BY <1>1, <1>3, <1>6 DEF RingTypeOK, Use, BufSize
<1> QED  BY <1>4, <1>5, <1>7

\* An empty ring has no packet, and the first one will begin at its start.
LEMMA RingInitInPlace == RingInit => InPlace
<1> SUFFICES ASSUME RingInit PROVE InPlace
  OBVIOUS
<1> DEFINE at == [k \in 1 .. 1 |-> 0]
<1>1. /\ size = <<>> /\ using = <<>> /\ got = <<>>
      /\ cbr = 0 /\ offset = 0 /\ lap = 0
  BY DEF RingInit
<1>2. Len(size) = 0 /\ Len(using) = 0 /\ Len(got) = 0
  BY <1>1
<1>3. End = 0 /\ End < RingSize + Slack
  BY <1>1, Units DEF End
<1>4. at[1] = 0 /\ at \in [1 .. 1 -> Nat]
  OBVIOUS
<1> HIDE DEF at
<1>5. Placed(at)
  BY <1>1, <1>2, <1>3, <1>4 DEF Placed
<1>6. at \in [1 .. Len(size) + 1 -> Nat]
  BY <1>2, <1>4
<1> QED  BY <1>5, <1>6 DEF InPlace

\* The card puts a packet behind the last one.  It writes only from End on, so no packet that
\* is still to be handed over, or is in use, loses a unit of its own.
LEMMA ReceiveInPlace ==
    ASSUME RingTypeOK, InPlace, NEW s \in PacketSizes, Receive(s)
    PROVE  InPlace'
<1>1. SUFFICES ASSUME lap' < 2 PROVE \E at \in [1 .. Len(size') + 1 -> Nat] : Placed(at)'
  BY DEF InPlace
<1>2. lap = 0
  BY <1>1, RingHas DEF Receive
<1>3. PICK at \in [1 .. Len(size) + 1 -> Nat] : Placed(at)
  BY <1>2 DEF InPlace
<1> DEFINE n == Len(size)
<1>4. n \in Nat /\ cbr \in 0 .. RingSize - 1 /\ s \in Nat /\ s >= 2 /\ s < RingSize /\ s <= Slack
  BY RingHas, Units
<1>5. /\ size' = Append(size, s)
      /\ Len(size') = n + 1
      /\ size'[n + 1] = s
      /\ \A k \in 1 .. n : size'[k] = size[k]
  <2>1. size' = Append(size, s) /\ size \in Seq(PacketSizes)
    BY RingHas DEF Receive
  <2> QED  BY <2>1
<1>6. /\ at[n + 1] = cbr
      /\ \A k \in 1 .. n : at[k + 1] = at[k] + size[k] /\ at[k + 1] <= cbr /\ Whole(at[k], size[k], k)
      /\ Len(got) <= n
      /\ \A i \in 1 .. Len(got) : got[i] = i
      /\ offset = at[Len(got) + 1]
      /\ \A i \in 1 .. Len(using) :
            \E k \in 1 .. n : using[i].at = at[k] /\ using[i].size = size[k]
  BY <1>2, <1>3 DEF Placed, End
<1>7. UNCHANGED <<offset, using, got>>
  BY DEF Receive
<1>8. End' = cbr + s /\ cbr + s < RingSize + Slack
  <2>1. lap' = (IF cbr + s >= RingSize THEN 1 ELSE 0) /\ cbr' = (cbr + s) % RingSize
    BY <1>2 DEF Receive
  <2>2. CASE cbr + s >= RingSize
    <3>1. lap' = 1
      BY <2>1, <2>2
    <3>2. (cbr + s) % RingSize = (cbr + s) - RingSize
      <4>1. RingSize \in Nat \ {0}
        BY Units
      <4>2. cbr + s \in Int /\ RingSize <= cbr + s /\ cbr + s < RingSize + RingSize
        BY <1>4, <4>1, <2>2
      <4> QED  BY ONLY <4>1, <4>2, ModFacts
    <3> QED  BY <1>4, <2>1, <3>1, <3>2, Units DEF End
  <2>3. CASE ~ (cbr + s >= RingSize)
    <3>1. lap' = 0
      BY <2>1, <2>3
    <3>2. (cbr + s) % RingSize = cbr + s
      <4>1. RingSize \in Nat \ {0}
        BY Units
      <4>2. cbr + s \in Int /\ 0 <= cbr + s /\ cbr + s < RingSize
        BY <1>4, <4>1, <2>3
      <4> QED  BY ONLY <4>1, <4>2, ModFacts
    <3> QED  BY <1>4, <2>1, <3>1, <3>2, Units DEF End
  <2> QED  BY <2>2, <2>3
<1>9. \A i \in 0 .. BufSize - 1 :
          mem'[i] = IF i \in cbr .. cbr + s - 1 THEN <<n + 1, i - cbr>> ELSE mem[i]
  BY RingHas DEF Receive
<1> HIDE DEF n
<1>18. PICK to : to = [k \in 1 .. n + 2 |-> IF k <= n + 1 THEN at[k] ELSE cbr + s]
  OBVIOUS
<1>10. to \in [1 .. n + 2 -> Nat]
  BY <1>3, <1>4, <1>18 DEF n
<1>11. /\ \A k \in 1 .. n + 1 : to[k] = at[k] /\ at[k] \in Nat
       /\ to[n + 2] = cbr + s
  BY <1>3, <1>4, <1>18 DEF n
<1>12. \A i \in 0 .. s - 1 : mem'[cbr + i] = <<n + 1, i>>
  <2>1. SUFFICES ASSUME NEW i \in 0 .. s - 1 PROVE mem'[cbr + i] = <<n + 1, i>>
    OBVIOUS
  <2>2. cbr + i \in 0 .. BufSize - 1 /\ cbr + i \in cbr .. cbr + s - 1 /\ (cbr + i) - cbr = i
    BY <1>4, Units
  <2>3. mem'[cbr + i] = <<n + 1, (cbr + i) - cbr>>
    BY ONLY <1>9, <2>2
  <2> QED  BY ONLY <2>2, <2>3
<1>13. \A k \in 1 .. n + 1 : /\ to[k + 1] = to[k] + size'[k]
                             /\ to[k + 1] <= cbr + s
                             /\ \A i \in 0 .. size'[k] - 1 : mem'[to[k] + i] = <<k, i>>
  <2>1. SUFFICES ASSUME NEW k \in 1 .. n + 1
                 PROVE  /\ to[k + 1] = to[k] + size'[k]
                        /\ to[k + 1] <= cbr + s
                        /\ \A i \in 0 .. size'[k] - 1 : mem'[to[k] + i] = <<k, i>>
    BY <2>1
  <2>2. CASE k \in 1 .. n
    <3>1. to[k] = at[k] /\ to[k + 1] = at[k + 1] /\ size'[k] = size[k] /\ at[k] \in Nat
      BY <1>4, <1>5, <1>11, <2>2
    <3>2. size[k] \in Nat
      <4>1. size[k] \in PacketSizes
        BY <2>2, RingHas DEF n
      <4> QED  BY <4>1, Units
    <3>3. at[k + 1] = at[k] + size[k] /\ at[k + 1] <= cbr
      BY <1>6, <2>2
    <3>4. \A i \in 0 .. size[k] - 1 : mem'[at[k] + i] = <<k, i>>
      <4>1. SUFFICES ASSUME NEW i \in 0 .. size[k] - 1 PROVE mem'[at[k] + i] = <<k, i>>
        OBVIOUS
      <4>2. at[k] + i \in 0 .. BufSize - 1 /\ ~ (at[k] + i \in cbr .. cbr + s - 1)
        BY <1>4, <3>1, <3>2, <3>3, Units
      <4>3. mem'[at[k] + i] = mem[at[k] + i]
        BY ONLY <1>9, <4>2
      <4>4. mem[at[k] + i] = <<k, i>>
        BY <1>6, <2>2 DEF Whole
      <4> QED  BY ONLY <4>3, <4>4
    <3>5. at[k + 1] <= cbr + s
      BY <1>4, <3>1, <3>2, <3>3
    <3> QED  BY ONLY <3>1, <3>3, <3>4, <3>5
  <2>3. CASE k = n + 1
    <3>1. to[k] = cbr /\ to[k + 1] = cbr + s /\ size'[k] = s
      <4>1. n + 1 \in 1 .. n + 1 /\ (n + 1) + 1 = n + 2
        BY <1>4
      <4> QED  BY ONLY <1>5, <1>6, <1>11, <2>3, <4>1
    <3>2. \A i \in 0 .. size'[k] - 1 : mem'[to[k] + i] = <<k, i>>
      BY ONLY <1>12, <2>3, <3>1
    <3>3. cbr + s <= cbr + s
      BY <1>4
    <3> QED  BY ONLY <3>1, <3>2, <3>3
  <2>4. k \in 1 .. n \/ k = n + 1
    BY <1>4
  <2> QED  BY ONLY <2>2, <2>3, <2>4
<1>14. /\ Len(got') <= n + 1
       /\ \A i \in 1 .. Len(got') : got'[i] = i
       /\ offset' = to[Len(got') + 1]
  <2>1. Len(got) \in Nat /\ Len(got) + 1 \in 1 .. n + 1
    BY <1>4, <1>6, RingHas
  <2> QED  BY <1>4, <1>6, <1>7, <1>11, <2>1
<1>15. \A i \in 1 .. Len(using') :
          \E k \in 1 .. n + 1 : using'[i].at = to[k] /\ using'[i].size = size'[k]
  <2>1. SUFFICES ASSUME NEW i \in 1 .. Len(using)
                 PROVE  \E k \in 1 .. n + 1 : using[i].at = to[k] /\ using[i].size = size'[k]
    BY <1>7
  <2>2. PICK k \in 1 .. n : using[i].at = at[k] /\ using[i].size = size[k]
    BY <1>6
  <2>3. k \in 1 .. n + 1 /\ to[k] = at[k] /\ size'[k] = size[k]
    BY <1>4, <1>5, <1>11
  <2> QED  BY <2>2, <2>3
<1>16. Len(size') + 1 = n + 2 /\ Len(size') = n + 1
  BY <1>4, <1>5 DEF n
<1>17. Placed(to)'
  BY ONLY <1>8, <1>11, <1>13, <1>14, <1>15, <1>16 DEF Placed, Whole
<1> QED  BY <1>10, <1>16, <1>17

\* Until the card goes on at the start of the ring, the driver finds the header of the packet that
\* follows those it has handed over, and hands this one over whole.
LEMMA PollInPlace ==
    ASSUME RingTypeOK, InPlace, Poll
    PROVE  InPlace'
<1>1. SUFFICES ASSUME lap' < 2 PROVE \E at \in [1 .. Len(size') + 1 -> Nat] : Placed(at)'
  BY DEF InPlace
<1>2. UNCHANGED <<mem, size, cbr, lap>> /\ lap \in 0 .. 1 /\ cbr # capr
  <2>1. UNCHANGED <<mem, size, cbr, lap>> /\ cbr # capr
    BY DEF Poll, PollCorrupt, PollSkips, PollTakes, Empty
  <2> QED  BY <1>1, <2>1, RingHas
<1>3. PICK at \in [1 .. Len(size) + 1 -> Nat] : Placed(at)
  BY <1>2 DEF InPlace
<1> DEFINE n == Len(size)
           m == Len(got) + 1
<1>4. n \in 0 .. MaxPackets /\ cbr \in 0 .. RingSize - 1 /\ Len(got) \in Nat /\ m \in Nat \ {0}
  BY RingHas
<1>5. /\ at[n + 1] = End /\ End < RingSize + Slack
      /\ \A k \in 1 .. n : at[k + 1] = at[k] + size[k] /\ at[k + 1] <= End /\ Whole(at[k], size[k], k)
      /\ Len(got) <= n
      /\ \A i \in 1 .. Len(got) : got[i] = i
      /\ offset = at[m]
      /\ \A i \in 1 .. Len(using) :
            \E k \in 1 .. n : using[i].at = at[k] /\ using[i].size = size[k]
  BY <1>3 DEF Placed
<1> HIDE DEF n
<1>6. m \in 1 .. n
  <2>1. SUFFICES ASSUME Len(got) = n PROVE FALSE
    BY <1>4, <1>5
  <2>2. offset = End
    BY ONLY <1>5, <2>1
  <2>3. End % RingSize = cbr
    <3>1. RingSize \in Nat \ {0}
      BY Units
    <3>2. CASE lap = 0
      <4>1. End = cbr
        BY <3>2 DEF End
      <4>2. cbr \in Int /\ 0 <= cbr /\ cbr < RingSize
        BY <1>4, <3>1
      <4> QED  BY ONLY <3>1, <4>1, <4>2, ModFacts
    <3>3. CASE lap = 1
      <4>1. End = RingSize + cbr
        BY <3>3 DEF End
      <4>2. RingSize + cbr \in Int /\ RingSize <= RingSize + cbr /\ RingSize + cbr < RingSize + RingSize
        BY <1>4, <3>1
      <4>3. (RingSize + cbr) % RingSize = (RingSize + cbr) - RingSize
        BY ONLY <3>1, <4>2, ModFacts
      <4> QED  BY <1>4, <3>1, <4>1, <4>3
    <3> QED  BY <1>2, <3>2, <3>3
  <2> QED  BY <1>2, <2>2, <2>3, RingHas
<1>7. size[m] \in PacketSizes /\ size[m] \in Nat /\ size[m] >= 2
  <2>1. size[m] \in PacketSizes
    BY <1>6, RingHas DEF n
  <2> QED  BY <2>1, Units
<1>8. offset \in Nat /\ offset + size[m] = at[m + 1] /\ offset + size[m] < RingSize + Slack
  <2>1. offset \in Nat /\ RingSize \in Nat /\ Slack \in Nat
    BY RingHas, Units
  <2>2. at[m + 1] = at[m] + size[m] /\ at[m + 1] <= End
    BY ONLY <1>5, <1>6
  <2>3. End \in Int
    BY <1>4, Units DEF End
  <2> QED  BY ONLY <1>5, <1>7, <2>1, <2>2, <2>3
<1>9. Whole(offset, size[m], m) /\ mem[offset] = <<m, 0>>
  <2>1. Whole(offset, size[m], m)
    BY ONLY <1>5, <1>6
  <2>2. mem[offset + 0] = <<m, 0>>
    BY <1>7, <2>1 DEF Whole
  <2> QED  BY <1>8, <2>1, <2>2
<1>10. Header = {[rok |-> TRUE, size |-> size[m]]}
  BY <1>6, <1>9 DEF Header
<1>11. \A h \in Header : h.rok = TRUE /\ h.size = size[m] /\ ~ Corrupt(h)
  <2>1. SUFFICES ASSUME NEW h \in Header PROVE h.rok = TRUE /\ h.size = size[m] /\ ~ Corrupt(h)
    OBVIOUS
  <2>2. h.rok = TRUE /\ h.size = size[m]
    BY <1>10
  <2>3. size[m] # 0 /\ ~ (offset + size[m] >= BufSize)
    <3>1. BufSize = RingSize + Slack + BufPad /\ {RingSize, Slack, BufPad} \subseteq Nat \ {0}
      BY Units
    <3> QED  BY ONLY <1>7, <1>8, <3>1
  <2> QED  BY <2>2, <2>3 DEF Corrupt
<1>12. NextOffset(size[m]) = at[m + 1]
  <2>1. ~ (offset + size[m] >= RingSize + Slack)
    BY <1>7, <1>8, Units
  <2> QED  BY <1>8, <2>1 DEF NextOffset
<1>13. PollTakes
  BY <1>11 DEF Poll, PollCorrupt, PollSkips
<1>14. /\ offset' = at[m + 1]
       /\ using' = Append(using, [at |-> offset, size |-> size[m]])
       /\ got' = Append(got, m)
  <2>1. PICK h \in Header : /\ MoveTo(NextOffset(h.size))
                            /\ using' = Append(using, [at |-> offset, size |-> h.size])
                            /\ LET p == mem[offset][1]
                               IN  got' = IF lap = 2 \/ Len(got) = MaxPackets THEN got
                                          ELSE Append(got, IF Whole(offset, h.size, p) THEN p ELSE 0)
    BY <1>13 DEF PollTakes
  <2>2. h.size = size[m]
    BY <1>11
  <2>3. offset' = at[m + 1]
    BY <1>12, <2>1, <2>2 DEF MoveTo
  <2>4. lap # 2 /\ Len(got) # MaxPackets
    BY <1>2, <1>4, <1>6
  <2>5. mem[offset][1] = m
    BY <1>9
  <2> QED  BY ONLY <1>9, <2>1, <2>2, <2>3, <2>4, <2>5
<1> HIDE DEF m
<1>15. /\ Len(got') = m
       /\ \A i \in 1 .. m : got'[i] = i
  <2>1. got \in Seq(0 .. MaxPackets) /\ m = Len(got) + 1
    BY RingHas DEF m
  <2>2. m \in 0 .. MaxPackets
    BY <1>4, <1>6, Units
  <2>3. got' = Append(got, m)
    BY <1>14
  <2>4. Len(got') = m /\ got'[m] = m /\ \A i \in 1 .. Len(got) : got'[i] = got[i]
    BY ONLY <2>1, <2>2, <2>3, AppendProperties
  <2>5. \A i \in 1 .. m : i \in 1 .. Len(got) \/ i = m
    BY <1>4, <2>1
  <2>6. \A i \in 1 .. Len(got) : got[i] = i
    BY ONLY <1>5
  <2> QED  BY ONLY <2>4, <2>5, <2>6
<1>16. \A i \in 1 .. Len(using') :
          \E k \in 1 .. n : using'[i].at = at[k] /\ using'[i].size = size[k]
  <2> DEFINE u == [at |-> offset, size |-> size[m]]
  <2>1. u.at = at[m] /\ u.size = size[m]
    BY <1>5
  <2>2. using \in Seq([at : 0 .. BufSize - 1, size : PacketSizes]) /\ using' = Append(using, u)
    BY <1>14, RingHas
  <2> HIDE DEF u
  <2>3. /\ Len(using') = Len(using) + 1 /\ Len(using) \in Nat
        /\ using'[Len(using) + 1] = u
        /\ \A i \in 1 .. Len(using) : using'[i] = using[i]
    BY <2>2
  <2>4. SUFFICES ASSUME NEW i \in 1 .. Len(using) + 1
                 PROVE  \E k \in 1 .. n : using'[i].at = at[k] /\ using'[i].size = size[k]
    BY <2>3
  <2>5. CASE i \in 1 .. Len(using)
    BY <1>5, <2>3, <2>5
  <2>6. CASE i = Len(using) + 1
    BY ONLY <1>6, <2>1, <2>3, <2>6
  <2> QED  BY <2>3, <2>5, <2>6
<1>17. End' = End /\ size' = size /\ mem' = mem
  BY <1>2 DEF End
<1>18. /\ Len(got') <= n
       /\ offset' = at[Len(got') + 1]
  BY <1>6, <1>14, <1>15
<1>19. Placed(at)'
  BY ONLY <1>5, <1>15, <1>16, <1>17, <1>18 DEF Placed, Whole, n
<1> QED  BY <1>17, <1>19

\* A handler that has returned uses its packet no longer; nothing else changes.
LEMMA UsedInPlace ==
    ASSUME RingTypeOK, InPlace, Used
    PROVE  InPlace'
<1>1. /\ UNCHANGED <<mem, size, cbr, capr, offset, busy, lap, got>>
      /\ using # <<>>
      /\ using' = SubSeq(using, 1, Len(using) - 1)
  BY DEF Used
<1>2. Len(using') \in Nat /\ Len(using') <= Len(using) /\ \A i \in 1 .. Len(using') : using'[i] = using[i]
  <2> DEFINE l == Len(using) - 1
             Use == [at : 0 .. BufSize - 1, size : PacketSizes]
  <2>1. using \in Seq(Use) /\ Len(using) \in Nat \ {0}
    BY <1>1, RingHas
  <2>2. l \in Nat /\ l <= Len(using)
    BY <2>1
  <2>3. using' = SubSeq(using, 1, l)
    BY <1>1
  <2> HIDE DEF l, Use
  <2>4. Len(using') = l /\ \A i \in 1 .. l : using'[i] = using[i]
    BY ONLY <2>1, <2>2, <2>3
  <2> QED  BY <2>2, <2>4
<1>3. SUFFICES ASSUME lap < 2 PROVE \E at \in [1 .. Len(size) + 1 -> Nat] : Placed(at)'
  BY <1>1 DEF InPlace
<1>4. PICK at \in [1 .. Len(size) + 1 -> Nat] : Placed(at)
  BY <1>3 DEF InPlace
<1>5. Len(using') \in Nat /\ Len(using) \in Nat
  <2>1. Len(using) \in Nat \ {0}
    BY <1>1, RingHas
  <2> QED  BY <1>2, <2>1
<1>6. \A i \in 1 .. Len(using') :
          \E k \in 1 .. Len(size) : using'[i].at = at[k] /\ using'[i].size = size[k]
  <2>1. \A i \in 1 .. Len(using') : i \in 1 .. Len(using)
    BY <1>2, <1>5
  <2> QED  BY <1>2, <1>4, <2>1 DEF Placed
<1>7. Placed(at)'
  BY ONLY <1>1, <1>4, <1>6 DEF Placed, Whole, End
<1> QED  BY <1>7

\* Operations begin and end without touching the ring.
LEMMA OperateKeeps ==
    ASSUME RingTypeOK, Known, PacketIsInBuffer, InPlace, Operate \/ UNCHANGED ringVars
    PROVE  RingTypeOK' /\ Known' /\ PacketIsInBuffer' /\ InPlace'
<1>1. UNCHANGED <<mem, size, cbr, capr, offset, using, lap, got>>
  BY DEF Operate, ringVars
<1>2. busy' \in BOOLEAN /\ (using' # <<>> => busy')
  BY DEF Operate, ringVars, RingTypeOK
<1>3. RingTypeOK'
  BY <1>1, <1>2 DEF RingTypeOK, BufSize
<1>4. Known' /\ PacketIsInBuffer'
  BY <1>1 DEF Known, PacketIsInBuffer, BufSize
<1>5. End' = End
  BY <1>1 DEF End
<1>6. InPlace'
  <2>1. SUFFICES ASSUME lap < 2 PROVE \E at \in [1 .. Len(size) + 1 -> Nat] : Placed(at)'
    BY <1>1 DEF InPlace
  <2>2. PICK at \in [1 .. Len(size) + 1 -> Nat] : Placed(at)
    BY <2>1 DEF InPlace
  <2>3. Placed(at)'
    BY ONLY <1>1, <1>5, <2>2 DEF Placed, Whole
  <2> QED  BY <2>3
<1> QED  BY <1>3, <1>4, <1>6

\* What holds of the ring after every step, whatever has been received and in whatever order
\* operations poll, wait and end.
RingInv == RingTypeOK /\ Known /\ PacketIsInBuffer /\ InPlace

LEMMA RingIsInductive == RingSpec => []RingInv
<1>1. RingInit => RingInv
  <2>1. RingInit => PacketIsInBuffer
    BY DEF RingInit, PacketIsInBuffer
  <2> QED  BY <2>1, RingInitTypes, RingInitInPlace DEF RingInv
<1>2. RingInv /\ [RingNext]_ringVars => RingInv'
  <2> SUFFICES ASSUME RingInv, [RingNext]_ringVars PROVE RingInv'
    OBVIOUS
  <2>1. RingTypeOK /\ Known /\ PacketIsInBuffer /\ InPlace
    BY DEF RingInv
  <2>2. ASSUME NEW s \in PacketSizes, Receive(s) PROVE RingInv'
    <3>1. PacketIsInBuffer'
      BY <2>1, <2>2 DEF Receive, PacketIsInBuffer, BufSize
    <3> QED  BY <2>1, <2>2, <3>1, ReceiveTypes, ReceiveInPlace DEF RingInv
  <2>3. CASE Poll
    BY <2>1, <2>3, PollTypes, PollInPlace DEF RingInv
  <2>4. CASE Used
    BY <2>1, <2>4, UsedTypes, UsedInPlace DEF RingInv
  <2>5. CASE Operate \/ UNCHANGED ringVars
    BY <2>1, <2>5, OperateKeeps DEF RingInv
  <2> QED  BY <2>2, <2>3, <2>4, <2>5 DEF RingNext
<1> QED  BY <1>1, <1>2, PTL DEF RingSpec

\* Every variable of the ring has its type, and driver and card agree on what has been read: what
\* the driver stores in CAPR, 16 bytes less, comes out at the card as the offset it stands for,
\* also when a packet ends in the slack behind the ring.
THEOREM RingKeepsTypes == RingSpec => []RingTypeOK
<1>1. RingInv => RingTypeOK
  BY DEF RingInv
<1> QED  BY <1>1, RingIsInductive, PTL

\* rtl8139_poll_packet never hands out memory behind the receive buffer, whatever it took for a
\* header: one that is stale, the middle of a packet, or what was never written.
THEOREM PacketStaysInBuffer == RingSpec => []PacketIsInBuffer
<1>1. RingInv => PacketIsInBuffer
  BY DEF RingInv
<1> QED  BY <1>1, RingIsInductive, PTL

\* Until the card goes on at the start of the ring, packets are handed over once each, whole and in
\* the order received, and they stay whole while handlers use them.
THEOREM PacketsComeInOrder == RingSpec => []InOrderUntilWrap
<1>1. RingInv => InOrderUntilWrap
  <2> SUFFICES ASSUME RingInv, lap < 2
               PROVE  /\ Len(got) <= Len(size) /\ \A i \in DOMAIN got : got[i] = i
                      /\ \A i \in DOMAIN using : Whole(using[i].at, using[i].size, mem[using[i].at][1])
    BY DEF InOrderUntilWrap
  <2>1. RingTypeOK
    BY DEF RingInv
  <2>2. PICK at \in [1 .. Len(size) + 1 -> Nat] : Placed(at)
    BY DEF RingInv, InPlace
  <2>3. DOMAIN got = 1 .. Len(got) /\ DOMAIN using = 1 .. Len(using)
    BY <2>1, RingHas
  <2>4. ASSUME NEW i \in 1 .. Len(using)
        PROVE  Whole(using[i].at, using[i].size, mem[using[i].at][1])
    <3>1. PICK k \in 1 .. Len(size) : using[i].at = at[k] /\ using[i].size = size[k]
      BY <2>2 DEF Placed
    <3>2. Whole(at[k], size[k], k)
      BY <2>2 DEF Placed
    <3>3. size[k] \in Nat /\ size[k] >= 2
      <4>1. size[k] \in PacketSizes
        BY <2>1, RingHas
      <4> QED  BY <4>1, Units
    <3>4. at[k] \in Nat
      <4>1. k \in 1 .. Len(size) + 1
        BY <2>1, RingHas
      <4> QED  BY <4>1
    <3>5. mem[at[k]] = <<k, 0>>
      <4>1. 0 \in 0 .. size[k] - 1
        BY <3>3
      <4>2. mem[at[k] + 0] = <<k, 0>>
        BY ONLY <3>2, <4>1 DEF Whole
      <4> QED  BY <3>4, <4>2
    <3> QED  BY <3>1, <3>2, <3>5
  <2> QED  BY <2>2, <2>3, <2>4 DEF Placed
<1> QED  BY <1>1, RingIsInductive, PTL

-----------------------------------------------------------------------------
(* Fetches: the two sides agree on what is under way *)

\* The browser waits for a fetch exactly while net.c has one under way: each of Browse, Leave
\* and the end of a fetch changes g_fetch_state and g_async_state in the same step, and curl,
\* which may take the query or the connection away, touches neither.
THEOREM FetchIsFollowed == Spec => []LoadingIsActive
<1>1. Init => LoadingIsActive
  BY DEF Init, LoadingIsActive, Active
<1>2. LoadingIsActive /\ [Next]_vars => LoadingIsActive'
  <2> SUFFICES ASSUME LoadingIsActive, [Next]_vars
               PROVE  LoadingIsActive'
    OBVIOUS
  <2>1. CASE UNCHANGED <<fetch, async>>
    BY <2>1 DEF LoadingIsActive
  <2>2. ASSUME NEW h \in Host \cup {NoHost}, Browse(h)
        PROVE  LoadingIsActive'
    BY <2>2 DEF Browse, LoadingIsActive, Active
  <2>3. CASE Leave
    BY <2>3 DEF Leave, LoadingIsActive, Active
  <2>4. CASE AsyncSwitch
    <3>1. CASE AsyncDns
      BY <2>4, <3>1 DEF AsyncSwitch, Polling, AsyncDns, Goto, Fail, browser, LoadingIsActive, Active
    <3>2. CASE AsyncConnect
      BY <2>4, <3>2 DEF AsyncSwitch, Polling, AsyncConnect, Goto, Fail, browser, LoadingIsActive, Active
    <3>3. CASE AsyncRecv
      BY <2>4, <3>3 DEF AsyncSwitch, Polling, AsyncRecv, Fail, LoadingIsActive, Active
    <3>4. CASE NothingYet
      BY <3>4, <2>1 DEF NothingYet, browser, machine
    <3> QED
      BY <2>4, <3>1, <3>2, <3>3, <3>4 DEF AsyncSwitch
  <2>5. ASSUME NEW s \in Sender, Fault(s)
        PROVE  LoadingIsActive'
    BY <2>5, <2>1 DEF Fault, browser, machine
  <2>6. ASSUME NEW h \in Host, Curl(h)
        PROVE  LoadingIsActive'
    BY <2>6, <2>1 DEF Curl, browser, machine
  <2>7. CASE Handle
    BY <2>7, <2>1 DEF Handle, browser, machine
  <2>8. CASE CurlTest
    BY <2>8, <2>1 DEF CurlTest, browser, machine
  <2>9. CASE UNCHANGED vars
    BY <2>9, <2>1 DEF vars, browser, machine
  <2> QED
    BY <2>2, <2>3, <2>4, <2>5, <2>6, <2>7, <2>8, <2>9 DEF Next
<1> QED
  BY <1>1, <1>2, PTL DEF Spec

-----------------------------------------------------------------------------
(* Fetches: the answers that are on their way, and whose they are *)

\* What the server of h sends: segments of its own answer, and padding.
Seg(h, k) == [host |-> h, part |-> k]
Data(h) == {Pad} \cup {Seg(h, k) : k \in 1 .. Len(Sizes[h])}
\* A server answers a request for another host with something else.
Other == [host : {NoHost}, part : Nat]
Datum == Other \cup UNION {Data(h) : h \in Host}
Kinds == {"syn", "ack", "data", "fin", "rst"}
Tcp(D) == [kind : Kinds, data : D]
Dns(H) == [kind : {"dns"}, host : H]

\* The i-th packet of an answer, but for its end.
Nth(h, i) == IF i = 1 THEN Pad ELSE Seg(h, i - 1)

\* Packets q go on with the answer of h after its first k packets.
Coming(h, q, k) ==
    /\ k + Len(q) <= Len(Sizes[h]) + 2
    /\ \A i \in 1 .. Len(q) :
          \/ k + i <= Len(Sizes[h]) + 1 /\ q[i].data = Nth(h, k + i)
          \/ i = Len(q) /\ q[i].data = Pad

\* Segments are in order.
Ordered(d) ==
    \A i, j \in 1 .. Len(d) : (i < j /\ d[i] # Pad /\ d[j] # Pad) => d[i].part < d[j].part

\* Nothing of the answer is missing but its end.
Gapless(h, d) ==
    /\ Len(d) <= Len(Sizes[h]) + 2
    /\ \A i \in 1 .. Len(d) : \/ i <= Len(Sizes[h]) + 1 /\ d[i] = Nth(h, i)
                              \/ i = Len(d) /\ d[i] = Pad

\* The bytes of the first k packets.
Bytes(h, k) == IF k = 0 THEN 0 ELSE Total(h)[k - 1] - 1

\* The whole answer fits the buffer.
Fits(h) == Total(h)[Len(Sizes[h])] <= Capacity

\* The connection c has taken k packets of the answer from the card, and q are to come.
InStream(h, k, q, c) ==
    /\ Coming(h, q, k)
    /\ c.state # "syn"
    /\ Ordered(c.rx)
    /\ \A i \in 1 .. Len(c.rx) : c.rx[i] # Pad => c.rx[i].part < k
    /\ Fits(h) =>
          /\ Gapless(h, c.rx)
          /\ (c.state = "est" /\ q # <<>>) =>
                /\ Len(c.rx) = k
                /\ c.len = Bytes(h, k)
                /\ \A i \in 1 .. k : c.rx[i] = Nth(h, i)

\* The network belongs to a fetch from h that has come to the state at.
Ours(h, at) ==
    /\ hostname = h /\ dns.result \in {NoHost, h}
    /\ net["dns"] \in Seq(Dns({NoHost, h}))
    /\ \A s \in Host \ {h} : net[s] = <<>>
    /\ at = "dns" => net[h] = <<>>
    /\ at # "dns" =>
          /\ tcp.ip = h
          /\ net[h] \in Seq(Tcp(Data(h)))
          /\ tcp.rx \in Seq(Data(h))
    /\ (at = "connect" /\ faults = 0) =>
          /\ tcp.rx = <<>> /\ tcp.len = 0
          /\ Len(net[h]) <= 1
          /\ tcp.state = "est" => net[h] = <<>>
    /\ (at = "recv" /\ faults = 0) =>
          \E k \in 0 .. Len(Sizes[h]) + 2 : InStream(h, k, net[h], tcp)

\* The packets a sender sends.
Packets(s) == IF s = "dns" THEN Seq(Dns(Host \cup {NoHost})) ELSE Seq(Tcp(Datum))

\* The types of g_tcp, of g_dns_done and g_dns_result, and of curl's locals.
Connection == [state : {"closed", "syn", "est", "done"}, ip : Host \cup {NoHost}, rx : Seq(Datum),
               len : Nat, done : BOOLEAN]
Query == [done : BOOLEAN, result : Host \cup {NoHost}]
Command == [at : {"none", "dns", "connect", "recv", "got"}, host : Host \cup {NoHost}, attempt : Nat]

\* Every variable has its type, and a connection that has been opened has an address.
NetTypeOK ==
    /\ ready \in BOOLEAN
    /\ fetch \in {"idle", "loading", "ready", "error"}
    /\ want \in Host \cup {NoHost}
    /\ page \in Seq(Datum)
    /\ async \in Active \cup {"idle", "done", "failed"}
    /\ attempt \in Nat
    /\ curl \in Command
    /\ hostname \in Host \cup {NoHost}
    /\ dns \in Query
    /\ tcp \in Connection
    /\ tcp.state # "closed" => tcp.ip \in Host
    /\ pc \in {"loop", "poll", "curl"}
    /\ DOMAIN net = Sender
    /\ \A s \in Sender : net[s] \in Packets(s)
    /\ clean \in SUBSET {"fetch", "curl"}
    /\ events \in Nat
    /\ faults \in Nat

\* The browser fetches from h, or curl does, has come to the state at, and has had the network
\* to itself.
Fetching(h, at) == fetch = "loading" /\ "fetch" \in clean /\ want = h /\ async = at
Curling(h, at) == pc = "curl" /\ "curl" \in clean /\ curl.host = h /\ curl.at = at

\* The turns that the browser and curl take.
Turns ==
    /\ fetch = "loading" => want \in Host
    /\ (fetch = "loading" /\ "fetch" \in clean) => pc # "curl"
    /\ pc = "curl" <=> curl.at # "none"
    /\ pc = "curl" => curl.host \in Host
    /\ "curl" \in clean => pc = "curl"
    /\ curl.at = "got" => tcp.state = "closed"

\* Who has had the network to itself still has it.
Owned ==
    /\ \A h \in Host, at \in Active : Fetching(h, at) => Ours(h, at)
    /\ \A h \in Host, at \in Active : Curling(h, at) => Ours(h, at)

NetInv ==
    /\ NetTypeOK
    /\ LoadingIsActive
    /\ Turns
    /\ Owned
    /\ PageIsRight
    /\ CurlIsRight

-----------------------------------------------------------------------------
(* Answers *)

\* A set with 0 that is closed under successor up to n holds 0 .. n: else there were a least number
\* that is missing, and its predecessor would be missing too.
LEMMA Induction ==
    ASSUME NEW n \in Nat, NEW S, 0 \in S, \A k \in 0 .. n - 1 : k \in S => k + 1 \in S
    PROVE  \A k \in 0 .. n : k \in S
<1> DEFINE Less == {p \in Nat \X Nat : p[1] < p[2]}
           Miss == {k \in 0 .. n : k \notin S}
<1>1. SUFFICES ASSUME Miss # {} PROVE FALSE
  BY <1>1
<1>2. IsWellFoundedOn(Less, Nat)
  BY NatLessThanWellFounded DEF OpToRel
<1>3. Miss \subseteq Nat
  OBVIOUS
<1> HIDE DEF Less
<1>4. PICK k \in Miss : \A j \in Miss : <<j, k>> \notin Less
  BY <1>1, <1>2, <1>3, WFMin
<1>5. k - 1 \in Miss
  BY DEF Miss
<1>6. <<k - 1, k>> \in Less
  BY <1>5 DEF Less
<1> QED  BY <1>4, <1>5, <1>6

\* The assumption, conjunct by conjunct.
LEMMA NetHas ==
    /\ NoHost \notin Host /\ "dns" \notin Host
    /\ Capacity \in Nat
    /\ MaxAttempts \in Nat \ {0}
    /\ \A h \in Host : /\ Sizes[h] \in Seq(Nat \ {0})
                       /\ Len(Sizes[h]) \in Nat \ {0}
                       /\ \A k \in 1 .. Len(Sizes[h]) : Sizes[h][k] \in Nat \ {0}
                       /\ Resets \subseteq 0 .. Len(Sizes[h])
<1>1. /\ NoHost \notin Host /\ "dns" \notin Host
      /\ Capacity \in Nat
      /\ MaxAttempts \in Nat \ {0}
      /\ \A h \in Host : Sizes[h] \in Seq(Nat \ {0}) /\ Sizes[h] # <<>>
      /\ \A h \in Host : Resets \subseteq 0 .. Len(Sizes[h])
  BY NetAssumption
<1>2. ASSUME NEW h \in Host
      PROVE  /\ Len(Sizes[h]) \in Nat \ {0}
             /\ \A k \in 1 .. Len(Sizes[h]) : Sizes[h][k] \in Nat \ {0}
  <2>1. Sizes[h] \in Seq(Nat \ {0}) /\ Sizes[h] # <<>>
    BY <1>1
  <2> QED  BY <2>1
<1> QED  BY <1>1, <1>2

\* The running total of an answer exists, and grows.
LEMMA TotalIs ==
    ASSUME NEW h \in Host
    PROVE  /\ Total(h)[0] = 2
           /\ \A k \in 1 .. Len(Sizes[h]) : Total(h)[k] = Total(h)[k - 1] + Sizes[h][k]
           /\ \A k \in 0 .. Len(Sizes[h]) : /\ Total(h)[k] \in Nat /\ Total(h)[k] >= 2
                                            /\ Total(h)[k] <= Total(h)[Len(Sizes[h])]
<1> DEFINE n == Len(Sizes[h])
           z == Sizes[h]
           Is(g, m) == g = [k \in 0 .. m |-> IF k = 0 THEN 2 ELSE g[k - 1] + z[k]]
           Has == {m \in 0 .. n : \E g : Is(g, m)}
<1>1. n \in Nat /\ 0 \in 0 .. n /\ n \in 0 .. n /\ \A k \in 1 .. n : z[k] \in Nat
  BY NetHas
<1>0. Total(h) = CHOOSE g : Is(g, n)
  BY DEF Total
<1> HIDE DEF n, z
<1>2. 0 \in Has
  <2> DEFINE g == [k \in 0 .. 0 |-> IF k = 0 THEN 2 ELSE 2 + z[k]]
  <2>1. \A k \in 0 .. 0 : k = 0
    OBVIOUS
  <2>2. g = [k \in 0 .. 0 |-> IF k = 0 THEN 2 ELSE g[k - 1] + z[k]]
    BY <2>1
  <2> HIDE DEF g
  <2> QED  BY ONLY <1>1, <2>2
<1>3. \A m \in 0 .. n - 1 : m \in Has => m + 1 \in Has
  <2>1. SUFFICES ASSUME NEW m \in 0 .. n - 1, m \in Has PROVE m + 1 \in Has
    BY <2>1
  <2>2. PICK g : Is(g, m)
    BY <2>1
  <2>3. \A k \in 0 .. m : g[k] = IF k = 0 THEN 2 ELSE g[k - 1] + z[k]
    BY ONLY <2>2
  <2> HIDE DEF Is
  <2> DEFINE f == [k \in 0 .. m + 1 |-> IF k <= m THEN g[k] ELSE g[m] + z[k]]
  <2>4. \A k \in 0 .. m + 1 : f[k] = IF k = 0 THEN 2 ELSE f[k - 1] + z[k]
    <3>1. SUFFICES ASSUME NEW k \in 0 .. m + 1
                   PROVE  f[k] = IF k = 0 THEN 2 ELSE f[k - 1] + z[k]
      BY <3>1
    <3>2. CASE k = 0
      BY <2>3, <3>2
    <3>3. CASE k # 0 /\ k <= m
      <4>1. k \in 0 .. m /\ f[k] = g[k] /\ f[k - 1] = g[k - 1]
        BY <3>3
      <4> QED  BY ONLY <2>3, <3>3, <4>1
    <3>4. CASE k = m + 1
      <4>1. /\ k \in 0 .. m + 1 /\ k - 1 \in 0 .. m + 1
            /\ ~ (k <= m) /\ k - 1 <= m /\ k - 1 = m /\ k # 0
        BY <3>4
      <4>2. f[k] = g[m] + z[k] /\ f[k - 1] = g[m]
        BY ONLY <4>1
      <4> QED  BY ONLY <4>1, <4>2
    <3> QED  BY <3>2, <3>3, <3>4
  <2>5. Is(f, m + 1)
    <3>1. f = [k \in 0 .. m + 1 |-> f[k]]
      OBVIOUS
    <3> HIDE DEF f
    <3> QED  BY ONLY <2>4, <3>1 DEF Is
  <2> HIDE DEF f
  <2>6. m + 1 \in 0 .. n
    BY <1>1
  <2> QED  BY <2>5, <2>6
<1>4. \E g : Is(g, n)
  <2> HIDE DEF Is
  <2>1. \A m \in 0 .. n : m \in Has
    <3> HIDE DEF Has
    <3> QED  BY ONLY <1>1, <1>2, <1>3, Induction
  <2> QED  BY <1>1, <2>1
<1> DEFINE t == Total(h)
<1>5. Is(t, n)
  <2> HIDE DEF Is
  <2> QED  BY <1>0, <1>4
<1> HIDE DEF t
<1>6. \A k \in 0 .. n : t[k] = IF k = 0 THEN 2 ELSE t[k - 1] + z[k]
  BY ONLY <1>5
<1>7. t[0] = 2
  BY ONLY <1>1, <1>6
<1>8. ASSUME NEW k \in 1 .. n PROVE t[k] = t[k - 1] + z[k]
  <2>1. k \in 0 .. n /\ k # 0
    BY <1>1
  <2> QED  BY ONLY <1>6, <2>1
<1>9. \A k \in 0 .. n : t[k] \in Nat /\ t[k] >= 2
  <2> DEFINE Num == {k \in 0 .. n : t[k] \in Nat /\ t[k] >= 2}
  <2>1. 0 \in Num
    BY <1>1, <1>7
  <2>2. \A k \in 0 .. n - 1 : k \in Num => k + 1 \in Num
    <3>1. SUFFICES ASSUME NEW k \in 0 .. n - 1, t[k] \in Nat, t[k] >= 2
                   PROVE  k + 1 \in 0 .. n /\ t[k + 1] \in Nat /\ t[k + 1] >= 2
      BY <3>1
    <3>2. k + 1 \in 0 .. n /\ (k + 1) - 1 = k /\ k + 1 \in 1 .. n
      BY <1>1
    <3>3. t[k + 1] = t[(k + 1) - 1] + z[k + 1] /\ z[k + 1] \in Nat
      BY ONLY <1>1, <1>8, <3>2
    <3> QED  BY ONLY <3>1, <3>2, <3>3
  <2> HIDE DEF Num
  <2>3. \A k \in 0 .. n : k \in Num
    BY ONLY <1>1, <2>1, <2>2, Induction
  <2> QED  BY <2>3 DEF Num
<1>10. \A k \in 0 .. n : t[k] <= t[n]
  <2> DEFINE Low == {i \in 0 .. n : t[n - i] <= t[n]}
  <2>1. 0 \in Low
    <3>1. n - 0 = n
      BY <1>1
    <3>2. t[n] \in Nat
      BY <1>1, <1>9
    <3> QED  BY <1>1, <3>1, <3>2
  <2>2. \A i \in 0 .. n - 1 : i \in Low => i + 1 \in Low
    <3>1. SUFFICES ASSUME NEW i \in 0 .. n - 1, t[n - i] <= t[n]
                   PROVE  i + 1 \in 0 .. n /\ t[n - (i + 1)] <= t[n]
      BY <3>1
    <3>2. i + 1 \in 0 .. n /\ n - (i + 1) = (n - i) - 1 /\ n - i \in 1 .. n /\ n - i \in 0 .. n
          /\ (n - i) - 1 \in 0 .. n
      BY <1>1
    <3>3. t[n - i] = t[(n - i) - 1] + z[n - i] /\ z[n - i] \in Nat
      BY ONLY <1>1, <1>8, <3>2
    <3>4. t[(n - i) - 1] \in Nat /\ t[n] \in Nat
      BY ONLY <1>1, <1>9, <3>2
    <3> QED  BY ONLY <3>1, <3>2, <3>3, <3>4
  <2> HIDE DEF Low
  <2>3. \A i \in 0 .. n : i \in Low
    BY ONLY <1>1, <2>1, <2>2, Induction
  <2>4. ASSUME NEW k \in 0 .. n PROVE t[k] <= t[n]
    <3>1. n - k \in 0 .. n /\ n - (n - k) = k
      BY <1>1
    <3>2. t[n - (n - k)] <= t[n]
      BY <2>3, <3>1 DEF Low
    <3> QED  BY ONLY <3>1, <3>2
  <2> QED  BY <2>4
<1> QED  BY <1>7, <1>8, <1>9, <1>10 DEF t, n, z

\* A host is not the sender of DNS answers, and its segments are neither padding nor alike.
LEMMA DataIs ==
    ASSUME NEW h \in Host
    PROVE  /\ h # "dns" /\ h # NoHost /\ h \in Sender
           /\ Pad \in Data(h) /\ Data(h) \subseteq Datum
           /\ \A k : Seg(h, k) # Pad /\ Seg(h, k).part = k /\ Seg(h, k).host = h
           /\ \A d \in Data(h) : d # Pad => d.host = h /\ d.part \in Nat
           /\ \A i \in 1 .. Len(Sizes[h]) + 1 : Nth(h, i) \in Data(h)
<1>1. h # "dns" /\ h # NoHost /\ h \in Sender
  BY NetHas DEF Sender
<1>2. \A k : Seg(h, k) # Pad /\ Seg(h, k).part = k /\ Seg(h, k).host = h
  BY <1>1 DEF Seg, Pad
<1>3. Pad \in Data(h) /\ Data(h) \subseteq Datum
  <2>1. Pad \in Data(h)
    BY DEF Data
  <2>2. Data(h) \subseteq Datum
    BY DEF Datum
  <2> QED  BY <2>1, <2>2
<1>4. \A d \in Data(h) : d # Pad => d.host = h /\ d.part \in Nat
  BY <1>2, NetHas DEF Data
<1>5. ASSUME NEW i \in 1 .. Len(Sizes[h]) + 1 PROVE Nth(h, i) \in Data(h)
  <2>1. CASE i = 1
    BY <2>1 DEF Nth, Data
  <2>2. CASE i # 1
    <3>1. i - 1 \in 1 .. Len(Sizes[h])
      BY <2>2, NetHas
    <3> QED  BY <2>2, <3>1 DEF Nth, Data
  <2> QED  BY <2>1, <2>2
<1> QED  BY <1>1, <1>2, <1>3, <1>4, <1>5

\* Every datum has a size.
LEMMA SizeIs ==
    /\ \A d \in Datum : SizeOf(d) \in Nat
    /\ SizeOf(Pad) = 1
    /\ \A h \in Host : \A k \in 1 .. Len(Sizes[h]) : SizeOf(Seg(h, k)) = Sizes[h][k]
<1>1. SizeOf(Pad) = 1
  BY DEF SizeOf
<1>2. ASSUME NEW h \in Host, NEW k \in 1 .. Len(Sizes[h])
      PROVE  SizeOf(Seg(h, k)) = Sizes[h][k] /\ Sizes[h][k] \in Nat
  BY DataIs, NetHas DEF SizeOf
<1>3. ASSUME NEW d \in Datum PROVE SizeOf(d) \in Nat
  <2>1. d \in Other \/ \E h \in Host : d \in Data(h)
    BY DEF Datum
  <2>2. CASE d \in Other
    <3>1. d.host = NoHost
      BY <2>2 DEF Other
    <3> QED  BY <3>1 DEF SizeOf
  <2>3. CASE \E h \in Host : d \in Data(h)
    <3>1. PICK h \in Host : d \in Data(h)
      BY <2>3
    <3>2. d = Pad \/ \E k \in 1 .. Len(Sizes[h]) : d = Seg(h, k)
      BY <3>1 DEF Data
    <3> QED  BY <1>1, <1>2, <3>2
  <2> QED  BY <2>1, <2>2, <2>3
<1> QED  BY <1>1, <1>2, <1>3

\* The bytes of an answer add up, and what fits as a whole fits packet by packet.
LEMMA BytesAre ==
    ASSUME NEW h \in Host, NEW k \in 0 .. Len(Sizes[h])
    PROVE  /\ Bytes(h, k) \in Nat
           /\ Bytes(h, k) + SizeOf(Nth(h, k + 1)) = Bytes(h, k + 1)
           /\ Fits(h) => Bytes(h, k + 1) <= Capacity
<1> DEFINE n == Len(Sizes[h])
           t == Total(h)
<1>1. n \in Nat /\ \A i \in 1 .. n : Sizes[h][i] \in Nat
  BY NetHas
<1>2. /\ t[0] = 2
      /\ \A i \in 1 .. n : t[i] = t[i - 1] + Sizes[h][i]
      /\ \A i \in 0 .. n : t[i] \in Nat /\ t[i] >= 2 /\ t[i] <= t[n]
  BY TotalIs
<1>3. Capacity \in Nat
  BY NetHas
<1> HIDE DEF t
<1>4. Bytes(h, k + 1) = t[k] - 1
  <2>1. k + 1 # 0 /\ (k + 1) - 1 = k
    BY <1>1
  <2> QED  BY <2>1 DEF Bytes, t
<1>5. Fits(h) => Bytes(h, k + 1) <= Capacity
  <2>1. Fits(h) => t[n] <= Capacity
    BY DEF Fits, t
  <2>2. t[k] \in Nat /\ t[n] \in Nat /\ t[k] <= t[n]
    BY <1>1, <1>2
  <2> QED  BY ONLY <1>3, <1>4, <2>1, <2>2
<1>6. CASE k = 0
  <2>1. Bytes(h, k) = 0 /\ Nth(h, k + 1) = Pad
    BY <1>6 DEF Bytes, Nth
  <2> QED  BY <1>2, <1>4, <1>5, <1>6, <2>1, SizeIs
<1>7. CASE k # 0
  <2>1. k \in 1 .. n /\ k - 1 \in 0 .. n /\ k + 1 # 1 /\ (k + 1) - 1 = k
    BY <1>1, <1>7
  <2>2. Bytes(h, k) = t[k - 1] - 1
    BY <1>7 DEF Bytes, t
  <2>3. SizeOf(Nth(h, k + 1)) = Sizes[h][k]
    BY <2>1, SizeIs DEF Nth
  <2>4. t[k] = t[k - 1] + Sizes[h][k] /\ t[k - 1] \in Nat /\ t[k - 1] >= 2 /\ Sizes[h][k] \in Nat
    BY <1>1, <1>2, <2>1
  <2>5. Bytes(h, k) \in Nat
    BY ONLY <2>2, <2>4
  <2>6. Bytes(h, k) + SizeOf(Nth(h, k + 1)) = Bytes(h, k + 1)
    BY ONLY <1>4, <2>2, <2>3, <2>4
  <2> QED  BY <1>5, <2>5, <2>6
<1> QED  BY <1>6, <1>7

\* A set of numbers that is not empty has a least one.
LEMMA Least ==
    ASSUME NEW S \in SUBSET Nat, S # {}
    PROVE  \E i \in S : \A j \in S : i <= j
<1> DEFINE Less == {p \in Nat \X Nat : p[1] < p[2]}
<1>1. IsWellFoundedOn(Less, Nat)
  BY NatLessThanWellFounded DEF OpToRel
<1> HIDE DEF Less
<1>2. PICK i \in S : \A j \in S : <<j, i>> \notin Less
  BY <1>1, WFMin
<1>3. ASSUME NEW j \in S, ~ (i <= j) PROVE FALSE
  <2>1. i \in Nat /\ j \in Nat
    OBVIOUS
  <2>2. j < i
    BY <1>3, <2>1
  <2>3. <<j, i>> \in Less
    BY <2>1, <2>2 DEF Less
  <2> QED  BY <1>2, <2>3
<1> QED  BY <1>2, <1>3

\* What a server sends for a request: padding, segments in their order, and perhaps padding.
LEMMA ReplyShape ==
    ASSUME NEW ip \in Host, NEW h, NEW a \in Replies(ip, h) \cup {<<Control("ack")>>}
    PROVE  \E m \in Nat :
              /\ m >= 1 /\ m <= Len(Sizes[ip]) + 2
              /\ DOMAIN a = 1 .. m /\ a = [i \in 1 .. m |-> a[i]]
              /\ \A i \in 1 .. m :
                    /\ a[i].kind \in Kinds /\ a[i] = [kind |-> a[i].kind, data |-> a[i].data]
                    /\ \/ i = 1 /\ a[i].data = Pad
                       \/ i > 1 /\ i <= Len(Sizes[ip]) + 1 /\ a[i].data = Part(ip, h, i - 1)
                       \/ i = m /\ a[i].data = Pad
<1> DEFINE n == Len(Sizes[ip])
           Shape(m) ==
              /\ m \in Nat /\ m >= 1 /\ m <= n + 2
              /\ DOMAIN a = 1 .. m /\ a = [i \in 1 .. m |-> a[i]]
              /\ \A i \in 1 .. m :
                    /\ a[i].kind \in Kinds /\ a[i] = [kind |-> a[i].kind, data |-> a[i].data]
                    /\ \/ i = 1 /\ a[i].data = Pad
                       \/ i > 1 /\ i <= n + 1 /\ a[i].data = Part(ip, h, i - 1)
                       \/ i = m /\ a[i].data = Pad
<1>1. n \in Nat \ {0} /\ Resets \subseteq 0 .. n
  BY NetHas
<1> HIDE DEF n
<1>2. ASSUME NEW j \in 0 .. n, NEW f \in {"fin", "rst"},
             a = <<Control("ack")>> \o Segments(ip, h, j) \o <<Control(f)>>
      PROVE  Shape(j + 2)
  <2> DEFINE s == Segments(ip, h, j)
             b == <<Control("ack")>> \o s
  <2>1. Len(s) = j /\ \A i \in 1 .. j : s[i] = [kind |-> "data", data |-> Part(ip, h, i)]
    BY DEF Segments
  <2>2. s = [i \in 1 .. j |-> s[i]]
    BY DEF Segments
  <2> HIDE DEF s
  <2>3. Len(b) = j + 1 /\ b[1] = Control("ack") /\ \A i \in 2 .. j + 1 : b[i] = s[i - 1]
    BY ONLY <1>1, <2>1
  <2>4. a = b \o <<Control(f)>>
    BY <1>2 DEF s
  <2> HIDE DEF b
  <2>5. /\ DOMAIN a = 1 .. j + 2 /\ a = [i \in 1 .. j + 2 |-> a[i]]
        /\ a[j + 2] = Control(f) /\ \A i \in 1 .. j + 1 : a[i] = b[i]
    BY ONLY <1>1, <2>3, <2>4
  <2>6. ASSUME NEW i \in 1 .. j + 2
        PROVE  /\ a[i].kind \in Kinds /\ a[i] = [kind |-> a[i].kind, data |-> a[i].data]
               /\ \/ i = 1 /\ a[i].data = Pad
                  \/ i > 1 /\ i <= n + 1 /\ a[i].data = Part(ip, h, i - 1)
                  \/ i = j + 2 /\ a[i].data = Pad
    <3>1. CASE i = 1
      <4>0. 1 \in 1 .. j + 1
        BY <1>1
      <4>1. a[i] = Control("ack")
        BY ONLY <2>3, <2>5, <3>1, <4>0
      <4> QED  BY ONLY <3>1, <4>1 DEF Control, Kinds
    <3>2. CASE i = j + 2
      <4>1. a[i] = Control(f)
        BY <2>5, <3>2
      <4> QED  BY ONLY <3>2, <4>1, f \in {"fin", "rst"} DEF Control, Kinds
    <3>3. CASE i # 1 /\ i # j + 2
      <4>1. i \in 2 .. j + 1 /\ i \in 1 .. j + 1 /\ i - 1 \in 1 .. j /\ i > 1 /\ i <= n + 1
        BY <1>1, <3>3
      <4>2. a[i] = [kind |-> "data", data |-> Part(ip, h, i - 1)]
        BY <2>1, <2>3, <2>5, <4>1
      <4> QED  BY ONLY <4>1, <4>2 DEF Kinds
    <3> QED  BY <3>1, <3>2, <3>3
  <2>7. j + 2 \in Nat /\ j + 2 >= 1 /\ j + 2 <= n + 2
    BY <1>1
  <2> QED  BY ONLY <2>5, <2>6, <2>7
<1>3. ASSUME a = <<Control("ack")>> \o [Segments(ip, h, n) EXCEPT ![n].kind = "fin"]
      PROVE  Shape(n + 1)
  <2> DEFINE s == [Segments(ip, h, n) EXCEPT ![n].kind = "fin"]
  <2>1. /\ Len(s) = n /\ s = [i \in 1 .. n |-> s[i]]
        /\ \A i \in 1 .. n : s[i].kind \in {"data", "fin"} /\ s[i].data = Part(ip, h, i)
                             /\ s[i] = [kind |-> s[i].kind, data |-> s[i].data]
    <3> DEFINE r == Segments(ip, h, n)
    <3>1. /\ r = [i \in 1 .. n |-> r[i]]
          /\ \A i \in 1 .. n : r[i] = [kind |-> "data", data |-> Part(ip, h, i)]
      BY DEF Segments
    <3>2. s = [r EXCEPT ![n].kind = "fin"] /\ n \in 1 .. n
      BY <1>1
    <3> HIDE DEF r, s
    <3>3. s = [i \in 1 .. n |-> s[i]] /\ \A i \in 1 .. n : i # n => s[i] = r[i]
      BY ONLY <3>1, <3>2
    <3>4. s[n] = [r[n] EXCEPT !.kind = "fin"]
      BY ONLY <3>1, <3>2
    <3>5. s[n] = [kind |-> "fin", data |-> Part(ip, h, n)]
      BY ONLY <3>1, <3>2, <3>4
    <3>6. Len(s) = n
      BY ONLY <1>1, <3>3
    <3>7. ASSUME NEW i \in 1 .. n
          PROVE  s[i].kind \in {"data", "fin"} /\ s[i].data = Part(ip, h, i)
                 /\ s[i] = [kind |-> s[i].kind, data |-> s[i].data]
      <4>1. CASE i = n
        BY ONLY <3>5, <4>1
      <4>2. CASE i # n
        <5>1. s[i] = [kind |-> "data", data |-> Part(ip, h, i)]
          BY <3>1, <3>3, <4>2
        <5> QED  BY ONLY <5>1
      <4> QED  BY <4>1, <4>2
    <3> QED  BY <3>3, <3>6, <3>7
  <2>2. a = <<Control("ack")>> \o s
    BY <1>3
  <2> HIDE DEF s
  <2>3. /\ DOMAIN a = 1 .. n + 1 /\ a = [i \in 1 .. n + 1 |-> a[i]]
        /\ a[1] = Control("ack") /\ \A i \in 2 .. n + 1 : a[i] = s[i - 1]
    BY ONLY <1>1, <2>1, <2>2
  <2>4. ASSUME NEW i \in 1 .. n + 1
        PROVE  /\ a[i].kind \in Kinds /\ a[i] = [kind |-> a[i].kind, data |-> a[i].data]
               /\ \/ i = 1 /\ a[i].data = Pad
                  \/ i > 1 /\ i <= n + 1 /\ a[i].data = Part(ip, h, i - 1)
                  \/ i = n + 1 /\ a[i].data = Pad
    <3>1. CASE i = 1
      <4>1. a[i] = Control("ack")
        BY <2>3, <3>1
      <4> QED  BY ONLY <3>1, <4>1 DEF Control, Kinds
    <3>2. CASE i # 1
      <4>1. i \in 2 .. n + 1 /\ i - 1 \in 1 .. n /\ i > 1 /\ i <= n + 1
        BY <1>1, <3>2
      <4> QED  BY ONLY <2>1, <2>3, <4>1 DEF Kinds
    <3> QED  BY <3>1, <3>2
  <2>5. n + 1 \in Nat /\ n + 1 >= 1 /\ n + 1 <= n + 2
    BY <1>1
  <2> QED  BY ONLY <2>3, <2>4, <2>5
<1>4. ASSUME a = <<Control("ack")>> PROVE Shape(1)
  <2>1. DOMAIN a = 1 .. 1 /\ a = [i \in 1 .. 1 |-> a[i]] /\ a[1] = Control("ack")
    BY <1>4
  <2>2. \A i \in 1 .. 1 : i = 1
    OBVIOUS
  <2>3. a[1].kind \in Kinds /\ a[1] = [kind |-> a[1].kind, data |-> a[1].data] /\ a[1].data = Pad
    BY ONLY <2>1 DEF Control, Kinds
  <2>4. 1 \in Nat /\ 1 >= 1 /\ 1 <= n + 2
    BY <1>1
  <2> QED  BY ONLY <2>1, <2>2, <2>3, <2>4
<1>5. \E m \in Nat : Shape(m)
  <2>1. \/ a = <<Control("ack")>> \o Segments(ip, h, n) \o <<Control("fin")>>
        \/ a = <<Control("ack")>> \o [Segments(ip, h, n) EXCEPT ![n].kind = "fin"]
        \/ \E k \in Resets : a = <<Control("ack")>> \o Segments(ip, h, k) \o <<Control("rst")>>
        \/ a = <<Control("ack")>>
    BY DEF Replies, n
  <2> HIDE DEF Shape
  <2>2. n \in 0 .. n /\ n + 1 \in Nat /\ \A k \in 0 .. n : k + 2 \in Nat
    BY <1>1
  <2> QED  BY <1>1, <1>2, <1>3, <1>4, <2>1, <2>2
<1> QED  BY <1>5 DEF n

\* Any server answers with TCP packets.
LEMMA ReplyKeepsTypes ==
    ASSUME NEW ip \in Host, NEW h, NEW a \in Replies(ip, h) \cup {<<Control("ack")>>}
    PROVE  a \in Seq(Tcp(Datum))
<1> DEFINE n == Len(Sizes[ip])
<1>1. ASSUME NEW k \in 1 .. n PROVE Part(ip, h, k) \in Datum
  <2>1. CASE h = ip
    <3>1. Part(ip, h, k) = Seg(ip, k)
      BY <2>1 DEF Part, Seg
    <3>2. Seg(ip, k) \in Data(ip)
      BY DEF Data
    <3> QED  BY <3>1, <3>2, DataIs
  <2>2. CASE h # ip
    <3>1. k \in Nat
      BY NetHas
    <3>2. Part(ip, h, k) \in Other
      BY <2>2, <3>1 DEF Part, Other
    <3> QED  BY <3>2 DEF Datum
  <2> QED  BY <2>1, <2>2
<1>2. Pad \in Datum /\ n \in Nat
  BY DataIs, NetHas
<1>3. PICK m \in Nat :
        /\ DOMAIN a = 1 .. m /\ a = [i \in 1 .. m |-> a[i]]
        /\ \A i \in 1 .. m :
              /\ a[i].kind \in Kinds /\ a[i] = [kind |-> a[i].kind, data |-> a[i].data]
              /\ \/ i = 1 /\ a[i].data = Pad
                 \/ i > 1 /\ i <= n + 1 /\ a[i].data = Part(ip, h, i - 1)
                 \/ i = m /\ a[i].data = Pad
  BY ReplyShape
<1>4. ASSUME NEW i \in 1 .. m PROVE a[i] \in Tcp(Datum)
  <2>1. a[i].data \in Datum
    <3>1. CASE a[i].data = Pad
      BY <1>2, <3>1
    <3>2. CASE i > 1 /\ i <= n + 1 /\ a[i].data = Part(ip, h, i - 1)
      <4>1. i - 1 \in 1 .. n
        BY <1>2, <3>2
      <4> QED  BY <1>1, <3>2, <4>1
    <3> QED  BY <1>3, <3>1, <3>2
  <2> QED  BY <1>3, <2>1 DEF Tcp
<1> QED  BY <1>3, <1>4

\* The server of the host that was asked for answers with its page.
LEMMA ReplyIsOurs ==
    ASSUME NEW h \in Host, NEW a \in Replies(h, h) \cup {<<Control("ack")>>}
    PROVE  a \in Seq(Tcp(Data(h))) /\ Coming(h, a, 0)
<1> DEFINE n == Len(Sizes[h])
<1>1. n \in Nat /\ Pad \in Data(h) /\ \A i \in 1 .. n + 1 : Nth(h, i) \in Data(h)
  BY DataIs, NetHas
<1>2. PICK m \in Nat :
        /\ m >= 1 /\ m <= n + 2
        /\ DOMAIN a = 1 .. m /\ a = [i \in 1 .. m |-> a[i]]
        /\ \A i \in 1 .. m :
              /\ a[i].kind \in Kinds /\ a[i] = [kind |-> a[i].kind, data |-> a[i].data]
              /\ \/ i = 1 /\ a[i].data = Pad
                 \/ i > 1 /\ i <= n + 1 /\ a[i].data = Part(h, h, i - 1)
                 \/ i = m /\ a[i].data = Pad
  BY ReplyShape
<1>3. ASSUME NEW i \in 1 .. m
      PROVE  \/ i <= n + 1 /\ a[i].data = Nth(h, i)
             \/ i = m /\ a[i].data = Pad
  <2>1. CASE i = 1 /\ a[i].data = Pad
    <3>1. Nth(h, i) = Pad
      BY <2>1 DEF Nth
    <3> QED  BY <1>1, <2>1, <3>1
  <2>2. CASE i > 1 /\ i <= n + 1 /\ a[i].data = Part(h, h, i - 1)
    <3>1. i # 1
      BY <2>2
    <3>2. Nth(h, i) = Seg(h, i - 1) /\ Part(h, h, i - 1) = Seg(h, i - 1)
      BY ONLY <3>1 DEF Nth, Part, Seg
    <3> QED  BY <2>2, <3>2
  <2> QED  BY <1>2, <2>1, <2>2
<1>4. ASSUME NEW i \in 1 .. m PROVE a[i] \in Tcp(Data(h))
  <2>1. a[i].data \in Data(h)
    BY <1>1, <1>3
  <2> QED  BY <1>2, <2>1 DEF Tcp
<1>5. a \in Seq(Tcp(Data(h))) /\ Len(a) = m
  BY <1>2, <1>4
<1> QED  BY <1>2, <1>3, <1>5 DEF Coming

\* A packet that is lost, repeated or overtaken leaves packets of the same kind.
LEMMA FaultKeepsTypes ==
    ASSUME NEW S, NEW q \in Seq(S), q # <<>>, NEW r,
           \/ r = Tail(q)
           \/ r = <<Head(q)>> \o q
           \/ Len(q) > 1 /\ r = <<q[2], q[1]>> \o SubSeq(q, 3, Len(q))
    PROVE  r \in Seq(S)
<1>1. Len(q) \in Nat /\ \A i \in 1 .. Len(q) : q[i] \in S
  OBVIOUS
<1>2. Head(q) \in S /\ Tail(q) \in Seq(S)
  BY HeadTailProperties
<1>3. CASE r = Tail(q)
  BY <1>2, <1>3
<1>4. CASE r = <<Head(q)>> \o q
  <2>1. <<Head(q)>> \in Seq(S)
    BY <1>2
  <2> QED  BY <1>4, <2>1, ConcatProperties
<1>5. CASE Len(q) > 1 /\ r = <<q[2], q[1]>> \o SubSeq(q, 3, Len(q))
  <2>1. q[1] \in S /\ q[2] \in S
    BY <1>1, <1>5
  <2>2. <<q[2], q[1]>> \in Seq(S)
    BY <2>1
  <2>3. \A i \in 3 .. Len(q) : q[i] \in S
    BY <1>1
  <2>4. SubSeq(q, 3, Len(q)) \in Seq(S)
    BY <1>1, <2>3, SubSeqProperties
  <2> QED  BY <1>5, <2>2, <2>4, ConcatProperties
<1> QED  BY <1>3, <1>4, <1>5

\* The next packet of an answer: another of its segments, or its end.
LEMMA ComingGoes ==
    ASSUME NEW h \in Host, NEW k \in Nat, NEW D, NEW q \in Seq(Tcp(D)), q # <<>>, Coming(h, q, k)
    PROVE  /\ k + 1 \in 0 .. Len(Sizes[h]) + 2
           /\ Coming(h, Tail(q), k + 1)
           /\ \/ k <= Len(Sizes[h]) /\ Head(q).data = Nth(h, k + 1)
              \/ Tail(q) = <<>> /\ Head(q).data = Pad
<1> DEFINE n == Len(Sizes[h])
<1>1. n \in Nat
  BY NetHas
<1>2. Len(q) \in Nat /\ Len(q) >= 1 /\ Head(q) = q[1]
  OBVIOUS
<1>3. /\ Tail(q) \in Seq(Tcp(D)) /\ Len(Tail(q)) = Len(q) - 1
      /\ \A i \in 1 .. Len(q) - 1 : Tail(q)[i] = q[i + 1]
  <2>1. /\ Tail(q) \in Seq(Tcp(D)) /\ Len(Tail(q)) = Len(q) - 1
        /\ \A i \in 1 .. Len(Tail(q)) : Tail(q)[i] = q[i + 1]
    BY HeadTailProperties
  <2> QED  BY ONLY <2>1
<1>4. /\ k + Len(q) <= n + 2
      /\ \A i \in 1 .. Len(q) : \/ k + i <= n + 1 /\ q[i].data = Nth(h, k + i)
                                \/ i = Len(q) /\ q[i].data = Pad
  BY DEF Coming
<1> HIDE DEF n
<1>5. k + 1 \in 0 .. n + 2 /\ k + 1 + Len(Tail(q)) <= n + 2
  <2>1. Len(Tail(q)) = Len(q) - 1
    BY <1>3
  <2>2. k + Len(q) <= n + 2
    BY <1>4
  <2>3. Len(q) \in Nat /\ Len(q) >= 1
    BY <1>2
  <2> DEFINE l == Len(q)
             t == Len(Tail(q))
  <2> HIDE DEF l, t
  <2>4. l \in Nat /\ l >= 1 /\ t = l - 1 /\ k + l <= n + 2
    BY <2>1, <2>2, <2>3 DEF l, t
  <2>5. k + 1 \in 0 .. n + 2 /\ k + 1 + t <= n + 2
    BY ONLY <1>1, <2>4, k \in Nat
  <2> QED  BY <2>5 DEF t
<1>6. ASSUME NEW i \in 1 .. Len(q) - 1
      PROVE  \/ k + 1 + i <= n + 1 /\ Tail(q)[i].data = Nth(h, k + 1 + i)
             \/ i = Len(q) - 1 /\ Tail(q)[i].data = Pad
  <2>1. i + 1 \in 1 .. Len(q) /\ k + (i + 1) = k + 1 + i /\ (i + 1 = Len(q) => i = Len(q) - 1)
    BY ONLY <1>2, k \in Nat
  <2>2. Tail(q)[i] = q[i + 1]
    BY <1>3
  <2>3. \/ k + (i + 1) <= n + 1 /\ q[i + 1].data = Nth(h, k + (i + 1))
        \/ i + 1 = Len(q) /\ q[i + 1].data = Pad
    BY ONLY <1>4, <2>1
  <2> QED  BY ONLY <2>1, <2>2, <2>3
<1>7. \/ k <= n /\ Head(q).data = Nth(h, k + 1)
      \/ Tail(q) = <<>> /\ Head(q).data = Pad
  <2>1. 1 \in 1 .. Len(q)
    BY ONLY <1>2
  <2>2. CASE k + 1 <= n + 1 /\ q[1].data = Nth(h, k + 1)
    <3>1. k <= n
      BY ONLY <1>1, <2>2, k \in Nat
    <3> QED  BY ONLY <1>2, <2>2, <3>1
  <2>3. CASE 1 = Len(q) /\ q[1].data = Pad
    <3>1. Len(Tail(q)) = 0
      <4>1. Len(Tail(q)) = Len(q) - 1 /\ Len(q) = 1
        BY <1>3, <2>3
      <4>2. 1 - 1 = 0
        OBVIOUS
      <4> QED  BY ONLY <4>1, <4>2, Zenon
    <3>2. Tail(q) = <<>>
      BY <1>3, <3>1, EmptySeq
    <3> QED  BY ONLY <1>2, <2>3, <3>2
  <2> QED  BY <1>4, <2>1, <2>2, <2>3
<1>8. Coming(h, Tail(q), k + 1)
  BY <1>3, <1>5, <1>6 DEF Coming, n
<1> QED  BY <1>5, <1>7, <1>8 DEF n

\* A connection that has ended ignores the next packet.
LEMMA StreamIdles ==
    ASSUME NEW h \in Host, NEW k \in Nat, NEW D, NEW q \in Seq(Tcp(D)), q # <<>>,
           NEW c, c.rx \in Seq(Data(h)), InStream(h, k, q, c), c.state # "est"
    PROVE  InStream(h, k + 1, Tail(q), c)
<1>1. Coming(h, Tail(q), k + 1)
  BY ComingGoes DEF InStream
<1>2. ASSUME NEW i \in 1 .. Len(c.rx), c.rx[i] # Pad PROVE c.rx[i].part < k + 1
  <2>1. c.rx[i].part < k
    BY <1>2 DEF InStream
  <2>2. c.rx[i].part \in Nat
    <3>1. c.rx[i] \in Data(h)
      BY <1>2
    <3> QED  BY <1>2, <3>1, DataIs
  <2> QED  BY ONLY <2>1, <2>2, k \in Nat
<1>3. c.state # "syn" /\ Ordered(c.rx) /\ (Fits(h) => Gapless(h, c.rx))
  BY DEF InStream
<1> QED  BY <1>1, <1>2, <1>3 DEF InStream

\* An open connection adds the next packet to its buffer, when it fits.
LEMMA StreamTakes ==
    ASSUME NEW h \in Host, NEW k \in Nat, NEW q \in Seq(Tcp(Data(h))), q # <<>>,
           NEW c, c.rx \in Seq(Data(h)), c.len \in Nat, InStream(h, k, q, c), c.state = "est",
           NEW d, d.state # "syn",
           LET fits == c.len + SizeOf(Head(q).data) <= Capacity
           IN  /\ d.rx = IF fits THEN Append(c.rx, Head(q).data) ELSE c.rx
               /\ d.len = IF fits THEN c.len + SizeOf(Head(q).data) ELSE c.len
    PROVE  InStream(h, k + 1, Tail(q), d)
<1> DEFINE n == Len(Sizes[h])
           p == Head(q).data
<1>1. n \in Nat /\ Capacity \in Nat
  BY NetHas
<1>2. p \in Data(h) /\ p \in Datum
  <2>1. Head(q) \in Tcp(Data(h))
    BY HeadTailProperties
  <2> QED  BY <2>1, DataIs DEF Tcp
<1>3. /\ k + 1 \in 0 .. n + 2 /\ Coming(h, Tail(q), k + 1)
      /\ \/ k <= n /\ p = Nth(h, k + 1)
         \/ Tail(q) = <<>> /\ p = Pad
  BY ComingGoes DEF InStream
<1>4. \/ d.rx = c.rx
      \/ d.rx = Append(c.rx, p)
  OBVIOUS
<1>5. (c.len + SizeOf(p) <= Capacity) => d.rx = Append(c.rx, p) /\ d.len = c.len + SizeOf(p)
  OBVIOUS
<1>6. /\ Ordered(c.rx)
      /\ \A i \in 1 .. Len(c.rx) : c.rx[i] # Pad => c.rx[i].part < k
      /\ Fits(h) => /\ Gapless(h, c.rx)
                    /\ Len(c.rx) = k /\ c.len = Bytes(h, k)
                    /\ \A i \in 1 .. k : c.rx[i] = Nth(h, i)
  BY DEF InStream
<1>7. /\ Len(c.rx) \in Nat /\ Len(Append(c.rx, p)) = Len(c.rx) + 1
      /\ \A i \in 1 .. Len(c.rx) : Append(c.rx, p)[i] = c.rx[i]
      /\ Append(c.rx, p)[Len(c.rx) + 1] = p
  BY <1>2, AppendProperties
<1>8. \A i \in 1 .. Len(c.rx) : c.rx[i] # Pad => c.rx[i].part \in Nat
  BY DataIs
<1>9. p # Pad => p.part = k
  <2>1. ASSUME p # Pad PROVE p.part = k
    <3>1. p = Nth(h, k + 1) /\ k + 1 # 1 /\ (k + 1) - 1 = k
      BY <1>3, <2>1 DEF Nth
    <3> QED  BY <3>1, DataIs DEF Nth
  <2> QED  BY <2>1
<1> HIDE DEF n, p
<1>10. Ordered(d.rx)
  <2>1. CASE d.rx = c.rx
    BY <1>6, <2>1
  <2>2. CASE d.rx = Append(c.rx, p)
    <3>1. ASSUME NEW i \in 1 .. Len(c.rx) + 1, NEW j \in 1 .. Len(c.rx) + 1,
                 i < j, d.rx[i] # Pad, d.rx[j] # Pad
          PROVE  d.rx[i].part < d.rx[j].part
      <4>1. i \in 1 .. Len(c.rx) /\ (j \in 1 .. Len(c.rx) \/ j = Len(c.rx) + 1)
        BY ONLY <1>7, <3>1
      <4>2. CASE j \in 1 .. Len(c.rx)
        BY <1>6, <1>7, <2>2, <3>1, <4>1, <4>2 DEF Ordered
      <4>3. CASE j = Len(c.rx) + 1
        <5>1. d.rx[i] = c.rx[i] /\ d.rx[j] = p
          BY <1>7, <2>2, <4>1, <4>3
        <5> QED  BY <1>6, <1>9, <3>1, <4>1, <5>1
      <4> QED  BY <4>1, <4>2, <4>3
    <3> QED  BY <1>7, <2>2, <3>1 DEF Ordered
  <2> QED  BY <1>4, <2>1, <2>2
<1>11. ASSUME NEW i \in 1 .. Len(d.rx), d.rx[i] # Pad PROVE d.rx[i].part < k + 1
  <2>1. ASSUME NEW x \in 1 .. Len(c.rx), c.rx[x] # Pad PROVE c.rx[x].part < k + 1
    <3>1. c.rx[x].part < k /\ c.rx[x].part \in Nat
      BY <1>6, <1>8, <2>1
    <3> QED  BY ONLY <3>1, k \in Nat
  <2>2. CASE d.rx = c.rx
    BY <1>11, <2>1, <2>2
  <2>3. CASE d.rx = Append(c.rx, p)
    <3>1. i \in 1 .. Len(c.rx) \/ i = Len(c.rx) + 1
      BY <1>7, <2>3
    <3>2. CASE i \in 1 .. Len(c.rx)
      BY <1>7, <1>11, <2>1, <2>3, <3>2
    <3>3. CASE i = Len(c.rx) + 1
      <4>1. d.rx[i] = p
        BY <1>7, <2>3, <3>3
      <4>2. d.rx[i].part = k
        BY <1>9, <1>11, <4>1
      <4> QED  BY ONLY <4>2, k \in Nat
    <3> QED  BY <3>1, <3>2, <3>3
  <2> QED  BY <1>4, <2>2, <2>3
<1>12. ASSUME Fits(h)
       PROVE  /\ Gapless(h, d.rx)
              /\ (d.state = "est" /\ Tail(q) # <<>>) =>
                    /\ Len(d.rx) = k + 1
                    /\ d.len = Bytes(h, k + 1)
                    /\ \A i \in 1 .. k + 1 : d.rx[i] = Nth(h, i)
  <2>1. Len(c.rx) = k /\ \A i \in 1 .. k : c.rx[i] = Nth(h, i)
    BY <1>6, <1>12
  <2>2. CASE k <= n /\ p = Nth(h, k + 1)
    <3>1. /\ Bytes(h, k) \in Nat /\ Bytes(h, k) + SizeOf(p) = Bytes(h, k + 1)
          /\ Bytes(h, k + 1) <= Capacity
      <4>1. k \in 0 .. n
        BY <1>1, <2>2
      <4> QED  BY <1>12, <2>2, <4>1, BytesAre DEF n
    <3>2. c.len + SizeOf(p) <= Capacity
      BY <1>6, <1>12, <3>1
    <3>3. d.rx = Append(c.rx, p) /\ d.len = Bytes(h, k + 1)
      BY <1>5, <1>6, <1>12, <3>1, <3>2
    <3>4. Len(d.rx) = k + 1 /\ \A i \in 1 .. k + 1 : d.rx[i] = Nth(h, i)
      <4>1. ASSUME NEW i \in 1 .. k + 1 PROVE d.rx[i] = Nth(h, i)
        <5>1. i \in 1 .. k \/ i = k + 1
          OBVIOUS
        <5> QED  BY <1>7, <2>1, <2>2, <3>3, <5>1
      <4> QED  BY <1>7, <2>1, <3>3, <4>1
    <3>5. Gapless(h, d.rx)
      <4>1. k + 1 <= n + 2 /\ \A i \in 1 .. k + 1 : i <= n + 1
        BY ONLY <1>1, <2>2, k \in Nat
      <4> QED  BY <3>4, <4>1 DEF Gapless, n
    <3> QED  BY <3>3, <3>4, <3>5
  <2>3. CASE Tail(q) = <<>> /\ p = Pad
    <3>1. CASE d.rx = c.rx
      BY <1>6, <1>12, <2>3, <3>1
    <3>2. CASE d.rx = Append(c.rx, p)
      <4>1. Len(d.rx) = k + 1 /\ k + 1 <= n + 2
        BY <1>1, <1>3, <1>7, <2>1, <3>2
      <4>2. ASSUME NEW i \in 1 .. k + 1
            PROVE  \/ i <= n + 1 /\ d.rx[i] = Nth(h, i)
                   \/ i = k + 1 /\ d.rx[i] = Pad
        <5>1. \/ i \in 1 .. k /\ i <= n + 1
              \/ i = k + 1
          <6>1. k + 1 <= n + 2
            BY <4>1
          <6> QED  BY ONLY <1>1, <6>1, k \in Nat
        <5> QED  BY <1>7, <2>1, <2>3, <3>2, <5>1
      <4>3. Gapless(h, d.rx)
        BY <4>1, <4>2 DEF Gapless, n
      <4> QED  BY <2>3, <4>3
    <3> QED  BY <1>4, <3>1, <3>2
  <2> QED  BY <1>3, <2>2, <2>3
<1> QED  BY <1>3, <1>10, <1>11, <1>12 DEF InStream

\* The body of received data is what follows its first header, if it has one.
LEMMA BodyIs ==
    ASSUME NEW S, NEW d \in Seq(S)
    PROVE  /\ Body(d) \in Seq(S)
           /\ \E f \in 0 .. Len(d) :
                 /\ Len(Body(d)) = Len(d) - f
                 /\ \A i \in 1 .. Len(d) - f : Body(d)[i] = d[i + f]
                 /\ f > 0 => d[f].part = 1
                 /\ f = 0 => \A i \in 1 .. Len(d) : d[i].part # 1
<1> DEFINE headers == {i \in 1 .. Len(d) : d[i].part = 1}
           first == CHOOSE i \in headers : \A j \in headers : i <= j
<1>1. Len(d) \in Nat /\ \A i \in 1 .. Len(d) : d[i] \in S
  OBVIOUS
<1>2. CASE headers = {}
  <2>1. Body(d) = d
    BY <1>2 DEF Body
  <2>2. /\ 0 \in 0 .. Len(d) /\ Len(d) = Len(d) - 0 /\ ~ (0 > 0)
        /\ \A i \in 1 .. Len(d) - 0 : d[i] = d[i + 0]
        /\ \A i \in 1 .. Len(d) : d[i].part # 1
    BY <1>1, <1>2
  <2> QED  BY <2>1, <2>2
<1>3. CASE headers # {}
  <2>1. \E i \in headers : \A j \in headers : i <= j
    <3>1. headers \in SUBSET Nat
      BY <1>1
    <3> HIDE DEF headers
    <3> QED  BY <1>3, <3>1, Least
  <2>2. first \in headers
    <3> HIDE DEF headers
    <3> QED  BY <2>1
  <2>3. Body(d) = SubSeq(d, first + 1, Len(d))
    BY <1>3 DEF Body
  <2>4. first \in 1 .. Len(d) /\ d[first].part = 1
    BY <2>2
  <2> HIDE DEF first
  <2>5. \A i \in first + 1 .. Len(d) : d[i] \in S
    BY <1>1, <2>4
  <2>6. /\ Body(d) \in Seq(S)
        /\ Len(Body(d)) = IF first + 1 <= Len(d) THEN Len(d) - (first + 1) + 1 ELSE 0
        /\ \A i \in 1 .. Len(d) - (first + 1) + 1 : Body(d)[i] = d[(first + 1) + i - 1]
    <3>1. first + 1 \in Int /\ Len(d) \in Int
      BY <1>1, <2>4
    <3> QED  BY <2>3, <2>5, <3>1, SubSeqProperties
  <2>7. Len(Body(d)) = Len(d) - first
    BY <1>1, <2>4, <2>6
  <2>8. ASSUME NEW i \in 1 .. Len(d) - first PROVE Body(d)[i] = d[i + first]
    <3>1. i \in 1 .. Len(d) - (first + 1) + 1 /\ (first + 1) + i - 1 = i + first
      BY <1>1, <2>4
    <3> QED  BY <2>6, <3>1
  <2>9. first \in 0 .. Len(d) /\ first # 0
    BY <1>1, <2>4
  <2> QED  BY <2>4, <2>6, <2>7, <2>8, <2>9
<1> QED  BY <1>2, <1>3

\* The body of what has been received from h shows the page of h.
LEMMA BodyShows ==
    ASSUME NEW h \in Host, NEW d \in Seq(Data(h)),
           faults = 0 => Ordered(d) /\ (Fits(h) => Gapless(h, d))
    PROVE  ShowsPageOf(Body(d), h)
<1> DEFINE n == Len(Sizes[h])
           b == Body(d)
<1>1. PICK f \in 0 .. Len(d) :
        /\ Len(b) = Len(d) - f
        /\ \A i \in 1 .. Len(d) - f : b[i] = d[i + f]
        /\ f > 0 => d[f].part = 1
        /\ f = 0 => \A i \in 1 .. Len(d) : d[i].part # 1
  BY BodyIs
<1>2. Len(d) \in Nat /\ n \in Nat /\ \A i \in 1 .. Len(d) : d[i] \in Data(h)
  BY NetHas
<1> HIDE DEF b, n
<1>3. ASSUME NEW i \in Segs(b)
      PROVE  /\ i \in 1 .. Len(d) - f /\ i + f \in 1 .. Len(d)
             /\ b[i] = d[i + f] /\ b[i] # Pad /\ b[i] \in Data(h)
  <2>1. i \in 1 .. Len(d) - f /\ b[i] # Pad
    BY <1>1 DEF Segs
  <2>2. i + f \in 1 .. Len(d)
    BY <1>2, <2>1
  <2> QED  BY <1>1, <1>2, <2>1, <2>2
<1>4. \A i \in Segs(b) : b[i].host = h
  BY <1>3, DataIs
<1>5. ASSUME faults = 0, NEW i \in Segs(b), NEW j \in Segs(b), i < j PROVE b[i].part < b[j].part
  <2>1. i + f < j + f
    BY <1>3, <1>5
  <2> QED  BY <1>3, <1>5, <2>1 DEF Ordered
<1>6. ASSUME faults = 0, Fits(h), NEW i \in Segs(b)
      PROVE  b[i].part = 2 \/ \E j \in Segs(b) : j < i /\ b[j].part = b[i].part - 1
  <2>1. \A x \in 1 .. Len(d) : d[x] # Pad => x <= n + 1 /\ d[x] = Nth(h, x)
    BY <1>6 DEF Gapless, n
  <2>2. \A x \in 1 .. Len(d) - 1 : x <= n + 1 /\ d[x] = Nth(h, x)
    <3>1. ASSUME NEW x \in 1 .. Len(d) - 1 PROVE x <= n + 1 /\ d[x] = Nth(h, x)
      <4>1. x \in 1 .. Len(d) /\ x # Len(d)
        BY <1>2
      <4> QED  BY <1>6, <4>1 DEF Gapless, n
    <3> QED  BY <3>1
  <2>3. ASSUME NEW x \in 1 .. Len(d), d[x] # Pad PROVE x >= 2 /\ d[x] = Seg(h, x - 1) /\ d[x].part = x - 1
    <3>1. d[x] = Nth(h, x)
      BY <2>1, <2>3
    <3>2. x # 1
      BY <2>3, <3>1 DEF Nth
    <3>3. d[x] = Seg(h, x - 1)
      BY <3>1, <3>2 DEF Nth
    <3> QED  BY <3>2, <3>3, DataIs
  <2>4. ASSUME NEW x \in 2 .. Len(d) - 1 PROVE d[x] = Seg(h, x - 1) /\ d[x].part = x - 1 /\ d[x] # Pad
    <3>1. x \in 1 .. Len(d) - 1 /\ x # 1
      BY <1>2
    <3>2. d[x] = Seg(h, x - 1)
      BY <2>2, <3>1 DEF Nth
    <3> QED  BY <3>2, DataIs
  <2>5. f = 2
    <3>1. i + f \in 1 .. Len(d) /\ d[i + f] # Pad
      BY <1>3
    <3>2. i + f >= 2 /\ d[i + f].part = (i + f) - 1
      BY <2>3, <3>1
    <3>3. CASE f = 0
      <4>1. CASE i = 2
        <5>1. d[2].part = 1 /\ 2 \in 1 .. Len(d)
          BY <1>3, <3>1, <3>2, <3>3, <4>1
        <5> QED  BY <1>1, <3>3, <5>1
      <4>2. CASE i # 2
        <5>1. 2 \in 2 .. Len(d) - 1
          BY <1>2, <1>3, <3>1, <3>2, <3>3, <4>2
        <5>2. d[2].part = 1 /\ 2 \in 1 .. Len(d)
          BY <1>2, <2>4, <5>1
        <5> QED  BY <1>1, <3>3, <5>2
      <4> QED  BY <4>1, <4>2
    <3>4. CASE f > 0
      <4>1. d[f].part = 1 /\ f \in 1 .. Len(d)
        BY <1>1, <1>2, <3>4
      <4>2. d[f] # Pad
        BY <4>1 DEF Pad
      <4>3. d[f].part = f - 1
        BY <2>3, <4>1, <4>2
      <4> QED  BY <4>1, <4>3
    <3> QED  BY <3>3, <3>4
  <2>6. i \in 1 .. Len(d) - 2 /\ i + 2 \in 1 .. Len(d) /\ b[i] = d[i + 2] /\ d[i + 2] # Pad
    BY <1>3, <2>5
  <2>7. b[i].part = i + 1
    <3>1. d[i + 2].part = (i + 2) - 1
      BY <2>3, <2>6
    <3> QED  BY <2>6, <3>1
  <2>8. CASE i = 1
    BY <2>7, <2>8
  <2>9. CASE i # 1
    <3>1. i - 1 \in 1 .. Len(d) - 2 /\ (i - 1) + 2 = i + 1 /\ i + 1 \in 2 .. Len(d) - 1
      BY <1>2, <2>6, <2>9
    <3>2. b[i - 1] = d[i + 1]
      BY <1>1, <2>5, <3>1
    <3>3. b[i - 1].part = (i + 1) - 1 /\ b[i - 1] # Pad
      BY <2>4, <3>1, <3>2
    <3>4. i - 1 \in Segs(b)
      BY <1>1, <2>5, <3>1, <3>3 DEF Segs
    <3>5. i - 1 < i /\ (i + 1) - 1 = (i + 1) - 1
      BY <2>6
    <3> QED  BY <2>7, <3>3, <3>4, <3>5
  <2> QED  BY <2>8, <2>9
<1> QED  BY <1>4, <1>5, <1>6 DEF ShowsPageOf, Fits, b

\* Packets sent join those on their way from the same sender.
LEMMA SentIs ==
    ASSUME NetTypeOK, NEW src \in Sender, NEW a, net' = [net EXCEPT ![src] = @ \o a]
    PROVE  net'[src] = net[src] \o a /\ \A s \in Sender \ {src} : net'[s] = net[s]
<1>1. DOMAIN net = Sender
  BY DEF NetTypeOK
<1> QED  BY <1>1

\* A query, and its answer, belong to whoever has asked.
LEMMA AskOurs ==
    ASSUME NetTypeOK, NEW h \in Host, hostname' = h, dns'.result \in {NoHost, h},
           \A s \in Host : net[s] = <<>>, net["dns"] \in Seq(Dns({NoHost, h})),
           Sent("dns", {<<Answer(h)>>, <<Answer(NoHost)>>})
    PROVE  Ours(h, "dns")'
<1>1. "dns" \in Sender /\ \A s \in Host : s \in Sender /\ s # "dns"
  BY DataIs DEF Sender
<1>2. PICK a \in {<<Answer(h)>>, <<Answer(NoHost)>>} :
        net'["dns"] = net["dns"] \o a /\ \A s \in Sender \ {"dns"} : net'[s] = net[s]
  <2>1. PICK a \in {<<Answer(h)>>, <<Answer(NoHost)>>} : net' = [net EXCEPT !["dns"] = @ \o a]
    BY DEF Sent
  <2> QED  BY <1>1, <2>1, SentIs
<1>3. a \in Seq(Dns({NoHost, h}))
  <2>1. Answer(h) \in Dns({NoHost, h}) /\ Answer(NoHost) \in Dns({NoHost, h})
    BY DEF Answer, Dns
  <2>2. a = <<Answer(h)>> \/ a = <<Answer(NoHost)>>
    OBVIOUS
  <2> DEFINE D == Dns({NoHost, h})
             x == Answer(h)
             y == Answer(NoHost)
  <2> HIDE DEF D, x, y
  <2>3. x \in D /\ y \in D /\ (a = <<x>> \/ a = <<y>>)
    BY <2>1, <2>2 DEF D, x, y
  <2>4. <<x>> \in Seq(D) /\ <<y>> \in Seq(D)
    BY ONLY <2>3
  <2>5. a \in Seq(D)
    BY ONLY <2>3, <2>4, Zenon
  <2> QED  BY <2>5 DEF D
<1>4. net'["dns"] \in Seq(Dns({NoHost, h}))
  BY <1>2, <1>3, ConcatProperties
<1>5. \A s \in Host : net'[s] = <<>>
  BY <1>1, <1>2
<1> QED  BY <1>4, <1>5 DEF Ours

\* The connection to the address that was found belongs to whoever asked for it.
LEMMA ConnectOurs ==
    ASSUME NetTypeOK, NEW h \in Host, Ours(h, "dns"), Connect(h), UNCHANGED <<hostname, dns>>
    PROVE  Ours(h, "connect")'
<1>1. "dns" \in Sender /\ \A s \in Host : s \in Sender /\ s # "dns"
  BY DataIs DEF Sender
<1>2. net'[h] = net[h] \o <<Control("syn")>> /\ \A s \in Sender \ {h} : net'[s] = net[s]
  <2>1. net' = [net EXCEPT ![h] = @ \o <<Control("syn")>>]
    BY DEF Connect, Sent
  <2> QED  BY <1>1, <2>1, SentIs
<1>3. hostname = h /\ dns.result \in {NoHost, h} /\ net["dns"] \in Seq(Dns({NoHost, h}))
      /\ (\A s \in Host \ {h} : net[s] = <<>>) /\ net[h] = <<>>
  BY DEF Ours
<1>4. net'[h] = <<Control("syn")>> /\ Len(net'[h]) = 1
  BY <1>2, <1>3
<1>5. <<Control("syn")>> \in Seq(Tcp(Data(h)))
  <2>1. Control("syn") \in Tcp(Data(h))
    BY DataIs DEF Control, Tcp, Kinds
  <2> QED  BY <2>1
<1>6. tcp'.ip = h /\ tcp'.rx = <<>> /\ tcp'.len = 0 /\ tcp'.state = "syn"
  BY DEF Connect
<1>7. (\A s \in Host \ {h} : net'[s] = <<>>) /\ net'["dns"] \in Seq(Dns({NoHost, h}))
  BY <1>1, <1>2, <1>3
<1>8. hostname' = h /\ dns'.result \in {NoHost, h}
  BY <1>3
<1>9. <<>> \in Seq(Data(h))
  OBVIOUS
<1> QED  BY <1>4, <1>5, <1>6, <1>7, <1>8, <1>9 DEF Ours

\* The answer to a request over a connection of one's own is one's own.
LEMMA RequestOurs ==
    ASSUME NetTypeOK, NEW h \in Host, Ours(h, "connect"), tcp.state = "est",
           NEW form \in BOOLEAN, Request(form), UNCHANGED <<hostname, dns, tcp, faults>>
    PROVE  Ours(h, "recv")'
<1>1. "dns" \in Sender /\ \A s \in Host : s \in Sender /\ s # "dns"
  BY DataIs DEF Sender
<1>2. /\ hostname = h /\ dns.result \in {NoHost, h} /\ net["dns"] \in Seq(Dns({NoHost, h}))
      /\ (\A s \in Host \ {h} : net[s] = <<>>) /\ tcp.ip = h
      /\ net[h] \in Seq(Tcp(Data(h))) /\ tcp.rx \in Seq(Data(h))
      /\ faults = 0 => tcp.rx = <<>> /\ tcp.len = 0 /\ net[h] = <<>>
  BY DEF Ours
<1>3. PICK a \in Replies(h, h) \cup {<<Control("ack")>>} :
        net'[h] = net[h] \o a /\ \A s \in Sender \ {h} : net'[s] = net[s]
  <2>1. PICK a \in Replies(h, h) \cup {<<Control("ack")>>} : net' = [net EXCEPT ![h] = @ \o a]
    BY <1>2 DEF Request, Sent
  <2> QED  BY <1>1, <2>1, SentIs
<1>4. a \in Seq(Tcp(Data(h))) /\ Coming(h, a, 0)
  BY ReplyIsOurs
<1>5. net'[h] \in Seq(Tcp(Data(h)))
  BY <1>2, <1>3, <1>4, ConcatProperties
<1>6. (\A s \in Host \ {h} : net'[s] = <<>>) /\ net'["dns"] \in Seq(Dns({NoHost, h}))
  BY <1>1, <1>2, <1>3
<1>7. ASSUME faults = 0 PROVE InStream(h, 0, net'[h], tcp)
  <2>1. net'[h] = a
    BY <1>2, <1>3, <1>4, <1>7
  <2>2. tcp.rx = <<>> /\ tcp.len = 0 /\ tcp.state = "est"
    BY <1>2, <1>7
  <2>3. Len(<<>>) = 0 /\ \A i : i \notin 1 .. 0
    OBVIOUS
  <2>4. Ordered(tcp.rx)
    BY <2>2, <2>3 DEF Ordered
  <2>5. Gapless(h, tcp.rx)
    BY <2>2, <2>3, NetHas DEF Gapless
  <2>6. Bytes(h, 0) = 0
    BY DEF Bytes
  <2> QED  BY <1>4, <2>1, <2>2, <2>3, <2>4, <2>5, <2>6 DEF InStream
<1>8. hostname' = h /\ dns'.result \in {NoHost, h} /\ tcp' = tcp /\ faults' = faults
  BY <1>2
<1>9. 0 \in 0 .. Len(Sizes[h]) + 2
  BY NetHas
<1> QED  BY <1>2, <1>5, <1>6, <1>7, <1>8, <1>9 DEF Ours

\* A fault leaves packets of the same kind, and nothing is claimed of their order any more.
LEMMA FaultOurs ==
    ASSUME NetTypeOK, NEW h \in Host, NEW at \in Active, Ours(h, at), NEW s \in Sender, Fault(s)
    PROVE  Ours(h, at)'
<1>1. /\ faults' = faults + 1 /\ net[s] # <<>>
      /\ \/ net' = [net EXCEPT ![s] = Tail(@)]
         \/ net' = [net EXCEPT ![s] = <<Head(@)>> \o @]
         \/ Len(net[s]) > 1 /\ net' = [net EXCEPT ![s] = <<@[2], @[1]>> \o SubSeq(@, 3, Len(@))]
      /\ UNCHANGED <<hostname, dns, tcp>>
  BY DEF Fault, stack
<1>2. DOMAIN net = Sender /\ faults \in Nat
  BY DEF NetTypeOK
<1>3. /\ \/ net'[s] = Tail(net[s])
         \/ net'[s] = <<Head(net[s])>> \o net[s]
         \/ /\ Len(net[s]) > 1
            /\ net'[s] = <<net[s][2], net[s][1]>> \o SubSeq(net[s], 3, Len(net[s]))
      /\ \A x \in Sender \ {s} : net'[x] = net[x]
  BY <1>1, <1>2
<1>4. \A S : net[s] \in Seq(S) => net'[s] \in Seq(S)
  BY <1>1, <1>3, FaultKeepsTypes
<1>5. faults' # 0
  BY <1>1, <1>2
<1>6. "dns" \in Sender /\ \A x \in Host : x \in Sender /\ x # "dns"
  BY DataIs DEF Sender
<1>7. net'["dns"] \in Seq(Dns({NoHost, h}))
  BY <1>3, <1>4, <1>6 DEF Ours
<1>8. \A x \in Host \ {h} : net'[x] = <<>>
  BY <1>1, <1>3, <1>6 DEF Ours
<1>9. at = "dns" => net'[h] = <<>>
  BY <1>1, <1>3, <1>6 DEF Ours
<1>10. at # "dns" => net'[h] \in Seq(Tcp(Data(h)))
  BY <1>3, <1>4, <1>6 DEF Ours
<1> QED  BY <1>1, <1>5, <1>7, <1>8, <1>9, <1>10 DEF Ours

\* What the handlers do to the answers that have come.
LEMMA HandleIs ==
    ASSUME NetTypeOK, Handle
    PROVE  \E s \in Sender :
              /\ net[s] # <<>> /\ net'[s] = Tail(net[s]) /\ \A x \in Sender \ {s} : net'[x] = net[x]
              /\ net' = [net EXCEPT ![s] = Tail(@)]
              /\ s = "dns" => DnsHandle(Head(net[s]))
              /\ s # "dns" => TcpHandle(Head(net[s]))
<1>1. PICK s \in Sender : /\ net[s] # <<>>
                          /\ net' = [net EXCEPT ![s] = Tail(@)]
                          /\ IF s = "dns" THEN DnsHandle(Head(net[s])) ELSE TcpHandle(Head(net[s]))
  BY DEF Handle
<1>2. DOMAIN net = Sender
  BY DEF NetTypeOK
<1>3. net'[s] = Tail(net[s]) /\ \A x \in Sender \ {s} : net'[x] = net[x]
  BY <1>1, <1>2
<1> QED  BY <1>1, <1>3

\* What tcp_handle does with one packet.
LEMMA TcpHandleIs ==
    ASSUME NetTypeOK, NEW p \in Tcp(Datum), TcpHandle(p)
    PROVE  /\ UNCHANGED dns
           /\ tcp' \in Connection
           /\ tcp'.ip = tcp.ip /\ (tcp'.state # "closed" => tcp.state # "closed")
           /\ tcp.state \in {"closed", "done"} => tcp' = tcp
           /\ tcp.state = "syn" => /\ tcp'.rx = tcp.rx /\ tcp'.len = tcp.len
                                   /\ tcp'.state \in {"syn", "est"}
           /\ tcp.state = "est" =>
                 /\ tcp'.state \in {"est", "done"}
                 /\ LET fits == tcp.len + SizeOf(p.data) <= Capacity
                    IN  /\ tcp'.rx = IF fits THEN Append(tcp.rx, p.data) ELSE tcp.rx
                        /\ tcp'.len = IF fits THEN tcp.len + SizeOf(p.data) ELSE tcp.len
<1> DEFINE fits == tcp.len + SizeOf(p.data) <= Capacity
           ended == p.kind \in {"fin", "rst"}
           T == [state : {"closed", "syn", "est", "done"}, ip : Host \cup {NoHost},
                 rx : Seq(Datum), len : Nat, done : BOOLEAN]
<1>1. tcp \in T
  BY DEF NetTypeOK, Connection
<1>2. p.data \in Datum
  BY DEF Tcp
<1>3. SizeOf(p.data) \in Nat
  BY <1>2, SizeIs
<1>4. /\ UNCHANGED dns
      /\ tcp' = CASE tcp.state = "syn" /\ p.kind = "syn" -> [tcp EXCEPT !.state = "est"]
                  [] tcp.state = "est" ->
                       [tcp EXCEPT !.rx = IF fits THEN Append(@, p.data) ELSE @,
                                   !.len = IF fits THEN @ + SizeOf(p.data) ELSE @,
                                   !.state = IF ended THEN "done" ELSE @,
                                   !.done = @ \/ ended]
                  [] OTHER -> tcp
  BY DEF TcpHandle
<1>5. CASE tcp.state = "syn" /\ p.kind = "syn"
  <2>1. tcp' = [tcp EXCEPT !.state = "est"]
    BY <1>4, <1>5
  <2>2. tcp' \in T
    BY <1>1, <2>1
  <2> QED  BY <1>1, <1>4, <1>5, <2>1, <2>2 DEF Connection
<1>6. CASE tcp.state = "est"
  <2> DEFINE r == IF fits THEN Append(tcp.rx, p.data) ELSE tcp.rx
             l == IF fits THEN tcp.len + SizeOf(p.data) ELSE tcp.len
             s == IF ended THEN "done" ELSE "est"
             d == tcp.done \/ ended
  <2>1. tcp' = [tcp EXCEPT !.rx = r, !.len = l, !.state = s, !.done = d]
    BY <1>1, <1>4, <1>6
  <2>2. r \in Seq(Datum)
    BY <1>1, <1>2, AppendProperties
  <2>3. l \in Nat
    BY <1>1, <1>3
  <2>4. s \in {"est", "done"}
    OBVIOUS
  <2>5. d \in BOOLEAN
    BY <1>1
  <2> HIDE DEF r, l, s, d
  <2>6. tcp' \in T
    BY <1>1, <2>1, <2>2, <2>3, <2>4, <2>5
  <2>7. tcp'.ip = tcp.ip /\ tcp'.rx = r /\ tcp'.len = l /\ tcp'.state = s
    BY <1>1, <2>1
  <2> QED  BY <1>4, <1>6, <2>4, <2>6, <2>7 DEF r, l, Connection
<1>7. CASE tcp.state # "est" /\ ~ (tcp.state = "syn" /\ p.kind = "syn")
  <2>1. tcp' = tcp
    BY <1>4, <1>7
  <2> QED  BY <1>1, <1>4, <1>7, <2>1 DEF Connection
<1> QED  BY <1>5, <1>6, <1>7

\* The next packet finds the connection where the rest of the answer goes on.
LEMMA HandleOurs ==
    ASSUME NetTypeOK, NEW h \in Host, NEW at \in Active, Ours(h, at), Handle
    PROVE  Ours(h, at)'
<1>1. PICK s \in Sender :
        /\ net[s] # <<>> /\ net'[s] = Tail(net[s]) /\ \A x \in Sender \ {s} : net'[x] = net[x]
        /\ s = "dns" => DnsHandle(Head(net[s]))
        /\ s # "dns" => TcpHandle(Head(net[s]))
  BY HandleIs
<1>2. /\ hostname = h /\ dns.result \in {NoHost, h} /\ net["dns"] \in Seq(Dns({NoHost, h}))
      /\ \A x \in Host \ {h} : net[x] = <<>>
      /\ at = "dns" => net[h] = <<>>
      /\ at # "dns" => tcp.ip = h /\ net[h] \in Seq(Tcp(Data(h))) /\ tcp.rx \in Seq(Data(h))
      /\ (at = "connect" /\ faults = 0) =>
            /\ tcp.rx = <<>> /\ tcp.len = 0
            /\ Len(net[h]) <= 1
            /\ tcp.state = "est" => net[h] = <<>>
      /\ (at = "recv" /\ faults = 0) =>
            \E k \in 0 .. Len(Sizes[h]) + 2 : InStream(h, k, net[h], tcp)
  BY DEF Ours
<1>3. hostname' = hostname /\ faults' = faults
  BY DEF Handle, bounds
<1>4. "dns" \in Sender /\ \A x \in Host : x \in Sender /\ x # "dns"
  BY DataIs DEF Sender
<1>5. CASE s = "dns"
  <2>1. Head(net[s]) \in Dns({NoHost, h}) /\ Tail(net[s]) \in Seq(Dns({NoHost, h}))
    BY <1>1, <1>2, <1>5, HeadTailProperties
  <2>2. Head(net[s]).host \in {NoHost, h}
    BY <2>1 DEF Dns
  <2>3. dns'.result \in {NoHost, h} /\ tcp' = tcp
    BY <1>1, <1>2, <1>5, <2>2 DEF DnsHandle
  <2>4. net'["dns"] \in Seq(Dns({NoHost, h})) /\ \A x \in Host : net'[x] = net[x]
    BY <1>1, <1>4, <1>5, <2>1
  <2> QED  BY <1>2, <1>3, <2>3, <2>4 DEF Ours
<1>6. CASE s # "dns"
  <2>1. s = h /\ at # "dns"
    BY <1>1, <1>2, <1>6 DEF Sender
  <2> DEFINE q == net[h]
  <2>0. PICK p : p = Head(q)
    OBVIOUS
  <2>2. q # <<>> /\ net'[h] = Tail(q) /\ q \in Seq(Tcp(Data(h)))
    BY <1>1, <1>2, <2>1
  <2>3. p \in Tcp(Data(h)) /\ Tail(q) \in Seq(Tcp(Data(h))) /\ Len(Tail(q)) = Len(q) - 1
    BY <2>0, <2>2, HeadTailProperties
  <2>4. p.data \in Data(h) /\ p \in Tcp(Datum)
    <3>1. Data(h) \subseteq Datum
      BY DataIs
    <3> QED  BY <2>3, <3>1 DEF Tcp
  <2>5. /\ UNCHANGED dns
        /\ tcp'.ip = tcp.ip
        /\ tcp.state \in {"closed", "done"} => tcp' = tcp
        /\ tcp.state = "syn" => /\ tcp'.rx = tcp.rx /\ tcp'.len = tcp.len
                                /\ tcp'.state \in {"syn", "est"}
        /\ tcp.state = "est" =>
              /\ tcp'.state \in {"est", "done"}
              /\ LET fits == tcp.len + SizeOf(p.data) <= Capacity
                 IN  /\ tcp'.rx = IF fits THEN Append(tcp.rx, p.data) ELSE tcp.rx
                     /\ tcp'.len = IF fits THEN tcp.len + SizeOf(p.data) ELSE tcp.len
    <3>1. TcpHandle(p)
      <4>1. s # "dns" => TcpHandle(Head(net[s]))
        BY <1>1
      <4>2. p = Head(net[s])
        BY <2>0, <2>1
      <4> QED  BY ONLY <1>6, <4>1, <4>2, Zenon DEF TcpHandle
    <3> QED  BY <2>4, <3>1, TcpHandleIs
  <2>6. tcp.state \in {"closed", "syn", "est", "done"} /\ tcp.len \in Nat
    BY DEF NetTypeOK, Connection
  <2>7. tcp.rx \in Seq(Data(h)) /\ tcp'.rx \in Seq(Data(h))
    <3>1. tcp'.rx = tcp.rx \/ tcp'.rx = Append(tcp.rx, p.data)
      BY <2>5, <2>6
    <3>2. tcp.rx \in Seq(Data(h))
      BY <1>2, <2>1
    <3> QED  BY <2>4, <3>1, <3>2, AppendProperties
  <2>8. /\ net'["dns"] \in Seq(Dns({NoHost, h}))
        /\ \A x \in Host \ {h} : net'[x] = <<>>
    BY <1>1, <1>2, <1>4, <2>1
  <2>9. CASE at = "connect"
    <3>1. ASSUME faults = 0
          PROVE  tcp'.rx = <<>> /\ tcp'.len = 0 /\ Len(net'[h]) <= 1 /\ net'[h] = <<>>
      <4>1. tcp.rx = <<>> /\ tcp.len = 0 /\ Len(q) <= 1 /\ tcp.state # "est"
        BY <1>2, <2>2, <2>9, <3>1
      <4>2. tcp'.rx = <<>> /\ tcp'.len = 0
        BY <2>5, <2>6, <4>1
      <4>3. Len(q) = 1
        <5> DEFINE l == Len(q)
        <5>1. l \in Nat \ {0} /\ l <= 1
          BY <2>2, <4>1, EmptySeq
        <5> HIDE DEF l
        <5>2. l = 1
          BY ONLY <5>1
        <5> QED  BY <5>2 DEF l
      <4>4. Len(Tail(q)) = 0
        BY ONLY <2>3, <4>3
      <4>5. Tail(q) = <<>>
        BY <2>3, <4>4, EmptySeq
      <4>6. net'[h] = <<>> /\ Len(<<>>) <= 1
        BY <2>2, <4>5
      <4> QED  BY <4>2, <4>6
    <3> QED  BY <1>2, <1>3, <2>2, <2>3, <2>5, <2>7, <2>8, <2>9, <3>1 DEF Ours
  <2>10. CASE at = "recv"
    <3>1. ASSUME faults = 0
          PROVE  \E k \in 0 .. Len(Sizes[h]) + 2 : InStream(h, k, net'[h], tcp')
      <4>1. PICK k \in 0 .. Len(Sizes[h]) + 2 : InStream(h, k, q, tcp)
        BY <1>2, <2>10, <3>1
      <4>2. k \in Nat /\ tcp.state # "syn"
        BY <4>1, NetHas DEF InStream
      <4>3. k + 1 \in 0 .. Len(Sizes[h]) + 2
        BY <2>2, <4>1, <4>2, ComingGoes DEF InStream
      <4>4. CASE tcp.state = "est"
        <5>1. tcp'.state # "syn"
          BY <2>5, <4>4
        <5>2. InStream(h, k + 1, Tail(q), tcp')
          BY <2>0, <2>2, <2>5, <2>6, <2>7, <4>1, <4>2, <4>4, <5>1, StreamTakes
        <5> QED  BY <2>2, <4>3, <5>2
      <4>5. CASE tcp.state # "est"
        <5>1. tcp' = tcp
          BY <2>5, <2>6, <4>2, <4>5
        <5>2. InStream(h, k + 1, Tail(q), tcp)
          BY <2>2, <2>7, <4>1, <4>2, <4>5, StreamIdles
        <5> QED  BY <2>2, <4>3, <5>1, <5>2
      <4> QED  BY <4>4, <4>5
    <3> QED  BY <1>2, <1>3, <2>2, <2>3, <2>5, <2>7, <2>8, <2>10, <3>1 DEF Ours
  <2> QED  BY <2>1, <2>9, <2>10 DEF Active
<1> QED  BY <1>5, <1>6

\* Packets sent have their type, and so have all that are on their way.
LEMMA SentKeepsTypes ==
    ASSUME NetTypeOK, NEW src \in Sender, NEW a \in Packets(src),
           net' = [net EXCEPT ![src] = @ \o a]
    PROVE  DOMAIN net' = Sender /\ \A s \in Sender : net'[s] \in Packets(s)
<1>1. DOMAIN net = Sender /\ \A s \in Sender : net[s] \in Packets(s)
  BY DEF NetTypeOK
<1>2. DOMAIN net' = Sender /\ net'[src] = net[src] \o a /\ \A s \in Sender \ {src} : net'[s] = net[s]
  BY <1>1
<1>3. net'[src] \in Packets(src)
  <2>1. CASE src = "dns"
    BY <1>1, <1>2, <2>1, ConcatProperties DEF Packets
  <2>2. CASE src # "dns"
    BY <1>1, <1>2, <2>2, ConcatProperties DEF Packets
  <2> QED  BY <2>1, <2>2
<1> QED  BY <1>1, <1>2, <1>3

\* So have the answer to a query, the first packet of a connection and the answer to a request.
LEMMA PacketsAre ==
    /\ "dns" \in Sender /\ \A h \in Host : h \in Sender /\ h # "dns"
    /\ \A h \in Host \cup {NoHost} : <<Answer(h)>> \in Packets("dns")
    /\ \A h \in Host : <<Control("syn")>> \in Packets(h)
    /\ \A ip \in Host : \A h : \A a \in Replies(ip, h) \cup {<<Control("ack")>>} : a \in Packets(ip)
<1>1. "dns" \in Sender /\ \A h \in Host : h \in Sender /\ h # "dns"
  BY DataIs DEF Sender
<1>2. ASSUME NEW h \in Host \cup {NoHost} PROVE <<Answer(h)>> \in Packets("dns")
  <2>1. PICK x : x = Answer(h)
    OBVIOUS
  <2>2. x \in Dns(Host \cup {NoHost})
    BY <2>1 DEF Answer, Dns
  <2>3. <<x>> \in Seq(Dns(Host \cup {NoHost}))
    BY <2>2
  <2> QED  BY <2>1, <2>3 DEF Packets
<1>3. ASSUME NEW h \in Host PROVE <<Control("syn")>> \in Packets(h)
  <2>1. PICK x : x = Control("syn")
    OBVIOUS
  <2>2. x \in Tcp(Datum)
    <3>1. Pad \in Datum
      BY DataIs
    <3> QED  BY <2>1, <3>1 DEF Control, Tcp, Kinds
  <2>3. <<x>> \in Seq(Tcp(Datum))
    BY <2>2
  <2> QED  BY <1>1, <2>1, <2>3 DEF Packets
<1>4. ASSUME NEW ip \in Host, NEW h, NEW a \in Replies(ip, h) \cup {<<Control("ack")>>}
      PROVE  a \in Packets(ip)
  BY <1>1, ReplyKeepsTypes DEF Packets
<1> QED  BY <1>1, <1>2, <1>3, <1>4

\* A query keeps the network's types.
LEMMA AskKeepsTypes ==
    ASSUME NetTypeOK, NEW h \in Host \cup {NoHost}, Sent("dns", {<<Answer(h)>>, <<Answer(NoHost)>>})
    PROVE  DOMAIN net' = Sender /\ \A s \in Sender : net'[s] \in Packets(s)
<1>1. PICK a \in {<<Answer(h)>>, <<Answer(NoHost)>>} : net' = [net EXCEPT !["dns"] = @ \o a]
  BY DEF Sent
<1>2. a \in Packets("dns") /\ "dns" \in Sender
  BY PacketsAre
<1> QED  BY <1>1, <1>2, SentKeepsTypes

\* So does a connection to an address.
LEMMA ConnectKeepsTypes ==
    ASSUME NetTypeOK, NEW ip \in Host, Connect(ip)
    PROVE  /\ tcp' \in Connection
           /\ DOMAIN net' = Sender /\ \A s \in Sender : net'[s] \in Packets(s)
<1>1. tcp' \in Connection
  <2>1. <<>> \in Seq(Datum)
    OBVIOUS
  <2>2. tcp' = [state |-> "syn", ip |-> ip, rx |-> <<>>, len |-> 0, done |-> FALSE]
    BY DEF Connect
  <2> QED  BY <2>1, <2>2 DEF Connection
<1>2. net' = [net EXCEPT ![ip] = @ \o <<Control("syn")>>]
  BY DEF Connect, Sent
<1>3. <<Control("syn")>> \in Packets(ip) /\ ip \in Sender
  BY PacketsAre
<1>4. DOMAIN net' = Sender /\ \A s \in Sender : net'[s] \in Packets(s)
  BY <1>2, <1>3, SentKeepsTypes
<1> QED  BY <1>1, <1>4

\* So does a request over an open connection.
LEMMA RequestKeepsTypes ==
    ASSUME NetTypeOK, tcp.ip \in Host, NEW form \in BOOLEAN, Request(form)
    PROVE  DOMAIN net' = Sender /\ \A s \in Sender : net'[s] \in Packets(s)
<1>1. PICK a \in Replies(tcp.ip, hostname) \cup {<<Control("ack")>>} :
        net' = [net EXCEPT ![tcp.ip] = @ \o a]
  BY DEF Request, Sent
<1>2. PICK ip \in Host : ip = tcp.ip
  OBVIOUS
<1>3. a \in Packets(ip) /\ ip \in Sender
  <2>1. PICK h : h = hostname
    OBVIOUS
  <2> QED  BY <1>2, <2>1, PacketsAre
<1> QED  BY <1>1, <1>2, <1>3, SentKeepsTypes

\* A connection that is closed, or aborted, keeps its type.
LEMMA ClosedIs ==
    ASSUME NetTypeOK
    PROVE  /\ Closed \in Connection /\ Closed.state = "closed" /\ Closed.rx = tcp.rx
           /\ Abort \in Connection /\ (Abort.state # "closed" => Abort.ip \in Host)
<1>1. tcp \in Connection /\ (tcp.state # "closed" => tcp.ip \in Host)
  BY DEF NetTypeOK
<1>2. Closed \in Connection /\ Closed.state = "closed" /\ Closed.rx = tcp.rx
  BY <1>1 DEF Closed, Connection
<1>3. Abort = Closed \/ Abort = tcp
  BY DEF Abort
<1> QED  BY <1>1, <1>2, <1>3

\* Initially every variable has its type.
LEMMA TypeInit == Init => NetTypeOK
<1>1. SUFFICES ASSUME Init PROVE NetTypeOK
  BY <1>1
<1>2. <<>> \in Seq(Datum) /\ <<>> \in Seq(Dns(Host \cup {NoHost})) /\ <<>> \in Seq(Tcp(Datum))
  OBVIOUS
<1>3. tcp \in Connection /\ tcp.state = "closed"
  BY <1>1, <1>2 DEF Init, Connection
<1>4. curl \in Command
  BY <1>1 DEF Init, NoCurl, Command
<1>5. dns \in Query
  BY <1>1 DEF Init, Reset, Query
<1>6. DOMAIN net = Sender /\ \A s \in Sender : net[s] \in Packets(s)
  BY <1>1, <1>2 DEF Init, Packets
<1> QED  BY <1>1, <1>2, <1>3, <1>4, <1>5, <1>6 DEF Init, NetTypeOK

\* Then every action keeps the types: a page is asked for.
LEMMA BrowseKeepsTypes ==
    ASSUME NetTypeOK, NEW h \in Host \cup {NoHost}, Browse(h)
    PROVE  NetTypeOK'
<1>1. /\ pc = "loop" /\ events' = events + 1
      /\ want' = h /\ page' = <<>> /\ tcp' = Abort /\ attempt' = 0
      /\ UNCHANGED <<ready, curl, pc, faults>>
  BY DEF Browse, Event
<1>2. tcp' \in Connection /\ (tcp'.state # "closed" => tcp'.ip \in Host)
  BY <1>1, ClosedIs
<1>3. CASE ready /\ h # NoHost
  <2>1. /\ fetch' = "loading" /\ async' = "dns" /\ hostname' = h /\ dns' = Reset
        /\ Sent("dns", {<<Answer(h)>>, <<Answer(NoHost)>>})
        /\ clean' = IF Quiet THEN {"fetch"} ELSE {}
    BY <1>3 DEF Browse, AskDns
  <2>2. DOMAIN net' = Sender /\ \A s \in Sender : net'[s] \in Packets(s)
    BY <2>1, AskKeepsTypes
  <2>3. dns' \in Query
    BY <2>1 DEF Reset, Query
  <2>4. clean' \in SUBSET {"fetch", "curl"}
    BY <2>1
  <2> QED  BY <1>1, <1>2, <2>1, <2>2, <2>3, <2>4 DEF NetTypeOK, Active
<1>4. CASE ~ (ready /\ h # NoHost)
  <2>1. fetch' = "error" /\ async' = "idle" /\ UNCHANGED <<hostname, dns, net, clean>>
    BY <1>4 DEF Browse
  <2> QED  BY <1>1, <1>2, <2>1 DEF NetTypeOK
<1> QED  BY <1>3, <1>4

\* curl begins.
LEMMA CurlKeepsTypes ==
    ASSUME NetTypeOK, NEW h \in Host, Curl(h)
    PROVE  NetTypeOK'
<1>1. /\ events' = events + 1
      /\ curl' = [NoCurl EXCEPT !.at = "dns", !.host = h]
      /\ hostname' = h /\ dns' = Reset
      /\ Sent("dns", {<<Answer(h)>>, <<Answer(NoHost)>>})
      /\ clean' = (IF fetch = "loading" THEN {} ELSE clean) \cup (IF Quiet THEN {"curl"} ELSE {})
      /\ pc' = "curl"
      /\ UNCHANGED <<ready, browser, machine, tcp, faults>>
  BY DEF Curl, Event, AskDns
<1>2. DOMAIN net' = Sender /\ \A s \in Sender : net'[s] \in Packets(s)
  BY <1>1, AskKeepsTypes
<1>3. dns' \in Query
  BY <1>1 DEF Reset, Query
<1>4. curl' \in Command
  BY <1>1 DEF NoCurl, Command
<1>5. clean' \in SUBSET {"fetch", "curl"}
  BY <1>1 DEF NetTypeOK
<1> QED  BY <1>1, <1>2, <1>3, <1>4, <1>5 DEF NetTypeOK, browser, machine

\* The network falters.
LEMMA FaultKeepsNet ==
    ASSUME NetTypeOK, NEW s \in Sender, Fault(s)
    PROVE  NetTypeOK'
<1>1. /\ events' = events + 1 /\ faults' = faults + 1 /\ net[s] # <<>>
      /\ \/ net' = [net EXCEPT ![s] = Tail(@)]
         \/ net' = [net EXCEPT ![s] = <<Head(@)>> \o @]
         \/ Len(net[s]) > 1 /\ net' = [net EXCEPT ![s] = <<@[2], @[1]>> \o SubSeq(@, 3, Len(@))]
      /\ UNCHANGED <<ready, browser, machine, curl, stack, pc, clean>>
  BY DEF Fault, Event
<1>2. DOMAIN net = Sender /\ \A x \in Sender : net[x] \in Packets(x)
  BY DEF NetTypeOK
<1>3. /\ DOMAIN net' = Sender
      /\ \/ net'[s] = Tail(net[s])
         \/ net'[s] = <<Head(net[s])>> \o net[s]
         \/ /\ Len(net[s]) > 1
            /\ net'[s] = <<net[s][2], net[s][1]>> \o SubSeq(net[s], 3, Len(net[s]))
      /\ \A x \in Sender \ {s} : net'[x] = net[x]
  BY <1>1, <1>2
<1>4. net'[s] \in Packets(s)
  <2>1. \A S : net[s] \in Seq(S) => net'[s] \in Seq(S)
    BY <1>1, <1>3, FaultKeepsTypes
  <2> QED  BY <1>2, <2>1 DEF Packets
<1> QED  BY <1>1, <1>2, <1>3, <1>4 DEF NetTypeOK, browser, machine, stack

\* The page is left while it loads.
LEMMA LeaveKeepsTypes ==
    ASSUME NetTypeOK, Leave
    PROVE  NetTypeOK'
<1>1. tcp' \in Connection /\ (tcp'.state # "closed" => tcp'.ip \in Host)
  BY ClosedIs DEF Leave
<1> QED  BY <1>1 DEF Leave, NetTypeOK, bounds

\* A packet is handled.
LEMMA HandleKeepsTypes ==
    ASSUME NetTypeOK, Handle
    PROVE  NetTypeOK'
<1>1. PICK s \in Sender :
        /\ net[s] # <<>> /\ net'[s] = Tail(net[s]) /\ \A x \in Sender \ {s} : net'[x] = net[x]
        /\ net' = [net EXCEPT ![s] = Tail(@)]
        /\ s = "dns" => DnsHandle(Head(net[s]))
        /\ s # "dns" => TcpHandle(Head(net[s]))
  BY HandleIs
<1>2. /\ pc' \in {"curl", "poll"}
      /\ UNCHANGED <<ready, browser, machine, curl, hostname, clean, bounds>>
  BY DEF Handle
<1>3. DOMAIN net = Sender /\ \A x \in Sender : net[x] \in Packets(x)
  BY DEF NetTypeOK
<1>4. PICK p : p = Head(net[s])
  OBVIOUS
<1>5. net'[s] \in Packets(s) /\ (s = "dns" => p \in Dns(Host \cup {NoHost}))
      /\ (s # "dns" => p \in Tcp(Datum))
  BY <1>1, <1>3, <1>4, HeadTailProperties DEF Packets
<1>6. DOMAIN net' = Sender /\ \A x \in Sender : net'[x] \in Packets(x)
  BY <1>1, <1>3, <1>5
<1>7. dns' \in Query /\ tcp' \in Connection /\ (tcp'.state # "closed" => tcp'.ip \in Host)
  <2>1. dns \in Query /\ tcp \in Connection /\ (tcp.state # "closed" => tcp.ip \in Host)
    BY DEF NetTypeOK
  <2>2. CASE s = "dns"
    <3>1. /\ dns' = [done |-> TRUE, result |-> IF p.host = NoHost THEN dns.result ELSE p.host]
          /\ UNCHANGED tcp
      BY <1>1, <1>4, <2>2 DEF DnsHandle
    <3>2. p.host \in Host \cup {NoHost} /\ dns.result \in Host \cup {NoHost}
      BY <1>5, <2>1, <2>2 DEF Dns, Query
    <3> QED  BY <2>1, <3>1, <3>2 DEF Query
  <2>3. CASE s # "dns"
    <3>1. TcpHandle(p)
      <4>1. TcpHandle(Head(net[s]))
        BY <1>1, <2>3
      <4> QED  BY ONLY <1>4, <4>1, Zenon DEF TcpHandle
    <3>2. UNCHANGED dns /\ tcp' \in Connection /\ tcp'.ip = tcp.ip
          /\ (tcp'.state # "closed" => tcp.state # "closed")
      BY <1>5, <2>3, <3>1, TcpHandleIs
    <3> QED  BY <2>1, <3>2
  <2> QED  BY <2>2, <2>3
<1> QED  BY <1>2, <1>6, <1>7 DEF NetTypeOK, browser, machine, bounds

\* What each wait of a fetch changes.
LEMMA SwitchKeepsTypes ==
    ASSUME NetTypeOK, AsyncSwitch
    PROVE  NetTypeOK'
<1>1. /\ pc' = "loop" /\ Polling
      /\ UNCHANGED <<ready, curl, hostname, clean, events, faults>>
      /\ AsyncDns \/ AsyncConnect \/ AsyncRecv \/ NothingYet
  BY DEF AsyncSwitch, bounds
<1>2. /\ DOMAIN net = Sender /\ \A s \in Sender : net[s] \in Packets(s)
      /\ dns \in Query /\ tcp \in Connection /\ (tcp.state # "closed" => tcp.ip \in Host)
      /\ <<>> \in Seq(Datum) /\ page \in Seq(Datum) /\ want \in Host \cup {NoHost}
      /\ hostname \in Host \cup {NoHost} /\ attempt \in Nat
  BY DEF NetTypeOK
<1>3. SUFFICES /\ fetch' \in {"idle", "loading", "ready", "error"}
               /\ want' = want /\ page' \in Seq(Datum)
               /\ async' \in Active \cup {"idle", "done", "failed"}
               /\ attempt' \in Nat
               /\ dns' \in Query /\ tcp' \in Connection
               /\ tcp'.state # "closed" => tcp'.ip \in Host
               /\ DOMAIN net' = Sender /\ \A s \in Sender : net'[s] \in Packets(s)
  BY <1>1, <1>3 DEF NetTypeOK
<1>4. ASSUME Fail PROVE /\ fetch' \in {"idle", "loading", "ready", "error"}
                        /\ want' = want /\ page' \in Seq(Datum)
                        /\ async' \in Active \cup {"idle", "done", "failed"}
                        /\ attempt' \in Nat
  BY <1>2, <1>4 DEF Fail
<1>5. ASSUME NEW at \in Active, Goto(at)
      PROVE  /\ fetch' \in {"idle", "loading", "ready", "error"}
             /\ want' = want /\ page' \in Seq(Datum)
             /\ async' \in Active \cup {"idle", "done", "failed"}
             /\ attempt' \in Nat
  BY <1>2, <1>5 DEF Goto, browser, NetTypeOK
<1>6. CASE AsyncDns
  <2>1. CASE dns.done /\ dns.result # NoHost /\ Connect(dns.result) /\ Goto("connect") /\ UNCHANGED dns
    <3>1. PICK ip \in Host : ip = dns.result
      BY <1>2, <2>1 DEF Query
    <3>2. Connect(ip)
      BY <2>1, <3>1 DEF Connect, Sent
    <3>3. tcp' \in Connection /\ tcp'.ip \in Host
          /\ DOMAIN net' = Sender /\ \A s \in Sender : net'[s] \in Packets(s)
      <4>1. tcp'.ip = ip
        BY <3>2 DEF Connect
      <4> QED  BY <3>2, <4>1, ConnectKeepsTypes
    <3> QED  BY <1>2, <1>5, <2>1, <3>3 DEF Active
  <2>2. CASE dns.done /\ dns.result = NoHost /\ Fail /\ UNCHANGED <<dns, tcp, net>>
    BY <1>2, <1>4, <2>2
  <2>3. CASE /\ ~dns.done /\ attempt + 1 < MaxAttempts
             /\ attempt' = attempt + 1
             /\ AskDns(hostname)
             /\ UNCHANGED <<browser, async, tcp>>
    <3>1. PICK h \in Host \cup {NoHost} : h = hostname
      BY <1>2
    <3>2. dns' = Reset /\ Sent("dns", {<<Answer(h)>>, <<Answer(NoHost)>>})
      BY <2>3, <3>1 DEF AskDns, Sent
    <3>3. DOMAIN net' = Sender /\ \A s \in Sender : net'[s] \in Packets(s)
      BY <3>2, AskKeepsTypes
    <3>4. dns' \in Query
      BY <3>2 DEF Reset, Query
    <3> QED  BY <1>2, <2>3, <3>3, <3>4 DEF browser, NetTypeOK
  <2>4. CASE ~dns.done /\ attempt + 1 = MaxAttempts /\ Fail /\ UNCHANGED <<dns, tcp, net>>
    BY <1>2, <1>4, <2>4
  <2> QED  BY <1>6, <2>1, <2>2, <2>3, <2>4 DEF AsyncDns
<1>7. CASE AsyncConnect
  <2>1. CASE tcp.state = "est" /\ Request(FALSE) /\ Goto("recv") /\ UNCHANGED <<dns, tcp>>
    <3>1. tcp.ip \in Host
      BY <1>2, <2>1
    <3>2. DOMAIN net' = Sender /\ \A s \in Sender : net'[s] \in Packets(s)
      BY <2>1, <3>1, RequestKeepsTypes
    <3> QED  BY <1>2, <1>5, <2>1, <3>2 DEF Active
  <2>2. CASE Fail /\ UNCHANGED <<dns, tcp, net>>
    BY <1>2, <1>4, <2>2
  <2> QED  BY <1>7, <2>1, <2>2 DEF AsyncConnect
<1>8. CASE AsyncRecv
  <2>1. /\ tcp' = Closed /\ UNCHANGED <<dns, net>>
        /\ \/ /\ async' = "done" /\ attempt' = 0 /\ fetch' = "ready"
              /\ page' = Body(tcp.rx)
              /\ UNCHANGED want
           \/ Fail
    BY <1>8 DEF AsyncRecv
  <2>2. tcp' \in Connection /\ (tcp'.state # "closed" => tcp'.ip \in Host)
    BY <2>1, ClosedIs
  <2>3. Body(tcp.rx) \in Seq(Datum)
    <3>1. PICK d \in Seq(Datum) : d = tcp.rx
      BY <1>2 DEF Connection
    <3> QED  BY <3>1, BodyIs
  <2> QED  BY <1>2, <1>4, <2>1, <2>2, <2>3
<1>9. CASE NothingYet
  BY <1>2, <1>9 DEF NothingYet, browser, machine, NetTypeOK
<1> QED  BY <1>1, <1>6, <1>7, <1>8, <1>9

\* The same for curl.
LEMMA TestKeepsTypes ==
    ASSUME NetTypeOK, CurlTest
    PROVE  NetTypeOK'
<1>1. /\ pc = "curl"
      /\ UNCHANGED <<ready, browser, machine, hostname, dns, events, faults>>
      /\ CurlDns \/ CurlConnect \/ CurlRecv \/ CurlShows
  BY DEF CurlTest, bounds
<1>2. /\ DOMAIN net = Sender /\ \A s \in Sender : net[s] \in Packets(s)
      /\ dns \in Query /\ tcp \in Connection /\ (tcp.state # "closed" => tcp.ip \in Host)
      /\ curl \in Command /\ clean \in SUBSET {"fetch", "curl"}
  BY DEF NetTypeOK
<1>3. SUFFICES /\ curl' \in Command
               /\ pc' \in {"loop", "poll", "curl"}
               /\ clean' \in SUBSET {"fetch", "curl"}
               /\ tcp' \in Connection
               /\ tcp'.state # "closed" => tcp'.ip \in Host
               /\ DOMAIN net' = Sender /\ \A s \in Sender : net'[s] \in Packets(s)
  BY <1>1, <1>3 DEF NetTypeOK, browser, machine
<1>4. ASSUME CurlEnds PROVE /\ curl' \in Command
                            /\ pc' \in {"loop", "poll", "curl"}
                            /\ clean' \in SUBSET {"fetch", "curl"}
  <2>1. NoCurl \in Command
    BY DEF NoCurl, Command
  <2> QED  BY <1>2, <1>4, <2>1 DEF CurlEnds
<1>5. ASSUME NEW at \in {"connect", "recv", "got"}, CurlGoto(at)
      PROVE  /\ curl' \in Command
             /\ pc' \in {"loop", "poll", "curl"}
             /\ clean' \in SUBSET {"fetch", "curl"}
  <2>1. curl' = [curl EXCEPT !.at = at] /\ pc' = pc /\ clean' = clean
    BY <1>5 DEF CurlGoto
  <2>2. curl' \in Command
    BY <1>2, <2>1 DEF Command
  <2> QED  BY <1>1, <1>2, <2>1, <2>2
<1>6. CASE CurlDns
  <2>1. CASE dns.done /\ dns.result # NoHost /\ Connect(dns.result) /\ CurlGoto("connect")
    <3>1. PICK ip \in Host : ip = dns.result
      BY <1>2, <2>1 DEF Query
    <3>2. Connect(ip)
      BY <2>1, <3>1 DEF Connect, Sent
    <3>3. tcp'.ip \in Host
      BY <3>2 DEF Connect
    <3>4. /\ tcp' \in Connection
          /\ DOMAIN net' = Sender /\ \A s \in Sender : net'[s] \in Packets(s)
      BY <3>2, ConnectKeepsTypes
    <3> QED  BY <1>5, <2>1, <3>3, <3>4
  <2>2. CASE /\ Sent("dns", {<<Answer(curl.host)>>, <<Answer(NoHost)>>})
             /\ curl' = [curl EXCEPT !.attempt = @ + 1]
             /\ UNCHANGED <<tcp, pc, clean>>
    <3>1. PICK h \in Host \cup {NoHost} : h = curl.host
      BY <1>2 DEF Command
    <3>2. Sent("dns", {<<Answer(h)>>, <<Answer(NoHost)>>})
      BY <2>2, <3>1 DEF Sent
    <3>3. DOMAIN net' = Sender /\ \A s \in Sender : net'[s] \in Packets(s)
      BY <3>2, AskKeepsTypes
    <3>4. curl' \in Command
      BY <1>2, <2>2 DEF Command
    <3> QED  BY <1>1, <1>2, <2>2, <3>3, <3>4
  <2>3. CASE CurlEnds /\ UNCHANGED <<tcp, net>>
    BY <1>2, <1>4, <2>3
  <2> QED  BY <1>6, <2>1, <2>2, <2>3 DEF CurlDns
<1>7. CASE CurlConnect
  <2>1. UNCHANGED tcp
    BY <1>7 DEF CurlConnect
  <2>2. CASE tcp.state = "est" /\ (\E form \in BOOLEAN : Request(form)) /\ CurlGoto("recv")
    <3>1. PICK form \in BOOLEAN : Request(form)
      BY <2>2
    <3>2. DOMAIN net' = Sender /\ \A s \in Sender : net'[s] \in Packets(s)
      BY <1>2, <2>2, <3>1, RequestKeepsTypes
    <3> QED  BY <1>2, <1>5, <2>1, <2>2, <3>2
  <2>3. CASE CurlEnds /\ UNCHANGED net
    BY <1>2, <1>4, <2>1, <2>3
  <2> QED  BY <1>7, <2>2, <2>3 DEF CurlConnect
<1>8. CASE CurlRecv
  <2>1. tcp' = Closed /\ UNCHANGED net /\ (CurlGoto("got") \/ CurlEnds)
    BY <1>8 DEF CurlRecv
  <2>2. tcp' \in Connection /\ (tcp'.state # "closed" => tcp'.ip \in Host)
    BY <2>1, ClosedIs
  <2> QED  BY <1>2, <1>4, <1>5, <2>1, <2>2
<1>9. CASE CurlShows
  BY <1>2, <1>4, <1>9 DEF CurlShows
<1> QED  BY <1>1, <1>6, <1>7, <1>8, <1>9

\* Every step keeps the types.
LEMMA TypeStep == NetTypeOK /\ [Next]_vars => NetTypeOK'
<1>1. SUFFICES ASSUME NetTypeOK, [Next]_vars PROVE NetTypeOK'
  BY <1>1
<1>2. CASE \E h \in Host \cup {NoHost} : Browse(h)
  BY <1>1, <1>2, BrowseKeepsTypes
<1>3. CASE \E h \in Host : Curl(h)
  BY <1>1, <1>3, CurlKeepsTypes
<1>4. CASE \E s \in Sender : Fault(s)
  BY <1>1, <1>4, FaultKeepsNet
<1>5. CASE Leave
  BY <1>1, <1>5, LeaveKeepsTypes
<1>6. CASE Handle
  BY <1>1, <1>6, HandleKeepsTypes
<1>7. CASE AsyncSwitch
  BY <1>1, <1>7, SwitchKeepsTypes
<1>8. CASE CurlTest
  BY <1>1, <1>8, TestKeepsTypes
<1>9. CASE UNCHANGED vars
  BY <1>1, <1>9 DEF NetTypeOK, vars, browser, machine, stack, bounds
<1> QED  BY <1>1, <1>2, <1>3, <1>4, <1>5, <1>6, <1>7, <1>8, <1>9 DEF Next

\* The two callers never wait at the same time for a network of their own.
LEMMA TurnsStep == NetTypeOK /\ Turns /\ LoadingIsActive /\ [Next]_vars => Turns'
<1>1. SUFFICES ASSUME NetTypeOK, Turns, LoadingIsActive, [Next]_vars PROVE Turns'
  BY <1>1
<1>2. CASE \E h \in Host \cup {NoHost} : Browse(h)
  <2>1. PICK h \in Host \cup {NoHost} : Browse(h)
    BY <1>2
  <2>2. pc = "loop" /\ pc' = "loop" /\ curl' = curl /\ want' = h
    BY <2>1 DEF Browse
  <2>3. fetch' = "loading" => h \in Host
    BY <2>1 DEF Browse
  <2>4. "curl" \notin clean'
    <3>1. "curl" \notin clean
      BY <1>1, <2>2 DEF Turns
    <3> QED  BY <2>1, <3>1 DEF Browse
  <2> QED  BY <1>1, <2>2, <2>3, <2>4 DEF Turns
<1>3. CASE \E h \in Host : Curl(h)
  <2>1. PICK h \in Host : Curl(h)
    BY <1>3
  <2>2. /\ curl' = [NoCurl EXCEPT !.at = "dns", !.host = h] /\ pc' = "curl"
        /\ clean' = (IF fetch = "loading" THEN {} ELSE clean) \cup (IF Quiet THEN {"curl"} ELSE {})
        /\ fetch' = fetch /\ want' = want
    BY <2>1 DEF Curl, browser
  <2>3. curl'.at = "dns" /\ curl'.host = h
    BY <2>2 DEF NoCurl
  <2>4. ~ (fetch' = "loading" /\ "fetch" \in clean')
    BY <2>2
  <2> QED  BY <1>1, <2>2, <2>3, <2>4 DEF Turns
<1>4. CASE \E s \in Sender : Fault(s)
  BY <1>1, <1>4 DEF Fault, Turns, browser, stack
<1>5. CASE Leave
  BY <1>1, <1>5, ClosedIs DEF Leave, Turns
<1>6. CASE Handle
  <2>1. UNCHANGED <<fetch, want, clean, curl>> /\ (pc' = pc \/ (pc # "curl" /\ pc' = "poll"))
    BY <1>6 DEF Handle, browser, Polling
  <2>2. curl.at = "got" => tcp'.state = "closed"
    <3>1. SUFFICES ASSUME curl.at = "got" PROVE tcp'.state = "closed"
      BY <3>1
    <3>2. tcp.state = "closed"
      BY <1>1, <3>1 DEF Turns
    <3>3. PICK s \in Sender : DnsHandle(Head(net[s])) \/ TcpHandle(Head(net[s]))
      BY <1>6 DEF Handle
    <3>4. tcp' = tcp
      BY <3>2, <3>3 DEF DnsHandle, TcpHandle
    <3> QED  BY <3>2, <3>4
  <2> QED  BY <1>1, <2>1, <2>2 DEF Turns
<1>7. CASE AsyncSwitch
  <2>1. pc # "curl" /\ pc' = "loop" /\ curl' = curl /\ clean' = clean /\ fetch = "loading"
    BY <1>7 DEF AsyncSwitch, Polling
  <2>2. want' = want
    BY <1>7 DEF AsyncSwitch, AsyncDns, AsyncConnect, AsyncRecv, NothingYet, Goto, Fail, browser
  <2> QED  BY <1>1, <2>1, <2>2 DEF Turns
<1>8. CASE CurlTest
  <2>1. pc = "curl" /\ fetch' = fetch /\ want' = want
    BY <1>8 DEF CurlTest, browser
  <2>2. curl \in Command
    BY <1>1 DEF NetTypeOK
  <2>3. \/ CurlEnds
        \/ /\ curl'.at = curl.at /\ curl.at = "dns" /\ curl'.host = curl.host
           /\ UNCHANGED <<tcp, pc, clean>>
        \/ /\ curl'.at \in {"connect", "recv"} /\ curl'.host = curl.host
           /\ UNCHANGED <<pc, clean>>
        \/ /\ curl'.at = "got" /\ curl'.host = curl.host /\ tcp' = Closed
           /\ UNCHANGED <<pc, clean>>
    BY <1>8, <2>2 DEF CurlTest, CurlDns, CurlConnect, CurlRecv, CurlShows, CurlGoto, Command
  <2>4. CASE CurlEnds
    <3>1. curl'.at = "none" /\ pc' = "loop" /\ clean' = clean \ {"curl"}
      BY <2>4 DEF CurlEnds, NoCurl
    <3> QED  BY <1>1, <2>1, <3>1 DEF Turns
  <2>5. CASE ~ CurlEnds
    <3>1. pc' = pc /\ clean' = clean /\ curl'.at # "none" /\ curl'.host = curl.host
      BY <2>3, <2>5
    <3>2. curl'.at = "got" => tcp'.state = "closed"
      BY <1>1, <2>3, <2>5, ClosedIs
    <3> QED  BY <1>1, <2>1, <3>1, <3>2 DEF Turns
  <2> QED  BY <2>4, <2>5
<1>9. CASE UNCHANGED vars
  BY <1>1, <1>9 DEF Turns, vars, browser, machine, stack, bounds
<1> QED  BY <1>1, <1>2, <1>3, <1>4, <1>5, <1>6, <1>7, <1>8, <1>9 DEF Next

\* What has been received for h shows the page of h, as far as it came.
LEMMA RecvShows ==
    ASSUME NEW h \in Host, Ours(h, "recv")
    PROVE  ShowsPageOf(Body(tcp.rx), h)
<1>1. PICK d \in Seq(Data(h)) : d = tcp.rx
  BY DEF Ours
<1>2. faults = 0 => Ordered(d) /\ (Fits(h) => Gapless(h, d))
  BY <1>1 DEF Ours, InStream
<1>3. ShowsPageOf(Body(d), h)
  BY <1>2, BodyShows
<1> QED  BY <1>1, <1>3 DEF ShowsPageOf

\* What is shown stays right while nothing but the count of faults changes.
LEMMA StillShows ==
    ASSUME NEW d, NEW h, ShowsPageOf(d, h), faults' = faults \/ faults' # 0
    PROVE  ShowsPageOf(d, h)'
BY DEF ShowsPageOf

\* A network of one's own stays so while nothing happens to it.
LEMMA StillOurs ==
    ASSUME NEW h, NEW at, Ours(h, at), UNCHANGED <<hostname, dns, tcp, net, faults>>
    PROVE  Ours(h, at)'
BY DEF Ours

\* A page begins to load: with nothing on its way the network is the browser's.
LEMMA BrowseOwned ==
    ASSUME NetInv, NEW x \in Host \cup {NoHost}, Browse(x)
    PROVE  Owned' /\ PageIsRight' /\ CurlIsRight'
<1>1. /\ pc = "loop" /\ pc' = "loop" /\ curl' = curl /\ want' = x
      /\ fetch' # "ready"
  BY DEF Browse
<1>2. curl'.at = "none"
  BY <1>1 DEF NetInv, Turns
<1>3. ASSUME NEW h \in Host, NEW at \in Active, Fetching(h, at)'
      PROVE  Ours(h, at)'
  <2>1. fetch' = "loading" /\ "fetch" \in clean' /\ h = x /\ async' = at
    BY <1>1, <1>3 DEF Fetching
  <2>2. /\ async' = "dns" /\ hostname' = x /\ AskDns(x)
        /\ clean' = IF Quiet THEN {"fetch"} ELSE {}
    BY <2>1 DEF Browse
  <2>3. /\ at = "dns" /\ hostname' = h /\ dns' = Reset
        /\ Sent("dns", {<<Answer(h)>>, <<Answer(NoHost)>>})
    BY <2>1, <2>2 DEF AskDns
  <2>4. (\A s \in Host : net[s] = <<>>) /\ net["dns"] = <<>>
    BY <2>1, <2>2 DEF Quiet, Sender
  <2>5. net["dns"] \in Seq(Dns({NoHost, h})) /\ dns'.result \in {NoHost, h}
    BY <2>3, <2>4 DEF Reset
  <2>6. Ours(h, "dns")'
    BY <2>3, <2>4, <2>5, AskOurs DEF NetInv
  <2> QED  BY <2>3, <2>6
<1>4. ASSUME NEW h \in Host, NEW at \in Active, Curling(h, at)' PROVE Ours(h, at)'
  BY <1>1, <1>4 DEF Curling
<1>5. PageIsRight'
  BY <1>1 DEF PageIsRight
<1>6. CurlIsRight'
  BY <1>2 DEF CurlIsRight
<1> QED  BY <1>3, <1>4, <1>5, <1>6 DEF Owned

\* curl begins: a page that loads can rely on nothing any more.
LEMMA CurlOwned ==
    ASSUME NetInv, NEW x \in Host, Curl(x)
    PROVE  Owned' /\ PageIsRight' /\ CurlIsRight'
<1>1. /\ curl' = [NoCurl EXCEPT !.at = "dns", !.host = x] /\ pc' = "curl" /\ pc = "loop"
      /\ hostname' = x /\ dns' = Reset /\ Sent("dns", {<<Answer(x)>>, <<Answer(NoHost)>>})
      /\ clean' = (IF fetch = "loading" THEN {} ELSE clean) \cup (IF Quiet THEN {"curl"} ELSE {})
      /\ UNCHANGED <<fetch, want, page, faults>>
  BY DEF Curl, browser, AskDns
<1>2. curl'.at = "dns" /\ curl'.host = x
  BY <1>1 DEF NoCurl
<1>3. ASSUME NEW h \in Host, NEW at \in Active, Fetching(h, at)' PROVE Ours(h, at)'
  BY <1>1, <1>3 DEF Fetching
<1>4. ASSUME NEW h \in Host, NEW at \in Active, Curling(h, at)' PROVE Ours(h, at)'
  <2>1. "curl" \in clean' /\ h = x /\ at = "dns"
    BY <1>2, <1>4 DEF Curling
  <2>2. "curl" \notin clean
    BY <1>1 DEF NetInv, Turns
  <2>3. (\A s \in Host : net[s] = <<>>) /\ net["dns"] = <<>>
    BY <1>1, <2>1, <2>2 DEF Quiet, Sender
  <2>4. hostname' = h /\ Sent("dns", {<<Answer(h)>>, <<Answer(NoHost)>>})
    BY <1>1, <2>1
  <2>5. net["dns"] \in Seq(Dns({NoHost, h})) /\ dns'.result \in {NoHost, h}
    BY <1>1, <2>3 DEF Reset
  <2>6. Ours(h, "dns")'
    BY <2>3, <2>4, <2>5, AskOurs DEF NetInv
  <2> QED  BY <2>1, <2>6
<1>5. PageIsRight'
  <2>1. SUFFICES ASSUME fetch' = "ready", "fetch" \in clean' PROVE ShowsPageOf(page, want)'
    BY <2>1 DEF PageIsRight
  <2>2. ShowsPageOf(page, want)
    BY <1>1, <2>1 DEF NetInv, PageIsRight
  <2> QED  BY <1>1, <2>2 DEF ShowsPageOf
<1>6. CurlIsRight'
  BY <1>2 DEF CurlIsRight
<1> QED  BY <1>3, <1>4, <1>5, <1>6 DEF Owned

\* A fault: what is shown stays, and of what is to come only the host is claimed any more.
LEMMA FaultOwned ==
    ASSUME NetInv, NEW s \in Sender, Fault(s)
    PROVE  Owned' /\ PageIsRight' /\ CurlIsRight'
<1>1. /\ UNCHANGED <<fetch, want, page, async, curl, tcp, pc, clean>>
      /\ faults' = faults + 1 /\ faults \in Nat
  BY DEF Fault, browser, machine, stack, NetInv, NetTypeOK
<1>2. ASSUME NEW h \in Host, NEW at \in Active, Fetching(h, at)' PROVE Ours(h, at)'
  <2>1. Fetching(h, at)
    BY <1>1, <1>2 DEF Fetching
  <2> QED  BY <2>1, FaultOurs DEF NetInv, Owned
<1>3. ASSUME NEW h \in Host, NEW at \in Active, Curling(h, at)' PROVE Ours(h, at)'
  <2>1. Curling(h, at)
    BY <1>1, <1>3 DEF Curling
  <2> QED  BY <2>1, FaultOurs DEF NetInv, Owned
<1>4. faults' # 0
  BY <1>1
<1>5. PageIsRight'
  BY <1>1, <1>4 DEF NetInv, PageIsRight, ShowsPageOf
<1>6. CurlIsRight'
  BY <1>1, <1>4 DEF NetInv, CurlIsRight, ShowsPageOf
<1> QED  BY <1>2, <1>3, <1>5, <1>6 DEF Owned

\* The page is left: nobody fetches.
LEMMA LeaveOwned ==
    ASSUME NetInv, Leave
    PROVE  Owned' /\ PageIsRight' /\ CurlIsRight'
<1>1. pc = "loop" /\ pc' = "loop" /\ curl' = curl /\ fetch' = "idle"
  BY DEF Leave
<1>2. curl'.at = "none"
  BY <1>1 DEF NetInv, Turns
<1> QED  BY <1>1, <1>2 DEF Owned, Fetching, Curling, PageIsRight, CurlIsRight

\* A packet is handled: it belongs to whoever has the network, and a page that is shown stays.
LEMMA HandleOwned ==
    ASSUME NetInv, Handle
    PROVE  Owned' /\ PageIsRight' /\ CurlIsRight'
<1>1. /\ UNCHANGED <<fetch, want, page, async, curl, clean, faults>>
      /\ pc' = "curl" => pc = "curl"
  BY DEF Handle, browser, machine, bounds
<1>2. ASSUME NEW h \in Host, NEW at \in Active, Fetching(h, at)' PROVE Ours(h, at)'
  <2>1. Fetching(h, at)
    BY <1>1, <1>2 DEF Fetching
  <2> QED  BY <2>1, HandleOurs DEF NetInv, Owned
<1>3. ASSUME NEW h \in Host, NEW at \in Active, Curling(h, at)' PROVE Ours(h, at)'
  <2>1. Curling(h, at)
    BY <1>1, <1>3 DEF Curling
  <2> QED  BY <2>1, HandleOurs DEF NetInv, Owned
<1>4. PageIsRight'
  BY <1>1 DEF NetInv, PageIsRight, ShowsPageOf
<1>5. CurlIsRight'
  <2>1. SUFFICES ASSUME curl.at = "got", "curl" \in clean PROVE ShowsPageOf(Body(tcp.rx), curl.host)'
    BY <1>1, <2>1 DEF CurlIsRight
  <2>2. tcp.state = "closed"
    BY <2>1 DEF NetInv, Turns
  <2>3. PICK s \in Sender : DnsHandle(Head(net[s])) \/ TcpHandle(Head(net[s]))
    BY DEF Handle
  <2>4. tcp' = tcp
    BY <2>2, <2>3 DEF DnsHandle, TcpHandle
  <2>5. ShowsPageOf(Body(tcp.rx), curl.host)
    BY <2>1 DEF NetInv, CurlIsRight
  <2> QED  BY <1>1, <2>4, <2>5 DEF ShowsPageOf
<1> QED  BY <1>2, <1>3, <1>4, <1>5 DEF Owned

\* The fetch goes on over the network it has, or ends with the page that has come.
LEMMA SwitchOwned ==
    ASSUME NetInv, AsyncSwitch
    PROVE  Owned' /\ PageIsRight' /\ CurlIsRight'
<1>1. /\ pc \in {"loop", "poll"} /\ pc' = "loop" /\ fetch = "loading"
      /\ UNCHANGED <<curl, hostname, clean, faults>>
      /\ AsyncDns \/ AsyncConnect \/ AsyncRecv \/ NothingYet
  BY DEF AsyncSwitch, Polling, bounds
<1>2. curl'.at = "none"
  BY <1>1 DEF NetInv, Turns
<1>3. want' = want /\ want \in Host
  BY <1>1 DEF NetInv, Turns, AsyncDns, AsyncConnect, AsyncRecv, NothingYet, Goto, Fail, browser
<1>4. ASSUME NEW h \in Host, NEW at \in Active, Fetching(h, at)' PROVE Ours(h, at)'
  <2>1. fetch' = "loading" /\ "fetch" \in clean /\ want = h /\ async' = at
    BY <1>1, <1>3, <1>4 DEF Fetching
  <2>2. \A was \in Active : async = was => Ours(h, was)
    BY <1>1, <2>1 DEF NetInv, Owned, Fetching
  <2>3. ~ Fail
    BY <2>1 DEF Fail
  <2>4. CASE AsyncDns
    <3>1. Ours(h, "dns")
      BY <2>2, <2>4 DEF AsyncDns, Active
    <3>2. CASE dns.done /\ dns.result # NoHost /\ Connect(dns.result) /\ Goto("connect") /\ UNCHANGED dns
      <4>1. dns.result = h
        BY <3>1, <3>2 DEF Ours
      <4>2. Connect(h)
        BY <3>2, <4>1 DEF Connect, Sent
      <4>3. Ours(h, "connect")'
        BY <1>1, <3>1, <3>2, <4>2, ConnectOurs DEF NetInv
      <4>4. at = "connect"
        BY <2>1, <3>2 DEF Goto
      <4> QED  BY <4>3, <4>4
    <3>3. CASE AskDns(hostname) /\ UNCHANGED <<browser, async, tcp>>
      <4>1. hostname = h /\ net["dns"] \in Seq(Dns({NoHost, h})) /\ \A s \in Host : net[s] = <<>>
        BY <3>1 DEF Ours
      <4>2. dns' = Reset /\ Sent("dns", {<<Answer(h)>>, <<Answer(NoHost)>>})
        BY <3>3, <4>1 DEF AskDns, Sent
      <4>3. hostname' = h /\ dns'.result \in {NoHost, h}
        BY <1>1, <4>1, <4>2 DEF Reset
      <4>4. Ours(h, "dns")'
        BY <4>1, <4>2, <4>3, AskOurs DEF NetInv
      <4>5. at = "dns"
        BY <2>1, <2>4, <3>3 DEF AsyncDns
      <4> QED  BY <4>4, <4>5
    <3> QED  BY <2>3, <2>4, <3>2, <3>3 DEF AsyncDns
  <2>5. CASE AsyncConnect
    <3>1. Ours(h, "connect") /\ UNCHANGED <<dns, tcp>>
      BY <2>2, <2>5 DEF AsyncConnect, Active
    <3>2. tcp.state = "est" /\ Request(FALSE) /\ Goto("recv")
      BY <2>3, <2>5 DEF AsyncConnect
    <3>3. Ours(h, "recv")'
      BY <1>1, <3>1, <3>2, RequestOurs DEF NetInv
    <3>4. at = "recv"
      BY <2>1, <3>2 DEF Goto
    <3> QED  BY <3>3, <3>4
  <2>6. CASE AsyncRecv
    BY <2>1, <2>3, <2>6 DEF AsyncRecv
  <2>7. CASE NothingYet
    <3>1. async = at /\ UNCHANGED <<hostname, dns, tcp, net, faults>>
      BY <1>1, <2>1, <2>7 DEF NothingYet, machine
    <3> QED  BY <2>2, <3>1, StillOurs
  <2> QED  BY <1>1, <2>4, <2>5, <2>6, <2>7
<1>5. ASSUME NEW h \in Host, NEW at \in Active, Curling(h, at)' PROVE Ours(h, at)'
  BY <1>1, <1>5 DEF Curling
<1>6. PageIsRight'
  <2>1. SUFFICES ASSUME fetch' = "ready", "fetch" \in clean' PROVE ShowsPageOf(page, want)'
    BY <2>1 DEF PageIsRight
  <2>2. AsyncRecv /\ page' = Body(tcp.rx)
    BY <1>1, <2>1 DEF AsyncDns, AsyncConnect, AsyncRecv, NothingYet, Goto, Fail, browser
  <2>3. PICK h \in Host : h = want
    BY <1>3
  <2>4. Ours(h, "recv")
    BY <1>1, <2>1, <2>2, <2>3 DEF NetInv, Owned, Fetching, AsyncRecv, Active
  <2>5. ShowsPageOf(Body(tcp.rx), h)
    BY <2>4, RecvShows
  <2> QED  BY <1>1, <1>3, <2>2, <2>3, <2>5 DEF ShowsPageOf
<1>7. CurlIsRight'
  BY <1>2 DEF CurlIsRight
<1> QED  BY <1>4, <1>5, <1>6, <1>7 DEF Owned

\* The same for curl.
LEMMA TestOwned ==
    ASSUME NetInv, CurlTest
    PROVE  Owned' /\ PageIsRight' /\ CurlIsRight'
<1>1. /\ pc = "curl" /\ UNCHANGED <<fetch, want, page, async, hostname, dns, faults>>
      /\ CurlDns \/ CurlConnect \/ CurlRecv \/ CurlShows
  BY DEF CurlTest, browser, machine, bounds
<1>2. curl \in Command /\ curl.host \in Host
  BY <1>1 DEF NetInv, NetTypeOK, Turns
<1>3. ASSUME NEW at, CurlGoto(at)
      PROVE  pc' = "curl" /\ clean' = clean /\ curl'.at = at /\ curl'.host = curl.host
  BY <1>1, <1>2, <1>3 DEF CurlGoto, Command
<1>4. ASSUME CurlEnds PROVE pc' = "loop" /\ clean' \subseteq clean /\ curl'.at = "none"
  BY <1>4 DEF CurlEnds, NoCurl
<1>5. clean' \subseteq clean
  BY <1>1, <1>3, <1>4 DEF CurlDns, CurlConnect, CurlRecv, CurlShows
<1>6. ASSUME NEW h \in Host, NEW at \in Active, Fetching(h, at)' PROVE Ours(h, at)'
  BY <1>1, <1>5, <1>6 DEF Fetching, NetInv, Turns
<1>7. ASSUME NEW h \in Host, NEW at \in Active, Curling(h, at)' PROVE Ours(h, at)'
  <2>1. pc' = "curl" /\ "curl" \in clean /\ curl'.host = h /\ curl'.at = at
    BY <1>5, <1>7 DEF Curling
  <2>2. ~ CurlEnds
    BY <1>4, <2>1
  <2>3. CASE CurlDns
    <3>1. curl.host = h => Ours(h, "dns")
      BY <1>1, <2>1, <2>3 DEF NetInv, Owned, Curling, CurlDns, Active
    <3>2. CASE dns.done /\ dns.result # NoHost /\ Connect(dns.result) /\ CurlGoto("connect")
      <4>1. curl.host = h /\ at = "connect"
        BY <1>3, <2>1, <3>2
      <4>2. dns.result = h
        BY <3>1, <3>2, <4>1 DEF Ours
      <4>3. Connect(h)
        BY <3>2, <4>2 DEF Connect, Sent
      <4>4. Ours(h, "connect")'
        BY <1>1, <3>1, <4>1, <4>3, ConnectOurs DEF NetInv
      <4> QED  BY <4>1, <4>4
    <3>3. CASE /\ Sent("dns", {<<Answer(curl.host)>>, <<Answer(NoHost)>>})
               /\ curl' = [curl EXCEPT !.attempt = @ + 1]
      <4>1. curl.host = h /\ at = "dns"
        <5>1. curl.at = "dns"
          BY <2>3 DEF CurlDns
        <5> QED  BY <1>2, <2>1, <3>3, <5>1 DEF Command
      <4>2. /\ hostname = h /\ net["dns"] \in Seq(Dns({NoHost, h})) /\ dns.result \in {NoHost, h}
            /\ \A s \in Host : net[s] = <<>>
        BY <3>1, <4>1 DEF Ours
      <4>3. Sent("dns", {<<Answer(h)>>, <<Answer(NoHost)>>})
        BY <3>3, <4>1 DEF Sent
      <4>4. hostname' = h /\ dns'.result \in {NoHost, h}
        BY <1>1, <4>2
      <4>5. Ours(h, "dns")'
        BY <4>2, <4>3, <4>4, AskOurs DEF NetInv
      <4> QED  BY <4>1, <4>5
    <3> QED  BY <2>2, <2>3, <3>2, <3>3 DEF CurlDns
  <2>4. CASE CurlConnect
    <3>1. /\ tcp.state = "est" /\ (\E form \in BOOLEAN : Request(form)) /\ CurlGoto("recv")
          /\ UNCHANGED tcp /\ curl.at = "connect"
      BY <2>2, <2>4 DEF CurlConnect
    <3>2. curl.host = h /\ at = "recv"
      BY <1>3, <2>1, <3>1
    <3>3. Ours(h, "connect")
      BY <1>1, <2>1, <3>1, <3>2 DEF NetInv, Owned, Curling, Active
    <3>4. PICK form \in BOOLEAN : Request(form)
      BY <3>1
    <3>5. Ours(h, "recv")'
      BY <1>1, <3>1, <3>3, <3>4, RequestOurs DEF NetInv
    <3> QED  BY <3>2, <3>5
  <2>5. CASE CurlRecv
    <3>1. CurlGoto("got")
      BY <2>2, <2>5 DEF CurlRecv
    <3>2. at = "got"
      BY <1>3, <2>1, <3>1
    <3> QED  BY <3>2 DEF Active
  <2>6. CASE CurlShows
    BY <2>2, <2>6 DEF CurlShows
  <2> QED  BY <1>1, <2>3, <2>4, <2>5, <2>6
<1>8. PageIsRight'
  BY <1>1, <1>5 DEF NetInv, PageIsRight, ShowsPageOf
<1>9. CurlIsRight'
  <2>1. SUFFICES ASSUME curl'.at = "got", "curl" \in clean'
                 PROVE  ShowsPageOf(Body(tcp.rx), curl.host)'
    BY <2>1 DEF CurlIsRight
  <2>2. ~ CurlEnds
    BY <1>4, <2>1
  <2>3. ~ CurlDns
    <3>1. SUFFICES ASSUME CurlDns PROVE FALSE
      BY <3>1
    <3>2. CurlGoto("connect") \/ (curl' = [curl EXCEPT !.attempt = @ + 1] /\ curl.at = "dns")
      BY <2>2, <3>1 DEF CurlDns
    <3>3. curl'.at \in {"connect", "dns"}
      BY <1>2, <1>3, <3>2 DEF Command
    <3> QED  BY <2>1, <3>3
  <2>4. ~ CurlConnect
    BY <1>3, <2>1, <2>2 DEF CurlConnect
  <2>5. CurlRecv
    BY <1>1, <2>2, <2>3, <2>4 DEF CurlShows
  <2>6. curl.at = "recv" /\ CurlGoto("got") /\ tcp' = Closed
    BY <2>2, <2>5 DEF CurlRecv
  <2>7. PICK h \in Host : h = curl.host
    BY <1>2
  <2>8. Ours(h, "recv")
    BY <1>1, <1>5, <2>1, <2>6, <2>7 DEF NetInv, Owned, Curling, Active
  <2>9. ShowsPageOf(Body(tcp.rx), h)
    BY <2>8, RecvShows
  <2>10. tcp'.rx = tcp.rx /\ curl'.host = h
    BY <1>3, <2>6, <2>7, ClosedIs DEF NetInv
  <2> QED  BY <1>1, <2>9, <2>10 DEF ShowsPageOf
<1> QED  BY <1>6, <1>7, <1>8, <1>9 DEF Owned

\* Initially nobody has the network, and nothing is shown.
LEMMA FetchInit == Init => Turns /\ Owned /\ PageIsRight /\ CurlIsRight
BY DEF Init, NoCurl, Turns, Owned, Fetching, Curling, PageIsRight, CurlIsRight

\* Every step keeps who owns the network, and what has been shown.
LEMMA OwnedStep == NetInv /\ [Next]_vars => Owned' /\ PageIsRight' /\ CurlIsRight'
<1>1. SUFFICES ASSUME NetInv, [Next]_vars PROVE Owned' /\ PageIsRight' /\ CurlIsRight'
  BY <1>1
<1>2. CASE \E h \in Host \cup {NoHost} : Browse(h)
  BY <1>1, <1>2, BrowseOwned
<1>3. CASE \E h \in Host : Curl(h)
  BY <1>1, <1>3, CurlOwned
<1>4. CASE \E s \in Sender : Fault(s)
  BY <1>1, <1>4, FaultOwned
<1>5. CASE Leave
  BY <1>1, <1>5, LeaveOwned
<1>6. CASE Handle
  BY <1>1, <1>6, HandleOwned
<1>7. CASE AsyncSwitch
  BY <1>1, <1>7, SwitchOwned
<1>8. CASE CurlTest
  BY <1>1, <1>8, TestOwned
<1>9. CASE UNCHANGED vars
  <2>1. UNCHANGED <<fetch, want, page, async, curl, pc, clean>>
        /\ UNCHANGED <<hostname, dns, tcp, net, faults>>
    BY <1>9 DEF vars, browser, machine, stack, bounds
  <2>2. ASSUME NEW h \in Host, NEW at \in Active, Fetching(h, at)' PROVE Ours(h, at)'
    <3>1. Fetching(h, at)
      BY <2>1, <2>2 DEF Fetching
    <3>2. Ours(h, at)
      BY <1>1, <3>1 DEF NetInv, Owned
    <3> QED  BY <2>1, <3>2, StillOurs
  <2>3. ASSUME NEW h \in Host, NEW at \in Active, Curling(h, at)' PROVE Ours(h, at)'
    <3>1. Curling(h, at)
      BY <2>1, <2>3 DEF Curling
    <3>2. Ours(h, at)
      BY <1>1, <3>1 DEF NetInv, Owned
    <3> QED  BY <2>1, <3>2, StillOurs
  <2>4. PageIsRight' /\ CurlIsRight'
    BY <1>1, <2>1 DEF NetInv, PageIsRight, CurlIsRight, ShowsPageOf
  <2> QED  BY <2>2, <2>3, <2>4 DEF Owned
<1> QED  BY <1>1, <1>2, <1>3, <1>4, <1>5, <1>6, <1>7, <1>8, <1>9 DEF Next

\* Every variable of the fetches keeps its type: in particular g_tcp.remote_ip is an address
\* whenever a connection is open, so that a request always goes to some server.
THEOREM FetchKeepsTypes == Spec => []NetTypeOK
BY TypeInit, TypeStep, PTL DEF Spec

\* The inductive invariant of the fetches.
LEMMA FetchIsInductive == Spec => []NetInv
<1>1. Init => Turns /\ Owned /\ PageIsRight /\ CurlIsRight
  BY FetchInit
<1>2. NetTypeOK /\ LoadingIsActive /\ Turns /\ Owned /\ PageIsRight /\ CurlIsRight /\ [Next]_vars
        => Turns' /\ Owned' /\ PageIsRight' /\ CurlIsRight'
  BY TurnsStep, OwnedStep DEF NetInv
<1>3. Spec => [](NetTypeOK /\ LoadingIsActive /\ Turns /\ Owned /\ PageIsRight /\ CurlIsRight)
  BY <1>1, <1>2, FetchKeepsTypes, FetchIsFollowed, PTL DEF Spec
<1> QED  BY <1>3, PTL DEF NetInv

\* Whatever servers, answers, buffer, retries and faults there are, a browser that had the network
\* to itself shows segments of the page it was asked for and no other's, and without a fault in
\* their order and, when the answer fits g_tcp_rx_buf, without a gap.
THEOREM PageStaysRight == Spec => []PageIsRight
BY FetchIsInductive, PTL DEF NetInv

\* So does curl, which takes what has come when its time is up.
THEOREM CurlStaysRight == Spec => []CurlIsRight
BY FetchIsInductive, PTL DEF NetInv
=============================================================================
