------------------------------- MODULE RxRing -------------------------------
(***************************************************************************)
(* The receive buffer that the network card and its driver                 *)
(* (kernel/drivers/rtl8139.c) share.  The card puts packets behind each    *)
(* other into a ring, a packet that does not fit before the end of the     *)
(* ring whole into the slack behind it; it takes up the read pointer the   *)
(* driver stores in CAPR.  rtl8139_poll_packet hands out a pointer into    *)
(* the buffer, and gives the space back to the card before the packet has  *)
(* been used.                                                              *)
(*                                                                         *)
(* Offsets and sizes count units of 4 bytes, to which packets are aligned; *)
(* the first unit of a packet is its header.  What packets say is in       *)
(* NetFetch.                                                               *)
(***************************************************************************)
EXTENDS Integers, Sequences

CONSTANTS
    RingSize,    \* the ring of the card, 8192 bytes
    Slack,       \* room behind it, 1536 bytes
    BufPad,      \* RTL_RX_BUF_PAD, 16 bytes
    PacketSizes, \* sizes of packets, from 60 to 1518 bytes with their CRC, and the header
    MaxPackets,  \* bound: packets the card puts into the ring
    MaxNest      \* bound: packets in use at once

ASSUME RingAssumption ==
    /\ {RingSize, Slack, BufPad, MaxNest, MaxPackets} \subseteq Nat \ {0}
    /\ PacketSizes \subseteq 2 .. RingSize - 1
    /\ \A s \in PacketSizes : s <= Slack

VARIABLES
    mem,     \* g_rx_buffer: <<packet, unit>>, <<0, 0>> where nothing has been written
    size,    \* history: the sizes of the packets put into the ring
    cbr,     \* the card: where it puts the next packet
    capr,    \* the card: up to where the driver has read
    offset,  \* g_rx_offset
    busy,    \* an operation of the network is under way: nothing else polls
    using,   \* [at, size] of the packets in use; a handler that waits for an answer polls too
    lap,     \* history: 1 when the card has come to the end of the ring, 2 when it goes on at its start
    got      \* history: the first packets handed over until then, 0 for one that is not what was received

ringVars == <<mem, size, cbr, capr, offset, busy, using, lap, got>>

\* RTL_RX_BUF_SIZE
BufSize == RingSize + Slack + BufPad

-----------------------------------------------------------------------------
(* The card *)

\* A packet is received, if there is room for it.
Receive(s) ==
    LET room == (capr - cbr) % RingSize
        id == Len(size) + 1
    IN  /\ id <= MaxPackets
        /\ room = 0 \/ s < room
        /\ mem' = [i \in DOMAIN mem |-> IF i \in cbr .. cbr + s - 1 THEN <<id, i - cbr>> ELSE mem[i]]
        /\ size' = Append(size, s)
        /\ cbr' = (cbr + s) % RingSize
        /\ lap' = IF lap > 0 THEN 2 ELSE IF cbr + s >= RingSize THEN 1 ELSE 0
        /\ UNCHANGED <<capr, offset, busy, using, got>>

-----------------------------------------------------------------------------
(* rtl8139_poll_packet *)

\* RTL_CMD_BUFE
Empty == cbr = capr

\* What the driver may find where it looks for a header: that of a packet, nothing, or the middle
\* of a packet, which may look like any header.  Size 0 stands for every length that no packet has.
Header ==
    LET p == mem[offset][1]
        unit == mem[offset][2]
    IN  IF p = 0 THEN {[rok |-> FALSE, size |-> 0]}
        ELSE IF unit = 0 THEN {[rok |-> TRUE, size |-> size[p]]}
        ELSE [rok : BOOLEAN, size : PacketSizes \cup {0}]

\* Mutant: any length that a packet can have will do.
CorruptByLength(h) == h.size = 0

\* Validate the header before trusting it.
Corrupt(h) == h.size = 0 \/ offset + h.size >= BufSize

\* Mutant: starts over as soon as the ring's own size is left.
NextOffsetEarly(s) == IF offset + s >= RingSize - BufPad THEN 0 ELSE offset + s

\* Behind the packet, or back at the start of the buffer.
NextOffset(s) == IF offset + s >= RingSize + Slack THEN 0 ELSE offset + s

\* Mutant: the card is not told.
MoveToUntold(o) == offset' = o /\ UNCHANGED capr

\* g_rx_offset, and CAPR with it: the card adds the 16 bytes that the driver takes off, and wraps.
MoveTo(o) == offset' = o /\ capr' = o % RingSize

\* Not a header: start over.
PollCorrupt ==
    /\ busy /\ ~Empty
    /\ \E h \in Header : Corrupt(h)
    /\ MoveTo(0)
    /\ UNCHANGED <<mem, size, cbr, busy, using, lap, got>>

\* A packet received with errors.
PollSkips ==
    /\ busy /\ ~Empty
    /\ \E h \in Header : ~Corrupt(h) /\ ~h.rok /\ MoveTo(NextOffset(h.size))
    /\ UNCHANGED <<mem, size, cbr, busy, using, lap, got>>

\* The units of a packet, in their places.
Whole(at, s, p) == \A i \in 0 .. s - 1 : mem[at + i] = <<p, i>>

PollTakes ==
    /\ busy /\ ~Empty
    /\ Len(using) < MaxNest
    /\ \E h \in Header :
           /\ ~Corrupt(h) /\ h.rok
           /\ MoveTo(NextOffset(h.size))
           /\ using' = Append(using, [at |-> offset, size |-> h.size])
           /\ LET p == mem[offset][1]
              IN  got' = IF lap = 2 \/ Len(got) = MaxPackets THEN got
                         ELSE Append(got, IF Whole(offset, h.size, p) THEN p ELSE 0)
    /\ UNCHANGED <<mem, size, cbr, busy, lap>>

Poll == PollCorrupt \/ PollSkips \/ PollTakes

\* The handler that net_poll has called returns; the one it was called in goes on.
Used ==
    /\ using # <<>>
    /\ using' = SubSeq(using, 1, Len(using) - 1)
    /\ UNCHANGED <<mem, size, cbr, capr, offset, busy, lap, got>>

\* An operation begins, or gives up or has got what it waited for.
Operate ==
    /\ using = <<>>
    /\ busy' = ~busy
    /\ UNCHANGED <<mem, size, cbr, capr, offset, using, lap, got>>

-----------------------------------------------------------------------------
\* rtl8139_init
RingInit ==
    /\ mem = [i \in 0 .. BufSize - 1 |-> <<0, 0>>]
    /\ size = <<>>
    /\ cbr = 0
    /\ capr = 0
    /\ offset = 0
    /\ busy = FALSE
    /\ using = <<>>
    /\ lap = 0
    /\ got = <<>>

RingNext == (\E s \in PacketSizes : Receive(s)) \/ Poll \/ Used \/ Operate

RingSpec == RingInit /\ [][RingNext]_ringVars

\* An operation polls until it ends, and handlers return.
RingFairSpec == RingSpec /\ WF_ringVars(Poll) /\ WF_ringVars(Used)
-----------------------------------------------------------------------------
(* Properties *)

\* Every variable has its type; driver and card agree on what has been read.
RingTypeOK ==
    /\ mem \in [0 .. BufSize - 1 -> (0 .. MaxPackets) \X Nat]
    /\ size \in Seq(PacketSizes) /\ Len(size) <= MaxPackets
    /\ {cbr, capr} \subseteq 0 .. RingSize - 1
    /\ offset \in 0 .. RingSize + Slack - 1
    /\ capr = offset % RingSize
    /\ using \in Seq([at : 0 .. BufSize - 1, size : PacketSizes]) /\ Len(using) <= MaxNest
    /\ busy \in BOOLEAN /\ (using # <<>> => busy)
    /\ lap \in 0 .. 2
    /\ got \in Seq(0 .. MaxPackets)

\* Whatever the driver takes for a header, stale packets and the middle of packets included, what
\* it hands out lies inside the buffer.
PacketIsInBuffer == \A i \in DOMAIN using : using[i].at + using[i].size < BufSize

\* Until the card goes on at the start of the ring every packet is handed over once, whole and in
\* the order received, and stays whole while it is used, though its space has been given back.
\* (From then on the driver reads on behind the ring, where nothing is written: see the README.)
InOrderUntilWrap ==
    lap < 2 =>
        /\ Len(got) <= Len(size) /\ \A i \in DOMAIN got : got[i] = i
        /\ \A i \in DOMAIN using : Whole(using[i].at, using[i].size, mem[using[i].at][1])

\* Until then no packet waits for ever while an operation goes on.
PacketIsTaken ==
    \A p \in 1 .. MaxPackets :
        (Len(size) >= p /\ busy) ~> ((\E i \in DOMAIN got : got[i] = p) \/ ~busy \/ lap = 2)
=============================================================================
