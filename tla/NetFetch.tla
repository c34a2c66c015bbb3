------------------------------ MODULE NetFetch ------------------------------
(***************************************************************************)
(* The HTTP client of flareOS (kernel/core/net.c) and its two users: the   *)
(* browser, whose fetch is a state machine that browser_tick drives from   *)
(* the main loop, and curl, which blocks the main loop until it is done.   *)
(* Both use the one DNS query (g_dns_done, g_dns_result), the one TCP      *)
(* connection (g_tcp) and the one host name (g_http_hostname) there is.    *)
(*                                                                         *)
(* net_poll handles the packets the card holds one after the other; they   *)
(* stay there while nobody polls.  Packets are told apart by port only:    *)
(* the driver never looks at the source, the sequence number or the DNS id.*)
(* A short frame comes padded, and the padding counts as received data.    *)
(***************************************************************************)
EXTENDS Integers, Sequences

CONSTANTS
    Host,         \* servers; a host's name and its address
    NoHost,       \* no address, or no such name
    Sizes,        \* Host -> the sizes of its answer's segments, the header first
    Capacity,     \* sizeof g_tcp_rx_buf
    MaxAttempts,  \* ASYNC_MAX_ATTEMPTS, 3
    MaxEvents,    \* bound: pages, curl commands, and packets lost, repeated or reordered
    Resets        \* bound: segments after which a server may reset the connection

ASSUME NetAssumption ==
    /\ NoHost \notin Host /\ "dns" \notin Host
    /\ \A h \in Host : Sizes[h] \in Seq(Nat \ {0}) /\ Sizes[h] # <<>>
    /\ Capacity \in Nat
    /\ MaxAttempts \in Nat \ {0}
    /\ \A h \in Host : Resets \subseteq 0 .. Len(Sizes[h])

VARIABLES
    ready,                 \* g_net_ready, set by DHCP at boot or never
    fetch, want, page,     \* g_fetch_state, g_url and g_fetch_buf of browser.c
    async, attempt,        \* g_async_state, g_async_attempt
    curl,                  \* where shell_curl is, and its locals
    hostname,              \* g_http_hostname
    dns,                   \* g_dns_done and g_dns_result
    tcp,                   \* g_tcp
    pc,                    \* the main loop: "loop", in browser_tick, or in curl
    net,                   \* packets on their way or in the card, by sender
    clean,                 \* history: which of the two callers has had the network to itself
    events, faults         \* for the bound, and the faults among them

browser == <<fetch, want, page>>
machine == <<async, attempt>>
stack == <<hostname, dns, tcp>>
bounds == <<events, faults>>
vars == <<ready, browser, machine, curl, stack, pc, net, clean, bounds>>

Sender == Host \cup {"dns"}
Active == {"dns", "connect", "recv"}
Pad == [host |-> NoHost, part |-> 0]
NoCurl == [at |-> "none", host |-> NoHost, attempt |-> 0]
Reset == [done |-> FALSE, result |-> NoHost]

-----------------------------------------------------------------------------
(* The network *)

Answer(h) == [kind |-> "dns", host |-> h]
\* Every TCP packet that carries no data carries padding.
Control(flag) == [kind |-> flag, data |-> Pad]
\* Segment k of the answer of the server at ip to a request for host h.
Part(ip, h, k) == [host |-> IF h = ip THEN ip ELSE NoHost, part |-> k]
Segments(ip, h, n) == [k \in 1 .. n |-> [kind |-> "data", data |-> Part(ip, h, k)]]

\* What the server at ip sends for a request: an ACK and the answer, its end in a
\* packet of its own or in the last segment, or reset on the way.
Replies(ip, h) ==
    LET n == Len(Sizes[ip])
    IN  {<<Control("ack")>> \o Segments(ip, h, n) \o <<Control("fin")>>,
         <<Control("ack")>> \o [Segments(ip, h, n) EXCEPT ![n].kind = "fin"]}
        \cup {<<Control("ack")>> \o Segments(ip, h, k) \o <<Control("rst")>> : k \in Resets}

\* What comes back for a packet sent; it may be late for ever.
Sent(src, answers) == \E a \in answers : net' = [net EXCEPT ![src] = @ \o a]

Event == events < MaxEvents /\ events' = events + 1

Quiet == \A s \in Sender : net[s] = <<>>

\* A packet is lost, repeated or overtaken; a lost query counts as a lost answer.
Fault(s) ==
    /\ Event
    /\ faults' = faults + 1
    /\ net[s] # <<>>
    /\ \/ net' = [net EXCEPT ![s] = Tail(@)]
       \/ net' = [net EXCEPT ![s] = <<Head(@)>> \o @]
       \/ Len(net[s]) > 1 /\ net' = [net EXCEPT ![s] = <<@[2], @[1]>> \o SubSeq(@, 3, Len(@))]
    /\ UNCHANGED <<ready, browser, machine, curl, stack, pc, clean>>

-----------------------------------------------------------------------------
(* DNS and TCP *)

SizeOf(d) == IF d = Pad THEN 1 ELSE IF d.host = NoHost THEN 1 ELSE Sizes[d.host][d.part]

\* async_send_dns, and dns_resolve up to its first poll.
AskDns(h) ==
    /\ dns' = Reset
    /\ Sent("dns", {<<Answer(h)>>, <<Answer(NoHost)>>})

\* Mutant: the buffer is not emptied.
ConnectKeepsBuffer(ip) ==
    /\ tcp' = [tcp EXCEPT !.state = "syn", !.ip = ip, !.done = FALSE]
    /\ Sent(ip, {<<Control("syn")>>})

\* tcp_init_connect and the SYN; tcp_handle ignores a reset for an answer.
Connect(ip) ==
    /\ tcp' = [state |-> "syn", ip |-> ip, rx |-> <<>>, len |-> 0, done |-> FALSE]
    /\ Sent(ip, {<<Control("syn")>>})

\* The GET request, or curl's POST, whose header net_http_post cuts off: the
\* server waits for the rest of it.
Request(form) == Sent(tcp.ip, IF form THEN {<<Control("ack")>>} ELSE Replies(tcp.ip, hostname))

Closed == [tcp EXCEPT !.state = "closed"]

\* dns_handle: an answer without an address leaves g_dns_result alone.
DnsHandle(p) ==
    /\ dns' = [done |-> TRUE, result |-> IF p.host = NoHost THEN dns.result ELSE p.host]
    /\ UNCHANGED tcp

\* tcp_handle: data that does not fit is dropped, and acknowledged all the same.
TcpHandle(p) ==
    /\ UNCHANGED dns
    /\ LET fits == tcp.len + SizeOf(p.data) <= Capacity
           ended == p.kind \in {"fin", "rst"}
       IN  tcp' = CASE tcp.state = "syn" /\ p.kind = "syn" -> [tcp EXCEPT !.state = "est"]
                    [] tcp.state = "est" ->
                         [tcp EXCEPT !.rx = IF fits THEN Append(@, p.data) ELSE @,
                                     !.len = IF fits THEN @ + SizeOf(p.data) ELSE @,
                                     !.state = IF ended THEN "done" ELSE @,
                                     !.done = @ \/ ended]
                    [] OTHER -> tcp

\* browser_tick is called: net_async_http_poll goes on to net_poll, and then to its switch.
Polling == pc \in {"loop", "poll"} /\ fetch = "loading" /\ async \in Active

\* net_poll takes the next packet from the card.  An ACK that the handler sends goes where the SYN went,
\* whose address arp_resolve finds in its cache, from which nothing is ever removed.  Only an old packet
\* that comes before the first SYN could leave would have it poll again, inside the handler; it does not here.
Handle ==
    /\ \/ pc = "curl" /\ UNCHANGED pc
       \/ Polling /\ pc' = "poll"
    /\ \E s \in Sender :
          /\ net[s] # <<>>
          /\ net' = [net EXCEPT ![s] = Tail(@)]
          /\ IF s = "dns" THEN DnsHandle(Head(net[s])) ELSE TcpHandle(Head(net[s]))
    /\ UNCHANGED <<ready, browser, machine, curl, hostname, clean, bounds>>

\* The body: what follows the header's segment, or everything when there is none.
Body(rx) ==
    LET headers == {i \in 1 .. Len(rx) : rx[i].part = 1}
        first == CHOOSE i \in headers : \A j \in headers : i <= j
    IN  IF headers = {} THEN rx ELSE SubSeq(rx, first + 1, Len(rx))

-----------------------------------------------------------------------------
(* The browser *)

\* net_async_http_abort
Abort == IF async \in {"connect", "recv"} THEN Closed ELSE tcp

\* browser_start, from the prompt or a link: a fetch that is loading is aborted.  It fails
\* at once without a network, or for a URL parse_url refuses.
Browse(h) ==
    /\ pc = "loop"
    /\ Event
    /\ want' = h
    /\ page' = <<>>
    /\ tcp' = Abort
    /\ attempt' = 0
    /\ IF ready /\ h # NoHost
       THEN /\ fetch' = "loading"
            /\ async' = "dns"
            /\ hostname' = h
            /\ AskDns(h)
            /\ clean' = IF Quiet THEN {"fetch"} ELSE {}
       ELSE /\ fetch' = "error"
            /\ async' = "idle"
            /\ UNCHANGED <<hostname, dns, net, clean>>
    /\ UNCHANGED <<ready, curl, pc, faults>>

\* Mutant: the fetch is not aborted.
LeaveRunning ==
    /\ pc = "loop"
    /\ fetch = "loading"
    /\ fetch' = "idle"
    /\ UNCHANGED <<ready, want, page, machine, curl, stack, pc, net, clean, bounds>>

\* Esc while the page loads.
Leave ==
    /\ pc = "loop"
    /\ fetch = "loading"
    /\ fetch' = "idle"
    /\ async' = "idle"
    /\ attempt' = 0
    /\ tcp' = Abort
    /\ UNCHANGED <<ready, want, page, curl, hostname, dns, pc, net, clean, bounds>>

\* attempt keeps its value only while it is read.
Goto(state) == async' = state /\ attempt' = 0 /\ UNCHANGED browser

Fail ==
    /\ async' = "failed"
    /\ attempt' = 0
    /\ fetch' = "error"
    /\ page' = <<>>
    /\ UNCHANGED want

\* The deadline may pass whenever there is no answer: nothing bounds a server's delay.
AsyncDns ==
    /\ async = "dns"
    /\ \/ dns.done /\ dns.result # NoHost /\ Connect(dns.result) /\ Goto("connect") /\ UNCHANGED dns
       \/ dns.done /\ dns.result = NoHost /\ Fail /\ UNCHANGED <<dns, tcp, net>>
       \/ /\ ~dns.done /\ attempt + 1 < MaxAttempts
          /\ attempt' = attempt + 1
          /\ AskDns(hostname)
          /\ UNCHANGED <<browser, async, tcp>>
       \/ ~dns.done /\ attempt + 1 = MaxAttempts /\ Fail /\ UNCHANGED <<dns, tcp, net>>

\* Mutant: no deadline.
AsyncConnectPatient ==
    /\ async = "connect"
    /\ \/ tcp.state = "est" /\ Request(FALSE) /\ Goto("recv")
       \/ tcp.state = "done" /\ Fail /\ UNCHANGED net
    /\ UNCHANGED <<dns, tcp>>

\* A connection that failed, by its deadline or a reset, is not closed.
AsyncConnect ==
    /\ async = "connect"
    /\ \/ tcp.state = "est" /\ Request(FALSE) /\ Goto("recv")
       \/ tcp.state # "est" /\ Fail /\ UNCHANGED net
    /\ UNCHANGED <<dns, tcp>>

AsyncRecv ==
    /\ async = "recv"
    /\ tcp' = Closed
    /\ \/ /\ tcp.done
          /\ async' = "done"
          /\ attempt' = 0
          /\ fetch' = "ready"
          /\ page' = Body(tcp.rx)
          /\ UNCHANGED want
       \/ ~tcp.done /\ Fail
    /\ UNCHANGED <<dns, net>>

\* No answer yet, and the deadline has not passed.
NothingYet ==
    /\ pc = "poll"
    /\ CASE async = "dns" -> ~dns.done
         [] async = "connect" -> tcp.state \notin {"est", "done"}
         [] async = "recv" -> ~tcp.done
    /\ UNCHANGED <<browser, machine, dns, tcp, net>>

\* The switch of net_async_http_poll, and what browser_tick does with its answer.
AsyncSwitch ==
    /\ Polling
    /\ pc' = "loop"
    /\ AsyncDns \/ AsyncConnect \/ AsyncRecv \/ NothingYet
    /\ UNCHANGED <<ready, curl, hostname, clean, bounds>>

-----------------------------------------------------------------------------
(* curl: net_http_get, or net_http_post, which differ in the request only *)

\* Mutant: the last answer is not forgotten.
CurlKeepsAnswer(h) ==
    /\ pc = "loop"
    /\ ready
    /\ Event
    /\ curl' = [NoCurl EXCEPT !.at = "dns", !.host = h]
    /\ hostname' = h
    /\ Sent("dns", {<<Answer(h)>>, <<Answer(NoHost)>>})
    /\ clean' = (IF fetch = "loading" THEN {} ELSE clean) \cup (IF Quiet THEN {"curl"} ELSE {})
    /\ pc' = "curl"
    /\ UNCHANGED <<ready, browser, machine, dns, tcp, faults>>

Curl(h) ==
    /\ pc = "loop"
    /\ ready
    /\ Event
    /\ curl' = [NoCurl EXCEPT !.at = "dns", !.host = h]
    /\ hostname' = h
    /\ AskDns(h)
    /\ clean' = (IF fetch = "loading" THEN {} ELSE clean) \cup (IF Quiet THEN {"curl"} ELSE {})
    /\ pc' = "curl"
    /\ UNCHANGED <<ready, browser, machine, tcp, faults>>

CurlGoto(at) == curl' = [curl EXCEPT !.at = at] /\ UNCHANGED <<pc, clean>>

CurlEnds == curl' = NoCurl /\ pc' = "loop" /\ clean' = clean \ {"curl"}

\* dns_resolve's loop; it sends the same query again without forgetting an answer.
CurlDns ==
    /\ curl.at = "dns"
    /\ \/ dns.done /\ dns.result # NoHost /\ Connect(dns.result) /\ CurlGoto("connect")
       \/ /\ ~dns.done /\ curl.attempt + 1 < MaxAttempts
          /\ Sent("dns", {<<Answer(curl.host)>>, <<Answer(NoHost)>>})
          /\ curl' = [curl EXCEPT !.attempt = @ + 1]
          /\ UNCHANGED <<tcp, pc, clean>>
       \/ /\ IF dns.done THEN dns.result = NoHost ELSE curl.attempt + 1 = MaxAttempts
          /\ CurlEnds
          /\ UNCHANGED <<tcp, net>>

\* tcp_connect's loop, then tcp_send.
CurlConnect ==
    /\ curl.at = "connect"
    /\ \/ tcp.state = "est" /\ (\E form \in BOOLEAN : Request(form)) /\ CurlGoto("recv")
       \/ tcp.state # "est" /\ CurlEnds /\ UNCHANGED net
    /\ UNCHANGED tcp

\* Mutant: no deadline.
CurlRecvPatient ==
    /\ curl.at = "recv"
    /\ tcp.done
    /\ CurlGoto("got")
    /\ tcp' = Closed
    /\ UNCHANGED net

\* tcp_recv_all's loop: what has come when the time is up counts as the page.
CurlRecv ==
    /\ curl.at = "recv"
    /\ IF tcp.done \/ tcp.len > 0 THEN CurlGoto("got") ELSE CurlEnds
    /\ tcp' = Closed
    /\ UNCHANGED net

\* "curl: got", and the file is saved or shown.
CurlShows == curl.at = "got" /\ CurlEnds /\ UNCHANGED <<tcp, net>>

CurlTest ==
    /\ pc = "curl"
    /\ CurlDns \/ CurlConnect \/ CurlRecv \/ CurlShows
    /\ UNCHANGED <<ready, browser, machine, hostname, dns, bounds>>

-----------------------------------------------------------------------------
Init ==
    /\ ready \in BOOLEAN
    /\ fetch = "idle" /\ want = NoHost /\ page = <<>>
    /\ async = "idle" /\ attempt = 0
    /\ curl = NoCurl
    /\ hostname = NoHost
    /\ dns = Reset
    /\ tcp = [state |-> "closed", ip |-> NoHost, rx |-> <<>>, len |-> 0, done |-> FALSE]
    /\ pc = "loop"
    /\ net = [s \in Sender |-> <<>>]
    /\ clean = {}
    /\ events = 0 /\ faults = 0

Next ==
    \/ \E h \in Host \cup {NoHost} : Browse(h)
    \/ \E h \in Host : Curl(h)
    \/ \E s \in Sender : Fault(s)
    \/ Leave
    \/ Handle
    \/ AsyncSwitch
    \/ CurlTest

Spec == Init /\ [][Next]_vars

\* The main loop calls browser_tick on every turn, curl's loops turn, and the timer ticks
\* until a deadline has passed.  No packet need come.
Fairness == WF_vars(AsyncSwitch) /\ WF_vars(CurlTest)

FairSpec == Spec /\ Fairness
-----------------------------------------------------------------------------
(* Properties *)

\* The browser waits for a fetch exactly while the fetch is under way: it is neither left
\* waiting by a fetch that was dropped, nor written to by one that it has given up.
LoadingIsActive == fetch = "loading" <=> async \in Active

\* Where received data is not padding.
Segs(d) == {i \in 1 .. Len(d) : d[i] # Pad}

\* The sizes of h's first segments together, with the padding of an ACK and a FIN.
Total(h) ==
    LET total[k \in 0 .. Len(Sizes[h])] == IF k = 0 THEN 2 ELSE total[k - 1] + Sizes[h][k]
    IN  total

\* The segments a body shows are all of host h; and unless the network faltered they are in
\* order, and when the whole answer fits the buffer with its padding each but the first one
\* follows its predecessor.
ShowsPageOf(d, h) ==
    /\ \A i \in Segs(d) : d[i].host = h
    /\ faults = 0 =>
          /\ \A i, j \in Segs(d) : i < j => d[i].part < d[j].part
          /\ Total(h)[Len(Sizes[h])] <= Capacity =>
                \A i \in Segs(d) :
                    d[i].part = 2 \/ \E j \in Segs(d) : j < i /\ d[j].part = d[i].part - 1

\* A browser that had the network to itself shows the page of the host it was asked for, as
\* far as it came, whatever was retried, reset, truncated or late.
PageIsRight == (fetch = "ready" /\ "fetch" \in clean) => ShowsPageOf(page, want)

\* The same for curl.
CurlIsRight == (curl.at = "got" /\ "curl" \in clean) => ShowsPageOf(Body(tcp.rx), curl.host)

\* A page stops loading, with or without an answer, although curl may take the query or the
\* connection away: every wait has a deadline and the retries are counted.
FetchEnds == fetch = "loading" ~> fetch # "loading"

\* curl gives the main loop back.
CurlReturns == pc = "curl" ~> pc = "loop"
=============================================================================
