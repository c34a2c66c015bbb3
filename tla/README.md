# Verification of flareOS in TLA+

flareOS is a small x86-64 operating system: one kernel image, one address space,
one thread of control (the main loop of `kernel_main`) and two interrupt sources
(the timer and the keyboard).  Its shell has four sessions, three applications
(snake, editor, browser), a writable root file system on the boot disk and a small
TCP/IP stack.  This directory holds TLA+ modules translated from the C sources,
TLC configurations that check them on small instances, and proofs that TLAPS checks
for every value of the constants.

- [Inventory](#inventory): the parts of the system, their state, what is hard about them
- [Modules](#modules-and-how-they-correspond-to-the-code)
- [Runs](#runs): what each shows, its bounds and why they are enough
- [Fairness](#fairness)
- [Proofs](#proofs)
- [What the code does not keep](#what-the-code-does-not-keep)
- [Not modelled, and the plan](#not-modelled-and-the-plan)

How to run, in this directory:

    tlc -workers 2 -config FlareFs_power.cfg MCFlareFs
    tlapm FlareFsProofs.tla

## Inventory

| Part | Source (under `src/kernel`) | State it keeps | Operations | Hard behaviour | What makes it correct |
|---|---|---|---|---|---|
| flarefs | `fs/ext4.c` | `g_super`, `g_dir`, `g_files`, `g_file_count`, `g_fs_writable`; superblock, directory and data sectors on the disk | mount, write, append, remove, format, install, fall back on the install media | every call is several sector writes: the power may go between two, any may fail, and memory is a cache of the disk | files never overlap; memory shows the disk; each call is all or nothing |
| ATA driver | `drivers/ata.c` | `g_ata_present` | read, write and flush a sector | a write may reach the disk although the flush after it fails | (an environment of flarefs) |
| keyboard | `drivers/keyboard.c` | decoder flags, `key_queue` with `q_head`, `q_tail` | `keyboard_handle_irq` (interrupt), `keyboard_poll_event` (main loop) | unlocked ring between an interrupt handler and the loop; prefix and modifier bytes that return early | a bounded FIFO; the keys decoded are the keys typed |
| main loop, interrupts, faults | `core/kernel.c`, `arch/x86_64/idt.c`, `interrupt_stubs.S`, `drivers/pic.c`, `pit.c` | the loop's place, RFLAGS.IF, `g_fault_in_app`, the 8259's in-service bits | the calls of the loop, `interrupt_dispatch`, `panic_exception`, `hlt` | tests its work and then sleeps; a fault jumps out of the loop or out of a handler | no interrupt stays masked; the recovery window is armed where it should be; input is dealt with |
| shell and applications | `core/shell.c`, and the life cycle in `snake.c`, `editor.c`, `browser.c` | active session, view, the owner session of each application, `g_app_heap_mark` | launch, leave, switch session, open views, `shell_timer_tick` | the tick runs in the timer interrupt, between any two steps of a launch or an exit | one application per session; a game and its score belong to one session; an exited application is released |
| kernel heap | `core/memory.c` | `heap_offset` | `kmalloc`, `heap_mark`, `heap_reset` | one mark serves all applications, and files live in the same heap | resetting only frees |
| network | `core/net.c` | `g_dns_done`, `g_dns_result`, `g_tcp`, `g_http_hostname`, `g_async_state`, ARP cache, DHCP lease | `net_poll` and its handlers, the asynchronous fetch, blocking GET and POST | the browser's fetch and curl share one query and one connection; late, lost, repeated and reordered packets; deadlines and retries | the page shown is the page asked for; every call ends |
| network card | `drivers/rtl8139.c` | the receive buffer, `g_rx_offset`, `g_tx_desc`; the card's write pointer and CAPR | `rtl8139_poll_packet`, `rtl8139_send` | card and driver go through one ring, each with a wrap rule of its own; the space of a packet is given back before the packet is used | every packet handed over once, whole, in order, and inside the buffer |
| snake | `core/snake.c` | `g_state`, the snake, the food, directions, speed, score, `g_dirty` | keys and drawing in the main loop, `snake_timer_tick` in the timer interrupt | the tick comes between any two accesses of the main loop: a round half set up, a key tested and not yet stored, a drawing half done | the snake is one piece; what is shown is the game |
| editor | `core/editor.c` | rows of text, cursor, scroll, `g_modified` | keys, load, save | full rows, text left behind the zeros, the cursor behind a zero | no text lost unmarked; cursor in the text and on the screen |
| browser | `core/browser.c` | lines, links, scroll, selected link, `g_fetch_state` | `html_strip`, keys, `browser_tick`, drawing | arbitrary pages against four fixed arrays; pages replaced while scrolled | text and links kept, rows shown exist, colours end |
| ext4 reader | `fs/ext4.c` | none | walks the install media | block arithmetic | see the plan |
| boot, paging, descriptor tables, PS/2, PCI, drawing, strings | | | run once, or without control of their own | | not modelled |

How they interact.  The main loop calls the keyboard ring, the browser's tick and the
shell's redraw in turn and sleeps.  The keyboard interrupt fills the ring, the timer
interrupt calls `shell_timer_tick`, which works on the shell's globals in the middle
of whatever the loop was doing.  Commands of the shell and the editor call flarefs,
which takes heap for the file's text; leaving an application gives heap back.  The
browser's fetch advances only when the loop calls `browser_tick`; curl keeps the loop
until it is done, and both use the same connection.

The hazards this gives, each at its line and with the properties meant for it, are
listed under `hazards` in `PROJECT.json`.

## Modules and how they correspond to the code

Names follow the source.  A module's header says what one step stands for; operators
that end in a bug ("Mutant:" in their comment) are never part of `Next`: they show
that a property notices that bug.

**`FlareFs`** (with `MCFlareFs`, `AtomicStore`, `FlareFsProofs`).  One step is one
sector write, together with the memory updates between it and the next.
`Write`/`Remove`/`Install` are the calls up to their first sector; `WriteDataSector`,
`WriteDirSector`, `WriteSuper` and `ZeroOne` the sector loops, with their failures;
`Finish` the updates of `g_files` at the end; `CopyNext` the loop of `fs_install`;
`BootMounted` and `BootFallback` are `fs_init` after a power cycle.  With `"powerloss"` in `Faults` a
boot may come at any step, with `"io"` each write may fail, before or after its data
reached the disk, because `ata_write_sector` also reports a failed flush.  The disk
region starts at LBA 321, where the boot image also keeps the ext4 install media:
`media` says whether that can still be read.  `stale` is a history variable: a mount
has taken a superblock that lags behind its directory (see below).
`AtomicStore` is what callers may rely on: a call has at most one instant at which all
of it happens, on the disk; 1 is returned only after it, 0 only without it, and a
power loss loses the reply and nothing else.  The refinement mapping reads the files as
the next boot would (`DiskFile`).

**`KeyQueue`** (with `BoundedFifo`).  The ring at the grain of single
loads and stores of the main loop; the handler runs whole, with interrupts off.
`BoundedFifo` is the abstract queue of `QueueSize - 1` keys.

**`Keyboard`**.  The scancode decoder, one early return of
`keyboard_handle_irq` after the other, against the keys a user presses, repeats and
releases in overlapping order.

**`KeyboardDriver`** (with `MCKeyboardDriver`, `KeyboardDriverProofs`) composes the two:
`HandleIrq` is the whole interrupt handler, in which the decoder's step and the ring's are
one, `PollEvent` the main loop, `Typing` the keyboard.  The decoder is an instance
(`Dec`), the ring is extended: a step of the whole is a step of the ring or leaves it
alone, which is the refinement `DriverIsQueue`.

**`KernelLoop`** (with `KernelLoopProofs`).  One step is one call of the loop, or one
stage of a handler (body, EOI, `iretq`).  `Recover` is the whole path of a fault inside
the window: the frame rewritten to `recovery_point` with RFLAGS.IF clear, the flag
dropped, and the EOI that the default case of `interrupt_dispatch` sends on its way out.

**`ShellApps`** (with `ShellAppsProofs`).  A launch is three steps (`Launch`,
`TakeMark`, `Start`), the end of a game four (`FinishGame`, `Consume`, `IndexOwner`,
`PushScore`), and an allocation four: `kmalloc` reads `heap_offset` for its result
(`Allocate`), reads it again to add to it (`AddSize`) and stores the sum (`Grow`), and then the
caller fills the block (`Fill`); an append takes two blocks.  The kernel is built without optimisation, and
`Tick`, the timer interrupt, may come between any two of these steps: a `heap_reset` that
falls between `AddSize` and `Grow` is undone by the store.  The heap is counted in blocks with contents.
`CleanupApps` is `shell_cleanup_apps`, called for a recovered fault at any step: it takes every owner
away and leaves the applications active; the loop then sleeps for ever (`KernelLoop`).
`saved` is a history variable: the text the editor has saved in a file, if nothing else has written it since.

**`Editor`** (with `MCEditor`, `EditorProofs`).  One step is one key, with the scroll and cursor
adjustments at the end of `editor_keyboard_event`.  Rows keep what is left behind their
zeros; `StrCpy`, `Cut` and `Insert` move the characters the loops of the code move, also
when the cursor is behind the zero.  `Open` is `editor_start`, `Save` is Ctrl+S with a
write that succeeds or fails.  `lost` is a history variable: the last load or save did not
take everything, where `UnmodifiedIsSaved` promises nothing.

**`NetFetch`** (with `MCNetFetch`, `NetworkProofs`).  `Handle` is one packet taken by
`net_poll`; `AsyncSwitch` is the switch of `net_async_http_poll` with what
`browser_tick` makes of its answer; `Curl` and `CurlTest` are `net_http_get` and
`net_http_post`, which differ only in the request (`net_http_post` cuts off the end of
its header, so that the server goes on waiting).  Deadlines pass whenever no answer has
come.  Servers are told apart, their answers are sequences of segments, and the padding
of short frames counts as data, as in `tcp_handle`.  A wrong name, a reset and a reply
whose FIN comes with its last segment are all answers a server may give.

**`Snake`** (with `SnakeProofs`).  `pc` is the place of the main loop: between the two stores of
`snake_start`, in `reset_round`, between the test of a key and its store, in
`render_full`.  `Tick` is `snake_timer_tick` with the drawing it asks for, at any of these
places; `Glide`, `Eat` and `Crash` are its outcomes.  A drawing reads the state in pieces: `Draw`
up to the box of a lost game, `DrawOver` the box, `DrawClears` the flags.  Three history
variables: `shown`, the last drawing, when done, shows the state and the score there are; `missed`, it
does not, because a tick changed them while it went on, after it had drawn them; and
`raced`, a tick came between the reversal test and its store.

**`Browser`** (with `BrowserProofs`).  `html_strip` one tag or character a step, the page being anything:
at each step any tag or character may come, or the end.  A line is its length, a link the
line it is marked on and the one its first character is on (`on`, a history variable), colours are
those of plain text or others.  History variables keep for every open block the colours around it (`around`),
whether more blocks were open than the stack remembers (`over`), the characters taken from the
page (`taken`), and whether a title has cost one (`skipped`).  `CloseBlock` takes the last colours
remembered, its own or not, as the code does, and `CloseForgotten` is a block that closes when none are.  Around it the view: pages begun, arrived, empty or failed
(`browser_start`, `browser_tick`), and every key.

**`RxRing`** (with `NetworkProofs`).  The card writes whole packets, a packet that does not fit before the
end of its 8192 bytes into the slack behind them, and goes on at the start of the ring.
`PollTakes`, `PollSkips` and `PollCorrupt` are the ways through `rtl8139_poll_packet`; what the
driver finds where it looks for a header may be a packet, nothing, or the middle of an
old packet, which reads as any header (`Header`).  `using` is the stack of packets in use: a
handler that waits for an answer polls again.

How the modules compose.  `KeyboardDriver` composes two components that share an interrupt handler.  The
others meet in a few variables only, and each module states what it takes
from its neighbour: the root files and blocks in `ShellApps`, keys that panic or halt in
`KernelLoop`, the browser's state in `NetFetch`, which session is looked at in `Snake`,
when pages arrive in `Browser`, who polls in `RxRing`.

## Runs

| Run | Question | Bounds |
|---|---|---|
| `FlareFs_power` | With a power loss at any step, is memory the disk (`CacheCoherent`) and each call atomic (`ImplementsAtomicStore`)? | two names and a refused one, texts of one sector and of two with padding, two directory sectors, three data sectors |
| `FlareFs_io` | With any write failing, and power losses, do files stay apart (`ExtentsDisjoint`) and unharmed (`NoClobber`)? | two names (symmetric), texts of one and two sectors; states after a stale mount are cut off |
| `FlareFs_retry` | violation: is a write reported as done found by the next boot? | as `_power`, with failing writes |
| `KeyboardDriver` | Is what is typed what the shell handles, whenever interrupts come; is the ring a FIFO, does it drain, do modifiers not stick? | six keys, three presses or repeats, three slots: full, empty and wrapped all occur |
| `KernelLoop` | With faults, panic and halt: window, in-service bits, progress, input | three keys typed, room for two |
| `ShellApps` | One application per session, the game with its session, the score home, the release of what has exited, with ticks inside launches and allocations and a fault anywhere | two sessions, three applications, one file, two heap blocks |
| `ShellApps_heap` | violation: does a text saved in the editor stay in its file when the editor is left? | two files, two texts, three blocks |
| `Editor` | Do rows keep their zeros, is the cursor in the text and on the screen, is an unmodified text the file? | three rows of five cells, one character, a screen of two rows and four columns; five characters in the rows, one in a saved file with which the editor goes on |
| `Snake` | Is the snake whole and the food free wherever the ticks come; is the screen current but for what a tick changes during a drawing; does no sequence of keys turn the snake back? | a grid of six by two cells, two speeds, two points a speed; no bound on rounds, keys or ticks |
| `Browser` | Are links, the text that fits the screen and the colours of remembered blocks kept, whatever the page; is what is shown on the page? | four lines of three characters, two links, two remembered blocks of three, a screen of three rows and two columns; pages without end |
| `RxRing` | Is what is handed out always inside the buffer; until the card wraps, is every packet handed over, once and in order? | a ring of eight units, three of slack, packets of two and three units, six packets, two in use |
| `NetFetch` | Do browser and `net.c` agree on what loads; is the page right; do both calls end? | two servers, two events |

Why the bounds are enough.  `FlareFs` needs two files for anything to overlap, a file of
two sectors for a partial write, and two directory sectors for a torn directory; six
sectors make "no space left" happen.
`KeyboardDriver` needs two modifiers, a prefixed key and a plain one, pressed while
another is down, and a ring that two keys fill.  `KernelLoop` needs one key more than there is room for.  In `ShellApps` two sessions are
enough to steal from one another, and a heap of two blocks to go over the mark; the heap run needs a third, for
the file that overwrites the saved one.
In `Editor` a row of five cells is the least in which Tab fits behind an empty text; a
line of five characters needs two rows, a file of four lines does not fit; three rows are
split, joined and pushed; the bounds on characters still let a row fill up and old text
stay behind the zeros.
In `Snake` four of twelve cells are the snake at the start: it can grow until none is free, hit
the walls and itself, and follow its tail; all 6.2 million states are visited.
In `Browser` a line fills with three characters and the lines with four, one more block is open than is
remembered, and the page is longer and shorter than the screen.
In `RxRing` three packets come to the end of the ring, one of them may lie across it, and the
others find the driver behind it.
In `NetFetch` the events are the pages, the curl commands and the packets lost, repeated
or reordered, two in all: two pages after or across each other, a page and a curl command, or one of
them with a faulty packet.  One server's answer does not fit the buffer, and its
last, smaller segment does; two attempts instead of three make both the retry and the
giving up happen.  A run of three such events without packet faults is some 29 million
states; it is not part of the project.

What the properties leave out, because the code does not keep it there: `CacheCoherent`,
`ExtentsDisjoint` and `NoClobber` say nothing once a stale superblock was mounted.
`PageIsRight` and `CurlIsRight` speak of a call that started with nothing on its way and
was not joined by the other, since packets are matched by port alone; and of order and
gaps only when no packet was lost, repeated or reordered, since sequence numbers are not
looked at.  `DecodesWhatIsTyped` and `HandlesWhatIsTyped` speak of a keyboard without right Ctrl.
`OnlyFaultsStopIt` counts the sleep after a recovered fault as one of the ends a fault may have, and
`WindowIsArmed` says where the window is, not that it should be there.  `ScoreGoesHome` leaves out the owner
`-1`, and `SnakeIsNotStolen` speaks of a game that has an owner, until a fault is recovered.
`ScreenIsCurrent` leaves out what a tick changes in a drawing after that part was drawn (`missed`),
`NeverTurnsBack` the store that a tick came before (`raced`), `FoodIsFree` the corner.
`ViewIsInPage` allows -1 on a page without lines, and the links of an older page on one without links;
`TextIsKept` allows a character lost to a title that fills its line, and what the end of `html_strip` cuts off
lines that are wider than the screen; `ColoursEnd` asks a closing block for the colours around it only
while no more blocks are open than are remembered.  `UnmodifiedIsSaved` says nothing after a save that failed or
did not take everything (`lost`).  `InOrderUntilWrap` and `PacketIsTaken` speak of the time until
the card goes on at the start of its ring.  What happens there is under
[What the code does not keep](#what-the-code-does-not-keep).  In `PROJECT.json` the hazards that
these exceptions are about have no property, and a note that says so.

`CHECK_DEADLOCK FALSE` stands in the runs of `KeyboardDriver` (all presses made), `KernelLoop`
(the processor is halted), `ShellApps` and `ShellApps_heap` (the loop sleeps for ever after a recovered fault),
`NetFetch` (all events used) and `RxRing` (all packets received), which may really stop.

## Fairness

- `KeyboardDriver`: weak fairness of the poll; the loop calls it on every turn.  Nothing is
  assumed of the keyboard or its interrupt.
- `RxRing`: an operation of the network polls until it ends, and a handler returns (weak).
  Nothing is assumed of the card, nor that an operation is ever under way.
- `KernelLoop`: the PIT ticks for ever and a handler is run to its end (weak).  The loop's
  steps need strong fairness, because every interrupt disables them for the time of its
  handler; so does taking a key, because a pending timer interrupt has priority.  Both are justified by
  `TimerIsSlow`: the handler of a tick is over before the next tick is due, 16 ms later,
  so there is always a moment at which neither a handler runs nor a tick waits.
  Without it the loop could be starved by interrupts for ever.
- `ShellApps`: the timer ticks, and a key being handled is handled to its end.
- `NetFetch`: the loop calls `browser_tick`, curl's loops turn, and ticks go by until a
  deadline has passed.  No packet need ever come: `FetchEnds` and `CurlReturns` rest on
  deadlines and counted retries.  A deadline that has not passed is `NothingYet`, which
  needs a packet to have been taken in the same call: a `browser_tick` that sees nothing
  new and changes nothing is not a step.

## Proofs

TLAPS checks these for every value of the constants the assumptions allow; the
assumptions are named in the modules and evaluated by TLC in the runs.

| Theorem | Module | Argument |
|---|---|---|
| `TypeCorrect`, `ExtentsStayDisjoint`, `NothingClobbered` | `FlareFsProofs` | the inductive invariant `IInv == TypeOK /\ Geometry /\ CallOK /\ Separation` |
| `CacheStaysCoherent`, `Atomicity`, `WrittenStays` | `FlareFsProofs` | `IInv` with `Coherent`: what each place of a call knows of how memory mirrors the disk; every step maps to a step of `AtomicStore` or a stutter |
| `SlotsStayStable`, `RingIsFifo` | `KeyboardDriverProofs` | `SlotIsStable` with `TypeOK` is inductive; a step of the ring maps to one of `BoundedFifo` or a stutter |
| `DriverIsQueue`, `DriverKeepsKeys` | `KeyboardDriverProofs` | a step of the driver is a step of the ring or leaves it alone; handled keys, the one in hand and those waiting are the keys decoded, in order, until the ring has been full |
| `ModifiersComeUp`, `KeysAreDecoded`, `ShellGetsWhatIsTyped` | `KeyboardDriverProofs` | the bytes on the wire lead the decoder from where it is to where the keys held say it must be |
| `SnakeKeepsTypes`, `SnakeStaysWhole`, `FoodStaysFree`, `ScreenStaysCurrent`, `SnakeDoesNotTurnBack` | `SnakeProofs` | `IInv == Typed /\ Steps /\ Rounds /\ Screen`, see below |
| `BrowserKeepsTypes`, `ViewStaysInPage`, `LinksStayOnTheirText`, `ViewStaysCurrent` | `BrowserProofs` | one inductive invariant: there is room for the next character between two steps, a link without its character was begun on the current line, a page that is loading is at its top |
| `ColoursDoEnd` | `BrowserProofs` | `Nested`: the stack is the part of `around` that is remembered, all of it until more were open; the outermost block was opened in plain text |
| `TextStaysKept` | `BrowserProofs` | the text in the lines and in hand is as long as what has been taken of the page, see below |
| `LoopKeepsTypes`, `WindowStaysArmed`, `EveryInterruptIsEnded` | `KernelLoopProofs` | where the loop is, which handler runs and how far it is determine the recovery flag and the in-service bits |
| `ShellKeepsTypes`, `SessionsStaySingle`, `ResetNeverGrows`, `SnakeKeepsItsSession` | `ShellAppsProofs` | owners are set only by a launch, which looks at all three; ticks and the recovery only clear them; the mark is not above the heap's top, nor above the sum that `kmalloc` is about to store (`HasRoom`: and what an allocation in progress will take is within the heap) |
| `ScoresGoHome` | `ShellAppsProofs` | a score in hand has an owner that is the session of its game, or -1 |
| `TypeCorrect`, `RowsEnd`, `CursorStaysShown`, `StarTells` | `EditorProofs` | `RowsAreTerminated` with `Near`: the cursor is at most two columns into a line's end |
| `RingKeepsTypes`, `PacketStaysInBuffer`, `PacketsComeInOrder` | `NetworkProofs` | `RingInv == RingTypeOK /\ Known /\ PacketIsInBuffer /\ InPlace` |
| `FetchIsFollowed` | `NetworkProofs` | browser and `net.c` change their states in the same step; inductive as it stands |
| `FetchKeepsTypes`, `PageStaysRight`, `CurlStaysRight` | `NetworkProofs` | `NetInv == NetTypeOK /\ LoadingIsActive /\ Turns /\ Owned /\ PageIsRight /\ CurlIsRight` |

Some of these are proved and no longer run, since the proof says more than a small instance: the types of
`FlareFs`, `KernelLoop` and `ShellApps`, `SlotIsStable`, `ResetOnlyFrees` and `ViewIsCurrent`.

`ExtentsDisjoint` is not inductive by itself.  A directory in memory with disjoint
extents says nothing of the next boot, which reads the one on the disk; a write in
progress owns sectors no entry names yet; and a failed directory write leaves sectors
of the old directory on the disk.  `Geometry` says that the extents lie in the data
area, below the `next_free_sector` of memory and, if that is not stale, of the superblock
that covers them; `CallOK` relates a call's locals to the entry and the free sectors it was
given; `Separation` says that entries on the disk and in memory are apart or equal.
Each action has a lemma of its own that preserves `IInv`, and `NextIInv` combines them.
`NoClobber` follows from `IInv` alone: data sectors are written only above every extent
on the disk, and zeroed only after the superblock is gone.

`CacheCoherent` looks at memory between two calls, so its invariant `Coherent` has to say in
the middle of a call how the two sides differ: each file in memory mirrors one entry in use and
each entry one file, but for the entry that waits to be written (`Awaited`), which is on the disk still as it
was before the call or already as it will be; the data sectors below `cur` hold the call's text.
A mount is shown to build such a mirror by packing the entries in use to the front.
With that, `Atomicity` takes the step that writes the directory sector of the call's entry
for the one instant of `AtomicStore` at which the call happens (for a format the first zeroed sector), and
every other step for a stutter.  Both `Atomicity` and `WrittenStays` assume `~Io`, that no write
fails.  That is not a convenience: with failing writes both are false, which `FlareFs_retry` shows.

`KeysAreDecoded` would seem to need induction over the bytes on the wire.  `Lands(d, w, e)` says
instead that there is a sequence of decoder states from `d` to `e` along the bytes `w`; a byte put on the
wire makes that path longer at one end and a byte handled makes it shorter at the other, so only
single steps are ever looked at.  The invariant says that the path leads to the state `Promised` by
the keys held.  The hypothesis `OneOfEach` names the keyboards on which the decoder
can do that: one key of each modifier and none of these with a prefix (see
[below](#what-the-code-does-not-keep)), every other key in the map it is looked up in, and no release that reads
as a prefix.  `ModifiersComeUp` needs no hypothesis.

In `Editor` the zero at the end of a row cannot be kept without the cursor: a character goes
into the cell under it, whatever is in front.  `Near` says that the cursor is on the text, at its end,
or at most in the third column, where the clamp of `editor.c:178` may leave it on a shorter
line; with it and "the last cell is zero" every key, also Tab, which inserts twice before
anything is clamped, takes a sound editor to a sound one.  The module's assumption names key codes and characters as
disjoint, which the `switch` of `editor_keyboard_event` relies on.  `StarTells` compares text with what a load
of the file would show, so it needs that a text which was saved in whole comes back the same; text and file are
built by recursive functions.  The lemma `Induction` makes these tractable: it is
induction up to a bound for a set in place of a predicate, and follows from the less-than relation on the
naturals being well-founded.

In `RxRing` the types alone do not keep a packet inside the buffer; the test of the header does,
and `Known` says that only received packets are found in memory, so that a header has a size.
`InPlace` says that there is a sequence of places at which the packets lie one behind the other, that the
driver's offset is the place of the packet after those handed over, and that packets in use are packets of that
sequence.  The card writes behind the last place only, which is why space that was given back too
early does no harm until the card goes on at the start.

`PageIsRight` and `CurlIsRight` look at the moment an answer is shown, long after it was asked for.
`Ours(h, at)` says for each state of a fetch from `h` what the network may hold: while it asks for
the address, DNS answers for `h` and nothing else; from the connection on, packets from `h` alone, and in
the buffer segments of its page alone.  Until the first fault `InStream` says more: the packets in the
card are the rest of the answer from some packet on, the buffer holds segments of those before it in
order, and if the answer fits, all of them, so that the number of bytes received is the running
total of the segment sizes.  A fault leaves only the first half.  `Turns` says that browser and curl
are never both owed a network of their own, and that curl has closed its connection before
it shows anything.  The assumption that no host is named "dns" only keeps the two kinds of sender apart.

`TextIsKept` counts characters over all lines of a page.  `Characters` is a sum by a recursive
function; the proof needs of it only that a line that is appended adds its length, which holds for
every sum of this shape (`CharactersOfAppend`).  Then each step of `html_strip` takes as many characters from the
page as it adds to the current line or to those that are finished (`TextStep`).  At the end the lines are cut at the
width of the screen; where no line of the page is that wide the cut changes nothing, so the
sum is what it was (`TextAtEnd`), and until the next page begins nothing changes it (`TextInView`).  `Awaited` says that of a page that
has not come yet nothing was taken.  `ColoursDoEnd` needs `Nested`, which
compares the stack with the history `around`: equal until more blocks are open than the stack remembers, and
never longer.

In `Snake` the properties speak of rounds that go on, and the invariant has to carry them
over the steps of the main loop: `Steps` says what a key has found out and a tick cannot undo
but by the end of the game, `Rounds` that a round set up is whole from its first step on,
`Screen` what each place of a drawing knows (it shows the game, or a tick has come since it did, or the box of a lost game is still to be drawn).  That the score stays within the grid follows from
the snake being one piece: its cells are a one-to-one image of its length in the grid (`Fits`).

What stays with TLC: all liveness properties (TLAPS does no reasoning about `ENABLED`
or fairness here), so `KeysGetHandled`, `OnlyFaultsStopIt`, `InputIsHandled`, `ExitedAppIsReleased`,
`PacketIsTaken`, `FetchEnds` and `CurlReturns`.  Every invariant, step property and refinement of a passing
run is proved.

## What the code does not keep

The runs that expect a violation show disagreements between the code and what it says:

1. `FlareFs_retry`: after a write whose directory or superblock write failed, the retry
   takes a second entry of the same name, reports "file written", and the next boot
   shows the text of the first.
2. `ShellApps_heap`: leaving the editor frees the text that was saved in it.  In the trace the editor is
   launched, which takes the mark (`shell.c:1134`), Ctrl+S stores a file, the editor is left, the next tick
   takes the heap back to the mark (1274), and a write of another file gets the block of the saved one.

Found while modelling, and excluded by a condition of the properties or by the instance:

- a recovered fault returns to the loop with interrupts off (`kernel.c:106`), and the next
  `hlt` (`kernel.c:260`) is the last: `OnlyFaultsStopIt` names that state as one of the ways
  the loop ends;
- a tick between setting the owner of a game and starting it clears the owner again
  (`shell.c:721`): the game runs and belongs to no session.  The same tick calls `heap_reset` with the mark of an
  earlier launch, or with 0 when there was none (`shell.c:1270`, 725), and everything
  in the heap above it is free;
- `shell_cleanup_apps`, on a recovered fault, takes the owners away and leaves the applications active
  (`shell.c:1261`), and resets no heap;
- two keys of one modifier share one flag, which goes off when the first of them is released
  (`keyboard.c:83`); the keyboard of the run has one key of each;
- the recovery restores `rip` and `rsp` but not `rbp` (`kernel.c:103`), which is below the
  model;
- the Ctrl test returns before the prefix flag is cleared, so after right Ctrl the next key
  is looked up in the wrong table: the keyboard of the run has no right Ctrl key;
- the editor puts the cursor to the third column of a shorter line; what is typed there
  lands behind the zero and is not part of the text (of a word typed on an empty line the
  first character stays), and for the same reason a backspace joins lines only as the
  first key;
- `editor_save` takes the text for saved when the write failed or the text was cut at 16384
  bytes;
- a power loss between the directory and the superblock of a write leaves a superblock that lags
  behind; after the next mount, a write goes over the sectors of the file;
- a format cut short has zeroed the install media it would fall back on, since both are at
  LBA 321;
- `shell_consume_snake_result` reads the owner again for its index after a tick may have
  set it to -1;
- a DNS answer to an earlier query, still in the card when a page is asked for, names the
  server of the new page: all queries have the same id;
- a page that does not fit the receive buffer loses a segment in the middle when a
  later one is small enough;
- snake: `p` stores the state it has computed from the one before a tick, so that a GAME OVER in between is
  undone (`snake.c:268`); a tick between the reversal test of a key and its store turns the snake into its
  neck (271); a drawing clears the request of a tick that came during it (238), so that GAME
  OVER may stay unseen until the next key; a tick that moves the snake while the body is being
  drawn leaves its old tail on the screen (206); the high score is taken only when the box of a lost game is drawn
  (219); `snake_start` sets `g_active` before `g_state`, so that the last game may move once more;
  `place_food` gives up after 4096 draws and takes the corner, be it free or not;
- browser: Page Down on a page without lines sets `g_scroll` to -1 (`browser.c:492`), and the
  drawing, which is not modelled, reads `g_lines[-1]`; with more than 64 blocks open the closing tag of one that was not
  remembered takes the colours from one that was and is still open (276); the end of every line wider
  than the screen is cut off (390); links of the page before stay selectable after an error or an empty page; a
  closing `li` starts another bullet; the loop steps over the `<` at which a title ended,
  so that the name of that tag is shown as text; a title that fills a line loses the next character;
  `parse_style_attr` gets the tag only up to its first space; a link is marked on the line before its text
  when a tag between the two ends the line (354); only one link of a line is shown as selected;
- RTL8139: the card goes on at the start of its ring after 8192 bytes, the driver only at the end of
  its own buffer, 1536 bytes later (`rtl8139.c:227`).  In between it reads what nothing has
  written, or old packets: a header that is not one sends it back to the start, where the card already
  is further on, and a packet may be handed over twice or never.  What it hands out stays
  inside the buffer (`PacketIsInBuffer`);
- the ARP cache has eight entries and none is ever replaced: a ninth address is never resolved
  (`net.c:122`); `arp_resolve` polls the network inside a send, so that a handler runs inside
  another one (`net.c:149`);
- each packet sent takes a block of the heap that nothing gives back but the end of an application
  (`rtl8139.c:162`), which `ShellApps` models (`SendPacket`);
- `fs_install` formats before it copies (`ext4.c:694`): the files behind one that fails are lost;
- `edit` in another session starts the one editor anew and drops its text (`shell.c:1134`).

## Not modelled, and the plan

Not modelled: boot loader, page tables, descriptor tables, PS/2 and PCI set-up (they run once
and in sequence), drawing and text output, host tools.  The port protocol of the disk
is below `FlareFs`.  `keyboard_set_layout` only swaps the key map.  In `NetFetch` the
address resolution, IP and DHCP appear only as packets that never come and a network that
is ready or not.  Left out is `net_poll` run again inside a handler: `tcp_handle` sends its ACKs
(`net.c:407`, 419, 423), and `arp_resolve` polls (149) when it does not find the address.  The ACK goes
to the same next hop as the SYN before it, and the cache never drops an entry, so for an answer to a SYN that was
sent the address is found at once; it is not found only when a packet of an older connection, which had
the same port, is handled before the first SYN to that hop could leave.  The polls inside the sends
of a query or a SYN come after `g_dns_done` or `g_tcp` was set for it (`net.c:273`, 663, 455, 735) and before the caller looks at
them again, so that they are the steps `Handle` which the model takes after that send.  The walk of the ext4 install media reads blocks whose numbers come from the
image; `FlareFs` takes its result.

In order, the next steps:

1. `Arp`: the cache with its limit and its nested polling, and the lease of DHCP.
2. `Ext4Media`: the extent and block walk as functions against a reference definition over
   bounded inputs.
