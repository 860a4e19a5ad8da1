# rtlab: a TLA+ model, its checks and its proofs

rtlab is a chain of four programs that pass numbered blocks of audio over TCP:

    source --> split --left/right--> fft (one per channel) --> display
                     \----------------------------------------^

`source` records and serves interleaved samples, `split` serves each channel on
a port of its own, `fft` serves spectra, and `display` collects two channels and
two spectra, puts equal numbers together and draws them. Every program is an
event loop over one library, the *pin list* of `shared/pin.c`. There are no
tests in the repository; the comments of the headers are its documentation.

## Inventory

| Component | State | Operations | What makes it correct |
|---|---|---|---|
| pin list (`shared/pin.c`) | the pins, their epoll interest, the two event lists, a queue of reference-counted buffers for each client | listen, connect, wait (and accept), next event, write a sample, deliver, disconnect, destroy | a client gets its whole stream; buffers are freed exactly once; no wake-up is lost; the event lists name live pins and fit |
| split, fft (`split/split.c`, `fft/fft.c`) | the partial input sample, `active` | the loop wait, read, deliver | the loop ends with its input; a client's trouble stays its own |
| source (`source/source.c`) | a capture thread, a non-blocking pipe of pointers, the loop wait, *deliver, read* | capture, hand over, fan out | every captured buffer is sent and freed once |
| sample framing (`pin_read_sample`, `buffer.c`, `audio_sample.c`) | size, full_size, flags of a buffer | read a header, resize, read the rest | boundaries are where the sender put them |
| reordering buffer (`display/metabuf.c`) | four arrays with counts | push, look for a number, shift | sets are aligned, ordered, complete |
| display threads (`display.c`, `reorderer.c`, `ui_spawn.c`) | two pipes of pointers, four threads | receive, reorder, update, end | each buffer has one owner; the end is reached |
| graph queues, window (`glwin/`) | three linked lists, `draw_mutex` used as a wake-up | append, render, X events | appending and freeing do not collide; events are handled |
| signal processing (`*/process_data.c`) | output buffers | de-interleave, transform | arithmetic on floats |
| timing, macros | none | logging, exit | none |

Interactions: the programs meet only on TCP connections (a sender, and clients
that connect, read slowly and leave at any time); inside `source` and `display`
threads pass pointers through pipes; inside the pin list one payload is shared
by all clients of a sample and counted in its first byte, and `accept` calls
back into `split` to hand the listener's flags to the new pin.

The hard behaviours are: edge-triggered notification against partial sends;
disconnecting in the middle of a pass over an event list; shared buffers
released on three different paths; lists and counters at their limits;
streams at different paces meeting in one buffer; ownership across threads and
the end of the threads. `PROJECT.json` lists them at their lines.

## Modules

| Module | Stands for |
|---|---|
| `PinList` | state of the pin list and one operator for each of its operations; the kernel's sockets and epoll, and the clients, as `pin.c` meets them |
| `Stage` | the main loop of split (`Ports = {1, 2}`) and fft (`Ports = {0}`) over `PinList`; the properties |
| `MCStage` | instances of `Stage` for TLC |
| `PinList_proofs` | lemmas about the operators of the pin list, and what every step of a loop over it keeps |
| `Stage_proofs`, `Source_proofs` | the theorems about split and fft, and about source |
| `SampleRead_proofs`, `Window_proofs`, `Metabuf_proofs`, `Display_proofs` | the theorems about the framing of samples, the graph queues and `render_line`, the reordering buffer, and display's threads |
| `Least` | a nonempty set of natural numbers has a least member, for the last two and the columns of a line |
| `Source` | the capture thread and the main loop of source, over `PinList` |
| `Headers` | the sample header, and the sizes source, split and fft give what they send |
| `SampleRead` | `pin_read_sample` over a buffer of `buffer.c`, one `recv()` a step |
| `Framing` | what reading samples promises: whole samples out of runs of bytes; `SampleRead` implements it |
| `Display` | receiver, reorderer and updater of display, their pipes and their end; buffering is that of `Assembler` |
| `RenderLine` | which samples `render_line` draws, column by column |
| `Window` | the graph queues shared by updater and window thread, `draw_mutex`, X events; extends `RenderLine` |
| `MCSource`, `MCSampleRead`, `MCDisplay`, `MCWindow` | instances for TLC |
| `Metabuf` | `buferize_sample` with its arrays, counts and indices; the properties |
| `Assembler` | what the reordering buffer promises, with sets of numbers and no arrays |
| `MCMetabuf` | instance of `Metabuf` for TLC |

### PinList and Stage against the code

A connection `c` is one TCP connection of one client and, once accepted, its
pin. `pins` is the linked list, `queue[c]` the entries from `buf_list_head` on,
`refs` and `live` the count in front of each payload and whether it is
allocated, `mode[c]` what epoll was last asked for, `readList` and `writeList`
the event arrays, and `cur` the pin inside `pin_list_deliver`. The arrays hold
no duplicates (`pin_list_attach_event`), and are modelled as sets. The code
serves them from the end; a set leaves the order open, which includes it.

A pass of the loop is `Wait` (`pin_list_wait`: what epoll reported, accepts,
callback, attach), `ReadInput` and `ReadClient` until the read list is empty, and
`Serve` until the write list is. `Serve` takes one `send()` a step, so that a
client can drain or close between two of them. Processing and queueing a sample
is one step: between its system calls nothing outside can see or disturb it.
A sample has `SampleUnits` units and a socket holds `SockCap`, so a send may take
all, part or nothing of an entry. `wire[c]` records what `send()` accepted;
`first[c]` the number of the first sample after the accept.

epoll is modelled by the rule that matters: as accepted, a pin is level-
triggered for input; after its first sample it is edge-triggered; an event is
queued when the client makes one or when `EPOLL_CTL_MOD` finds the condition
true, and reporting it consumes it. `epoll_wait` returns as many events as are
ready and fit.

What C leaves undefined ends a behaviour in `"undefined"`: taking a freed pin
from a list (`UseFreedPin`) or writing past a list (`ListsFit` false in `Wait`).
A failed `send` is either an error return (`ServeFails`) or SIGPIPE (`Killed`).

### Metabuf against the code

A sample is its stream and its number. `sampleBuf[c]` is `ptr` and `count` of a
channel; `MetaChannel`, `HaveSample`, `PushBuffered` and `Shift` are the C functions
with their index arithmetic, and `BuferizeSample(h)` the whole of
`buferize_sample` for the next sample of stream `h`. Entries above `count` keep
what the loops leave there; what lies behind an array is `NoSample`. The step in
which `shift` would write behind the array sets `corrupt`, and nothing is said of
the program after it. `OverrunsAtOldest` says, in the words of `Assembler`, which step
that is; `Display`, which has no arrays, ends a behaviour at the same one (`Overruns`).
Histories record the sets, what was freed and what a full
channel forgot.

### Source against the code

`pinVars` are those of `PinList`, with the read end of the pipe as `Input`. The
capture thread is `Record` (allocate, read, number) and `HandOver` (the `write` of
the pointer); `RecordFails` is `pa_simple_read` returning an error, after which
the thread is gone and the loop goes on. A full pipe is `Overrun`: `write` returns
-1 and `handle_error` ends the process, so the branch after it, which frees the
sample and prints "uverrun. free buffer" (`source.c:100`), is unreachable for a
pointer-sized write. The main loop is `Wait`, `Serve` until the write list is
empty, and only then the read list: `ReadPipe` followed by one `FanOut` for each
pointer, or `ReadClient`. `heap` is the set of samples allocated. Clients send
nothing: what `dummy_sample` would make of their data is outside the model.

### SampleRead and Headers against the code

`data`, `size`, `fullSize`, `alloced`, `headerRead` are the fields of `SBUF`, `readLen`
the local of `pin_read_sample`. A byte is its position in the stream, which is
enough to tell a header from data and one sample from the next. `Recv` takes what
has arrived, up to `readLen`, and does what the code does with it: `HeaderComplete`
asks the callback and resizes, `SampleComplete` leaves the loop, `Incomplete` asks
again. `HeaderInBuffer` decides what the callback finds; were it called over
anything but a header it would return another size, which `Framed` would show.
The `hop` says whose stream is read and what the reader does with a complete
buffer: split and fft reset `size` (`split.c:105`), display takes a new buffer
(`display.c:153`). `Headers` repeats each program's own size arithmetic next to the
header it sends, and `HeaderTellsSize` compares the two. It also states the
condition under which split's copy stays inside its output: for an input that is
already sequential it would not (`split/process_data.c:67`), and no stream of the
chain is.

### Display against the code

`reordPipe` and `uiPipe` are the two pipes; `Receive` is a complete sample in main's
loop and the `write` of its pointer, `Reorder` one pass of the reorderer with the
whole of `buferize_sample`, here by its specification `Assembler` (which `Metabuf`
implements, see the run `metabuf`), and `Update` one pass of the updater with
`metabuf_free`. A full pipe ends the process in both writers. The step in which
`shift` overruns its array (`Overruns`) ends a behaviour in `"undefined"`.
`InputClosed` is the end of main's loop; `WriteToReadEnd` is the pipe after writing
MESSAGE_END to its read end: unchanged. The branch of `Reorder` that takes
MESSAGE_END is there, and never reached.

### Window and RenderLine against the code

Each list is kept by its pointers: `nxt[g][0]` is `stqh_first`, `nxt[g][f]` the
`stqe_next` of the f-th buffer, `tail[g]` what `stqh_last` points into. The tail
insertion that ends both `glwin_draw_data` and `glwin_draw_data_c` is two steps,
`Link` (the store through `stqh_last`) and `Advance` (`stqh_last` itself), so that
`render_buffer` can run between them; `Drop` is one turn of its loop. `draw_mutex`
is a binary semaphore: the updater unlocks what it never locked, which POSIX leaves
undefined and glibc's default mutex allows. Pointer stores are taken in program
order. `HandleEvent` is one event, `Rendered` the return from `render_graph`. A window
whose width is exactly twice the padding divides by zero in `render_line`
(`DivideByZero`, terminal); the comment at `gl_window.c:50` guards against a height
of zero only.

## Runs

| Run | Question and bounds |
|---|---|
| `stage` | Two clients, two ports in every combination, room for both everywhere (`EventsCount = 5`, as in the code), samples of two units, two units of send buffer: a send can take all, part or nothing of an entry. Two samples: a client can be accepted before, between and after them. The count has two values, so a buffer held by both clients has count 0 from the start. Type, stream, queue, reference and wake-up invariants. |
| `stage_live` | The same on one port, with a send buffer of one unit: each sample needs several edges. Shutdown, removal of closed clients, and delivery. |
| `stage_crowd` | Four clients, lists of two, a one-unit sample. A list left over from a failed deliver overflows, and only then. Clients are symmetric here: no constant or property singles one out. |
| `stage_stale` | Violated: a freed pin on `write_list` (`pin.h:63`). |
| `stage_stranded` | Violated: `pin_list_deliver` leaves buffers unwritten (`pin.h:120`). |
| `metabuf` | Four streams that start at 0 or 1 and run to 4, arrays of three: full channels, forgotten samples, sets found at every index. Alignment, completeness, ownership, the refinement of `Assembler`, and when `shift` leaves its array. |
| `metabuf_overrun` | Violated: a set that takes the oldest entry of a full channel makes `shift` overwrite the count (`metabuf.c:201`). |
| `source` | Two clients on one port, a pipe of two pointers, three samples: the pipe fills up while the loop is busy. One-unit samples and send buffers, lists of five as in the code. Types, ownership, lists, streams, and delivery; what a loop over the pin list keeps whatever its order (counts, queues, ends of file) is checked in `stage` and proved for source. |
| `framing` | Headers of three bytes, floats of one, one to three samples a message (odd counts included), three messages, on each of the four kinds of stream: a read can end inside a header, between header and data, inside the data, or reach the end exactly. |
| `display` | Three streams that start at 0 or 1 and run to 3, pipes of two, arrays of two: full pipes, full arrays, forgotten samples, an input closing at any moment. What is in the pipes, what is drawn, and that it is drawn. |
| `display_end` | Violated: the end of the program after an input closes (`display.c:159`). Two streams suffice: none has to bring anything. |
| `window` | Two graphs with buffers longer and shorter than the window, three sets, two events, widths below, at and above twice the padding. The code has three graphs, which differ from one another in nothing the lists see. |

Deadlock is not checked: a stage stops when it has exited, and may wait for ever
when no one sends; the streams into the reordering buffer are bounded; source, display and the
window wait for ever when nothing comes, and stop when the process has ended.

### What the violations mean

*Stale write list.* A client that closes with data queued is reported readable
and writable in one pass. The read loop disconnects it, `pin_disconnect` frees it,
and `pin_list_deliver` takes it from the write list. The invariant that does hold
is `ServedPinsLive`: in the order read, deliver only the write list goes stale.

*Stranded client.* Two clients are on the write list; the first one's send
fails and `pin_list_deliver` returns. The second has lost its edge, its socket
has room, no event will come, and it stays on the list while the loop blocks
until the next sample. `DeliversIfAllStay` is what remains true: if no client
closes, everything queued is sent. The leftover pin is also the only way
the event lists overflow (`OverflowsOnlyAfterFailure`).

*Overrun.* The loop of `shift` ends at `count - shift` inclusive.

*No end.* One closed input takes display's main loop to its end, where it tells
the reorderer to stop through the wrong end of the pipe. The write fails, the
reorderer waits on an empty pipe, `pthread_join` waits for the reorderer. Fairness
of all three threads does not help. `CompleteIsDrawn` is what remains: what had been
received is still drawn.

### What the new safety properties rest on

In source the order deliver, read makes the lists better than in split and fft:
`ListsLiveUntilFailure` says that no freed pin is on a list, and no list overflows,
as long as no `send` has failed. `PendingDataWakes` is not stated there:
a client that closes while it waits on the read list has its data queued by the
same pass and has no use for a wake-up. `OneOwner` is the argument that a sample is
neither leaked nor freed twice; the one buffer it excepts is that of a failed
recording, which nobody frees.

`ListWhole` is why the missing lock around the graph lists does no harm: the
window thread removes a buffer only if it has a successor, and a buffer with a
successor is no longer the one `stqh_last` points into, except between `Link` and
`Advance` of that successor, when only the updater looks at it. `RenderIsFresh` and
`UnlockedIsShown` then say that the wake-up is not lost. `EventsWaitForData` is as
much as the window promises about events: they wait for the next set. "wait for
events" (`gl_window.c:244`) is not what the loop does.

## Fairness

`Spec` assumes weak fairness of `Loop`: the loop is a single thread that the
operating system schedules, and it blocks only in `epoll_wait`, whose readiness
is the guard of `Wait`. It says nothing of senders and clients, and nothing of
which of several reported events comes first. `DrainSpec` adds that a client
that is connected and has data to read eventually reads: what `fft` and `display`
do with their inputs, and the least under which delivery can be asked for.
`ShutdownCompletes` and `ClosedClientIsDropped` accept any terminal state: a
process killed by SIGPIPE has ended as well.

In `Source`, `Main` and `HandOver` are fair: two threads, and a write that does not
block. Nothing is assumed of the sound server. In `SampleRead` the reader is fair
and the peer is not; in `Display` the reorderer, the updater and main's reaction to
a closed input are, and no stream need bring anything; in `Window` only the window
thread is, which blocks in `draw_lock` alone: with no new set nothing is promised.

## What is proved

Every theorem is about the specification TLC checks, for every value of the
constants that the module's assumption allows: any number of clients, ports,
samples, graphs and events, and every capacity and size. TLC has checked each
property on the instances above, where a mutation of the code's operators breaks it.

### split and fft (`Stage_proofs`, under `PinListAssumption`)

| Theorem | Property | Inductive invariant |
|---|---|---|
| `TypeCorrect` | `TypeOK` | `TypeInv`: with `InputBound`, the sender never puts more than `MaxSamples` samples into the socket |
| `StreamIntegrity`, `NothingLost` | `WireIsStream`, `QueueContinuesWire` | `StreamInv` |
| `RefCountsExact` (at most `RefMod` clients) | `RefExact` | `RefInv`: `RefExact` beside the two above |
| `NoLostWakeup`, `NoLostClose`, `ReadListStaysLive` | `PendingDataWakes`, `ClosedClientWakes`, `ServedPinsLive` | `WakeInv` |
| `OverflowNeedsFailure` | `OverflowsOnlyAfterFailure` | all of them |

`WireIsStream` alone is not inductive: a send extends the wire from the queue's
head, so the head must be known to continue the wire (`QueueContinuesWire`), and
that holds for a new pin only because nothing was sent before its accept
(`AcceptInv`: a connection not yet accepted has an empty wire and queue, and a
pin's flags are its port). The lemma `SendEffect` (with `WireGrows`,
`HeadLeaves`, `HeadAdvances`) does the arithmetic of one send once; the actions
that send nothing leave the relation alone.

What split, fft and source do to the pin list is put once, as `PinStep(k, m)` of
`PinList_proofs`: the loop reads, waits, queues the sample `k`, destroys pins, serves
one, or a client acts; `k` and `m` are the samples queued before and after. The type
(`PinTypeStep`), the streams (`StreamStepAt`), the counts (`RefStep`) and the
ends of file (`ClosedStep`) are proved about it, and `StageIsPinStep` and
`SourceIsPinStep` say that both programs take no other step.

`RefExact` compares a byte with the size of a set. A step takes the queues of
some pins, or one entry of one, away from the holders of each buffer: how many
leave is the difference of two cardinalities, and that the byte goes to 0 when the
last one leaves and not before is `CountDown`, which is true up to `RefMod` holders.
No queue holds a buffer twice because the place of an entry gives its number
(`QueuedByPlace`, from the stream invariant). The hypothesis
`Cardinality(Conns) <= RefMod` (256 in the code) cannot be dropped: with one client
more the byte is 1 at the start and the first to let go frees the buffer.

The wake-up invariants need to know where the loop is: `LoopInv` says that no pin
is being served in the wait and read phases, and that the read list is empty
outside the read phase. `PendingDataWakes` and `ClosedClientWakes` then go
through pin by pin: each action that consumes an edge puts the pin on a list, and
each that takes it off a list serves it until it is empty, full, or gone.
`ServedPinsLive` follows because a disconnect comes either from the read loop,
after the pin has been taken off the read list, or from `pin_list_deliver`, when
that list is empty. `OverflowsOnlyAfterFailure` follows from the
room `epoll_wait` is given: what it reports fits into an empty list (`ReportFits`).

### The framing of samples (`SampleRead_proofs`, under `HeadersAssumption` and `SampleReadAssumption`)

| Theorem | Property |
|---|---|
| `TypeCorrect` | `TypeOK` |
| `NeverOutside` | `StaysInside` |
| `BoundariesAreKept` | `Framed` |
| `SizesAgree` | `HeaderTellsSize` |
| `ReadingImplementsFraming` | `Implements`: `Framing`'s specification without its liveness |

All five come from one inductive invariant, `ReadInv`. `Framed` speaks of what has
been returned and says nothing of the buffer being filled, so two parts are added.
`Contents` ties the stream to the buffer: what `recv` has returned is the delivered
samples and, behind them, the `size` bytes in the buffer, each of which is the byte
of the stream at its place. `Buffer` ties the buffer to its phase: its full size is
that of a header until the first header is complete, and the stream's afterwards,
and `readLen` is what is missing. A buffer that is full before its header was read
therefore holds exactly a header of the stream (`CallbackFindsHeader`), and that the
size the callback computes from it is the sender's is `AgreeOnSize`: the arithmetic of
source, split and fft, done once for each. For fft the halving is not assumed to be
exact. Both ways of going on, `Reuse` and `Alloc`, restore the invariant; with `Reuse`
the header is not read again, and the boundary rests on the stream having one size.

In the refinement, a sample counts as produced when its last byte is in, though
the reader sees it two steps later: `Part` and `Produced` are the mapping, a `Recv`
is one `Take` (`RecvTakes`), and every other step of the reader stutters.

### The graph queues (`Window_proofs`, under `WindowAssumption`)

| Theorem | Property | Inductive invariant |
|---|---|---|
| `TypeCorrect`, `ListsStayWhole` | `TypeOK`, `ListWhole` | `ListInv` |
| `RoundsAreFresh` | `RenderIsFresh` | `ListInv /\ FreshInv` |

`ListWhole` needs two things beside it. An empty list must have an empty head, or
the window thread would render a buffer that is not there. And past the first `Link`
of a set, `frame` must be one of `Frames`, or `Advance` would let `stqh_last` point into
a buffer that does not exist: without it `TypeOK` is not inductive, which is why the
two are proved together. `Linked(g)` says how far list `g` reaches at each step of
the updater. The one case with an interleaving in it is `Drop(g)` between `Link(g)` and
`Advance(g)`: `stqh_last` still points into the second newest buffer, and `Drop` may free
it; the updater's next store is to `stqh_last` itself, so `TailKnown` asks nothing of it
there, and holds again after `Advance`. `FreshInv` adds that what a round must show
(`fresh`) is at most `frame - 1`, which every list has linked (`LinkedBound`); the round
walks each list until there is no newer buffer, so it stops there or after it.

`LinesStayInside` is `LineStaysInside` for every width and buffer. `Columns` is a recursive
function, of which a prover knows only that it is some solution of its equation if
there is one. `ColumnsValue` gives it: the quotient and the remainder of
`k * samples` by the pixels solve the equation (`Carry`: adding `samples` adds the
quotients and the remainders, and at most one carry, which is Bresenham's error
term), and two solutions would differ in a first column (`Least`), which is 0 or is
computed from a column in which they agree.

### source (`Source_proofs`, under `PinListAssumption` and `SourceAssumption`)

| Theorem | Property | Inductive invariant |
|---|---|---|
| `SamplesAreOwned` | `OneOwner` | `OwnerIInv` |
| `TypeCorrect` | `TypeOK` | `TypeInv`: with `OwnerIInv` |
| `StreamIntegrity`, `NothingLost`, `NoLostClose` | `WireIsStream`, `QueueContinuesWire`, `ClosedClientWakes` | `ClientInv` |
| `RefCountsExact` (at most `RefMod` clients) | `RefExact` | `ClientInv /\ RefExact` |
| `ListsLive` | `ListsLiveUntilFailure` | `TypeInv /\ ListsInv` |

`OneOwner` holds for every capacity of the pipe and whatever the pin list does: no fact
about it is used. It is inductive once it is put as three numbers and an interval
(`Interval`, equivalent by `OwnerIsInterval`): the heap is the numbers from `fanned`
up to what has been captured, and the pipe is a run of them. The rest builds on it:
that the pointer read from the pipe is the sample fanned out next (`FanOutNext`) is what
makes a `FanOut` the writing of sample number `fanned`, and so a `PinStep`. No run
checks source's own `QueueContinuesWire`, the invariant that its `WireIsStream` rests
on; `stage` checks that of split. `ListsInv` is
why the order deliver, read does no harm until a send fails: each list is filled
from empty, and nothing is destroyed while the write list holds a pin.

### The reordering buffer (`Metabuf_proofs`, under `MetabufAssumption`)

| Theorem | Property |
|---|---|
| `TypeCorrect` | `TypeOK` |
| `Aligned`, `NothingSkipped`, `FreedIsDead` | `SetsAreAligned`, `NoSetSkipped`, `NoFreedInUse` |
| `ImplementsAssembler` | `Implements` |
| `WritesBehindAtOldest` | `OverrunsAtOldest` |

Everything rests on one fact about the arrays, `ArraysHoldWindows`: entry `i` of an
array that holds `k` samples is the sample `n - k + i` of its stream, `n` being the
next to come. It makes `have_sample`'s index arithmetic a comparison of numbers
(`HaveWindow`), and push and shift keep it (`PushWindow`, `ShiftWindow`: the
lemmas about the two loops). So `TypeOK` is not inductive alone either.

About the sets, `SetsInv` adds four parts. `SetsInOrder`: a set is four samples of one
number, and all that have left are older than anything buffered, so the next one to
leave is newer. `NoneWaits`: at rest no number lies in all four windows; with it, a
number that leaves a window by being skipped has been forgotten somewhere, which is
`NoneSkipped`. `FreedBehind`: what was freed is behind its window and in no set.
The number of a sample that completes a set is the newest of its own channel, and
what `shift` skips on the others is older than it. `StepArrives` says once which
arrays a call leaves behind: those in which the sample has arrived, and, if it
completes a set, those from behind the set on.

In the refinement `Assembler` holds the numbers of the windows (`HeldIsWindow`,
`ReceivedIsWindow`), and a call of `buferize_sample` is one `Receive`, as long as
`shift` stays inside the array. That it does exactly when the set is not the
oldest of a full channel is `WritesBehindAtOldest`: with a window, an index of 0 is the
oldest number.

### The threads of display (`Display_proofs`, under `DisplayAssumption`)

| Theorem | Property | Inductive invariant |
|---|---|---|
| `TypeCorrect` | `TypeOK` | `TypeInv`: with `PipeHoldsReceived` |
| `SetsAreDrawn` | `DrawnIsCompleted` | `DrawnInv` |
| `PipeIsExact`, `CompleteSetsLeave` | `PipeContinuesBuffer`, `CompleteIsHandedOn` | `KeptInv` |

The theorems hold for any number of channels. `PipeHoldsReceived` says that the pipe
holds samples that have been received and nothing else; without it the number at its
head could be anything. `DrawnIsCompleted` asks that
a set handed on is newer than all before it; this comes from `BufferedInOrder`: a number
that has left was no newer than the last one buffered on any channel, and the
sample that completes a set is newer than the last of its own.

`PipeIsExact` says more of the pipe: for each channel it holds the numbers from behind
the last one buffered up to the next to be received, in order (`PipeInOrder`), so what
comes out of it is the successor of the last (`HeadIsNext`). That is also why the
guard of `Assembler`'s `Receive`, a newer number than the last, never holds a sample up.
`CompleteSetsLeave` is the safety half of `CompleteIsDrawn`: no set is complete and waits.
It needs `NoneComplete`, that no number lies on every channel at rest, and
`KeptUntilDone`, that a number neither forgotten nor gone in a set is still held on
every channel that has buffered it. When a set leaves and takes what is older with it,
an older number that was not done would have to lie on every channel.

### Only model-checked

Liveness: `ShutdownCompletes`, `ClosedClientIsDropped`, `DeliversIfAllStay`,
`RecordedIsFanned`, `ArrivedIsDelivered`, `CompleteIsDrawn`, `UnlockedIsShown` and
`EventsWaitForData`, because fairness and ENABLED are out of the prover's reach. Every
invariant and every action property that a passing run checks is a theorem. The
disagreements (`WriteListLive`, `DeliverWritesAll`, `PopStaysInside`, `ClosedInputEnds`) are
counterexamples, found on the instances.

## Bounds and abstractions

`MaxSamples`, `SampleUnits`, `SockCap`, `MaxNumber`, `MaxStart`, `MaxMessages`,
`MaxFrames` and `MaxEvents` bound the models; `PipeCap` stands for the 8192 pointers
a pipe holds, `HeaderSize`, `FloatSize` and `Padding` for 32, 4 and 10;
`EventsCount`, `RefMod` and `Cap` are the code's constants (5, 256, 10), smaller
where a run wants the limit within reach. A connection is used once. The
input side of a stage is a byte stream cut into equal samples, which is what
source sends. Failures of `malloc`, `epoll_ctl` and `accept` end the process in the code
and are left out. A sample's number is not bounded by 32 bits.

## Not modelled, and the plan

Left out, because they are arithmetic or input and output without control of their
own: the floating-point work (`do_split_*`, the FFT, `calc_data`, `clamp_limits`, the
automatic levels), the drawing itself and the creation of the window (OpenGL, X11),
PulseAudio beyond success and failure, name resolution, bind, listen and connect,
which each program does once before its loop, and printing. Left out, because no
part of the program uses them: `buf_get`, `glwin_draw_close`, the updater's MESSAGE_END.
Memory orders weaker than program order are not modelled. A source whose samples
change size in mid-stream, or a client that sends data to its sender, does not exist
in the repository.

What is left to prove are the safety halves of other liveness properties, as
`CompleteSetsLeave` is one: where a client's data is in source between a deliver and the
next pass, and what the window thread owes to an event it has not looked at.
