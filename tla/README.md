# A verification of QEMTrace

QEMTrace is QEMU with a tracer: while a guest runs, every traced memory access
becomes a record, and a back end, chosen when QEMU is built, takes the records
out of the emulator. This directory holds TLA+ models of the instrumented guests
and of the records made of their instructions, of the back ends and of the
shared-memory interface (SMI), the TLC runs that check them on small instances,
and machine-checked proofs about them for instances of every size.

## 1. The system

### Components, their state and operations

| Component | Source | State | Operations |
|---|---|---|---|
| SMI engine, the sender ("server") | `QEMTrace/qem_trace_smi_engine.c` | status, private block and index, block cursor, handles of the six shared objects | init, connect, disconnect, send, flush |
| SMI client library, the receiver | `SMILib/src/qem_posix_smi.c` | the same on the other side | init, connect, disconnect, receive, post_server_flush |
| Shared memory | layout in `qem_trace_smi_engine.h` | block count, 16-bit mask, block size, blocks; mutex, two conditions, two semaphores | none of its own |
| SMI back end | `QEMTrace/qem_trace_smi.c` | `qem_tracing_state`, `connected` | enable, disable, output |
| Test client | `Tests/i386/test_smi_client.c` | what it reads next | the read loop |
| Double-buffered file back end | `QEMTrace/qem_trace_file_mt_buff.c` | two buffers, current one, semaphore, file and its size | enable, disable, output, the flush thread |
| Single-buffered file back end | `QEMTrace/qem_trace_file.c` | one buffer, file and its size | enable, disable, output |
| Print back end | `QEMTrace/qem_trace_print.c` | `qem_tracing_state` | enable, disable, output |
| Record and flags | `QEMTrace/qem_trace_def.h`, decoders in the print back end, the test client and `Tests/bin_to_str.cpp` (its branch for 32-bit targets) | none | encoding an event as a word of flags, storing it, telling the event from it |
| Helpers | `QEMTrace/arch/{i386,ppc,arm}` | none (they read guest registers and page tables) | one helper per traced event, address translation, start, stop, timers |
| Instrumented translators | `Qemu/target/{i386,ppc,arm}/translate.c` and the memory templates | the guest's processor | calls of the helpers among the code of loads, stores, fetches, exclusive and cache instructions |
| QEMU | the rest of `Qemu/` | the emulator | runs the translated code |

The guest executes reserved instructions that start and stop the tracing of
instructions, of data, or of both. While a type is on, the helper of every access
of that type computes the physical address and the flags and calls
`qem_trace_output` in the thread of the virtual CPU. With the file back ends that
is a buffer and a file of the session; with the SMI it is `qem_smi_client_send`,
which fills a private block and publishes it, when full, in a ring of blocks in
shared memory, from which another process takes it. The two processes share the
mask of published blocks under a process-shared mutex with a condition per
direction, but copy the blocks outside it. They find each other through six names
of the host (`shm_open`, `sem_open`).

### What is hard

* **Interleavings of two processes**: copies outside the mutex, read-modify-write
  of the mask, signals that find no sleeper, wakeups without a signal.
* **Boundaries**: records that straddle blocks or end on their last byte, a ring
  that is full or empty, the padding of a flushed block, which only the client
  program can tell from data.
* **Processes that fail**: names outlive the process that made them; either program
  may be killed, time out or be restarted between any two calls of the handshake.
* **A thread per written buffer** in the double-buffered back end: the file
  position, the buffers and the byte count are shared with the virtual CPU, and
  one semaphore stands between them.
* **Partial failure**: writes fall short and end QEMU with records in memory.
* **Recomputed facts**: the helpers run beside the access and work out the address,
  its translation, the privilege and the size a second time: before or after the
  instruction changed a register, from page tables that the TLB may not agree with,
  and for events that may not happen after all (a fault, a failed comparison).

`PROJECT.json` lists these hazards one by one, with the line where each one bites
and the properties that would catch it.

### What makes each part correct

* SMI: what the receiver reads is what the sender sent, in order, once; nobody
  waits without a reason; nobody waits for ever.
* Handshake: two ends that shake hands share the same objects, and these are
  initialised; failures leave nothing behind; both ends get an answer.
* SMI sessions: the client reads whole sessions and recognises their ends.
* File back ends: the file is, at any time, a header and the first records of its
  session, and complete with a correct header when it is closed.
* Guests: while a kind of event is traced, every event of it has one record, in
  order, and the reader of the record learns what happened: which event, its
  address, privilege, size and cache level, and the attributes of the page.

## 2. The modules

| Module | Models |
|---|---|
| `SmiShared` | mask, blocks and monitor of the shared memory; copying in and out of a block |
| `SmiEngine` | `qem_smi_client_send`, `qem_smi_client_flush` |
| `SmiClient` | `qem_smi_receive`, `qem_smi_post_server_flush` |
| `SmiChannel` | the two ends together with the most general callers; the properties; the inductive invariant; the refinement mapping |
| `BlockQueue` | abstract: a bounded FIFO queue of blocks |
| `SmiTracing` | the SMI back end with a guest and the test client on top of `SmiChannel` |
| `SmiHandshake` | init, connect and disconnect of both ends, with failures, timeouts, crashes and restarts |
| `TraceStream` | the C library's stream as both file back ends use it |
| `TraceFileMT`, `TraceFile` | the file back ends |
| `TraceLog` | abstract: what a file back end promises |
| `SmiChannelProofs`, `SmiTracingProofs`, `SmiHandshakeProofs` | theorems about the SMI: the channel, the sessions, the handshake |
| `TraceStreamProofs`, `TraceFileProofs`, `TraceFileMTProofs` | theorems about the file back ends, on lemmas about the stream |
| `GuestFlagsProofs`, `GuestTracingProofs` | theorems about the flags, and about the records of the three guests |
| `TraceFlags` | the flags of a record in both builds, the word the back ends store, its decoders |
| `GuestTrace` | what the guests share: the tracing state, enable and disable, the events and the records of an instruction |
| `PpcTrace` | PowerPC: registers, MSR, TLB, reservation, the kinds of MMU the tracer tells apart; fetch, loads and stores of general and floating-point registers, accesses in two halves, strings, multiples, reserving and cache instructions |
| `I386Trace` | i386: page directory, page tables, the user's TLB and the supervisor's, the ring and the bits of CS; accesses, segment loads, locked operations, fetch, changes of a page table entry |
| `ArmTrace` | ARM (32 bits): security banks, memory types, exclusive monitor; fetch, accesses, swaps, exclusive loads and stores |
| `GuestTracing` | a guest of any of the three with its properties |
| `MCSmiChannel`, `MCSmiTracing`, `MCGuestTracing` | constants for TLC |

**The SMI (`SmiShared`, `SmiEngine`, `SmiClient`, `SmiChannel`).** A step of a
process is what it does between two points where the other one can be noticed:
taking the mutex, the test of the mask with the wait or the unlock, the copy, the
load of the mask, and its store with the signal and the unlock. The load and the
store are two steps although the mutex covers both: that nothing comes between them
is a property (`RingInv`), not an assumption. `pthread_cond_wait` is two steps and
may also return without a signal. `send` and `flush` publish a block in the same
way and share those actions; `srv_call` says which one is executing, where they
differ (`Image`, `ServerPublish`). The mask is a set of block numbers; a
cell stands for a byte; messages and sizes to read are arbitrary. Memory that
`malloc` returns is any block of `Junk`, and block 0 starts with the magic that the
handshake leaves there, since nothing clears it.

**Sessions (`SmiTracing`).** An operation of the guest is the sequence of engine calls
it makes: version and record size when tracing starts, a record per access, an
all-zero record and a flush when it stops. Items are several cells long, so they
are split over blocks in every possible way, and the client program puts them
together again. The end record is zeros; records of accesses are not, since they
carry the host's time stamp counter. The test client looks at the address and the time
stamp alone, which recognises the same records: the time stamp of an access is never 0.

**The handshake (`SmiHandshake`).** Each process makes its system calls one by one; the
calls it still has to make are its program counter, so a failure, a crash or a step
of the other process may come between any two of them. An object is known by its
name and by the generation, the run of the server, that created it. A disconnect removes *names*, as in the
code, whichever object they refer to by then. Making the shared region and giving
it its size is one call of the model. A disconnect of a connected
server is not an action: nothing in QEMU calls it.

**The file back ends (`TraceStream`, `TraceFileMT`, `TraceFile`).** The stream is a
sequence of slots (header, records) with a position, so that writing at the wrong
place destroys something. In `TraceFileMT` the virtual CPU's thread and the writer
of each buffer take turns between the operations on the semaphore; `fseek` comes
before the wait, as in `qem_write_header`. The semaphore is reset in every
session because its guard variable is never set. A failing `fopen`,
`pthread_create` or a short `fwrite` ends QEMU (`exited`). `TraceFile` runs in one
thread and its operations are single steps. The library's own buffering is not
modelled: the properties are about the stream.

**The guests (`TraceFlags`, `GuestTrace`, `PpcTrace`, `I386Trace`, `ArmTrace`,
`GuestTracing`).** An instruction is one step: a virtual CPU executes the code of
an instruction, helpers included, without another process taking part. The step leaves
`done`, the events of the instruction as the guest's architecture and
QEMU's own access path define them, and `out`, the records, computed as the helpers
compute them from what the translator passes. `out` has a record at the number of each
helper call that was traced, which is the number of the event the call is for. A helper that
meets an MMU it does not know ends QEMU (`cpu_abort`), and the guest with it (`ended`). What a
cache instruction does (`CacheOps`) is stated apart from what its translator has the helpers
tell (`CacheCalls`), as for the other instructions. An event is a record of what it is
(`d`), the address used, and whether it was performed (an access to an unmapped page
is not). The properties compare the two, place by place. Where the code is known to tell
something else, the event carries a reason in `why`, and the property is claimed for
the events without a reason that concerns it:

| Reason | Meaning | Concerns |
|---|---|---|
| `RegisterZero` | rA = 0 stands for the value 0, the helper reads r0 | address |
| `Indexed` | the load and store helpers add the low half of the instruction word although the form is indexed | address |
| `BaseLoaded` | the helper runs after the load and reads the base that the load replaced | address |
| `SecondHalf` | PowerPC pairs and vectors: both halves are told with the address of the first | address |
| `Be32` | ARM's exclusive loads hand over the address before BE32 turns it | address |
| `Unmapped` | the walk of the helper finds no page | physical address, page |
| `OtherEntry` | the PowerPC helper looks an address up as a data read, then as code, whatever the access was | physical address, page |
| `NoLookup` | the REAL model of MMU: the look-up reports a failure also when it found the address | physical address, page |
| `StaleTlb` | the guest changed a page table entry, the access still used the old one | physical address, page |
| `NoAttributes` | the tracer takes attributes from one MMU model only | page |
| `SmallPage` | i386 small pages: the dirty bit is read as cache disable | page |
| `ShortDescriptors`, `StronglyOrdered` | ARM page formats and memory types whose attributes are not passed on | page |
| `OtherBank` | the ARM helper chooses the bank of the cache enables by the mode, not by the security state | page |
| `NotShareable` | ARM records always say coherent | coherence |
| `CriticalEnable` | PowerPC privilege is read from MSR bit 17 | privilege |
| `MiddleRing`, `Implicit` | i386 rings 1 and 2; accesses the processor makes as supervisor | privilege |
| `NotProtected` | i386 real and virtual-8086 mode: the low bits of CS are not the ring | privilege |
| `StringTail`, `FetchSize` | the last bytes of a PowerPC string are told as words; an i386 fetch as one byte | size |
| `PrefetchLevel` | the prefetch helper of PowerPC drops the level it is given | cache level |
| `SharedCode` | without metadata a flush with invalidation has the code of a lock | event |
| `AsDcbf` | `dcbst` is told as `dcbf`, also on processors where it does not invalidate | event |
| `ZeroAsRead` | `dcbz` is told as a read | write |
| `Untraced` | i386 locked operations, the fetch of Thumb code, PowerPC loads and stores of single precision: no helper is called | record exists |
| `UnknownMmu` | with metadata a PowerPC helper ends QEMU at an MMU it does not know | record exists |
| `Early` | ARM accesses, i386 segment loads: the helper runs before an access that may fault | record exists |
| `CompareFailed` | exclusive stores are recorded whether they store or not | record exists |
| `PrivilegeLate` | PowerPC's `cli` checks the privilege after the helper | record exists |

Each reason is needed: without it TLC finds a violation. The reasons are set by
conditions on the processor and the instruction, so an event outside them is held to
the full property.

`TraceFlags` gives each flag the bits of `qem_trace_def.h`, with and without
metadata; `Stored` is the word with the number of the core the back ends write, and
the decoders are those of the print back end, of the test client's fields and of the branch of
`bin_to_str` for 32-bit targets. The branch for 64-bit targets is not modelled: it asks for single
bits of each code, and prints a record of 64 bits as one of 16 and GLOBAL as SET.

## 3. The runs

| Run | Question | Bounds |
|---|---|---|
| `channel` | races, lost updates, lost wakeups, mutual waiting; is the ring a queue? do sends, flushes and receives get on? | 3 blocks of 2 cells, messages of 1 and 3 cells, reads of 1 and 3 |
| `tracing` | does the client read what was sent? do closed sessions arrive? can the guest hang? | blocks of 3 cells, words of 1, records of 2; 3 sessions with 3 records in all |
| `handshake` | who shakes hands with whom after failures, timeouts, crashes? | 2 server runs, 2 client runs, 2 attempts each, a client that starts at any time |
| `handshake_live` | does an undisturbed handshake end well? | 1 run each |
| `handshake_returned` | does connect return, with failures and timeouts? | 1 server run, 3 client runs |
| `handshake_called` | the same, for a client that starts when the header says (a violation) | 1 run each, failures only |
| `file_mt` | races, order, completeness, header, hanging | buffers of 2 records, 7 records per session, any number of sessions |
| `file` | order, completeness, header | the same |
| `file_mt_64` | the header's size with 20-byte records (a violation) | the same |
| `guest` | is every event recorded once, and told as what it was? | all three targets, both builds; see below |
| `ppc_address` | is the virtual address the one accessed? (a violation) | the PowerPC guest of `guest` |
| `i386_inhibit` | is the cache inhibition told that of the page? (a violation) | the i386 guest of `guest` |

Two blocks are the smallest ring in which the ends can be at different blocks and
at the same one, full and empty, and in a ring of three the order of the blocks in
transit shows; messages of three cells over blocks of two
straddle a boundary and fill a block exactly. In `tracing` a
session starts at the start of a block (a flush ended the one before it) with two
words; with up to three records behind them, records and the end record occur at
every offset of a block, split and whole, and last blocks are full as well as padded.
Two runs of each program are
enough for leftovers of one to meet the other. Seven records fill both buffers of
two three times and leave one over. The file runs and the handshake runs may stop
(QEMU exits; the programs end), and so may the PowerPC guest with an MMU the tracer does not
know, so deadlock is not checked there; it is checked in the other runs, where some step is
always possible.

The guests of `guest` are as small as the ways they can go wrong allow. PowerPC: two
pages of four bytes; three registers with the values 0 and 4, so that adding the
wrong one changes the page and the sum wraps; three TLBs (the address spaces differ;
a page is missing; pages for code or for writing alone); four values of the MSR; a
data cache that is off; each kind of MMU; halves of four bytes, so that the second one may lie
in the other page. i386: one page (pages do not interact) of a directory
entry that is absent, a table or a large page; paging off; caching off; rings 0 and 3, a middle
ring, real and virtual-8086 mode; page table entries changed with and without `invlpg`. ARM: one page of each memory type and one
missing; both security banks; each translation regime; BE32 and Thumb. The processor
is chosen initially and every instruction of the instance is executed in every state
of it with every tracing state.

**Fairness.** The host schedules both processes (weak fairness of the steps inside a
call), and the receiving program keeps calling receive. The mutex is not assumed
to be fair. Wakeups without a signal are assumed to end eventually: without that a
sleeper that wakes up for nothing for ever could keep taking the mutex. The guest
is never obliged to do anything. In `TraceFileMT` the virtual CPU's thread and each
writer are scheduled until QEMU exits; in `SmiHandshake` both programs make their calls until they are killed.

**What the runs show.** All properties hold in all passing runs. The others show:

* `handshake_called`: `qem_smi_connect` waits for a semaphore without a timeout, in
  spite of its `max_attempt`. If the client starts as soon as the server has
  *called* its init, as the header asks, and the init fails after making the
  semaphores, the client waits for ever. Once the init has *returned* this cannot
  happen while the programs are not killed and QEMU is not started anew
  (`handshake_returned`).
* `file_mt_64`: the bytes of the header are counted as one record, which is right
  only when both are 16 bytes long.
* `ppc_address`: the helpers of PowerPC recompute the address from the registers, with
  r0 where the instruction means zero and, after a load, with the register the load
  has replaced; `qem_trace_engine.h` promises the virtual address of the access.
* `i386_inhibit`: for a small page the i386 helper takes bit 6 of the page table entry,
  the dirty bit, for the cache inhibition of the page that the same header promises.

More was met in the guests that no run is about. Some of it is in the table of reasons:
without metadata the code of a lock is that of flush or-ed with invalidate, which the comment
above it reserves, so that `dcbf` is read as a lock (`SharedCode`); `dcbz` is recorded as a read,
where the comment at the call says that the tracing treats it as a write (`ZeroAsRead`); the
physical address may be another one than that accessed (`OtherEntry`, `StaleTlb`), and an event
may be recorded that did not happen (`Early`, `CompareFailed`, `PrivilegeLate`). The
rest: the header says that enabling flushes the software TLB, and the code does not; enabling
assigns the tracing state, so that starting data after instructions stops the instructions (the
models do the same); the ARM helper passes a 32-bit variable where the translation stores 64 bits.

Two weaknesses were met that contradict no document and are listed as hazards: a client
whose answer comes after the server's last timeout counts itself connected, and the
disconnect of a client can remove the names of a server started later.

Each property has a mutant in `PROJECT.json`: a definition with a plausible
mistake that makes TLC find the property violated.

## 4. The proofs

Every theorem holds for all values of the constants that satisfy the assumptions
named with it. Each invariant a proof goes along (`RingInv`, `FileInv`,
`HandshakeInv`, the conjuncts of `GuestOK`) is an invariant of the runs too, so TLC
checked it before it was proved; `StreamInv` of the sessions has quantifiers over sequences that TLC cannot
enumerate, and was tried out on a copy of the model that keeps the sequences as
variables.

### The channel (`SmiChannelProofs`)

For every block count in 1..16, every block size, every
set of cells and messages and every initial content of the private blocks:

* `Typing`: `TypeOK`; in particular indices stay within blocks and cursors within the ring.
* `RingInvariant`: `RingInv`, the inductive invariant below.
* `CopiesDoNotRace`, `WakeupsAreNotLost`, `NoDeadlockOfSleepers`: `NoBlockRace`,
  `NoLostWakeup`, `NoMutualWait` follow from it.
* `Refinement`: `ImplementsBlockQueue`.

*Assumptions*: the block count fits the 16 bits of the mask (the header's warning),
blocks are not empty, messages are sequences of cells.

*The argument.* None of the safety properties is inductive: that a receiver may
copy a block depends on what both ends did since it tested the mask.
`RingInv` strengthens them by the shape of the mask, the *arc* of the ring from the
receiver's cursor up to the sender's (`Ring`), which tells the full ring from the
empty one; by who holds the mutex where (`Mutex`); by the claim each end has on
the block at its cursor from its test until its own update, and the equality of the
loaded and the stored mask while the mutex is held (`Claim`); by where sleepers are (`Sleepers`); and by the
copies being up to date (`Copied`). A publishing sender extends the arc by the block
at its cursor, which was not in it, and a releasing receiver shortens it by
its first one (`RingGrows`, `RingShrinks`); everything else leaves it alone. If both
slept, the arc would contain the sender's cursor and not the receiver's, and
no arc does. For the refinement the queue is the content of the blocks along
the arc (`Transit`); publishing is `Put`, the receiver's copy is `Fetch`, its release is `Drop`, and
filling the private block is `Stage`.

### The sessions (`SmiTracingProofs`)

* `TracingUsesChannel`: the tracer and the test client are callers of the channel: a
  behaviour of the sessions is one of `SmiChannel`, so that everything above holds of it.
* `TracingTyping`: `TracingTypeOK`. `StreamInvariant`: the invariant below.
* `StreamIsFaithful`: `ReaderSeesWhatWasSent`: what the client has read is the beginning of
  what was sent, item by item, for any record size, block size and number of sessions.
* `ReaderDoesNotFail`: `ReaderNeverFails`. `OnlyPaddingIsDropped`: `FlushDropsOnlyPadding`.

*Assumptions*: the messages and sizes of the two programs are among those of the channel
(`CallersAssumption`); a record is neither a version, a size nor an end, and not all zeros,
since it carries the host's time stamp (`RecordsAssumption`).

*The argument.* The items reach the client in blocks that cut them anywhere, and a flush
fills up a block with zeros that are no item. `StreamInv` says that there is a sequence of
cells, the *wire*, with a start for each item sent, such that every item stands at its start,
right behind the one before it or, at the start of the next block, behind the padding of
an end; and that the client's block, the blocks in the ring, the sender's private block
and the rest of the message being sent are consecutive parts of the wire. What
the client holds of its item is the wire from that item's start. Every step either moves
the boundary between two parts or makes the wire longer; the wire is
bound by a quantifier, so the specification needs no variable for it. That
`post_server_flush` drops padding alone follows from the client's position: it has
read an end, and the next item starts with the next block.

### The handshake (`SmiHandshakeProofs`)

* `Typing`: `TypeOK`. `HandshakeInvariant`: `HandshakeInv`.
* `AnswersAreRight`: `AnswerIsRight`: a client that is about to answer the current server, or
  has answered it, is attached to that server's objects alone and found them initialised.
* `FailuresLeaveNoNames`: `FailedServerLeavesNoNames`.

For any number of runs of either program and any number of attempts; failures, timeouts and
crashes may come anywhere.

*The argument.* What a program has done is what is no longer in its list of calls. Before
the server makes anything it removes every name, so from its first creation on
all names that exist are of its own generation; it writes the magic before it posts the
client's semaphore. The client opens the server's semaphore first and waits at the client's:
its wait ends only when the server that made the semaphore has written everything. `HandshakeInv` relates the names, the posted semaphores and the generations a client
holds to the calls each of the two has left; a crash drops one side and keeps the names, a
failing server removes them all.

### The file back ends (`TraceStreamProofs`, `TraceFileProofs`, `TraceFileMTProofs`)

For both back ends: the type invariant, `FileInv`, `FileIsPrefix` (the file is a header
and the first records of its session), `HeaderTellsFileSize`, and the refinement of
`TraceLog`; for the double-buffered one `NoBufferRace` as well. `PROJECT.json` lists the names.

*Assumptions*: buffers hold at least one record, a record has at least one byte; for
`HeaderTellsFileSize` a header is as long as a record, as in the build with 16-byte records
(`file_mt_64` shows what happens in the other one).

*The argument.* The semaphore is down exactly while a writer is under way, and then the
writer's buffer is not the current one (`SemInv`); this alone is the absence of races. For the
order, what has been logged is what is in the file, followed by what the writer holds, followed by the current
buffer, followed by the record that an output is about to store (`OrderInv`). A swap
passes the current buffer to the writer, a write passes the writer's part to
the file, and the sum stays the same. The same parts are the records that the
abstract log owes the file (`Unwritten` = `Missing`), which makes every write a `Store` of
`TraceLog`, also a short one. `CountInv` says which records `qem_file_size` does
not count yet, and with it the header is right when the file is closed.

### The flags and the guests (`GuestFlagsProofs`, `GuestTracingProofs`)

* `StoringKeepsWords`: a word that goes through the fields of a stored record reads as
  before, whatever the number of the core and whatever the word, in both builds.
* `WordsAreRead`: with metadata the decoders get back exactly the description that a helper
  encoded. `ShortWordsAreRead`: without metadata the event, code or data, and read or write.
* `GuestInvariant`: `GuestOK`, the types and the four properties that compare events with
  records, is inductive. `GuestTypes`, `NoRecordIsLost`, `EventsAreTold`, `AddressesAreTold`,
  `PagesAreTold` are its parts: `GuestTypeOK`, `RecordsMatchEvents`, `EventIsTold`,
  `AddressIsTold`, `AttributesAreTold`. `StoredRecordsAreTold`: `StoringKeepsTheWord`.

These are claims about the events without a reason that concerns the matter; `EventsAreTold`
says nothing of the event of a flush with invalidation without metadata (`SharedCode`), of that of
`dcbst` outside e500 (`AsDcbf`) and of the write of `dcbz` (`ZeroAsRead`), where the records
say something else. What the theorems add to the runs is that there are no other
exceptions: for the modelled instructions, with any registers, addresses, pages, TLBs and
modes, a record differs from its event only for a reason in the table of section 2, and only
in what the table says the reason concerns. Without metadata the record has no attributes and,
on PowerPC, no physical address, and nothing is claimed of them.

*Assumptions*: instructions name registers there are and sizes there are
(`InstructionsAssumption`); processors start in their types, and the values, program counters
and page table entries that the guest writes are of theirs (`ProcessorsAssumption`); the word around each
address of an ARM access lies in the guest's pages (`AddressesAssumption`, which lets BE32
turn the address within its word). The number of registers, of addresses and of pages, the size of a page, the
initial processors and the lengths of strings are arbitrary.

*The argument.* The codes of two fields have no bit in common, so masking a word gives back
the code of one field (`StoringKeepsWords` and `WordsAreRead` are this for the core number and for
the other fields), and the order in which a decoder asks does not matter but for flush
and invalidate, whose code contains those of flush and of invalidate: it is asked for before them. What a
record tells is therefore the description that the helper had (`DescriptionTells`). It remains to compare
that with the event. `PpcTells`, `ArmTells` and `I386Tells` do it for one call: without a
reason in `why` the helper is given the address of the access (`HelperAddressOK`, `TradAddressOK`,
`ArmAddressOK`) and then finds the same page, on PowerPC because the entry it finds first is the
entry used, on ARM because the mode and the security
state choose banks that say the same (`SameBank`), on i386 because the tracer's walk
and QEMU's agree over the same tables (`WalksAgree`) and an access that is not stale leaves
the tables alone but for the dirty bit (`AccessedOK`). Then each instruction pairs its events with its
calls, one lemma per action, also those with any number of them (`MultipleOK`, `CacheOK`). For the cache
instructions the calls of each translator are set against what the instruction does, operation by
operation (`CacheMatches`). The
events and records of an instruction do not depend on those of the one before, so the invariant needs no more
history than the processor's type, which is why that is part of `GuestTypeOK`.

### Only model-checked

Liveness (of the channel, the sessions, the handshake and the writers): the proof system
has no rules for fairness. Every invariant and every refinement of a passing run is proved.

## 5. What is not modelled

* Timers, the text of messages and the layout of printed lines, the reading loop of
  `bin_to_str`: input and output only.
* In the translators: the ISA 3.0 atomics and quadword forms of PowerPC (64-bit targets
  only; the helpers get other fields of the instruction there), the external-PID forms
  (the same helpers and arguments as the plain ones), the pieces of VSX and SPE accesses
  (they are traced through the same helpers as the floating-point, paired and AltiVec accesses
  that are modelled, and as with these every piece is told with the first address), the index
  chosen by ARM's unprivileged loads and stores.
* i386 page tables with PAE and in long mode, and builds with `QEM_TRACE_PHYSICAL_ADDRESS` 0
  (`qem_trace_config.h` sets 1).
* The decoder of `bin_to_str` for 64-bit targets.
* Several virtual CPUs: the SMI allows one sender, and nothing in the tracer is locked.
* The death of a peer after the handshake, against which the code does nothing.
* QEMU itself: about 3.8 million lines of a third party's code in `Qemu/`, of which
  QEMTrace changes the memory paths of three targets. The modules cover most of
  `QEMTrace/` and `SMILib/`, and of `Qemu/` the instrumented instructions; measured
  against the whole repository that is a small share, and no more of it is this
  program's logic.

## 6. Plan

1. *Done*: the SMI channel with its proofs, sessions, handshake, file back ends; the
   flags and their decoders; the guests of the three architectures.
2. Several virtual CPUs on the file back end and the SMI: which interleavings break.
3. *Done*: the proofs about the channel, the sessions, the handshake, the file back
   ends, the flags and the guests.
4. The hazards that `PROJECT.json` lists without a property: the answer that comes after
   the server gave up, and the death of a connected peer.
