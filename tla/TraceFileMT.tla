---------------------------- MODULE TraceFileMT ----------------------------
(***************************************************************************)
(* The double-buffered file back end (QEMTrace/qem_trace_file_mt_buff.c):  *)
(* the virtual CPU's thread fills one buffer while a detached thread writes *)
(* the other one; a semaphore of the session stands for "no write is under *)
(* way".                                                                   *)
(***************************************************************************)
EXTENDS TraceStream

Buffers == {0, 1}

VARIABLES
    qem_tracing_state,          \* the set of the trace types that are on
    qem_trace_current_buffer,
    qem_trace_buffer_sizes,
    qem_trace_buffer,
    qem_file_size,
    qem_trace_buffer_sync,      \* the value of the semaphore
    cpu_pc,                     \* where the virtual CPU's thread stands
    cpu_arg,                    \* the type, record or header size it works with
    flush_pc                    \* where the writer of each buffer stands

cpuVars  == <<qem_tracing_state, qem_trace_current_buffer, cpu_pc, cpu_arg>>
bufVars  == <<qem_trace_buffer_sizes, qem_trace_buffer>>
fileVars == <<file, file_pos, file_open, qem_file_size>>
vars     == <<cpuVars, bufVars, fileVars, qem_trace_buffer_sync, flush_pc, exited, logged>>

Cur == qem_trace_current_buffer

Init ==
    /\ InitStream
    /\ qem_tracing_state = {}
    /\ qem_trace_current_buffer = 0
    /\ qem_trace_buffer_sizes = [b \in Buffers |-> 0]
    /\ qem_trace_buffer = [b \in Buffers |-> [i \in Entries |-> NoRecord]]
    /\ qem_file_size = 0
    /\ qem_trace_buffer_sync = 0
    /\ cpu_pc = "idle"
    /\ cpu_arg = <<>>
    /\ flush_pc = [b \in Buffers |-> "none"]

-----------------------------------------------------------------------------
(* Mutants: the last entry is left out; the semaphore is not waited for.    *)
FilledButOne(b) ==
    [i \in 1..(qem_trace_buffer_sizes[b] - 1) |-> RecordSlot(qem_trace_buffer[b][i])]
SemIgnored == UNCHANGED qem_trace_buffer_sync

(* The filled entries of a buffer.                                          *)
Filled(b) == [i \in 1..qem_trace_buffer_sizes[b] |-> RecordSlot(qem_trace_buffer[b][i])]

(* sem_wait followed, in the same step of the model, by the sem_post that
   ends the section: the semaphore keeps its value.                         *)
SemPass == qem_trace_buffer_sync > 0 /\ UNCHANGED qem_trace_buffer_sync

-----------------------------------------------------------------------------
(* qem_trace_enable: nothing when exactly this type is on; the new type
   replaces what was on ...                                                 *)
TraceRetype(type) ==
    /\ cpu_pc = "idle"
    /\ qem_tracing_state \notin {{}, type}
    /\ qem_tracing_state' = type
    /\ UNCHANGED <<qem_trace_current_buffer, cpu_pc, cpu_arg, bufVars,
                   fileVars, qem_trace_buffer_sync, flush_pc, exited, logged>>

(* ... and when nothing is on, qem_init_tracing opens a new file, initialises
   the semaphore (in every session: the guard variable is never set), and
   qem_write_header rewinds the stream ...                                  *)
TraceOpen(type) ==
    /\ cpu_pc = "idle"
    /\ qem_tracing_state = {}
    /\ Fopen
    /\ qem_trace_buffer_sync' = 1
    /\ cpu_pc' = "open_header"
    /\ cpu_arg' = type
    /\ logged' = <<>>
    /\ UNCHANGED <<qem_tracing_state, qem_trace_current_buffer, bufVars, qem_file_size,
                   flush_pc, exited>>

(* ... then waits for the semaphore, writes the header with size 0, resets
   the current buffer and posts; the file counts as one record long.        *)
OpenHeader ==
    /\ cpu_pc = "open_header"
    /\ SemPass
    /\ Fwrite(<<HeaderSlot(0)>>)
    /\ qem_trace_buffer_sizes' = [qem_trace_buffer_sizes EXCEPT ![Cur] = 0]
    /\ qem_file_size' = RECORD_BYTES
    /\ qem_tracing_state' = cpu_arg
    /\ cpu_pc' = "idle"
    /\ cpu_arg' = <<>>
    /\ UNCHANGED <<qem_trace_current_buffer, qem_trace_buffer, file_open,
                   flush_pc, exited, logged>>

(* qem_trace_disable: the type's bits are cleared; with nothing left,
   qem_close_tracing ...                                                    *)
TraceDisable(type) ==
    /\ cpu_pc = "idle"
    /\ qem_tracing_state # {}
    /\ qem_tracing_state' = qem_tracing_state \ type
    /\ cpu_pc' = IF qem_tracing_state' = {} THEN "close_flush" ELSE "idle"
    /\ UNCHANGED <<qem_trace_current_buffer, cpu_arg, bufVars, fileVars,
                   qem_trace_buffer_sync, flush_pc, exited, logged>>

(* ... waits for the writer, writes the current buffer and posts; ...       *)
CloseFlush ==
    /\ cpu_pc = "close_flush"
    /\ SemPass
    /\ Fwrite(Filled(Cur))
    /\ qem_file_size' = qem_file_size + qem_trace_buffer_sizes[Cur] * RECORD_BYTES
    /\ qem_trace_buffer_sizes' = [qem_trace_buffer_sizes EXCEPT ![Cur] = 0]
    /\ cpu_pc' = "close_seek"
    /\ UNCHANGED <<qem_tracing_state, qem_trace_current_buffer, cpu_arg,
                   qem_trace_buffer, file_open, flush_pc, exited, logged>>

(* ... qem_write_header gets the size and rewinds the stream ...            *)
CloseSeek ==
    /\ cpu_pc = "close_seek"
    /\ cpu_arg' = qem_file_size
    /\ file_pos' = 0
    /\ cpu_pc' = "close_header"
    /\ UNCHANGED <<qem_tracing_state, qem_trace_current_buffer, bufVars, file,
                   file_open, qem_file_size, qem_trace_buffer_sync, flush_pc, exited, logged>>

(* ... waits once more and writes the header; then the file is closed.      *)
CloseHeader ==
    /\ cpu_pc = "close_header"
    /\ SemPass
    /\ Fwrite(<<HeaderSlot(cpu_arg)>>)
    /\ qem_trace_buffer_sizes' = [qem_trace_buffer_sizes EXCEPT ![Cur] = 0]
    /\ file_open' = FALSE
    /\ cpu_pc' = "idle"
    /\ cpu_arg' = <<>>
    /\ UNCHANGED <<qem_tracing_state, qem_trace_current_buffer,
                   qem_trace_buffer, qem_file_size, flush_pc, exited, logged>>

-----------------------------------------------------------------------------
(* Mutant: the full buffer is not noticed.                                  *)
TraceOutputNeverFull(r) ==
    /\ cpu_pc = "idle"
    /\ qem_tracing_state # {}
    /\ Len(logged) < MaxRecords
    /\ logged' = Append(logged, r)
    /\ cpu_arg' = r
    /\ cpu_pc' = "append"
    /\ UNCHANGED <<qem_tracing_state, qem_trace_current_buffer, bufVars,
                   fileVars, qem_trace_buffer_sync, flush_pc, exited>>

(* qem_trace_output, called by a helper that found its type switched on:
   with a full buffer it first has to swap.                                 *)
TraceOutput(r) ==
    /\ cpu_pc = "idle"
    /\ qem_tracing_state # {}
    /\ Len(logged) < MaxRecords
    /\ logged' = Append(logged, r)
    /\ cpu_arg' = r
    /\ cpu_pc' = IF qem_trace_buffer_sizes[Cur] = BUFFER_SIZE THEN "swap" ELSE "append"
    /\ UNCHANGED <<qem_tracing_state, qem_trace_current_buffer, bufVars,
                   fileVars, qem_trace_buffer_sync, flush_pc, exited>>

(* Mutant: the buffers are swapped without waiting.                         *)
SwapAtOnce ==
    /\ cpu_pc = "swap"
    /\ flush_pc' = [flush_pc EXCEPT ![Cur] = "write"]
    /\ qem_trace_current_buffer' = (qem_trace_current_buffer + 1) % 2
    /\ cpu_pc' = "append"
    /\ UNCHANGED <<qem_tracing_state, cpu_arg, bufVars, fileVars, qem_trace_buffer_sync,
                   exited, logged>>

(* Wait until the previous write is over, start the writer of the full buffer
   and go on with the other one.                                            *)
Swap ==
    /\ cpu_pc = "swap"
    /\ qem_trace_buffer_sync > 0
    /\ qem_trace_buffer_sync' = qem_trace_buffer_sync - 1
    /\ flush_pc' = [flush_pc EXCEPT ![Cur] = "write"]
    /\ qem_trace_current_buffer' = (qem_trace_current_buffer + 1) % 2
    /\ cpu_pc' = "append"
    /\ UNCHANGED <<qem_tracing_state, cpu_arg, bufVars, fileVars, exited, logged>>

Add ==
    /\ cpu_pc = "append"
    /\ qem_trace_buffer' =
         [qem_trace_buffer EXCEPT ![Cur][qem_trace_buffer_sizes[Cur] + 1] = cpu_arg]
    /\ qem_trace_buffer_sizes' = [qem_trace_buffer_sizes EXCEPT ![Cur] = @ + 1]
    /\ cpu_pc' = "idle"
    /\ cpu_arg' = <<>>
    /\ UNCHANGED <<qem_tracing_state, qem_trace_current_buffer, fileVars,
                   qem_trace_buffer_sync, flush_pc, exited, logged>>

-----------------------------------------------------------------------------
(* qem_trace_flush_routine, the detached writer of buffer b.                *)
FlushWrite(b) ==
    /\ flush_pc[b] = "write"
    /\ Fwrite(Filled(b))
    /\ flush_pc' = [flush_pc EXCEPT ![b] = "account"]
    /\ UNCHANGED <<cpuVars, bufVars, file_open, qem_file_size, qem_trace_buffer_sync, exited, logged>>

(* Mutants: the written bytes are not counted; the semaphore is not posted. *)
FlushAccountNothing(b) ==
    /\ flush_pc[b] = "account"
    /\ qem_trace_buffer_sizes' = [qem_trace_buffer_sizes EXCEPT ![b] = 0]
    /\ flush_pc' = [flush_pc EXCEPT ![b] = "post"]
    /\ UNCHANGED <<cpuVars, qem_trace_buffer, fileVars, qem_trace_buffer_sync, exited, logged>>
FlushPostNothing(b) ==
    /\ flush_pc[b] = "post"
    /\ flush_pc' = [flush_pc EXCEPT ![b] = "none"]
    /\ UNCHANGED <<cpuVars, bufVars, fileVars, qem_trace_buffer_sync, exited, logged>>

FlushAccount(b) ==
    /\ flush_pc[b] = "account"
    /\ qem_file_size' = qem_file_size + qem_trace_buffer_sizes[b] * RECORD_BYTES
    /\ qem_trace_buffer_sizes' = [qem_trace_buffer_sizes EXCEPT ![b] = 0]
    /\ flush_pc' = [flush_pc EXCEPT ![b] = "post"]
    /\ UNCHANGED <<cpuVars, qem_trace_buffer, file, file_pos, file_open,
                   qem_trace_buffer_sync, exited, logged>>

FlushPost(b) ==
    /\ flush_pc[b] = "post"
    /\ qem_trace_buffer_sync' = qem_trace_buffer_sync + 1
    /\ flush_pc' = [flush_pc EXCEPT ![b] = "none"]
    /\ UNCHANGED <<cpuVars, bufVars, fileVars, exited, logged>>

(* fwrite of a header or of a buffer falls short, in the virtual CPU's thread
   or in the writer, and QEM_TRACE_ERROR ends QEMU.                         *)
ShortWrite ==
    /\ \/ /\ cpu_pc \in {"open_header", "close_header"}
          /\ qem_trace_buffer_sync > 0
          /\ FwriteShort(<<HeaderSlot(0)>>)
       \/ cpu_pc = "close_flush" /\ qem_trace_buffer_sync > 0 /\ FwriteShort(Filled(Cur))
       \/ \E b \in Buffers : flush_pc[b] = "write" /\ FwriteShort(Filled(b))
    /\ UNCHANGED <<cpuVars, bufVars, file_open, qem_file_size, qem_trace_buffer_sync,
                   flush_pc, logged>>

(* fopen or pthread_create fails, which ends QEMU as well.                  *)
HostFails ==
    /\ \/ cpu_pc = "idle" /\ qem_tracing_state = {}
       \/ cpu_pc = "swap" /\ qem_trace_buffer_sync > 0
    /\ exited' = TRUE
    /\ UNCHANGED <<cpuVars, bufVars, fileVars, qem_trace_buffer_sync, flush_pc, logged>>

-----------------------------------------------------------------------------
Guest ==
    \/ \E type \in TypeOptions : TraceRetype(type) \/ TraceOpen(type) \/ TraceDisable(type)
    \/ \E r \in Record : TraceOutput(r)

CpuStep == OpenHeader \/ CloseFlush \/ CloseSeek \/ CloseHeader \/ Swap \/ Add

FlushStep(b) == FlushWrite(b) \/ FlushAccount(b) \/ FlushPost(b)

Next == ~exited /\ (Guest \/ CpuStep \/ (\E b \in Buffers : FlushStep(b))
                    \/ ShortWrite \/ HostFails)

Spec == Init /\ [][Next]_vars

(* The host schedules the virtual CPU's thread and the writers.             *)
LiveSpec ==
    /\ Spec
    /\ WF_vars(~exited /\ CpuStep)
    /\ \A b \in Buffers : WF_vars(~exited /\ FlushStep(b))

-----------------------------------------------------------------------------
CpuPCs == {"idle", "open_header", "close_flush", "close_seek", "close_header", "swap", "append"}

CpuArgOK ==
    /\ cpu_pc = "open_header" => cpu_arg \in TypeOptions
    /\ cpu_pc = "close_header" => cpu_arg \in Nat
    /\ cpu_pc \in {"swap", "append"} => cpu_arg \in Record

(* The types; in particular no buffer is filled beyond its end.             *)
TypeOK ==
    /\ qem_tracing_state \subseteq TraceTypes
    /\ qem_trace_current_buffer \in Buffers
    /\ qem_trace_buffer_sizes \in [Buffers -> 0..BUFFER_SIZE]
    /\ qem_trace_buffer \in [Buffers -> [Entries -> Record \cup {NoRecord}]]
    /\ qem_file_size \in Nat
    /\ qem_trace_buffer_sync \in Nat
    /\ file_pos \in 0..Len(file)
    /\ file_open \in BOOLEAN
    /\ exited \in BOOLEAN
    /\ cpu_pc \in CpuPCs
    /\ CpuArgOK
    /\ flush_pc \in [Buffers -> {"none", "write", "account", "post"}]
    /\ logged \in Seq(Record)

(* The virtual CPU never fills the buffer a writer is still at, and at most
   one writer is under way.                                                 *)
NoBufferRace ==
    \A b \in Buffers :
        flush_pc[b] # "none" => b # Cur /\ \A c \in Buffers \ {b} : flush_pc[c] = "none"

-----------------------------------------------------------------------------
(* The parts of the inductive invariant, while QEMU runs.  Other is the buffer
   the virtual CPU does not fill.                                           *)
Other == 1 - Cur

(* A type is traced in the middle of a session only.                        *)
Phase ==
    /\ file_open <=> ~(cpu_pc = "idle" /\ qem_tracing_state = {})
    /\ cpu_pc \in {"swap", "append"} => qem_tracing_state # {}
    /\ cpu_pc \in {"open_header", "close_flush", "close_seek", "close_header"} =>
          qem_tracing_state = {}

(* The semaphore is down exactly while a writer is under way, the writer is at
   the other buffer, and the session is not at its end.                     *)
SemInv ==
    /\ flush_pc[Cur] = "none"
    /\ flush_pc[Other] # "none" =>
          /\ qem_trace_buffer_sync = 0
          /\ cpu_pc \in {"idle", "swap", "append", "close_flush"} /\ file_open
    /\ file_open /\ flush_pc[Other] = "none" => qem_trace_buffer_sync = 1

(* What the buffers hold: a writer's is full until it is accounted for, and
   an unused one is empty.                                                  *)
SizesInv ==
    /\ flush_pc[Other] \in {"write", "account"} => qem_trace_buffer_sizes[Other] = BUFFER_SIZE
    /\ flush_pc[Other] \in {"none", "post"} => qem_trace_buffer_sizes[Other] = 0
    /\ cpu_pc = "swap" => qem_trace_buffer_sizes[Cur] = BUFFER_SIZE
    /\ cpu_pc = "append" => qem_trace_buffer_sizes[Cur] < BUFFER_SIZE
    /\ ~file_open \/ cpu_pc \in {"open_header", "close_seek", "close_header"} =>
          qem_trace_buffer_sizes[Cur] = 0

(* The stream stands at its end, but for the rewriting of the header.       *)
PositionInv ==
    /\ cpu_pc = "open_header" => file = <<>>
    /\ file_open /\ cpu_pc # "open_header" => file # <<>>
    /\ file_open => file_pos = IF cpu_pc = "close_header" THEN 0 ELSE Len(file)

(* The records on their way to the file: what the writer is about to write,
   then the current buffer, then the record of a qem_trace_output.          *)
Writing == IF flush_pc[Other] = "write" THEN qem_trace_buffer_sizes[Other] ELSE 0
Held    == IF cpu_pc \in {"swap", "append"} THEN 1 ELSE 0

OrderInv ==
    /\ Len(logged) = Written + Writing + qem_trace_buffer_sizes[Cur] + Held
    /\ Holds(qem_trace_buffer[Other], Writing, Written)
    /\ Holds(qem_trace_buffer[Cur], qem_trace_buffer_sizes[Cur], Written + Writing)
    /\ Held = 1 => cpu_arg = logged[Len(logged)]

(* qem_file_size counts the records in the file, but for a buffer that was
   written and not accounted for.                                           *)
Uncounted == IF flush_pc[Other] = "account" THEN qem_trace_buffer_sizes[Other] ELSE 0

CountInv ==
    /\ file_open /\ cpu_pc # "open_header" =>
          qem_file_size + Uncounted * RECORD_BYTES = RECORD_BYTES + Written * RECORD_BYTES
    /\ cpu_pc = "close_header" => cpu_arg = qem_file_size

RunningInv == Phase /\ SemInv /\ SizesInv /\ PositionInv /\ OrderInv /\ CountInv

(* The inductive invariant: an exit leaves the stream well formed and nothing
   runs after it.                                                           *)
FileInv == TypeOK /\ NoBufferRace /\ StreamOK /\ HeaderCounts /\ (~exited => RunningInv)

-----------------------------------------------------------------------------
(* Every operation of the guest on the tracer returns: the semaphore taken
   for a write is given back.                                               *)
GuestIsNotStuck == cpu_pc # "idle" ~> cpu_pc = "idle" \/ exited

(* What is not in the file yet: the buffer being written, the current one,
   and the record qem_trace_output holds.  After an exit the buffers are
   gone, and with them the records that are missing from the file.          *)
Entry(b) == [i \in 1..qem_trace_buffer_sizes[b] |-> qem_trace_buffer[b][i]]

Unwritten ==
    IF exited THEN Missing ELSE
    (IF flush_pc[Other] = "write" THEN Entry(Other) ELSE <<>>)
      \o Entry(Cur)
      \o (IF cpu_pc \in {"swap", "append"} THEN <<cpu_arg>> ELSE <<>>)

TL == INSTANCE TraceLog WITH open <- file_open, pending <- Unwritten, stored <- Stored

(* The double-buffered file back end implements the log.                    *)
ImplementsTraceLog == TL!LogSpec
=============================================================================
