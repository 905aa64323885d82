----------------------------- MODULE TraceFile -----------------------------
(***************************************************************************)
(* The single-buffered file back end (QEMTrace/qem_trace_file.c).  It runs *)
(* in the virtual CPU's thread only, so an operation is one step.          *)
(***************************************************************************)
EXTENDS TraceStream

VARIABLES
    qem_tracing_state,       \* the set of the trace types that are on
    qem_trace_buffer_size,
    qem_trace_buffer,
    qem_file_size

vars == <<file, file_pos, file_open, exited, logged, qem_tracing_state,
          qem_trace_buffer_size, qem_trace_buffer, qem_file_size>>

Init ==
    /\ InitStream
    /\ qem_tracing_state = {}
    /\ qem_trace_buffer_size = 0
    /\ qem_trace_buffer = [i \in Entries |-> NoRecord]
    /\ qem_file_size = 0

(* Mutants: the last entry is left out; entries are counted, not bytes.     *)
FilledButOne    == [i \in 1..(qem_trace_buffer_size - 1) |-> RecordSlot(qem_trace_buffer[i])]
FilledEntries == qem_trace_buffer_size

(* The filled entries of the buffer.                                        *)
Filled == [i \in 1..qem_trace_buffer_size |-> RecordSlot(qem_trace_buffer[i])]

(* The bytes the buffer adds to the file.                                   *)
FilledBytes == qem_trace_buffer_size * RECORD_BYTES

-----------------------------------------------------------------------------
(* qem_trace_enable with something else switched on: the type is replaced.  *)
TraceRetype(type) ==
    /\ qem_tracing_state \notin {{}, type}
    /\ qem_tracing_state' = type
    /\ UNCHANGED <<file, file_pos, file_open, exited, logged, qem_trace_buffer_size,
                   qem_trace_buffer, qem_file_size>>

(* qem_trace_enable with nothing switched on: qem_init_tracing opens a new
   file and writes a header of size 0.                                      *)
TraceOpen(type) ==
    /\ qem_tracing_state = {}
    /\ qem_tracing_state' = type
    /\ file' = <<HeaderSlot(0)>>
    /\ file_pos' = 1
    /\ file_open' = TRUE
    /\ qem_trace_buffer_size' = 0
    /\ qem_file_size' = RECORD_BYTES
    /\ logged' = <<>>
    /\ UNCHANGED <<exited, qem_trace_buffer>>

(* qem_trace_disable that leaves a type switched on.                        *)
TraceNarrow(type) ==
    /\ qem_tracing_state \ type # {}
    /\ qem_tracing_state' = qem_tracing_state \ type
    /\ UNCHANGED <<file, file_pos, file_open, exited, logged, qem_trace_buffer_size,
                   qem_trace_buffer, qem_file_size>>

(* Mutant: the close does not write the buffer.                             *)
FinishedUnflushed == <<HeaderSlot(qem_file_size + FilledBytes)>> \o Tail(file)

(* What the stream is after the buffer was appended and the header rewritten. *)
Finished == <<HeaderSlot(qem_file_size + FilledBytes)>> \o Tail(file) \o Filled

(* qem_trace_disable that leaves none: qem_close_tracing writes the buffer,
   rewinds, writes the header with the size, and closes the file.           *)
TraceClose(type) ==
    /\ qem_tracing_state # {}
    /\ qem_tracing_state \ type = {}
    /\ qem_tracing_state' = {}
    /\ file' = Finished
    /\ file_pos' = 1
    /\ file_open' = FALSE
    /\ qem_file_size' = qem_file_size + FilledBytes
    /\ qem_trace_buffer_size' = 0
    /\ UNCHANGED <<exited, logged, qem_trace_buffer>>

(* qem_trace_output with room in the buffer.                                *)
TraceOutput(r) ==
    /\ qem_tracing_state # {}
    /\ Len(logged) < MaxRecords
    /\ qem_trace_buffer_size # BUFFER_SIZE
    /\ qem_trace_buffer' = [qem_trace_buffer EXCEPT ![qem_trace_buffer_size + 1] = r]
    /\ qem_trace_buffer_size' = qem_trace_buffer_size + 1
    /\ logged' = Append(logged, r)
    /\ UNCHANGED <<file, file_pos, file_open, exited, qem_tracing_state, qem_file_size>>

(* Mutant: the size is not reset after the write.                           *)
TraceOutputFullUnreset(r) ==
    /\ qem_tracing_state # {}
    /\ Len(logged) < MaxRecords
    /\ qem_trace_buffer_size = BUFFER_SIZE
    /\ Fwrite(Filled)
    /\ qem_file_size' = qem_file_size + BUFFER_SIZE * RECORD_BYTES
    /\ qem_trace_buffer_size' = qem_trace_buffer_size + 1
    /\ logged' = Append(logged, r)
    /\ UNCHANGED <<file_open, exited, qem_tracing_state, qem_trace_buffer>>

(* qem_trace_output with a full buffer: it is written first.                *)
TraceOutputFull(r) ==
    /\ qem_tracing_state # {}
    /\ Len(logged) < MaxRecords
    /\ qem_trace_buffer_size = BUFFER_SIZE
    /\ Fwrite(Filled)
    /\ qem_file_size' = qem_file_size + BUFFER_SIZE * RECORD_BYTES
    /\ qem_trace_buffer' = [qem_trace_buffer EXCEPT ![1] = r]
    /\ qem_trace_buffer_size' = 1
    /\ logged' = Append(logged, r)
    /\ UNCHANGED <<file_open, exited, qem_tracing_state>>

(* The write of the buffer falls short, in an output or in the close, and
   QEM_TRACE_ERROR ends QEMU.                                               *)
ShortWrite ==
    /\ qem_tracing_state # {}
    /\ FwriteShort(Filled)
    /\ UNCHANGED <<file_open, logged, qem_tracing_state, qem_trace_buffer_size,
                   qem_trace_buffer, qem_file_size>>

(* The write of a header falls short, in the open or, after the buffer was
   written, in the close.                                                   *)
HeaderShort ==
    /\ exited' = TRUE
    /\ \/ qem_tracing_state = {} /\ Fopen /\ logged' = <<>>
       \/ qem_tracing_state # {} /\ Fwrite(Filled) /\ UNCHANGED <<file_open, logged>>
    /\ UNCHANGED <<qem_tracing_state, qem_trace_buffer_size, qem_trace_buffer, qem_file_size>>

(* fopen fails.                                                             *)
OpenFails ==
    /\ qem_tracing_state = {}
    /\ exited' = TRUE
    /\ UNCHANGED <<file, file_pos, file_open, logged, qem_tracing_state,
                   qem_trace_buffer_size, qem_trace_buffer, qem_file_size>>

Next ==
    /\ ~exited
    /\ \/ \E type \in TypeOptions :
             TraceRetype(type) \/ TraceOpen(type) \/ TraceNarrow(type) \/ TraceClose(type)
       \/ \E r \in Record : TraceOutput(r) \/ TraceOutputFull(r)
       \/ ShortWrite \/ HeaderShort \/ OpenFails

Spec == Init /\ [][Next]_vars

-----------------------------------------------------------------------------
(* The types; in particular the buffer is not filled beyond its end.        *)
TypeOK ==
    /\ qem_tracing_state \subseteq TraceTypes
    /\ qem_trace_buffer_size \in 0..BUFFER_SIZE
    /\ qem_trace_buffer \in [Entries -> Record \cup {NoRecord}]
    /\ qem_file_size \in Nat
    /\ file_pos \in 0..Len(file)
    /\ file_open \in BOOLEAN
    /\ exited \in BOOLEAN
    /\ logged \in Seq(Record)

(* While QEMU runs, a file is open exactly while something is traced; it ends
   where the stream stands and is as long as qem_file_size says, and what was
   output and is not in it is in the buffer.                                *)
SessionInv ==
    ~exited =>
        /\ file_open <=> qem_tracing_state # {}
        /\ file_open =>
              /\ file # <<>> /\ file_pos = Len(file)
              /\ qem_file_size = RECORD_BYTES + Written * RECORD_BYTES
        /\ ~file_open => qem_trace_buffer_size = 0
        /\ Len(logged) = Written + qem_trace_buffer_size
        /\ Holds(qem_trace_buffer, qem_trace_buffer_size, Written)

(* The inductive invariant.                                                 *)
FileInv == TypeOK /\ StreamOK /\ HeaderCounts /\ SessionInv

(* The records in the buffer; after an exit, the ones that are gone.        *)
Unwritten ==
    IF exited THEN Missing ELSE [i \in 1..qem_trace_buffer_size |-> qem_trace_buffer[i]]

TL == INSTANCE TraceLog WITH open <- file_open, pending <- Unwritten, stored <- Stored

(* The single-buffered file back end implements the log.                    *)
ImplementsTraceLog == TL!LogSpec
=============================================================================
