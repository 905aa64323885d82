---------------------------- MODULE TraceStream ----------------------------
(***************************************************************************)
(* The trace file as both file back ends see it: the C library's stream is *)
(* a sequence of slots (the header, then records) and a position in it.    *)
(***************************************************************************)
EXTENDS Naturals, Sequences

CONSTANTS
    Record,         \* the records the guest's accesses give rise to
    NoRecord,       \* the content of a buffer entry never written
    BUFFER_SIZE,    \* QEM_TRACE_BUFFER_SIZE
    RECORD_BYTES,   \* sizeof(qem_trace_t)
    HEADER_BYTES,   \* sizeof(qem_trace_header_t)
    MaxRecords      \* bound: the records of a session

ASSUME BufferAssumption   == BUFFER_SIZE \in Nat \ {0}
ASSUME BytesAssumption    == RECORD_BYTES \in Nat \ {0} /\ HEADER_BYTES \in Nat \ {0}
ASSUME BoundAssumption    == MaxRecords \in Nat
ASSUME NoRecordAssumption == NoRecord \notin Record

Entries == 1..BUFFER_SIZE

(* QEM_TRACE_TTYPE_E: one bit for instructions, one for data.               *)
TraceTypes  == {"ITRACE", "DTRACE"}
TypeOptions == (SUBSET TraceTypes) \ {{}}

VARIABLES
    file,        \* the slots of the stream
    file_pos,    \* the slots before the stream's position
    file_open,   \* between fopen and fclose
    exited,      \* QEM_TRACE_ERROR ended QEMU
    logged       \* history: the records output in the last session

InitStream ==
    /\ file = <<>>
    /\ file_pos = 0
    /\ file_open = FALSE
    /\ exited = FALSE
    /\ logged = <<>>

HeaderSlot(size) == <<"header", size>>
RecordSlot(r)    == <<"record", r>>

(* remove, then fopen with mode "wb+": every session has a file of its own. *)
Fopen == file' = <<>> /\ file_pos' = 0 /\ file_open' = TRUE

(* fwrite of `slots` at the position of the stream.                         *)
Fwrite(slots) ==
    LET end == file_pos + Len(slots) IN
    /\ file' = [i \in 1..(IF end > Len(file) THEN end ELSE Len(file)) |->
                  IF file_pos < i /\ i <= end THEN slots[i - file_pos] ELSE file[i]]
    /\ file_pos' = end

(* A short count: fwrite stored only some of the slots, and the error exits. *)
FwriteShort(slots) ==
    /\ \E k \in 0..(Len(slots) - 1) : Fwrite(SubSeq(slots, 1, k))
    /\ exited' = TRUE

-----------------------------------------------------------------------------
(* The records in the file.                                                 *)
Written == IF file = <<>> THEN 0 ELSE Len(file) - 1
Stored  == [i \in 1..Written |-> file[i + 1][2]]

(* The records that were output and are not in the file.                    *)
Missing == SubSeq(logged, Len(Stored) + 1, Len(logged))

(* The first n entries of `buf` are the records output after the first `from`. *)
Holds(buf, n, from) == \A i \in 1..n : buf[i] = logged[from + i]

(* At any time, also when a failed call ends QEMU, the stream holds a header
   and the session's first records: nothing is out of order, repeated or
   written over the header.                                                 *)
FileIsPrefix ==
    file # <<>> =>
        /\ file[1][1] = "header"
        /\ \A i \in 2..Len(file) : i - 1 <= Len(logged) /\ file[i] = RecordSlot(logged[i - 1])

(* The header of a closed file tells the size of the file in bytes.         *)
HeaderTellsFileSize ==
    (~file_open /\ file # <<>>) =>
        file[1] = HeaderSlot(HEADER_BYTES + Len(logged) * RECORD_BYTES)

-----------------------------------------------------------------------------
(* Parts of the invariants of both back ends.                               *)
Slot == ({"header"} \X Nat) \cup ({"record"} \X Record)

StreamOK == file \in Seq(Slot) /\ FileIsPrefix

(* What the header of a closed file says for any size of the header: the back
   ends count it as one record.                                             *)
HeaderCounts ==
    (~file_open /\ file # <<>>) =>
        file[1] = HeaderSlot(RECORD_BYTES + Len(logged) * RECORD_BYTES)
=============================================================================
