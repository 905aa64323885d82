-------------------------- MODULE TraceFileProofs --------------------------
(***************************************************************************)
(* The single-buffered file back end for every buffer size, every size of  *)
(* a record and of the header, and any number of records and sessions.     *)
(***************************************************************************)
EXTENDS TraceFile, TraceStreamProofs

(* What the buffer would add to the file: the next records of the log.      *)
LEMMA FilledSlots ==
    ASSUME FileInv, ~exited
    PROVE  /\ qem_trace_buffer_size \in Nat
           /\ Written \in Nat
           /\ Written + qem_trace_buffer_size = Len(logged)
           /\ Filled \in [1..qem_trace_buffer_size -> Slot]
           /\ \A i \in 1..qem_trace_buffer_size : Filled[i] = RecordSlot(logged[Written + i])
           /\ FilledBytes \in Nat
<1>1. /\ qem_trace_buffer_size \in Nat /\ logged \in Seq(Record)
      /\ Written \in Nat
      /\ Written + qem_trace_buffer_size = Len(logged)
  BY BufferAssumption, StoredIsPrefix DEF FileInv, TypeOK, SessionInv
<1>2. ASSUME NEW i \in 1..qem_trace_buffer_size
      PROVE  /\ Filled[i] = RecordSlot(logged[Written + i])
             /\ RecordSlot(logged[Written + i]) \in Slot
  <2>1. Written + i \in 1..Len(logged)
    BY <1>1
  <2>2. qem_trace_buffer[i] = logged[Written + i]
    BY DEF FileInv, SessionInv, Holds
  <2>3. logged[Written + i] \in Record
    BY <1>1, <2>1
  <2> QED BY <2>2, <2>3, SlotType DEF Filled
<1>3. Filled \in [1..qem_trace_buffer_size -> Slot]
  BY <1>2 DEF Filled
<1>4. FilledBytes \in Nat
  BY <1>1, BytesAdd DEF FilledBytes
<1> QED BY <1>1, <1>2, <1>3, <1>4

(* The initial states.                                                      *)
LEMMA InitFileInv == Init => FileInv
<1> SUFFICES ASSUME Init PROVE FileInv
  OBVIOUS
<1> USE DEF Init, InitStream
<1>1. TypeOK
  <2>1. logged \in Seq(Record) /\ Len(file) = 0 /\ file_pos \in 0..Len(file)
    OBVIOUS
  <2>2. qem_trace_buffer \in [Entries -> Record \cup {NoRecord}]
    OBVIOUS
  <2>3. qem_trace_buffer_size \in 0..BUFFER_SIZE /\ qem_file_size \in Nat
    BY BufferAssumption
  <2>4. file_open \in BOOLEAN /\ exited \in BOOLEAN /\ qem_tracing_state \subseteq TraceTypes
    OBVIOUS
  <2> QED BY <2>1, <2>2, <2>3, <2>4 DEF TypeOK
<1>2. StreamOK /\ HeaderCounts
  BY DEF StreamOK, FileIsPrefix, HeaderCounts
<1>3. SessionInv
  BY DEF SessionInv, Written, Holds
<1> QED BY <1>1, <1>2, <1>3 DEF FileInv

(* A new session starts with a file that is a header.                       *)
LEMMA OpenKeepsInv ==
    ASSUME FileInv, ~exited, NEW type \in TypeOptions, TraceOpen(type)
    PROVE  FileInv'
<1> USE DEF TraceOpen
<1>1. /\ file' \in Seq(Slot) /\ Len(file') = 1 /\ file'[1] = HeaderSlot(0) /\ file' # <<>>
      /\ Written' = 0
  BY SlotType DEF Written
<1>2. StreamOK' /\ HeaderCounts'
  BY <1>1, SlotType DEF StreamOK, FileIsPrefix, HeaderCounts
<1>3. TypeOK'
  BY <1>1, BytesAssumption, BufferAssumption DEF FileInv, TypeOK, TypeOptions
<1>4. qem_file_size' = RECORD_BYTES + Written' * RECORD_BYTES
  BY <1>1, BytesAssumption
<1>5. SessionInv'
  BY <1>1, <1>4 DEF SessionInv, TypeOptions, Holds
<1> QED BY <1>2, <1>3, <1>5 DEF FileInv

(* The close appends the buffer and rewrites the header.                    *)
LEMMA CloseKeepsInv ==
    ASSUME FileInv, ~exited, NEW type \in TypeOptions, TraceClose(type)
    PROVE  FileInv' /\ Written' = Len(logged)
<1> DEFINE n == qem_trace_buffer_size
           size == qem_file_size + FilledBytes
<1>1. /\ file \in Seq(Slot) /\ file # <<>> /\ Len(file) \in Nat /\ Len(file) >= 1
      /\ Written = Len(file) - 1 /\ logged \in Seq(Record)
      /\ qem_file_size \in Nat
      /\ qem_file_size = RECORD_BYTES + Written * RECORD_BYTES
  BY DEF TraceClose, FileInv, TypeOK, StreamOK, SessionInv, Written
<1>2. /\ n \in Nat /\ Written + n = Len(logged)
      /\ Filled \in [1..n -> Slot] /\ FilledBytes \in Nat
      /\ \A i \in 1..n : Filled[i] = RecordSlot(logged[Written + i])
  BY FilledSlots
<1>3. size \in Nat /\ size = RECORD_BYTES + Len(logged) * RECORD_BYTES
  <2>1. (Written + n) * RECORD_BYTES = Written * RECORD_BYTES + n * RECORD_BYTES
    BY <1>1, <1>2, BytesAdd
  <2>2. /\ Written * RECORD_BYTES \in Nat /\ n * RECORD_BYTES \in Nat
        /\ RECORD_BYTES \in Nat /\ FilledBytes = n * RECORD_BYTES
    BY <1>1, <1>2, BytesAdd, BytesAssumption, SMTT(30) DEF FilledBytes
  <2>3. size = (RECORD_BYTES + Written * RECORD_BYTES) + n * RECORD_BYTES
    BY <1>1, <2>2
  <2>4. Len(logged) * RECORD_BYTES = Written * RECORD_BYTES + n * RECORD_BYTES
    BY <1>2, <2>1
  <2> QED BY <2>2, <2>3, <2>4
<1>4. /\ <<HeaderSlot(size)>> \in Seq(Slot) /\ Len(<<HeaderSlot(size)>>) = 1
      /\ <<HeaderSlot(size)>>[1] = HeaderSlot(size)
  BY <1>3, SlotType
<1>5. /\ Tail(file) \in Seq(Slot) /\ Len(Tail(file)) = Len(file) - 1
      /\ \A i \in 1..(Len(file) - 1) : Tail(file)[i] = file[i + 1]
  BY <1>1, HeadTailProperties
<1>6. Filled \in Seq(Slot) /\ Len(Filled) = n
  BY <1>2, FunctionIsSeq
<1> DEFINE front == <<HeaderSlot(size)>> \o Tail(file)
<1> HIDE DEF n, size
<1>7. /\ front \in Seq(Slot) /\ Len(front) = Len(file)
      /\ front[1] = HeaderSlot(size)
      /\ \A i \in 2..Len(file) : front[i] = file[i]
  <2>1. /\ front \in Seq(Slot) /\ Len(front) = 1 + (Len(file) - 1)
        /\ \A i \in 1..(1 + (Len(file) - 1)) :
              front[i] = IF i <= 1 THEN <<HeaderSlot(size)>>[i] ELSE Tail(file)[i - 1]
    BY <1>4, <1>5, ConcatProperties
  <2>2. front[1] = HeaderSlot(size)
    BY <1>1, <1>4, <2>1
  <2>3. ASSUME NEW i \in 2..Len(file) PROVE front[i] = file[i]
    <3>1. i - 1 \in 1..(Len(file) - 1) /\ (i - 1) + 1 = i
      BY <1>1
    <3> QED BY <1>1, <1>5, <2>1, <3>1
  <2> QED BY <1>1, <2>1, <2>2, <2>3
<1>8. /\ file' \in Seq(Slot) /\ Len(file') = Len(file) + n
      /\ file'[1] = HeaderSlot(size)
      /\ \A i \in 2..Len(file') : file'[i] = IF i <= Len(file) THEN file[i] ELSE Filled[i - Len(file)]
  <2>1. file' = front \o Filled
    BY DEF TraceClose, Finished, size
  <2> HIDE DEF front
  <2>2. /\ file' \in Seq(Slot) /\ Len(file') = Len(file) + n
        /\ \A i \in 1..(Len(file) + n) :
              file'[i] = IF i <= Len(file) THEN front[i] ELSE Filled[i - Len(file)]
    <3>1. front \in Seq(Slot) /\ Filled \in Seq(Slot)
      BY <1>6, <1>7
    <3>2. /\ front \o Filled \in Seq(Slot)
          /\ Len(front \o Filled) = Len(front) + Len(Filled)
          /\ \A i \in 1..(Len(front) + Len(Filled)) :
                (front \o Filled)[i] = IF i <= Len(front) THEN front[i] ELSE Filled[i - Len(front)]
      BY ONLY <3>1, ConcatProperties
    <3>3. Len(front) = Len(file) /\ Len(Filled) = n
      BY <1>6, <1>7
    <3> QED BY <2>1, <3>2, <3>3
  <2> QED BY <1>1, <1>2, <1>7, <2>2, SMTT(30)
<1>9. ASSUME NEW i \in 2..Len(file')
      PROVE  i - 1 <= Len(logged) /\ file'[i] = RecordSlot(logged[i - 1])
  <2>1. CASE i <= Len(file)
    BY <1>1, <1>8, <2>1 DEF FileInv, StreamOK, FileIsPrefix
  <2>2. CASE i > Len(file)
    <3>1. i - Len(file) \in 1..n /\ Written + (i - Len(file)) = i - 1 /\ i - 1 <= Len(logged)
      BY <1>1, <1>2, <1>8, <2>2
    <3>2. file'[i] = Filled[i - Len(file)]
      BY <1>1, <1>8, <2>2
    <3> QED BY <1>2, <3>1, <3>2
  <2> QED BY <1>1, <1>2, <1>8, <2>1, <2>2
<1>10. file' # <<>> /\ Written' = Len(logged)
  BY <1>1, <1>2, <1>8 DEF Written
<1>11. StreamOK'
  BY <1>3, <1>8, <1>9, SlotType DEF StreamOK, FileIsPrefix, TraceClose
<1>12. HeaderCounts'
  BY <1>3, <1>8 DEF HeaderCounts, TraceClose
<1>13. TypeOK'
  <2>1. qem_file_size' \in Nat /\ file_pos' \in 0..Len(file')
    BY <1>1, <1>2, <1>3, <1>8 DEF size, TraceClose
  <2>2. qem_tracing_state' \subseteq TraceTypes /\ qem_trace_buffer_size' \in 0..BUFFER_SIZE
    BY BufferAssumption DEF TraceClose
  <2>3. file_open' \in BOOLEAN
    BY DEF TraceClose
  <2> QED BY <2>1, <2>2, <2>3 DEF FileInv, TypeOK, TraceClose
<1>14. SessionInv'
  BY <1>1, <1>10 DEF SessionInv, Holds, FileInv, TraceClose
<1> QED BY <1>10, <1>11, <1>12, <1>13, <1>14 DEF FileInv

(* A record goes into a buffer with room for it.                            *)
LEMMA OutputKeepsInv ==
    ASSUME FileInv, ~exited, NEW r \in Record, TraceOutput(r)
    PROVE  FileInv'
<1> DEFINE n == qem_trace_buffer_size
<1>1. /\ n \in 0..BUFFER_SIZE /\ n # BUFFER_SIZE /\ BUFFER_SIZE \in Nat
      /\ qem_trace_buffer \in [Entries -> Record \cup {NoRecord}]
      /\ logged \in Seq(Record) /\ Len(logged) \in Nat
  BY BufferAssumption DEF FileInv, TypeOK, TraceOutput
<1>2. /\ logged' \in Seq(Record) /\ Len(logged') = Len(logged) + 1
      /\ \A i \in 1..Len(logged) : logged'[i] = logged[i]
      /\ logged'[Len(logged) + 1] = r
  BY <1>1, AppendProperties DEF TraceOutput
<1>3. /\ Written \in Nat /\ Written + n = Len(logged) /\ Written' = Written
  BY FilledSlots DEF Written, TraceOutput
<1>4. /\ n + 1 \in Entries /\ qem_trace_buffer_size' = n + 1
      /\ qem_trace_buffer_size' \in 0..BUFFER_SIZE
  BY <1>1 DEF Entries, TraceOutput
<1>5. /\ qem_trace_buffer' \in [Entries -> Record \cup {NoRecord}]
      /\ qem_trace_buffer'[n + 1] = r
      /\ \A i \in 1..n : qem_trace_buffer'[i] = qem_trace_buffer[i]
  BY <1>1, <1>4 DEF Entries, TraceOutput
<1>6. ASSUME NEW i \in 1..(n + 1) PROVE qem_trace_buffer'[i] = logged'[Written + i]
  <2>1. CASE i = n + 1
    <3>1. Written + i = Len(logged) + 1
      BY <1>1, <1>3, <2>1
    <3> QED BY <1>2, <1>5, <2>1, <3>1
  <2>2. CASE i # n + 1
    <3>1. i \in 1..n /\ Written + i \in 1..Len(logged)
      BY <1>1, <1>3, <2>2
    <3>2. qem_trace_buffer[i] = logged[Written + i]
      BY <3>1 DEF FileInv, SessionInv, Holds
    <3> QED BY <1>2, <1>5, <3>1, <3>2
  <2> QED BY <2>1, <2>2
<1>7. StreamOK' /\ HeaderCounts'
  BY <1>1, StreamGrows DEF FileInv, SessionInv, HeaderCounts, TraceOutput
<1>8. TypeOK'
  BY <1>2, <1>4, <1>5 DEF FileInv, TypeOK, TraceOutput
<1>9. SessionInv'
  <2>1. Holds(qem_trace_buffer, qem_trace_buffer_size, Written)'
    BY <1>3, <1>4, <1>6 DEF Holds
  <2>2. Len(logged') = Written' + qem_trace_buffer_size'
    <3>1. (Written + n) + 1 = Written + (n + 1)
      BY <1>1, <1>3
    <3> HIDE DEF n
    <3> QED BY <1>2, <1>3, <1>4, <3>1
  <2> QED BY <1>3, <2>1, <2>2 DEF FileInv, SessionInv, TraceOutput
<1> QED BY <1>7, <1>8, <1>9 DEF FileInv

(* A record makes room for itself: the full buffer is written first.        *)
LEMMA OutputFullKeepsInv ==
    ASSUME FileInv, ~exited, NEW r \in Record, TraceOutputFull(r)
    PROVE  FileInv' /\ Written' = Len(logged)
<1>1. /\ BUFFER_SIZE \in Nat /\ BUFFER_SIZE >= 1
      /\ qem_trace_buffer \in [Entries -> Record \cup {NoRecord}]
      /\ logged \in Seq(Record) /\ Len(logged) \in Nat
  BY BufferAssumption DEF FileInv, TypeOK
<1>2. /\ logged' \in Seq(Record) /\ Len(logged') = Len(logged) + 1
      /\ \A i \in 1..Len(logged) : logged'[i] = logged[i]
      /\ logged'[Len(logged) + 1] = r
  BY <1>1, AppendProperties DEF TraceOutputFull
<1>3. /\ Written \in Nat /\ Written + BUFFER_SIZE = Len(logged)
      /\ Filled \in [1..BUFFER_SIZE -> Slot]
      /\ \A i \in 1..BUFFER_SIZE : Filled[i] = RecordSlot(logged[Written + i])
  BY FilledSlots DEF TraceOutputFull
<1>4. /\ file_open /\ file # <<>> /\ file_pos = Len(file) /\ StreamOK
      /\ Written + BUFFER_SIZE <= Len(logged) /\ Len(logged) <= Len(logged')
      /\ Fwrite(Filled)
  BY <1>1, <1>2, <1>3 DEF FileInv, SessionInv, TraceOutputFull
<1>5. /\ StreamOK' /\ file' # <<>> /\ file_pos' = Len(file')
      /\ Written' = Written + BUFFER_SIZE
  BY <1>1, <1>2, <1>3, <1>4, FwriteRecords
<1>6. HeaderCounts'
  BY <1>4 DEF HeaderCounts, TraceOutputFull
<1>7. /\ qem_trace_buffer' \in [Entries -> Record \cup {NoRecord}]
      /\ qem_trace_buffer'[1] = r
  BY <1>1 DEF Entries, TraceOutputFull
<1>8. /\ qem_file_size' \in Nat
      /\ qem_file_size' = RECORD_BYTES + Written' * RECORD_BYTES
  <2>1. (Written + BUFFER_SIZE) * RECORD_BYTES
          = Written * RECORD_BYTES + BUFFER_SIZE * RECORD_BYTES
    BY <1>1, <1>3, BytesAdd
  <2>2. /\ Written * RECORD_BYTES \in Nat /\ BUFFER_SIZE * RECORD_BYTES \in Nat
        /\ RECORD_BYTES \in Nat
    BY <1>1, <1>3, BytesAdd, BytesAssumption
  <2>3. /\ qem_file_size = RECORD_BYTES + Written * RECORD_BYTES
        /\ qem_file_size' = qem_file_size + BUFFER_SIZE * RECORD_BYTES
    BY <1>4 DEF FileInv, SessionInv, TraceOutputFull
  <2> QED BY <1>5, <2>1, <2>2, <2>3
<1>9. TypeOK'
  <2>1. file_pos' \in 0..Len(file')
    BY <1>5 DEF StreamOK
  <2> QED BY <1>1, <1>2, <1>7, <1>8, <2>1 DEF FileInv, TypeOK, TraceOutputFull
<1>10. SessionInv'
  BY <1>2, <1>3, <1>4, <1>5, <1>7, <1>8 DEF FileInv, SessionInv, Holds, TraceOutputFull
<1> QED BY <1>3, <1>5, <1>6, <1>9, <1>10 DEF FileInv

(* A write of the buffer that falls short leaves a file to be trusted.      *)
LEMMA ShortKeepsInv ==
    ASSUME FileInv, ~exited, ShortWrite
    PROVE  FileInv' /\ Written <= Written' /\ Written' \in Nat
<1> DEFINE n == qem_trace_buffer_size
<1>1. /\ n \in Nat /\ Written \in Nat /\ Written + n = Len(logged)
      /\ Filled \in [1..n -> Slot]
      /\ \A i \in 1..n : Filled[i] = RecordSlot(logged[Written + i])
  BY FilledSlots
<1>2. /\ file_open /\ file # <<>> /\ file_pos = Len(file) /\ StreamOK
      /\ logged \in Seq(Record) /\ Len(logged) \in Nat /\ logged' = logged
  BY DEF FileInv, SessionInv, TypeOK, ShortWrite
<1>3. PICK k \in Nat : /\ k < n
                       /\ SubSeq(Filled, 1, k) \in [1..k -> Slot]
                       /\ \A i \in 1..k : SubSeq(Filled, 1, k)[i] = Filled[i]
                       /\ Fwrite(SubSeq(Filled, 1, k))
  BY <1>1, ShortSlots DEF ShortWrite
<1> DEFINE part == SubSeq(Filled, 1, k)
<1> HIDE DEF part
<1>4. /\ Written + k <= Len(logged)
      /\ part \in [1..k -> Slot] /\ Fwrite(part)
      /\ \A i \in 1..k : part[i] = RecordSlot(logged[Written + i])
  BY <1>1, <1>3 DEF part
<1>5. /\ StreamOK' /\ file' # <<>> /\ file_pos' = Len(file') /\ Written' = Written + k
  BY <1>2, <1>3, <1>4, FwriteRecords
<1>6. HeaderCounts' /\ SessionInv'
  BY <1>2 DEF HeaderCounts, SessionInv, FwriteShort, ShortWrite
<1>7. TypeOK'
  <2>1. file_pos' \in 0..Len(file')
    BY <1>5 DEF StreamOK
  <2> QED BY <2>1 DEF FileInv, TypeOK, FwriteShort, ShortWrite
<1> QED BY <1>1, <1>5, <1>6, <1>7 DEF FileInv

(* A header that falls short: an empty file, or one complete but for it.    *)
LEMMA HeaderShortKeepsInv ==
    ASSUME FileInv, ~exited, HeaderShort
    PROVE  FileInv' /\ (qem_tracing_state # {} => Written' = Len(logged))
<1> USE DEF HeaderShort
<1>1. CASE qem_tracing_state = {} /\ Fopen /\ logged' = <<>>
  <2>1. StreamOK' /\ HeaderCounts' /\ SessionInv'
    BY <1>1 DEF Fopen, StreamOK, FileIsPrefix, HeaderCounts, SessionInv
  <2>2. TypeOK'
    BY <1>1 DEF Fopen, FileInv, TypeOK
  <2> QED BY <1>1, <2>1, <2>2 DEF FileInv
<1>2. CASE qem_tracing_state # {} /\ Fwrite(Filled) /\ UNCHANGED <<file_open, logged>>
  <2> DEFINE n == qem_trace_buffer_size
  <2>1. /\ n \in Nat /\ Written \in Nat /\ Written + n = Len(logged)
        /\ Filled \in [1..n -> Slot]
        /\ \A i \in 1..n : Filled[i] = RecordSlot(logged[Written + i])
    BY FilledSlots
  <2>2. /\ file_open /\ file # <<>> /\ file_pos = Len(file) /\ StreamOK
        /\ logged \in Seq(Record) /\ Len(logged) \in Nat /\ logged' = logged
    BY <1>2 DEF FileInv, SessionInv, TypeOK
  <2>3. /\ StreamOK' /\ file' # <<>> /\ file_pos' = Len(file')
        /\ Written' = Written + n
    BY <1>2, <2>1, <2>2, FwriteRecords
  <2>4. HeaderCounts' /\ SessionInv'
    BY <1>2, <2>2 DEF HeaderCounts, SessionInv
  <2>5. TypeOK'
    <3>1. file_pos' \in 0..Len(file')
      BY <2>3 DEF StreamOK
    <3> QED BY <1>2, <3>1 DEF FileInv, TypeOK
  <2> QED BY <2>1, <2>3, <2>4, <2>5 DEF FileInv
<1> QED BY <1>1, <1>2

(* Every step of the back end keeps the invariant.                          *)
LEMMA NextKeepsInv == FileInv /\ [Next]_vars => FileInv'
<1> SUFFICES ASSUME FileInv, [Next]_vars PROVE FileInv'
  OBVIOUS
<1> DEFINE Same == UNCHANGED <<file, file_pos, file_open, logged, qem_trace_buffer_size,
                               qem_trace_buffer, qem_file_size>>
<1>1. ASSUME Same, UNCHANGED <<exited, qem_tracing_state>> PROVE FileInv'
  BY <1>1 DEF FileInv, TypeOK, StreamOK, FileIsPrefix, HeaderCounts, SessionInv, Written, Holds
<1>2. ASSUME Same, UNCHANGED exited, ~exited, qem_tracing_state # {}, qem_tracing_state' # {},
             qem_tracing_state' \subseteq TraceTypes
      PROVE  FileInv'
  BY <1>2 DEF FileInv, TypeOK, StreamOK, FileIsPrefix, HeaderCounts, SessionInv, Written, Holds
<1>3. ASSUME NEW type \in TypeOptions, TraceRetype(type), ~exited PROVE FileInv'
  BY <1>2, <1>3 DEF TraceRetype, TypeOptions
<1>4. ASSUME NEW type \in TypeOptions, TraceNarrow(type), ~exited PROVE FileInv'
  BY <1>2, <1>4 DEF TraceNarrow, FileInv, TypeOK
<1>5. ASSUME OpenFails PROVE FileInv'
  BY <1>5 DEF OpenFails, FileInv, TypeOK, StreamOK, FileIsPrefix, HeaderCounts, SessionInv
<1>6. CASE UNCHANGED vars
  BY <1>1, <1>6 DEF vars
<1>7. CASE Next
  BY <1>3, <1>4, <1>5, <1>7, OpenKeepsInv, CloseKeepsInv, OutputKeepsInv, OutputFullKeepsInv,
     ShortKeepsInv, HeaderShortKeepsInv DEF Next
<1> QED BY <1>6, <1>7

(* The inductive invariant of the single-buffered back end: in particular
   what was output and is not in the file is, in order, in the buffer.      *)
THEOREM FileInvariant == Spec => []FileInv
  BY InitFileInv, NextKeepsInv, PTL DEF Spec

(* The buffer of qem_trace_file.c is not filled beyond its end.             *)
THEOREM Typing == Spec => []TypeOK
<1>1. FileInv => TypeOK
  BY DEF FileInv
<1> QED BY <1>1, FileInvariant, PTL

(* At any time, also when a failed call of the C library ends QEMU, the file
   is a header and the first records of its session.                        *)
THEOREM FileHoldsPrefix == Spec => []FileIsPrefix
<1>1. FileInv => FileIsPrefix
  BY DEF FileInv, StreamOK
<1> QED BY <1>1, FileInvariant, PTL

(* With a header as long as a record, as in the build whose records are 16
   bytes long, the header of a closed file tells the size of the file.      *)
THEOREM HeaderIsRight ==
    ASSUME HEADER_BYTES = RECORD_BYTES
    PROVE  Spec => []HeaderTellsFileSize
<1>1. FileInv => HeaderTellsFileSize
  BY DEF FileInv, HeaderCounts, HeaderTellsFileSize
<1> QED BY <1>1, FileInvariant, PTL

(* ---------------------- the refinement of TraceLog ---------------------- *)

(* What was output and is not in the file is in the buffer.                 *)
LEMMA UnwrittenIsMissing == FileInv => Unwritten = Missing
<1> SUFFICES ASSUME FileInv, ~exited PROVE Unwritten = Missing
  BY DEF Unwritten
<1> DEFINE n == qem_trace_buffer_size
           u == [i \in 1..n |-> qem_trace_buffer[i]]
           p == SubSeq(logged, Written + 1, Len(logged))
<1>1. /\ n \in Nat /\ Written \in Nat /\ Written + n = Len(logged)
      /\ logged \in Seq(Record)
  BY FilledSlots DEF FileInv, TypeOK
<1>2. Missing = p /\ Unwritten = u
  BY <1>1, StoredIsPrefix DEF FileInv, Unwritten
<1>3. /\ p \in Seq(Record) /\ Len(p) = n
      /\ \A i \in 1..n : p[i] = logged[Written + i]
  <2>1. \A i \in (Written + 1)..Len(logged) : logged[i] \in Record
    BY <1>1
  <2> QED BY <1>1, <2>1, SubSeqProperties
<1>4. \A i \in 1..n : u[i] = logged[Written + i]
  BY DEF FileInv, SessionInv, Holds
<1>5. \A i \in 1..n : p[i] \in Record
  <2> HIDE DEF n, p
  <2> QED BY <1>3
<1>6. u \in [1..n -> Record]
  BY <1>3, <1>4, <1>5
<1> HIDE DEF n, u, p
<1>7. u \in Seq(Record) /\ Len(u) = n
  BY <1>1, <1>6, FunctionIsSeq
<1> QED BY <1>2, <1>3, <1>4, <1>7, SeqEqual

(* The same after a step.                                                   *)
LEMMA UnwrittenIsMissingNext == FileInv' => (Unwritten = Missing)'
  BY UnwrittenIsMissing, PTL

(* Every step of the back end is a step of the log or leaves it unchanged.  *)
LEMMA NextImplementsLog ==
    FileInv /\ FileInv' /\ [Next]_vars => [TL!NextLog]_(TL!logVars)
<1> SUFFICES ASSUME FileInv, FileInv', [Next]_vars PROVE [TL!NextLog]_(TL!logVars)
  OBVIOUS
<1> USE DEF TL!NextLog, TL!logVars
<1>1. /\ StreamOK /\ StreamOK' /\ logged \in Seq(Record) /\ Written \in Nat
      /\ Unwritten = Missing /\ Unwritten' = Missing'
  BY UnwrittenIsMissing, UnwrittenIsMissingNext, StoredIsPrefix DEF FileInv, TypeOK
<1>2. ASSUME UNCHANGED <<logged, file_open>>, Written' = Written
      PROVE  UNCHANGED TL!logVars
  BY <1>1, <1>2, StoreStays
<1>3. ASSUME UNCHANGED <<logged, file_open>>, file_open, Written < Written'
      PROVE  TL!Store
  BY <1>1, <1>3, StoreMoves DEF TL!Store, TL!Oldest, TL!Newest
<1>4. ASSUME UNCHANGED file_open, file_open, NEW r \in Record, logged' = Append(logged, r),
             Written <= Written', Written' <= Len(logged)
      PROVE  TL!Log(r)
  BY <1>1, <1>4, LogMoves DEF TL!Log, TL!Oldest, TL!Newest
<1>5. ASSUME ~exited, ~file_open, file_open', logged' = <<>>, Written' = 0
      PROVE  TL!OpenLog
  <2>1. Written = Len(logged)
    BY <1>1, <1>5 DEF FileInv, SessionInv
  <2>2. Missing = <<>>
    BY <1>1, <2>1, NothingMissing
  <2>3. Stored' = <<>> /\ Missing' = <<>>
    BY <1>1, <1>5, OpenMoves
  <2>4. file_open' = TRUE
    BY <1>5 DEF FileInv, TypeOK
  <2> QED BY <1>1, <1>5, <2>2, <2>3, <2>4 DEF TL!OpenLog
<1>6. CASE UNCHANGED vars
  BY <1>2, <1>6 DEF vars, Written
<1>7. ASSUME NEW type \in TypeOptions, TraceRetype(type) \/ TraceNarrow(type)
      PROVE  UNCHANGED TL!logVars
  BY <1>2, <1>7 DEF TraceRetype, TraceNarrow, Written
<1>8. ASSUME OpenFails PROVE UNCHANGED TL!logVars
  BY <1>2, <1>8 DEF OpenFails, Written
<1>9. ASSUME ~exited, NEW type \in TypeOptions, TraceOpen(type) PROVE TL!OpenLog
  <2>1. Written' = 0
    BY <1>9 DEF TraceOpen, Written
  <2>2. ~file_open /\ file_open' /\ logged' = <<>>
    BY <1>9 DEF TraceOpen, FileInv, SessionInv
  <2> QED BY <1>5, <1>9, <2>1, <2>2
<1>10. ASSUME ~exited, NEW type \in TypeOptions, TraceClose(type) PROVE TL!CloseLog
  <2>1. Written' = Len(logged) /\ UNCHANGED logged
    BY <1>10, CloseKeepsInv DEF TraceClose
  <2>2. file_open /\ file_open' = FALSE
    BY <1>10 DEF TraceClose, FileInv, SessionInv
  <2> QED BY <1>1, <2>1, <2>2, CloseMoves DEF TL!CloseLog
<1>11. ASSUME ~exited, NEW r \in Record, TraceOutput(r) PROVE TL!Log(r)
  <2>1. Written' = Written /\ UNCHANGED file_open /\ file_open /\ logged' = Append(logged, r)
    BY <1>11 DEF TraceOutput, Written, FileInv, SessionInv
  <2>2. Written <= Written' /\ Written' <= Len(logged)
    BY <1>1, <2>1, StoredIsPrefix
  <2> QED BY <1>4, <2>1, <2>2
<1>12. ASSUME ~exited, NEW r \in Record, TraceOutputFull(r) PROVE TL!Log(r)
  <2>1. Written' = Len(logged)
    BY <1>12, OutputFullKeepsInv
  <2>2. UNCHANGED file_open /\ file_open /\ logged' = Append(logged, r)
    BY <1>12 DEF TraceOutputFull, FileInv, SessionInv
  <2>3. Written <= Written' /\ Written' <= Len(logged)
    BY <1>1, <2>1, StoredIsPrefix
  <2> QED BY <1>4, <2>2, <2>3
<1>13. ASSUME ~exited, UNCHANGED <<logged, file_open>>, file_open,
              Written <= Written', Written' \in Nat
       PROVE  [TL!NextLog]_(TL!logVars)
  <2>1. Written < Written' \/ Written' = Written
    BY <1>1, <1>13
  <2> QED BY <1>2, <1>3, <1>13, <2>1
<1>14. ASSUME ~exited, ShortWrite PROVE [TL!NextLog]_(TL!logVars)
  <2>1. Written <= Written' /\ Written' \in Nat
    BY <1>14, ShortKeepsInv
  <2>2. UNCHANGED <<logged, file_open>> /\ file_open
    BY <1>14 DEF ShortWrite, FileInv, SessionInv
  <2> QED BY <1>13, <1>14, <2>1, <2>2
<1>15. ASSUME ~exited, HeaderShort PROVE [TL!NextLog]_(TL!logVars)
  <2>1. CASE qem_tracing_state = {}
    <3>1. Written' = 0
      BY <1>15, <2>1 DEF HeaderShort, Fopen, Written
    <3>2. ~file_open /\ file_open' /\ logged' = <<>>
      BY <1>15, <2>1 DEF HeaderShort, Fopen, FileInv, SessionInv
    <3> QED BY <1>5, <1>15, <3>1, <3>2
  <2>2. CASE qem_tracing_state # {}
    <3>1. Written' = Len(logged)
      BY <1>15, <2>2, HeaderShortKeepsInv
    <3>2. Written <= Written' /\ Written' \in Nat
      BY <1>1, <3>1, StoredIsPrefix
    <3>3. UNCHANGED <<logged, file_open>> /\ file_open
      BY <1>15, <2>2 DEF HeaderShort, FileInv, SessionInv
    <3> QED BY <1>13, <1>15, <3>2, <3>3
  <2> QED BY <2>1, <2>2
<1>16. CASE Next
  BY <1>7, <1>8, <1>9, <1>10, <1>11, <1>12, <1>14, <1>15, <1>16 DEF Next
<1> QED BY <1>6, <1>16

(* Initially the log is closed and empty.                                   *)
LEMMA InitImplementsLog == Init => TL!InitLog
<1> SUFFICES ASSUME Init PROVE TL!InitLog
  OBVIOUS
<1>1. /\ StreamOK /\ logged \in Seq(Record) /\ Written = 0 /\ Len(logged) = 0 /\ ~exited
      /\ FileInv
  BY InitFileInv DEF FileInv, TypeOK, Init, InitStream, Written
<1>2. Missing = <<>>
  BY <1>1, NothingMissing
<1>3. Stored = SubSeq(logged, 1, 0)
  BY <1>1, StoredIsPrefix
<1>4. Stored = <<>>
  BY <1>1, <1>3, SubSeqEmpty
<1>5. file_open = FALSE
  BY DEF Init, InitStream
<1> QED BY <1>1, <1>2, <1>4, <1>5, UnwrittenIsMissing DEF TL!InitLog

(* The single-buffered back end implements the log: no record of a session is
   lost, repeated or stored out of order, and the file is complete when the
   session is closed.                                                       *)
THEOREM FileImplementsLog == Spec => ImplementsTraceLog
<1>1. Spec => []FileInv
  BY FileInvariant
<1> QED BY <1>1, InitImplementsLog, NextImplementsLog, PTL
        DEF Spec, ImplementsTraceLog, TL!LogSpec
=============================================================================
