------------------------- MODULE TraceFileMTProofs -------------------------
(***************************************************************************)
(* The double-buffered file back end for every buffer size, every size of  *)
(* a record and of the header, and any number of records and sessions.     *)
(***************************************************************************)
EXTENDS TraceFileMT, TraceStreamProofs

(* The two buffers.                                                         *)
LEMMA BufferFacts ==
    ASSUME TypeOK
    PROVE  /\ Cur \in Buffers /\ Other \in Buffers /\ Other # Cur
           /\ \A b \in Buffers : b = Cur \/ b = Other
           /\ \A b \in Buffers : /\ qem_trace_buffer_sizes[b] \in 0..BUFFER_SIZE
                                 /\ qem_trace_buffer_sizes[b] \in Nat
                                 /\ qem_trace_buffer[b] \in [Entries -> Record \cup {NoRecord}]
<1>1. /\ Cur \in Buffers /\ Other \in Buffers /\ Other # Cur
      /\ \A b \in Buffers : b = Cur \/ b = Other
  BY DEF TypeOK, Buffers, Cur, Other
<1>2. ASSUME NEW b \in Buffers
      PROVE  /\ qem_trace_buffer_sizes[b] \in 0..BUFFER_SIZE
             /\ qem_trace_buffer_sizes[b] \in Nat
             /\ qem_trace_buffer[b] \in [Entries -> Record \cup {NoRecord}]
  BY BufferAssumption DEF TypeOK
<1> QED BY <1>1, <1>2

(* While QEMU runs, at most the other buffer has a writer.                  *)
LEMMA WriterIsAtOther == TypeOK /\ SemInv => NoBufferRace
<1> SUFFICES ASSUME TypeOK, SemInv PROVE NoBufferRace
  OBVIOUS
<1>1. ASSUME NEW b \in Buffers, flush_pc[b] # "none"
      PROVE  b # Cur /\ \A c \in Buffers \ {b} : flush_pc[c] = "none"
  BY <1>1, BufferFacts DEF SemInv
<1> QED BY <1>1 DEF NoBufferRace

(* The same after a step.                                                   *)
LEMMA WriterIsAtOtherNext == TypeOK' /\ SemInv' => NoBufferRace'
  BY WriterIsAtOther, PTL

(* The initial states.                                                      *)
LEMMA InitFileInv == Init => FileInv
<1> SUFFICES ASSUME Init PROVE FileInv
  OBVIOUS
<1> USE DEF Init, InitStream
<1>1. TypeOK
  <2>1. logged \in Seq(Record) /\ Len(file) = 0 /\ file_pos \in 0..Len(file)
    OBVIOUS
  <2>2. /\ qem_trace_buffer \in [Buffers -> [Entries -> Record \cup {NoRecord}]]
        /\ flush_pc \in [Buffers -> {"none", "write", "account", "post"}]
    OBVIOUS
  <2>3. /\ qem_trace_buffer_sizes \in [Buffers -> 0..BUFFER_SIZE]
        /\ qem_trace_current_buffer \in Buffers
        /\ qem_file_size \in Nat /\ qem_trace_buffer_sync \in Nat
    BY BufferAssumption DEF Buffers
  <2>4. file_open \in BOOLEAN /\ exited \in BOOLEAN /\ qem_tracing_state \subseteq TraceTypes
    OBVIOUS
  <2>5. cpu_pc \in CpuPCs /\ CpuArgOK
    BY DEF CpuPCs, CpuArgOK
  <2> QED BY <2>1, <2>2, <2>3, <2>4, <2>5 DEF TypeOK
<1>2. StreamOK /\ HeaderCounts
  BY DEF StreamOK, FileIsPrefix, HeaderCounts
<1>3. Cur \in Buffers /\ Other \in Buffers
  BY <1>1, BufferFacts
<1>4. flush_pc[Cur] = "none" /\ flush_pc[Other] = "none"
  BY <1>3
<1>5. qem_trace_buffer_sizes[Cur] = 0 /\ qem_trace_buffer_sizes[Other] = 0
  BY <1>3
<1>6. Phase /\ SemInv /\ SizesInv /\ PositionInv
  BY <1>4, <1>5 DEF Phase, SemInv, SizesInv, PositionInv
<1>7. OrderInv /\ CountInv
  <2>1. Written = 0 /\ Writing = 0 /\ Held = 0
    BY <1>4 DEF Written, Writing, Held
  <2>2. Len(logged) = 0
    OBVIOUS
  <2> QED BY <1>5, <2>1, <2>2 DEF OrderInv, CountInv, Holds
<1> QED BY <1>1, <1>2, <1>6, <1>7, WriterIsAtOther DEF FileInv, RunningInv

(* ------------------- what an action must establish ---------------------- *)

(* The order of the records after a step, from the parts.                   *)
LEMMA OrderNext ==
    ASSUME NEW w, w = Written', NEW x, x = Writing', NEW h, h = Held',
           NEW n, n = qem_trace_buffer_sizes'[Cur'],
           Len(logged') = w + x + n + h,
           \A i \in 1..x : qem_trace_buffer'[Other'][i] = logged'[w + i],
           \A i \in 1..n : qem_trace_buffer'[Cur'][i] = logged'[w + x + i],
           h = 1 => cpu_arg' = logged'[Len(logged')]
    PROVE  OrderInv'
  BY DEF OrderInv, Holds

(* The parts before a step.                                                 *)
OrderedAs(w, x, n, h) ==
    /\ w = Written /\ x = Writing /\ n = qem_trace_buffer_sizes[Cur] /\ h = Held
    /\ Len(logged) = w + x + n + h
    /\ \A i \in 1..x : qem_trace_buffer[Other][i] = logged[w + i]
    /\ \A i \in 1..n : qem_trace_buffer[Cur][i] = logged[w + x + i]
    /\ h = 1 => cpu_arg = logged[Len(logged)]

LEMMA OrderNow ==
    ASSUME FileInv, ~exited
    PROVE  \E w, x, n, h \in Nat : OrderedAs(w, x, n, h)
<1>1. Written \in Nat /\ Writing \in Nat /\ Held \in Nat /\ qem_trace_buffer_sizes[Cur] \in Nat
  BY StoredIsPrefix, BufferFacts DEF FileInv, TypeOK, Writing, Held
<1>2. OrderedAs(Written, Writing, qem_trace_buffer_sizes[Cur], Held)
  BY DEF FileInv, RunningInv, OrderInv, Holds, OrderedAs
<1> QED BY ONLY <1>1, <1>2

(* A step that leaves the buffers, the log and the file alone, and the record
   an output holds.                                                         *)
LEMMA OrderStays ==
    ASSUME OrderInv, UNCHANGED <<file, logged, bufVars, qem_trace_current_buffer>>,
           Writing' = Writing, Held' = Held, Held = 1 => cpu_arg' = cpu_arg
    PROVE  OrderInv'
<1>1. /\ Written' = Written /\ Cur' = Cur /\ Other' = Other
      /\ UNCHANGED <<logged, qem_trace_buffer_sizes, qem_trace_buffer>>
  BY DEF Written, Cur, Other, bufVars
<1> QED BY <1>1 DEF OrderInv, Holds

(* ---------------- the steps of the guest's operations ------------------- *)

(* The type of the trace is replaced.                                       *)
LEMMA RetypeKeepsInv ==
    ASSUME FileInv, ~exited, NEW type \in TypeOptions, TraceRetype(type)
    PROVE  FileInv'
<1>1. /\ cpu_pc = "idle" /\ qem_tracing_state # {} /\ qem_tracing_state' = type
      /\ type # {} /\ type \subseteq TraceTypes
      /\ UNCHANGED <<cpu_pc, cpu_arg, qem_trace_current_buffer, qem_trace_buffer_sizes,
                     qem_trace_buffer, file, file_pos, file_open, qem_file_size,
                     qem_trace_buffer_sync, flush_pc, exited, logged>>
  BY DEF TraceRetype, TypeOptions, bufVars, fileVars
<1>2. Cur' = Cur /\ Other' = Other /\ Writing' = Writing /\ Held' = Held
      /\ Written' = Written /\ Uncounted' = Uncounted
  BY <1>1 DEF Cur, Other, Writing, Held, Written, Uncounted
<1>3. StreamOK' /\ HeaderCounts'
  BY <1>1, StreamStays DEF FileInv, HeaderCounts
<1>4. TypeOK'
  BY <1>1 DEF FileInv, TypeOK, CpuArgOK
<1>5. Phase' /\ SemInv' /\ SizesInv' /\ PositionInv'
  BY <1>1, <1>2 DEF FileInv, RunningInv, Phase, SemInv, SizesInv, PositionInv
<1>6. OrderInv' /\ CountInv'
  BY <1>1, <1>2, OrderStays DEF FileInv, RunningInv, CountInv, bufVars
<1> QED BY <1>3, <1>4, <1>5, <1>6, WriterIsAtOtherNext DEF FileInv, RunningInv

(* A new session: nothing of the one before is under way.                   *)
LEMMA OpenKeepsInv ==
    ASSUME FileInv, ~exited, NEW type \in TypeOptions, TraceOpen(type)
    PROVE  FileInv'
<1>1. /\ cpu_pc = "idle" /\ qem_tracing_state = {} /\ cpu_pc' = "open_header" /\ cpu_arg' = type
      /\ file' = <<>> /\ file_pos' = 0 /\ file_open' = TRUE /\ logged' = <<>>
      /\ qem_trace_buffer_sync' = 1
      /\ UNCHANGED <<qem_tracing_state, qem_trace_current_buffer, qem_trace_buffer_sizes,
                     qem_trace_buffer, qem_file_size, flush_pc, exited>>
  BY DEF TraceOpen, Fopen, bufVars
<1>2. /\ Cur' = Cur /\ Other' = Other /\ ~file_open
      /\ flush_pc[Cur] = "none" /\ flush_pc[Other] = "none"
      /\ qem_trace_buffer_sizes[Cur] = 0 /\ qem_trace_buffer_sizes[Other] = 0
  BY <1>1 DEF Cur, Other, FileInv, RunningInv, Phase, SemInv, SizesInv
<1>3. StreamOK' /\ HeaderCounts'
  BY <1>1 DEF StreamOK, FileIsPrefix, HeaderCounts
<1>4. TypeOK'
  <2>1. file_pos' \in 0..Len(file') /\ qem_trace_buffer_sync' \in Nat /\ logged' \in Seq(Record)
    BY <1>1
  <2>2. cpu_pc' \in CpuPCs /\ CpuArgOK' /\ file_open' \in BOOLEAN
    BY <1>1 DEF CpuPCs, CpuArgOK
  <2> QED BY <1>1, <2>1, <2>2 DEF FileInv, TypeOK
<1>5. Phase' /\ SemInv' /\ SizesInv' /\ PositionInv'
  BY <1>1, <1>2 DEF Phase, SemInv, SizesInv, PositionInv
<1>6. OrderInv'
  <2>1. 0 = Written' /\ 0 = Writing' /\ 0 = Held' /\ 0 = qem_trace_buffer_sizes'[Cur']
    BY <1>1, <1>2 DEF Written, Writing, Held
  <2>2. Len(logged') = 0 + 0 + 0 + 0
    BY <1>1
  <2> QED BY <2>1, <2>2, OrderNext
<1>7. CountInv'
  BY <1>1 DEF CountInv
<1> QED BY <1>3, <1>4, <1>5, <1>6, <1>7, WriterIsAtOtherNext DEF FileInv, RunningInv

(* A type is switched off; without one the session comes to its end.        *)
LEMMA DisableKeepsInv ==
    ASSUME FileInv, ~exited, NEW type \in TypeOptions, TraceDisable(type)
    PROVE  FileInv'
<1>1. /\ cpu_pc = "idle" /\ qem_tracing_state # {}
      /\ qem_tracing_state' \subseteq qem_tracing_state
      /\ \/ cpu_pc' = "close_flush" /\ qem_tracing_state' = {}
         \/ cpu_pc' = "idle" /\ qem_tracing_state' # {}
      /\ UNCHANGED <<cpu_arg, qem_trace_current_buffer, qem_trace_buffer_sizes,
                     qem_trace_buffer, file, file_pos, file_open, qem_file_size,
                     qem_trace_buffer_sync, flush_pc, exited, logged>>
  BY DEF TraceDisable, bufVars, fileVars
<1>2. Cur' = Cur /\ Other' = Other /\ Writing' = Writing /\ Held' = Held
      /\ Written' = Written /\ Uncounted' = Uncounted
  BY <1>1 DEF Cur, Other, Writing, Held, Written, Uncounted
<1>3. StreamOK' /\ HeaderCounts'
  BY <1>1, StreamStays DEF FileInv, HeaderCounts
<1>4. TypeOK'
  BY <1>1 DEF FileInv, TypeOK, CpuPCs, CpuArgOK
<1>5. Phase' /\ SemInv' /\ SizesInv' /\ PositionInv'
  BY <1>1, <1>2 DEF FileInv, RunningInv, Phase, SemInv, SizesInv, PositionInv
<1>6. OrderInv' /\ CountInv'
  BY <1>1, <1>2, OrderStays DEF FileInv, RunningInv, CountInv, bufVars
<1> QED BY <1>3, <1>4, <1>5, <1>6, WriterIsAtOtherNext DEF FileInv, RunningInv

(* A record is taken; the virtual CPU holds it.                             *)
LEMMA OutputKeepsInv ==
    ASSUME FileInv, ~exited, NEW r \in Record, TraceOutput(r)
    PROVE  FileInv'
<1>1. /\ cpu_pc = "idle" /\ qem_tracing_state # {} /\ cpu_arg' = r
      /\ logged' = Append(logged, r)
      /\ \/ cpu_pc' = "swap" /\ qem_trace_buffer_sizes[Cur] = BUFFER_SIZE
         \/ cpu_pc' = "append" /\ qem_trace_buffer_sizes[Cur] # BUFFER_SIZE
      /\ UNCHANGED <<qem_tracing_state, qem_trace_current_buffer, qem_trace_buffer_sizes,
                     qem_trace_buffer, file, file_pos, file_open, qem_file_size,
                     qem_trace_buffer_sync, flush_pc, exited>>
  BY DEF TraceOutput, bufVars, fileVars
<1>2. Cur' = Cur /\ Other' = Other /\ Writing' = Writing /\ Held = 0 /\ Held' = 1
      /\ Uncounted' = Uncounted
  BY <1>1 DEF Cur, Other, Writing, Held, Uncounted
<1>3. /\ StreamOK' /\ Written' = Written
      /\ logged' \in Seq(Record) /\ Len(logged') = Len(logged) + 1
      /\ \A i \in 1..Len(logged) : logged'[i] = logged[i]
      /\ logged'[Len(logged) + 1] = r
  BY <1>1, StreamGrows DEF FileInv, TypeOK
<1>4. file_open
  BY <1>1 DEF FileInv, RunningInv, Phase
<1>5. HeaderCounts'
  BY <1>1, <1>4 DEF HeaderCounts
<1>6. TypeOK'
  BY <1>1, <1>3 DEF FileInv, TypeOK, CpuPCs, CpuArgOK
<1>7. qem_trace_buffer_sizes[Cur] # BUFFER_SIZE => qem_trace_buffer_sizes[Cur] < BUFFER_SIZE
  BY BufferFacts, BufferAssumption DEF FileInv
<1>8. Phase' /\ SemInv' /\ SizesInv' /\ PositionInv'
  BY <1>1, <1>2, <1>7 DEF FileInv, RunningInv, Phase, SemInv, SizesInv, PositionInv
<1>9. OrderInv'
  <2>0. PICK w, x, n, h \in Nat : OrderedAs(w, x, n, h)
    BY OrderNow
  <2>1. /\ w = Written /\ x = Writing /\ n = qem_trace_buffer_sizes[Cur] /\ h = Held
        /\ Len(logged) = w + x + n + h
        /\ \A i \in 1..x : qem_trace_buffer[Other][i] = logged[w + i]
        /\ \A i \in 1..n : qem_trace_buffer[Cur][i] = logged[w + x + i]
    BY ONLY <2>0 DEF OrderedAs
  <2>2. w = Written' /\ x = Writing' /\ 1 = Held' /\ n = qem_trace_buffer_sizes'[Cur']
    BY <1>1, <1>2, <1>3, <2>1
  <2>3. Len(logged') = w + x + n + 1 /\ Len(logged) = w + x + n
    BY <1>2, <1>3, <2>1
  <2>4. \A i \in 1..x : qem_trace_buffer'[Other'][i] = logged'[w + i]
    <3>1. \A i \in 1..x : w + i \in 1..Len(logged)
      BY ONLY <2>3, w \in Nat, x \in Nat, n \in Nat
    <3> QED BY <1>1, <1>2, <1>3, <2>1, <3>1
  <2>5. \A i \in 1..n : qem_trace_buffer'[Cur'][i] = logged'[w + x + i]
    <3>1. \A i \in 1..n : w + x + i \in 1..Len(logged)
      BY ONLY <2>3, w \in Nat, x \in Nat, n \in Nat
    <3> QED BY <1>1, <1>2, <1>3, <2>1, <3>1
  <2>6. cpu_arg' = logged'[Len(logged')]
    BY <1>1, <1>3
  <2> QED BY ONLY <2>2, <2>3, <2>4, <2>5, <2>6 DEF OrderInv, Holds
<1>10. CountInv'
  BY <1>1, <1>2, <1>3, <1>4 DEF FileInv, RunningInv, CountInv
<1> QED BY <1>3, <1>5, <1>6, <1>8, <1>9, <1>10, WriterIsAtOtherNext DEF FileInv, RunningInv

(* The buffers change their places: the full one becomes the writer's.      *)
LEMMA SwapKeepsInv ==
    ASSUME FileInv, ~exited, Swap
    PROVE  FileInv'
<1>1. /\ cpu_pc = "swap" /\ cpu_pc' = "append" /\ qem_trace_buffer_sync > 0
      /\ qem_trace_buffer_sync' = qem_trace_buffer_sync - 1
      /\ flush_pc' = [flush_pc EXCEPT ![Cur] = "write"]
      /\ qem_trace_current_buffer' = (qem_trace_current_buffer + 1) % 2
      /\ UNCHANGED <<qem_tracing_state, cpu_arg, qem_trace_buffer_sizes, qem_trace_buffer,
                     file, file_pos, file_open, qem_file_size, exited, logged>>
  BY DEF Swap, bufVars, fileVars
<1>2. PICK c \in Buffers, o \in Buffers : c = Cur /\ o = Other /\ o # c
  BY BufferFacts DEF FileInv
<1>3. Cur' = o /\ Other' = c
  <2>1. qem_trace_current_buffer \in {0, 1}
    BY DEF FileInv, TypeOK, Buffers
  <2> QED BY <1>1, <1>2, <2>1 DEF Cur, Other
<1>4. /\ file_open /\ qem_tracing_state # {}
      /\ flush_pc[o] = "none" /\ qem_trace_buffer_sync = 1
      /\ qem_trace_buffer_sizes[c] = BUFFER_SIZE /\ qem_trace_buffer_sizes[o] = 0
  BY <1>1, <1>2 DEF FileInv, RunningInv, Phase, SemInv, SizesInv
<1>5. flush_pc'[c] = "write" /\ flush_pc'[o] = "none"
  BY <1>1, <1>2, <1>4 DEF FileInv, TypeOK
<1>6. StreamOK' /\ HeaderCounts' /\ Written' = Written
  BY <1>1, StreamStays DEF FileInv, HeaderCounts
<1>7. TypeOK'
  <2>1. flush_pc' \in [Buffers -> {"none", "write", "account", "post"}]
    BY <1>1, <1>2 DEF FileInv, TypeOK
  <2>2. qem_trace_current_buffer' \in Buffers
    BY <1>2, <1>3 DEF Cur
  <2>3. qem_trace_buffer_sync' \in Nat
    BY <1>1, <1>4
  <2> QED BY <1>1, <2>1, <2>2, <2>3 DEF FileInv, TypeOK, CpuPCs, CpuArgOK
<1>8. Phase' /\ PositionInv'
  BY <1>1 DEF FileInv, RunningInv, Phase, PositionInv
<1>9. SemInv'
  BY <1>1, <1>3, <1>4, <1>5 DEF SemInv
<1>10. SizesInv'
  <2>1. 0 < BUFFER_SIZE
    BY BufferAssumption
  <2> QED BY <1>1, <1>3, <1>4, <1>5, <2>1 DEF SizesInv
<1>11. OrderInv'
  <2>0. PICK w, x, n, h \in Nat : OrderedAs(w, x, n, h)
    BY OrderNow
  <2>1. /\ w = Written /\ x = Writing /\ n = qem_trace_buffer_sizes[Cur] /\ h = Held
        /\ Len(logged) = w + x + n + h
        /\ \A i \in 1..n : qem_trace_buffer[Cur][i] = logged[w + x + i]
        /\ h = 1 => cpu_arg = logged[Len(logged)]
    BY ONLY <2>0 DEF OrderedAs
  <2>2. x = 0 /\ h = 1
    BY <1>1, <1>2, <1>4, <2>1 DEF Writing, Held
  <2>3. w = Written' /\ n = Writing' /\ 1 = Held' /\ 0 = qem_trace_buffer_sizes'[Cur']
    BY <1>1, <1>2, <1>3, <1>4, <1>5, <1>6, <2>1 DEF Writing, Held
  <2>4. Len(logged') = w + n + 0 + 1
    BY <1>1, <2>1, <2>2
  <2>5. \A i \in 1..n : qem_trace_buffer'[Other'][i] = logged'[w + i]
    <3>1. \A i \in 1..n : qem_trace_buffer[Cur][i] = logged[w + i]
      <4>1. ASSUME NEW i \in 1..n PROVE w + x + i = w + i
        BY <2>2
      <4> QED BY <2>1, <4>1
    <3>2. qem_trace_buffer'[Other'] = qem_trace_buffer[Cur] /\ logged' = logged
      BY <1>1, <1>2, <1>3
    <3> QED BY ONLY <3>1, <3>2
  <2>6. cpu_arg' = logged'[Len(logged')]
    BY <1>1, <2>1, <2>2
  <2> QED BY ONLY <2>3, <2>4, <2>5, <2>6 DEF OrderInv, Holds
<1>12. CountInv'
  <2>1. Uncounted' = Uncounted
    BY <1>2, <1>3, <1>4, <1>5 DEF Uncounted
  <2> QED BY <1>1, <1>6, <2>1 DEF FileInv, RunningInv, CountInv
<1> QED BY <1>6, <1>7, <1>8, <1>9, <1>10, <1>11, <1>12, WriterIsAtOtherNext
        DEF FileInv, RunningInv

(* The record goes into the current buffer.                                 *)
LEMMA AddKeepsInv ==
    ASSUME FileInv, ~exited, Add
    PROVE  FileInv'
<1> DEFINE n == qem_trace_buffer_sizes[Cur]
<1>1. /\ cpu_pc = "append" /\ cpu_pc' = "idle"
      /\ qem_trace_buffer' = [qem_trace_buffer EXCEPT ![Cur][n + 1] = cpu_arg]
      /\ qem_trace_buffer_sizes' = [qem_trace_buffer_sizes EXCEPT ![Cur] = n + 1]
      /\ UNCHANGED <<qem_tracing_state, qem_trace_current_buffer, file, file_pos, file_open,
                     qem_file_size, qem_trace_buffer_sync, flush_pc, exited, logged>>
  BY DEF Add, fileVars
<1>2. PICK c \in Buffers, o \in Buffers : c = Cur /\ o = Other /\ o # c
  BY BufferFacts DEF FileInv
<1>3. Cur' = c /\ Other' = o
  BY <1>1, <1>2 DEF Cur, Other
<1>4. /\ file_open /\ qem_tracing_state # {} /\ cpu_arg \in Record
      /\ n \in Nat /\ n < BUFFER_SIZE /\ BUFFER_SIZE \in Nat
  BY <1>1, BufferFacts, BufferAssumption
     DEF FileInv, RunningInv, Phase, SizesInv, TypeOK, CpuArgOK
<1>5. n + 1 \in Entries /\ n + 1 \in 0..BUFFER_SIZE
  BY <1>4 DEF Entries
<1> HIDE DEF n
<1>6. /\ qem_trace_buffer_sizes' \in [Buffers -> 0..BUFFER_SIZE]
      /\ qem_trace_buffer_sizes'[c] = n + 1
      /\ qem_trace_buffer_sizes'[o] = qem_trace_buffer_sizes[o]
  BY <1>1, <1>2, <1>5 DEF FileInv, TypeOK
<1>7. /\ qem_trace_buffer' \in [Buffers -> [Entries -> Record \cup {NoRecord}]]
      /\ qem_trace_buffer'[c][n + 1] = cpu_arg
      /\ \A i \in 1..n : qem_trace_buffer'[c][i] = qem_trace_buffer[c][i]
      /\ qem_trace_buffer'[o] = qem_trace_buffer[o]
  <2>1. /\ qem_trace_buffer \in [Buffers -> [Entries -> Record \cup {NoRecord}]]
        /\ qem_trace_buffer' =
              [qem_trace_buffer EXCEPT ![c] = [qem_trace_buffer[c] EXCEPT ![n + 1] = cpu_arg]]
    BY <1>1, <1>2 DEF FileInv, TypeOK
  <2>2. [qem_trace_buffer[c] EXCEPT ![n + 1] = cpu_arg] \in [Entries -> Record \cup {NoRecord}]
    BY <1>4, <1>5, <2>1
  <2>3. /\ qem_trace_buffer' \in [Buffers -> [Entries -> Record \cup {NoRecord}]]
        /\ qem_trace_buffer'[c] = [qem_trace_buffer[c] EXCEPT ![n + 1] = cpu_arg]
        /\ qem_trace_buffer'[o] = qem_trace_buffer[o]
    BY <1>2, <2>1, <2>2
  <2>4. qem_trace_buffer[c] \in [Entries -> Record \cup {NoRecord}]
    BY <2>1
  <2>5. \A i \in 1..n : i \in Entries /\ i # n + 1
    BY <1>4 DEF Entries
  <2> QED BY <1>5, <2>3, <2>4, <2>5
<1>8. StreamOK' /\ HeaderCounts' /\ Written' = Written
  BY <1>1, StreamStays DEF FileInv, HeaderCounts
<1>9. TypeOK'
  BY <1>1, <1>6, <1>7 DEF FileInv, TypeOK, CpuPCs, CpuArgOK
<1>10. Phase' /\ SemInv' /\ PositionInv'
  BY <1>1, <1>2, <1>3, <1>4 DEF FileInv, RunningInv, Phase, SemInv, PositionInv
<1>11. SizesInv'
  BY <1>1, <1>2, <1>3, <1>4, <1>6 DEF FileInv, RunningInv, SizesInv
<1>12. OrderInv'
  <2>0. PICK w, x, m, h \in Nat : OrderedAs(w, x, m, h)
    BY OrderNow
  <2>1. /\ w = Written /\ x = Writing /\ m = qem_trace_buffer_sizes[Cur] /\ h = Held
        /\ Len(logged) = w + x + m + h
        /\ \A i \in 1..x : qem_trace_buffer[Other][i] = logged[w + i]
        /\ \A i \in 1..m : qem_trace_buffer[Cur][i] = logged[w + x + i]
        /\ h = 1 => cpu_arg = logged[Len(logged)]
    BY ONLY <2>0 DEF OrderedAs
  <2>2. h = 1 /\ m = n
    BY <1>1, <2>1 DEF Held, n
  <2>3. w = Written' /\ x = Writing' /\ 0 = Held' /\ n + 1 = qem_trace_buffer_sizes'[Cur']
    BY <1>1, <1>2, <1>3, <1>6, <1>8, <2>1 DEF Writing, Held
  <2>4. Len(logged') = w + x + (n + 1) + 0
    BY <1>1, <1>4, <2>1, <2>2
  <2>5. \A i \in 1..x : qem_trace_buffer'[Other'][i] = logged'[w + i]
    BY <1>1, <1>2, <1>3, <1>7, <2>1
  <2>6. ASSUME NEW i \in 1..(n + 1) PROVE qem_trace_buffer'[Cur'][i] = logged'[w + x + i]
    <3>1. CASE i = n + 1
      <4>1. w + x + i = Len(logged)
        BY <1>4, <2>1, <2>2, <3>1
      <4> QED BY <1>1, <1>2, <1>3, <1>7, <2>1, <2>2, <3>1, <4>1
    <3>2. CASE i # n + 1
      <4>1. i \in 1..n
        BY <1>4, <3>2
      <4> QED BY <1>1, <1>2, <1>3, <1>7, <2>1, <2>2, <4>1
    <3> QED BY <3>1, <3>2
  <2> QED BY ONLY <2>3, <2>4, <2>5, <2>6 DEF OrderInv, Holds
<1>13. CountInv'
  <2>1. Uncounted' = Uncounted
    BY <1>1, <1>2, <1>3, <1>6 DEF Uncounted
  <2> QED BY <1>1, <1>8, <2>1 DEF FileInv, RunningInv, CountInv
<1> QED BY <1>8, <1>9, <1>10, <1>11, <1>12, <1>13, WriterIsAtOtherNext DEF FileInv, RunningInv

(* ------------------------- the steps that write ------------------------- *)

(* The buffer that is next to be written holds the next records of the log. *)
LEMMA FilledSlots ==
    ASSUME FileInv, ~exited, NEW b \in Buffers,
           \/ b = Cur /\ flush_pc[Other] # "write"
           \/ b = Other /\ flush_pc[Other] = "write"
    PROVE  /\ Written \in Nat /\ qem_trace_buffer_sizes[b] \in Nat
           /\ Written + qem_trace_buffer_sizes[b] <= Len(logged)
           /\ Filled(b) \in [1..qem_trace_buffer_sizes[b] -> Slot]
           /\ \A i \in 1..qem_trace_buffer_sizes[b] :
                 Filled(b)[i] = RecordSlot(logged[Written + i])
<1>0. PICK w, x, m, h \in Nat : OrderedAs(w, x, m, h)
  BY ONLY FileInv, ~exited, OrderNow
<1>1. /\ w = Written /\ x = Writing /\ m = qem_trace_buffer_sizes[Cur] /\ h = Held
      /\ Len(logged) = w + x + m + h
      /\ \A i \in 1..x : qem_trace_buffer[Other][i] = logged[w + i]
      /\ \A i \in 1..m : qem_trace_buffer[Cur][i] = logged[w + x + i]
  BY ONLY <1>0 DEF OrderedAs
<1>2. PICK n \in Nat : n = qem_trace_buffer_sizes[b]
  BY BufferFacts DEF FileInv
<1>3. w + n <= Len(logged) /\ \A i \in 1..n : qem_trace_buffer[b][i] = logged[w + i]
  <2>1. CASE b = Cur /\ flush_pc[Other] # "write"
    <3>1. x = 0 /\ m = n
      BY <1>1, <1>2, <2>1 DEF Writing
    <3>2. w + n <= Len(logged) /\ \A i \in 1..n : w + x + i = w + i
      BY <1>1, <3>1
    <3>3. ASSUME NEW i \in 1..n PROVE qem_trace_buffer[b][i] = logged[w + i]
      BY <1>1, <2>1, <3>1, <3>2
    <3> QED BY <3>2, <3>3
  <2>2. CASE b = Other /\ flush_pc[Other] = "write"
    <3>1. x = n
      BY <1>1, <1>2, <2>2 DEF Writing
    <3>2. w + n <= Len(logged)
      BY <1>1, <3>1
    <3>3. ASSUME NEW i \in 1..n PROVE qem_trace_buffer[b][i] = logged[w + i]
      BY <1>1, <2>2, <3>1
    <3> QED BY <3>2, <3>3
  <2> QED BY <2>1, <2>2
<1>4. ASSUME NEW i \in 1..n
      PROVE  /\ Filled(b)[i] = RecordSlot(logged[w + i])
             /\ RecordSlot(logged[w + i]) \in Slot
  <2>1. w + i \in 1..Len(logged) /\ logged \in Seq(Record)
    BY <1>1, <1>3 DEF FileInv, TypeOK
  <2>2. logged[w + i] \in Record
    BY <2>1
  <2> QED BY <1>2, <1>3, <2>2, SlotType DEF Filled
<1>5. Filled(b) \in [1..n -> Slot]
  BY <1>2, <1>4 DEF Filled
<1> QED BY <1>1, <1>2, <1>3, <1>4, <1>5

(* The first header is written to the new file.                             *)
LEMMA OpenHeaderKeepsInv ==
    ASSUME FileInv, ~exited, OpenHeader
    PROVE  FileInv' /\ Written' = Written
<1>1. /\ cpu_pc = "open_header" /\ cpu_pc' = "idle" /\ Fwrite(<<HeaderSlot(0)>>)
      /\ qem_trace_buffer_sizes' = [qem_trace_buffer_sizes EXCEPT ![Cur] = 0]
      /\ qem_file_size' = RECORD_BYTES /\ qem_tracing_state' = cpu_arg
      /\ UNCHANGED <<qem_trace_current_buffer, qem_trace_buffer, file_open, flush_pc, exited,
                     logged, qem_trace_buffer_sync>>
  BY DEF OpenHeader, SemPass
<1>2. PICK c \in Buffers, o \in Buffers : c = Cur /\ o = Other /\ o # c
  BY BufferFacts DEF FileInv
<1>3. Cur' = c /\ Other' = o
  BY <1>1, <1>2 DEF Cur, Other
<1>4. /\ file_open /\ file = <<>> /\ file_pos = 0
      /\ flush_pc[c] = "none" /\ flush_pc[o] = "none" /\ qem_trace_buffer_sync = 1
      /\ qem_trace_buffer_sizes[c] = 0 /\ qem_trace_buffer_sizes[o] = 0
      /\ cpu_arg \in TypeOptions
  BY <1>1, <1>2 DEF FileInv, RunningInv, Phase, SemInv, SizesInv, PositionInv, TypeOK, CpuArgOK
<1>5. StreamOK' /\ file' # <<>> /\ Len(file') = 1 /\ file_pos' = 1 /\ Written' = 0
  BY <1>1, <1>4, FwriteFirst
<1>6. Written = 0
  BY <1>4 DEF Written
<1>7. HeaderCounts'
  BY <1>1, <1>4 DEF HeaderCounts
<1>8. /\ qem_trace_buffer_sizes' \in [Buffers -> 0..BUFFER_SIZE]
      /\ qem_trace_buffer_sizes'[c] = 0 /\ qem_trace_buffer_sizes'[o] = 0
  BY <1>1, <1>2, <1>4, BufferAssumption DEF FileInv, TypeOK
<1>9. cpu_arg \subseteq TraceTypes /\ cpu_arg # {}
  BY <1>4 DEF TypeOptions
<1>10. TypeOK'
  <2>1. file_pos' \in 0..Len(file') /\ qem_file_size' \in Nat
    BY <1>1, <1>5, BytesAssumption
  <2> QED BY <1>1, <1>8, <1>9, <2>1 DEF FileInv, TypeOK, CpuPCs, CpuArgOK
<1>11. Phase' /\ SemInv' /\ SizesInv' /\ PositionInv'
  BY <1>1, <1>3, <1>4, <1>5, <1>8, <1>9 DEF Phase, SemInv, SizesInv, PositionInv
<1>12. OrderInv'
  <2>0. PICK w, x, n, h \in Nat : OrderedAs(w, x, n, h)
    BY OrderNow
  <2>1. /\ w = Written /\ x = Writing /\ n = qem_trace_buffer_sizes[Cur] /\ h = Held
        /\ Len(logged) = w + x + n + h
    BY ONLY <2>0 DEF OrderedAs
  <2>2. Len(logged') = 0 + 0 + 0 + 0
    BY <1>1, <1>2, <1>4, <1>6, <2>1 DEF Writing, Held
  <2>3. 0 = Written' /\ 0 = Writing' /\ 0 = Held' /\ 0 = qem_trace_buffer_sizes'[Cur']
    BY <1>1, <1>3, <1>4, <1>5, <1>8 DEF Writing, Held
  <2> QED BY <2>2, <2>3, OrderNext
<1>13. CountInv'
  <2>1. Uncounted' = 0
    BY <1>1, <1>3, <1>4 DEF Uncounted
  <2>2. RECORD_BYTES + 0 * RECORD_BYTES = RECORD_BYTES + 0 * RECORD_BYTES
    OBVIOUS
  <2> QED BY <1>1, <1>5, <2>1, <2>2 DEF CountInv
<1> QED BY <1>5, <1>6, <1>7, <1>10, <1>11, <1>12, <1>13, WriterIsAtOtherNext
        DEF FileInv, RunningInv

(* The end of the session: the current buffer is written.                   *)
LEMMA CloseFlushKeepsInv ==
    ASSUME FileInv, ~exited, CloseFlush
    PROVE  FileInv' /\ Written <= Written' /\ Written' \in Nat
<1>1. /\ cpu_pc = "close_flush" /\ cpu_pc' = "close_seek" /\ Fwrite(Filled(Cur))
      /\ qem_trace_buffer_sync > 0
      /\ qem_file_size' = qem_file_size + qem_trace_buffer_sizes[Cur] * RECORD_BYTES
      /\ qem_trace_buffer_sizes' = [qem_trace_buffer_sizes EXCEPT ![Cur] = 0]
      /\ UNCHANGED <<qem_tracing_state, qem_trace_current_buffer, cpu_arg, qem_trace_buffer,
                     file_open, flush_pc, exited, logged, qem_trace_buffer_sync>>
  BY DEF CloseFlush, SemPass
<1>2. PICK c \in Buffers, o \in Buffers : c = Cur /\ o = Other /\ o # c
  BY BufferFacts DEF FileInv
<1>3. Cur' = c /\ Other' = o
  BY <1>1, <1>2 DEF Cur, Other
<1>4. /\ file_open /\ file # <<>> /\ file_pos = Len(file) /\ qem_tracing_state = {}
      /\ flush_pc[c] = "none" /\ flush_pc[o] = "none" /\ qem_trace_buffer_sync = 1
      /\ qem_trace_buffer_sizes[o] = 0
  BY <1>1, <1>2 DEF FileInv, RunningInv, Phase, SemInv, SizesInv, PositionInv
<1>0. PICK w, x, n, h \in Nat : OrderedAs(w, x, n, h)
  BY OrderNow
<1>5. /\ w = Written /\ x = Writing /\ n = qem_trace_buffer_sizes[Cur] /\ h = Held
      /\ Len(logged) = w + x + n + h
  BY ONLY <1>0 DEF OrderedAs
<1>6. x = 0 /\ h = 0
  BY <1>1, <1>2, <1>4, <1>5 DEF Writing, Held
<1>7. /\ StreamOK /\ logged \in Seq(Record) /\ Written + n <= Len(logged)
      /\ Filled(Cur) \in [1..n -> Slot] /\ Len(logged) <= Len(logged')
      /\ \A i \in 1..n : Filled(Cur)[i] = RecordSlot(logged[Written + i])
  BY <1>1, <1>2, <1>4, <1>5, FilledSlots, SMTT(30) DEF FileInv, TypeOK
<1>8. StreamOK' /\ file' # <<>> /\ file_pos' = Len(file') /\ Written' = Written + n
  BY <1>1, <1>4, <1>7, FwriteRecords
<1>9. HeaderCounts'
  BY <1>1, <1>4 DEF HeaderCounts
<1>10. /\ qem_trace_buffer_sizes' \in [Buffers -> 0..BUFFER_SIZE]
       /\ qem_trace_buffer_sizes'[c] = 0 /\ qem_trace_buffer_sizes'[o] = 0
  BY <1>1, <1>2, <1>4, BufferAssumption DEF FileInv, TypeOK
<1>11. /\ qem_file_size' \in Nat
       /\ qem_file_size' + 0 * RECORD_BYTES = RECORD_BYTES + (w + n) * RECORD_BYTES
  <2>1. /\ (w + n) * RECORD_BYTES = w * RECORD_BYTES + n * RECORD_BYTES
        /\ w * RECORD_BYTES \in Nat /\ n * RECORD_BYTES \in Nat /\ RECORD_BYTES \in Nat
        /\ 0 * RECORD_BYTES = 0
    BY BytesAdd, BytesAssumption
  <2>2. qem_file_size + 0 * RECORD_BYTES = RECORD_BYTES + w * RECORD_BYTES
    BY <1>1, <1>2, <1>4, <1>5 DEF FileInv, RunningInv, CountInv, Uncounted
  <2>3. qem_file_size \in Nat
    BY DEF FileInv, TypeOK
  <2>4. qem_file_size' = qem_file_size + n * RECORD_BYTES
    BY <1>1, <1>5
  <2> QED BY <2>1, <2>2, <2>3, <2>4
<1>12. TypeOK'
  <2>1. file_pos' \in 0..Len(file')
    BY <1>8 DEF StreamOK
  <2> QED BY <1>1, <1>10, <1>11, <2>1 DEF FileInv, TypeOK, CpuPCs, CpuArgOK
<1>13. Phase' /\ SemInv' /\ SizesInv' /\ PositionInv'
  BY <1>1, <1>3, <1>4, <1>8, <1>10 DEF Phase, SemInv, SizesInv, PositionInv
<1>14. OrderInv'
  <2>1. w + n = Written' /\ 0 = Writing' /\ 0 = Held' /\ 0 = qem_trace_buffer_sizes'[Cur']
    BY <1>1, <1>3, <1>4, <1>5, <1>8, <1>10 DEF Writing, Held
  <2>2. Len(logged') = (w + n) + 0 + 0 + 0
    BY <1>1, <1>5, <1>6
  <2> QED BY <2>1, <2>2, OrderNext
<1>15. CountInv'
  <2>1. Uncounted' = 0 /\ Written' = w + n
    BY <1>1, <1>3, <1>4, <1>5, <1>8 DEF Uncounted
  <2> QED BY <1>1, <1>11, <2>1 DEF CountInv
<1>16. Written <= Written' /\ Written' \in Nat
  BY <1>5, <1>8
<1> QED BY <1>8, <1>9, <1>12, <1>13, <1>14, <1>15, <1>16, WriterIsAtOtherNext
        DEF FileInv, RunningInv

(* The stream is rewound.                                                   *)
LEMMA CloseSeekKeepsInv ==
    ASSUME FileInv, ~exited, CloseSeek
    PROVE  FileInv'
<1>1. /\ cpu_pc = "close_seek" /\ cpu_pc' = "close_header"
      /\ cpu_arg' = qem_file_size /\ file_pos' = 0
      /\ UNCHANGED <<qem_tracing_state, qem_trace_current_buffer, qem_trace_buffer_sizes,
                     qem_trace_buffer, file, file_open, qem_file_size, qem_trace_buffer_sync,
                     flush_pc, exited, logged>>
  BY DEF CloseSeek, bufVars
<1>2. /\ Cur' = Cur /\ Other' = Other /\ Writing' = Writing /\ Held = 0 /\ Held' = 0
      /\ Uncounted' = Uncounted
  BY <1>1 DEF Cur, Other, Writing, Held, Uncounted
<1>3. StreamOK' /\ HeaderCounts' /\ Written' = Written
  BY <1>1, StreamStays DEF FileInv, HeaderCounts
<1>4. TypeOK'
  <2>1. file_pos' \in 0..Len(file')
    BY <1>1, <1>3 DEF StreamOK
  <2> QED BY <1>1, <2>1 DEF FileInv, TypeOK, CpuPCs, CpuArgOK
<1>5. Phase' /\ SemInv' /\ SizesInv' /\ PositionInv'
  BY <1>1, <1>2 DEF FileInv, RunningInv, Phase, SemInv, SizesInv, PositionInv
<1>6. OrderInv'
  BY <1>1, <1>2, OrderStays DEF FileInv, RunningInv, bufVars
<1>7. CountInv'
  BY <1>1, <1>2, <1>3 DEF FileInv, RunningInv, CountInv
<1> QED BY <1>3, <1>4, <1>5, <1>6, <1>7, WriterIsAtOtherNext DEF FileInv, RunningInv

(* The header is rewritten with the size, and the file closed.              *)
LEMMA CloseHeaderKeepsInv ==
    ASSUME FileInv, ~exited, CloseHeader
    PROVE  FileInv' /\ Written' = Len(logged)
<1>1. /\ cpu_pc = "close_header" /\ cpu_pc' = "idle" /\ Fwrite(<<HeaderSlot(cpu_arg)>>)
      /\ qem_trace_buffer_sizes' = [qem_trace_buffer_sizes EXCEPT ![Cur] = 0]
      /\ file_open' = FALSE
      /\ UNCHANGED <<qem_tracing_state, qem_trace_current_buffer, qem_trace_buffer,
                     qem_file_size, flush_pc, exited, logged, qem_trace_buffer_sync>>
  BY DEF CloseHeader, SemPass
<1>2. PICK c \in Buffers, o \in Buffers : c = Cur /\ o = Other /\ o # c
  BY BufferFacts DEF FileInv
<1>3. Cur' = c /\ Other' = o
  BY <1>1, <1>2 DEF Cur, Other
<1>4. /\ file_open /\ file # <<>> /\ file_pos = 0 /\ StreamOK /\ qem_tracing_state = {}
      /\ flush_pc[c] = "none" /\ flush_pc[o] = "none"
      /\ qem_trace_buffer_sizes[c] = 0 /\ qem_trace_buffer_sizes[o] = 0
      /\ cpu_arg \in Nat /\ cpu_arg = qem_file_size
  BY <1>1, <1>2 DEF FileInv, RunningInv, Phase, SemInv, SizesInv, PositionInv, CountInv,
                    TypeOK, CpuArgOK
<1>0. PICK w, x, n, h \in Nat : OrderedAs(w, x, n, h)
  BY OrderNow
<1>5. /\ w = Written /\ x = Writing /\ n = qem_trace_buffer_sizes[Cur] /\ h = Held
      /\ Len(logged) = w + x + n + h
  BY ONLY <1>0 DEF OrderedAs
<1>6. Len(logged) = w
  BY <1>1, <1>2, <1>4, <1>5 DEF Writing, Held
<1>7. /\ StreamOK' /\ file' # <<>> /\ Len(file') = Len(file) /\ Written' = Written
      /\ file'[1] = HeaderSlot(cpu_arg) /\ file_pos' = 1
  BY <1>1, <1>4, FwriteHeader
<1>8. HeaderCounts'
  <2>1. cpu_arg + 0 * RECORD_BYTES = RECORD_BYTES + w * RECORD_BYTES
    BY <1>1, <1>2, <1>4, <1>5 DEF FileInv, RunningInv, CountInv, Uncounted
  <2>2. 0 * RECORD_BYTES = 0
    BY BytesAssumption
  <2>3. cpu_arg = RECORD_BYTES + w * RECORD_BYTES
    BY <1>4, <2>1, <2>2
  <2> QED BY <1>1, <1>6, <1>7, <2>3 DEF HeaderCounts
<1>9. /\ qem_trace_buffer_sizes' \in [Buffers -> 0..BUFFER_SIZE]
      /\ qem_trace_buffer_sizes'[c] = 0 /\ qem_trace_buffer_sizes'[o] = 0
  BY <1>1, <1>2, <1>4, BufferAssumption DEF FileInv, TypeOK
<1>10. TypeOK'
  <2>1. file_pos' \in 0..Len(file')
    BY <1>4, <1>7 DEF StreamOK
  <2> QED BY <1>1, <1>9, <2>1 DEF FileInv, TypeOK, CpuPCs, CpuArgOK
<1>11. Phase' /\ SemInv' /\ SizesInv' /\ PositionInv'
  BY <1>1, <1>3, <1>4, <1>9 DEF Phase, SemInv, SizesInv, PositionInv
<1>12. OrderInv'
  <2>0. PICK z \in Nat : z = 0
    OBVIOUS
  <2>1. w = Written' /\ z = Writing' /\ z = Held' /\ z = qem_trace_buffer_sizes'[Cur']
    BY <1>1, <1>3, <1>4, <1>5, <1>7, <1>9, <2>0 DEF Writing, Held
  <2>2. Len(logged') = w + z + z + z
    BY <1>1, <1>6, <2>0
  <2>3. /\ \A i \in 1..z : qem_trace_buffer'[Other'][i] = logged'[w + i]
        /\ \A i \in 1..z : qem_trace_buffer'[Cur'][i] = logged'[w + z + i]
        /\ z = 1 => cpu_arg' = logged'[Len(logged')]
    <3>1. (\A i \in 1..z : FALSE) /\ z # 1
      BY ONLY <2>0
    <3> QED BY ONLY <3>1
  <2> QED BY ONLY <2>1, <2>2, <2>3 DEF OrderInv, Holds
<1>13. CountInv'
  BY <1>1 DEF CountInv
<1> QED BY <1>5, <1>6, <1>7, <1>8, <1>10, <1>11, <1>12, <1>13, WriterIsAtOtherNext
        DEF FileInv, RunningInv

(* The writer writes the other buffer, and the file is longer than what
   qem_file_size says ...                                                   *)
LEMMA FlushWriteKeepsInv ==
    ASSUME FileInv, ~exited, NEW b \in Buffers, FlushWrite(b)
    PROVE  /\ FileInv' /\ file_open
           /\ Written <= Written' /\ Written' \in Nat
<1>1. /\ flush_pc[b] = "write" /\ Fwrite(Filled(b))
      /\ flush_pc' = [flush_pc EXCEPT ![b] = "account"]
      /\ UNCHANGED <<qem_tracing_state, qem_trace_current_buffer, cpu_pc, cpu_arg,
                     qem_trace_buffer_sizes, qem_trace_buffer, file_open, qem_file_size,
                     qem_trace_buffer_sync, exited, logged>>
  BY DEF FlushWrite, cpuVars, bufVars
<1>2. PICK c \in Buffers, o \in Buffers : c = Cur /\ o = Other /\ o # c
  BY BufferFacts DEF FileInv
<1>3. Cur' = c /\ Other' = o
  BY <1>1, <1>2 DEF Cur, Other
<1>4. b = o
  BY <1>1, <1>2, BufferFacts DEF FileInv, RunningInv, SemInv
<1>5. /\ file_open /\ cpu_pc \in {"idle", "swap", "append", "close_flush"}
      /\ file # <<>> /\ file_pos = Len(file) /\ flush_pc[c] = "none"
      /\ qem_trace_buffer_sync = 0 /\ qem_trace_buffer_sizes[o] = BUFFER_SIZE
  BY <1>1, <1>2, <1>4 DEF FileInv, RunningInv, SemInv, SizesInv, PositionInv
<1>6. flush_pc'[o] = "account" /\ flush_pc'[c] = "none"
  BY <1>1, <1>2, <1>4, <1>5 DEF FileInv, TypeOK
<1>0. PICK w, x, n, h \in Nat : OrderedAs(w, x, n, h)
  BY ONLY FileInv, ~exited, OrderNow
<1>7. /\ w = Written /\ x = Writing /\ n = qem_trace_buffer_sizes[Cur] /\ h = Held
      /\ Len(logged) = w + x + n + h
      /\ \A i \in 1..n : qem_trace_buffer[Cur][i] = logged[w + x + i]
      /\ h = 1 => cpu_arg = logged[Len(logged)]
  BY ONLY <1>0 DEF OrderedAs
<1>8. x = qem_trace_buffer_sizes[o]
  BY <1>1, <1>2, <1>4, <1>7 DEF Writing
<1>9. /\ StreamOK /\ logged \in Seq(Record) /\ Written + x <= Len(logged)
      /\ Filled(b) \in [1..x -> Slot] /\ Len(logged) <= Len(logged')
      /\ \A i \in 1..x : Filled(b)[i] = RecordSlot(logged[Written + i])
  BY <1>1, <1>2, <1>4, <1>8, FilledSlots DEF FileInv, TypeOK
<1>10. StreamOK' /\ file' # <<>> /\ file_pos' = Len(file') /\ Written' = Written + x
  BY <1>1, <1>5, <1>9, FwriteRecords
<1>11. HeaderCounts'
  BY <1>1, <1>5 DEF HeaderCounts
<1>12. TypeOK'
  <2>1. file_pos' \in 0..Len(file')
    BY <1>10 DEF StreamOK
  <2>2. flush_pc' \in [Buffers -> {"none", "write", "account", "post"}]
    BY <1>1 DEF FileInv, TypeOK
  <2> QED BY <1>1, <2>1, <2>2 DEF FileInv, TypeOK, CpuPCs, CpuArgOK
<1>13. Phase' /\ PositionInv'
  BY <1>1, <1>5, <1>10 DEF FileInv, RunningInv, Phase, PositionInv
<1>14. SemInv' /\ SizesInv'
  BY <1>1, <1>2, <1>3, <1>5, <1>6 DEF FileInv, RunningInv, SemInv, SizesInv
<1>15. OrderInv'
  <2>1. w + x = Written' /\ 0 = Writing' /\ h = Held' /\ n = qem_trace_buffer_sizes'[Cur']
    BY <1>1, <1>2, <1>3, <1>6, <1>7, <1>10 DEF Writing, Held
  <2>2. Len(logged') = (w + x) + 0 + n + h
    BY <1>1, <1>7
  <2>3. ASSUME NEW i \in 1..n PROVE qem_trace_buffer'[Cur'][i] = logged'[(w + x) + 0 + i]
    <3>1. (w + x) + 0 + i = w + x + i
      OBVIOUS
    <3> QED BY <1>1, <1>2, <1>3, <1>7, <3>1
  <2>4. h = 1 => cpu_arg' = logged'[Len(logged')]
    BY <1>1, <1>7
  <2>5. \A i \in 1..0 : FALSE
    OBVIOUS
  <2> QED BY ONLY <2>1, <2>2, <2>3, <2>4, <2>5 DEF OrderInv, Holds
<1>16. CountInv'
  <2>1. /\ (w + x) * RECORD_BYTES = w * RECORD_BYTES + x * RECORD_BYTES
        /\ w * RECORD_BYTES \in Nat /\ x * RECORD_BYTES \in Nat /\ RECORD_BYTES \in Nat
        /\ 0 * RECORD_BYTES = 0 /\ qem_file_size \in Nat
    BY BytesAdd, BytesAssumption DEF FileInv, TypeOK
  <2>2. qem_file_size + 0 * RECORD_BYTES = RECORD_BYTES + w * RECORD_BYTES
    BY <1>1, <1>2, <1>4, <1>5, <1>7 DEF FileInv, RunningInv, CountInv, Uncounted
  <2>3. qem_file_size + x * RECORD_BYTES = RECORD_BYTES + (w + x) * RECORD_BYTES
    BY <2>1, <2>2
  <2>4. Uncounted' = x /\ Written' = w + x
    BY <1>1, <1>3, <1>6, <1>7, <1>8, <1>10 DEF Uncounted
  <2> QED BY <1>1, <1>5, <2>3, <2>4 DEF CountInv
<1>17. Written <= Written' /\ Written' \in Nat
  BY <1>7, <1>10, SMTT(30)
<1> QED BY <1>5, <1>10, <1>11, <1>12, <1>13, <1>14, <1>15, <1>16, <1>17, WriterIsAtOtherNext
        DEF FileInv, RunningInv

(* ... until it is accounted for and the buffer is free.                    *)
LEMMA FlushAccountKeepsInv ==
    ASSUME FileInv, ~exited, NEW b \in Buffers, FlushAccount(b)
    PROVE  FileInv'
<1>1. /\ flush_pc[b] = "account"
      /\ qem_file_size' = qem_file_size + qem_trace_buffer_sizes[b] * RECORD_BYTES
      /\ qem_trace_buffer_sizes' = [qem_trace_buffer_sizes EXCEPT ![b] = 0]
      /\ flush_pc' = [flush_pc EXCEPT ![b] = "post"]
      /\ UNCHANGED <<qem_tracing_state, qem_trace_current_buffer, cpu_pc, cpu_arg,
                     qem_trace_buffer, file, file_pos, file_open, qem_trace_buffer_sync,
                     exited, logged>>
  BY DEF FlushAccount, cpuVars
<1>2. PICK c \in Buffers, o \in Buffers : c = Cur /\ o = Other /\ o # c
  BY BufferFacts DEF FileInv
<1>3. Cur' = c /\ Other' = o
  BY <1>1, <1>2 DEF Cur, Other
<1>4. b = o
  BY <1>1, <1>2, BufferFacts DEF FileInv, RunningInv, SemInv
<1>5. /\ file_open /\ cpu_pc \in {"idle", "swap", "append", "close_flush"}
      /\ flush_pc[c] = "none" /\ qem_trace_buffer_sync = 0
      /\ qem_trace_buffer_sizes[o] \in Nat
  BY <1>1, <1>2, <1>4, BufferFacts DEF FileInv, RunningInv, SemInv
<1>6. flush_pc'[o] = "post" /\ flush_pc'[c] = "none"
  BY <1>1, <1>2, <1>4, <1>5 DEF FileInv, TypeOK
<1>7. /\ qem_trace_buffer_sizes' \in [Buffers -> 0..BUFFER_SIZE]
      /\ qem_trace_buffer_sizes'[o] = 0 /\ qem_trace_buffer_sizes'[c] = qem_trace_buffer_sizes[c]
  BY <1>1, <1>2, <1>4, BufferAssumption DEF FileInv, TypeOK
<1>8. StreamOK' /\ HeaderCounts' /\ Written' = Written
  BY <1>1, StreamStays DEF FileInv, HeaderCounts
<1>9. PICK k \in Nat : k = qem_trace_buffer_sizes[o]
  BY <1>5
<1>10. /\ k * RECORD_BYTES \in Nat /\ 0 * RECORD_BYTES = 0 /\ qem_file_size \in Nat
       /\ qem_file_size' = qem_file_size + k * RECORD_BYTES
  BY <1>1, <1>4, <1>9, BytesAdd, BytesAssumption DEF FileInv, TypeOK
<1>11. TypeOK'
  <2>1. flush_pc' \in [Buffers -> {"none", "write", "account", "post"}]
    BY <1>1 DEF FileInv, TypeOK
  <2>2. qem_file_size' \in Nat
    BY <1>10
  <2> QED BY <1>1, <1>7, <2>1, <2>2 DEF FileInv, TypeOK, CpuPCs, CpuArgOK
<1>12. Phase' /\ PositionInv'
  BY <1>1 DEF FileInv, RunningInv, Phase, PositionInv
<1>13. SemInv' /\ SizesInv'
  BY <1>1, <1>2, <1>3, <1>5, <1>6, <1>7 DEF FileInv, RunningInv, SemInv, SizesInv
<1>14. OrderInv'
  <2>0. PICK w, x, n, h \in Nat : OrderedAs(w, x, n, h)
    BY ONLY FileInv, ~exited, OrderNow
  <2>1. /\ w = Written /\ x = Writing /\ n = qem_trace_buffer_sizes[Cur] /\ h = Held
        /\ Len(logged) = w + x + n + h
        /\ \A i \in 1..x : qem_trace_buffer[Other][i] = logged[w + i]
        /\ \A i \in 1..n : qem_trace_buffer[Cur][i] = logged[w + x + i]
        /\ h = 1 => cpu_arg = logged[Len(logged)]
    BY ONLY <2>0 DEF OrderedAs
  <2>2. x = 0
    BY <1>1, <1>2, <1>4, <2>1 DEF Writing
  <2>3. w = Written' /\ 0 = Writing' /\ h = Held' /\ n = qem_trace_buffer_sizes'[Cur']
    BY <1>1, <1>2, <1>3, <1>6, <1>7, <1>8, <2>1 DEF Writing, Held
  <2>4. Len(logged') = w + 0 + n + h
    BY <1>1, <2>1, <2>2
  <2>5. \A i \in 1..n : qem_trace_buffer'[Cur'][i] = logged'[w + 0 + i]
    BY <1>1, <1>2, <1>3, <2>1, <2>2
  <2>6. h = 1 => cpu_arg' = logged'[Len(logged')]
    BY <1>1, <2>1
  <2>7. \A i \in 1..0 : FALSE
    OBVIOUS
  <2> QED BY ONLY <2>3, <2>4, <2>5, <2>6, <2>7 DEF OrderInv, Holds
<1>15. CountInv'
  <2>1. qem_file_size + k * RECORD_BYTES = RECORD_BYTES + Written * RECORD_BYTES
    BY <1>1, <1>2, <1>4, <1>5, <1>9 DEF FileInv, RunningInv, CountInv, Uncounted
  <2>2. qem_file_size' + 0 * RECORD_BYTES = RECORD_BYTES + Written * RECORD_BYTES
    BY <1>10, <2>1
  <2>3. Uncounted' = 0
    BY <1>3, <1>6 DEF Uncounted
  <2> QED BY <1>1, <1>5, <1>8, <2>2, <2>3 DEF CountInv
<1> QED BY <1>8, <1>11, <1>12, <1>13, <1>14, <1>15, WriterIsAtOtherNext DEF FileInv, RunningInv

(* The writer posts the semaphore: its last step.                           *)
LEMMA FlushPostKeepsInv ==
    ASSUME FileInv, ~exited, NEW b \in Buffers, FlushPost(b)
    PROVE  FileInv'
<1>1. /\ flush_pc[b] = "post"
      /\ qem_trace_buffer_sync' = qem_trace_buffer_sync + 1
      /\ flush_pc' = [flush_pc EXCEPT ![b] = "none"]
      /\ UNCHANGED <<qem_tracing_state, qem_trace_current_buffer, cpu_pc, cpu_arg,
                     qem_trace_buffer_sizes, qem_trace_buffer, file, file_pos, file_open,
                     qem_file_size, exited, logged>>
  BY DEF FlushPost, cpuVars, bufVars, fileVars
<1>2. PICK c \in Buffers, o \in Buffers : c = Cur /\ o = Other /\ o # c
  BY BufferFacts DEF FileInv
<1>3. Cur' = c /\ Other' = o
  BY <1>1, <1>2 DEF Cur, Other
<1>4. b = o
  BY <1>1, <1>2, BufferFacts DEF FileInv, RunningInv, SemInv
<1>5. flush_pc[c] = "none" /\ qem_trace_buffer_sync = 0 /\ qem_trace_buffer_sizes[o] = 0
  BY <1>1, <1>2, <1>4 DEF FileInv, RunningInv, SemInv, SizesInv
<1>6. flush_pc'[o] = "none" /\ flush_pc'[c] = "none"
  BY <1>1, <1>2, <1>4, <1>5 DEF FileInv, TypeOK
<1>7. StreamOK' /\ HeaderCounts' /\ Written' = Written
  BY <1>1, StreamStays DEF FileInv, HeaderCounts
<1>8. TypeOK'
  <2>1. flush_pc' \in [Buffers -> {"none", "write", "account", "post"}]
    BY <1>1 DEF FileInv, TypeOK
  <2>2. qem_trace_buffer_sync' \in Nat
    BY <1>1, <1>5
  <2> QED BY <1>1, <2>1, <2>2 DEF FileInv, TypeOK, CpuPCs, CpuArgOK
<1>9. Phase' /\ PositionInv'
  BY <1>1 DEF FileInv, RunningInv, Phase, PositionInv
<1>10. SemInv' /\ SizesInv'
  BY <1>1, <1>2, <1>3, <1>5, <1>6 DEF FileInv, RunningInv, SemInv, SizesInv
<1>11. OrderInv'
  <2>1. Writing' = Writing /\ Held' = Held
    BY <1>1, <1>2, <1>3, <1>4, <1>6 DEF Writing, Held
  <2> QED BY <1>1, <2>1, OrderStays DEF FileInv, RunningInv, bufVars
<1>12. CountInv'
  <2>1. Uncounted' = Uncounted
    BY <1>1, <1>2, <1>3, <1>4, <1>6 DEF Uncounted
  <2> QED BY <1>1, <1>7, <2>1 DEF FileInv, RunningInv, CountInv
<1> QED BY <1>7, <1>8, <1>9, <1>10, <1>11, <1>12, WriterIsAtOtherNext DEF FileInv, RunningInv

(* -------------------------- the exits of QEMU --------------------------- *)

(* A buffer or a header falls short: the file is still a header and the first
   records, or has no header yet.                                           *)
LEMMA ShortKeepsInv ==
    ASSUME FileInv, ~exited, ShortWrite
    PROVE  /\ FileInv' /\ exited' /\ file_open
           /\ Written <= Written' /\ Written' \in Nat
<1>1. /\ exited' = TRUE
      /\ UNCHANGED <<qem_tracing_state, qem_trace_current_buffer, cpu_pc, cpu_arg,
                     qem_trace_buffer_sizes, qem_trace_buffer, file_open, qem_file_size,
                     qem_trace_buffer_sync, flush_pc, logged>>
  BY DEF ShortWrite, FwriteShort, cpuVars, bufVars
<1>2. Written \in Nat /\ logged \in Seq(Record) /\ StreamOK
  BY StoredIsPrefix DEF FileInv, TypeOK
<1>3. ASSUME NEW b \in Buffers, FwriteShort(Filled(b)), file_open,
             file # <<>>, file_pos = Len(file),
             \/ b = Cur /\ flush_pc[Other] # "write"
             \/ b = Other /\ flush_pc[Other] = "write"
      PROVE  /\ StreamOK' /\ file_pos' \in 0..Len(file')
             /\ Written <= Written' /\ Written' \in Nat
  <2>1. PICK n \in Nat : /\ n = qem_trace_buffer_sizes[b]
                         /\ Written + n <= Len(logged)
                         /\ Filled(b) \in [1..n -> Slot]
                         /\ \A i \in 1..n : Filled(b)[i] = RecordSlot(logged[Written + i])
    BY <1>3, FilledSlots
  <2>2. PICK k \in Nat : /\ k < n
                         /\ SubSeq(Filled(b), 1, k) \in [1..k -> Slot]
                         /\ \A i \in 1..k : SubSeq(Filled(b), 1, k)[i] = Filled(b)[i]
                         /\ Fwrite(SubSeq(Filled(b), 1, k))
    BY <1>3, <2>1, ShortSlots
  <2> DEFINE part == SubSeq(Filled(b), 1, k)
  <2> HIDE DEF part
  <2>3. /\ Written + k <= Len(logged) /\ Len(logged) <= Len(logged')
        /\ part \in [1..k -> Slot] /\ Fwrite(part)
        /\ \A i \in 1..k : part[i] = RecordSlot(logged[Written + i])
    <3>1. Written + k <= Len(logged) /\ Len(logged) <= Len(logged')
      BY <1>1, <1>2, <2>1, <2>2
    <3>2. part \in [1..k -> Slot] /\ Fwrite(part) /\ \A i \in 1..k : part[i] = Filled(b)[i]
      BY <2>2 DEF part
    <3>3. \A i \in 1..k : i \in 1..n
      BY <2>2
    <3> QED BY <2>1, <3>1, <3>2, <3>3
  <2>4. StreamOK' /\ file' # <<>> /\ file_pos' = Len(file') /\ Written' = Written + k
    BY <1>1, <1>2, <1>3, <2>3, FwriteRecords
  <2>5. file_pos' \in 0..Len(file')
    BY <2>4 DEF StreamOK
  <2>6. Written <= Written' /\ Written' \in Nat
    BY <1>2, <2>4
  <2> QED BY <2>4, <2>5, <2>6
<1>4. ASSUME FwriteShort(<<HeaderSlot(0)>>)
      PROVE  UNCHANGED <<file, file_pos>>
  <2>1. PICK k \in 0..(Len(<<HeaderSlot(0)>>) - 1) : Fwrite(SubSeq(<<HeaderSlot(0)>>, 1, k))
    BY <1>4 DEF FwriteShort
  <2>2. k = 0 /\ SubSeq(<<HeaderSlot(0)>>, 1, k) = <<>>
    BY SubSeqEmpty
  <2>3. Fwrite(<<>>)
    BY <2>1, <2>2
  <2>4. /\ file_pos \in 0..Len(file) /\ Len(file) \in Nat
        /\ file = [i \in 1..Len(file) |-> file[i]]
    BY <1>2 DEF FileInv, TypeOK, StreamOK
  <2> QED BY <2>3, <2>4 DEF Fwrite
<1>5. /\ file_open /\ StreamOK' /\ file_pos' \in 0..Len(file')
      /\ Written <= Written' /\ Written' \in Nat
  <2>1. CASE cpu_pc \in {"open_header", "close_header"} /\ FwriteShort(<<HeaderSlot(0)>>)
    <3>1. UNCHANGED <<file, file_pos>>
      BY <1>4, <2>1
    <3>2. StreamOK' /\ Written' = Written
      BY <1>1, <1>2, <3>1, StreamStays
    <3>3. file_open
      BY <2>1 DEF FileInv, RunningInv, Phase
    <3> QED BY <1>2, <3>1, <3>2, <3>3 DEF FileInv, TypeOK
  <2>2. CASE cpu_pc = "close_flush" /\ qem_trace_buffer_sync > 0 /\ FwriteShort(Filled(Cur))
    <3>1. /\ file_open /\ flush_pc[Other] # "write" /\ file # <<>> /\ file_pos = Len(file)
      BY <2>2 DEF FileInv, RunningInv, Phase, SemInv, PositionInv
    <3> QED BY <1>3, <2>2, <3>1, BufferFacts DEF FileInv
  <2>3. ASSUME NEW b \in Buffers, flush_pc[b] = "write", FwriteShort(Filled(b))
        PROVE  /\ file_open /\ StreamOK' /\ file_pos' \in 0..Len(file')
               /\ Written <= Written' /\ Written' \in Nat
    <3>1. b = Other
      BY <2>3, BufferFacts DEF FileInv, RunningInv, SemInv
    <3>2. /\ file_open /\ file # <<>> /\ file_pos = Len(file)
      BY <2>3, <3>1 DEF FileInv, RunningInv, SemInv, PositionInv
    <3> QED BY <1>3, <2>3, <3>1, <3>2
  <2> QED BY <2>1, <2>2, <2>3 DEF ShortWrite
<1>6. TypeOK' /\ NoBufferRace' /\ HeaderCounts'
  BY <1>1, <1>5 DEF FileInv, TypeOK, CpuArgOK, NoBufferRace, Cur, HeaderCounts
<1> QED BY <1>1, <1>5, <1>6 DEF FileInv

(* fopen or pthread_create fails.                                           *)
LEMMA HostFailsKeepsInv ==
    ASSUME FileInv, ~exited, HostFails
    PROVE  FileInv'
<1>1. /\ exited' = TRUE
      /\ UNCHANGED <<qem_tracing_state, qem_trace_current_buffer, cpu_pc, cpu_arg,
                     qem_trace_buffer_sizes, qem_trace_buffer, file, file_pos, file_open,
                     qem_file_size, qem_trace_buffer_sync, flush_pc, logged>>
  BY DEF HostFails, cpuVars, bufVars, fileVars
<1>2. TypeOK' /\ NoBufferRace' /\ StreamOK' /\ HeaderCounts'
  BY <1>1, StreamStays DEF FileInv, TypeOK, CpuArgOK, NoBufferRace, Cur, HeaderCounts
<1> QED BY <1>1, <1>2 DEF FileInv

(* ----------------------------- the theorems ----------------------------- *)

(* Nothing changes.                                                         *)
LEMMA StutterKeepsInv ==
    ASSUME FileInv, UNCHANGED vars
    PROVE  FileInv'
<1>1. UNCHANGED <<qem_tracing_state, qem_trace_current_buffer, cpu_pc, cpu_arg,
                  qem_trace_buffer_sizes, qem_trace_buffer, file, file_pos, file_open,
                  qem_file_size, qem_trace_buffer_sync, flush_pc, exited, logged>>
  BY DEF vars, cpuVars, bufVars, fileVars
<1>2. TypeOK' /\ NoBufferRace' /\ StreamOK' /\ HeaderCounts' /\ Written' = Written
  BY <1>1, StreamStays DEF FileInv, TypeOK, CpuArgOK, NoBufferRace, Cur, HeaderCounts
<1>3. ASSUME ~exited PROVE RunningInv'
  <2>1. /\ Cur' = Cur /\ Other' = Other /\ Writing' = Writing /\ Held' = Held
        /\ Uncounted' = Uncounted
    BY <1>1 DEF Cur, Other, Writing, Held, Uncounted
  <2>2. Phase' /\ SemInv' /\ SizesInv' /\ PositionInv'
    BY <1>1, <1>3, <2>1 DEF FileInv, RunningInv, Phase, SemInv, SizesInv, PositionInv
  <2>3. OrderInv'
    BY <1>1, <1>3, <2>1, OrderStays DEF FileInv, RunningInv, bufVars
  <2>4. CountInv'
    BY <1>1, <1>2, <1>3, <2>1 DEF FileInv, RunningInv, CountInv
  <2> QED BY <2>2, <2>3, <2>4 DEF RunningInv
<1> QED BY <1>1, <1>2, <1>3 DEF FileInv

(* Every step of the two threads keeps the invariant.                       *)
LEMMA NextKeepsInv == FileInv /\ [Next]_vars => FileInv'
<1> SUFFICES ASSUME FileInv, [Next]_vars PROVE FileInv'
  OBVIOUS
<1>1. CASE UNCHANGED vars
  BY <1>1, StutterKeepsInv
<1>2. CASE ~exited /\ Guest
  BY <1>2, RetypeKeepsInv, OpenKeepsInv, DisableKeepsInv, OutputKeepsInv DEF Guest
<1>3. CASE ~exited /\ CpuStep
  BY <1>3, OpenHeaderKeepsInv, CloseFlushKeepsInv, CloseSeekKeepsInv, CloseHeaderKeepsInv,
     SwapKeepsInv, AddKeepsInv DEF CpuStep
<1>4. CASE ~exited /\ \E b \in Buffers : FlushStep(b)
  BY <1>4, FlushWriteKeepsInv, FlushAccountKeepsInv, FlushPostKeepsInv DEF FlushStep
<1>5. CASE ~exited /\ (ShortWrite \/ HostFails)
  BY <1>5, ShortKeepsInv, HostFailsKeepsInv
<1> QED BY <1>1, <1>2, <1>3, <1>4, <1>5 DEF Next

(* The inductive invariant of the double-buffered back end, in every order of
   the steps of the virtual CPU's thread and the writers.                   *)
THEOREM FileInvariant == Spec => []FileInv
  BY InitFileInv, NextKeepsInv, PTL DEF Spec

(* No buffer of qem_trace_file_mt_buff.c is filled beyond its end.          *)
THEOREM Typing == Spec => []TypeOK
<1>1. FileInv => TypeOK
  BY DEF FileInv
<1> QED BY <1>1, FileInvariant, PTL

(* The virtual CPU never touches the buffer a writer is at, and there is at
   most one writer.                                                         *)
THEOREM BuffersAreApart == Spec => []NoBufferRace
<1>1. FileInv => NoBufferRace
  BY DEF FileInv
<1> QED BY <1>1, FileInvariant, PTL

(* At any time, also when a failed call of the host ends QEMU, the file is a
   header and the first records of its session, whichever thread wrote them. *)
THEOREM FileHoldsPrefix == Spec => []FileIsPrefix
<1>1. FileInv => FileIsPrefix
  BY DEF FileInv, StreamOK
<1> QED BY <1>1, FileInvariant, PTL

(* With a header as long as a record, as in the build whose records are 16
   bytes long, the header of a closed file tells the size of the file.      *)
THEOREM HeaderIsRight ==
    ASSUME HEADER_BYTES = RECORD_BYTES
    PROVE  Spec => []HeaderTellsFileSize
<1>1. FileInv => HeaderTellsFileSize
  BY DEF FileInv, HeaderCounts, HeaderTellsFileSize
<1> QED BY <1>1, FileInvariant, PTL

(* ---------------------- the refinement of TraceLog ---------------------- *)

(* What was output and is not in the file is, in this order, in the writer's
   buffer, in the current one and in the hands of the virtual CPU.          *)
LEMMA UnwrittenIsMissing == FileInv => Unwritten = Missing
<1> SUFFICES ASSUME FileInv, ~exited PROVE Unwritten = Missing
  BY DEF Unwritten
<1>0. PICK w, x, n, h \in Nat : OrderedAs(w, x, n, h)
  BY OrderNow
<1>1. /\ w = Written /\ x = Writing /\ n = qem_trace_buffer_sizes[Cur] /\ h = Held
      /\ Len(logged) = w + x + n + h
      /\ \A i \in 1..x : qem_trace_buffer[Other][i] = logged[w + i]
      /\ \A i \in 1..n : qem_trace_buffer[Cur][i] = logged[w + x + i]
      /\ h = 1 => cpu_arg = logged[Len(logged)]
  BY ONLY <1>0 DEF OrderedAs
<1> DEFINE A == IF flush_pc[Other] = "write" THEN Entry(Other) ELSE <<>>
           B == Entry(Cur)
           C == IF cpu_pc \in {"swap", "append"} THEN <<cpu_arg>> ELSE <<>>
           p == SubSeq(logged, w + 1, Len(logged))
<1>2. logged \in Seq(Record) /\ \A i \in 1..Len(logged) : logged[i] \in Record
  BY DEF FileInv, TypeOK
<1>3. Missing = p /\ Unwritten = A \o B \o C
  BY <1>1, <1>2, StoredIsPrefix DEF FileInv, Unwritten
<1>4. /\ p \in Seq(Record) /\ Len(p) = x + n + h
      /\ \A i \in 1..(x + n + h) : p[i] = logged[w + i]
  <2>1. PICK k \in Nat : k = x + n + h /\ Len(logged) = w + k
    <3>1. x + n + h \in Nat /\ w + x + n + h = w + (x + n + h)
      OBVIOUS
    <3> QED BY <1>1, <3>1
  <2>2. \A i \in (w + 1)..Len(logged) : logged[i] \in Record
    BY <1>2
  <2>3. /\ p \in Seq(Record) /\ Len(p) = k
        /\ \A i \in 1..k : p[i] = logged[w + i]
    BY <1>2, <2>1, <2>2, SubSeqProperties, SMTT(30)
  <2> HIDE DEF p
  <2> QED BY <2>1, <2>3
<1>5. /\ A \in Seq(Record) /\ Len(A) = x
      /\ \A i \in 1..x : A[i] = logged[w + i]
  <2>1. CASE flush_pc[Other] = "write"
    <3>1. x = qem_trace_buffer_sizes[Other] /\ A = Entry(Other)
      BY <1>1, <2>1 DEF Writing
    <3>2. \A i \in 1..x : w + i \in 1..Len(logged)
      BY <1>1
    <3>3. A = [i \in 1..x |-> qem_trace_buffer[Other][i]]
      BY <3>1 DEF Entry
    <3>4. A \in [1..x -> Record] /\ \A i \in 1..x : A[i] = logged[w + i]
      <4> HIDE DEF A
      <4> QED BY <1>1, <1>2, <3>2, <3>3
    <3> HIDE DEF A
    <3> QED BY <3>4, FunctionIsSeq
  <2>2. CASE flush_pc[Other] # "write"
    <3>1. x = 0 /\ A = <<>>
      BY <1>1, <2>2 DEF Writing
    <3> HIDE DEF A
    <3> QED BY <3>1
  <2> QED BY <2>1, <2>2
<1>6. /\ B \in Seq(Record) /\ Len(B) = n
      /\ \A i \in 1..n : B[i] = logged[w + x + i]
  <2>1. \A i \in 1..n : w + x + i \in 1..Len(logged)
    BY <1>1
  <2>2. B = [i \in 1..n |-> qem_trace_buffer[Cur][i]]
    BY <1>1 DEF Entry
  <2> HIDE DEF B
  <2>3. B \in [1..n -> Record] /\ \A i \in 1..n : B[i] = logged[w + x + i]
    BY <1>1, <1>2, <2>1, <2>2
  <2> QED BY <2>3, FunctionIsSeq
<1>7. /\ C \in Seq(Record) /\ Len(C) = h
      /\ \A i \in 1..h : C[i] = logged[w + x + n + i]
  <2>1. CASE cpu_pc \in {"swap", "append"}
    <3>1. h = 1 /\ C = <<cpu_arg>> /\ cpu_arg \in Record
      BY <1>1, <2>1 DEF Held, FileInv, TypeOK, CpuArgOK
    <3>2. cpu_arg = logged[w + x + n + 1]
      BY <1>1, <3>1
    <3> HIDE DEF C
    <3> QED BY <3>1, <3>2
  <2>2. CASE cpu_pc \notin {"swap", "append"}
    <3>1. h = 0 /\ C = <<>>
      BY <1>1, <2>2 DEF Held
    <3> HIDE DEF C
    <3> QED BY <3>1
  <2> QED BY <2>1, <2>2
<1> HIDE DEF A, B, C, p
<1>8. /\ A \o B \in Seq(Record) /\ Len(A \o B) = x + n
      /\ \A i \in 1..(x + n) : (A \o B)[i] = logged[w + i]
  <2>1. /\ A \o B \in Seq(Record) /\ Len(A \o B) = Len(A) + Len(B)
        /\ \A i \in 1..(Len(A) + Len(B)) :
              (A \o B)[i] = IF i <= Len(A) THEN A[i] ELSE B[i - Len(A)]
    <3>1. A \in Seq(Record) /\ B \in Seq(Record)
      BY <1>5, <1>6
    <3> QED BY ONLY <3>1, ConcatProperties
  <2>2. ASSUME NEW i \in 1..(x + n) PROVE (A \o B)[i] = logged[w + i]
    <3>1. CASE i <= x
      <4>1. i \in 1..(Len(A) + Len(B)) /\ i <= Len(A) /\ i \in 1..(x)
        BY <1>5, <1>6, <3>1
      <4> QED BY <1>5, <1>6, <2>1, <4>1
    <3>2. CASE i > x
      <4>1. i - x \in 1..n /\ w + x + (i - x) = w + i
        BY <3>2
      <4>2. i \in 1..(Len(A) + Len(B)) /\ ~(i <= Len(A)) /\ i - Len(A) = i - x
        BY <1>5, <1>6, <3>2
      <4>3. (A \o B)[i] = B[i - x]
        BY <2>1, <4>2
      <4> QED BY <1>6, <4>1, <4>3
    <3>3. i <= x \/ i > x
      OBVIOUS
    <3> QED BY ONLY <3>1, <3>2, <3>3
  <2> QED BY <1>5, <1>6, <2>1, <2>2
<1> DEFINE D == A \o B
<1> HIDE DEF D
<1>9. D \in Seq(Record) /\ Len(D) = x + n /\ \A i \in 1..(x + n) : D[i] = logged[w + i]
  BY <1>8 DEF D
<1>10. /\ D \o C \in Seq(Record) /\ Len(D \o C) = x + n + h
       /\ \A i \in 1..(x + n + h) : (D \o C)[i] = logged[w + i]
  <2>1. /\ D \o C \in Seq(Record) /\ Len(D \o C) = Len(D) + Len(C)
        /\ \A i \in 1..(Len(D) + Len(C)) :
              (D \o C)[i] = IF i <= Len(D) THEN D[i] ELSE C[i - Len(D)]
    BY <1>7, <1>9, ConcatProperties
  <2>2. ASSUME NEW i \in 1..(x + n + h) PROVE (D \o C)[i] = logged[w + i]
    <3>1. CASE i <= x + n
      <4>1. i \in 1..(Len(D) + Len(C)) /\ i <= Len(D) /\ i \in 1..(x + n)
        BY <1>7, <1>9, <3>1
      <4> QED BY <1>7, <1>9, <2>1, <4>1
    <3>2. CASE i > x + n
      <4>1. i - (x + n) \in 1..h /\ w + x + n + (i - (x + n)) = w + i
        BY <3>2
      <4>2. i \in 1..(Len(D) + Len(C)) /\ ~(i <= Len(D)) /\ i - Len(D) = i - (x + n)
        BY <1>7, <1>9, <3>2
      <4>3. (D \o C)[i] = C[i - (x + n)]
        BY <2>1, <4>2
      <4> QED BY <1>7, <4>1, <4>3
    <3>3. i <= x + n \/ i > x + n
      OBVIOUS
    <3> QED BY ONLY <3>1, <3>2, <3>3
  <2> QED BY <1>7, <1>9, <2>1, <2>2
<1>11. D \o C = p
  BY <1>4, <1>10, SeqEqual
<1> QED BY <1>3, <1>11 DEF D

(* The same after a step.                                                   *)
LEMMA UnwrittenIsMissingNext == FileInv' => (Unwritten = Missing)'
  BY UnwrittenIsMissing, PTL

(* Every step of the two threads is a step of the log or leaves it alone.   *)
LEMMA NextImplementsLog ==
    FileInv /\ FileInv' /\ [Next]_vars => [TL!NextLog]_(TL!logVars)
<1> SUFFICES ASSUME FileInv, FileInv', [Next]_vars PROVE [TL!NextLog]_(TL!logVars)
  OBVIOUS
<1> USE DEF TL!NextLog, TL!logVars
<1>1. /\ StreamOK /\ StreamOK' /\ logged \in Seq(Record) /\ Written \in Nat
      /\ Unwritten = Missing /\ Unwritten' = Missing'
  BY UnwrittenIsMissing, UnwrittenIsMissingNext, StoredIsPrefix DEF FileInv, TypeOK
<1>2. ASSUME UNCHANGED <<logged, file_open>>, Written' = Written
      PROVE  UNCHANGED TL!logVars
  BY <1>1, <1>2, StoreStays
<1>3. ASSUME UNCHANGED <<logged, file_open>>, file_open, Written <= Written', Written' \in Nat
      PROVE  [TL!NextLog]_(TL!logVars)
  <2>1. Written < Written' \/ Written' = Written
    BY <1>1, <1>3
  <2>2. Written < Written' => TL!Store
    BY <1>1, <1>3, StoreMoves DEF TL!Store, TL!Oldest, TL!Newest
  <2> QED BY <1>2, <1>3, <2>1, <2>2
<1>4. CASE UNCHANGED vars
  BY <1>2, <1>4 DEF vars, fileVars, Written
<1>5. ASSUME NEW type \in TypeOptions, TraceRetype(type) \/ TraceDisable(type)
      PROVE  UNCHANGED TL!logVars
  BY <1>2, <1>5 DEF TraceRetype, TraceDisable, fileVars, Written
<1>6. ASSUME Swap \/ Add \/ CloseSeek \/ HostFails
      PROVE  UNCHANGED TL!logVars
  BY <1>2, <1>6 DEF Swap, Add, CloseSeek, HostFails, fileVars, Written
<1>7. ASSUME NEW b \in Buffers, FlushAccount(b) \/ FlushPost(b)
      PROVE  UNCHANGED TL!logVars
  BY <1>2, <1>7 DEF FlushAccount, FlushPost, fileVars, Written
<1>8. ASSUME ~exited, OpenHeader PROVE UNCHANGED TL!logVars
  <2>1. Written' = Written
    BY <1>8, OpenHeaderKeepsInv
  <2> QED BY <1>2, <1>8, <2>1 DEF OpenHeader
<1>9. ASSUME ~exited, NEW type \in TypeOptions, TraceOpen(type) PROVE TL!OpenLog
  <2>1. cpu_pc = "idle" /\ qem_tracing_state = {} /\ file' = <<>> /\ logged' = <<>>
    BY <1>9 DEF TraceOpen, Fopen
  <2>2. file_open' = TRUE
    BY <1>9 DEF TraceOpen, Fopen
  <2>3. /\ ~file_open /\ flush_pc[Other] = "none" /\ qem_trace_buffer_sizes[Cur] = 0
    BY <1>9, <2>1 DEF FileInv, RunningInv, Phase, SemInv, SizesInv
  <2>4. Written = Len(logged)
    <3>0. PICK w, x, n, h \in Nat : OrderedAs(w, x, n, h)
      BY ONLY FileInv, <1>9, OrderNow
    <3>1. /\ w = Written /\ x = Writing /\ n = qem_trace_buffer_sizes[Cur] /\ h = Held
          /\ Len(logged) = w + x + n + h
      BY ONLY <3>0 DEF OrderedAs
    <3>2. x = 0 /\ n = 0 /\ h = 0
      BY <2>1, <2>3, <3>1 DEF Writing, Held
    <3> QED BY <3>1, <3>2
  <2>5. Missing = <<>>
    BY <1>1, <2>4, NothingMissing
  <2>6. Written' = 0
    BY <2>1 DEF Written
  <2>7. Stored' = <<>> /\ Missing' = <<>>
    BY <1>1, <2>1, <2>6, OpenMoves
  <2> QED BY <1>1, <2>2, <2>3, <2>5, <2>7 DEF TL!OpenLog
<1>10. ASSUME ~exited, NEW r \in Record, TraceOutput(r) PROVE TL!Log(r)
  <2>1. Written' = Written /\ UNCHANGED file_open /\ file_open /\ logged' = Append(logged, r)
    BY <1>10 DEF TraceOutput, fileVars, Written, FileInv, RunningInv, Phase
  <2>2. Written <= Written' /\ Written' <= Len(logged)
    BY <1>1, <2>1, StoredIsPrefix
  <2> QED BY <1>1, <2>1, <2>2, LogMoves DEF TL!Log, TL!Oldest, TL!Newest
<1>11. ASSUME ~exited, CloseFlush PROVE [TL!NextLog]_(TL!logVars)
  <2>1. Written <= Written' /\ Written' \in Nat
    BY <1>11, CloseFlushKeepsInv
  <2>2. UNCHANGED <<logged, file_open>> /\ file_open
    BY <1>11 DEF CloseFlush, FileInv, RunningInv, Phase
  <2> QED BY <1>3, <2>1, <2>2
<1>12. ASSUME ~exited, CloseHeader PROVE TL!CloseLog
  <2>1. Written' = Len(logged) /\ UNCHANGED logged
    BY <1>12, CloseHeaderKeepsInv DEF CloseHeader
  <2>2. file_open /\ file_open' = FALSE
    BY <1>12 DEF CloseHeader, FileInv, RunningInv, Phase
  <2> QED BY <1>1, <2>1, <2>2, CloseMoves DEF TL!CloseLog
<1>13. ASSUME ~exited, NEW b \in Buffers, FlushWrite(b) PROVE [TL!NextLog]_(TL!logVars)
  <2>1. file_open /\ Written <= Written' /\ Written' \in Nat
    BY <1>13, FlushWriteKeepsInv
  <2>2. UNCHANGED <<logged, file_open>>
    BY <1>13 DEF FlushWrite
  <2> QED BY <1>3, <2>1, <2>2
<1>14. ASSUME ~exited, ShortWrite PROVE [TL!NextLog]_(TL!logVars)
  <2>1. file_open /\ Written <= Written' /\ Written' \in Nat
    BY <1>14, ShortKeepsInv
  <2>2. UNCHANGED <<logged, file_open>>
    BY <1>14 DEF ShortWrite
  <2> QED BY <1>3, <2>1, <2>2
<1>15. CASE ~exited /\ Guest
  BY <1>5, <1>9, <1>10, <1>15 DEF Guest
<1>16. CASE ~exited /\ CpuStep
  BY <1>6, <1>8, <1>11, <1>12, <1>16 DEF CpuStep
<1>17. CASE ~exited /\ \E b \in Buffers : FlushStep(b)
  BY <1>7, <1>13, <1>17 DEF FlushStep
<1>18. CASE ~exited /\ (ShortWrite \/ HostFails)
  BY <1>6, <1>14, <1>18
<1> QED BY <1>4, <1>15, <1>16, <1>17, <1>18 DEF Next

(* Initially the log is closed and empty.                                   *)
LEMMA InitImplementsLog == Init => TL!InitLog
<1> SUFFICES ASSUME Init PROVE TL!InitLog
  OBVIOUS
<1>1. /\ StreamOK /\ logged \in Seq(Record) /\ Written = 0 /\ Len(logged) = 0 /\ FileInv
  BY InitFileInv DEF FileInv, TypeOK, Init, InitStream, Written
<1>2. Missing = <<>>
  BY <1>1, NothingMissing
<1>3. Stored = SubSeq(logged, 1, 0)
  BY <1>1, StoredIsPrefix
<1>4. Stored = <<>>
  BY <1>1, <1>3, SubSeqEmpty
<1>5. file_open = FALSE
  BY DEF Init, InitStream
<1> QED BY <1>1, <1>2, <1>4, <1>5, UnwrittenIsMissing DEF TL!InitLog

(* The double-buffered back end implements the log: in every interleaving of
   the virtual CPU's thread and the writers no record of a session is lost,
   repeated or stored out of order, and the file is complete when the session
   is closed.                                                               *)
THEOREM FileImplementsLog == Spec => ImplementsTraceLog
<1>1. Spec => []FileInv
  BY FileInvariant
<1> QED BY <1>1, InitImplementsLog, NextImplementsLog, PTL
        DEF Spec, ImplementsTraceLog, TL!LogSpec
=============================================================================
