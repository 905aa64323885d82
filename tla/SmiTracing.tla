----------------------------- MODULE SmiTracing -----------------------------
(***************************************************************************)
(* The SMI back end of the tracer (QEMTrace/qem_trace_smi.c), driven by    *)
(* the guest through its start, stop and traced instructions, together     *)
(* with the client program of the tests (Tests/i386/test_smi_client.c), on *)
(* top of a connected SMI.  One virtual CPU: the header of SMILib allows   *)
(* one sender and one receiver.                                            *)
(*                                                                         *)
(* A session on the wire is the stream version, the record size, the       *)
(* records, an all-zero record that ends the stream, and the padding of a  *)
(* flush; the client drops the padding when it meets the end record.       *)
(***************************************************************************)
EXTENDS SmiChannel, FiniteSets

CONSTANTS
    WordSize,      \* sizeof(uint32_t), in cells
    RecordSize,    \* sizeof(qem_trace_t), in cells
    Records,       \* the records the guest's accesses give rise to
    MaxSessions,   \* bound: how often tracing starts from the stopped state
    MaxRecords     \* bound: the records of all sessions together

ASSUME SizesAssumption == WordSize \in Nat \ {0} /\ RecordSize \in Nat \ {0}

VERSION == "version"     \* QEM_SMI_STREAM_VERSION
SIZE    == "size"        \* the value sizeof(qem_trace_t)
EOS     == "eos"         \* a record of zeros

Items == {VERSION, SIZE, EOS} \cup Records

ItemSize(m) == IF m \in {VERSION, SIZE} THEN WordSize ELSE RecordSize

(* The k-th cell of an item.  The end record is all zeros; no record of an
   access is, since its time stamp is the host's counter.                   *)
CellOf(m, k) == IF m = EOS THEN Zero ELSE <<m, k>>

Cells(m) == [k \in 1..ItemSize(m) |-> CellOf(m, k)]

(* The records are none of the other things an operation passes on, and none
   of them is all zeros.                                                    *)
ASSUME RecordsAssumption ==
    /\ Records \cap {VERSION, SIZE, EOS, "flush"} = {}
    /\ \A r \in Records : Cells(r) # Cells(EOS)

(* The tracer and the client program are callers of the SMI.                *)
ASSUME CallersAssumption ==
    /\ \A m \in Items : Cells(m) \in Messages
    /\ {WordSize, RecordSize} \subseteq ReadSizes

VARIABLES
    qem_tracing_state,  \* the set of the trace types that are on
    trc_calls,          \* the engine calls the current operation still has to make
    trc_sent,           \* history: every item handed to the engine
    rdr_state,          \* what the client program reads next
    rdr_called,         \* its qem_smi_receive was called and not yet looked at
    rdr_seen            \* history: every item it read, as cells

tracingVars == <<qem_tracing_state, trc_calls, trc_sent>>
readerVars  == <<rdr_state, rdr_called, rdr_seen>>

TraceTypes == {"ITRACE", "DTRACE"}

InitTracing ==
    /\ Init
    /\ qem_tracing_state = {}
    /\ trc_calls = <<>>
    /\ trc_sent = <<>>
    /\ rdr_state = "version"
    /\ rdr_called = FALSE
    /\ rdr_seen = <<>>

CountSent(S) == Cardinality({i \in DOMAIN trc_sent : trc_sent[i] \in S})

(* The virtual CPU executes its next instruction only when the operation of
   the previous one has returned.                                           *)
Ready == srv_pc = "idle" /\ trc_calls = <<>>

-----------------------------------------------------------------------------
(* Mutant: the close does not flush.                                        *)
CloseSequenceUnflushed == <<EOS>>

(* qem_init_tracing, once connected, and qem_close_tracing.                 *)
InitSequence  == <<VERSION, SIZE>>
CloseSequence == <<EOS, "flush">>

(* qem_trace_enable(type): nothing when exactly this type is on; the stream
   is opened when nothing is on; the new type replaces what was on.  The
   state is assigned after the stream was opened, which no one else sees.   *)
TraceEnable(type) ==
    /\ Ready
    /\ qem_tracing_state # type
    /\ trc_calls' = IF qem_tracing_state = {} THEN InitSequence ELSE <<>>
    /\ qem_tracing_state' = type
    /\ UNCHANGED <<trc_sent, sharedVars, srvVars>>

(* qem_trace_disable(type): clears the type's bits and closes the stream
   when nothing is left.                                                    *)
TraceDisable(type) ==
    /\ Ready
    /\ qem_tracing_state # {}
    /\ qem_tracing_state' = qem_tracing_state \ type
    /\ trc_calls' = IF qem_tracing_state' = {} THEN CloseSequence ELSE <<>>
    /\ UNCHANGED <<trc_sent, sharedVars, srvVars>>

(* A helper sees an access of a type that is on: qem_trace_output.          *)
TraceOutput(r) ==
    /\ Ready
    /\ qem_tracing_state # {}
    /\ trc_calls' = <<r>>
    /\ UNCHANGED <<qem_tracing_state, trc_sent, sharedVars, srvVars>>

(* The operation makes its next engine call.                                *)
CallSend ==
    /\ trc_calls # <<>>
    /\ Head(trc_calls) # "flush"
    /\ Send(Cells(Head(trc_calls)))
    /\ trc_sent' = Append(trc_sent, Head(trc_calls))
    /\ trc_calls' = Tail(trc_calls)
    /\ UNCHANGED qem_tracing_state

CallFlush ==
    /\ trc_calls # <<>>
    /\ Head(trc_calls) = "flush"
    /\ Flush
    /\ trc_calls' = Tail(trc_calls)
    /\ UNCHANGED <<qem_tracing_state, trc_sent>>

-----------------------------------------------------------------------------
(* The client program: receive a word and compare it with the version,
   receive a word and compare it with the record size, then receive records
   until the end record, and start over.                                    *)

ReaderSize == IF rdr_state = "record" THEN RecordSize ELSE WordSize

ReaderReceive ==
    /\ rdr_state # "failed"
    /\ ~rdr_called
    /\ Receive(ReaderSize)
    /\ rdr_called' = TRUE
    /\ UNCHANGED <<rdr_state, rdr_seen>>

(* "Wrong stream version" and "Wrong trace size" end the program.           *)
ReaderWord ==
    /\ cli_pc = "idle"
    /\ rdr_called
    /\ \/ rdr_state = "version"
          /\ rdr_state' = IF cli_got = Cells(VERSION) THEN "size" ELSE "failed"
       \/ rdr_state = "size"
          /\ rdr_state' = IF cli_got = Cells(SIZE) THEN "record" ELSE "failed"
    /\ rdr_called' = FALSE
    /\ rdr_seen' = Append(rdr_seen, cli_got)
    /\ UNCHANGED <<cliVars, sharedVars>>

(* The client just received a record; it is the end record.  The client
   compares address and timestamp with 0: a record of a metadata build (the
   one the client is compiled for) has a timestamp, so this is the same.     *)
AtRecord      == cli_pc = "idle" /\ rdr_called /\ rdr_state = "record"
AtEndOfStream == AtRecord /\ cli_got = Cells(EOS)

ReaderRecord ==
    /\ AtRecord
    /\ ~AtEndOfStream
    /\ rdr_called' = FALSE
    /\ rdr_seen' = Append(rdr_seen, cli_got)
    /\ UNCHANGED <<rdr_state, cliVars, sharedVars>>

ReaderEndOfStream ==
    /\ AtEndOfStream
    /\ PostServerFlush
    /\ rdr_state' = "version"
    /\ rdr_called' = FALSE
    /\ rdr_seen' = Append(rdr_seen, cli_got)

-----------------------------------------------------------------------------
Guest ==
    \/ \E type \in (SUBSET TraceTypes) \ {{}} :
          \/ /\ TraceEnable(type)
             /\ qem_tracing_state = {} => CountSent({VERSION}) < MaxSessions
          \/ TraceDisable(type)
    \/ \E r \in Records : TraceOutput(r) /\ CountSent(Records) < MaxRecords

Tracer == CallSend \/ CallFlush \/ (EngineStep /\ UNCHANGED tracingVars)

Reader ==
    \/ ReaderReceive \/ ReaderWord \/ ReaderRecord \/ ReaderEndOfStream
    \/ ClientStep /\ UNCHANGED readerVars

NextTracing ==
    \/ (Guest \/ Tracer) /\ UNCHANGED <<cliVars, readerVars>>
    \/ Reader /\ UNCHANGED <<srvVars, tracingVars>>
    \/ ServerSpurious /\ UNCHANGED <<cliVars, tracingVars, readerVars>>
    \/ ClientSpurious /\ UNCHANGED <<srvVars, tracingVars, readerVars>>

allVars == <<vars, tracingVars, readerVars>>

TracingSpec == InitTracing /\ [][NextTracing]_allVars

(* Both programs run; the guest owes nothing.                               *)
TracingLive ==
    /\ TracingSpec
    /\ WF_allVars(Tracer /\ UNCHANGED <<cliVars, readerVars>>)
    /\ WF_allVars(Reader /\ UNCHANGED <<srvVars, tracingVars>>)
    /\ <>[][~(ServerSpurious \/ ClientSpurious)]_allVars

-----------------------------------------------------------------------------
(* The types of the channel, of the tracer and of the client program.       *)
TracingTypeOK ==
    /\ TypeOK
    /\ qem_tracing_state \subseteq TraceTypes
    /\ trc_calls \in Seq(Items \cup {"flush"})
    /\ trc_sent \in Seq(Items)
    /\ rdr_state \in {"version", "size", "record", "failed"}
    /\ rdr_called \in BOOLEAN
    /\ rdr_seen \in Seq(Seq(Cell))

(* What the client program reads is, item by item, what the tracer sent:
   nothing is lost, repeated, torn at a block boundary or taken from the
   padding of a flush, across any number of sessions.                       *)
ReaderSeesWhatWasSent ==
    /\ Len(rdr_seen) <= Len(trc_sent)
    /\ \A i \in DOMAIN rdr_seen : rdr_seen[i] = Cells(trc_sent[i])

(* The client never finds a wrong version or a wrong size.                  *)
ReaderNeverFails == rdr_state # "failed"

(* qem_smi_post_server_flush drops the padding and nothing else: the cells
   behind the end record in the client's block are the zeros of the flush.  *)
FlushDropsOnlyPadding ==
    AtEndOfStream => \A i \in Offsets : i >= cli_index => cli_local[i] = Zero

(* A session that was closed reaches the client as a whole, without another
   session having to push it out.                                           *)
ClosedSessionsArrive ==
    \A n \in 1..(3 * MaxSessions + MaxRecords) :
        (n \in DOMAIN trc_sent /\ trc_sent[n] = EOS) ~> n \in DOMAIN rdr_seen

(* Every operation of the guest on the tracer returns.                      *)
GuestIsNotStuck == ~Ready ~> Ready
=============================================================================
