------------------------- MODULE GuestTracingProofs -------------------------
(***************************************************************************)
(* Theorems about GuestTracing: the records of an instruction tell its      *)
(* events.                                                                  *)
(***************************************************************************)
EXTENDS GuestTracing, GuestFlagsProofs

(* The types of an event and of a record.                                   *)
EventOK(e) == e.kind \in Kinds /\ e.d \in Description /\ IsVirtual(e.virt)
RecordOK(r) == IsVirtual(r.virt) /\ r.flags \subseteq 0..31

(* A record tells an event: all that the properties ask of the two.         *)
Tells(e, r) ==
    /\ EventTold(e, r) /\ AddressTold(e, r)
    /\ meta => AttributesTold(e, Printed(r.flags))

(* The properties together: an inductive invariant.                         *)
GuestOK ==
    GuestTypeOK /\ RecordsMatchEvents /\ EventIsTold /\ AddressIsTold /\ AttributesAreTold

(* In one build the readers do not change.                                  *)
LEMMA SameReaders ==
    ASSUME meta' = meta
    PROVE  \A w : Printed(w)' = Printed(w) /\ LeadingEvent(w)' = LeadingEvent(w)
<1> USE DEF FirstOf, Code, QEM_TRACE_EVENT_MASK, QEM_TRACE_GRANULARITY_MASK,
            QEM_TRACE_DATA_SIZE_MASK, QEM_TRACE_CACHE_LEVEL_MASK, QEM_TRACE_EVENT,
            QEM_TRACE_GRANULARITY, QEM_TRACE_DATA_SIZE, QEM_TRACE_CACHE_LEVEL
<1>1. \A w : LeadingEvent(w)' = LeadingEvent(w)
  BY DEF LeadingEvent
<1>2. \A w : Printed(w)' = Printed(w)
  BY DEF Printed, PrintedEvent, PrintedGranularity, PrintedSize, PrintedLevel,
         QEM_TRACE_DATA_TYPE_INST, QEM_TRACE_ACCESS_TYPE_WRITE, QEM_TRACE_PL_USER,
         QEM_TRACE_COHERENCY_REQ, QEM_TRACE_CACHE_INHIBIT_ON, QEM_TRACE_CACHE_WT_ON,
         QEM_TRACE_EVENT_EXCLUSIVE
<1> QED BY <1>1, <1>2

(* What a step must show of the events and records it leaves.               *)
LEMMA OutcomeTells ==
    ASSUME UNCHANGED <<target, meta, qem_tracing_state>>, qem_tracing_state \subseteq Kinds,
           IsProcessor', NEW events, NEW records, done' = events, out' = records,
           DOMAIN records = {i \in DOMAIN events : Recorded(events[i])},
           \A i \in DOMAIN events : EventOK(events[i]),
           \A i \in DOMAIN records : RecordOK(records[i]) /\ Tells(events[i], records[i])
    PROVE  GuestOK'
<1>1. RecordedEvents' = DOMAIN records
  BY DEF RecordedEvents, Recorded
<1>2. RecordsMatchEvents'
  BY <1>1 DEF RecordsMatchEvents
<1>3. EventIsTold'
  BY <1>1, SameReaders DEF EventIsTold, Tells, EventTold
<1>4. AddressIsTold'
  BY <1>1 DEF AddressIsTold, Tells, AddressTold
<1>5. AttributesAreTold'
  <2>1. ASSUME meta, NEW i \in DOMAIN records
        PROVE  AttributesTold(done[i], Printed(out[i].flags))'
    <3>1. Printed(out[i].flags)' = Printed(records[i].flags) /\ done'[i] = events[i]
      BY SameReaders
    <3> QED BY <2>1, <3>1 DEF Tells, AttributesTold
  <2> QED BY <1>1, <2>1 DEF AttributesAreTold
<1>6. GuestTypeOK'
  <2>1. Description' = Description
    BY DEF Description, QEM_TRACE_EVENT, QEM_TRACE_GRANULARITY, QEM_TRACE_DATA_SIZE,
           QEM_TRACE_CACHE_LEVEL
  <2>2. \A a : IsVirtual(a)' = IsVirtual(a)
    BY DEF IsVirtual
  <2> QED BY <2>1, <2>2 DEF GuestTypeOK, EventOK, RecordOK
<1> QED BY <1>2, <1>3, <1>4, <1>5, <1>6 DEF GuestOK

(* An instruction with one event, and a record of it if its kind is traced.  *)
LEMMA SingleOK ==
    ASSUME UNCHANGED <<target, meta, qem_tracing_state>>, qem_tracing_state \subseteq Kinds,
           IsProcessor', NEW ev, NEW r, NEW kind, done' = <<ev>>,
           out' = IF kind \in qem_tracing_state THEN <<r>> ELSE <<>>,
           Recorded(ev) <=> kind \in qem_tracing_state,
           EventOK(ev), RecordOK(r), Tells(ev, r)
    PROVE  GuestOK'
<1> DEFINE records == IF kind \in qem_tracing_state THEN <<r>> ELSE <<>>
<1>1. DOMAIN <<ev>> = {1} /\ <<ev>>[1] = ev
  OBVIOUS
<1>2. /\ kind \in qem_tracing_state => DOMAIN records = {1} /\ records[1] = r
      /\ kind \notin qem_tracing_state => DOMAIN records = {}
  OBVIOUS
<1>3. DOMAIN records = {i \in DOMAIN <<ev>> : Recorded(<<ev>>[i])}
  BY <1>1, <1>2
<1>4. \A i \in DOMAIN <<ev>> : EventOK(<<ev>>[i])
  BY <1>1
<1>5. \A i \in DOMAIN records : RecordOK(records[i]) /\ Tells(<<ev>>[i], records[i])
  BY <1>1, <1>2
<1> HIDE DEF records
<1>6. out' = records
  BY DEF records
<1> QED BY <1>3, <1>4, <1>5, <1>6, OutcomeTells

(* An instruction none of whose events is recorded.                         *)
LEMMA UntracedOK ==
    ASSUME UNCHANGED <<target, meta, qem_tracing_state>>, qem_tracing_state \subseteq Kinds,
           IsProcessor', NEW events, done' = events, NEW records, out' = records,
           DOMAIN records = {}, \A i \in DOMAIN events : EventOK(events[i]) /\ ~Recorded(events[i])
    PROVE  GuestOK'
<1>1. DOMAIN records = {i \in DOMAIN events : Recorded(events[i])}
  OBVIOUS
<1> QED BY <1>1, OutcomeTells

(* No instruction is in progress.                                           *)
LEMMA IdleOK ==
    ASSUME Idle, IsProcessor, qem_tracing_state \subseteq Kinds
    PROVE  GuestOK
<1>1. DOMAIN done = {} /\ DOMAIN out = {}
  BY DEF Idle
<1> QED BY <1>1 DEF GuestOK, GuestTypeOK, RecordsMatchEvents, RecordedEvents, EventIsTold,
               AddressIsTold, AttributesAreTold

(* The same of the next state.                                              *)
LEMMA IdleNextOK ==
    ASSUME done' = <<>>, out' = <<>>, IsProcessor', qem_tracing_state' \subseteq Kinds
    PROVE  GuestOK'
<1>1. DOMAIN done' = {} /\ DOMAIN out' = {}
  OBVIOUS
<1> QED BY <1>1 DEF GuestOK, GuestTypeOK, RecordsMatchEvents, RecordedEvents, EventIsTold,
               AddressIsTold, AttributesAreTold

(* The description a record was made of, instead of the word it was put in.  *)
LEMMA DescriptionTells ==
    ASSUME NEW d \in Description, NEW e, NEW r, r.flags = Flags(d),
           \/ d.event = e.d.event /\ (meta \/ d.event # "FLUSH_INVAL")
           \/ e.why \cap {"SharedCode", "AsDcbf"} # {},
           d.inst = e.d.inst, d.write = e.d.write \/ "ZeroAsRead" \in e.why,
           AddressTold(e, r), AttributesTold(e, d)
    PROVE  Tells(e, r)
<1>1. Coded(d) /\ d.inst \in BOOLEAN /\ d.write \in BOOLEAN
  BY DEF Description, Coded
<1>2. EventTold(e, r)
  BY <1>1, EventIsRead, KindIsTold DEF EventTold, ToldAs
<1>3. meta => Printed(r.flags) = d
  BY WordsAreRead
<1> QED BY <1>2, <1>3 DEF Tells

(* What the helpers and the models of the events set in a description.      *)
Detail(d, inst, user, inhibit, coherent, wt) ==
    [d EXCEPT !.inst = inst, !.user = user, !.inhibit = inhibit, !.coherent = coherent, !.wt = wt]

(* ------------------------------- PowerPC --------------------------------- *)

(* What a helper is told of an event is so, but for the reasons named.      *)
ToldSame(told, d, why) ==
    /\ \/ told.event = d.event /\ (meta \/ d.event # "FLUSH_INVAL")
       \/ why \cap {"SharedCode", "AsDcbf"} # {}
    /\ told.write = d.write \/ "ZeroAsRead" \in why
    /\ told.gran = d.gran /\ told.exclusive = d.exclusive
    /\ told.size = d.size \/ "StringTail" \in why
    /\ told.level = d.level \/ "PrefetchLevel" \in why

(* The tracer ends QEMU when it is asked for an address.                    *)
Aborting == meta /\ cpu.mmu = "UNKNOWN"

(* The attributes and the address the tracer finds, of whatever type an entry
   is.                                                                      *)
LEMMA PpcInfo ==
    ASSUME NEW addr, NEW real, NEW garbage \in BOOLEAN
    PROVE  LET info == qem_ppc_get_info_addr_mem_trace(addr, real, garbage)
               data == Translation("INT", "R", addr)
               e == IF data # NoEntry THEN data ELSE Translation("CODE", "X", addr)
           IN  /\ info.inhibit \in BOOLEAN /\ info.coherent \in BOOLEAN /\ info.wt \in BOOLEAN
               /\ info.phys = IF e = NoEntry \/ cpu.mmu = "REAL" THEN NoPhys
                              ELSE Physical(e, addr)
               /\ e # NoEntry /\ cpu.mmu = "BOOKE206" =>
                     /\ info.inhibit <=> CacheOff(real) \/ "I" \in e.attr
                     /\ info.coherent <=> "M" \in e.attr
                     /\ info.wt <=> "W" \in e.attr
<1> DEFINE info == qem_ppc_get_info_addr_mem_trace(addr, real, garbage)
           data == Translation("INT", "R", addr)
           e == IF data # NoEntry THEN data ELSE Translation("CODE", "X", addr)
           known == e # NoEntry /\ cpu.mmu = "BOOKE206"
<1>1. info = [phys |-> IF e = NoEntry \/ cpu.mmu = "REAL" THEN NoPhys ELSE Physical(e, addr),
              inhibit |-> known /\ (CacheOff(real) \/ "I" \in e.attr),
              coherent |-> known /\ "M" \in e.attr,
              wt |-> IF known THEN "W" \in e.attr ELSE garbage]
  BY DEF qem_ppc_get_info_addr_mem_trace
<1> HIDE DEF info, data, e
<1>2. /\ info.phys = IF e = NoEntry \/ cpu.mmu = "REAL" THEN NoPhys ELSE Physical(e, addr)
      /\ info.inhibit = (known /\ (CacheOff(real) \/ "I" \in e.attr))
      /\ info.coherent = (known /\ "M" \in e.attr)
      /\ info.wt = IF known THEN "W" \in e.attr ELSE garbage
  BY <1>1
<1>3. info.inhibit \in BOOLEAN /\ info.coherent \in BOOLEAN
  BY <1>2, Zenon
<1>4. info.wt \in BOOLEAN
  <2>1. CASE known
    <3>1. info.wt = ("W" \in e.attr)
      BY <1>2, <2>1
    <3>2. ("W" \in e.attr) \in BOOLEAN
      OBVIOUS
    <3> QED BY <3>1, <3>2
  <2>2. CASE ~known
    <3>1. info.wt = garbage
      BY <1>2, <2>2
    <3>2. garbage \in BOOLEAN
      OBVIOUS
    <3> QED BY ONLY <3>1, <3>2, Zenon
  <2> QED BY <2>1, <2>2
<1>5. ASSUME known
      PROVE  /\ info.inhibit <=> CacheOff(real) \/ "I" \in e.attr
             /\ info.coherent <=> "M" \in e.attr
             /\ info.wt <=> "W" \in e.attr
  <2>1. info.wt = ("W" \in e.attr)
    BY <1>2, <1>5
  <2> QED BY <1>2, <1>5, <2>1, Zenon
<1> QED BY <1>2, <1>3, <1>4, <1>5, Zenon DEF info, data, e

(* A helper of PowerPC that is called with the description of the event, and
   with its address but for the reasons named, makes a record that tells it. *)
LEMMA PpcTells ==
    ASSUME target = "ppc", NEW kind \in Kinds, NEW d \in Description, NEW told \in Description,
           NEW addr, NEW virt, NEW e, NEW performed, NEW why, NEW garbage \in BOOLEAN,
           ToldSame(told, d, why),
           virt = addr \/ why \cap AddressReasonNames # {}, IsVirtual(addr), IsVirtual(virt),
           NEW ev, ev = PpcEvent(kind, d, addr, e, performed, why),
           NEW r, r = PpcRecord(PpcCall(kind, virt, told), garbage)
    PROVE  EventOK(ev) /\ RecordOK(r) /\ Tells(ev, r)
<1> DEFINE info == qem_ppc_get_info_addr_mem_trace(virt, Access(kind), garbage)
           data == Translation("INT", "R", addr)
           found == IF data # NoEntry THEN data ELSE Translation("CODE", "X", addr)
           known == e # NoEntry
           inst == kind = "I"
           user == "CE" \in cpu.msr
           mode == "PR" \in cpu.msr
           inhibit == known /\ (CacheOff(Access(kind)) \/ "I" \in e.attr)
           coherent == known /\ "M" \in e.attr
           wt == known /\ "W" \in e.attr
           rd == Detail(told, inst, user, info.inhibit, info.coherent, info.wt)
           ed == Detail(d, inst, mode, inhibit, coherent, wt)
<1>1. /\ inst \in BOOLEAN /\ user \in BOOLEAN /\ mode \in BOOLEAN
      /\ inhibit \in BOOLEAN /\ coherent \in BOOLEAN /\ wt \in BOOLEAN
  <2>1. inst \in BOOLEAN /\ user \in BOOLEAN /\ mode \in BOOLEAN
    OBVIOUS
  <2>2. inhibit \in BOOLEAN /\ coherent \in BOOLEAN /\ wt \in BOOLEAN
    BY Zenon
  <2> QED BY <2>1, <2>2, Zenon
<1>2. info.inhibit \in BOOLEAN /\ info.coherent \in BOOLEAN /\ info.wt \in BOOLEAN
  BY PpcInfo
(* the record and the event *)
<1>3. r.flags = Flags(rd) /\ r.virt = virt /\ r.phys = IF meta THEN info.phys ELSE virt
  BY DEF PpcRecord, PpcCall, Detail
<1>4. /\ ev.kind = kind /\ ev.d = ed /\ ev.virt = addr
      /\ ev.phys = IF known THEN Physical(e, addr) ELSE NoPhys
  BY DEF PpcEvent, Event, Detail, Description
<1>5. ev.why = why \cup Reason(~known, "Unmapped") \cup Reason(found # e, "OtherEntry")
                   \cup Reason(mode # user, "CriticalEnable")
                   \cup Reason(cpu.mmu # "BOOKE206", "NoAttributes")
                   \cup Reason(cpu.mmu = "REAL", "NoLookup")
                   \cup Reason(Aborting, "UnknownMmu")
  BY DEF PpcEvent, Event, Aborting
<1>6. /\ why \subseteq ev.why
      /\ "Unmapped" \notin ev.why => known
      /\ "OtherEntry" \notin ev.why => found = e
      /\ "CriticalEnable" \notin ev.why => mode = user
      /\ "NoAttributes" \notin ev.why => cpu.mmu = "BOOKE206"
      /\ "NoLookup" \notin ev.why => cpu.mmu # "REAL"
  BY <1>5, Zenon DEF Reason
<1>7. ASSUME ev.why \cap TranslationReasonNames = {}
      PROVE  /\ virt = addr /\ info.phys = ev.phys
             /\ cpu.mmu = "BOOKE206" =>
                   info.inhibit = inhibit /\ info.coherent = coherent /\ info.wt = wt
  <2>1. virt = addr /\ known /\ found = e /\ cpu.mmu # "REAL"
    BY <1>6, <1>7 DEF TranslationReasonNames
  <2>2. info.phys = ev.phys
    BY <2>1, <1>4, PpcInfo
  <2>3. ASSUME cpu.mmu = "BOOKE206"
        PROVE  /\ info.inhibit <=> CacheOff(Access(kind)) \/ "I" \in e.attr
               /\ info.coherent <=> "M" \in e.attr
               /\ info.wt <=> "W" \in e.attr
    BY <2>1, <2>3, PpcInfo
  <2> HIDE DEF info
  <2>4. cpu.mmu = "BOOKE206" =>
          info.inhibit = inhibit /\ info.coherent = coherent /\ info.wt = wt
    BY <1>2, <2>1, <2>3, Zenon
  <2> QED BY <2>1, <2>2, <2>4
<1> HIDE DEF info, found, known, inst, user, mode, inhibit, coherent, wt
<1>8. /\ rd \in Description
      /\ rd.inst = inst /\ rd.user = user /\ rd.inhibit = info.inhibit
      /\ rd.coherent = info.coherent /\ rd.wt = info.wt
      /\ rd.event = told.event /\ rd.write = told.write /\ rd.size = told.size
      /\ rd.gran = told.gran /\ rd.level = told.level /\ rd.exclusive = told.exclusive
  <2>1. rd \in Description
    BY <1>1, <1>2 DEF Detail, Description
  <2>2. /\ rd.inst = inst /\ rd.user = user /\ rd.inhibit = info.inhibit
        /\ rd.coherent = info.coherent /\ rd.wt = info.wt
    BY <1>1, <1>2 DEF Detail, Description
  <2>3. /\ rd.event = told.event /\ rd.write = told.write /\ rd.size = told.size
        /\ rd.gran = told.gran /\ rd.level = told.level /\ rd.exclusive = told.exclusive
    BY <1>1, <1>2 DEF Detail, Description
  <2> QED BY <2>1, <2>2, <2>3
<1>9. /\ ed \in Description
      /\ ed.inst = inst /\ ed.user = mode /\ ed.inhibit = inhibit
      /\ ed.coherent = coherent /\ ed.wt = wt
      /\ ed.event = d.event /\ ed.write = d.write /\ ed.size = d.size
      /\ ed.gran = d.gran /\ ed.level = d.level /\ ed.exclusive = d.exclusive
  <2>1. ed \in Description
    BY <1>1, <1>2 DEF Detail, Description
  <2>2. /\ ed.inst = inst /\ ed.user = mode /\ ed.inhibit = inhibit
        /\ ed.coherent = coherent /\ ed.wt = wt
    BY <1>1, <1>2 DEF Detail, Description
  <2>3. /\ ed.event = d.event /\ ed.write = d.write /\ ed.size = d.size
        /\ ed.gran = d.gran /\ ed.level = d.level /\ ed.exclusive = d.exclusive
    BY <1>1, <1>2 DEF Detail, Description
  <2> QED BY <2>1, <2>2, <2>3
<1> HIDE DEF rd, ed
<1>10. AddressTold(ev, r)
  BY <1>3, <1>4, <1>6, <1>7 DEF AddressTold, TranslationReasonNames
<1>11. AttributesTold(ev, rd)
  BY <1>4, <1>6, <1>7, <1>8, <1>9 DEF AttributesTold, PageReasonNames, ToldSame
<1>12. Tells(ev, r)
  <2>1. /\ \/ rd.event = ev.d.event /\ (meta \/ rd.event # "FLUSH_INVAL")
           \/ ev.why \cap {"SharedCode", "AsDcbf"} # {}
        /\ rd.write = ev.d.write \/ "ZeroAsRead" \in ev.why
    BY <1>4, <1>6, <1>8, <1>9 DEF ToldSame
  <2> QED BY <1>3, <1>4, <1>8, <1>9, <1>10, <1>11, <2>1, DescriptionTells
<1>13. EventOK(ev)
  BY <1>4, <1>9 DEF EventOK
<1>14. RecordOK(r)
  BY <1>3, <1>8, FlagsAreWords DEF RecordOK, Description, Coded
<1> QED BY <1>12, <1>13, <1>14

(* An event and the call of the helper for it.                              *)
PpcPair(ev, c) ==
    /\ EventOK(ev)
    /\ Recorded(ev) <=> c.kind \in qem_tracing_state /\ ~Aborting
    /\ \A g \in BOOLEAN : RecordOK(PpcRecord(c, g)) /\ Tells(ev, PpcRecord(c, g))

(* The events that happen are recorded, and those that are known too late.  *)
LEMMA PpcPairs ==
    ASSUME target = "ppc", NEW kind \in Kinds, NEW d \in Description, NEW told \in Description,
           NEW addr, NEW virt, NEW e, NEW performed \in BOOLEAN, NEW why,
           ToldSame(told, d, why),
           virt = addr \/ why \cap AddressReasonNames # {}, IsVirtual(addr), IsVirtual(virt),
           Seen(why), performed \/ why \cap {"Early", "CompareFailed", "PrivilegeLate"} # {}
    PROVE  PpcPair(PpcEvent(kind, d, addr, e, performed, why), PpcCall(kind, virt, told))
<1> DEFINE ev == PpcEvent(kind, d, addr, e, performed, why)
           c == PpcCall(kind, virt, told)
<1>1. \A g \in BOOLEAN : EventOK(ev) /\ RecordOK(PpcRecord(c, g)) /\ Tells(ev, PpcRecord(c, g))
  BY PpcTells
<1>2. EventOK(ev)
  BY <1>1
<1>3. ev.kind = kind /\ ev.performed = performed /\ c.kind = kind
  BY DEF PpcEvent, Event, PpcCall
<1>4. why \subseteq ev.why /\ (Seen(ev.why) <=> ~Aborting)
  BY DEF PpcEvent, Event, Reason, Seen, Aborting
<1>5. Recorded(ev) <=> c.kind \in qem_tracing_state /\ ~Aborting
  BY <1>3, <1>4 DEF Recorded
<1> QED BY <1>1, <1>2, <1>5 DEF PpcPair

(* An instruction whose events and calls pair.                              *)
LEMMA PpcOutcomeOK ==
    ASSUME target = "ppc", GuestOK, cpu' \in PpcProcessors, NEW events, NEW calls,
           PpcOutcome(events, calls), DOMAIN events = DOMAIN calls,
           \A i \in DOMAIN calls : PpcPair(events[i], calls[i])
    PROVE  GuestOK'
<1> DEFINE aborts == Aborting /\ Traced(calls) # {}
           reached == {i \in DOMAIN events : aborts => \A j \in Traced(calls) : i <= j}
           recorded == IF aborts THEN {} ELSE Traced(calls)
           happened == [i \in reached |-> events[i]]
<1>1. PICK garbage \in [DOMAIN calls -> BOOLEAN] :
         out' = [i \in recorded |-> PpcRecord(calls[i], garbage[i])]
  BY DEF PpcOutcome, Aborting
<1> DEFINE records == [i \in recorded |-> PpcRecord(calls[i], garbage[i])]
<1>2. /\ UNCHANGED <<target, meta, qem_tracing_state>> /\ done' = happened
      /\ qem_tracing_state \subseteq Kinds /\ IsProcessor'
  BY DEF PpcOutcome, GuestOK, GuestTypeOK, IsProcessor, Aborting
<1>3. \A i \in DOMAIN happened : i \in DOMAIN calls /\ happened[i] = events[i]
  OBVIOUS
<1>4. \A i \in DOMAIN happened : EventOK(happened[i])
  BY <1>3 DEF PpcPair
<1>5. DOMAIN records = {i \in DOMAIN happened : Recorded(happened[i])}
  <2>1. CASE aborts
    BY <1>3, <2>1 DEF PpcPair
  <2>2. CASE ~aborts
    <3>1. reached = DOMAIN calls /\ recorded = Traced(calls)
      BY <2>2
    <3>2. \A i \in DOMAIN calls : Recorded(events[i]) <=> i \in Traced(calls)
      <4>1. \A i \in DOMAIN calls : i \in Traced(calls) <=> calls[i].kind \in qem_tracing_state
        BY DEF Traced
      <4> QED BY <2>2, <4>1 DEF PpcPair
    <3> HIDE DEF reached, recorded
    <3> QED BY <3>1, <3>2 DEF Traced
  <2> QED BY <2>1, <2>2
<1>6. ASSUME NEW i \in DOMAIN records
      PROVE  RecordOK(records[i]) /\ Tells(happened[i], records[i])
  <2>1. i \in DOMAIN calls /\ garbage[i] \in BOOLEAN /\ records[i] = PpcRecord(calls[i], garbage[i])
    BY DEF Traced
  <2>2. PpcPair(events[i], calls[i]) /\ happened[i] = events[i]
    BY <1>5, <2>1
  <2> HIDE DEF records, happened
  <2>3. RecordOK(PpcRecord(calls[i], garbage[i])) /\ Tells(events[i], PpcRecord(calls[i], garbage[i]))
    BY <2>1, <2>2 DEF PpcPair
  <2> QED BY <2>1, <2>2, <2>3
<1> HIDE DEF records, happened
<1>7. out' = records
  BY <1>1 DEF records
<1> QED BY <1>2, <1>4, <1>5, <1>6, <1>7, OutcomeTells

(* An instruction with one event.                                           *)
LEMMA PpcSingleOK ==
    ASSUME target = "ppc", GuestOK, cpu' \in PpcProcessors, NEW ev, NEW c,
           PpcOutcome(<<ev>>, <<c>>), PpcPair(ev, c)
    PROVE  GuestOK'
<1>1. DOMAIN <<ev>> = DOMAIN <<c>> /\ \A i \in DOMAIN <<c>> : <<ev>>[i] = ev /\ <<c>>[i] = c
  OBVIOUS
<1> QED BY <1>1, PpcOutcomeOK

(* ... and with none.                                                       *)
LEMMA PpcNothingOK ==
    ASSUME target = "ppc", GuestOK, cpu' \in PpcProcessors, PpcOutcome(<<>>, <<>>)
    PROVE  GuestOK'
<1>1. DOMAIN <<>> = {}
  OBVIOUS
<1> QED BY <1>1, PpcOutcomeOK

(* An instruction whose events no helper sees.                              *)
LEMMA PpcUntracedOK ==
    ASSUME target = "ppc", GuestOK, cpu' \in PpcProcessors, NEW ev, PpcOutcome(<<ev>>, <<>>),
           EventOK(ev), ~Recorded(ev)
    PROVE  GuestOK'
<1> DEFINE events == [i \in {1} |-> ev]
<1>1. Traced(<<>>) = {} /\ DOMAIN <<ev>> = {1} /\ <<ev>>[1] = ev
  BY DEF Traced
<1>2. /\ UNCHANGED <<target, meta, qem_tracing_state>> /\ done' = events
      /\ qem_tracing_state \subseteq Kinds /\ IsProcessor'
  BY <1>1 DEF PpcOutcome, GuestOK, GuestTypeOK, IsProcessor
<1>3. PICK records : out' = records /\ DOMAIN records = {}
  BY <1>1 DEF PpcOutcome
<1>4. \A i \in DOMAIN events : EventOK(events[i]) /\ ~Recorded(events[i])
  OBVIOUS
<1> HIDE DEF events
<1> QED BY <1>2, <1>3, <1>4, UntracedOK

(* What a description may hold.                                             *)
LEMMA Codes ==
    /\ DOMAIN QEM_TRACE_DATA_SIZE = DataSizes
    /\ DOMAIN QEM_TRACE_EVENT = {"ACCESS", "FLUSH", "INVALIDATE", "FLUSH_INVAL", "LOCK", "UNLOCK",
                                 "PREFETCH", "DCBZ"}
    /\ DOMAIN QEM_TRACE_GRANULARITY = {"LINE", "SET", "WAY", "GLOBAL"}
    /\ DOMAIN QEM_TRACE_CACHE_LEVEL = {"L1", "L2", "L3", "ALL"}
BY DEF QEM_TRACE_DATA_SIZE, QEM_TRACE_EVENT, QEM_TRACE_GRANULARITY, QEM_TRACE_CACHE_LEVEL, DataSizes

(* A helper may be told all of an access.                                   *)
LEMMA AccessToldSame ==
    ASSUME NEW d, d.event = "ACCESS", NEW why
    PROVE  ToldSame(d, d, why)
BY DEF ToldSame

(* Addresses wrap.                                                          *)
LEMMA AddIsWord ==
    ASSUME NEW a \in Nat, NEW b \in Nat
    PROVE  Add(a, b) \in PpcWords
BY ProcessorsAssumption DEF Add, PpcWords

(* A word is a natural number.                                              *)
LEMMA WordIsNat ==
    ASSUME NEW a \in PpcWords
    PROVE  a \in Nat
BY ProcessorsAssumption DEF PpcWords

(* The registers hold words, and register 0 as a base is 0.                 *)
LEMMA RegistersAreWords ==
    ASSUME cpu \in PpcProcessors, NEW r \in PpcRegs
    PROVE  cpu.gpr[r] \in Nat /\ cpu.gpr[r] \in PpcWords /\ Base(r) \in Nat
BY WordIsNat DEF PpcProcessors, Base

(* An instruction loads registers ...                                       *)
LEMMA PpcLoaded ==
    ASSUME cpu \in PpcProcessors, NEW gpr \in [PpcRegs -> PpcWords]
    PROVE  [cpu EXCEPT !.gpr = gpr] \in PpcProcessors
BY DEF PpcProcessors

(* ... or the reservation.                                                  *)
LEMMA PpcReserved ==
    ASSUME NEW c \in PpcProcessors, NEW a \in PpcWords \cup {NoPhys}
    PROVE  [c EXCEPT !.reserve = a] \in PpcProcessors
BY DEF PpcProcessors

(* The fetch of an instruction.                                             *)
LEMMA PpcFetchOK ==
    ASSUME GuestOK, NEW pc \in PpcPcs, PpcFetch(pc)
    PROVE  GuestOK'
<1> DEFINE d == [Plain EXCEPT !.size = "B32"]
           e == Translation("CODE", "X", pc)
<1>1. target = "ppc" /\ IsVirtual(pc) /\ cpu \in PpcProcessors /\ cpu' = cpu
  BY ProcessorsAssumption DEF PpcFetch, Running, IsVirtual, GuestOK, GuestTypeOK, IsProcessor
<1>2. d \in Description
  BY Codes DEF Plain, Description, DataSizes
<1>3. PpcOutcome(<<PpcEvent("I", d, pc, e, TRUE, {})>>, <<PpcCall("I", pc, d)>>)
  BY DEF PpcFetch
<1> HIDE DEF d, e
<1>4. ToldSame(d, d, {})
  BY AccessToldSame DEF d, Plain
<1>5. PpcPair(PpcEvent("I", d, pc, e, TRUE, {}), PpcCall("I", pc, d))
  BY <1>1, <1>2, <1>4, PpcPairs DEF Kinds, Seen
<1> QED BY <1>1, <1>3, <1>5, PpcSingleOK

(* Alignment takes an address down.                                         *)
LEMMA AlignedIsWord ==
    ASSUME NEW a \in PpcWords
    PROVE  a - (a % (2 * PpcHalf)) \in PpcWords
<1> DEFINE m == 2 * PpcHalf
<1>1. a \in Nat /\ m \in Nat \ {0}
  BY WordIsNat, ProcessorsAssumption
<1> HIDE DEF m
<1>2. a % m \in 0..(m - 1) /\ a = m * (a \div m) + (a % m) /\ a \div m \in Nat
  BY <1>1
<1>3. m * (a \div m) \in Nat
  BY <1>1, <1>2
<1>4. a - (a % m) \in Nat /\ a - (a % m) <= a
  BY <1>1, <1>2, <1>3
<1> QED BY <1>4, ProcessorsAssumption DEF PpcWords, m

(* The effective address is an address.                                     *)
LEMMA EffectiveAddressOK ==
    ASSUME cpu \in PpcProcessors, NEW i, {i.rA, i.rB} \subseteq PpcRegs, i.simm \in Nat
    PROVE  EffectiveAddress(i) \in PpcWords
<1> DEFINE sum == Add(Base(i.rA), IF i.form = "D" THEN i.simm ELSE cpu.gpr[i.rB])
<1>1. sum \in PpcWords
  BY RegistersAreWords, AddIsWord
<1> HIDE DEF sum
<1>2. EffectiveAddress(i) = IF i.form = "V" THEN sum - (sum % (2 * PpcHalf)) ELSE sum
  BY DEF EffectiveAddress, sum
<1> QED BY <1>1, <1>2, AlignedIsWord

(* The helper of a load or store has the address but for the reasons named.  *)
LEMMA HelperAddressOK ==
    ASSUME target = "ppc", cpu \in PpcProcessors, NEW i, {i.rA, i.rB} \subseteq PpcRegs,
           i.simm \in Nat, NEW gpr \in [PpcRegs -> PpcWords]
    PROVE  /\ EffectiveAddress(i) \in PpcWords
           /\ IsVirtual(EffectiveAddress(i)) /\ IsVirtual(HelperAddress(i, gpr))
           /\ \/ HelperAddress(i, gpr) = EffectiveAddress(i)
              \/ AddressReasons(i, gpr) \cap AddressReasonNames # {}
           /\ Seen(AddressReasons(i, gpr))
<1>1. EffectiveAddress(i) \in PpcWords /\ IsVirtual(EffectiveAddress(i))
  BY EffectiveAddressOK DEF IsVirtual
<1>2. IsVirtual(HelperAddress(i, gpr))
  BY WordIsNat, AddIsWord DEF HelperAddress, IsVirtual
<1>3. \/ HelperAddress(i, gpr) = EffectiveAddress(i)
      \/ AddressReasons(i, gpr) \cap AddressReasonNames # {}
  <2>1. CASE i.form # "D"
    BY <2>1 DEF AddressReasons, AddressReasonNames, Reason
  <2>2. CASE i.form = "D"
    <3>1. EffectiveAddress(i) = Add(Base(i.rA), i.simm)
      BY <2>2 DEF EffectiveAddress
    <3> QED BY <3>1 DEF HelperAddress, Base, AddressReasons, AddressReasonNames, Reason
  <2> QED BY <2>1, <2>2
<1>4. Seen(AddressReasons(i, gpr))
  BY DEF AddressReasons, Reason, Seen
<1> QED BY <1>1, <1>2, <1>3, <1>4

(* What loads and stores have in common.                                    *)
LEMMA PpcAccessOK ==
    ASSUME target = "ppc", GuestOK, cpu \in PpcProcessors, cpu' \in PpcProcessors,
           NEW i \in PpcAccesses, NEW gpr \in [PpcRegs -> PpcWords], NEW d \in Description,
           d.event = "ACCESS", NEW e,
           PpcOutcome(<<PpcEvent("D", d, EffectiveAddress(i), e, TRUE, AccessReasons(i, gpr))>>,
                      AccessCalls(i, gpr, d))
    PROVE  GuestOK'
<1> DEFINE ea == EffectiveAddress(i)
           virt == HelperAddress(i, gpr)
           why == AccessReasons(i, gpr)
           ev == PpcEvent("D", d, ea, e, TRUE, why)
           c == PpcCall("D", virt, d)
<1>1. /\ IsVirtual(ea) /\ IsVirtual(virt)
      /\ virt = ea \/ AddressReasons(i, gpr) \cap AddressReasonNames # {}
      /\ Seen(AddressReasons(i, gpr))
  BY HelperAddressOK, InstructionsAssumption
<1>2. virt = ea \/ why \cap AddressReasonNames # {}
  BY <1>1 DEF AccessReasons
<1>3. ToldSame(d, d, why)
  BY AccessToldSame
<1>4. CASE i.bank = "single"
  <2>1. EventOK(ev)
    <3> HIDE DEF ea, virt, why
    <3>1. FALSE \in BOOLEAN
      OBVIOUS
    <3> QED BY <1>1, <1>2, <1>3, <3>1, PpcTells DEF Kinds
  <2>2. ~Recorded(ev)
    <3>1. "Untraced" \in ev.why
      BY <1>4 DEF PpcEvent, Event, AccessReasons, Reason
    <3> QED BY <3>1 DEF Recorded, Seen
  <2>3. PpcOutcome(<<ev>>, <<>>)
    BY <1>4 DEF AccessCalls
  <2> HIDE DEF ev
  <2> QED BY <2>1, <2>2, <2>3, PpcUntracedOK
<1>5. CASE i.bank # "single"
  <2>1. Seen(why)
    BY <1>1, <1>5 DEF AccessReasons, Reason
  <2>2. PpcOutcome(<<ev>>, <<c>>)
    BY <1>5 DEF AccessCalls
  <2> HIDE DEF ea, virt, why
  <2>3. PpcPair(ev, c)
    BY <1>1, <1>2, <1>3, <2>1, PpcPairs DEF Kinds
  <2> HIDE DEF ev, c
  <2> QED BY <2>2, <2>3, PpcSingleOK
<1> QED BY <1>4, <1>5

(* A load.                                                                  *)
LEMMA PpcLoadOK ==
    ASSUME GuestOK, NEW i \in PpcAccesses, NEW v \in PpcValues, PpcLoad(i, v)
    PROVE  GuestOK'
<1> DEFINE ea == EffectiveAddress(i)
           e == Translation("INT", "R", ea)
           loaded == IF i.bank = "gpr" THEN [cpu.gpr EXCEPT ![i.rD] = v] ELSE cpu.gpr
           d == [Plain EXCEPT !.size = i.size]
           after == IF i.update THEN [loaded EXCEPT ![i.rA] = ea] ELSE loaded
<1>1. target = "ppc" /\ cpu \in PpcProcessors
  BY DEF PpcLoad, Running, GuestOK, GuestTypeOK, IsProcessor
<1>2. /\ i.size \in DataSizes /\ i.rD \in PpcRegs /\ {i.rA, i.rB} \subseteq PpcRegs
      /\ i.simm \in Nat
  BY InstructionsAssumption
<1>3. loaded \in [PpcRegs -> PpcWords]
  BY <1>1, <1>2, ProcessorsAssumption DEF PpcProcessors
<1>4. d \in Description /\ d.event = "ACCESS"
  BY <1>2, Codes DEF Plain, Description
<1>5. /\ PpcOutcome(<<PpcEvent("D", d, ea, e, TRUE, AccessReasons(i, loaded))>>,
                    AccessCalls(i, loaded, d))
      /\ cpu' = [cpu EXCEPT !.gpr = after]
  BY DEF PpcLoad
<1> HIDE DEF e, loaded, d
<1>6. ea \in PpcWords
  BY <1>1, <1>2, EffectiveAddressOK
<1>7. cpu' \in PpcProcessors
  <2> HIDE DEF ea
  <2>1. after \in [PpcRegs -> PpcWords]
    BY <1>2, <1>3, <1>6
  <2> QED BY <1>1, <1>5, <2>1, PpcLoaded
<1> QED BY <1>1, <1>3, <1>4, <1>5, <1>7, PpcAccessOK

(* A store.                                                                 *)
LEMMA PpcStoreOK ==
    ASSUME GuestOK, NEW i \in PpcAccesses, PpcStore(i)
    PROVE  GuestOK'
<1> DEFINE ea == EffectiveAddress(i)
           e == Translation("INT", "W", ea)
           d == [Plain EXCEPT !.size = i.size, !.write = TRUE]
           after == IF i.update THEN [cpu.gpr EXCEPT ![i.rA] = ea] ELSE cpu.gpr
<1>1. target = "ppc" /\ cpu \in PpcProcessors
  BY DEF PpcStore, Running, GuestOK, GuestTypeOK, IsProcessor
<1>2. i.size \in DataSizes /\ {i.rA, i.rB} \subseteq PpcRegs /\ i.simm \in Nat
  BY InstructionsAssumption
<1>3. cpu.gpr \in [PpcRegs -> PpcWords]
  BY <1>1 DEF PpcProcessors
<1>4. d \in Description /\ d.event = "ACCESS"
  BY <1>2, Codes DEF Plain, Description
<1>5. /\ PpcOutcome(<<PpcEvent("D", d, ea, e, TRUE, AccessReasons(i, cpu.gpr))>>,
                    AccessCalls(i, cpu.gpr, d))
      /\ cpu' = [cpu EXCEPT !.gpr = after]
  BY DEF PpcStore
<1> HIDE DEF e, d
<1>6. ea \in PpcWords
  BY <1>1, <1>2, EffectiveAddressOK
<1>7. cpu' \in PpcProcessors
  <2> HIDE DEF ea
  <2>1. after \in [PpcRegs -> PpcWords]
    BY <1>2, <1>3, <1>6
  <2> QED BY <1>1, <1>5, <2>1, PpcLoaded
<1> QED BY <1>1, <1>3, <1>4, <1>5, <1>7, PpcAccessOK

(* Two halves, told at the address of the first.                            *)
LEMMA PpcHalvesOK ==
    ASSUME GuestOK, NEW i \in PpcDoubles, NEW write \in BOOLEAN, PpcHalves(i, write)
    PROVE  GuestOK'
<1> DEFINE ea == EffectiveAddress(i)
           At(k) == Add(ea, PpcHalf * (k - 1))
           Entry(k) == Translation("INT", IF write THEN "W" ELSE "R", At(k))
           n == Served([k \in 1..2 |-> Entry(k)])
           d == [Plain EXCEPT !.size = "B64", !.write = write]
           virt == HelperAddress(i, cpu.gpr)
           Why(k) == AddressReasons(i, cpu.gpr) \cup Reason(k # 1, "SecondHalf")
           Ev(k) == PpcEvent("D", d, At(k), Entry(k), TRUE, Why(k))
           call == PpcCall("D", virt, d)
           events == [k \in 1..n |-> Ev(k)]
           calls == [k \in 1..n |-> call]
<1>1. target = "ppc" /\ cpu \in PpcProcessors
  BY DEF PpcHalves, Running, GuestOK, GuestTypeOK, IsProcessor
<1>2. {i.rA, i.rB} \subseteq PpcRegs /\ i.simm \in Nat
  BY InstructionsAssumption
<1>3. cpu.gpr \in [PpcRegs -> PpcWords]
  BY <1>1 DEF PpcProcessors
<1>4. d \in Description /\ d.event = "ACCESS"
  BY Codes DEF Plain, Description, DataSizes
<1>5. /\ PpcOutcome(events, calls)
      /\ cpu' = IF i.update /\ i.rA # 0 /\ n = 2 THEN [cpu EXCEPT !.gpr[i.rA] = ea] ELSE cpu
  BY DEF PpcHalves
<1> HIDE DEF n
<1>6. /\ ea \in PpcWords /\ IsVirtual(ea) /\ IsVirtual(virt)
      /\ virt = ea \/ AddressReasons(i, cpu.gpr) \cap AddressReasonNames # {}
      /\ Seen(AddressReasons(i, cpu.gpr))
  BY <1>1, <1>2, <1>3, HelperAddressOK
<1> HIDE DEF ea, d, virt
<1>7. cpu' \in PpcProcessors
  <2> DEFINE gpr == [cpu.gpr EXCEPT ![i.rA] = ea]
  <2>1. gpr \in [PpcRegs -> PpcWords]
    BY <1>2, <1>3, <1>6
  <2>2. cpu' = cpu \/ cpu' = [cpu EXCEPT !.gpr = gpr]
    BY <1>5
  <2> HIDE DEF gpr
  <2> QED BY <1>1, <2>1, <2>2, PpcLoaded
<1>8. ASSUME NEW k \in 1..n
      PROVE  PpcPair(Ev(k), call)
  <2>1. At(k) \in PpcWords /\ (k = 1 => At(k) = ea)
    <3>1. PpcHalf * (k - 1) \in Nat /\ (k = 1 => PpcHalf * (k - 1) = 0) /\ ea \in Nat
      BY <1>6, WordIsNat, ProcessorsAssumption
    <3>2. ea % PpcAddresses = ea
      BY <1>6, ProcessorsAssumption DEF PpcWords
    <3> QED BY <3>1, <3>2, AddIsWord DEF Add
  <2> DEFINE at == At(k)
             e == Entry(k)
             why == Why(k)
  <2>2. IsVirtual(at)
    BY <1>1, <2>1 DEF IsVirtual
  <2>3. Seen(why) /\ (virt = at \/ why \cap AddressReasonNames # {})
    <3>1. k = 1 \/ "SecondHalf" \in why
      BY DEF Reason
    <3>2. Seen(why)
      BY <1>6 DEF Seen, Reason
    <3> QED BY <1>6, <2>1, <3>1, <3>2 DEF AddressReasonNames
  <2>4. ToldSame(d, d, why)
    BY <1>4, AccessToldSame
  <2> HIDE DEF at, e, why
  <2>5. PpcPair(PpcEvent("D", d, at, e, TRUE, why), call)
    BY <1>1, <1>4, <1>6, <2>2, <2>3, <2>4, PpcPairs DEF Kinds
  <2> QED BY <2>5 DEF at, e, why
<1>9. DOMAIN events = DOMAIN calls /\ \A k \in DOMAIN calls : PpcPair(events[k], calls[k])
  <2> HIDE DEF Ev, call
  <2> QED BY <1>8
<1> HIDE DEF events, calls
<1> QED BY <1>1, <1>5, <1>7, <1>9, PpcOutcomeOK

(* The _trad helpers have the address but for the reasons named.            *)
LEMMA TradAddressOK ==
    ASSUME target = "ppc", cpu \in PpcProcessors, NEW i \in PpcIndexed,
           NEW gpr \in [PpcRegs -> PpcWords], NEW ea, ea = Add(Base(i.rA), cpu.gpr[i.rB])
    PROVE  /\ ea \in PpcWords /\ IsVirtual(ea) /\ IsVirtual(TradAddress(i, gpr))
           /\ TradAddress(i, gpr) = ea \/ TradReasons(i, gpr) \cap AddressReasonNames # {}
           /\ Seen(TradReasons(i, gpr))
<1>1. i.rA \in PpcRegs /\ i.rB \in PpcRegs
  BY InstructionsAssumption
<1>2. ea \in PpcWords /\ IsVirtual(ea)
  BY <1>1, RegistersAreWords, AddIsWord DEF IsVirtual
<1>3. IsVirtual(TradAddress(i, gpr))
  BY <1>1, WordIsNat, AddIsWord DEF TradAddress, IsVirtual
<1>4. TradAddress(i, gpr) = ea \/ TradReasons(i, gpr) \cap AddressReasonNames # {}
  BY <1>1 DEF TradAddress, Base, TradReasons, AddressReasonNames, Reason
<1>5. Seen(TradReasons(i, gpr))
  BY DEF TradReasons, Reason, Seen
<1> QED BY <1>2, <1>3, <1>4, <1>5

(* A load that reserves.                                                    *)
LEMMA LoadLockedOK ==
    ASSUME GuestOK, NEW i \in PpcIndexed, NEW v \in PpcValues, gen_load_locked(i, v)
    PROVE  GuestOK'
<1> DEFINE ea == Add(Base(i.rA), cpu.gpr[i.rB])
           e == Translation("INT", "R", ea)
           loaded == [cpu.gpr EXCEPT ![i.rD] = v]
           d == [Plain EXCEPT !.size = i.size, !.exclusive = TRUE]
           ev == PpcEvent("D", d, ea, e, TRUE, TradReasons(i, loaded))
           c == PpcCall("D", TradAddress(i, loaded), d)
<1>1. target = "ppc" /\ cpu \in PpcProcessors
  BY DEF gen_load_locked, Running, GuestOK, GuestTypeOK, IsProcessor
<1>2. i.size \in DataSizes /\ i.rD \in PpcRegs
  BY InstructionsAssumption
<1>3. loaded \in [PpcRegs -> PpcWords]
  BY <1>1, <1>2, ProcessorsAssumption DEF PpcProcessors
<1>4. d \in Description /\ d.event = "ACCESS"
  BY <1>2, Codes DEF Plain, Description
<1>5. PpcOutcome(<<ev>>, <<c>>) /\ cpu' = [cpu EXCEPT !.gpr = loaded, !.reserve = ea]
  BY DEF gen_load_locked
<1> HIDE DEF ea, e, loaded, d
<1>6. /\ ea \in PpcWords /\ IsVirtual(ea) /\ IsVirtual(TradAddress(i, loaded))
      /\ TradAddress(i, loaded) = ea \/ TradReasons(i, loaded) \cap AddressReasonNames # {}
      /\ Seen(TradReasons(i, loaded))
  BY <1>1, <1>3, TradAddressOK DEF ea
<1>7. PpcPair(ev, c)
  <2>1. ToldSame(d, d, TradReasons(i, loaded))
    BY <1>4, AccessToldSame
  <2> QED BY <1>1, <1>4, <1>6, <2>1, PpcPairs DEF Kinds
<1>8. cpu' \in PpcProcessors
  BY <1>1, <1>3, <1>5, <1>6, PpcLoaded, PpcReserved
<1> HIDE DEF ev, c
<1> QED BY <1>1, <1>5, <1>7, <1>8, PpcSingleOK

(* A conditional store: one event at the reserved address, else none.       *)
LEMMA ConditionalStoreOK ==
    ASSUME GuestOK, NEW i \in PpcIndexed, NEW stored \in BOOLEAN, gen_conditional_store(i, stored)
    PROVE  GuestOK'
<1> DEFINE ea == Add(Base(i.rA), cpu.gpr[i.rB])
           e == Translation("INT", "W", ea)
           d == [Plain EXCEPT !.size = i.size, !.write = TRUE, !.exclusive = TRUE]
           why == TradReasons(i, cpu.gpr) \cup Reason(~stored, "CompareFailed")
           ev == PpcEvent("D", d, ea, e, stored, why)
           c == PpcCall("D", TradAddress(i, cpu.gpr), d)
<1>1. target = "ppc" /\ cpu \in PpcProcessors
  BY DEF gen_conditional_store, Running, GuestOK, GuestTypeOK, IsProcessor
<1>2. i.size \in DataSizes
  BY InstructionsAssumption
<1>3. cpu.gpr \in [PpcRegs -> PpcWords]
  BY <1>1 DEF PpcProcessors
<1>4. d \in Description /\ d.event = "ACCESS"
  BY <1>2, Codes DEF Plain, Description
<1>5. /\ IF ea = cpu.reserve THEN PpcOutcome(<<ev>>, <<c>>) ELSE PpcOutcome(<<>>, <<>>)
      /\ cpu' = [cpu EXCEPT !.reserve = NoPhys]
  BY DEF gen_conditional_store
<1>6. cpu' \in PpcProcessors
  BY <1>1, <1>5, PpcReserved
<1>7. CASE ea # cpu.reserve
  BY <1>1, <1>5, <1>6, <1>7, PpcNothingOK
<1>8. CASE ea = cpu.reserve
  <2> HIDE DEF ea, e, d
  <2>1. /\ IsVirtual(ea) /\ IsVirtual(TradAddress(i, cpu.gpr))
        /\ TradAddress(i, cpu.gpr) = ea \/ TradReasons(i, cpu.gpr) \cap AddressReasonNames # {}
        /\ Seen(TradReasons(i, cpu.gpr))
    BY <1>1, <1>3, TradAddressOK DEF ea
  <2>2. /\ TradAddress(i, cpu.gpr) = ea \/ why \cap AddressReasonNames # {}
        /\ Seen(why)
        /\ stored \/ why \cap {"Early", "CompareFailed", "PrivilegeLate"} # {}
    BY <2>1 DEF Reason, Seen
  <2> HIDE DEF why
  <2>3. ToldSame(d, d, why)
    BY <1>4, AccessToldSame
  <2>4. PpcPair(ev, c)
    BY <1>1, <1>4, <2>1, <2>2, <2>3, PpcPairs DEF Kinds
  <2> HIDE DEF ev, c
  <2> QED BY <1>1, <1>5, <1>6, <1>8, <2>4, PpcSingleOK
<1> QED BY <1>7, <1>8

(* The two trace opcodes that invalidate a whole cache.                     *)
LEMMA FlashOK ==
    ASSUME GuestOK, NEW kind \in Kinds, PpcFlash(kind)
    PROVE  GuestOK'
<1> DEFINE inst == kind = "I"
           user == "CE" \in cpu.msr
           mode == "PR" \in cpu.msr
           d == [Plain EXCEPT !.event = "INVALIDATE", !.gran = "GLOBAL", !.inst = inst]
           told == [d EXCEPT !.user = user]
           real == [d EXCEPT !.user = mode]
           ev == Event(kind, real, 0, 0, TRUE, Reason(mode # user, "CriticalEnable"))
           r == [virt |-> 0, phys |-> 0, flags |-> Flags(told)]
<1>1. target = "ppc" /\ IsProcessor' /\ qem_tracing_state \subseteq Kinds
  BY DEF PpcFlash, Running, GuestOK, GuestTypeOK, IsProcessor
<1>2. inst \in BOOLEAN /\ user \in BOOLEAN /\ mode \in BOOLEAN
  OBVIOUS
<1>3. /\ UNCHANGED <<target, meta, qem_tracing_state>> /\ done' = <<ev>>
      /\ out' = IF kind \in qem_tracing_state THEN <<r>> ELSE <<>>
  BY DEF PpcFlash
<1>4. /\ ev.kind = kind /\ ev.virt = 0 /\ ev.phys = 0 /\ ev.performed = TRUE
      /\ ev.d = [real EXCEPT !.inst = inst]
      /\ ev.why = Reason(mode # user, "CriticalEnable")
  BY DEF Event
<1>5. r.virt = 0 /\ r.phys = 0 /\ r.flags = Flags(told)
  OBVIOUS
<1> HIDE DEF inst, user, mode, ev, r
<1>6. /\ d \in Description /\ d.event = "INVALIDATE" /\ d.inst = inst /\ d.write = FALSE
      /\ d.size = "B8" /\ d.gran = "GLOBAL" /\ d.level = "L1" /\ d.exclusive = FALSE
      /\ d.inhibit = FALSE /\ d.coherent = FALSE /\ d.wt = FALSE
  BY <1>2, Codes DEF Plain, Description, DataSizes
<1> HIDE DEF d
<1>7. /\ told \in Description /\ told.event = d.event /\ told.inst = inst /\ told.write = d.write
      /\ told.size = d.size /\ told.gran = d.gran /\ told.level = d.level
      /\ told.exclusive = d.exclusive /\ told.inhibit = d.inhibit /\ told.coherent = d.coherent
      /\ told.wt = d.wt /\ told.user = user
  BY <1>2, <1>6 DEF Description
<1>8. /\ ev.d \in Description /\ ev.d.event = d.event /\ ev.d.inst = inst /\ ev.d.write = d.write
      /\ ev.d.size = d.size /\ ev.d.gran = d.gran /\ ev.d.level = d.level
      /\ ev.d.exclusive = d.exclusive /\ ev.d.inhibit = d.inhibit /\ ev.d.coherent = d.coherent
      /\ ev.d.wt = d.wt /\ ev.d.user = mode
  BY <1>2, <1>4, <1>6 DEF Description
<1> HIDE DEF told, real
<1>9. "CriticalEnable" \notin ev.why => mode = user
  BY <1>4 DEF Reason
<1>10. AttributesTold(ev, told)
  BY <1>7, <1>8, <1>9 DEF AttributesTold
<1>11. AddressTold(ev, r)
  BY <1>4, <1>5 DEF AddressTold
<1>12. Tells(ev, r)
  BY <1>5, <1>6, <1>7, <1>8, <1>10, <1>11, DescriptionTells
<1>13. EventOK(ev) /\ RecordOK(r)
  BY <1>1, <1>4, <1>5, <1>7, <1>8, FlagsAreWords, ProcessorsAssumption
     DEF EventOK, RecordOK, IsVirtual, PpcWords, Coded, Description
<1>14. Recorded(ev) <=> kind \in qem_tracing_state
  BY <1>4 DEF Recorded, Reason, Seen
<1> QED BY <1>1, <1>3, <1>12, <1>13, <1>14, SingleOK

(* Strings and multiples: every access that did not fault, in order.        *)
LEMMA MultipleOK ==
    ASSUME GuestOK, NEW i \in PpcMultiples, NEW write \in BOOLEAN, NEW words \in Nat,
           NEW bytes \in Nat, NEW v \in PpcValues, PpcMultiple(i, write, words, bytes, v)
    PROVE  GuestOK'
<1> DEFINE ea == MultipleAddress(i)
           At(k) == ChunkAddress(ea, words, k)
           Entry(k) == Translation("INT", IF write THEN "W" ELSE "R", At(k))
           n == Served([k \in 1..(words + bytes) |-> Entry(k)])
           D(size) == [Plain EXCEPT !.size = size, !.write = write]
           loaded == {ChunkRegister(i, words, k) : k \in 1..n}
           cleared == IF bytes > 0 /\ n >= words THEN {ChunkRegister(i, words, words + 1)} ELSE {}
           gpr == [r \in PpcRegs |-> IF r \in loaded THEN v
                                    ELSE IF r \in cleared THEN 0 ELSE cpu.gpr[r]]
           Ev(k) == PpcEvent("D", D(ChunkSize(words, k)), At(k), Entry(k), TRUE,
                             Reason(k > words, "StringTail"))
           Call(k) == PpcCall("D", At(k), D("B32"))
           events == [k \in 1..n |-> Ev(k)]
           calls == [k \in 1..n |-> Call(k)]
<1>1. target = "ppc" /\ cpu \in PpcProcessors
  BY DEF PpcMultiple, Running, GuestOK, GuestTypeOK, IsProcessor
<1>2. PpcOutcome(events, calls) /\ cpu' = IF write THEN cpu ELSE [cpu EXCEPT !.gpr = gpr]
  BY DEF PpcMultiple
<1>3. cpu' \in PpcProcessors
  <2> HIDE DEF loaded, cleared
  <2>1. 0 \in PpcWords
    BY ProcessorsAssumption DEF PpcWords
  <2>2. gpr \in [PpcRegs -> PpcWords]
    BY <1>1, <2>1, ProcessorsAssumption DEF PpcProcessors
  <2> HIDE DEF gpr
  <2> QED BY <1>1, <1>2, <2>2, PpcLoaded
<1> HIDE DEF n
<1>4. ASSUME NEW k \in 1..n
      PROVE  PpcPair(Ev(k), Call(k))
  <2>1. ea \in Nat
    <3>1. Base(i.rA) \in Nat /\ cpu.gpr[i.rB] \in Nat /\ i.simm \in Nat
      BY <1>1, RegistersAreWords, InstructionsAssumption
    <3> DEFINE offset == CASE i.form = "multiple" -> i.simm
                           [] i.form = "immediate" -> 0
                           [] OTHER -> cpu.gpr[i.rB]
    <3>2. offset \in Nat
      BY <3>1
    <3> HIDE DEF offset
    <3>3. ea = Add(Base(i.rA), offset)
      BY DEF MultipleAddress, offset
    <3> QED BY <3>1, <3>2, <3>3, AddIsWord, WordIsNat
  <2> HIDE DEF ea
  <2>2. At(k) \in PpcWords
    <3>1. (IF k <= words THEN 4 * (k - 1) ELSE 4 * words + (k - words - 1)) \in Nat
      OBVIOUS
    <3> QED BY <2>1, <3>1, AddIsWord DEF ChunkAddress
  <2>3. IsVirtual(At(k))
    BY <1>1, <2>2 DEF IsVirtual
  <2>4. \A size \in DataSizes :
          /\ D(size) \in Description /\ D(size).size = size /\ D(size).write = write
          /\ D(size).event = "ACCESS" /\ D(size).gran = "LINE" /\ D(size).exclusive = FALSE
          /\ D(size).level = "L1"
    BY Codes DEF Plain, Description
  <2>5. /\ ChunkSize(words, k) \in DataSizes /\ "B32" \in DataSizes
        /\ ChunkSize(words, k) = "B32" \/ "StringTail" \in Reason(k > words, "StringTail")
        /\ Seen(Reason(k > words, "StringTail"))
    BY DEF ChunkSize, DataSizes, Reason, Seen
  <2> DEFINE d == D(ChunkSize(words, k))
             told == D("B32")
             why == Reason(k > words, "StringTail")
             at == At(k)
             e == Entry(k)
  <2>6. d \in Description /\ told \in Description /\ ToldSame(told, d, why)
    <3> HIDE DEF D
    <3>1. /\ d \in Description /\ d.size = ChunkSize(words, k) /\ d.write = write
          /\ d.event = "ACCESS" /\ d.gran = "LINE" /\ d.exclusive = FALSE /\ d.level = "L1"
      BY <2>4, <2>5
    <3>2. /\ told \in Description /\ told.size = "B32" /\ told.write = write
          /\ told.event = "ACCESS" /\ told.gran = "LINE" /\ told.exclusive = FALSE
          /\ told.level = "L1"
      BY <2>4, <2>5
    <3> HIDE DEF d, told
    <3> QED BY <2>5, <3>1, <3>2 DEF ToldSame
  <2> HIDE DEF d, told, why, at, e
  <2>7. PpcPair(PpcEvent("D", d, at, e, TRUE, why), PpcCall("D", at, told))
    BY <1>1, <2>3, <2>5, <2>6, PpcPairs DEF Kinds, at, why
  <2> QED BY <2>7 DEF d, told, why, at, e
<1>5. DOMAIN events = DOMAIN calls /\ \A k \in DOMAIN calls : PpcPair(events[k], calls[k])
  <2> HIDE DEF Ev, Call
  <2> QED BY <1>4
<1> HIDE DEF events, calls
<1> QED BY <1>1, <1>2, <1>3, <1>5, PpcOutcomeOK

(* What a cache operation does and what its helper is told of it.           *)
Matches(a, c, level, why) ==
    /\ a.kind \in Kinds /\ c.kind = a.kind
    /\ CacheDescription(a, level) \in Description /\ c.d \in Description
    /\ ToldSame(c.d, CacheDescription(a, level), why)

(* The description made of the parts of an operation.                       *)
LEMMA Described ==
    ASSUME NEW a, a.event \in DOMAIN QEM_TRACE_EVENT, a.gran \in DOMAIN QEM_TRACE_GRANULARITY,
           a.exclusive \in BOOLEAN, a.write \in BOOLEAN,
           NEW level \in DOMAIN QEM_TRACE_CACHE_LEVEL
    PROVE  LET d == CacheDescription(a, level)
           IN  /\ d \in Description /\ d.event = a.event /\ d.gran = a.gran /\ d.level = level
               /\ d.exclusive = a.exclusive /\ d.write = a.write /\ d.size = "B8"
BY Codes DEF CacheDescription, Plain, Description, DataSizes

(* A helper that tells kind, granularity and exclusivity as they are, and the
   rest but for the reasons named.                                          *)
LEMMA TellMatches ==
    ASSUME NEW kind \in Kinds, NEW event \in DOMAIN QEM_TRACE_EVENT,
           NEW gran \in DOMAIN QEM_TRACE_GRANULARITY, NEW exclusive \in BOOLEAN,
           NEW told \in DOMAIN QEM_TRACE_CACHE_LEVEL, NEW a,
           a.kind = kind, a.event \in DOMAIN QEM_TRACE_EVENT, a.gran = gran,
           a.exclusive = exclusive, a.write \in BOOLEAN,
           NEW level \in DOMAIN QEM_TRACE_CACHE_LEVEL, NEW why,
           \/ event = a.event /\ (meta \/ event # "FLUSH_INVAL")
           \/ why \cap {"SharedCode", "AsDcbf"} # {},
           ~a.write \/ "ZeroAsRead" \in why, told = level \/ "PrefetchLevel" \in why
    PROVE  Matches(a, Tell(kind, event, gran, told, exclusive), level, why)
<1> DEFINE t == CacheEvent(kind, event, gran, exclusive)
           d == CacheDescription(t, told)
           td == CacheDescription(a, level)
           c == Tell(kind, event, gran, told, exclusive)
<1>1. c.kind = kind /\ c.d = d
  BY DEF Tell
<1>2. t.event = event /\ t.gran = gran /\ t.exclusive = exclusive /\ t.write = FALSE
  BY DEF CacheEvent
<1> HIDE DEF t, c
<1>3. /\ d \in Description /\ d.event = event /\ d.gran = gran /\ d.level = told
      /\ d.exclusive = exclusive /\ d.write = FALSE /\ d.size = "B8"
  BY <1>2, Described
<1>4. /\ td \in Description /\ td.event = a.event /\ td.gran = gran /\ td.level = level
      /\ td.exclusive = exclusive /\ td.write = a.write /\ td.size = "B8"
  BY Described
<1> HIDE DEF d, td
<1>5. ToldSame(d, td, why)
  BY <1>3, <1>4 DEF ToldSame
<1>6. Matches(a, c, level, why)
  BY <1>1, <1>3, <1>4, <1>5 DEF Matches, td
<1> QED BY <1>6 DEF c

(* A helper that tells an operation as it is.                               *)
LEMMA TellAlike ==
    ASSUME NEW kind \in Kinds, NEW event \in DOMAIN QEM_TRACE_EVENT, event # "FLUSH_INVAL",
           NEW gran \in DOMAIN QEM_TRACE_GRANULARITY, NEW exclusive \in BOOLEAN,
           NEW level \in DOMAIN QEM_TRACE_CACHE_LEVEL, NEW why
    PROVE  Matches(CacheEvent(kind, event, gran, exclusive),
                   Tell(kind, event, gran, level, exclusive), level, why)
<1> DEFINE a == CacheEvent(kind, event, gran, exclusive)
<1>1. /\ a.kind = kind /\ a.event = event /\ a.gran = gran /\ a.exclusive = exclusive
      /\ a.write = FALSE
  BY DEF CacheEvent
<1> HIDE DEF a
<1>2. Matches(a, Tell(kind, event, gran, level, exclusive), level, why)
  BY <1>1, TellMatches
<1> QED BY <1>2 DEF a

(* The calls of a translator tell what its operation does.                  *)
Matched(op, level) ==
    LET acts == CacheActs(op, level)
        calls == CacheCalls(op, LevelOf[level])
    IN  /\ DOMAIN acts = DOMAIN calls
        /\ \A k \in DOMAIN acts :
              Matches(acts[k], calls[k], CacheLevel(op, level), CacheReasons(op, level))

LEMMA MatchedNone ==
    ASSUME NEW op, NEW level, CacheActs(op, level) = <<>>, CacheCalls(op, LevelOf[level]) = <<>>
    PROVE  Matched(op, level)
BY DEF Matched

LEMMA MatchedOne ==
    ASSUME NEW op, NEW level, NEW a, NEW c,
           CacheActs(op, level) = <<a>>, CacheCalls(op, LevelOf[level]) = <<c>>,
           Matches(a, c, CacheLevel(op, level), CacheReasons(op, level))
    PROVE  Matched(op, level)
<1>1. /\ DOMAIN <<a>> = {1} /\ DOMAIN <<c>> = {1}
      /\ <<a>>[1] = a /\ <<c>>[1] = c
  OBVIOUS
<1> QED BY <1>1 DEF Matched

LEMMA MatchedTwo ==
    ASSUME NEW op, NEW level, NEW a, NEW b, NEW c, NEW d,
           CacheActs(op, level) = <<a, b>>, CacheCalls(op, LevelOf[level]) = <<c, d>>,
           Matches(a, c, CacheLevel(op, level), CacheReasons(op, level)),
           Matches(b, d, CacheLevel(op, level), CacheReasons(op, level))
    PROVE  Matched(op, level)
<1>1. /\ DOMAIN <<a, b>> = {1, 2} /\ DOMAIN <<c, d>> = {1, 2}
      /\ <<a, b>>[1] = a /\ <<a, b>>[2] = b /\ <<c, d>>[1] = c /\ <<c, d>>[2] = d
  OBVIOUS
<1> QED BY <1>1 DEF Matched

(* The operations act and are told alike, but for the reasons named.        *)
LEMMA CacheMatches ==
    ASSUME NEW op \in DOMAIN CacheOps, NEW level \in DOMAIN LevelOf
    PROVE  Matched(op, level)
<1> DEFINE acts == CacheActs(op, level)
           calls == CacheCalls(op, LevelOf[level])
           real == CacheLevel(op, level)
           l == LevelOf[level]
           why == CacheReasons(op, level)
<1>1. /\ l \in DOMAIN QEM_TRACE_CACHE_LEVEL /\ real \in DOMAIN QEM_TRACE_CACHE_LEVEL
      /\ "L1" \in DOMAIN QEM_TRACE_CACHE_LEVEL /\ "L2" \in DOMAIN QEM_TRACE_CACHE_LEVEL
      /\ op \notin {"dcbz", "dcba", "dclst"} => real = l
      /\ op \in {"dcbz", "dcba", "dclst"} => real = "L1"
      /\ level = "L1" => l = "L1"
      /\ level = "L2" <=> l = "L2"
  BY Codes DEF LevelOf, CacheLevel
<1>2. /\ "I" \in Kinds /\ "D" \in Kinds /\ "LINE" \in DOMAIN QEM_TRACE_GRANULARITY
      /\ "SET" \in DOMAIN QEM_TRACE_GRANULARITY
      /\ \A event \in {"ACCESS", "FLUSH", "INVALIDATE", "FLUSH_INVAL", "LOCK", "UNLOCK",
                        "PREFETCH", "DCBZ"} : event \in DOMAIN QEM_TRACE_EVENT
      /\ TRUE \in BOOLEAN /\ FALSE \in BOOLEAN
  BY Codes DEF Kinds
<1>3. /\ ~meta /\ op \in {"dcbf", "dcbst"} => "SharedCode" \in why
      /\ op = "dcbz" => "ZeroAsRead" \in why
      /\ op = "dcbst" /\ cpu.mmu # "BOOKE206" => "AsDcbf" \in why
      /\ op \in {"dcbt", "dcbtst"} /\ level # "L1" => "PrefetchLevel" \in why
  BY DEF CacheReasons, Reason
<1>4. op \in {"dcbf", "dcbst", "dcbi", "dcbt", "dcbtst", "dcbtls", "dcbtstls", "dcblc", "icbtls",
               "icblc", "dcbz", "icbi", "icbt", "dcba", "dclst", "clf", "cli", "iccci"}
  BY DEF CacheOps
<1>5. op \notin {"dcbst", "icbt"} => acts = CacheOps[op].events
  BY DEF CacheActs
<1> HIDE DEF acts, calls, real, l, why
<1>6. ASSUME NEW a, NEW c, acts = <<a>>, calls = <<c>>, Matches(a, c, real, why)
      PROVE  Matched(op, level)
  BY <1>6, MatchedOne DEF acts, calls, real, why
<1>7. ASSUME NEW event \in {"FLUSH", "FLUSH_INVAL"}, op \in {"dcbf", "dcbst"},
             acts = <<Line("D", event)>>, event = "FLUSH" => "AsDcbf" \in why
      PROVE  Matched(op, level)
  <2> DEFINE a == Line("D", event)
  <2>1. calls = <<Tell("D", "FLUSH_INVAL", "LINE", real, FALSE)>>
    BY <1>1, <1>7 DEF calls, l, CacheCalls, helper_qem_dcache_flush_inval
  <2>2. /\ a.kind = "D" /\ a.event = event /\ a.gran = "LINE" /\ a.exclusive = FALSE
        /\ a.write = FALSE
    BY DEF Line, CacheEvent
  <2> HIDE DEF a
  <2>3. \/ "FLUSH_INVAL" = a.event /\ (meta \/ "FLUSH_INVAL" # "FLUSH_INVAL")
        \/ why \cap {"SharedCode", "AsDcbf"} # {}
    BY <1>3, <1>7, <2>2
  <2>4. Matches(a, Tell("D", "FLUSH_INVAL", "LINE", real, FALSE), real, why)
    BY <1>1, <1>2, <2>2, <2>3, TellMatches
  <2> QED BY <1>6, <1>7, <2>1, <2>4 DEF a
<1>8. CASE op = "dcbf"
  <2>1. acts = <<Line("D", "FLUSH_INVAL")>>
    BY <1>5, <1>8 DEF CacheOps, CacheOp
  <2> QED BY <1>7, <1>8, <2>1
<1>9. CASE op = "dcbst"
  <2>1. CASE cpu.mmu = "BOOKE206"
    <3>1. acts = <<Line("D", "FLUSH_INVAL")>>
      BY <1>9, <2>1 DEF acts, CacheActs, CacheOps, CacheOp
    <3> QED BY <1>7, <1>9, <3>1
  <2>2. CASE cpu.mmu # "BOOKE206"
    <3>1. acts = <<Line("D", "FLUSH")>>
      BY <1>9, <2>2 DEF acts, CacheActs, CacheOps, CacheOp
    <3> QED BY <1>3, <1>7, <1>9, <2>2, <3>1
  <2> QED BY <2>1, <2>2
<1>10. ASSUME NEW kind \in Kinds, NEW event \in DOMAIN QEM_TRACE_EVENT, event # "FLUSH_INVAL",
              NEW exclusive \in BOOLEAN, acts = <<CacheEvent(kind, event, "LINE", exclusive)>>,
              calls = <<Tell(kind, event, "LINE", real, exclusive)>>
       PROVE  Matched(op, level)
  <2>1. Matches(CacheEvent(kind, event, "LINE", exclusive),
                Tell(kind, event, "LINE", real, exclusive), real, why)
    BY <1>1, <1>2, <1>10, TellAlike
  <2> QED BY <1>6, <1>10, <2>1
<1>11. CASE op = "dcbi"
  <2>1. acts = <<CacheEvent("D", "INVALIDATE", "LINE", FALSE)>>
    BY <1>5, <1>11 DEF CacheOps, CacheOp, Line
  <2>2. calls = <<Tell("D", "INVALIDATE", "LINE", real, FALSE)>>
    BY <1>1, <1>11 DEF calls, CacheCalls, helper_qem_dcache_inval, l
  <2> QED BY <1>2, <1>10, <2>1, <2>2
<1>12. CASE op = "dcbtls"
  <2>1. acts = <<CacheEvent("D", "LOCK", "LINE", FALSE)>>
    BY <1>5, <1>12 DEF CacheOps, CacheOp, Line
  <2>2. calls = <<Tell("D", "LOCK", "LINE", real, FALSE)>>
    BY <1>1, <1>12 DEF calls, CacheCalls, helper_qem_dcache_lock, l
  <2> QED BY <1>2, <1>10, <2>1, <2>2
<1>13. CASE op = "dcbtstls"
  <2>1. acts = <<CacheEvent("D", "LOCK", "LINE", TRUE)>>
    BY <1>5, <1>13 DEF CacheOps, CacheOp, Line
  <2>2. calls = <<Tell("D", "LOCK", "LINE", real, TRUE)>>
    BY <1>1, <1>13 DEF calls, CacheCalls, helper_qem_dcache_lock, l
  <2> QED BY <1>2, <1>10, <2>1, <2>2
<1>14. CASE op = "dcblc"
  <2>1. acts = <<CacheEvent("D", "UNLOCK", "LINE", FALSE)>>
    BY <1>5, <1>14 DEF CacheOps, CacheOp, Line
  <2>2. calls = <<Tell("D", "UNLOCK", "LINE", real, FALSE)>>
    BY <1>1, <1>14 DEF calls, CacheCalls, helper_qem_dcache_unlock, l
  <2> QED BY <1>2, <1>10, <2>1, <2>2
<1>15. CASE op = "icbtls"
  <2>1. acts = <<CacheEvent("I", "LOCK", "LINE", FALSE)>>
    BY <1>5, <1>15 DEF CacheOps, CacheOp, Line
  <2>2. calls = <<Tell("I", "LOCK", "LINE", real, FALSE)>>
    BY <1>1, <1>15 DEF calls, CacheCalls, helper_qem_icache_lock, l
  <2> QED BY <1>2, <1>10, <2>1, <2>2
<1>16. CASE op = "icblc"
  <2>1. acts = <<CacheEvent("I", "UNLOCK", "LINE", FALSE)>>
    BY <1>5, <1>16 DEF CacheOps, CacheOp, Line
  <2>2. calls = <<Tell("I", "UNLOCK", "LINE", real, FALSE)>>
    BY <1>1, <1>16 DEF calls, CacheCalls, helper_qem_icache_unlock, l
  <2> QED BY <1>2, <1>10, <2>1, <2>2
<1>17. CASE op = "icbi"
  <2>1. acts = <<CacheEvent("I", "INVALIDATE", "LINE", FALSE)>>
    BY <1>5, <1>17 DEF CacheOps, CacheOp, Line
  <2>2. calls = <<Tell("I", "INVALIDATE", "LINE", real, FALSE)>>
    BY <1>1, <1>17 DEF calls, CacheCalls, helper_qem_icache_inval, l
  <2> QED BY <1>2, <1>10, <2>1, <2>2
<1>18. CASE op \in {"dcbt", "dcbtst"}
  <2> DEFINE exclusive == op = "dcbtst"
             a == CacheEvent("D", "PREFETCH", "LINE", exclusive)
  <2>1. calls = <<Tell("D", "PREFETCH", "LINE", "L1", exclusive)>>
    BY <1>18 DEF calls, CacheCalls, helper_qem_dcache_prefetch_non_inibited
  <2>2. acts = <<a>> /\ exclusive \in BOOLEAN
    <3>1. CASE op = "dcbt"
      <4>1. exclusive = FALSE /\ acts = <<CacheEvent("D", "PREFETCH", "LINE", FALSE)>>
        BY <1>5, <3>1 DEF CacheOps, CacheOp, Line
      <4> HIDE DEF exclusive
      <4> QED BY <4>1
    <3>2. CASE op = "dcbtst"
      <4>1. exclusive = TRUE /\ acts = <<CacheEvent("D", "PREFETCH", "LINE", TRUE)>>
        BY <1>5, <3>2 DEF CacheOps, CacheOp, Line
      <4> HIDE DEF exclusive
      <4> QED BY <4>1
    <3> QED BY <1>18, <3>1, <3>2
  <2>3. "L1" = real \/ "PrefetchLevel" \in why
    BY <1>1, <1>3, <1>18
  <2>4. /\ a.kind = "D" /\ a.event = "PREFETCH" /\ a.gran = "LINE" /\ a.exclusive = exclusive
        /\ a.write = FALSE
    BY DEF CacheEvent
  <2> HIDE DEF exclusive, a
  <2>5. Matches(a, Tell("D", "PREFETCH", "LINE", "L1", exclusive), real, why)
    BY <1>1, <1>2, <2>2, <2>3, <2>4, TellMatches
  <2> QED BY <1>6, <2>1, <2>2, <2>5
<1>19. CASE op = "icbt"
  <2>1. CASE level # "L2"
    <3>1. CacheActs(op, level) = <<>>
      BY <1>19, <2>1 DEF CacheActs
    <3>2. CacheCalls(op, LevelOf[level]) = <<>>
      BY <1>1, <1>19, <2>1 DEF CacheCalls, helper_qem_icbt, l
    <3> QED BY <3>1, <3>2, MatchedNone
  <2>2. CASE level = "L2"
    <3>1. acts = <<CacheEvent("I", "PREFETCH", "LINE", FALSE)>>
      BY <1>19, <2>2 DEF acts, CacheActs, CacheOps, CacheOp, Line
    <3>2. calls = <<Tell("I", "PREFETCH", "LINE", real, FALSE)>>
      BY <1>1, <1>19, <2>2 DEF calls, CacheCalls, helper_qem_icbt, l
    <3> QED BY <1>2, <1>10, <3>1, <3>2
  <2> QED BY <2>1, <2>2
<1>20. CASE op = "dcbz"
  <2> DEFINE a == Writing("DCBZ")
  <2>1. calls = <<Tell("D", "DCBZ", "LINE", "L1", FALSE)>> /\ real = "L1" /\ "ZeroAsRead" \in why
    BY <1>1, <1>3, <1>20 DEF calls, CacheCalls, helper_qem_dcbz_trace_trad
  <2>2. acts = <<a>>
    BY <1>5, <1>20 DEF CacheOps, CacheOp
  <2>3. /\ a.kind = "D" /\ a.event = "DCBZ" /\ a.gran = "LINE" /\ a.exclusive = FALSE
        /\ a.write = TRUE
    BY DEF Writing
  <2> HIDE DEF a
  <2>4. Matches(a, Tell("D", "DCBZ", "LINE", "L1", FALSE), real, why)
    BY <1>1, <1>2, <2>1, <2>3, TellMatches
  <2> QED BY <1>6, <2>1, <2>2, <2>4
<1>21. CASE op \in {"dcba", "dclst"}
  <2> DEFINE a == Writing("ACCESS")
             d == CacheDescription(a, "L1")
             c == [kind |-> "D", d |-> d]
  <2>1. acts = <<a>> /\ real = "L1"
    BY <1>1, <1>5, <1>21 DEF CacheOps, CacheOp
  <2>2. calls = <<c>>
    BY <1>21 DEF calls, CacheCalls, helper_qem_datast_trace_trad
  <2>3. a.kind = "D" /\ c.kind = "D" /\ c.d = d
    BY DEF Writing
  <2>4. /\ a.event = "ACCESS" /\ a.gran = "LINE" /\ a.exclusive = FALSE /\ a.write = TRUE
    BY DEF Writing
  <2> HIDE DEF a, c
  <2>5. d \in Description /\ d.event = "ACCESS"
    BY <1>1, <1>2, <2>4, Described
  <2>6. Matches(a, c, real, why)
    BY <1>2, <2>1, <2>3, <2>5, AccessToldSame DEF Matches
  <2> QED BY <1>6, <2>1, <2>2, <2>6
(* the operations on both caches *)
<1>22. ASSUME NEW event \in {"FLUSH", "INVALIDATE"}, NEW gran \in {"LINE", "SET"},
              acts = <<CacheEvent("D", event, gran, FALSE), CacheEvent("I", event, gran, FALSE)>>,
              calls = <<Tell("D", event, gran, real, FALSE), Tell("I", event, gran, real, FALSE)>>
       PROVE  Matched(op, level)
  <2>1. event \in DOMAIN QEM_TRACE_EVENT /\ gran \in DOMAIN QEM_TRACE_GRANULARITY
    BY <1>2
  <2>2. Matches(CacheEvent("D", event, gran, FALSE), Tell("D", event, gran, real, FALSE), real, why)
    BY <1>1, <1>2, <2>1, TellAlike
  <2>3. Matches(CacheEvent("I", event, gran, FALSE), Tell("I", event, gran, real, FALSE), real, why)
    BY <1>1, <1>2, <2>1, TellAlike
  <2> QED BY <1>22, <2>2, <2>3, MatchedTwo DEF acts, calls, real, why
<1>23. CASE op = "clf"
  <2>1. acts = <<CacheEvent("D", "FLUSH", "LINE", FALSE), CacheEvent("I", "FLUSH", "LINE", FALSE)>>
    BY <1>5, <1>23 DEF CacheOps, CacheOp, Line
  <2>2. calls = <<Tell("D", "FLUSH", "LINE", real, FALSE),
                  Tell("I", "FLUSH", "LINE", real, FALSE)>>
    BY <1>1, <1>23 DEF calls, CacheCalls, helper_qem_dcache_flush, helper_qem_icache_flush, l
  <2> QED BY <1>22, <2>1, <2>2
<1>24. CASE op = "cli"
  <2>1. acts = <<CacheEvent("D", "INVALIDATE", "LINE", FALSE), CacheEvent("I", "INVALIDATE", "LINE", FALSE)>>
    BY <1>5, <1>24 DEF CacheOps, CacheOp, Line
  <2>2. calls = <<Tell("D", "INVALIDATE", "LINE", real, FALSE),
                  Tell("I", "INVALIDATE", "LINE", real, FALSE)>>
    BY <1>1, <1>24 DEF calls, CacheCalls, helper_qem_dcache_inval, helper_qem_icache_inval, l
  <2> QED BY <1>22, <2>1, <2>2
<1>25. CASE op = "iccci"
  <2>1. acts = <<CacheEvent("D", "INVALIDATE", "SET", FALSE), CacheEvent("I", "INVALIDATE", "SET", FALSE)>>
    BY <1>5, <1>25 DEF CacheOps, CacheOp, Line
  <2>2. calls = <<Tell("D", "INVALIDATE", "SET", real, FALSE),
                  Tell("I", "INVALIDATE", "SET", real, FALSE)>>
    BY <1>1, <1>25 DEF calls, CacheCalls, helper_qem_dcache_inval, helper_qem_icache_inval, l
  <2> QED BY <1>22, <2>1, <2>2
<1> QED BY <1>4, <1>8, <1>9, <1>11, <1>12, <1>13, <1>14, <1>15, <1>16, <1>17, <1>18, <1>19,
           <1>20, <1>21, <1>23, <1>24, <1>25

(* A cache operation.                                                       *)
LEMMA CacheOK ==
    ASSUME GuestOK, NEW op \in DOMAIN CacheOps, NEW i \in PpcIndexed, NEW level \in DOMAIN LevelOf,
           PpcCache(op, i, level)
    PROVE  GuestOK'
<1> DEFINE ea == Add(Base(i.rA), cpu.gpr[i.rB])
           spec == CacheOps[op]
           allowed == spec.privileged => "PR" \notin cpu.msr
           acts == CacheActs(op, level)
           calls == CacheCalls(op, LevelOf[level])
           real == CacheLevel(op, level)
           virt == TradAddress(i, cpu.gpr)
           Entry(kind) == IF kind = "I" THEN Translation("CODE", "X", ea)
                          ELSE Translation("INT", IF spec.probe = {"W"} THEN "W" ELSE "R", ea)
           why == TradReasons(i, cpu.gpr) \cup Reason(~allowed, "PrivilegeLate")
                  \cup CacheReasons(op, level)
           Ev(a) == PpcEvent(a.kind, CacheDescription(a, real), ea, Entry(a.kind), allowed, why)
           Call(c) == PpcCall(c.kind, virt, c.d)
           events == [k \in DOMAIN acts |-> Ev(acts[k])]
           told == [k \in DOMAIN calls |-> Call(calls[k])]
<1>1. target = "ppc" /\ cpu \in PpcProcessors /\ cpu.gpr \in [PpcRegs -> PpcWords]
  BY DEF PpcCache, Running, GuestOK, GuestTypeOK, IsProcessor, PpcProcessors
<1>2. PpcOutcome(events, told) /\ cpu' = AfterCacheOp(op, ea)
  BY DEF PpcCache
<1>3. cpu' \in PpcProcessors
  BY <1>1, <1>2, PpcReserved DEF AfterCacheOp
<1>4. /\ IsVirtual(ea) /\ IsVirtual(virt)
      /\ virt = ea \/ TradReasons(i, cpu.gpr) \cap AddressReasonNames # {}
      /\ Seen(TradReasons(i, cpu.gpr))
  BY <1>1, TradAddressOK
<1>5. allowed \in BOOLEAN
  BY Zenon
<1>6. /\ virt = ea \/ why \cap AddressReasonNames # {}
      /\ Seen(why) /\ CacheReasons(op, level) \subseteq why
      /\ allowed \/ why \cap {"Early", "CompareFailed", "PrivilegeLate"} # {}
  <2>1. Seen(CacheReasons(op, level))
    BY DEF CacheReasons, Reason, Seen
  <2> HIDE DEF allowed, ea, virt
  <2> QED BY <1>4, <2>1 DEF Reason, Seen
<1>7. /\ DOMAIN acts = DOMAIN calls
      /\ \A k \in DOMAIN acts : Matches(acts[k], calls[k], real, CacheReasons(op, level))
  BY CacheMatches DEF Matched
<1> HIDE DEF ea, allowed, real, virt, why, Entry, acts, calls
<1>8. ASSUME NEW k \in DOMAIN calls
      PROVE  PpcPair(Ev(acts[k]), Call(calls[k]))
  <2> DEFINE kind == acts[k].kind
             d == CacheDescription(acts[k], real)
             cd == calls[k].d
             e == Entry(kind)
  <2>1. /\ kind \in Kinds /\ calls[k].kind = kind /\ d \in Description /\ cd \in Description
        /\ ToldSame(cd, d, CacheReasons(op, level))
    BY <1>7 DEF Matches
  <2> HIDE DEF d, cd, e
  <2>2. ToldSame(cd, d, why)
    BY <1>6, <2>1 DEF ToldSame
  <2>3. calls[k].kind = kind
    BY <2>1
  <2> HIDE DEF kind
  <2>4. ASSUME NEW performed \in BOOLEAN,
               performed \/ why \cap {"Early", "CompareFailed", "PrivilegeLate"} # {}
        PROVE  PpcPair(PpcEvent(kind, d, ea, e, performed, why), PpcCall(kind, virt, cd))
    BY <1>1, <1>4, <1>6, <2>1, <2>2, <2>4, PpcPairs
  <2>5. PpcPair(PpcEvent(kind, d, ea, e, allowed, why), PpcCall(kind, virt, cd))
    BY <1>5, <1>6, <2>4, Zenon
  <2> QED BY <2>3, <2>5 DEF d, cd, e, kind
<1>9. DOMAIN events = DOMAIN told /\ \A k \in DOMAIN told : PpcPair(events[k], told[k])
  <2> HIDE DEF Ev, Call
  <2> QED BY <1>7, <1>8
<1> HIDE DEF events, told
<1> QED BY <1>1, <1>2, <1>3, <1>9, PpcOutcomeOK

(* --------------------------------- ARM ----------------------------------- *)

(* The bank chosen by the mode is the one of the security state, where it
   matters.                                                                 *)
LEMMA SameBank ==
    ASSUME cpu \in ArmProcessors, ~(cpu.sctlr["s"] # cpu.sctlr["ns"] /\ cpu.secure = cpu.user)
    PROVE  cpu.sctlr[IF cpu.user THEN "ns" ELSE "s"] = cpu.sctlr[IF cpu.secure THEN "s" ELSE "ns"]
<1>1. cpu.user \in BOOLEAN /\ cpu.secure \in BOOLEAN
  BY DEF ArmProcessors
<1>2. CASE cpu.sctlr["s"] = cpu.sctlr["ns"]
  BY <1>2
<1>3. CASE cpu.secure # cpu.user
  BY <1>1, <1>3
<1> QED BY <1>2, <1>3

(* A helper of ARM that is called with the description of the event, and with
   its address unless BE32 turned it, makes a record that tells it.         *)
LEMMA ArmTells ==
    ASSUME target = "arm", cpu \in ArmProcessors, NEW kind \in Kinds, NEW d \in Description,
           d.event = "ACCESS", NEW a, NEW virt, NEW performed, NEW why, IsVirtual(a), IsVirtual(virt),
           virt = a \/ "Be32" \in why,
           NEW ev, ev = ArmEvent(kind, a, d, performed, why),
           NEW r, r = ArmRecord(kind, virt, d)
    PROVE  EventOK(ev) /\ RecordOK(r) /\ Tells(ev, r)
<1> DEFINE info == qem_arm_get_info_addr_mem_trace(virt, kind)
           bank == cpu.sctlr[IF cpu.secure THEN "s" ELSE "ns"]
           paged == cpu.mmu # "off" /\ Mapped(a)
           mem == IF paged THEN Page(a).mem ELSE "DevnGnRnE"
           inst == kind = "I"
           user == cpu.user
           inhibit == CacheBit(kind) \notin bank \/ mem \notin {"WT", "WB"}
           coherent == paged => Page(a).shareable
           wt == mem = "WT"
           rd == Detail(d, inst, user, info.inhibit, TRUE, info.wt)
           ed == Detail(d, inst, user, inhibit, coherent, wt)
           lpae == cpu.mmu = "lpae" /\ Mapped(virt)
<1>1. /\ inst \in BOOLEAN /\ user \in BOOLEAN /\ inhibit \in BOOLEAN
      /\ coherent \in BOOLEAN /\ wt \in BOOLEAN
  <2>1. inst \in BOOLEAN /\ wt \in BOOLEAN
    OBVIOUS
  <2>2. user \in BOOLEAN
    BY DEF ArmProcessors
  <2>3. inhibit \in BOOLEAN /\ coherent \in BOOLEAN
    BY Zenon
  <2> QED BY <2>1, <2>2, <2>3, Zenon
<1>2. /\ info.phys = IF Mapped(virt) THEN ArmPhysical(virt) ELSE 0
      /\ info.inhibit = ((lpae /\ LowNibbleIs4(Page(virt).mem))
                         \/ CacheBit(kind) \notin cpu.sctlr[IF cpu.user THEN "ns" ELSE "s"])
      /\ info.wt = (lpae => LowBitsBelow4(Page(virt).mem))
  BY DEF qem_arm_get_info_addr_mem_trace
<1>3. info.inhibit \in BOOLEAN /\ info.wt \in BOOLEAN
  <2> HIDE DEF info
  <2> QED BY <1>2, Zenon
(* the record and the event *)
<1>4. r.flags = Flags(rd) /\ r.virt = virt /\ r.phys = info.phys
  BY DEF ArmRecord, Detail, Description
<1>5. /\ ev.kind = kind /\ ev.d = ed /\ ev.virt = a
      /\ ev.phys = IF Mapped(a) THEN ArmPhysical(a) ELSE 0
  BY DEF ArmEvent, Event, Detail, Description
<1>6. ev.why = why \cup Reason(~Mapped(a), "Unmapped")
                   \cup Reason(cpu.mmu = "short", "ShortDescriptors")
                   \cup Reason(mem = "DevnGnRnE", "StronglyOrdered")
                   \cup Reason(paged /\ ~Page(a).shareable, "NotShareable")
                   \cup Reason(cpu.sctlr["s"] # cpu.sctlr["ns"] /\ cpu.secure = cpu.user, "OtherBank")
  BY DEF ArmEvent, Event
<1> HIDE DEF info, bank, paged, mem, lpae
<1>7. /\ why \subseteq ev.why
      /\ "Unmapped" \notin ev.why => Mapped(a)
      /\ "ShortDescriptors" \notin ev.why => cpu.mmu # "short"
      /\ "StronglyOrdered" \notin ev.why => mem # "DevnGnRnE"
      /\ "NotShareable" \notin ev.why => ~(paged /\ ~Page(a).shareable)
      /\ "OtherBank" \notin ev.why =>
            ~(cpu.sctlr["s"] # cpu.sctlr["ns"] /\ cpu.secure = cpu.user)
  BY <1>6, Zenon DEF Reason
<1>8. "NotShareable" \notin ev.why => coherent = TRUE
  BY <1>7, Zenon
<1>9. ASSUME ev.why \cap TranslationReasonNames = {}
      PROVE  virt = a /\ r.phys = ev.phys
  BY <1>2, <1>4, <1>5, <1>7, <1>9 DEF TranslationReasonNames, AddressReasonNames
<1>10. ASSUME ev.why \cap PageReasonNames = {}
       PROVE  info.inhibit = inhibit /\ info.wt = wt
  <2>1. virt = a /\ Mapped(a) /\ cpu.mmu # "short" /\ mem # "DevnGnRnE"
    BY <1>7, <1>9, <1>10 DEF PageReasonNames, TranslationReasonNames
  <2>2. paged /\ mem = Page(a).mem
    BY <2>1 DEF mem
  <2>3. cpu.mmu \in {"off", "short", "lpae"}
    BY DEF ArmProcessors
  <2>4. cpu.mmu = "lpae" /\ lpae
    BY <2>1, <2>2, <2>3 DEF paged, lpae
  <2>5. Page(a) \in ArmPageTypes
    BY DEF Page, ArmProcessors, IsVirtual
  <2>6. mem \in MemoryTypes
    BY <2>1, <2>2, <2>4, <2>5 DEF ArmPageTypes, Mapped
  <2>7. /\ LowNibbleIs4(mem) <=> mem \notin {"WT", "WB"}
        /\ LowBitsBelow4(mem) <=> mem = "WT"
    BY <2>1, <2>6 DEF LowNibbleIs4, LowBitsBelow4, MemoryTypes
  <2>8. cpu.sctlr[IF cpu.user THEN "ns" ELSE "s"] = bank
    BY <1>7, <1>10, SameBank DEF PageReasonNames, bank
  <2>9. /\ info.inhibit <=> LowNibbleIs4(mem) \/ CacheBit(kind) \notin bank
        /\ info.wt <=> LowBitsBelow4(mem)
    <3>1. Page(virt).mem = mem
      BY <2>1, <2>2
    <3>2. /\ info.inhibit = ((lpae /\ LowNibbleIs4(mem)) \/ CacheBit(kind) \notin bank)
          /\ info.wt = (lpae => LowBitsBelow4(mem))
      BY <1>2, <2>8, <3>1
    <3> QED BY <2>4, <3>2, Zenon
  <2>10. info.inhibit <=> inhibit
    BY <2>7, <2>9, Zenon
  <2>11. info.wt <=> wt
    BY <2>7, <2>9, Zenon
  <2> QED BY <1>1, <1>3, <2>10, <2>11, Zenon
<1> HIDE DEF inst, user, inhibit, coherent, wt
<1>11. /\ rd \in Description
       /\ rd.inst = inst /\ rd.user = user /\ rd.inhibit = info.inhibit
       /\ rd.coherent = TRUE /\ rd.wt = info.wt
       /\ rd.event = d.event /\ rd.write = d.write /\ rd.size = d.size
       /\ rd.gran = d.gran /\ rd.level = d.level /\ rd.exclusive = d.exclusive
  <2>1. rd \in Description
    BY <1>1, <1>3 DEF Detail, Description
  <2>2. /\ rd.inst = inst /\ rd.user = user /\ rd.inhibit = info.inhibit
        /\ rd.coherent = TRUE /\ rd.wt = info.wt
    BY <1>1, <1>3 DEF Detail, Description
  <2>3. /\ rd.event = d.event /\ rd.write = d.write /\ rd.size = d.size
        /\ rd.gran = d.gran /\ rd.level = d.level /\ rd.exclusive = d.exclusive
    BY <1>1, <1>3 DEF Detail, Description
  <2> QED BY <2>1, <2>2, <2>3
<1>12. /\ ed \in Description
       /\ ed.inst = inst /\ ed.user = user /\ ed.inhibit = inhibit
       /\ ed.coherent = coherent /\ ed.wt = wt
       /\ ed.event = d.event /\ ed.write = d.write /\ ed.size = d.size
       /\ ed.gran = d.gran /\ ed.level = d.level /\ ed.exclusive = d.exclusive
  <2>1. ed \in Description
    BY <1>1 DEF Detail, Description
  <2>2. /\ ed.inst = inst /\ ed.user = user /\ ed.inhibit = inhibit
        /\ ed.coherent = coherent /\ ed.wt = wt
    BY <1>1 DEF Detail, Description
  <2>3. /\ ed.event = d.event /\ ed.write = d.write /\ ed.size = d.size
        /\ ed.gran = d.gran /\ ed.level = d.level /\ ed.exclusive = d.exclusive
    BY <1>1 DEF Detail, Description
  <2> QED BY <2>1, <2>2, <2>3
<1> HIDE DEF rd, ed
<1>13. AddressTold(ev, r)
  BY <1>4, <1>5, <1>7, <1>9 DEF AddressTold, AddressReasonNames
<1>14. AttributesTold(ev, rd)
  BY <1>5, <1>8, <1>10, <1>11, <1>12 DEF AttributesTold
<1>15. Tells(ev, r)
  BY <1>4, <1>5, <1>11, <1>12, <1>13, <1>14, DescriptionTells
<1>16. EventOK(ev)
  BY <1>5, <1>12 DEF EventOK
<1>17. RecordOK(r)
  BY <1>4, <1>11, FlagsAreWords DEF RecordOK, Description, Coded
<1> QED BY <1>15, <1>16, <1>17

(* An event and the record of it.                                           *)
ArmPair(ev, r) ==
    /\ EventOK(ev) /\ RecordOK(r) /\ Tells(ev, r)
    /\ Recorded(ev) <=> r.kind \in qem_tracing_state

(* The events that happen are recorded, and those that are known too late.  *)
LEMMA ArmPairs ==
    ASSUME target = "arm", cpu \in ArmProcessors, NEW kind \in Kinds, NEW d \in Description,
           d.event = "ACCESS", NEW a, NEW virt, NEW performed \in BOOLEAN, NEW why, IsVirtual(a), IsVirtual(virt),
           virt = a \/ "Be32" \in why, Seen(why),
           performed \/ why \cap {"Early", "CompareFailed", "PrivilegeLate"} # {}
    PROVE  ArmPair(ArmEvent(kind, a, d, performed, why), ArmRecord(kind, virt, d))
<1> DEFINE ev == ArmEvent(kind, a, d, performed, why)
           r == ArmRecord(kind, virt, d)
<1>1. EventOK(ev) /\ RecordOK(r) /\ Tells(ev, r)
  BY ArmTells
<1>2. ev.kind = kind /\ ev.performed = performed /\ r.kind = kind
  BY DEF ArmEvent, Event, ArmRecord
<1>3. why \subseteq ev.why /\ Seen(ev.why)
  BY DEF ArmEvent, Event, Reason, Seen
<1>4. Recorded(ev) <=> r.kind \in qem_tracing_state
  BY <1>2, <1>3 DEF Recorded
<1> QED BY <1>1, <1>4 DEF ArmPair

(* An instruction whose events and records pair.                            *)
LEMMA ArmOutcomeOK ==
    ASSUME target = "arm", GuestOK, cpu' \in ArmProcessors, NEW events, NEW records,
           ArmOutcome(events, records), DOMAIN events = DOMAIN records,
           \A i \in DOMAIN records : ArmPair(events[i], records[i])
    PROVE  GuestOK'
<1> DEFINE Told(r) == [virt |-> r.virt, phys |-> r.phys, flags |-> r.flags]
           told == [i \in Traced(records) |-> Told(records[i])]
<1>1. out' = told
  BY DEF ArmOutcome
<1>2. /\ UNCHANGED <<target, meta, qem_tracing_state>> /\ done' = events
      /\ qem_tracing_state \subseteq Kinds /\ IsProcessor'
  BY DEF ArmOutcome, GuestOK, GuestTypeOK, IsProcessor
<1>3. DOMAIN told = {i \in DOMAIN events : Recorded(events[i])}
  BY DEF Traced, ArmPair
<1>4. \A i \in DOMAIN events : EventOK(events[i])
  BY DEF ArmPair
<1>5. ASSUME NEW i \in DOMAIN told
      PROVE  RecordOK(told[i]) /\ Tells(events[i], told[i])
  <2>1. i \in DOMAIN records /\ told[i] = Told(records[i])
    BY DEF Traced
  <2>2. /\ told[i].virt = records[i].virt /\ told[i].phys = records[i].phys
        /\ told[i].flags = records[i].flags
    BY <2>1
  <2>3. RecordOK(records[i]) /\ Tells(events[i], records[i])
    BY <2>1 DEF ArmPair
  <2> HIDE DEF told
  <2> QED BY <2>2, <2>3 DEF RecordOK, Tells, EventTold, AddressTold
<1> HIDE DEF told
<1> QED BY <1>1, <1>2, <1>3, <1>4, <1>5, OutcomeTells

(* An instruction with one event.                                           *)
LEMMA ArmSingleOK ==
    ASSUME target = "arm", GuestOK, cpu' \in ArmProcessors, NEW ev, NEW r,
           ArmOutcome(<<ev>>, <<r>>), ArmPair(ev, r)
    PROVE  GuestOK'
<1>1. DOMAIN <<ev>> = DOMAIN <<r>> /\ \A i \in DOMAIN <<r>> : <<ev>>[i] = ev /\ <<r>>[i] = r
  OBVIOUS
<1> QED BY <1>1, ArmOutcomeOK

(* BE32 turns an address within its word.                                   *)
LEMMA ArmAddressOK ==
    ASSUME target = "arm", NEW a \in ArmAddresses, NEW size
    PROVE  a \in Nat /\ IsVirtual(a) /\ IsVirtual(gen_aa32_addr(a, size))
<1>1. a \in Nat /\ \A b \in 0..3 : ((a - (a % 4)) + b) \div ArmPageSize \in ArmPages
  <2>1. 0 \in 0..3
    OBVIOUS
  <2> QED BY <2>1, AddressesAssumption, Zenon
<1>2. a % 4 \in 0..3 /\ a - (a % 4) \in Nat
  BY <1>1
<1>3. ASSUME NEW b \in 0..3
      PROVE  IsVirtual((a - (a % 4)) + b)
  <2> DEFINE x == (a - (a % 4)) + b
  <2>1. x \in Nat
    BY <1>2
  <2>2. x \div ArmPageSize \in ArmPages
    BY <1>1, Zenon
  <2> HIDE DEF x
  <2>3. IsVirtual(x)
    BY <2>1, <2>2, Zenon DEF IsVirtual
  <2> QED BY <2>3 DEF x
<1>4. IsVirtual(a)
  <2>1. a = (a - (a % 4)) + (a % 4)
    BY <1>1, <1>2
  <2> QED BY <1>2, <1>3, <2>1
<1>5. 3 - (a % 4) \in 0..3 /\ ((a % 4) + 2) % 4 \in 0..3
  BY <1>2
<1>6. IsVirtual(gen_aa32_addr(a, size))
  <2> DEFINE b == a % 4
  <2>1. \/ gen_aa32_addr(a, size) = (a - b) + (3 - b)
        \/ gen_aa32_addr(a, size) = (a - b) + ((b + 2) % 4)
        \/ gen_aa32_addr(a, size) = a
    <3> HIDE DEF b
    <3>1. gen_aa32_addr(a, size) = CASE cpu.be32 /\ size = "B8" -> (a - b) + (3 - b)
                                    [] cpu.be32 /\ size = "B16" -> (a - b) + ((b + 2) % 4)
                                    [] OTHER -> a
      BY DEF gen_aa32_addr, b
    <3>2. CASE cpu.be32 /\ size = "B8"
      BY <3>1, <3>2
    <3>3. CASE cpu.be32 /\ size = "B16"
      BY <3>1, <3>3
    <3>4. CASE ~(cpu.be32 /\ size = "B8") /\ ~(cpu.be32 /\ size = "B16")
      BY <3>1, <3>4
    <3> QED BY <3>2, <3>3, <3>4
  <2> QED BY <2>1, <1>3, <1>4, <1>5
<1> QED BY <1>1, <1>4, <1>6

(* The fetch of an instruction: the Thumb translator has no helper.         *)
LEMMA ArmFetchOK ==
    ASSUME GuestOK, NEW pc \in ArmAddresses, ArmFetch(pc)
    PROVE  GuestOK'
<1> DEFINE d == [Plain EXCEPT !.size = "B32"]
           why == Reason(cpu.thumb, "Untraced")
           ev == ArmEvent("I", pc, d, TRUE, why)
           r == ArmRecord("I", pc, d)
<1>1. target = "arm" /\ cpu \in ArmProcessors /\ cpu' = cpu /\ IsVirtual(pc)
  BY ArmAddressOK DEF ArmFetch, Running, GuestOK, GuestTypeOK, IsProcessor
<1>2. d \in Description /\ d.event = "ACCESS"
  BY Codes DEF Plain, Description, DataSizes
<1>3. ArmOutcome(<<ev>>, IF cpu.thumb THEN <<>> ELSE <<r>>)
  BY DEF ArmFetch
<1> HIDE DEF d
<1>4. CASE cpu.thumb
  <2>1. EventOK(ev)
    BY <1>1, <1>2, ArmTells DEF Kinds
  <2>2. ~Recorded(ev)
    <3>1. ev.performed = TRUE /\ "Untraced" \in ev.why
      BY <1>4 DEF ArmEvent, Event, Reason
    <3> QED BY <3>1 DEF Recorded, Seen
  <2> HIDE DEF ev
  <2>3. \A i \in DOMAIN <<ev>> : EventOK(<<ev>>[i]) /\ ~Recorded(<<ev>>[i])
    BY <2>1, <2>2
  <2>4. PICK records : out' = records /\ DOMAIN records = {}
    BY <1>3, <1>4 DEF ArmOutcome, Traced
  <2>5. /\ UNCHANGED <<target, meta, qem_tracing_state>> /\ done' = <<ev>>
        /\ qem_tracing_state \subseteq Kinds /\ IsProcessor'
    BY <1>1, <1>3 DEF ArmOutcome, GuestOK, GuestTypeOK, IsProcessor
  <2> QED BY <2>3, <2>4, <2>5, UntracedOK
<1>5. CASE ~cpu.thumb
  <2>1. Seen(why)
    BY <1>5 DEF Reason, Seen
  <2> HIDE DEF why
  <2>2. ArmPair(ev, r)
    BY <1>1, <1>2, <2>1, ArmPairs DEF Kinds
  <2> HIDE DEF ev, r
  <2> QED BY <1>1, <1>3, <1>5, <2>2, ArmSingleOK
<1> QED BY <1>4, <1>5

(* The address is mapped or not, and an access that faults is known early.  *)
LEMMA EarlyReason ==
    ASSUME NEW addr
    PROVE  /\ Mapped(addr) \in BOOLEAN
           /\ Mapped(addr) \/ "Early" \in Reason(~Mapped(addr), "Early")
           /\ Seen(Reason(~Mapped(addr), "Early"))
<1>1. Mapped(addr) \in BOOLEAN
  BY Zenon DEF Mapped
<1> QED BY <1>1 DEF Reason, Seen

(* A load or a store.                                                       *)
LEMMA ArmAccessOK ==
    ASSUME GuestOK, NEW a \in ArmAddresses, NEW write \in BOOLEAN, NEW size \in ArmSizes,
           ArmAccess(a, write, size)
    PROVE  GuestOK'
<1> DEFINE addr == gen_aa32_addr(a, size)
           d == [Plain EXCEPT !.write = write, !.size = size]
           performed == Mapped(addr)
           why == Reason(~performed, "Early")
           ev == ArmEvent("D", addr, d, performed, why)
           r == ArmRecord("D", addr, d)
<1>1. target = "arm" /\ cpu \in ArmProcessors /\ cpu' = cpu /\ IsVirtual(addr)
  BY ArmAddressOK DEF ArmAccess, Running, GuestOK, GuestTypeOK, IsProcessor
<1>2. d \in Description /\ d.event = "ACCESS"
  BY Codes, InstructionsAssumption DEF Plain, Description
<1>3. ArmOutcome(<<ev>>, <<r>>)
  BY DEF ArmAccess
<1>4. /\ performed \in BOOLEAN /\ Seen(why)
      /\ performed \/ why \cap {"Early", "CompareFailed", "PrivilegeLate"} # {}
  BY EarlyReason
<1> HIDE DEF addr, d, performed, why
<1>5. \A p \in BOOLEAN : p \/ why \cap {"Early", "CompareFailed", "PrivilegeLate"} # {} =>
                            ArmPair(ArmEvent("D", addr, d, p, why), r)
  BY <1>1, <1>2, <1>4, ArmPairs DEF Kinds
<1>6. ArmPair(ev, r)
  BY <1>4, <1>5, Zenon
<1> HIDE DEF ev, r
<1> QED BY <1>1, <1>3, <1>6, ArmSingleOK

(* A swap: two events, both early.                                          *)
LEMMA ArmSwapOK ==
    ASSUME GuestOK, NEW a \in ArmAddresses, NEW size \in ArmSizes, ArmSwap(a, size)
    PROVE  GuestOK'
<1> DEFINE addr == gen_aa32_addr(a, size)
           D(write) == [Plain EXCEPT !.write = write, !.size = size, !.exclusive = TRUE]
           performed == Mapped(addr)
           why == Reason(~performed, "Early")
           E(write) == ArmEvent("D", addr, D(write), performed, why)
           R(write) == ArmRecord("D", addr, D(write))
<1>1. target = "arm" /\ cpu \in ArmProcessors /\ cpu' = cpu /\ IsVirtual(addr)
  BY ArmAddressOK DEF ArmSwap, Running, GuestOK, GuestTypeOK, IsProcessor
<1>2. \A write \in BOOLEAN : D(write) \in Description /\ D(write).event = "ACCESS"
  BY Codes, InstructionsAssumption DEF Plain, Description
<1>3. ArmOutcome(<<E(FALSE), E(TRUE)>>, <<R(FALSE), R(TRUE)>>)
  BY DEF ArmSwap
<1>4. /\ performed \in BOOLEAN /\ Seen(why)
      /\ performed \/ why \cap {"Early", "CompareFailed", "PrivilegeLate"} # {}
  BY EarlyReason
<1> HIDE DEF addr, D, performed, why
<1>5. \A p \in BOOLEAN : p \/ why \cap {"Early", "CompareFailed", "PrivilegeLate"} # {} =>
         /\ ArmPair(ArmEvent("D", addr, D(FALSE), p, why), R(FALSE))
         /\ ArmPair(ArmEvent("D", addr, D(TRUE), p, why), R(TRUE))
  BY <1>1, <1>2, <1>4, ArmPairs DEF Kinds
<1>6. ArmPair(E(FALSE), R(FALSE)) /\ ArmPair(E(TRUE), R(TRUE))
  BY <1>4, <1>5, Zenon
<1> DEFINE e1 == E(FALSE)
           e2 == E(TRUE)
           r1 == R(FALSE)
           r2 == R(TRUE)
           events == <<e1, e2>>
           records == <<r1, r2>>
<1>7. ArmPair(e1, r1) /\ ArmPair(e2, r2) /\ ArmOutcome(events, records)
  BY <1>3, <1>6
<1> HIDE DEF e1, e2, r1, r2
<1>8. DOMAIN events = DOMAIN records /\ \A i \in DOMAIN records : ArmPair(events[i], records[i])
  BY <1>7
<1> HIDE DEF events, records
<1> QED BY <1>1, <1>7, <1>8, ArmOutcomeOK

(* The address held changes, nothing else.                                  *)
LEMMA ArmHeld ==
    ASSUME cpu \in ArmProcessors, NEW x \in Nat \cup {NoExclusive}
    PROVE  [cpu EXCEPT !.exclusive = x] \in ArmProcessors
BY DEF ArmProcessors

(* An exclusive load.                                                       *)
LEMMA LoadExclusiveOK ==
    ASSUME GuestOK, NEW a \in ArmAddresses, NEW size \in ArmSizes, gen_load_exclusive(a, size)
    PROVE  GuestOK'
<1> DEFINE addr == gen_aa32_addr(a, size)
           virt == IF size = "B64" THEN addr ELSE a
           d == [Plain EXCEPT !.size = size, !.exclusive = TRUE]
           performed == Mapped(addr)
           why == Reason(~performed, "Early") \cup Reason(a # addr, "Be32")
           ev == ArmEvent("D", addr, d, performed, why)
           r == ArmRecord("D", virt, d)
<1>1. target = "arm" /\ cpu \in ArmProcessors
  BY DEF gen_load_exclusive, Running, GuestOK, GuestTypeOK, IsProcessor
<1>2. d \in Description /\ d.event = "ACCESS"
  BY Codes, InstructionsAssumption DEF Plain, Description
<1>3. /\ ArmOutcome(<<ev>>, <<r>>)
      /\ cpu' = IF performed THEN [cpu EXCEPT !.exclusive = a] ELSE cpu
  BY DEF gen_load_exclusive
<1>4. cpu' \in ArmProcessors
  BY <1>1, <1>3, ArmAddressOK, ArmHeld
<1>5. IsVirtual(addr) /\ IsVirtual(virt)
  BY <1>1, ArmAddressOK
<1>6. virt = addr \/ "Be32" \in why
  <2> HIDE DEF addr
  <2> QED BY DEF Reason
<1>7. /\ performed \in BOOLEAN /\ Seen(why)
      /\ performed \/ why \cap {"Early", "CompareFailed", "PrivilegeLate"} # {}
  <2>1. Seen(Reason(a # addr, "Be32"))
    BY DEF Reason, Seen
  <2> HIDE DEF addr
  <2> QED BY <2>1, EarlyReason DEF Seen
<1> HIDE DEF addr, virt, d, performed, why
<1>8. \A p \in BOOLEAN : p \/ why \cap {"Early", "CompareFailed", "PrivilegeLate"} # {} =>
                            ArmPair(ArmEvent("D", addr, d, p, why), r)
  BY <1>1, <1>2, <1>5, <1>6, <1>7, ArmPairs DEF Kinds
<1>9. ArmPair(ev, r)
  BY <1>7, <1>8, Zenon
<1> HIDE DEF ev, r
<1> QED BY <1>1, <1>3, <1>4, <1>9, ArmSingleOK

(* An exclusive store: one event at the address held, else none.            *)
LEMMA StoreExclusiveOK ==
    ASSUME GuestOK, NEW a \in ArmAddresses, NEW size \in ArmSizes, NEW stored \in BOOLEAN,
           gen_store_exclusive(a, size, stored)
    PROVE  GuestOK'
<1> DEFINE addr == gen_aa32_addr(a, size)
           d == [Plain EXCEPT !.write = TRUE, !.size = size, !.exclusive = TRUE]
           performed == Mapped(addr) /\ stored
           why == Reason(~Mapped(addr), "Early") \cup Reason(~stored, "CompareFailed")
           ev == ArmEvent("D", addr, d, performed, why)
           r == ArmRecord("D", addr, d)
<1>1. target = "arm" /\ cpu \in ArmProcessors
  BY DEF gen_store_exclusive, Running, GuestOK, GuestTypeOK, IsProcessor
<1>2. d \in Description /\ d.event = "ACCESS"
  BY Codes, InstructionsAssumption DEF Plain, Description
<1>3. /\ IF a = cpu.exclusive THEN ArmOutcome(<<ev>>, <<r>>) ELSE ArmOutcome(<<>>, <<>>)
      /\ cpu' = IF a = cpu.exclusive /\ ~Mapped(addr) THEN cpu
                ELSE [cpu EXCEPT !.exclusive = NoExclusive]
  BY DEF gen_store_exclusive
<1>4. cpu' \in ArmProcessors
  BY <1>1, <1>3, ArmHeld
<1>5. CASE a # cpu.exclusive
  <2>1. DOMAIN <<>> = {} /\ ArmOutcome(<<>>, <<>>)
    BY <1>3, <1>5
  <2> QED BY <1>1, <1>4, <2>1, ArmOutcomeOK
<1>6. CASE a = cpu.exclusive
  <2>1. IsVirtual(addr)
    BY <1>1, ArmAddressOK
  <2>2. performed \in BOOLEAN
    BY Zenon
  <2>3. /\ Seen(why)
        /\ performed \/ why \cap {"Early", "CompareFailed", "PrivilegeLate"} # {}
    <3> HIDE DEF addr
    <3>1. Seen(why)
      BY DEF Reason, Seen
    <3>2. ~stored => "CompareFailed" \in why
      BY DEF Reason
    <3>3. ~Mapped(addr) => "Early" \in why
      BY DEF Reason
    <3> HIDE DEF why
    <3> QED BY <3>1, <3>2, <3>3
  <2> HIDE DEF addr, d, performed, why
  <2>4. \A p \in BOOLEAN : p \/ why \cap {"Early", "CompareFailed", "PrivilegeLate"} # {} =>
                              ArmPair(ArmEvent("D", addr, d, p, why), r)
    BY <1>1, <1>2, <2>1, <2>3, ArmPairs DEF Kinds
  <2>5. ArmPair(ev, r)
    BY <2>2, <2>3, <2>4, Zenon
  <2> HIDE DEF ev, r
  <2> QED BY <1>1, <1>3, <1>4, <1>6, <2>5, ArmSingleOK
<1> QED BY <1>5, <1>6

(* -------------------------------- i386 ----------------------------------- *)

(* QEMU's walk, case by case.                                               *)
LEMMA WalkCases ==
    ASSUME NEW p
    PROVE  /\ ~Paging => Walk(p) = [frame |-> p, pcd |-> FALSE]
           /\ Paging /\ ~cpu.pde.present => Walk(p) = Uncached
           /\ Paging /\ cpu.pde.present /\ LargePage =>
                 Walk(p) = [frame |-> cpu.pde.base + p, pcd |-> cpu.pde.pcd]
           /\ Paging /\ cpu.pde.present /\ ~LargePage =>
                 Walk(p) = IF cpu.pte[p].present
                             THEN [frame |-> cpu.pte[p].frame, pcd |-> cpu.pte[p].pcd] ELSE Uncached
BY DEF Walk

(* The tracer's walk over the tables of the processor c.                    *)
LEMMA TracerCases ==
    ASSUME NEW p, NEW c, NEW garbage
    PROVE  LET info == qem_get_phys_addr_mem_tracing(c, p, garbage)
           IN  /\ ~("PG" \in c.cr0) => info = [phys |-> p, inhibit |-> FALSE]
               /\ "PG" \in c.cr0 /\ c.pde.present /\ c.pde.large /\ c.pse =>
                     info = [phys |-> c.pde.base + p, inhibit |-> c.pde.pcd]
               /\ "PG" \in c.cr0 /\ c.pde.present /\ ~(c.pde.large /\ c.pse) /\ c.pte[p].present =>
                     info.phys = c.pte[p].frame
BY DEF qem_get_phys_addr_mem_tracing

(* The same tables, as far as the walks look.                               *)
SameTables(c, p) ==
    /\ c.cr0 = cpu.cr0 /\ c.pse = cpu.pse /\ c.pde = cpu.pde
    /\ c.pte[p].present = cpu.pte[p].present /\ c.pte[p].frame = cpu.pte[p].frame

(* Both walks find the same frame; and the same inhibition without small pages. *)
LEMMA WalksAgree ==
    ASSUME cpu \in I386Processors, NEW p \in I386Pages, NEW c, SameTables(c, p),
           NEW garbage \in BOOLEAN, NEW info,
           info = qem_get_phys_addr_mem_tracing(c, p, garbage), Walk(p) # Uncached
    PROVE  /\ info.phys = Walk(p).frame
           /\ ~(Paging /\ ~LargePage) => info.inhibit = Walk(p).pcd
<1>1. CASE ~Paging
  <2>1. info = [phys |-> p, inhibit |-> FALSE] /\ Walk(p) = [frame |-> p, pcd |-> FALSE]
    BY <1>1, TracerCases, WalkCases DEF Paging, SameTables
  <2> QED BY <2>1
<1>2. CASE Paging /\ LargePage
  <2>1. cpu.pde.present
    BY <1>2, WalkCases
  <2>2. info = [phys |-> c.pde.base + p, inhibit |-> c.pde.pcd]
    BY <1>2, <2>1, TracerCases DEF Paging, LargePage, SameTables
  <2>3. Walk(p) = [frame |-> cpu.pde.base + p, pcd |-> cpu.pde.pcd]
    BY <1>2, <2>1, WalkCases
  <2> QED BY <2>2, <2>3 DEF SameTables
<1>3. CASE Paging /\ ~LargePage
  <2>1. cpu.pde.present
    BY <1>3, WalkCases
  <2>2. /\ cpu.pte[p].present
        /\ Walk(p) = [frame |-> cpu.pte[p].frame, pcd |-> cpu.pte[p].pcd]
    BY <1>3, <2>1, WalkCases
  <2>3. info.phys = c.pte[p].frame
    BY <1>3, <2>1, <2>2, TracerCases DEF Paging, LargePage, SameTables
  <2> QED BY <1>3, <2>2, <2>3 DEF SameTables
<1> QED BY <1>1, <1>2, <1>3

(* The walk gives a frame and a bit.                                        *)
LEMMA WalkTyped ==
    ASSUME cpu \in I386Processors, NEW p \in I386Pages, Walk(p) # Uncached
    PROVE  Walk(p).frame \in Nat /\ Walk(p).pcd \in BOOLEAN
<1>1. p \in Nat /\ cpu.pde.base \in Nat /\ cpu.pde.pcd \in BOOLEAN
  BY ProcessorsAssumption DEF I386Processors
<1>2. cpu.pte[p].frame \in Nat /\ cpu.pte[p].pcd \in BOOLEAN
  BY DEF I386Processors, I386PteTypes
<1>3. CASE ~Paging
  <2>1. Walk(p) = [frame |-> p, pcd |-> FALSE]
    BY <1>3, WalkCases
  <2> QED BY <1>1, <2>1
<1>4. CASE Paging /\ LargePage
  <2>1. Walk(p) = [frame |-> cpu.pde.base + p, pcd |-> cpu.pde.pcd]
    BY <1>4, WalkCases
  <2>2. cpu.pde.base + p \in Nat
    BY <1>1
  <2> QED BY <1>1, <2>1, <2>2
<1>5. CASE Paging /\ ~LargePage
  <2>1. Walk(p) = [frame |-> cpu.pte[p].frame, pcd |-> cpu.pte[p].pcd]
    BY <1>5, WalkCases
  <2> QED BY <1>2, <2>1
<1> QED BY <1>3, <1>4, <1>5

(* An access fills the TLB and sets the dirty bit, nothing else.            *)
LEMMA AccessedOK ==
    ASSUME cpu \in I386Processors, NEW user \in BOOLEAN, NEW p \in I386Pages,
           NEW write \in BOOLEAN, Mmu(user, p, write) # Uncached
    PROVE  /\ Accessed(user, p, write) \in I386Processors
           /\ SameTables(Accessed(user, p, write), p)
<1>1. CASE Cached(user, p, write)
  BY <1>1 DEF Accessed, SameTables
<1>2. CASE ~Cached(user, p, write)
  <2> DEFINE small == Paging /\ ~LargePage
             dirty == cpu.pte[p].dirty \/ (write /\ small)
             fresh == write \/ ~small \/ cpu.pte[p].dirty
             line == [frame |-> Walk(p).frame, pcd |-> Walk(p).pcd, dirty |-> fresh]
             entry == [cpu.pte[p] EXCEPT !.dirty = dirty]
             pte == [cpu.pte EXCEPT ![p] = entry]
             own == [cpu.tlb[user] EXCEPT ![p] = line]
             tlb == [cpu.tlb EXCEPT ![user] = own]
             after == [cpu EXCEPT !.pte = pte, !.tlb = tlb]
  <2>1. Accessed(user, p, write) = after
    BY <1>2 DEF Accessed, I386Processors
  <2>2. Walk(p) # Uncached
    BY <1>2 DEF Mmu
  <2>3. dirty \in BOOLEAN /\ fresh \in BOOLEAN
    BY Zenon
  <2> HIDE DEF dirty, fresh
  <2>4. line \in I386TlbTypes
    BY <2>2, <2>3, WalkTyped DEF I386TlbTypes
  <2>5. cpu.pte[p] \in I386PteTypes /\ cpu.pte \in [I386Pages -> I386PteTypes]
    BY DEF I386Processors
  <2>6. /\ entry \in I386PteTypes /\ entry.present = cpu.pte[p].present
        /\ entry.frame = cpu.pte[p].frame
    BY <2>3, <2>5 DEF I386PteTypes
  <2> HIDE DEF line, entry
  <2>7. pte \in [I386Pages -> I386PteTypes] /\ pte[p] = entry
    BY <2>5, <2>6
  <2>8. tlb \in [BOOLEAN -> [I386Pages -> I386TlbTypes]]
    <3>1. cpu.tlb \in [BOOLEAN -> [I386Pages -> I386TlbTypes]]
      BY DEF I386Processors
    <3>2. own \in [I386Pages -> I386TlbTypes]
      BY <2>4, <3>1
    <3> HIDE DEF own
    <3> QED BY <3>1, <3>2
  <2> HIDE DEF pte, tlb
  <2>9. /\ after \in I386Processors /\ after.cr0 = cpu.cr0 /\ after.pse = cpu.pse
        /\ after.pde = cpu.pde /\ after.pte = pte
    BY <2>7, <2>8 DEF I386Processors
  <2> HIDE DEF after
  <2> QED BY <2>1, <2>6, <2>7, <2>9 DEF SameTables
<1> QED BY <1>1, <1>2

(* The event that an access of the translation e is.                        *)
I386EventOf(ev, kind, p, d, e) ==
    /\ ev.kind = kind /\ ev.virt = p /\ ev.phys = IF e = Uncached THEN 0 ELSE e.frame
    /\ ev.d \in Description /\ ev.d.event = d.event /\ ev.d.write = d.write /\ ev.d.size = d.size
    /\ ev.d.gran = d.gran /\ ev.d.level = d.level /\ ev.d.exclusive = d.exclusive
    /\ ev.d.coherent = d.coherent /\ ev.d.wt = d.wt
    /\ ev.d.inst <=> kind = "I"
    /\ ev.d.inhibit <=> "CD" \in cpu.cr0 \/ (e # Uncached /\ e.pcd)
    /\ ev.why \cap {"MiddleRing", "NotProtected", "Implicit"} = {} => (ev.d.user <=> cpu.cs # 0)
    /\ "Unmapped" \notin ev.why => e # Uncached
    /\ "StaleTlb" \notin ev.why => e = Walk(p)
    /\ "SmallPage" \notin ev.why => ~(Paging /\ ~LargePage)

(* The events of the instructions are such.                                 *)
LEMMA I386Events ==
    ASSUME cpu \in I386Processors, NEW kind \in Kinds, NEW p, NEW d \in Description, NEW e,
           NEW performed \in BOOLEAN, NEW why
    PROVE  /\ I386EventOf(I386Event(kind, p, d, e, performed, why), kind, p, d, e)
           /\ I386Event(kind, p, d, e, performed, why).performed = performed
           /\ why \subseteq I386Event(kind, p, d, e, performed, why).why
           /\ Seen(I386Event(kind, p, d, e, performed, why).why) <=> Seen(why)
           /\ DOMAIN I386Event(kind, p, d, e, performed, why) =
                 {"kind", "d", "virt", "phys", "performed", "why"}
<1> DEFINE ev == I386Event(kind, p, d, e, performed, why)
<1> DEFINE inst == kind = "I"
           user == UserMode
           inhibit == "CD" \in cpu.cr0 \/ (e # Uncached /\ e.pcd)
           ed == [[d EXCEPT !.user = user, !.inhibit = inhibit] EXCEPT !.inst = inst]
<1>1. inst \in BOOLEAN /\ user \in BOOLEAN
  BY DEF UserMode
<1>2. inhibit \in BOOLEAN
  BY Zenon
<1>3. /\ ev.kind = kind /\ ev.virt = p /\ ev.phys = IF e = Uncached THEN 0 ELSE e.frame
      /\ ev.d = ed /\ ev.performed = performed
      /\ DOMAIN ev = {"kind", "d", "virt", "phys", "performed", "why"}
  BY DEF I386Event, Event
<1>4. ev.why = why \cup Reason(e = Uncached, "Unmapped") \cup Reason(Stale(p, e), "StaleTlb")
                   \cup Reason(Paging /\ ~LargePage, "SmallPage")
                   \cup Reason(cpu.cpl \in {1, 2}, "MiddleRing")
                   \cup Reason(cpu.cs # cpu.cpl, "NotProtected")
  BY DEF I386Event, Event
<1>5. /\ why \subseteq ev.why
      /\ Seen(ev.why) <=> Seen(why)
      /\ "Unmapped" \notin ev.why => e # Uncached
      /\ "StaleTlb" \notin ev.why => ~Stale(p, e)
      /\ "SmallPage" \notin ev.why => ~(Paging /\ ~LargePage)
      /\ "MiddleRing" \notin ev.why => ~(cpu.cpl \in {1, 2})
      /\ "NotProtected" \notin ev.why => cpu.cs = cpu.cpl
  BY <1>4 DEF Reason, Seen
<1>6. "StaleTlb" \notin ev.why => e = Walk(p)
  BY <1>5 DEF Stale
<1>7. "MiddleRing" \notin ev.why /\ "NotProtected" \notin ev.why => (user <=> cpu.cs # 0)
  BY <1>5 DEF I386Processors, UserMode
<1> HIDE DEF inst, user, inhibit
<1>8. /\ ed \in Description /\ ed.inst = inst /\ ed.user = user /\ ed.inhibit = inhibit
      /\ ed.event = d.event /\ ed.write = d.write /\ ed.size = d.size
      /\ ed.gran = d.gran /\ ed.level = d.level /\ ed.exclusive = d.exclusive
      /\ ed.coherent = d.coherent /\ ed.wt = d.wt
  <2>1. ed \in Description
    BY <1>1, <1>2 DEF Description
  <2>2. ed.inst = inst /\ ed.user = user /\ ed.inhibit = inhibit
    BY <1>1, <1>2 DEF Description
  <2>3. /\ ed.event = d.event /\ ed.write = d.write /\ ed.size = d.size
        /\ ed.gran = d.gran /\ ed.level = d.level /\ ed.exclusive = d.exclusive
        /\ ed.coherent = d.coherent /\ ed.wt = d.wt
    BY <1>1, <1>2 DEF Description
  <2> QED BY <2>1, <2>2, <2>3
<1> HIDE DEF ed
<1>9. /\ ev.d.inst <=> kind = "I"
      /\ ev.d.inhibit <=> "CD" \in cpu.cr0 \/ (e # Uncached /\ e.pcd)
  BY <1>3, <1>8, Zenon DEF inst, inhibit
<1>10. ev.why \cap {"MiddleRing", "NotProtected", "Implicit"} = {} => (ev.d.user <=> cpu.cs # 0)
  <2>1. ev.d.user = user
    BY <1>3, <1>8
  <2>2. ev.why \cap {"MiddleRing", "NotProtected", "Implicit"} = {} =>
           "MiddleRing" \notin ev.why /\ "NotProtected" \notin ev.why
    OBVIOUS
  <2> QED BY <1>7, <2>1, <2>2, Zenon
<1>11. I386EventOf(ev, kind, p, d, e)
  BY <1>3, <1>5, <1>6, <1>8, <1>9, <1>10 DEF I386EventOf
<1> QED BY <1>3, <1>5, <1>11

(* A record made of the walk over the same tables tells such an event.      *)
LEMMA I386Tells ==
    ASSUME target = "i386", cpu \in I386Processors, NEW kind \in Kinds, NEW p \in I386Pages,
           NEW d \in Description, NEW told \in Description, NEW e, NEW ev,
           I386EventOf(ev, kind, p, d, e), NEW info, NEW r,
           r = [virt |-> p, phys |-> info.phys,
                flags |-> qem_get_flags_mem_tracing([told EXCEPT !.inst = (kind = "I")], info)],
           Walk(p) # Uncached =>
              /\ info.phys = Walk(p).frame
              /\ ~(Paging /\ ~LargePage) => info.inhibit = Walk(p).pcd,
           d.event = "ACCESS", told.event = d.event, told.write = d.write, told.gran = d.gran,
           told.exclusive = d.exclusive, told.level = d.level, told.coherent = d.coherent,
           told.wt = d.wt, told.size = d.size \/ "FetchSize" \in ev.why
    PROVE  EventOK(ev) /\ RecordOK(r) /\ Tells(ev, r)
<1> DEFINE inst == kind = "I"
           user == cpu.cs # 0
           inhibit == info.inhibit \/ "CD" \in cpu.cr0
           rd == [[told EXCEPT !.inst = inst] EXCEPT !.user = user, !.inhibit = inhibit]
<1>1. inst \in BOOLEAN /\ user \in BOOLEAN /\ inhibit \in BOOLEAN
  <2>1. inst \in BOOLEAN
    OBVIOUS
  <2>2. user \in BOOLEAN /\ inhibit \in BOOLEAN
    BY Zenon
  <2> QED BY <2>1, <2>2
<1>2. r.virt = p /\ r.phys = info.phys /\ r.flags = Flags(rd)
  BY DEF qem_get_flags_mem_tracing
<1>3. ev.d.inst \in BOOLEAN /\ ev.d.user \in BOOLEAN /\ ev.d.inhibit \in BOOLEAN
  BY DEF I386EventOf, Description
<1>4. ev.d.inst = inst
  BY <1>1, <1>3, Zenon DEF I386EventOf
<1>5. ev.why \cap {"MiddleRing", "NotProtected", "Implicit"} = {} => ev.d.user = user
  BY <1>1, <1>3, Zenon DEF I386EventOf
<1>6. ASSUME ev.why \cap TranslationReasonNames = {}
      PROVE  /\ e # Uncached /\ e = Walk(p) /\ r.phys = ev.phys
  <2>1. "Unmapped" \notin ev.why /\ "StaleTlb" \notin ev.why
    BY <1>6 DEF TranslationReasonNames
  <2>2. e # Uncached /\ e = Walk(p)
    BY <2>1 DEF I386EventOf
  <2> QED BY <1>2, <2>2 DEF I386EventOf
<1>7. ASSUME ev.why \cap PageReasonNames = {}
      PROVE  ev.d.inhibit = inhibit
  <2>1. "SmallPage" \notin ev.why /\ ev.why \cap TranslationReasonNames = {}
    BY <1>7 DEF PageReasonNames
  <2>2. e # Uncached /\ e = Walk(p) /\ ~(Paging /\ ~LargePage)
    BY <1>6, <2>1 DEF I386EventOf
  <2>3. info.inhibit = e.pcd
    BY <2>2
  <2>4. ev.d.inhibit <=> "CD" \in cpu.cr0 \/ (e # Uncached /\ e.pcd)
    BY DEF I386EventOf
  <2>5. ev.d.inhibit <=> inhibit
    BY <2>2, <2>3, <2>4, Zenon
  <2> QED BY <1>1, <1>3, <2>5, Zenon
<1> HIDE DEF inst, user, inhibit
<1>8. /\ rd \in Description /\ rd.inst = inst /\ rd.user = user /\ rd.inhibit = inhibit
      /\ rd.event = told.event /\ rd.write = told.write /\ rd.size = told.size
      /\ rd.gran = told.gran /\ rd.level = told.level /\ rd.exclusive = told.exclusive
      /\ rd.coherent = told.coherent /\ rd.wt = told.wt
  <2>1. rd \in Description
    BY <1>1 DEF Description
  <2>2. rd.inst = inst /\ rd.user = user /\ rd.inhibit = inhibit
    BY <1>1 DEF Description
  <2>3. /\ rd.event = told.event /\ rd.write = told.write /\ rd.size = told.size
        /\ rd.gran = told.gran /\ rd.level = told.level /\ rd.exclusive = told.exclusive
        /\ rd.coherent = told.coherent /\ rd.wt = told.wt
    BY <1>1 DEF Description
  <2> QED BY <2>1, <2>2, <2>3
<1> HIDE DEF rd
<1>9. /\ ev.d \in Description /\ ev.kind = kind /\ ev.virt = p
      /\ ev.d.event = d.event /\ ev.d.write = d.write /\ ev.d.size = d.size
      /\ ev.d.gran = d.gran /\ ev.d.level = d.level /\ ev.d.exclusive = d.exclusive
      /\ ev.d.coherent = d.coherent /\ ev.d.wt = d.wt
  BY DEF I386EventOf
<1>10. AddressTold(ev, r)
  BY <1>2, <1>6, <1>9 DEF AddressTold
<1>11. AttributesTold(ev, rd)
  <2>1. ev.why \cap {"CriticalEnable", "MiddleRing", "NotProtected", "Implicit"} = {} =>
           rd.user = ev.d.user
    <3>1. ev.why \cap {"CriticalEnable", "MiddleRing", "NotProtected", "Implicit"} = {} =>
             ev.why \cap {"MiddleRing", "NotProtected", "Implicit"} = {}
      OBVIOUS
    <3> QED BY <1>5, <1>8, <3>1
  <2>2. ev.why \cap {"StringTail", "FetchSize"} = {} => rd.size = ev.d.size
    BY <1>8, <1>9
  <2>3. ev.why \cap PageReasonNames = {} => rd.inhibit = ev.d.inhibit
    BY <1>7, <1>8
  <2> QED BY <1>8, <1>9, <2>1, <2>2, <2>3 DEF AttributesTold
<1>12. Tells(ev, r)
  BY <1>2, <1>4, <1>8, <1>9, <1>10, <1>11, DescriptionTells
<1>13. EventOK(ev)
  BY <1>9 DEF EventOK, IsVirtual
<1>14. RecordOK(r)
  BY <1>2, <1>8, FlagsAreWords DEF RecordOK, Description, Coded, IsVirtual
<1> QED BY <1>12, <1>13, <1>14

(* The two walks of the tracer see what QEMU's walk sees.                   *)
LEMMA InfoOK ==
    ASSUME cpu \in I386Processors, NEW p \in I386Pages, NEW c, SameTables(c, p), NEW info,
           \/ \E garbage \in BOOLEAN : info = qem_get_phys_addr_mem_tracing(c, p, garbage)
           \/ info = InstructionWalk(c, p)
    PROVE  Walk(p) # Uncached =>
              /\ info.phys = Walk(p).frame
              /\ ~(Paging /\ ~LargePage) => info.inhibit = Walk(p).pcd
<1> SUFFICES ASSUME Walk(p) # Uncached
             PROVE  \E garbage \in BOOLEAN : info = qem_get_phys_addr_mem_tracing(c, p, garbage)
  BY WalksAgree
<1>1. ~("PG" \in c.cr0 /\ ~c.pde.present)
  BY WalkCases DEF SameTables, Paging
<1>2. ASSUME info = InstructionWalk(c, p)
      PROVE  info = qem_get_phys_addr_mem_tracing(c, p, FALSE)
  BY <1>1, <1>2 DEF InstructionWalk
<1> QED BY <1>2

(* What an i386 step leaves, given the event and the walk.                  *)
LEMMA I386SingleOK ==
    ASSUME target = "i386", GuestOK, cpu' \in I386Processors, NEW kind \in Kinds,
           NEW p \in I386Pages, NEW d \in Description, NEW told \in Description, NEW e, NEW ev,
           I386EventOf(ev, kind, p, d, e), Recorded(ev) <=> kind \in qem_tracing_state,
           NEW c, SameTables(c, p), NEW info,
           \/ \E garbage \in BOOLEAN : info = qem_get_phys_addr_mem_tracing(c, p, garbage)
           \/ info = InstructionWalk(c, p),
           done' = <<ev>>, out' = I386Record(kind, p, told, info), I386Frame,
           d.event = "ACCESS", told.event = d.event, told.write = d.write, told.gran = d.gran,
           told.exclusive = d.exclusive, told.level = d.level, told.coherent = d.coherent,
           told.wt = d.wt, told.size = d.size \/ "FetchSize" \in ev.why
    PROVE  GuestOK'
<1> DEFINE r == [virt |-> p, phys |-> info.phys,
                 flags |-> qem_get_flags_mem_tracing([told EXCEPT !.inst = (kind = "I")], info)]
<1>1. cpu \in I386Processors /\ qem_tracing_state \subseteq Kinds
  BY DEF GuestOK, GuestTypeOK, IsProcessor
<1>2. UNCHANGED <<target, meta, qem_tracing_state>> /\ IsProcessor'
  BY DEF I386Frame, IsProcessor
<1>3. out' = IF kind \in qem_tracing_state THEN <<r>> ELSE <<>>
  BY DEF I386Record
<1>4. Walk(p) # Uncached =>
         /\ info.phys = Walk(p).frame
         /\ ~(Paging /\ ~LargePage) => info.inhibit = Walk(p).pcd
  BY <1>1, InfoOK
<1>5. EventOK(ev) /\ RecordOK(r) /\ Tells(ev, r)
  BY <1>1, <1>4, I386Tells
<1> HIDE DEF r
<1> QED BY <1>1, <1>2, <1>3, <1>5, SingleOK

(* The TLB of the program is one of the two.                                *)
LEMMA UserModeTyped == UserMode \in BOOLEAN
BY DEF UserMode

(* A load or a store.                                                       *)
LEMMA I386AccessOK ==
    ASSUME GuestOK, NEW p \in I386Pages, NEW write \in BOOLEAN, NEW size \in I386Sizes,
           I386Access(p, write, size)
    PROVE  GuestOK'
<1> DEFINE e == Mmu(UserMode, p, write)
           d == [Plain EXCEPT !.write = write, !.size = size]
           after == Accessed(UserMode, p, write)
           ev == I386Event("D", p, d, e, TRUE, {})
<1>1. target = "i386" /\ cpu \in I386Processors
  BY DEF I386Access, Running, GuestOK, GuestTypeOK, IsProcessor
<1>2. d \in Description /\ d.event = "ACCESS"
  BY Codes, InstructionsAssumption DEF Plain, Description
<1>3. /\ e # Uncached /\ done' = <<ev>> /\ cpu' = after /\ I386Frame
      /\ \E garbage \in BOOLEAN :
            out' = I386Record("D", p, d, qem_get_phys_addr_mem_tracing(after, p, garbage))
  BY DEF I386Access
<1>4. after \in I386Processors /\ SameTables(after, p)
  BY <1>1, <1>3, UserModeTyped, AccessedOK
<1> HIDE DEF e, d, after
<1>5. I386EventOf(ev, "D", p, d, e) /\ ev.performed = TRUE /\ Seen(ev.why)
  <2>1. ev.performed = TRUE
    BY DEF I386Event, Event
  <2>2. "D" \in Kinds
    BY DEF Kinds
  <2>3. I386EventOf(ev, "D", p, d, e) /\ Seen(ev.why)
    BY <1>1, <1>2, <2>2, I386Events DEF Seen
  <2> QED BY <2>1, <2>3
<1>6. Recorded(ev) <=> "D" \in qem_tracing_state
  BY <1>5 DEF Recorded, I386EventOf
<1> HIDE DEF ev
<1>7. PICK garbage \in BOOLEAN :
         out' = I386Record("D", p, d, qem_get_phys_addr_mem_tracing(after, p, garbage))
  BY <1>3
<1> QED BY <1>1, <1>2, <1>3, <1>4, <1>5, <1>6, <1>7, I386SingleOK DEF Kinds

(* A fetch, told as a byte.                                                 *)
LEMMA I386FetchOK ==
    ASSUME GuestOK, NEW p \in I386Pages, NEW size \in I386Sizes, I386Fetch(p, size)
    PROVE  GuestOK'
<1> DEFINE e == Mmu(UserMode, p, FALSE)
           d == [Plain EXCEPT !.size = size]
           after == Accessed(UserMode, p, FALSE)
           ev == I386Event("I", p, d, e, TRUE, {"FetchSize"})
<1>1. target = "i386" /\ cpu \in I386Processors
  BY DEF I386Fetch, Running, GuestOK, GuestTypeOK, IsProcessor
<1>2. /\ d \in Description /\ Plain \in Description /\ Plain.event = d.event
      /\ d.event = "ACCESS"
      /\ Plain.write = d.write /\ Plain.gran = d.gran /\ Plain.exclusive = d.exclusive
      /\ Plain.level = d.level /\ Plain.coherent = d.coherent /\ Plain.wt = d.wt
  BY Codes, InstructionsAssumption DEF Plain, Description, DataSizes
<1>3. /\ e # Uncached /\ done' = <<ev>> /\ cpu' = after /\ I386Frame
      /\ out' = I386Record("I", p, Plain, InstructionWalk(after, p))
  BY DEF I386Fetch
<1>4. after \in I386Processors /\ SameTables(after, p)
  BY <1>1, <1>3, UserModeTyped, AccessedOK
<1> HIDE DEF e, d, after
<1>5. /\ I386EventOf(ev, "I", p, d, e) /\ ev.performed = TRUE /\ Seen(ev.why)
      /\ "FetchSize" \in ev.why
  <2>1. Seen({"FetchSize"})
    BY DEF Seen
  <2> QED BY <1>1, <1>2, <2>1, I386Events DEF Kinds
<1>6. Recorded(ev) <=> "I" \in qem_tracing_state
  BY <1>5 DEF Recorded, I386EventOf
<1> HIDE DEF ev
<1> QED BY <1>1, <1>2, <1>3, <1>4, <1>5, <1>6, I386SingleOK DEF Kinds

(* A description with its privilege cleared.                                *)
LEMMA UserCleared ==
    ASSUME NEW x \in Description, NEW y, y = [x EXCEPT !.user = FALSE]
    PROVE  /\ y \in Description /\ y.event = x.event /\ y.write = x.write
           /\ y.size = x.size /\ y.gran = x.gran /\ y.level = x.level
           /\ y.exclusive = x.exclusive /\ y.coherent = x.coherent
           /\ y.wt = x.wt /\ y.inst = x.inst /\ y.inhibit = x.inhibit
           /\ y.user = FALSE
<1>1. [x EXCEPT !.user = FALSE] \in Description
  BY DEF Description
<1>2. /\ y.event = x.event /\ y.write = x.write /\ y.size = x.size /\ y.gran = x.gran
      /\ y.level = x.level /\ y.exclusive = x.exclusive
  BY DEF Description
<1>3. /\ y.coherent = x.coherent /\ y.wt = x.wt /\ y.inst = x.inst /\ y.inhibit = x.inhibit
      /\ y.user = FALSE
  BY DEF Description
<1> QED BY <1>1, <1>2, <1>3

(* An access of the processor itself, traced before it is tried.            *)
LEMMA I386SegmentOK ==
    ASSUME GuestOK, NEW p \in I386Pages, NEW write \in BOOLEAN, NEW size \in I386Sizes,
           I386Segment(p, write, size)
    PROVE  GuestOK'
<1> DEFINE e == Mmu(FALSE, p, write)
           d == [Plain EXCEPT !.write = write, !.size = size]
           performed == e # Uncached
           why == Reason(e = Uncached, "Early") \cup Reason(cpu.cs # 0, "Implicit")
           base == I386Event("D", p, d, e, performed, why)
           ev == [base EXCEPT !.d.user = FALSE]
<1>1. target = "i386" /\ cpu \in I386Processors
  BY DEF I386Segment, Running, GuestOK, GuestTypeOK, IsProcessor
<1>2. d \in Description /\ d.event = "ACCESS"
  BY Codes, InstructionsAssumption DEF Plain, Description
<1>3. /\ done' = <<ev>> /\ cpu' = IF e = Uncached THEN cpu ELSE Accessed(FALSE, p, write)
      /\ \E garbage \in BOOLEAN :
            out' = I386Record("D", p, d, qem_get_phys_addr_mem_tracing(cpu, p, garbage))
      /\ I386Frame
  BY DEF I386Segment
<1>4. cpu' \in I386Processors /\ SameTables(cpu, p)
  BY <1>1, <1>3, AccessedOK DEF SameTables
<1>5. /\ Seen(why)
      /\ ~performed => "Early" \in why
      /\ "Implicit" \notin why => cpu.cs = 0
  <2> HIDE DEF e
  <2> QED BY DEF Reason, Seen
<1>6. performed \in BOOLEAN
  OBVIOUS
<1> HIDE DEF e, d, performed, why
<1>7. /\ I386EventOf(base, "D", p, d, e) /\ base.performed = performed /\ why \subseteq base.why
      /\ Seen(base.why)
      /\ DOMAIN base = {"kind", "d", "virt", "phys", "performed", "why"}
  <2> DEFINE Made(q) == I386Event("D", p, d, e, q, why)
  <2>1. \A q \in BOOLEAN :
          /\ I386EventOf(Made(q), "D", p, d, e) /\ Made(q).performed = q
          /\ why \subseteq Made(q).why /\ Seen(Made(q).why)
          /\ DOMAIN Made(q) = {"kind", "d", "virt", "phys", "performed", "why"}
    BY <1>1, <1>2, <1>5, I386Events, SMTT(30) DEF Kinds
  <2> QED BY <1>6, <2>1, Zenon
<1> HIDE DEF base
<1>8. /\ ev.kind = base.kind /\ ev.virt = base.virt /\ ev.phys = base.phys /\ ev.why = base.why
      /\ ev.performed = base.performed /\ ev.d = [base.d EXCEPT !.user = FALSE]
  BY <1>7
<1>9. base.d \in Description
  BY <1>7 DEF I386EventOf
<1>10. /\ ev.d \in Description /\ ev.d.event = base.d.event /\ ev.d.write = base.d.write
       /\ ev.d.size = base.d.size /\ ev.d.gran = base.d.gran /\ ev.d.level = base.d.level
       /\ ev.d.exclusive = base.d.exclusive /\ ev.d.coherent = base.d.coherent
       /\ ev.d.wt = base.d.wt /\ ev.d.inst = base.d.inst /\ ev.d.inhibit = base.d.inhibit
       /\ ev.d.user = FALSE
  BY <1>8, <1>9, UserCleared
<1> HIDE DEF ev
<1>11. ev.why \cap {"MiddleRing", "NotProtected", "Implicit"} = {} => (ev.d.user <=> cpu.cs # 0)
  BY <1>5, <1>7, <1>8, <1>10
<1>12. I386EventOf(ev, "D", p, d, e)
  BY <1>7, <1>8, <1>10, <1>11 DEF I386EventOf
<1>13. Recorded(ev) <=> "D" \in qem_tracing_state
  BY <1>5, <1>6, <1>7, <1>8 DEF Recorded, I386EventOf
<1>14. PICK garbage \in BOOLEAN :
          out' = I386Record("D", p, d, qem_get_phys_addr_mem_tracing(cpu, p, garbage))
  BY <1>3
<1> QED BY <1>1, <1>2, <1>3, <1>4, <1>12, <1>13, <1>14, I386SingleOK DEF Kinds

(* A locked read-modify-write leaves no record.                             *)
LEMMA I386LockedOK ==
    ASSUME GuestOK, NEW p \in I386Pages, NEW size \in I386Sizes, I386Locked(p, size)
    PROVE  GuestOK'
<1> DEFINE e == Mmu(UserMode, p, TRUE)
           D(write) == [Plain EXCEPT !.write = write, !.size = size]
           e1 == I386Event("D", p, D(FALSE), e, TRUE, {"Untraced"})
           e2 == I386Event("D", p, D(TRUE), e, TRUE, {"Untraced"})
           events == <<e1, e2>>
<1>1. target = "i386" /\ cpu \in I386Processors /\ qem_tracing_state \subseteq Kinds
  BY DEF I386Locked, Running, GuestOK, GuestTypeOK, IsProcessor
<1>2. D(FALSE) \in Description /\ D(TRUE) \in Description
  BY Codes, InstructionsAssumption DEF Plain, Description
<1>3. /\ e # Uncached /\ done' = events /\ cpu' = Accessed(UserMode, p, TRUE) /\ out' = <<>>
      /\ UNCHANGED <<target, meta, qem_tracing_state>>
  BY DEF I386Locked, I386Frame
<1>4. IsProcessor'
  BY <1>1, <1>3, UserModeTyped, AccessedOK DEF IsProcessor
<1> HIDE DEF e, D
<1>5. ASSUME NEW d \in Description, NEW ev, ev = I386Event("D", p, d, e, TRUE, {"Untraced"})
      PROVE  EventOK(ev) /\ ~Recorded(ev)
  <2>1. I386EventOf(ev, "D", p, d, e) /\ ev.performed = TRUE /\ "Untraced" \in ev.why
    BY <1>1, <1>5, I386Events DEF Kinds
  <2> QED BY <1>1, <2>1 DEF I386EventOf, EventOK, IsVirtual, Kinds, Recorded, Seen
<1>6. EventOK(e1) /\ ~Recorded(e1) /\ EventOK(e2) /\ ~Recorded(e2)
  BY <1>2, <1>5
<1> HIDE DEF e1, e2
<1>7. \A i \in DOMAIN events : EventOK(events[i]) /\ ~Recorded(events[i])
  BY <1>6
<1>8. PICK records : out' = records /\ DOMAIN records = {}
  BY <1>3
<1> HIDE DEF events
<1> QED BY <1>1, <1>3, <1>4, <1>7, <1>8, UntracedOK

(* The guest's own changes of its page table and of the TLB.                *)
LEMMA I386TablesOK ==
    ASSUME GuestOK, NEW p \in I386Pages,
           (\E e \in I386Ptes : I386WritePte(p, e)) \/ I386Invlpg(p)
    PROVE  GuestOK'
<1>1. /\ target = "i386" /\ cpu \in I386Processors /\ qem_tracing_state' \subseteq Kinds
      /\ done' = <<>> /\ out' = <<>> /\ target' = target
  BY DEF I386WritePte, I386Invlpg, I386Frame, Running, Idle, GuestOK, GuestTypeOK, IsProcessor
<1>2. cpu' \in I386Processors
  <2>1. ASSUME NEW e \in I386Ptes, cpu' = [cpu EXCEPT !.pte[p] = e]
        PROVE  cpu' \in I386Processors
    <3> DEFINE pte == [cpu.pte EXCEPT ![p] = e]
    <3>1. pte \in [I386Pages -> I386PteTypes]
      BY <1>1, ProcessorsAssumption DEF I386Processors
    <3>2. cpu' = [cpu EXCEPT !.pte = pte]
      BY <2>1
    <3> HIDE DEF pte
    <3> QED BY <1>1, <3>1, <3>2 DEF I386Processors
  <2>2. ASSUME I386Invlpg(p)
        PROVE  cpu' \in I386Processors
    <3> DEFINE tlb == [user \in BOOLEAN |-> [cpu.tlb[user] EXCEPT ![p] = Uncached]]
    <3>1. tlb \in [BOOLEAN -> [I386Pages -> I386TlbTypes]]
      BY <1>1 DEF I386Processors, I386TlbTypes
    <3>2. cpu' = [cpu EXCEPT !.tlb = tlb]
      BY <2>2 DEF I386Invlpg
    <3> HIDE DEF tlb
    <3> QED BY <1>1, <3>1, <3>2 DEF I386Processors
  <2> QED BY <2>1, <2>2 DEF I386WritePte, I386Invlpg
<1> QED BY <1>1, <1>2, IdleNextOK DEF IsProcessor

(* --------------------------- the three guests ---------------------------- *)

(* Whatever the build and the processor, nothing has been traced initially. *)
LEMMA InitOK == GuestInit => GuestOK
<1> SUFFICES ASSUME GuestInit
             PROVE  GuestOK
  OBVIOUS
<1>1. target \in {"ppc", "i386", "arm"}
  BY ProcessorsAssumption DEF GuestInit
<1>2. IsProcessor
  <2>1. CASE target = "ppc"
    BY <2>1, ProcessorsAssumption DEF GuestInit, IsProcessor
  <2>2. CASE target = "i386"
    BY <2>2, ProcessorsAssumption DEF GuestInit, IsProcessor
  <2>3. CASE target = "arm"
    BY <2>3, ProcessorsAssumption DEF GuestInit, IsProcessor
  <2> QED BY <1>1, <2>1, <2>2, <2>3
<1> QED BY <1>2, IdleOK DEF GuestInit, Idle

(* The trace opcodes and the end of an instruction.                         *)
LEMMA SwitchOK ==
    ASSUME GuestOK,
           \/ \E type \in SUBSET Kinds \ {{}} : qem_trace_enable(type) \/ qem_trace_disable(type)
           \/ Retire
    PROVE  GuestOK'
<1>1. /\ done' = <<>> /\ out' = <<>> /\ target' = target /\ cpu' = cpu
      /\ qem_tracing_state' \subseteq Kinds
  BY DEF qem_trace_enable, qem_trace_disable, Retire, Idle, GuestOK, GuestTypeOK
<1>2. IsProcessor'
  BY <1>1 DEF GuestOK, GuestTypeOK, IsProcessor
<1> QED BY <1>1, <1>2, IdleNextOK

(* Nothing happens to the guest.                                            *)
LEMMA StutterOK ==
    ASSUME GuestOK, UNCHANGED guestVars
    PROVE  GuestOK'
<1>1. /\ UNCHANGED <<target, meta, qem_tracing_state>> /\ done' = done /\ out' = out
      /\ cpu' = cpu
  BY DEF guestVars
<1>2. qem_tracing_state \subseteq Kinds /\ IsProcessor'
  BY <1>1 DEF GuestOK, GuestTypeOK, IsProcessor
<1>3. DOMAIN out = {i \in DOMAIN done : Recorded(done[i])}
  BY DEF GuestOK, RecordsMatchEvents, RecordedEvents
<1>4. \A i \in DOMAIN done : EventOK(done[i])
  BY DEF GuestOK, GuestTypeOK, EventOK
<1>5. \A i \in DOMAIN out : RecordOK(out[i])
  BY DEF GuestOK, GuestTypeOK, RecordOK
<1>6. \A i \in DOMAIN out : Tells(done[i], out[i])
  BY DEF GuestOK, RecordsMatchEvents, EventIsTold, AddressIsTold, AttributesAreTold, Tells
<1> QED BY <1>1, <1>2, <1>3, <1>4, <1>5, <1>6, OutcomeTells

(* Every step of a PowerPC guest.                                           *)
LEMMA PpcNextOK ==
    ASSUME GuestOK, PpcNext
    PROVE  GuestOK'
<1>1. ASSUME NEW i \in PpcMultiples, NEW n \in PpcLengths, NEW write \in BOOLEAN,
             NEW v \in PpcValues, PpcMultiple(i, write, n[1], n[2], v)
      PROVE  GuestOK'
  <2>1. n[1] \in Nat /\ n[2] \in Nat
    BY InstructionsAssumption
  <2> QED BY <1>1, <2>1, MultipleOK
<1> QED BY <1>1, PpcFetchOK, PpcLoadOK, PpcStoreOK, PpcHalvesOK, LoadLockedOK, ConditionalStoreOK, CacheOK,
           FlashOK DEF PpcNext

(* Every step of an i386 guest.                                             *)
LEMMA I386NextOK ==
    ASSUME GuestOK, I386Next
    PROVE  GuestOK'
BY I386AccessOK, I386SegmentOK, I386LockedOK, I386FetchOK, I386TablesOK DEF I386Next

(* Every step of an ARM guest.                                              *)
LEMMA ArmNextOK ==
    ASSUME GuestOK, ArmNext
    PROVE  GuestOK'
BY ArmFetchOK, ArmAccessOK, ArmSwapOK, LoadExclusiveOK, StoreExclusiveOK DEF ArmNext

(* Every step.                                                              *)
LEMMA NextOK ==
    ASSUME GuestOK, [GuestNext]_guestVars
    PROVE  GuestOK'
BY SwitchOK, StutterOK, PpcNextOK, I386NextOK, ArmNextOK DEF GuestNext

(* The inductive invariant of the three guests.                             *)
THEOREM GuestInvariant == GuestSpec => []GuestOK
<1>1. GuestInit => GuestOK
  BY InitOK
<1>2. GuestOK /\ [GuestNext]_guestVars => GuestOK'
  BY NextOK
<1> QED BY <1>1, <1>2, PTL DEF GuestSpec

(* Every event and record of every instruction is of its type, and the
   processor stays in its own.                                              *)
THEOREM GuestTypes == GuestSpec => []GuestTypeOK
<1>1. GuestOK => GuestTypeOK
  BY DEF GuestOK
<1> QED BY <1>1, GuestInvariant, PTL

(* One record per event of a traced kind, at its place: none is lost and none
   is made twice, on any of the three processors.                           *)
THEOREM NoRecordIsLost == GuestSpec => []RecordsMatchEvents
<1>1. GuestOK => RecordsMatchEvents
  BY DEF GuestOK
<1> QED BY <1>1, GuestInvariant, PTL

(* A reader of the records learns which event each one is, code or data, read
   or write: in the build with metadata, but for dcbst off the e500 and the
   write of dcbz; without metadata, but for these and for a flush with
   invalidation, whose code is that of a lock.                              *)
THEOREM EventsAreTold == GuestSpec => []EventIsTold
<1>1. GuestOK => EventIsTold
  BY DEF GuestOK
<1> QED BY <1>1, GuestInvariant, PTL

(* The reasons named are all the reasons for which a record of the models may
   have another virtual or physical address than the access.                *)
THEOREM AddressesAreTold == GuestSpec => []AddressIsTold
<1>1. GuestOK => AddressIsTold
  BY DEF GuestOK
<1> QED BY <1>1, GuestInvariant, PTL

(* ... and for which its flags may tell other attributes of the access.     *)
THEOREM PagesAreTold == GuestSpec => []AttributesAreTold
<1>1. GuestOK => AttributesAreTold
  BY DEF GuestOK
<1> QED BY <1>1, GuestInvariant, PTL

(* A stored record says what the printed one says.                          *)
THEOREM StoredRecordsAreTold == GuestSpec => []StoringKeepsTheWord
<1>1. StoringKeepsTheWord
  BY StoringKeepsWords DEF StoringKeepsTheWord
<1> QED BY <1>1, PTL
=============================================================================
