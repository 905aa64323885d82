---------------------------- MODULE GuestTracing ----------------------------
(***************************************************************************)
(* A guest of one of the three architectures, its trace opcodes and its     *)
(* instructions, and what the records say of them.  QEMU is built for one   *)
(* target, with or without metadata; both are chosen initially, with the    *)
(* state of the guest's processor.                                          *)
(***************************************************************************)
EXTENDS PpcTrace, I386Trace, ArmTrace

CONSTANTS
    Targets, Metas,                 \* the builds
    PpcCpus, I386Cpus, ArmCpus,     \* the initial processors
    PpcAccesses,                    \* loads and stores: rA, rB, rD, form, simm, update, size, bank
    PpcDoubles,                     \* those of two halves: rA, rB, form, simm, update
    PpcIndexed,                     \* rA, rB, rD, size of reserving and cache instructions
    PpcMultiples,                   \* rA, rB, rD, form, simm of strings and multiples
    PpcLengths,                     \* <<words, bytes>> of strings and multiples
    I386Sizes, ArmAddresses, ArmSizes

DataSizes == {"B8", "B16", "B32", "B64"}

(* The instructions access data of the sizes there are, and the PowerPC ones
   name registers there are.                                                *)
ASSUME InstructionsAssumption ==
    /\ \A i \in PpcAccesses :
          /\ i.form \in {"D", "X"} /\ i.simm \in Nat /\ i.size \in DataSizes
          /\ i.bank \in {"gpr", "fpr", "single"} /\ {i.rA, i.rB, i.rD} \subseteq PpcRegs
    /\ \A i \in PpcDoubles :
          i.form \in {"D", "X", "V"} /\ i.simm \in Nat /\ {i.rA, i.rB} \subseteq PpcRegs
    /\ \A i \in PpcIndexed : {i.rA, i.rB, i.rD} \subseteq PpcRegs /\ i.size \in DataSizes
    /\ \A i \in PpcMultiples :
          /\ i.form \in {"multiple", "immediate", "indexed"} /\ i.simm \in Nat
          /\ {i.rA, i.rB, i.rD} \subseteq PpcRegs
    /\ \A n \in PpcLengths : n[1] \in Nat /\ n[2] \in Nat
    /\ I386Sizes \subseteq DataSizes /\ ArmSizes \subseteq DataSizes

(* The processors are of their types, and what the guest puts into registers,
   program counter and page table is of theirs.                             *)
ASSUME ProcessorsAssumption ==
    /\ {PpcAddresses, PpcPageSize, PpcRegCount, PpcHalf} \subseteq Nat \ {0}
    /\ PpcCpus \subseteq PpcProcessors /\ PpcValues \cup PpcPcs \subseteq PpcWords
    /\ I386Pages \subseteq Nat
    /\ I386Cpus \subseteq I386Processors /\ I386Ptes \subseteq I386PteTypes
    /\ ArmCpus \subseteq ArmProcessors /\ Targets \subseteq {"ppc", "i386", "arm"}

(* The word of every address of an ARM access lies in the guest's pages.    *)
ASSUME AddressesAssumption ==
    \A a \in ArmAddresses, b \in 0..3 : a \in Nat /\ ((a - (a % 4)) + b) \div ArmPageSize \in ArmPages

GuestInit ==
    /\ target \in Targets
    /\ meta \in Metas
    /\ qem_tracing_state = {}
    /\ cpu \in (CASE target = "ppc" -> PpcCpus [] target = "i386" -> I386Cpus
                  [] target = "arm" -> ArmCpus)
    /\ done = <<>> /\ out = <<>> /\ ended = FALSE

PpcNext ==
    \/ \E pc \in PpcPcs : PpcFetch(pc)
    \/ \E i \in PpcAccesses, v \in PpcValues : PpcLoad(i, v)
    \/ \E i \in PpcAccesses : PpcStore(i)
    \/ \E i \in PpcDoubles, write \in BOOLEAN : PpcHalves(i, write)
    \/ \E i \in PpcIndexed, v \in PpcValues : gen_load_locked(i, v)
    \/ \E i \in PpcIndexed, stored \in BOOLEAN : gen_conditional_store(i, stored)
    \/ \E i \in PpcMultiples, n \in PpcLengths, write \in BOOLEAN, v \in PpcValues :
          PpcMultiple(i, write, n[1], n[2], v)
    \/ \E op \in DOMAIN CacheOps, i \in PpcIndexed, level \in DOMAIN LevelOf :
          PpcCache(op, i, level)
    \/ \E kind \in Kinds : PpcFlash(kind)

I386Next ==
    \E p \in I386Pages :
       \/ \E write \in BOOLEAN, size \in I386Sizes : I386Access(p, write, size)
       \/ \E write \in BOOLEAN, size \in I386Sizes : I386Segment(p, write, size)
       \/ \E size \in I386Sizes : I386Locked(p, size)
       \/ \E size \in I386Sizes : I386Fetch(p, size)
       \/ \E e \in I386Ptes : I386WritePte(p, e)
       \/ I386Invlpg(p)

ArmNext ==
    \E a \in ArmAddresses :
       \/ ArmFetch(a)
       \/ \E write \in BOOLEAN, size \in ArmSizes : ArmAccess(a, write, size)
       \/ \E size \in ArmSizes \cap {"B8", "B32"} : ArmSwap(a, size)
       \/ \E size \in ArmSizes : gen_load_exclusive(a, size)
       \/ \E size \in ArmSizes, stored \in BOOLEAN : gen_store_exclusive(a, size, stored)

GuestNext ==
    \/ \E type \in SUBSET Kinds \ {{}} : qem_trace_enable(type)
    \/ \E type \in SUBSET Kinds \ {{}} : qem_trace_disable(type)
    \/ PpcNext
    \/ I386Next
    \/ ArmNext
    \/ Retire

GuestSpec == GuestInit /\ [][GuestNext]_guestVars

-----------------------------------------------------------------------------
(* The addresses and the processors of each target.                         *)
IsVirtual(a) ==
    CASE target = "ppc" -> a \in PpcWords
      [] target = "i386" -> a \in I386Pages
      [] target = "arm" -> a \in Nat /\ a \div ArmPageSize \in ArmPages

IsProcessor ==
    CASE target = "ppc" -> cpu \in PpcProcessors
      [] target = "i386" -> cpu \in I386Processors
      [] target = "arm" -> cpu \in ArmProcessors

(* Types: every event has a description and an address of the target, and so
   has every record the helpers make of it (the address the PowerPC helpers
   add up wraps, the one BE32 turns stays in its word); the processor stays
   in its type.                                                             *)
GuestTypeOK ==
    /\ qem_tracing_state \subseteq Kinds
    /\ IsProcessor
    /\ \A i \in DOMAIN done :
          /\ done[i].kind \in Kinds /\ done[i].d \in Description
          /\ IsVirtual(done[i].virt)
    /\ \A i \in DOMAIN out :
          /\ IsVirtual(out[i].virt)
          /\ out[i].flags \subseteq 0..31

(* The events that are recorded: those performed and those the helper sees
   before it is known whether they happen, but for the ones no helper sees
   and the ones at which it ends QEMU.                                      *)
Seen(why) == "Untraced" \notin why /\ "UnknownMmu" \notin why
Recorded(e) ==
    /\ e.kind \in qem_tracing_state /\ Seen(e.why)
    /\ e.performed \/ e.why \cap {"Early", "CompareFailed", "PrivilegeLate"} # {}

RecordedEvents == {i \in DOMAIN done : Recorded(done[i])}

(* One record per event of a traced kind, at the place of the event: none
   is lost or made twice, and an event that did not happen has a record only
   where the helper runs before the access (ARM, i386 segment loads), before
   the privilege check (cli), or whatever the comparison gave (exclusive
   stores).                                                                 *)
RecordsMatchEvents == DOMAIN out = RecordedEvents

EventTold(e, r) ==
    /\ e.why \cap {"SharedCode", "AsDcbf"} = {} =>
          Printed(r.flags).event = e.d.event /\ LeadingEvent(r.flags) = e.d.event
    /\ Printed(r.flags).inst = e.d.inst
    /\ "ZeroAsRead" \notin e.why => Printed(r.flags).write = e.d.write

(* The reader of a record knows which event it is (both events of a printed
   line), whether it is about code or data and whether it writes.  Left out
   are the event of a flush with invalidation where the build gives it the
   code of a lock (qem_trace_def.h:174-175), the event of dcbst, told as dcbf,
   and the write of dcbz, told as a read (arch/ppc/helper.c:992).           *)
EventIsTold == \A i \in DOMAIN out \cap RecordedEvents : EventTold(done[i], out[i])

(* A record stored by the file and shared-memory back ends says what the
   print back end says, whatever the number of the core it was made on (here
   cores 0 and 256, one more than the low byte of the word holds).          *)
StoringKeepsTheWord ==
    \A i \in DOMAIN out : \A core \in {{}, {8}} :
       Printed(Stored(core, out[i].flags)) = Printed(out[i].flags)

(* Why an address may be wrong: the PowerPC helpers recompute it from the
   registers and have the first one for both halves, the tracer translates
   it anew, ldrex hands it over before BE32.                                *)
AddressReasonNames == {"RegisterZero", "Indexed", "BaseLoaded", "SecondHalf", "Be32"}
TranslationReasonNames ==
    AddressReasonNames \cup {"Unmapped", "OtherEntry", "NoLookup", "StaleTlb"}

AddressTold(e, r) ==
    /\ e.why \cap AddressReasonNames = {} => r.virt = e.virt
    /\ (meta \/ target # "ppc") /\ e.why \cap TranslationReasonNames = {} => r.phys = e.phys

(* The record has the address of the event, and with metadata (always, on
   i386 and ARM) the physical address it went to, where the tracer's own
   translation is the one of the access.                                    *)
AddressIsTold == \A i \in DOMAIN out \cap RecordedEvents : AddressTold(done[i], out[i])

(* Where the attributes of the page are known to be lost.                   *)
PageReasonNames ==
    TranslationReasonNames
    \cup {"NoAttributes", "SmallPage", "ShortDescriptors", "StronglyOrdered", "OtherBank"}

AttributesTold(e, told) ==
    /\ e.why \cap {"CriticalEnable", "MiddleRing", "NotProtected", "Implicit"} = {} => told.user = e.d.user
    /\ e.why \cap {"StringTail", "FetchSize"} = {} => told.size = e.d.size
    /\ "PrefetchLevel" \notin e.why => told.level = e.d.level
    /\ told.gran = e.d.gran /\ told.exclusive = e.d.exclusive
    /\ e.why \cap PageReasonNames = {} =>
          /\ told.inhibit = e.d.inhibit
          /\ told.wt = e.d.wt
          /\ "NotShareable" \notin e.why => told.coherent = e.d.coherent

(* With metadata a record tells the privilege, the size, the level and the
   granularity of the event, and the attributes of the page it used, where
   no named reason is against it.                                           *)
AttributesAreTold ==
    meta => \A i \in DOMAIN out \cap RecordedEvents :
               AttributesTold(done[i], Printed(out[i].flags))

-----------------------------------------------------------------------------
(* qem_trace_engine.h of qem_trace_output: "@param virt_addr The virtual
   address concerned by the memory access."                                 *)
VirtualAddressConcerned ==
    \A i \in DOMAIN out \cap RecordedEvents : out[i].virt = done[i].virt

(* qem_trace_engine.h: "@param cache_inhibit Out parameter, telling the cache
   inhibition state of the page"; asked where the page tables are up to date. *)
InhibitionOfThePage ==
    \A i \in DOMAIN out \cap RecordedEvents :
       meta /\ done[i].why \cap {"Unmapped", "StaleTlb"} = {} =>
          Printed(out[i].flags).inhibit = done[i].d.inhibit
=============================================================================
