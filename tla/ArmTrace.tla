------------------------------ MODULE ArmTrace ------------------------------
(***************************************************************************)
(* The ARM guest: the instrumented accesses of Qemu/target/arm/translate.c  *)
(* and the helpers of QEMTrace/arch/arm.  Most are traced BEFORE the access *)
(* is tried, so an access that faults leaves a record.                      *)
(*                                                                         *)
(* cpu = [user, secure, sctlr, mmu, be32, thumb, pages, exclusive]: sctlr    *)
(* the cache enables (C, I) of the secure bank "s" and of the other "ns";    *)
(* mmu off, short (descriptors) or lpae.                                    *)
(***************************************************************************)
EXTENDS GuestTrace

CONSTANTS
    ArmPages,       \* the pages of the guest
    ArmPageSize,
    NoPage,         \* no mapping of a page
    NoExclusive     \* no address is held exclusively

(* The memory types by the low bits of their attribute byte: Device-nGnRnE
   is 0x00, Device-nGnRE 0x04, non-cacheable 0x44, write-through 0xAA,
   write-back 0xFF.                                                         *)
MemoryTypes == {"DevnGnRnE", "DevnGnRE", "NC", "WT", "WB"}
LowNibbleIs4(mem) == mem \in {"DevnGnRE", "NC"}
LowBitsBelow4(mem) == mem \in {"DevnGnRnE", "WT"}

(* The states of the processor.                                             *)
ArmPageTypes == {NoPage} \cup [frame : Nat, mem : MemoryTypes, shareable : BOOLEAN]
ArmProcessors ==
    [user : BOOLEAN, secure : BOOLEAN, sctlr : [s : SUBSET {"C", "I"}, ns : SUBSET {"C", "I"}],
     mmu : {"off", "short", "lpae"}, be32 : BOOLEAN, thumb : BOOLEAN,
     pages : [ArmPages -> ArmPageTypes], exclusive : Nat \cup {NoExclusive}]

(* gen_aa32_addr: BE32 turns the bytes of a word around.                    *)
gen_aa32_addr(a, size) ==
    LET b == a % 4 IN
    CASE cpu.be32 /\ size = "B8" -> (a - b) + (3 - b)
      [] cpu.be32 /\ size = "B16" -> (a - b) + ((b + 2) % 4)
      [] OTHER -> a

Page(a) == cpu.pages[a \div ArmPageSize]
Mapped(a) == cpu.mmu = "off" \/ Page(a) # NoPage
ArmPhysical(a) == IF cpu.mmu = "off" THEN a ELSE (Page(a).frame * ArmPageSize) + (a % ArmPageSize)

CacheBit(kind) == IF kind = "I" THEN "I" ELSE "C"

(* Mutant: the inhibition of a data access looks at the instruction cache.  *)
qem_arm_get_info_addr_mem_trace_Swapped(a, kind) ==
    LET lpae == cpu.mmu = "lpae" /\ Mapped(a)
    IN  [phys |-> IF Mapped(a) THEN ArmPhysical(a) ELSE 0,
         inhibit |-> (lpae /\ LowNibbleIs4(Page(a).mem))
                     \/ "I" \notin cpu.sctlr[IF cpu.user THEN "ns" ELSE "s"],
         wt |-> lpae => LowBitsBelow4(Page(a).mem)]

(* Only long descriptors give attributes; without them the zeroed byte is
   read, as without a mapping.  The bank is chosen by the mode alone.       *)
qem_arm_get_info_addr_mem_trace(a, kind) ==
    LET lpae == cpu.mmu = "lpae" /\ Mapped(a)
    IN  [phys |-> IF Mapped(a) THEN ArmPhysical(a) ELSE 0,
         inhibit |-> (lpae /\ LowNibbleIs4(Page(a).mem))
                     \/ CacheBit(kind) \notin cpu.sctlr[IF cpu.user THEN "ns" ELSE "s"],
         wt |-> lpae => LowBitsBelow4(Page(a).mem)]

ArmRecord(kind, a, d) ==
    LET info == qem_arm_get_info_addr_mem_trace(a, kind)
    IN  [kind |-> kind, virt |-> a, phys |-> info.phys,
         flags |-> Flags([d EXCEPT !.inst = (kind = "I"), !.user = cpu.user, !.coherent = TRUE,
                                   !.inhibit = info.inhibit, !.wt = info.wt])]

(* What the access really is: the type of its page, or strongly ordered
   without the MMU; the bank is the one of the security state.              *)
ArmEvent(kind, a, d, performed, why) ==
    LET bank == cpu.sctlr[IF cpu.secure THEN "s" ELSE "ns"]
        paged == cpu.mmu # "off" /\ Mapped(a)
        mem == IF paged THEN Page(a).mem ELSE "DevnGnRnE"
    IN  Event(kind,
              [d EXCEPT !.user = cpu.user,
                        !.coherent = paged => Page(a).shareable,
                        !.inhibit = CacheBit(kind) \notin bank \/ mem \notin {"WT", "WB"},
                        !.wt = mem = "WT"],
              a, IF Mapped(a) THEN ArmPhysical(a) ELSE 0, performed,
              why \cup Reason(~Mapped(a), "Unmapped")
                  \cup Reason(cpu.mmu = "short", "ShortDescriptors")
                  \cup Reason(mem = "DevnGnRnE", "StronglyOrdered")
                  \cup Reason(paged /\ ~Page(a).shareable, "NotShareable")
                  \cup Reason(cpu.sctlr["s"] # cpu.sctlr["ns"] /\ cpu.secure = cpu.user, "OtherBank"))

ArmOutcome(events, records) ==
    /\ done' = events
    /\ out' = [i \in Traced(records) |->
                 [virt |-> records[i].virt, phys |-> records[i].phys, flags |-> records[i].flags]]
    /\ UNCHANGED <<target, meta, qem_tracing_state, ended>>

-----------------------------------------------------------------------------
(* Only the ARM translator calls the helper, the Thumb one does not.        *)
ArmFetch(pc) ==
    LET d == [Plain EXCEPT !.size = "B32"]
    IN  /\ Running("arm") /\ Mapped(pc)
        /\ ArmOutcome(<<ArmEvent("I", pc, d, TRUE, Reason(cpu.thumb, "Untraced"))>>,
                      IF cpu.thumb THEN <<>> ELSE <<ArmRecord("I", pc, d)>>)
        /\ UNCHANGED cpu

(* gen_aa32_ld_i32, _st_i32, _ld_i64, _st_i64.                              *)
ArmAccess(a, write, size) ==
    LET addr == gen_aa32_addr(a, size)
        d == [Plain EXCEPT !.write = write, !.size = size]
    IN  /\ Running("arm")
        /\ ArmOutcome(<<ArmEvent("D", addr, d, Mapped(addr), Reason(~Mapped(addr), "Early"))>>,
                      <<ArmRecord("D", addr, d)>>)
        /\ UNCHANGED cpu

(* SWP: both halves are traced, then the exchange is tried.                 *)
ArmSwap(a, size) ==
    LET addr == gen_aa32_addr(a, size)
        D(write) == [Plain EXCEPT !.write = write, !.size = size, !.exclusive = TRUE]
        E(write) == ArmEvent("D", addr, D(write), Mapped(addr), Reason(~Mapped(addr), "Early"))
    IN  /\ Running("arm")
        /\ ArmOutcome(<<E(FALSE), E(TRUE)>>,
                      <<ArmRecord("D", addr, D(FALSE)), ArmRecord("D", addr, D(TRUE))>>)
        /\ UNCHANGED cpu

(* The doubleword is traced before the load, the others after it and with the
   address before BE32 turned it.                                           *)
gen_load_exclusive(a, size) ==
    LET addr == gen_aa32_addr(a, size)
        d == [Plain EXCEPT !.size = size, !.exclusive = TRUE]
        early == size = "B64"
    IN  /\ Running("arm")
        /\ Mapped(addr) \/ early
        /\ ArmOutcome(<<ArmEvent("D", addr, d, Mapped(addr),
                          Reason(~Mapped(addr), "Early") \cup Reason(a # addr, "Be32"))>>,
                      <<ArmRecord("D", IF early THEN addr ELSE a, d)>>)
        /\ cpu' = IF Mapped(addr) THEN [cpu EXCEPT !.exclusive = a] ELSE cpu

(* At another address than the exclusive one nothing is traced; at that one
   the store is, before the comparison.                                     *)
gen_store_exclusive(a, size, stored) ==
    LET addr == gen_aa32_addr(a, size)
        d == [Plain EXCEPT !.write = TRUE, !.size = size, !.exclusive = TRUE]
        held == a = cpu.exclusive
    IN  /\ Running("arm")
        /\ ArmOutcome(IF held
                        THEN <<ArmEvent("D", addr, d, Mapped(addr) /\ stored,
                                 Reason(~Mapped(addr), "Early") \cup Reason(~stored, "CompareFailed"))>>
                        ELSE <<>>,
                      IF held THEN <<ArmRecord("D", addr, d)>> ELSE <<>>)
        /\ cpu' = IF held /\ ~Mapped(addr) THEN cpu ELSE [cpu EXCEPT !.exclusive = NoExclusive]
=============================================================================
