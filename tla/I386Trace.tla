----------------------------- MODULE I386Trace ------------------------------
(***************************************************************************)
(* The i386 guest: the instrumented accesses of Qemu/target/i386 and the    *)
(* helpers of QEMTrace/arch/i386, which walk the page tables in memory,     *)
(* while QEMU's own access may have gone through a cached translation.      *)
(*                                                                         *)
(* cpu = [cr0, pse, cpl, cs, pde, pte, tlb]: cr0 a subset of PG, CD; cs the   *)
(* low bits of the CS selector, which are the ring in protected mode and    *)
(* anything in real and virtual-8086 mode; one page directory entry, a page *)
(* table entry per page, and QEMU's TLBs, one for the user's accesses (TRUE) *)
(* and one for the others.  Addresses are page numbers: the offset is the   *)
(* same on both sides.                                                      *)
(***************************************************************************)
EXTENDS GuestTrace

CONSTANTS
    I386Pages,      \* the pages of one page directory entry
    I386Ptes,       \* what the guest writes in its page table
    Uncached        \* no entry in the TLB

(* The states of the processor.                                             *)
I386PteTypes == [present : BOOLEAN, pcd : BOOLEAN, dirty : BOOLEAN, frame : Nat]
I386TlbTypes == {Uncached} \cup [frame : Nat, pcd : BOOLEAN, dirty : BOOLEAN]
I386Processors ==
    [cr0 : SUBSET {"PG", "CD"}, pse : BOOLEAN, cpl : 0..3, cs : 0..3,
     pde : [present : BOOLEAN, large : BOOLEAN, pcd : BOOLEAN, base : Nat],
     pte : [I386Pages -> I386PteTypes], tlb : [BOOLEAN -> [I386Pages -> I386TlbTypes]]]

Paging == "PG" \in cpu.cr0
LargePage == cpu.pde.large /\ cpu.pse

(* cpu_mmu_index: the TLB of the program's own accesses.                    *)
UserMode == cpu.cpl = 3

-----------------------------------------------------------------------------
(* QEMU's MMU: a walk, which sets the dirty bit on a write, kept in the TLB
   until the guest invalidates it.  A cached read does not serve the first
   write.                                                                   *)
Walk(p) ==
    CASE ~Paging -> [frame |-> p, pcd |-> FALSE]
      [] Paging /\ ~cpu.pde.present -> Uncached
      [] Paging /\ cpu.pde.present /\ LargePage ->
            [frame |-> cpu.pde.base + p, pcd |-> cpu.pde.pcd]
      [] OTHER -> IF cpu.pte[p].present
                    THEN [frame |-> cpu.pte[p].frame, pcd |-> cpu.pte[p].pcd] ELSE Uncached

Cached(user, p, write) ==
    cpu.tlb[user][p] # Uncached /\ (write => cpu.tlb[user][p].dirty)

Mmu(user, p, write) ==
    IF Cached(user, p, write)
      THEN [frame |-> cpu.tlb[user][p].frame, pcd |-> cpu.tlb[user][p].pcd] ELSE Walk(p)

(* The processor after a successful access.                                 *)
Accessed(user, p, write) ==
    LET small == Paging /\ ~LargePage
        e == Walk(p)
    IN  IF Cached(user, p, write) THEN cpu
        ELSE [cpu EXCEPT !.pte[p].dirty = @ \/ (write /\ small),
                         !.tlb[user][p] = [frame |-> e.frame, pcd |-> e.pcd,
                                           dirty |-> write \/ ~small \/ cpu.pte[p].dirty]]

-----------------------------------------------------------------------------
(* The tracer's walk.  Bit 4 of the directory entry is its PCD bit; 0x40 of
   the table entry is its dirty bit.  A missing table entry gives address 0
   and leaves cache_inhibit as the stack had it.                            *)
qem_get_phys_addr_mem_tracing(c, p, garbage) ==
    CASE "PG" \notin c.cr0 -> [phys |-> p, inhibit |-> FALSE]
      [] "PG" \in c.cr0 /\ ~c.pde.present -> [phys |-> p, inhibit |-> FALSE]
      [] "PG" \in c.cr0 /\ c.pde.present /\ c.pde.large /\ c.pse ->
            [phys |-> c.pde.base + p, inhibit |-> c.pde.pcd]
      [] OTHER -> IF c.pte[p].present
                    THEN [phys |-> c.pte[p].frame, inhibit |-> c.pte[p].dirty \/ c.pde.pcd]
                    ELSE [phys |-> 0, inhibit |-> garbage]

(* helper_qem_instld_trace has a walk of its own, which starts from address 0
   and no inhibition.                                                       *)
InstructionWalk(c, p) ==
    IF "PG" \in c.cr0 /\ ~c.pde.present THEN [phys |-> 0, inhibit |-> FALSE]
    ELSE qem_get_phys_addr_mem_tracing(c, p, FALSE)

(* The ring is taken from the low bits of CS, whatever the mode; the
   cache-disable bit of CR0 is added.                                       *)
qem_get_flags_mem_tracing(d, info) ==
    Flags([d EXCEPT !.user = (cpu.cs # 0), !.inhibit = info.inhibit \/ "CD" \in cpu.cr0])

I386Record(kind, p, d, info) ==
    IF kind \in qem_tracing_state
      THEN <<[virt |-> p, phys |-> info.phys,
              flags |-> qem_get_flags_mem_tracing([d EXCEPT !.inst = (kind = "I")], info)]>>
      ELSE <<>>

(* The access went through a translation the page tables no longer hold.    *)
Stale(p, e) == e # Walk(p)

I386Event(kind, p, d, e, performed, why) ==
    Event(kind,
          [d EXCEPT !.user = UserMode,
                    !.inhibit = "CD" \in cpu.cr0 \/ (e # Uncached /\ e.pcd)],
          p, IF e = Uncached THEN 0 ELSE e.frame, performed,
          why \cup Reason(e = Uncached, "Unmapped") \cup Reason(Stale(p, e), "StaleTlb")
              \cup Reason(Paging /\ ~LargePage, "SmallPage")
              \cup Reason(cpu.cpl \in {1, 2}, "MiddleRing")
              \cup Reason(cpu.cs # cpu.cpl, "NotProtected"))

I386Frame == UNCHANGED <<target, meta, qem_tracing_state, ended>>

-----------------------------------------------------------------------------
(* gen_op_ld_v, gen_op_st_v: the helper runs after the access.              *)
I386Access(p, write, size) ==
    LET e == Mmu(UserMode, p, write)
        d == [Plain EXCEPT !.write = write, !.size = size]
        after == Accessed(UserMode, p, write)
    IN  /\ Running("i386") /\ e # Uncached
        /\ done' = <<I386Event("D", p, d, e, TRUE, {})>>
        /\ cpu' = after
        /\ \E garbage \in BOOLEAN :
              out' = I386Record("D", p, d, qem_get_phys_addr_mem_tracing(after, p, garbage))
        /\ I386Frame

(* cpu_ldst_template.h in seg_helper.c: a supervisor access of the processor
   itself, traced before it is tried.                                       *)
I386Segment(p, write, size) ==
    LET e == Mmu(FALSE, p, write)
        d == [Plain EXCEPT !.write = write, !.size = size]
        event == I386Event("D", p, d, e, e # Uncached,
                           Reason(e = Uncached, "Early") \cup Reason(cpu.cs # 0, "Implicit"))
    IN  /\ Running("i386")
        /\ done' = <<[event EXCEPT !.d.user = FALSE]>>
        /\ cpu' = IF e = Uncached THEN cpu ELSE Accessed(FALSE, p, write)
        /\ \E garbage \in BOOLEAN :
              out' = I386Record("D", p, d, qem_get_phys_addr_mem_tracing(cpu, p, garbage))
        /\ I386Frame

(* A locked read-modify-write is an atomic operation of QEMU's, not traced. *)
I386Locked(p, size) ==
    LET e == Mmu(UserMode, p, TRUE)
        D(write) == [Plain EXCEPT !.write = write, !.size = size]
    IN  /\ Running("i386") /\ e # Uncached
        /\ done' = <<I386Event("D", p, D(FALSE), e, TRUE, {"Untraced"}),
                     I386Event("D", p, D(TRUE), e, TRUE, {"Untraced"})>>
        /\ cpu' = Accessed(UserMode, p, TRUE)
        /\ out' = <<>>
        /\ I386Frame

(* The fetch of an instruction is told as one byte, whatever its length.    *)
I386Fetch(p, size) ==
    LET e == Mmu(UserMode, p, FALSE)
        after == Accessed(UserMode, p, FALSE)
    IN  /\ Running("i386") /\ e # Uncached
        /\ done' = <<I386Event("I", p, [Plain EXCEPT !.size = size], e, TRUE, {"FetchSize"})>>
        /\ cpu' = after
        /\ out' = I386Record("I", p, Plain, InstructionWalk(after, p))
        /\ I386Frame

(* The guest changes its page table, and later invalidates the page.        *)
I386WritePte(p, e) ==
    /\ Running("i386")
    /\ cpu' = [cpu EXCEPT !.pte[p] = e]
    /\ UNCHANGED <<done, out>> /\ I386Frame

I386Invlpg(p) ==
    /\ Running("i386")
    /\ cpu' = [cpu EXCEPT !.tlb = [user \in BOOLEAN |-> [cpu.tlb[user] EXCEPT ![p] = Uncached]]]
    /\ UNCHANGED <<done, out>> /\ I386Frame
=============================================================================
