------------------------------ MODULE PpcTrace ------------------------------
(***************************************************************************)
(* The PowerPC guest: the instrumented loads, stores and cache operations   *)
(* of Qemu/target/ppc/translate.c and mem_helper.c, and the helpers they    *)
(* call (QEMTrace/arch/ppc).                                                *)
(*                                                                         *)
(* cpu = [gpr, reserve, msr, l1, mmu, tlb]: msr a subset of PR, CE, IS, DS;  *)
(* l1 a subset of ICE, DCE; tlb what the MMU does with each page of each    *)
(* address space.  An instruction the guest may not execute, or whose       *)
(* access faults, raises its exception before any helper runs: it leaves no *)
(* event.                                                                   *)
(***************************************************************************)
EXTENDS GuestTrace

CONSTANTS
    PpcAddresses,   \* 2^width of an address
    PpcRegCount,    \* the number of general-purpose registers (32)
    PpcPageSize,
    PpcLineSize,    \* of the data cache
    PpcHalf,        \* the bytes of half a vector (8)
    PpcValues,      \* the values memory may hold
    PpcPcs,         \* addresses of instructions
    NoEntry, NoPhys

PpcWords == 0..(PpcAddresses - 1)
PpcRegs == 0..(PpcRegCount - 1)

(* The models of MMU the tracer tells apart: the one it takes attributes
   from, those it only looks addresses up in (6xx, 74xx, 4xx, BOOKE), the one
   whose look-up always fails, and those it knows nothing of (8xx, hashed).  *)
PpcMmus == {"BOOKE206", "SOFT", "REAL", "UNKNOWN"}

(* The states of the processor.                                             *)
PpcEntries ==
    {NoEntry} \cup [frame : Nat, prot : SUBSET {"R", "W", "X"}, attr : SUBSET {"W", "I", "M"}]
PpcProcessors ==
    [gpr : [PpcRegs -> PpcWords], reserve : PpcWords \cup {NoPhys},
     msr : SUBSET {"PR", "CE", "IS", "DS"}, l1 : SUBSET {"ICE", "DCE"}, mmu : PpcMmus,
     tlb : [{0, 1} -> [0..((PpcAddresses - 1) \div PpcPageSize) -> PpcEntries]]]

Add(a, b) == (a + b) % PpcAddresses

-----------------------------------------------------------------------------
(* The MMU.                                                                 *)

(* The address space of an access: MSR[IS] for code, MSR[DS] for data.      *)
AddressSpace(access) ==
    IF (IF access = "CODE" THEN "IS" ELSE "DS") \in cpu.msr THEN 1 ELSE 0

(* mmubooke206_check_tlb: the entry that lets the access through.           *)
Translation(access, perm, addr) ==
    LET e == cpu.tlb[AddressSpace(access)][addr \div PpcPageSize]
    IN  IF e # NoEntry /\ perm \in e.prot THEN e ELSE NoEntry

Physical(e, addr) == (e.frame * PpcPageSize) + (addr % PpcPageSize)

CacheOff(access) == (IF access = "CODE" THEN "ICE" ELSE "DCE") \notin cpu.l1

(* A data read is tried first, then a fetch, whatever the access was.  Only
   the BOOKE206 model gives attributes, and only for an entry it found: else
   write-through keeps what the stack held.  The REAL model returns -1 also
   when it found the address, which is then not told.                       *)
qem_ppc_get_info_addr_mem_trace(addr, real, garbage) ==
    LET data == Translation("INT", "R", addr)
        e == IF data # NoEntry THEN data ELSE Translation("CODE", "X", addr)
        told == e # NoEntry /\ cpu.mmu = "BOOKE206"
    IN  [phys |-> IF e = NoEntry \/ cpu.mmu = "REAL" THEN NoPhys ELSE Physical(e, addr),
         inhibit |-> told /\ (CacheOff(real) \/ "I" \in e.attr),
         coherent |-> told /\ "M" \in e.attr,
         wt |-> IF told THEN "W" \in e.attr ELSE garbage]

Access(kind) == IF kind = "I" THEN "CODE" ELSE "INT"

(* GET_ENV_FLAGS takes bit 17 of the MSR (critical interrupt enable) for
   the privilege.  A build without metadata looks nothing up.               *)
PpcRecord(c, garbage) ==
    LET info == qem_ppc_get_info_addr_mem_trace(c.virt, Access(c.kind), garbage)
        d == [c.d EXCEPT !.inst = (c.kind = "I"), !.user = "CE" \in cpu.msr,
                         !.inhibit = info.inhibit, !.coherent = info.coherent, !.wt = info.wt]
    IN  [virt |-> c.virt, phys |-> IF meta THEN info.phys ELSE c.virt, flags |-> Flags(d)]

(* An instruction did these events and its helpers were called with these
   arguments.  With metadata the first helper that looks an address up in an
   unknown MMU ends QEMU (cpu_abort), before its record and before what the
   instruction still had to do.                                             *)
PpcOutcome(events, calls) ==
    LET aborts == meta /\ cpu.mmu = "UNKNOWN" /\ Traced(calls) # {}
        reached == {i \in DOMAIN events : aborts => \A j \in Traced(calls) : i <= j}
        recorded == IF aborts THEN {} ELSE Traced(calls)
    IN  /\ done' = [i \in reached |-> events[i]]
        /\ \E garbage \in [DOMAIN calls -> BOOLEAN] :
              out' = [i \in recorded |-> PpcRecord(calls[i], garbage[i])]
        /\ ended' = aborts
        /\ UNCHANGED <<target, meta, qem_tracing_state>>

PpcCall(kind, virt, d) == [kind |-> kind, virt |-> virt, d |-> d]

(* The true description of an event of the entry e.  The tracer may look at
   another entry than the one used, take CE for PR, or get no attributes.   *)
PpcEvent(kind, d, addr, e, performed, why) ==
    LET known == e # NoEntry
        found == LET data == Translation("INT", "R", addr)
                 IN  IF data # NoEntry THEN data ELSE Translation("CODE", "X", addr)
    IN  Event(kind,
              [d EXCEPT !.user = "PR" \in cpu.msr,
                        !.inhibit = known /\ (CacheOff(Access(kind)) \/ "I" \in e.attr),
                        !.coherent = known /\ "M" \in e.attr,
                        !.wt = known /\ "W" \in e.attr],
              addr, IF known THEN Physical(e, addr) ELSE NoPhys, performed,
              why \cup Reason(~known, "Unmapped") \cup Reason(found # e, "OtherEntry")
                  \cup Reason(("PR" \in cpu.msr) # ("CE" \in cpu.msr), "CriticalEnable")
                  \cup Reason(cpu.mmu # "BOOKE206", "NoAttributes")
                  \cup Reason(cpu.mmu = "REAL", "NoLookup")
                  \cup Reason(meta /\ cpu.mmu = "UNKNOWN", "UnknownMmu"))

-----------------------------------------------------------------------------
(* Fetch of an instruction (4 bytes).                                       *)
PpcFetch(pc) ==
    LET e == Translation("CODE", "X", pc)
        d == [Plain EXCEPT !.size = "B32"]
    IN  /\ Running("ppc") /\ e # NoEntry
        /\ PpcOutcome(<<PpcEvent("I", d, pc, e, TRUE, {})>>, <<PpcCall("I", pc, d)>>)
        /\ UNCHANGED cpu

(* rA|0 of the effective address.                                           *)
Base(r) == IF r = 0 THEN 0 ELSE cpu.gpr[r]

(* An instruction i has the fields rA, rB, rD (rS of a store) and simm, the
   low half of its word; form "D" uses simm, forms "X" and "V" use rB, and "V"
   aligns the sum.                                                          *)
EffectiveAddress(i) ==
    LET sum == Add(Base(i.rA), IF i.form = "D" THEN i.simm ELSE cpu.gpr[i.rB])
    IN  IF i.form = "V" THEN sum - (sum % (2 * PpcHalf)) ELSE sum

(* Mutant: the helper is called after the update of rA.                     *)
HelperAddress_AfterUpdate(i, gpr) ==
    Add(IF i.update THEN EffectiveAddress(i) ELSE gpr[i.rA], i.simm)

(* What the load and store helpers take for it: gpr[rA] + SIMM, register 0
   and the indexed forms included, with the registers as they are when the
   helper runs.                                                             *)
HelperAddress(i, gpr) == Add(gpr[i.rA], i.simm)

AddressReasons(i, gpr) ==
    Reason(i.rA = 0 /\ gpr[0] # 0, "RegisterZero") \cup Reason(i.form # "D", "Indexed")
    \cup Reason(gpr[i.rA] # cpu.gpr[i.rA], "BaseLoaded")

(* The helper a load or store calls.  Those of a single-precision register
   use none.                                                                *)
AccessCalls(i, gpr, d) ==
    IF i.bank = "single" THEN <<>> ELSE <<PpcCall("D", HelperAddress(i, gpr), d)>>

AccessReasons(i, gpr) == AddressReasons(i, gpr) \cup Reason(i.bank = "single", "Untraced")

(* GEN_LD, GEN_LDU, GEN_LDUX, GEN_LDX and, for the banks "fpr" and "single",
   GEN_LDF and its like: access, then helper, then update.                  *)
PpcLoad(i, v) ==
    LET ea == EffectiveAddress(i)
        e == Translation("INT", "R", ea)
        loaded == IF i.bank = "gpr" THEN [cpu.gpr EXCEPT ![i.rD] = v] ELSE cpu.gpr
        d == [Plain EXCEPT !.size = i.size]
    IN  /\ Running("ppc") /\ e # NoEntry
        /\ i.update => i.rA # 0 /\ (i.bank = "gpr" => i.rA # i.rD)
        /\ PpcOutcome(<<PpcEvent("D", d, ea, e, TRUE, AccessReasons(i, loaded))>>,
                      AccessCalls(i, loaded, d))
        /\ cpu' = [cpu EXCEPT !.gpr = IF i.update THEN [loaded EXCEPT ![i.rA] = ea] ELSE loaded]

(* GEN_ST, GEN_STU, GEN_STUX, GEN_STX, GEN_STF and its like.                *)
PpcStore(i) ==
    LET ea == EffectiveAddress(i)
        e == Translation("INT", "W", ea)
        d == [Plain EXCEPT !.size = i.size, !.write = TRUE]
    IN  /\ Running("ppc") /\ e # NoEntry
        /\ i.update => i.rA # 0
        /\ PpcOutcome(<<PpcEvent("D", d, ea, e, TRUE, AccessReasons(i, cpu.gpr))>>,
                      AccessCalls(i, cpu.gpr, d))
        /\ cpu' = [cpu EXCEPT !.gpr = IF i.update THEN [cpu.gpr EXCEPT ![i.rA] = ea] ELSE cpu.gpr]

(* Of accesses in turn, each with its entry, those before the first that
   faults.                                                                  *)
Served(entries) ==
    CHOOSE n \in 0..Len(entries) :
       /\ \A k \in 1..n : entries[k] # NoEntry
       /\ n < Len(entries) => entries[n + 1] = NoEntry

(* Pairs of floating-point registers, vectors: two accesses of 8 bytes, each
   followed by a helper that has the address of the first.                  *)
PpcHalves(i, write) ==
    LET ea == EffectiveAddress(i)
        At(k) == Add(ea, PpcHalf * (k - 1))
        Entry(k) == Translation("INT", IF write THEN "W" ELSE "R", At(k))
        n == Served([k \in 1..2 |-> Entry(k)])
        d == [Plain EXCEPT !.size = "B64", !.write = write]
    IN  /\ Running("ppc")
        /\ PpcOutcome([k \in 1..n |-> PpcEvent("D", d, At(k), Entry(k), TRUE,
                          AddressReasons(i, cpu.gpr) \cup Reason(k # 1, "SecondHalf"))],
                      [k \in 1..n |-> PpcCall("D", HelperAddress(i, cpu.gpr), d)])
        /\ cpu' = IF i.update /\ i.rA # 0 /\ n = 2 THEN [cpu EXCEPT !.gpr[i.rA] = ea] ELSE cpu

-----------------------------------------------------------------------------
(* The _trad helpers add two registers, register 0 included.                *)
TradAddress(i, gpr) == Add(gpr[i.rA], gpr[i.rB])

TradReasons(i, gpr) ==
    Reason(i.rA = 0 /\ gpr[0] # 0, "RegisterZero")
    \cup Reason(\E r \in {i.rA, i.rB} : gpr[r] # cpu.gpr[r], "BaseLoaded")

(* lwarx and the like: load, reserve, then the helper.                      *)
gen_load_locked(i, v) ==
    LET ea == Add(Base(i.rA), cpu.gpr[i.rB])
        e == Translation("INT", "R", ea)
        loaded == [cpu.gpr EXCEPT ![i.rD] = v]
        d == [Plain EXCEPT !.size = i.size, !.exclusive = TRUE]
    IN  /\ Running("ppc") /\ e # NoEntry
        /\ PpcOutcome(<<PpcEvent("D", d, ea, e, TRUE, TradReasons(i, loaded))>>,
                      <<PpcCall("D", TradAddress(i, loaded), d)>>)
        /\ cpu' = [cpu EXCEPT !.gpr = loaded, !.reserve = ea]

(* stwcx.: nothing is traced at another address than the reserved one; at
   that one the store is traced whether the comparison let it happen or not. *)
gen_conditional_store(i, stored) ==
    LET ea == Add(Base(i.rA), cpu.gpr[i.rB])
        e == Translation("INT", "W", ea)
        d == [Plain EXCEPT !.size = i.size, !.write = TRUE, !.exclusive = TRUE]
        reserved == ea = cpu.reserve
    IN  /\ Running("ppc")
        /\ reserved => e # NoEntry
        /\ PpcOutcome(IF reserved
                        THEN <<PpcEvent("D", d, ea, e, stored,
                                  TradReasons(i, cpu.gpr) \cup Reason(~stored, "CompareFailed"))>>
                        ELSE <<>>,
                      IF reserved THEN <<PpcCall("D", TradAddress(i, cpu.gpr), d)>> ELSE <<>>)
        /\ cpu' = [cpu EXCEPT !.reserve = NoPhys]

-----------------------------------------------------------------------------
(* Strings and multiples: n words, then the bytes of the last one, each
   traced after its access; the first access that faults ends them.         *)
ChunkAddress(ea, words, k) ==
    Add(ea, IF k <= words THEN 4 * (k - 1) ELSE 4 * words + (k - words - 1))
ChunkSize(words, k) == IF k <= words THEN "B32" ELSE "B8"

(* The registers follow each other and wrap; the bytes of the tail share one. *)
ChunkRegister(i, words, k) == (i.rD + (IF k <= words THEN k - 1 ELSE words)) % PpcRegCount

MultipleAddress(i) ==
    Add(Base(i.rA), CASE i.form = "multiple" -> i.simm
                      [] i.form = "immediate" -> 0
                      [] OTHER -> cpu.gpr[i.rB])

(* A multiple goes up to the last register.  A string is not loaded over the
   registers of its address (lsw_reg_in_range); lswi takes register 0 for
   one, lswx does not.                                                      *)
MultipleAllowed(i, write, words, bytes) ==
    LET used == {ChunkRegister(i, words, k) : k \in 1..(words + bytes)}
    IN  CASE i.form = "multiple" -> words = PpcRegCount - i.rD /\ bytes = 0
          [] i.form = "immediate" -> write \/ i.rA \notin used
          [] OTHER -> write \/ used \cap ({i.rA, i.rB} \ ({0} \ {i.rB})) = {}

(* helper_lmw, helper_stmw, do_lsw, helper_stsw: every access is told as one
   of 4 bytes, those of the tail too.  A load leaves v in its registers; the
   one of the tail is cleared before its first byte is read.                *)
PpcMultiple(i, write, words, bytes, v) ==
    LET ea == MultipleAddress(i)
        At(k) == ChunkAddress(ea, words, k)
        Entry(k) == Translation("INT", IF write THEN "W" ELSE "R", At(k))
        n == Served([k \in 1..(words + bytes) |-> Entry(k)])
        D(size) == [Plain EXCEPT !.size = size, !.write = write]
        loaded == {ChunkRegister(i, words, k) : k \in 1..n}
        cleared == IF bytes > 0 /\ n >= words THEN {ChunkRegister(i, words, words + 1)} ELSE {}
        gpr == [r \in PpcRegs |-> IF r \in loaded THEN v
                                 ELSE IF r \in cleared THEN 0 ELSE cpu.gpr[r]]
    IN  /\ Running("ppc")
        /\ MultipleAllowed(i, write, words, bytes)
        /\ PpcOutcome([k \in 1..n |-> PpcEvent("D", D(ChunkSize(words, k)), At(k), Entry(k),
                                               TRUE, Reason(k > words, "StringTail"))],
                      [k \in 1..n |-> PpcCall("D", At(k), D("B32"))])
        /\ cpu' = IF write THEN cpu ELSE [cpu EXCEPT !.gpr = gpr]

-----------------------------------------------------------------------------
(* Cache operations: what each does, the permissions its probe of memory
   needs, and who may execute it.                                           *)
CacheEvent(kind, event, gran, exclusive) ==
    [kind |-> kind, event |-> event, gran |-> gran, exclusive |-> exclusive, write |-> FALSE]
Line(kind, event) == CacheEvent(kind, event, "LINE", FALSE)
Writing(event) ==
    [kind |-> "D", event |-> event, gran |-> "LINE", exclusive |-> FALSE, write |-> TRUE]

CacheOp(events, probe, privileged) ==
    [events |-> events, probe |-> probe, privileged |-> privileged]

(* dcbz is a write of the line, dcba and dclst are treated as stores.       *)
CacheOps ==
    [dcbf     |-> CacheOp(<<Line("D", "FLUSH_INVAL")>>, {"R"}, FALSE),
     dcbst    |-> CacheOp(<<Line("D", "FLUSH")>>, {"R"}, FALSE),
     dcbi     |-> CacheOp(<<Line("D", "INVALIDATE")>>, {"R", "W"}, TRUE),
     dcbt     |-> CacheOp(<<Line("D", "PREFETCH")>>, {}, FALSE),
     dcbtst   |-> CacheOp(<<CacheEvent("D", "PREFETCH", "LINE", TRUE)>>, {}, FALSE),
     dcbtls   |-> CacheOp(<<Line("D", "LOCK")>>, {}, FALSE),
     dcbtstls |-> CacheOp(<<CacheEvent("D", "LOCK", "LINE", TRUE)>>, {}, FALSE),
     dcblc    |-> CacheOp(<<Line("D", "UNLOCK")>>, {}, FALSE),
     icbtls   |-> CacheOp(<<Line("I", "LOCK")>>, {}, FALSE),
     icblc    |-> CacheOp(<<Line("I", "UNLOCK")>>, {}, FALSE),
     dcbz     |-> CacheOp(<<Writing("DCBZ")>>, {"W"}, FALSE),
     icbi     |-> CacheOp(<<Line("I", "INVALIDATE")>>, {"R"}, FALSE),
     icbt     |-> CacheOp(<<Line("I", "PREFETCH")>>, {}, FALSE),
     dcba     |-> CacheOp(<<Writing("ACCESS")>>, {}, FALSE),
     dclst    |-> CacheOp(<<Writing("ACCESS")>>, {}, FALSE),
     clf      |-> CacheOp(<<Line("D", "FLUSH"), Line("I", "FLUSH")>>, {}, FALSE),
     cli      |-> CacheOp(<<Line("D", "INVALIDATE"), Line("I", "INVALIDATE")>>, {}, TRUE),
     iccci    |-> CacheOp(<<CacheEvent("D", "INVALIDATE", "SET", FALSE),
                            CacheEvent("I", "INVALIDATE", "SET", FALSE)>>, {}, TRUE)]

(* On the processors of this MMU (e500) dcbst acts like dcbf; icbt acts for
   level 2 alone.                                                           *)
CacheActs(op, level) ==
    CASE op = "dcbst" /\ cpu.mmu = "BOOKE206" -> CacheOps["dcbf"].events
      [] op = "icbt" /\ level # "L2" -> <<>>
      [] OTHER -> CacheOps[op].events

(* The level operand: 0, 1, 2, anything else; some operations have none.    *)
LevelOf == [L1 |-> "L1", L2 |-> "L2", L3 |-> "L3", other |-> "ALL"]
CacheLevel(op, level) == IF op \in {"dcbz", "dcba", "dclst"} THEN "L1" ELSE LevelOf[level]

(* Mutant: level and granularity, both integers to C, change places.        *)
CacheDescription_Swapped(c, level) ==
    [Plain EXCEPT !.event = c.event, !.gran = level, !.exclusive = c.exclusive,
                  !.write = c.write, !.level = c.gran]

CacheDescription(c, level) ==
    [Plain EXCEPT !.event = c.event, !.gran = c.gran, !.exclusive = c.exclusive,
                  !.write = c.write, !.level = level]

(* What a helper tells of an operation: it has no argument for a write.     *)
Tell(kind, event, gran, level, exclusive) ==
    [kind |-> kind, d |-> CacheDescription(CacheEvent(kind, event, gran, exclusive), level)]

helper_qem_dcache_flush_inval(level, gran) == Tell("D", "FLUSH_INVAL", gran, level, FALSE)
helper_qem_dcache_inval(level, gran) == Tell("D", "INVALIDATE", gran, level, FALSE)
helper_qem_dcache_flush(level, gran, exclusive) == Tell("D", "FLUSH", gran, level, exclusive)
helper_qem_dcache_lock(level, gran, exclusive) == Tell("D", "LOCK", gran, level, exclusive)
helper_qem_dcache_unlock(level, gran) == Tell("D", "UNLOCK", gran, level, FALSE)
helper_qem_icache_inval(level, gran) == Tell("I", "INVALIDATE", gran, level, FALSE)
helper_qem_icache_flush(level, gran) == Tell("I", "FLUSH", gran, level, FALSE)
helper_qem_icache_lock(level, gran, exclusive) == Tell("I", "LOCK", gran, level, exclusive)
helper_qem_icache_unlock(level, gran) == Tell("I", "UNLOCK", gran, level, FALSE)

(* This one drops the level and the granularity it is given.                *)
helper_qem_dcache_prefetch_non_inibited(level, gran, exclusive) ==
    Tell("D", "PREFETCH", "LINE", "L1", exclusive)

(* Mutant: icbt is traced for every level.                                  *)
helper_qem_icbt_EveryLevel(level) == <<Tell("I", "PREFETCH", "LINE", "L2", FALSE)>>

(* This one tells nothing of another level than 2.                          *)
helper_qem_icbt(level) ==
    IF level # "L2" THEN <<>> ELSE <<Tell("I", "PREFETCH", "LINE", "L2", FALSE)>>

(* Zeroing a line is told as a read.                                        *)
helper_qem_dcbz_trace_trad == Tell("D", "DCBZ", "LINE", "L1", FALSE)
helper_qem_datast_trace_trad == [kind |-> "D", d |-> CacheDescription(Writing("ACCESS"), "L1")]

(* The calls of each translator.                                            *)
CacheCalls(op, level) ==
    CASE op \in {"dcbf", "dcbst"} -> <<helper_qem_dcache_flush_inval(level, "LINE")>>
      [] op = "dcbi"     -> <<helper_qem_dcache_inval(level, "LINE")>>
      [] op = "dcbt"     -> <<helper_qem_dcache_prefetch_non_inibited(level, "LINE", FALSE)>>
      [] op = "dcbtst"   -> <<helper_qem_dcache_prefetch_non_inibited(level, "LINE", TRUE)>>
      [] op = "dcbtls"   -> <<helper_qem_dcache_lock(level, "LINE", FALSE)>>
      [] op = "dcbtstls" -> <<helper_qem_dcache_lock(level, "LINE", TRUE)>>
      [] op = "dcblc"    -> <<helper_qem_dcache_unlock(level, "LINE")>>
      [] op = "icbtls"   -> <<helper_qem_icache_lock(level, "LINE", FALSE)>>
      [] op = "icblc"    -> <<helper_qem_icache_unlock(level, "LINE")>>
      [] op = "dcbz"     -> <<helper_qem_dcbz_trace_trad>>
      [] op = "icbi"     -> <<helper_qem_icache_inval(level, "LINE")>>
      [] op = "icbt"     -> helper_qem_icbt(level)
      [] op \in {"dcba", "dclst"} -> <<helper_qem_datast_trace_trad>>
      [] op = "clf"      -> <<helper_qem_dcache_flush(level, "LINE", FALSE),
                              helper_qem_icache_flush(level, "LINE")>>
      [] op = "cli"      -> <<helper_qem_dcache_inval(level, "LINE"),
                              helper_qem_icache_inval(level, "LINE")>>
      [] op = "iccci"    -> <<helper_qem_dcache_inval(level, "SET"),
                              helper_qem_icache_inval(level, "SET")>>

(* Where the helper says something else: a code two events share in a build
   without metadata, a write told as a read, dcbst told as dcbf whatever the
   processor, the level of a prefetch.                                      *)
CacheReasons(op, level) ==
    Reason(~meta /\ op \in {"dcbf", "dcbst"}, "SharedCode")
    \cup Reason(op = "dcbz", "ZeroAsRead")
    \cup Reason(op = "dcbst" /\ cpu.mmu # "BOOKE206", "AsDcbf")
    \cup Reason(op \in {"dcbt", "dcbtst"} /\ level # "L1", "PrefetchLevel")

(* dcbz clears the line, and a reservation in it with it.                   *)
AfterCacheOp(op, ea) ==
    IF op = "dcbz" /\ cpu.reserve # NoPhys /\ cpu.reserve \div PpcLineSize = ea \div PpcLineSize
      THEN [cpu EXCEPT !.reserve = NoPhys] ELSE cpu

(* The probe, the privilege check, then the helpers; cli alone is traced
   before its check.                                                        *)
PpcCache(op, i, level) ==
    LET ea == Add(Base(i.rA), cpu.gpr[i.rB])
        spec == CacheOps[op]
        allowed == spec.privileged => "PR" \notin cpu.msr
        acts == CacheActs(op, level)
        calls == CacheCalls(op, LevelOf[level])
        Entry(kind) == IF kind = "I" THEN Translation("CODE", "X", ea)
                       ELSE Translation("INT", IF spec.probe = {"W"} THEN "W" ELSE "R", ea)
        why == TradReasons(i, cpu.gpr) \cup Reason(~allowed, "PrivilegeLate")
               \cup CacheReasons(op, level)
    IN  /\ Running("ppc")
        /\ \A p \in spec.probe : Translation("INT", p, ea) # NoEntry
        /\ allowed \/ op = "cli"
        /\ PpcOutcome([k \in DOMAIN acts |->
                         PpcEvent(acts[k].kind, CacheDescription(acts[k], CacheLevel(op, level)),
                                  ea, Entry(acts[k].kind), allowed, why)],
                      [k \in DOMAIN calls |->
                         PpcCall(calls[k].kind, TradAddress(i, cpu.gpr), calls[k].d)])
        /\ cpu' = AfterCacheOp(op, ea)

(* The two trace opcodes that invalidate a whole cache: no address, no
   attributes.                                                              *)
PpcFlash(kind) ==
    LET d == [Plain EXCEPT !.event = "INVALIDATE", !.gran = "GLOBAL", !.inst = (kind = "I")]
        told == [d EXCEPT !.user = "CE" \in cpu.msr]
    IN  /\ Running("ppc")
        /\ done' = <<Event(kind, [d EXCEPT !.user = "PR" \in cpu.msr], 0, 0, TRUE,
                           Reason(("PR" \in cpu.msr) # ("CE" \in cpu.msr), "CriticalEnable"))>>
        /\ out' = IF kind \in qem_tracing_state
                    THEN <<[virt |-> 0, phys |-> 0, flags |-> Flags(told)]>> ELSE <<>>
        /\ UNCHANGED <<target, meta, qem_tracing_state, cpu, ended>>
=============================================================================
