--------------------------- MODULE MCGuestTracing ---------------------------
(***************************************************************************)
(* Values for the constants of GuestTracing.                               *)
(***************************************************************************)
EXTENDS GuestTracing

(* PowerPC: two pages of four bytes, three registers, words at 0 and 4.     *)
MCEntry(frame, prot, attr) == [frame |-> frame, prot |-> prot, attr |-> attr]
MCAll == {"R", "W", "X"}
(* Per address space: pages 0 and 1.  The spaces differ in the first table,
   a page is missing in the second, and in the third one is for code alone
   and one for writing alone.                                               *)
MCTlbs ==
    {[s \in {0, 1} |-> [p \in {0, 1} |->
        MCEntry((2 * s) + (1 - p), MCAll, IF p = 0 THEN {"W", "M"} ELSE IF s = 0 THEN {"I"} ELSE {})]],
     [s \in {0, 1} |-> [p \in {0, 1} |->
        IF p = 1 THEN NoEntry ELSE MCEntry(1, {"R", "X"}, {"M"})]],
     [s \in {0, 1} |-> [p \in {0, 1} |->
        MCEntry(p, IF p = 1 THEN {"X"} ELSE {"W"}, {"I", "W"})]]}
(* Without translation every page is where it is.                           *)
MCIdentity == [s \in {0, 1} |-> [p \in {0, 1} |-> MCEntry(p, MCAll, {})]]
MCMsrs == {{}, {"CE"}, {"PR", "IS", "DS"}, {"PR", "CE", "IS"}}
MCGprs == [0..2 -> {0, 4}]

MCPpcCpu(msr, l1, mmu, tlb) ==
    {[gpr |-> gpr, reserve |-> NoPhys, msr |-> msr, l1 |-> l1, mmu |-> mmu, tlb |-> tlb] :
        gpr \in MCGprs}
(* Every MSR with the first table; the two other tables in one space each, one
   data cache off, the models of MMU that give no attributes, no address or
   nothing at all.                                                          *)
MCPpcCpus ==
    LET on == {"DCE", "ICE"}
        Spaces == CHOOSE t \in MCTlbs : t[0] # t[1]
    IN  UNION ({MCPpcCpu(msr, on, "BOOKE206", Spaces) : msr \in MCMsrs}
               \cup {MCPpcCpu(IF NoEntry \in Range(tlb[0]) THEN {} ELSE {"PR", "IS", "DS"},
                              on, "BOOKE206", tlb) : tlb \in MCTlbs \ {Spaces}}
               \cup {MCPpcCpu({}, {"ICE"}, "BOOKE206", Spaces)}
               \cup {MCPpcCpu({}, on, mmu, Spaces) : mmu \in {"SOFT", "UNKNOWN"}}
               \cup {MCPpcCpu({}, on, "REAL", MCIdentity)})

MCPpcAccesses ==
    {i \in [form : {"D", "X"}, rA : 0..1, rB : {2}, rD : {0, 1}, simm : {0, 4}, update : BOOLEAN,
            size : {"B8", "B32", "B64"}, bank : {"gpr"}] :
       /\ i.size = (CASE i.update -> "B64" [] ~i.update /\ i.form = "D" -> "B32" [] OTHER -> "B8")
       /\ i.form = "X" => i.simm = 4}
    \cup {[form |-> "D", rA |-> 1, rB |-> 2, rD |-> 1, simm |-> 4, update |-> update,
           size |-> IF bank = "fpr" THEN "B64" ELSE "B32", bank |-> bank] :
             update \in BOOLEAN, bank \in {"fpr", "single"}}
(* lfq, lfqux, lvx: the second half may lie in the other page.             *)
MCPpcDoubles ==
    {[form |-> form, rA |-> rA, rB |-> 2, simm |-> 0, update |-> form = "X"] :
       form \in {"D", "X", "V"}, rA \in 0..1}
MCPpcIndexed == [rA : 0..1, rB : {2}, rD : {2}, size : {"B32"}]
MCPpcMultiples ==
    [form : {"multiple"}, rA : {0}, rB : {0}, rD : {1}, simm : {0}]
    \cup [form : {"immediate", "indexed"}, rA : 0..1, rB : {0}, rD : {1}, simm : {0}]
MCPpcLengths == {<<2, 0>>, <<1, 2>>}

(* i386: one directory entry and one page of it (pages do not interact).     *)
MCPte(present, pcd, dirty, frame) ==
    [present |-> present, pcd |-> pcd, dirty |-> dirty, frame |-> frame]
MCI386Ptes == {MCPte(FALSE, FALSE, FALSE, 0), MCPte(TRUE, TRUE, FALSE, 6)}
MCI386Pages == {1}
MCI386Cpu(cr0, pse, cpl, cs, pde) ==
    [cr0 |-> cr0, pse |-> pse, cpl |-> cpl, cs |-> cs, pde |-> pde,
     pte |-> [p \in MCI386Pages |-> MCPte(TRUE, FALSE, FALSE, 5)],
     tlb |-> [user \in BOOLEAN |-> [p \in MCI386Pages |-> Uncached]]]
MCPde(present, large, pcd) == [present |-> present, large |-> large, pcd |-> pcd, base |-> 8]
(* Without paging: a middle ring, and real mode with an odd selector; in
   virtual-8086 mode the user's selector may end in zeros.                  *)
MCI386Cpus ==
    {MCI386Cpu({}, FALSE, 1, 1, MCPde(FALSE, FALSE, FALSE)),
     MCI386Cpu({}, FALSE, 0, 2, MCPde(FALSE, FALSE, FALSE)),
     MCI386Cpu({"PG"}, TRUE, 3, 0, MCPde(TRUE, TRUE, FALSE)),
     MCI386Cpu({"PG"}, TRUE, 3, 3, MCPde(FALSE, TRUE, FALSE))}
    \cup {MCI386Cpu({"PG"}, FALSE, cpl, cpl, MCPde(TRUE, TRUE, pcd)) :
            cpl \in {0, 3}, pcd \in BOOLEAN}
    \cup {MCI386Cpu({"PG"} \cup cd, TRUE, cpl, cpl, MCPde(TRUE, TRUE, pcd)) :
            cpl \in {0}, pcd \in BOOLEAN, cd \in {{}, {"CD"}}}

(* ARM: a page of each memory type, one of them missing; two banks.         *)
MCPages(mem, shareable) ==
    [p \in {0, 1} |-> IF p = 1 THEN NoPage ELSE [frame |-> 1, mem |-> mem, shareable |-> shareable]]
(* The byte order is turned in one kind of page, Thumb is on in one, and the
   security state matters where the banks differ.                           *)
MCArmCpus ==
    {c \in [user : BOOLEAN, secure : BOOLEAN,
            sctlr : {[s |-> {"C", "I"}, ns |-> {"C", "I"}], [s |-> {"I"}, ns |-> {"C"}]},
            mmu : {"off", "short", "lpae"}, be32 : BOOLEAN, thumb : BOOLEAN,
            exclusive : {NoExclusive},
            pages : {MCPages(mem, mem # "WT") :
                       mem \in {"DevnGnRnE", "DevnGnRE", "NC", "WT", "WB"}}] :
       /\ c.be32 \/ c.thumb => c.pages[0].mem = "WB" /\ c.be32 # c.thumb
       /\ c.sctlr["s"] = c.sctlr["ns"] => c.secure
       /\ c.mmu # "lpae" => c.pages[0].mem \in {"DevnGnRnE", "WB"}}
=============================================================================
