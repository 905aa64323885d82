---------------------------- MODULE MCSmiTracing ----------------------------
(* Small instances of SmiTracing: words of one cell, records of two, blocks
   of three, so that items straddle block boundaries and also end on one.   *)
EXTENDS SmiTracing

MCZero  == <<"zero", 0>>
MCMagic == <<"magic", 0>>
MCCell  == {MCZero, MCMagic} \cup
           {<<m, k>> : m \in Items \ {EOS}, k \in 1..(WordSize + RecordSize)}

MCMessages  == {Cells(m) : m \in Items}
MCReadSizes == {WordSize, RecordSize}
MCJunk      == {[i \in Offsets |-> MCMagic]}
=============================================================================
