-------------------------- MODULE SmiChannelProofs --------------------------
(***************************************************************************)
(* The safety of the SMI for every number and size of blocks, every set of *)
(* messages and every set of read sizes.                                   *)
(***************************************************************************)
EXTENDS SmiChannel, SequenceTheorems, TLAPS

(* ------------------------- lemmas on the helpers ----------------------- *)

(* The mask is wide enough and the ring has at least one block.             *)
LEMMA BlockCountType == BLOCK_COUNT \in Nat /\ BLOCK_COUNT >= 1
  BY BlockCountAssumption DEF MASK_BITS

(* The modulo of next_block is a wrap around at the last block.             *)
LEMMA NextBlockWraps ==
    ASSUME NEW b \in Blocks
    PROVE  /\ NextBlock(b) \in Blocks
           /\ NextBlock(b) = IF b + 1 = BLOCK_COUNT THEN 0 ELSE b + 1
<1>1. BLOCK_COUNT \in Nat /\ BLOCK_COUNT >= 1
  BY BlockCountType
<1>2. CASE b + 1 = BLOCK_COUNT
  <2>1. BLOCK_COUNT % BLOCK_COUNT = 0
    BY <1>1
  <2> QED BY <1>1, <1>2, <2>1 DEF NextBlock, Blocks
<1>3. CASE b + 1 # BLOCK_COUNT
  <2>1. b + 1 \in Nat /\ b + 1 < BLOCK_COUNT
    BY <1>1, <1>3 DEF Blocks
  <2>2. (b + 1) % BLOCK_COUNT = b + 1
    BY <1>1, <2>1
  <2> QED BY <1>1, <1>3, <2>1, <2>2 DEF NextBlock, Blocks
<1> QED BY <1>2, <1>3

(* Splitting a message leaves two sequences of cells.                       *)
LEMMA SplitType ==
    ASSUME NEW s \in Seq(Cell), NEW n \in Nat, n <= Len(s)
    PROVE  /\ SubSeq(s, 1, n) \in Seq(Cell)
           /\ SubSeq(s, n + 1, Len(s)) \in Seq(Cell)
<1>1. Len(s) \in Nat /\ \A i \in 1..Len(s) : s[i] \in Cell
  OBVIOUS
<1>2. SubSeq(s, 1, n) \in Seq(Cell)
  <2>1. \A i \in 1..n : s[i] \in Cell
    BY <1>1
  <2> QED BY <2>1, SubSeqProperties
<1>3. SubSeq(s, n + 1, Len(s)) \in Seq(Cell)
  <2>1. \A i \in (n + 1)..Len(s) : s[i] \in Cell
    BY <1>1
  <2>2. n + 1 \in Int /\ Len(s) \in Int
    BY <1>1
  <2> QED BY <2>1, <2>2, SubSeqProperties
<1> QED BY <1>2, <1>3

(* A copy into a block leaves a block.                                      *)
LEMMA WriteType ==
    ASSUME NEW buf \in Block, NEW at \in Nat, NEW cells \in Seq(Cell)
    PROVE  Write(buf, at, cells) \in Block
<1> SUFFICES ASSUME NEW i \in Offsets
             PROVE  (IF at <= i /\ i < at + Len(cells) THEN cells[i - at + 1] ELSE buf[i]) \in Cell
  BY DEF Write, Block
<1>1. CASE at <= i /\ i < at + Len(cells)
  <2>1. i - at + 1 \in 1..Len(cells)
    BY <1>1, BlockSizeAssumption DEF Offsets
  <2> QED BY <1>1, <2>1
<1>2. CASE ~(at <= i /\ i < at + Len(cells))
  BY <1>2 DEF Block
<1> QED BY <1>1, <1>2

(* What is read out of a block is a sequence of cells.                      *)
LEMMA ReadType ==
    ASSUME NEW buf \in Block, NEW at \in Nat, NEW n \in Nat, at + n <= BLOCK_SIZE
    PROVE  Read(buf, at, n) \in Seq(Cell)
<1>1. ASSUME NEW i \in 1..n PROVE buf[at + i - 1] \in Cell
  <2>1. at + i - 1 \in Offsets
    BY BlockSizeAssumption DEF Offsets
  <2> QED BY <2>1 DEF Block
<1>2. Read(buf, at, n) \in [1..n -> Cell]
  BY <1>1 DEF Read
<1> QED BY <1>2, SeqDef

(* What is to be published is a block.                                      *)
LEMMA ImageType == TypeOK => Image \in Block
  BY CellAssumption DEF TypeOK, Image, Block

(* ----------------------------- typing ---------------------------------- *)

(* The initial states are well typed: the memory malloc returns is Junk.    *)
LEMMA InitTyped == Init => TypeOK
<1> SUFFICES ASSUME Init PROVE TypeOK
  OBVIOUS
<1> USE BlockCountType, BlockSizeAssumption, CellAssumption, JunkAssumption
<1>1. 0 \in Blocks /\ BLOCK_SIZE \in 0..BLOCK_SIZE /\ 0 \in 0..BLOCK_SIZE
  BY DEF Blocks
<1>2. shared_buffer_data \in [Blocks -> Block]
  BY DEF Init, InitShared, Block
<1>3. <<>> \in Seq(Cell)
  OBVIOUS
<1> QED
  BY <1>1, <1>2, <1>3
     DEF Init, InitShared, InitEngine, InitClient, TypeOK, SrvPCs, CliPCs

(* Every step of the sending end preserves the types.                      *)
LEMMA ServerNextTyped == TypeOK /\ ServerNext => TypeOK'
<1> SUFFICES ASSUME TypeOK, ServerNext PROVE TypeOK'
  OBVIOUS
<1> USE DEF ServerNext, cliVars, sharedVars, srvVars, TypeOK, SrvPCs
<1>1. ASSUME NEW m \in Messages, Send(m) PROVE TypeOK'
  BY <1>1, MessagesAssumption DEF Send
<1>2. CASE ServerLock
  BY <1>2 DEF ServerLock, Lock
<1>3. CASE ServerWait
  BY <1>3 DEF ServerWait, Unlock
<1>4. CASE ServerWake
  BY <1>4 DEF ServerWake, Lock
<1>5. CASE ServerFree
  BY <1>5 DEF ServerFree, Unlock
<1>6. CASE ServerCopy
  <2>1. shared_buffer_data' \in [Blocks -> Block]
    BY <1>6, ImageType DEF ServerCopy
  <2> QED BY <1>6, <2>1 DEF ServerCopy
<1>7. CASE ServerLoad
  BY <1>7 DEF ServerLoad, Lock
<1>8. CASE ServerPublish
  <2>1. srv_next' \in Blocks
    BY <1>8, NextBlockWraps DEF ServerPublish
  <2>2. srv_index' \in 0..BLOCK_SIZE /\ srv_call' \in {"none", "send", "flush"}
    BY <1>8, BlockSizeAssumption DEF ServerPublish
  <2> QED BY <1>8, <2>1, <2>2 DEF ServerPublish, Signal, Unlock
<1>9. CASE SendFill
  <2>1. BLOCK_SIZE - srv_index \in Nat /\ BLOCK_SIZE - srv_index <= Len(srv_rest)
    BY <1>9, BlockSizeAssumption DEF SendFill
  <2>2. /\ SubSeq(srv_rest, 1, BLOCK_SIZE - srv_index) \in Seq(Cell)
        /\ SubSeq(srv_rest, BLOCK_SIZE - srv_index + 1, Len(srv_rest)) \in Seq(Cell)
    BY <2>1, SplitType
  <2>3. srv_local' \in Block
    <3>1. srv_index \in Nat /\ srv_local \in Block
      BY BlockSizeAssumption
    <3>2. Write(srv_local, srv_index, SubSeq(srv_rest, 1, BLOCK_SIZE - srv_index)) \in Block
      BY <2>2, <3>1, WriteType
    <3> QED BY <1>9, <3>2 DEF SendFill
  <2> QED BY <1>9, <2>1, <2>2, <2>3, BlockSizeAssumption DEF SendFill
<1>10. CASE SendReturn
  <2>1. srv_local' \in Block
    BY <1>10, WriteType DEF SendReturn
  <2>2. srv_index' \in 0..BLOCK_SIZE
    BY <1>10, BlockSizeAssumption DEF SendReturn
  <2> QED BY <1>10, <2>1, <2>2 DEF SendReturn
<1>11. CASE Flush
  BY <1>11 DEF Flush
<1>12. CASE ServerSpurious
  BY <1>12 DEF ServerSpurious
<1> QED BY <1>1, <1>2, <1>3, <1>4, <1>5, <1>6, <1>7, <1>8, <1>9, <1>10, <1>11, <1>12 DEF ServerCall, EngineStep

(* Every step of the receiving end preserves the types.                    *)
LEMMA ClientNextTyped == TypeOK /\ ClientNext => TypeOK'
<1> SUFFICES ASSUME TypeOK, ClientNext PROVE TypeOK'
  OBVIOUS
<1> USE DEF ClientNext, cliVars, sharedVars, srvVars, TypeOK, CliPCs
<1>1. ASSUME NEW k \in ReadSizes, Receive(k) PROVE TypeOK'
  BY <1>1, ReadSizesAssumption DEF Receive
<1>2. CASE ClientLock
  BY <1>2 DEF ClientLock, Lock
<1>3. CASE ClientWait
  BY <1>3 DEF ClientWait, Unlock
<1>4. CASE ClientWake
  BY <1>4 DEF ClientWake, Lock
<1>5. CASE ClientReady
  BY <1>5 DEF ClientReady, Unlock
<1>6. CASE ClientCopy
  <2>1. cli_local' \in Block
    BY <1>6 DEF ClientCopy
  <2> QED BY <1>6, <2>1 DEF ClientCopy
<1>7. CASE ClientLoad
  BY <1>7 DEF ClientLoad, Lock
<1>8. CASE ClientRelease
  <2>1. cli_next' \in Blocks
    BY <1>8, NextBlockWraps DEF ClientRelease
  <2> QED BY <1>8, <2>1 DEF ClientRelease, Signal, Unlock
<1>9. CASE ReceiveDrain
  <2>1. BLOCK_SIZE - cli_index \in Nat /\ cli_index + (BLOCK_SIZE - cli_index) <= BLOCK_SIZE
    BY BlockSizeAssumption
  <2>2. Read(cli_local, cli_index, BLOCK_SIZE - cli_index) \in Seq(Cell)
    BY <2>1, ReadType
  <2>3. cli_got' \in Seq(Cell)
    BY <1>9, <2>2 DEF ReceiveDrain
  <2>4. cli_want' \in Nat /\ cli_index' \in 0..BLOCK_SIZE
    BY <1>9, BlockSizeAssumption DEF ReceiveDrain
  <2> QED BY <1>9, <2>3, <2>4 DEF ReceiveDrain
<1>10. CASE ReceiveReturn
  <2>1. Read(cli_local, cli_index, cli_want) \in Seq(Cell)
    BY <1>10, ReadType DEF ReceiveReturn
  <2>2. cli_got' \in Seq(Cell)
    BY <1>10, <2>1 DEF ReceiveReturn
  <2>3. cli_want' \in Nat /\ cli_index' \in 0..BLOCK_SIZE
    BY <1>10, BlockSizeAssumption DEF ReceiveReturn
  <2> QED BY <1>10, <2>2, <2>3 DEF ReceiveReturn
<1>11. CASE PostServerFlush
  <2>1. cli_index' \in 0..BLOCK_SIZE
    BY <1>11, BlockSizeAssumption DEF PostServerFlush
  <2> QED BY <1>11, <2>1 DEF PostServerFlush
<1>12. CASE ClientSpurious
  BY <1>12 DEF ClientSpurious
<1> QED BY <1>1, <1>2, <1>3, <1>4, <1>5, <1>6, <1>7, <1>8, <1>9, <1>10, <1>11, <1>12 DEF ClientCall, ClientStep

(* Every step keeps the types.                                              *)
LEMMA NextTyped == TypeOK /\ [Next]_vars => TypeOK'
<1>1. TypeOK /\ UNCHANGED vars => TypeOK'
  BY DEF vars, sharedVars, srvVars, cliVars, TypeOK
<1> QED BY <1>1, ServerNextTyped, ClientNextTyped DEF Next

(* Every variable keeps its type.                                           *)
THEOREM Typing == Spec => []TypeOK
BY InitTyped, NextTyped, PTL DEF Spec

(* ------------------------------ the ring -------------------------------- *)

(* Adding the free block at the sender's cursor extends the arc by one.     *)
LEMMA RingGrows ==
    ASSUME NEW c \in Blocks, NEW s \in Blocks, NEW mask, Arc(c, s, mask), s \notin mask
    PROVE  Arc(c, IF s + 1 = BLOCK_COUNT THEN 0 ELSE s + 1, mask \cup {s})
  BY BlockCountType DEF Arc, Blocks

(* Removing the block at the receiver's cursor shortens the arc by one.     *)
LEMMA RingShrinks ==
    ASSUME NEW c \in Blocks, NEW s \in Blocks, NEW mask, Arc(c, s, mask), c \in mask
    PROVE  Arc(IF c + 1 = BLOCK_COUNT THEN 0 ELSE c + 1, s, mask \ {c})
  BY BlockCountType DEF Arc, Blocks

(* Every step of the sending end preserves the invariant of the ring.       *)
LEMMA ServerNextRing == TypeOK /\ RingInv /\ ServerNext => RingInv'
<1> SUFFICES ASSUME TypeOK, RingInv, ServerNext PROVE RingInv'
  OBVIOUS
<1> USE DEF ServerNext, cliVars, sharedVars, srvVars, RingInv, Ring, Mutex, Claim, Sleepers, Copied, Calls, NoLostWakeup, Image, Lock, Unlock, Signal
<1>1. ASSUME NEW m \in Messages, Send(m) PROVE RingInv'
  BY <1>1 DEF Send
<1>2. CASE Flush
  BY <1>2 DEF Flush
<1>3. CASE SendFill
  BY <1>3 DEF SendFill
<1>4. CASE SendReturn
  BY <1>4 DEF SendReturn
<1>5. CASE ServerLock
  BY <1>5 DEF ServerLock
<1>6. CASE ServerWait
  BY <1>6 DEF ServerWait
<1>7. CASE ServerWake
  BY <1>7 DEF ServerWake
<1>8. CASE ServerFree
  BY <1>8 DEF ServerFree
<1>9. CASE ServerCopy
  <2> USE DEF ServerCopy
  <2>1. Image' = Image
    BY <1>9
  <2>2. cli_pc \in {"relock", "release"} => cli_next # srv_next
    BY <1>9
  <2>3. /\ shared_buffer_data'[srv_next] = Image
        /\ \A b \in Blocks \ {srv_next} : shared_buffer_data'[b] = shared_buffer_data[b]
    BY <1>9 DEF TypeOK
  <2>4. Copied'
    BY <1>9, <2>1, <2>2, <2>3 DEF TypeOK
  <2> QED BY <1>9, <2>4
<1>10. CASE ServerLoad
  BY <1>10 DEF ServerLoad
<1>11. CASE ServerPublish
  <2> USE DEF ServerPublish
  <2>1. /\ srv_next \notin block_mask
        /\ block_mask' = block_mask \cup {srv_next}
        /\ cli_next' = cli_next
    BY <1>11
  <2>2. srv_next' = IF srv_next + 1 = BLOCK_COUNT THEN 0 ELSE srv_next + 1
    BY <1>11, NextBlockWraps DEF TypeOK
  <2>3. Ring'
    BY <2>1, <2>2, RingGrows DEF TypeOK
  <2>4. Mutex' /\ Sleepers' /\ Calls'
    BY <1>11
  <2>5. Claim' /\ NoLostWakeup'
    BY <1>11, <2>1 DEF TypeOK
  <2>6. Copied'
    BY <1>11
  <2> QED BY <2>3, <2>4, <2>5, <2>6
<1>12. CASE ServerSpurious
  BY <1>12 DEF ServerSpurious
<1> QED BY <1>1, <1>2, <1>3, <1>4, <1>5, <1>6, <1>7, <1>8, <1>9, <1>10, <1>11, <1>12 DEF ServerCall, EngineStep

(* Every step of the receiving end preserves the invariant of the ring.     *)
LEMMA ClientNextRing == TypeOK /\ RingInv /\ ClientNext => RingInv'
<1> SUFFICES ASSUME TypeOK, RingInv, ClientNext PROVE RingInv'
  OBVIOUS
<1> USE DEF ClientNext, cliVars, sharedVars, srvVars, RingInv, Ring, Mutex, Claim, Sleepers, Copied, Calls, NoLostWakeup, Image, Lock, Unlock, Signal
<1>1. ASSUME NEW k \in ReadSizes, Receive(k) PROVE RingInv'
  BY <1>1 DEF Receive
<1>2. CASE PostServerFlush
  BY <1>2 DEF PostServerFlush
<1>3. CASE ReceiveDrain
  BY <1>3 DEF ReceiveDrain
<1>4. CASE ReceiveReturn
  BY <1>4 DEF ReceiveReturn
<1>5. CASE ClientLock
  BY <1>5 DEF ClientLock
<1>6. CASE ClientWait
  BY <1>6 DEF ClientWait
<1>7. CASE ClientWake
  BY <1>7 DEF ClientWake
<1>8. CASE ClientReady
  BY <1>8 DEF ClientReady
<1>9. CASE ClientCopy
  BY <1>9 DEF ClientCopy
<1>10. CASE ClientLoad
  BY <1>10 DEF ClientLoad
<1>11. CASE ClientRelease
  <2> USE DEF ClientRelease
  <2>1. /\ cli_next \in block_mask
        /\ block_mask' = block_mask \ {cli_next}
        /\ srv_next' = srv_next
    BY <1>11
  <2>2. cli_next' = IF cli_next + 1 = BLOCK_COUNT THEN 0 ELSE cli_next + 1
    BY <1>11, NextBlockWraps DEF TypeOK
  <2>3. Ring'
    BY <2>1, <2>2, RingShrinks DEF TypeOK
  <2>4. Mutex' /\ Sleepers' /\ Calls'
    BY <1>11
  <2>5. Claim' /\ NoLostWakeup'
    BY <1>11, <2>1 DEF TypeOK
  <2>6. Copied'
    BY <1>11
  <2> QED BY <2>3, <2>4, <2>5, <2>6
<1>12. CASE ClientSpurious
  BY <1>12 DEF ClientSpurious
<1> QED BY <1>1, <1>2, <1>3, <1>4, <1>5, <1>6, <1>7, <1>8, <1>9, <1>10, <1>11, <1>12 DEF ClientCall, ClientStep

(* Both ends keep the ring invariant: the mask is the arc between the two
   cursors, and each end keeps its claim on the block at its own.           *)
THEOREM RingInvariant == Spec => []RingInv
<1>1. Init => RingInv
  BY BlockCountType
     DEF Init, InitShared, InitEngine, InitClient, RingInv, Ring, Arc, Mutex, Claim,
         Sleepers, Copied, Calls, NoLostWakeup
<1>2. TypeOK /\ RingInv /\ UNCHANGED vars => RingInv'
  BY DEF vars, sharedVars, srvVars, cliVars, RingInv, Ring, Arc, Mutex, Claim,
         Sleepers, Copied, Calls, NoLostWakeup, Image
<1>3. TypeOK /\ RingInv /\ [Next]_vars => RingInv'
  BY <1>2, ServerNextRing, ClientNextRing DEF Next
<1> QED BY <1>1, <1>3, Typing, PTL DEF Spec

(* The copies outside the mutex of send, flush and receive never touch a
   block the other end may use.                                             *)
THEOREM CopiesDoNotRace == Spec => []NoBlockRace
<1>1. RingInv => NoBlockRace
  BY DEF RingInv, Claim, NoBlockRace
<1> QED BY <1>1, RingInvariant, PTL

(* No end of the SMI misses the signal it sleeps for.                       *)
THEOREM WakeupsAreNotLost == Spec => []NoLostWakeup
<1>1. RingInv => NoLostWakeup
  BY DEF RingInv
<1> QED BY <1>1, RingInvariant, PTL

(* The sender and the receiver never sleep at the same time: a ring cannot
   be full for the one and empty for the other.                             *)
THEOREM NoDeadlockOfSleepers == Spec => []NoMutualWait
<1>1. TypeOK /\ RingInv => NoMutualWait
  BY BlockCountType DEF TypeOK, RingInv, Ring, Arc, NoLostWakeup, NoMutualWait, Blocks
<1> QED BY <1>1, Typing, RingInvariant, PTL

(* ---------------------------- refinement -------------------------------- *)

(* The length of the arc, and that its i-th block is a published one.       *)
LEMMA ArcBlocks ==
    ASSUME NEW c \in Blocks, NEW s \in Blocks, NEW mask, Arc(c, s, mask)
    PROVE  /\ ArcLength(c, s, mask) \in 0..BLOCK_COUNT
           /\ \A i \in 0..(ArcLength(c, s, mask) - 1) : Around(c, i) \in mask
  BY BlockCountType DEF Arc, ArcLength, Around, Blocks

(* Publishing makes the arc one longer, at its far end.                     *)
LEMMA ArcGrows ==
    ASSUME NEW c \in Blocks, NEW s \in Blocks, NEW mask, Arc(c, s, mask), s \notin mask,
           NEW s2, s2 = IF s + 1 = BLOCK_COUNT THEN 0 ELSE s + 1
    PROVE  /\ ArcLength(c, s, mask) < BLOCK_COUNT
           /\ ArcLength(c, s2, mask \cup {s}) = ArcLength(c, s, mask) + 1
           /\ Around(c, ArcLength(c, s, mask)) = s
  BY BlockCountType DEF Arc, ArcLength, Around, Blocks

(* A published block at the receiver's cursor is the first of the arc.      *)
LEMMA ArcNear ==
    ASSUME NEW c \in Blocks, NEW s \in Blocks, NEW mask, Arc(c, s, mask), c \in mask
    PROVE  ArcLength(c, s, mask) >= 1 /\ Around(c, 0) = c
  BY BlockCountType DEF Arc, ArcLength, Around, Blocks

(* Taking makes the arc one shorter, at its near end ...                    *)
LEMMA ArcShrinks ==
    ASSUME NEW c \in Blocks, NEW s \in Blocks, NEW mask, Arc(c, s, mask), c \in mask,
           NEW c2, c2 = IF c + 1 = BLOCK_COUNT THEN 0 ELSE c + 1
    PROVE  ArcLength(c2, s, mask \ {c}) = ArcLength(c, s, mask) - 1
  BY BlockCountType DEF Arc, ArcLength, Blocks

(* ... and every other block moves up by one.                               *)
LEMMA AroundShifts ==
    ASSUME NEW c \in Blocks, NEW i \in 0..(BLOCK_COUNT - 1),
           NEW c2, c2 = IF c + 1 = BLOCK_COUNT THEN 0 ELSE c + 1
    PROVE  Around(c2, i) = Around(c, i + 1)
  BY BlockCountType DEF Around, Blocks

(* The blocks in transit are a sequence as long as the arc.                 *)
LEMMA TransitType ==
    ASSUME TypeOK, RingInv
    PROVE  Transit \in Seq(Block) /\ Len(Transit) = Pending
<1>1. Pending \in Nat /\ \A i \in 1..Pending : Around(cli_next, i - 1) \in Blocks
  BY ArcBlocks, BlockCountType DEF TypeOK, RingInv, Ring, Pending
<1>2. Transit \in [1..Pending -> Block]
  BY <1>1 DEF Transit, TypeOK
<1> QED BY <1>1, <1>2, SeqDef

(* What is to be published is a block, after a step too.                    *)
LEMMA ImageTypePrimed == TypeOK' => Image' \in Block
  BY CellAssumption DEF TypeOK, Image, Block

(* While nothing but the sender's private state changes, the queue sees at
   most another block being staged.                                         *)
LEMMA OnlyStages ==
    ASSUME TypeOK, TypeOK', Transit' = Transit, cli_local' = cli_local
    PROVE  BQ!NextQueue
<1>1. Image' \in Block
  BY ImageTypePrimed
<1> QED BY <1>1 DEF BQ!NextQueue, BQ!Stage

(* The blocks in transit depend on the cursors, the mask and the blocks.    *)
LEMMA TransitUnchanged ==
    ASSUME UNCHANGED <<block_mask, shared_buffer_data, srv_next, cli_next>>
    PROVE  Transit' = Transit
  BY DEF Transit, Pending

(* What the ring invariant says of the cursors.                             *)
LEMMA RingFacts ==
    ASSUME TypeOK, RingInv
    PROVE  /\ cli_next \in Blocks /\ srv_next \in Blocks
           /\ Arc(cli_next, srv_next, block_mask)
           /\ Pending \in 0..BLOCK_COUNT
<1>1. cli_next \in Blocks /\ srv_next \in Blocks /\ Arc(cli_next, srv_next, block_mask)
  BY DEF TypeOK, RingInv, Ring
<1> QED BY <1>1, ArcBlocks DEF Pending

(* The sender's copy goes to a block that is not in transit.                *)
LEMMA CopyKeepsTransit ==
    ASSUME TypeOK, RingInv, ServerCopy, UNCHANGED cliVars
    PROVE  Transit' = Transit
<1> USE DEF cliVars
<1>1. srv_next \notin block_mask
  BY DEF ServerCopy, RingInv, Claim
<1>2. \A i \in 1..Pending : Around(cli_next, i - 1) \in block_mask
  BY RingFacts, ArcBlocks DEF Pending
<1>3. \A b \in block_mask : shared_buffer_data'[b] = shared_buffer_data[b]
  BY <1>1 DEF ServerCopy, TypeOK
<1>4. Pending' = Pending /\ cli_next' = cli_next
  BY DEF ServerCopy, Pending
<1> QED BY <1>2, <1>3, <1>4 DEF Transit

(* Publishing appends the staged block to those in transit.                 *)
LEMMA PublishAppends ==
    ASSUME TypeOK, RingInv, ServerPublish, UNCHANGED cliVars
    PROVE  /\ Transit' = Append(Transit, Image)
           /\ Transit \in Seq(Block) /\ Len(Transit) < BLOCK_COUNT
<1> USE DEF cliVars
<1>1. /\ srv_next \notin block_mask
      /\ block_mask' = block_mask \cup {srv_next}
      /\ shared_buffer_data[srv_next] = Image
  BY DEF ServerPublish, RingInv, Claim, Copied
<1>2. srv_next' = IF srv_next + 1 = BLOCK_COUNT THEN 0 ELSE srv_next + 1
  BY NextBlockWraps DEF ServerPublish, TypeOK
<1>3. /\ Pending \in Nat /\ Pending < BLOCK_COUNT
      /\ Pending' = Pending + 1
      /\ Around(cli_next, Pending) = srv_next
  <2>1. cli_next' = cli_next
    OBVIOUS
  <2>2. /\ ArcLength(cli_next, srv_next, block_mask) < BLOCK_COUNT
        /\ ArcLength(cli_next, srv_next', block_mask \cup {srv_next}) = Pending + 1
        /\ Around(cli_next, ArcLength(cli_next, srv_next, block_mask)) = srv_next
    BY <1>1, <1>2, RingFacts, ArcGrows DEF Pending
  <2> QED BY <1>1, <2>1, <2>2, RingFacts, BlockCountType DEF Pending
<1>4. Transit' = [i \in 1..(Pending + 1) |-> shared_buffer_data[Around(cli_next, i - 1)]]
  BY <1>3 DEF Transit, ServerPublish
<1>5. Transit \in Seq(Block) /\ Len(Transit) = Pending
  BY <1>3, TransitType
<1>6. Transit' = Append(Transit, Image)
  BY <1>1, <1>3, <1>4, <1>5 DEF Transit
<1> QED BY <1>3, <1>5, <1>6

(* The receiver copies the first block in transit.                          *)
LEMMA CopyFetches ==
    ASSUME TypeOK, RingInv, ClientCopy, UNCHANGED srvVars
    PROVE  Transit # <<>> /\ cli_local' = Head(Transit) /\ Transit' = Transit
<1> USE DEF cliVars, sharedVars, srvVars
<1>1. cli_next \in block_mask
  BY DEF ClientCopy, RingInv, Claim
<1>2. Pending \in Nat /\ Pending >= 1 /\ Around(cli_next, 0) = cli_next
  BY <1>1, RingFacts, ArcNear, BlockCountType DEF Pending
<1>3. Transit \in Seq(Block) /\ Len(Transit) = Pending
  BY <1>2, TransitType
<1>4. Transit # <<>> /\ Head(Transit) = shared_buffer_data[cli_next]
  BY <1>2, <1>3 DEF Transit
<1>5. Transit' = Transit
  BY TransitUnchanged DEF ClientCopy
<1> QED BY <1>4, <1>5 DEF ClientCopy

(* The receiver gives back the first block in transit, which it has copied. *)
LEMMA ReleaseDrops ==
    ASSUME TypeOK, RingInv, ClientRelease, UNCHANGED srvVars
    PROVE  Transit \in Seq(Block) /\ Transit # <<>> /\ Head(Transit) = cli_local /\ Transit' = Tail(Transit)
<1> USE DEF cliVars, sharedVars, srvVars
<1>1. /\ cli_next \in block_mask
      /\ block_mask' = block_mask \ {cli_next}
      /\ cli_local = shared_buffer_data[cli_next]
  BY DEF ClientRelease, RingInv, Claim, Copied
<1>2. cli_next' = IF cli_next + 1 = BLOCK_COUNT THEN 0 ELSE cli_next + 1
  BY NextBlockWraps DEF ClientRelease, TypeOK
<1>3. /\ Pending \in 1..BLOCK_COUNT
      /\ Pending' = Pending - 1
      /\ Around(cli_next, 0) = cli_next
      /\ \A i \in 0..(BLOCK_COUNT - 1) : Around(cli_next', i) = Around(cli_next, i + 1)
  <2>1. srv_next' = srv_next
    OBVIOUS
  <2>2. ArcLength(cli_next, srv_next, block_mask) >= 1 /\ Around(cli_next, 0) = cli_next
    BY <1>1, RingFacts, ArcNear
  <2>3. ArcLength(cli_next', srv_next, block_mask \ {cli_next})
          = ArcLength(cli_next, srv_next, block_mask) - 1
    BY <1>1, <1>2, RingFacts, ArcShrinks
  <2>4. \A i \in 0..(BLOCK_COUNT - 1) : Around(cli_next', i) = Around(cli_next, i + 1)
    BY <1>2, RingFacts, AroundShifts
  <2> QED BY <1>1, <2>1, <2>2, <2>3, <2>4, RingFacts, BlockCountType DEF Pending
<1>4. Transit' = [i \in 1..(Pending - 1) |-> shared_buffer_data[Around(cli_next, i)]]
  BY <1>3, BlockCountType DEF Transit, ClientRelease
<1>5. Transit \in Seq(Block) /\ Len(Transit) = Pending
  BY <1>3, BlockCountType, TransitType
<1>6. Transit # <<>> /\ Head(Transit) = cli_local
  BY <1>1, <1>3, <1>5 DEF Transit
<1>7. Transit' = Tail(Transit)
  BY <1>3, <1>4, <1>5 DEF Transit
<1> QED BY <1>5, <1>6, <1>7

(* A step of either end is a step of the queue, or leaves it unchanged.     *)
LEMMA StepSimulation ==
    ASSUME TypeOK, TypeOK', RingInv, [Next]_vars
    PROVE  BQ!NextQueue \/ UNCHANGED <<Image, Transit, cli_local>>
<1> USE DEF cliVars, sharedVars, srvVars
<1>1. ASSUME UNCHANGED <<block_mask, shared_buffer_data, srv_next, cli_next, cli_local>>
      PROVE  BQ!NextQueue
  BY <1>1, OnlyStages, TransitUnchanged
<1>2. ASSUME ServerCopy, UNCHANGED cliVars
      PROVE  BQ!NextQueue
  BY <1>2, CopyKeepsTransit, OnlyStages
<1>3. ASSUME ServerPublish, UNCHANGED cliVars
      PROVE  BQ!NextQueue
  <2>1. Transit' = Append(Transit, Image) /\ Len(Transit) < BLOCK_COUNT
    BY <1>3, PublishAppends
  <2>2. Image' \in Block
    BY ImageTypePrimed
  <2> QED BY <1>3, <2>1, <2>2 DEF BQ!NextQueue, BQ!Put
<1>4. ASSUME ClientCopy, UNCHANGED srvVars
      PROVE  BQ!NextQueue
  <2>1. Transit # <<>> /\ cli_local' = Head(Transit) /\ Transit' = Transit
    BY <1>4, CopyFetches
  <2>2. Image' = Image
    BY <1>4 DEF Image
  <2> QED BY <2>1, <2>2 DEF BQ!NextQueue, BQ!Fetch
<1>5. ASSUME ClientRelease, UNCHANGED srvVars
      PROVE  BQ!NextQueue
  <2>1. Transit # <<>> /\ Head(Transit) = cli_local /\ Transit' = Tail(Transit)
    BY <1>5, ReleaseDrops
  <2>2. Image' = Image /\ cli_local' = cli_local
    BY <1>5 DEF ClientRelease, Image
  <2> QED BY <2>1, <2>2 DEF BQ!NextQueue, BQ!Drop
<1>6. CASE ServerNext
  BY <1>1, <1>2, <1>3, <1>6
     DEF ServerNext, ServerCall, EngineStep, Send, Flush, SendFill, SendReturn, ServerLock,
         ServerWait, ServerWake, ServerFree, ServerLoad, ServerSpurious
<1>7. CASE ClientNext
  BY <1>1, <1>4, <1>5, <1>7
     DEF ClientNext, ClientCall, ClientStep, Receive, PostServerFlush, ReceiveDrain,
         ReceiveReturn, ClientLock, ClientWait, ClientWake, ClientReady, ClientLoad,
         ClientSpurious
<1>8. CASE UNCHANGED vars
  BY <1>1, <1>8 DEF vars
<1> QED BY <1>6, <1>7, <1>8 DEF Next

(* The SMI implements the bounded queue of blocks.                          *)
THEOREM Refinement == Spec => ImplementsBlockQueue
<1>1. Init => BQ!InitQueue
  <2> SUFFICES ASSUME Init PROVE BQ!InitQueue
    OBVIOUS
  <2>1. Image \in Block /\ cli_local \in Block
    BY InitTyped, ImageType DEF TypeOK
  <2>2. Pending = 0
    BY DEF Init, InitShared, InitEngine, InitClient, Pending, ArcLength
  <2>3. Transit = <<>>
    BY <2>2 DEF Transit
  <2> QED BY <2>1, <2>3 DEF BQ!InitQueue
<1>2. TypeOK /\ TypeOK' /\ RingInv /\ [Next]_vars
        => [BQ!NextQueue]_<<Image, Transit, cli_local>>
  BY StepSimulation
<1> QED BY <1>1, <1>2, Typing, RingInvariant, PTL DEF Spec, ImplementsBlockQueue, BQ!QueueSpec
=============================================================================
