------------------------------ MODULE SmiShared ------------------------------
(***************************************************************************)
(* The shared memory of the QEM SMI: the block mask and the blocks of the  *)
(* region QEM_SMI_SHM, and the process-shared monitor (one mutex, one      *)
(* condition variable per direction) that both ends map.                   *)
(*                                                                         *)
(* A cell is the unit of transfer (a byte in the code).  A block is an     *)
(* array of BLOCK_SIZE cells, indexed from 0 as in the code.               *)
(***************************************************************************)
EXTENDS Naturals, Sequences

CONSTANTS
    BLOCK_COUNT,   \* QEM_SMI_BLOCK_COUNT, the number of blocks of the ring
    BLOCK_SIZE,    \* QEM_SMI_BLOCK_SIZE, the cells of a block
    Cell,          \* the values of a cell
    Zero,          \* the cell memset and ftruncate write
    Magic,         \* the cell the handshake leaves at the start of block 0
    Junk           \* the blocks malloc may return: uninitialised memory

(* The mask field is QEM_SMI_META_BLOCK_MASK_SIZE = 2 bytes wide and holds
   one bit per block: the header asks for a block count that fits.         *)
MASK_BITS == 16

ASSUME BlockCountAssumption == BLOCK_COUNT \in 1..MASK_BITS
ASSUME BlockSizeAssumption  == BLOCK_SIZE \in Nat \ {0}
ASSUME CellAssumption       == Zero \in Cell /\ Magic \in Cell

Blocks  == 0..(BLOCK_COUNT - 1)
Offsets == 0..(BLOCK_SIZE - 1)
Block   == [Offsets -> Cell]

ASSUME JunkAssumption == Junk \subseteq Block

VARIABLES
    block_mask,          \* the blocks whose bit is set: published, not yet taken
    shared_buffer_data,  \* the blocks
    mon_lock,            \* the holder of the mutex
    cond_read,           \* who sleeps on the condition "a block was published"
    cond_write           \* who sleeps on the condition "a block was freed"

sharedVars == <<block_mask, shared_buffer_data, mon_lock, cond_read, cond_write>>

(* mmap_buffer truncates the region (all zero) and clears the mask; connect
   then writes the handshake magic over the start of block 0.              *)
InitShared ==
    /\ block_mask = {}
    /\ shared_buffer_data =
         [b \in Blocks |-> [i \in Offsets |-> IF b = 0 /\ i = 0 THEN Magic ELSE Zero]]
    /\ mon_lock = "none"
    /\ cond_read = {}
    /\ cond_write = {}

-----------------------------------------------------------------------------
(* The monitor, as POSIX specifies it.  pthread_cond_wait releases the mutex
   and sleeps in one step; a sleeper leaves the wait set when it is
   signalled, or spuriously, and then has to take the mutex again.          *)

(* Mutants: the mutex does not exclude; the signal is forgotten.            *)
LockUnchecked(who) == mon_lock' = who
SignalNobody(cond) == UNCHANGED cond

Lock(who)   == mon_lock = "none" /\ mon_lock' = who
Unlock(who) == mon_lock = who /\ mon_lock' = "none"

(* With one sender and one receiver a condition has at most one sleeper, so
   the signal empties the wait set; a signal without a sleeper is lost.     *)
Signal(cond) == cond' = {}

-----------------------------------------------------------------------------
(* memcpy of the sequence `cells` into the array `buf` at offset `at`.      *)
Write(buf, at, cells) ==
    [i \in Offsets |-> IF at <= i /\ i < at + Len(cells) THEN cells[i - at + 1] ELSE buf[i]]

(* The n cells of `buf` from offset `at` on.                                *)
Read(buf, at, n) == [i \in 1..n |-> buf[at + i - 1]]

(* Mutant: the cursor does not wrap around.                                 *)
NextBlockUnwrapped(b) == b + 1

(* (next_block + 1) % block_count                                           *)
NextBlock(b) == (b + 1) % BLOCK_COUNT
=============================================================================
