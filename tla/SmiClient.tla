------------------------------ MODULE SmiClient ------------------------------
(***************************************************************************)
(* The receiving end of the SMI (SMILib/src/qem_posix_smi.c), after a      *)
(* successful handshake: qem_smi_receive and qem_smi_post_server_flush.    *)
(***************************************************************************)
EXTENDS SmiShared

VARIABLES
    cli_pc,      \* where the receiving thread stands in qem_smi_receive
    cli_want,    \* readSize: the cells the call still has to deliver
    cli_got,     \* the cells delivered to the caller's buffer by this call
    cli_local,   \* local_buffer
    cli_index,   \* local_buffer_index
    cli_next,    \* next_block
    cli_blocks   \* `blocks`: the mask between its load and its store, else {}

cliVars == <<cli_pc, cli_want, cli_got, cli_local, cli_index, cli_next, cli_blocks>>

(* qem_smi_connect leaves the index at block_size: the first receive takes a
   block before it delivers anything.                                       *)
InitClient ==
    /\ cli_pc = "idle"
    /\ cli_want = 0
    /\ cli_got = <<>>
    /\ cli_local \in Junk
    /\ cli_index = BLOCK_SIZE
    /\ cli_next = 0
    /\ cli_blocks = {}

-----------------------------------------------------------------------------
(* qem_smi_receive(buffer, size) is entered.                                *)
Receive(size) ==
    /\ cli_pc = "idle"
    /\ cli_pc' = "receive"
    /\ cli_want' = size
    /\ cli_got' = <<>>
    /\ UNCHANGED <<cli_local, cli_index, cli_next, cli_blocks, sharedVars>>

(* Mutant: the end of the private block is not delivered before the next one
   is taken.                                                                *)
ReceiveDrainForgets ==
    /\ cli_pc = "receive"
    /\ cli_index + cli_want > BLOCK_SIZE
    /\ cli_want' = cli_want - (BLOCK_SIZE - cli_index)
    /\ cli_index' = 0
    /\ cli_pc' = "lock"
    /\ UNCHANGED <<cli_got, cli_local, cli_next, cli_blocks, sharedVars>>

(* The body of the while loop up to the mutex: the private block has too
   little, so it is used up and another one has to be taken.               *)
ReceiveDrain ==
    LET toRead == BLOCK_SIZE - cli_index IN
    /\ cli_pc = "receive"
    /\ cli_index + cli_want > BLOCK_SIZE
    /\ cli_got' = cli_got \o Read(cli_local, cli_index, toRead)
    /\ cli_want' = cli_want - toRead
    /\ cli_index' = 0
    /\ cli_pc' = "lock"
    /\ UNCHANGED <<cli_local, cli_next, cli_blocks, sharedVars>>

(* The loop ends: the private block has the rest, and receive returns 0.    *)
ReceiveReturn ==
    /\ cli_pc = "receive"
    /\ cli_index + cli_want <= BLOCK_SIZE
    /\ cli_got' = cli_got \o Read(cli_local, cli_index, cli_want)
    /\ cli_index' = cli_index + cli_want
    /\ cli_want' = 0
    /\ cli_pc' = "idle"
    /\ UNCHANGED <<cli_local, cli_next, cli_blocks, sharedVars>>

(* Mutant: the padding is not dropped.                                      *)
PostServerFlushNothing == cli_pc = "idle" /\ UNCHANGED <<cliVars, sharedVars>>

(* qem_smi_post_server_flush(): the rest of the private block is dropped.   *)
PostServerFlush ==
    /\ cli_pc = "idle"
    /\ cli_index' = BLOCK_SIZE
    /\ UNCHANGED <<cli_pc, cli_want, cli_got, cli_local, cli_next, cli_blocks, sharedVars>>

-----------------------------------------------------------------------------
(* Taking a block.                                                          *)

ClientLock ==
    /\ cli_pc = "lock"
    /\ Lock("client")
    /\ cli_pc' = "check"
    /\ UNCHANGED <<cli_want, cli_got, cli_local, cli_index, cli_next, cli_blocks,
                   block_mask, shared_buffer_data, cond_read, cond_write>>

(* The next block has not been published: pthread_cond_wait(cond_read).     *)
ClientWait ==
    /\ cli_pc = "check"
    /\ cli_next \notin block_mask
    /\ Unlock("client")
    /\ cond_read' = cond_read \cup {"client"}
    /\ cli_pc' = "wait"
    /\ UNCHANGED <<cli_want, cli_got, cli_local, cli_index, cli_next, cli_blocks,
                   block_mask, shared_buffer_data, cond_write>>

ClientWake ==
    /\ cli_pc = "wait"
    /\ "client" \notin cond_read
    /\ Lock("client")
    /\ cli_pc' = "check"
    /\ UNCHANGED <<cli_want, cli_got, cli_local, cli_index, cli_next, cli_blocks,
                   block_mask, shared_buffer_data, cond_read, cond_write>>

ClientSpurious ==
    /\ "client" \in cond_read
    /\ cond_read' = cond_read \ {"client"}
    /\ UNCHANGED <<cliVars, block_mask, shared_buffer_data, mon_lock, cond_write>>

ClientReady ==
    /\ cli_pc = "check"
    /\ cli_next \in block_mask
    /\ Unlock("client")
    /\ cli_pc' = "copy"
    /\ UNCHANGED <<cli_want, cli_got, cli_local, cli_index, cli_next, cli_blocks,
                   block_mask, shared_buffer_data, cond_read, cond_write>>

(* The copy out of shared memory, outside the mutex.                        *)
ClientCopy ==
    /\ cli_pc = "copy"
    /\ cli_local' = shared_buffer_data[cli_next]
    /\ cli_pc' = "relock"
    /\ UNCHANGED <<cli_want, cli_got, cli_index, cli_next, cli_blocks, sharedVars>>

ClientLoad ==
    /\ cli_pc = "relock"
    /\ Lock("client")
    /\ cli_blocks' = block_mask
    /\ cli_pc' = "release"
    /\ UNCHANGED <<cli_want, cli_got, cli_local, cli_index, cli_next,
                   block_mask, shared_buffer_data, cond_read, cond_write>>

(* The mask is stored with the bit cleared, the cursor moves on, the sender
   is signalled, the mutex is released, and receive is back in its loop.    *)
ClientRelease ==
    /\ cli_pc = "release"
    /\ block_mask' = cli_blocks \ {cli_next}
    /\ cli_blocks' = {}
    /\ cli_next' = NextBlock(cli_next)
    /\ Signal(cond_write)
    /\ Unlock("client")
    /\ cli_pc' = "receive"
    /\ UNCHANGED <<cli_want, cli_got, cli_local, cli_index, shared_buffer_data, cond_read>>

-----------------------------------------------------------------------------
(* A step of the receiving thread inside a call.                            *)
ClientStep ==
    \/ ReceiveDrain \/ ReceiveReturn
    \/ ClientLock \/ ClientWait \/ ClientWake \/ ClientReady
    \/ ClientCopy \/ ClientLoad \/ ClientRelease
=============================================================================
