------------------------------ MODULE SmiEngine ------------------------------
(***************************************************************************)
(* The sending end of the SMI (QEMTrace/qem_trace_smi_engine.c), after a   *)
(* successful handshake: qem_smi_client_send and qem_smi_client_flush.     *)
(* Both fill a private block and publish it; the steps they share are the  *)
(* steps between the waits on the mutex, so that every interleaving with   *)
(* the receiver is a behaviour of the model.                               *)
(***************************************************************************)
EXTENDS SmiShared

VARIABLES
    srv_pc,      \* where the sending thread stands in send or flush
    srv_call,    \* which of the two it executes
    srv_rest,    \* the cells of the message not yet in local_buffer
    srv_local,   \* local_buffer
    srv_index,   \* local_buffer_index
    srv_next,    \* next_block
    srv_blocks   \* `blocks`: the mask between its load and its store, else {}

srvVars == <<srv_pc, srv_call, srv_rest, srv_local, srv_index, srv_next, srv_blocks>>

InitEngine ==
    /\ srv_pc = "idle"
    /\ srv_call = "none"
    /\ srv_rest = <<>>
    /\ srv_local \in Junk
    /\ srv_index = 0
    /\ srv_next = 0
    /\ srv_blocks = {}

-----------------------------------------------------------------------------
(* qem_smi_client_send(buffer, size) is entered.                            *)
Send(cells) ==
    /\ srv_pc = "idle"
    /\ srv_pc' = "send"
    /\ srv_call' = "send"
    /\ srv_rest' = cells
    /\ UNCHANGED <<srv_local, srv_index, srv_next, srv_blocks, sharedVars>>

(* The body of the while loop up to the mutex: the message does not fit, so
   the block is topped up and has to be published.                         *)
SendFill ==
    LET toWrite == BLOCK_SIZE - srv_index IN
    /\ srv_pc = "send"
    /\ srv_index + Len(srv_rest) > BLOCK_SIZE
    /\ srv_local' = Write(srv_local, srv_index, SubSeq(srv_rest, 1, toWrite))
    /\ srv_rest' = SubSeq(srv_rest, toWrite + 1, Len(srv_rest))
    /\ srv_index' = 0
    /\ srv_pc' = "lock"
    /\ UNCHANGED <<srv_call, srv_next, srv_blocks, sharedVars>>

(* The loop ends: what is left fits, and send returns 0.                    *)
SendReturn ==
    /\ srv_pc = "send"
    /\ srv_index + Len(srv_rest) <= BLOCK_SIZE
    /\ srv_local' = Write(srv_local, srv_index, srv_rest)
    /\ srv_index' = srv_index + Len(srv_rest)
    /\ srv_rest' = <<>>
    /\ srv_pc' = "idle"
    /\ srv_call' = "none"
    /\ UNCHANGED <<srv_next, srv_blocks, sharedVars>>

(* qem_smi_client_flush() is entered; with an empty local buffer it returns
   at once and changes nothing.                                             *)
Flush ==
    /\ srv_pc = "idle"
    /\ srv_pc' = IF srv_index = 0 THEN "idle" ELSE "lock"
    /\ srv_call' = IF srv_index = 0 THEN "none" ELSE "flush"
    /\ UNCHANGED <<srv_rest, srv_local, srv_index, srv_next, srv_blocks, sharedVars>>

-----------------------------------------------------------------------------
(* Publishing a block, common to send and flush.                            *)

ServerLock ==
    /\ srv_pc = "lock"
    /\ Lock("server")
    /\ srv_pc' = "check"
    /\ UNCHANGED <<srv_call, srv_rest, srv_local, srv_index, srv_next, srv_blocks,
                   block_mask, shared_buffer_data, cond_read, cond_write>>

(* The next block still has its bit set: pthread_cond_wait(cond_write).     *)
ServerWait ==
    /\ srv_pc = "check"
    /\ srv_next \in block_mask
    /\ Unlock("server")
    /\ cond_write' = cond_write \cup {"server"}
    /\ srv_pc' = "wait"
    /\ UNCHANGED <<srv_call, srv_rest, srv_local, srv_index, srv_next, srv_blocks,
                   block_mask, shared_buffer_data, cond_read>>

(* Mutant: `if` instead of `while` around the wait; the mask is not tested
   again.                                                                   *)
ServerWakeUnchecked ==
    /\ srv_pc = "wait"
    /\ "server" \notin cond_write
    /\ mon_lock = "none"
    /\ srv_pc' = "copy"
    /\ UNCHANGED <<srv_call, srv_rest, srv_local, srv_index, srv_next, srv_blocks, sharedVars>>

(* Signalled, and the mutex is free again: the mask is read once more.      *)
ServerWake ==
    /\ srv_pc = "wait"
    /\ "server" \notin cond_write
    /\ Lock("server")
    /\ srv_pc' = "check"
    /\ UNCHANGED <<srv_call, srv_rest, srv_local, srv_index, srv_next, srv_blocks,
                   block_mask, shared_buffer_data, cond_read, cond_write>>

(* POSIX lets pthread_cond_wait return without a signal.                    *)
ServerSpurious ==
    /\ "server" \in cond_write
    /\ cond_write' = cond_write \ {"server"}
    /\ UNCHANGED <<srvVars, block_mask, shared_buffer_data, mon_lock, cond_read>>

ServerFree ==
    /\ srv_pc = "check"
    /\ srv_next \notin block_mask
    /\ Unlock("server")
    /\ srv_pc' = "copy"
    /\ UNCHANGED <<srv_call, srv_rest, srv_local, srv_index, srv_next, srv_blocks,
                   block_mask, shared_buffer_data, cond_read, cond_write>>

(* What the block is to contain: send copies the whole (full) local buffer,
   flush clears the block and copies the cells below the index.            *)
Image ==
    [i \in Offsets |-> IF srv_call = "flush" /\ i >= srv_index THEN Zero ELSE srv_local[i]]

(* Mutant: flush copies the whole local buffer, stale cells included.       *)
ServerCopyStale ==
    /\ srv_pc = "copy"
    /\ shared_buffer_data' = [shared_buffer_data EXCEPT ![srv_next] = srv_local]
    /\ srv_pc' = "relock"
    /\ UNCHANGED <<srv_call, srv_rest, srv_local, srv_index, srv_next, srv_blocks,
                   block_mask, mon_lock, cond_read, cond_write>>

(* The copy into shared memory, outside the mutex.                          *)
ServerCopy ==
    /\ srv_pc = "copy"
    /\ shared_buffer_data' = [shared_buffer_data EXCEPT ![srv_next] = Image]
    /\ srv_pc' = "relock"
    /\ UNCHANGED <<srv_call, srv_rest, srv_local, srv_index, srv_next, srv_blocks,
                   block_mask, mon_lock, cond_read, cond_write>>

(* The mutex again, and the mask is loaded ...                              *)
ServerLoad ==
    /\ srv_pc = "relock"
    /\ Lock("server")
    /\ srv_blocks' = block_mask
    /\ srv_pc' = "publish"
    /\ UNCHANGED <<srv_call, srv_rest, srv_local, srv_index, srv_next,
                   block_mask, shared_buffer_data, cond_read, cond_write>>

(* ... and stored with the bit set; then the cursor moves on, the receiver is
   signalled and the mutex is released.  send goes back to its loop, flush
   resets the index and returns.                                            *)
ServerPublish ==
    /\ srv_pc = "publish"
    /\ block_mask' = srv_blocks \cup {srv_next}
    /\ srv_blocks' = {}
    /\ srv_next' = NextBlock(srv_next)
    /\ Signal(cond_read)
    /\ Unlock("server")
    /\ \/ srv_call = "send"  /\ srv_pc' = "send" /\ UNCHANGED <<srv_call, srv_index>>
       \/ srv_call = "flush" /\ srv_pc' = "idle" /\ srv_call' = "none" /\ srv_index' = 0
    /\ UNCHANGED <<srv_rest, srv_local, shared_buffer_data, cond_write>>

-----------------------------------------------------------------------------
(* A step of the sending thread inside a call.                              *)
EngineStep ==
    \/ SendFill \/ SendReturn
    \/ ServerLock \/ ServerWait \/ ServerWake \/ ServerFree
    \/ ServerCopy \/ ServerLoad \/ ServerPublish
=============================================================================
