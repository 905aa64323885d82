----------------------------- MODULE SmiChannel -----------------------------
(***************************************************************************)
(* The two ends of a connected SMI over their shared memory, driven by the *)
(* most general callers: the sending thread sends any message or flushes,  *)
(* the receiving thread reads any size or drops the rest of its block,     *)
(* whenever its previous call has returned.                                *)
(***************************************************************************)
EXTENDS SmiEngine, SmiClient

CONSTANTS
    Messages,    \* the messages a caller of qem_smi_client_send may pass
    ReadSizes    \* the sizes a caller of qem_smi_receive may ask for

ASSUME MessagesAssumption  == Messages \subseteq Seq(Cell)
ASSUME ReadSizesAssumption == ReadSizes \subseteq Nat

vars == <<sharedVars, srvVars, cliVars>>

Init == InitShared /\ InitEngine /\ InitClient

ServerCall == Flush \/ \E m \in Messages : Send(m)

ClientCall == PostServerFlush \/ \E n \in ReadSizes : Receive(n)

ServerNext == (ServerCall \/ EngineStep \/ ServerSpurious) /\ UNCHANGED cliVars

ClientNext == (ClientCall \/ ClientStep \/ ClientSpurious) /\ UNCHANGED srvVars

Next == ServerNext \/ ClientNext

Spec == Init /\ [][Next]_vars

(* The scheduler runs both threads, and the receiving program keeps calling
   qem_smi_receive.  The mutex is not assumed to be fair, so wakeups without
   a signal are assumed to stop at some point: a sleeper that wakes up for
   nothing again and again could hold off the other end for ever.           *)
Fairness ==
    /\ WF_vars(EngineStep /\ UNCHANGED cliVars)
    /\ WF_vars(ClientStep /\ UNCHANGED srvVars)
    /\ WF_vars((\E n \in ReadSizes : Receive(n)) /\ UNCHANGED srvVars)
    /\ <>[][~(ServerSpurious \/ ClientSpurious)]_vars

LiveSpec == Spec /\ Fairness

-----------------------------------------------------------------------------
SrvPCs == {"idle", "send", "lock", "check", "wait", "copy", "relock", "publish"}
CliPCs == {"idle", "receive", "lock", "check", "wait", "copy", "relock", "release"}

(* The types; in particular the indices of send and receive stay within a
   block and the cursors within the ring.                                   *)
TypeOK ==
    /\ block_mask \subseteq Blocks
    /\ shared_buffer_data \in [Blocks -> Block]
    /\ mon_lock \in {"none", "server", "client"}
    /\ cond_read \subseteq {"client"}
    /\ cond_write \subseteq {"server"}
    /\ srv_pc \in SrvPCs
    /\ srv_call \in {"none", "send", "flush"}
    /\ srv_rest \in Seq(Cell)
    /\ srv_local \in Block
    /\ srv_index \in 0..BLOCK_SIZE
    /\ srv_next \in Blocks
    /\ srv_blocks \subseteq Blocks
    /\ cli_pc \in CliPCs
    /\ cli_want \in Nat
    /\ cli_got \in Seq(Cell)
    /\ cli_local \in Block
    /\ cli_index \in 0..BLOCK_SIZE
    /\ cli_next \in Blocks
    /\ cli_blocks \subseteq Blocks

(* "This part does not need to be locked as the other end cannot access it":
   the block the sender overwrites outside the mutex is never published, and
   the block the receiver reads outside the mutex always is.  In particular
   the two copies never touch the same block.                              *)
NoBlockRace ==
    /\ srv_pc = "copy" => srv_next \notin block_mask
    /\ cli_pc = "copy" => cli_next \in block_mask

(* No wakeup is lost: an end that sleeps on its condition and was not
   signalled sleeps for a reason that still holds, whatever happened between
   its test of the mask and now.                                           *)
NoLostWakeup ==
    /\ "client" \in cond_read  => cli_next \notin block_mask
    /\ "server" \in cond_write => srv_next \in block_mask

(* The two ends never sleep at the same time.                               *)
NoMutualWait == ~("client" \in cond_read /\ "server" \in cond_write)

-----------------------------------------------------------------------------
(* Why these hold.  The published blocks are the arc of the ring from the
   receiver's cursor c up to, and not including, the sender's cursor s.     *)
Arc(c, s, mask) ==
    \/ c <= s /\ mask = c..(s - 1)
    \/ s <= c /\ mask = Blocks \ (s..(c - 1))

Ring == Arc(cli_next, srv_next, block_mask)

(* Exactly the two critical sections of each end hold the mutex.            *)
Mutex ==
    /\ mon_lock = "server" <=> srv_pc \in {"check", "publish"}
    /\ mon_lock = "client" <=> cli_pc \in {"check", "release"}

(* From its test of the mask to its own update of it, an end keeps the block
   at its cursor: the other end changes other bits only, and never between
   the load and the store of the mask.                                      *)
Claim ==
    /\ srv_pc \in {"copy", "relock", "publish"} => srv_next \notin block_mask
    /\ cli_pc \in {"copy", "relock", "release"} => cli_next \in block_mask
    /\ srv_pc = "publish" => srv_blocks = block_mask
    /\ cli_pc = "release" => cli_blocks = block_mask

Sleepers ==
    /\ "client" \in cond_read  => cli_pc = "wait"
    /\ "server" \in cond_write => srv_pc = "wait"

(* Between the copy and the update of the mask, the copy is up to date.     *)
Copied ==
    /\ srv_pc \in {"relock", "publish"} => shared_buffer_data[srv_next] = Image
    /\ cli_pc \in {"relock", "release"} => cli_local = shared_buffer_data[cli_next]

(* What a call is: between calls the engine has nothing left to send.       *)
Calls ==
    /\ srv_pc = "idle" <=> srv_call = "none"
    /\ srv_pc = "send" => srv_call = "send"

(* The inductive invariant: the mask is an arc between the cursors, and each
   end's claim, copy and reason to sleep survive the steps of the other.    *)
RingInv == Ring /\ Mutex /\ Claim /\ Sleepers /\ Copied /\ Calls /\ NoLostWakeup

-----------------------------------------------------------------------------
(* The ring as a queue: its length, and its blocks in the order the receiver
   will take them.                                                          *)
ArcLength(c, s, mask) ==
    IF s = c THEN IF mask = {} THEN 0 ELSE BLOCK_COUNT
    ELSE IF s > c THEN s - c ELSE BLOCK_COUNT + s - c

Pending == ArcLength(cli_next, srv_next, block_mask)

(* The i-th block after block b, around the ring.                           *)
Around(b, i) == IF b + i < BLOCK_COUNT THEN b + i ELSE b + i - BLOCK_COUNT

Transit == [i \in 1..Pending |-> shared_buffer_data[Around(cli_next, i - 1)]]

BQ == INSTANCE BlockQueue
        WITH Capacity <- BLOCK_COUNT, Payload <- Block,
             staged <- Image, queue <- Transit, fetched <- cli_local

(* The SMI implements a bounded queue of blocks: what the receiver copies is,
   block for block and in order, what the sender staged.                    *)
ImplementsBlockQueue == BQ!QueueSpec

(* Every send and every flush returns, as long as the other program keeps
   receiving.                                                               *)
ServerCallsReturn == srv_pc # "idle" ~> srv_pc = "idle"

(* Every published block is taken.                                          *)
BlocksAreTaken == \A b \in Blocks : b \in block_mask ~> b \notin block_mask
=============================================================================
