---------------------------- MODULE SmiHandshake ----------------------------
(***************************************************************************)
(* How the two ends of the SMI find each other: qem_smi_client_init,       *)
(* _connect and _disconnect of the sender (QEMTrace/qem_trace_smi_engine.c, *)
(* called "server" there and here) and qem_smi_connect and _disconnect of  *)
(* the receiver (SMILib/src/qem_posix_smi.c).                              *)
(*                                                                         *)
(* They meet over six names of the host: the shared region, two semaphores *)
(* and the monitor's mutex and conditions.  A name survives the process    *)
(* that made it; what a process has opened survives the name.  An object   *)
(* is identified by its name and by the number of the server run, its      *)
(* generation, that created it.  A process executes its calls one by one,  *)
(* so the calls still to make are its program counter.                     *)
(***************************************************************************)
EXTENDS Naturals, Sequences

CONSTANTS
    MaxServers,         \* bound: the runs of QEMU, one after the other
    MaxClients,         \* bound: the runs of the client program
    ServerAttempts,     \* max_attempt of qem_smi_client_connect
    ClientAttempts,     \* max_attempt of qem_smi_connect
    Faults,             \* what may go wrong: a subset of FaultKinds
    ClientStartsAfter   \* when the client may call connect, see MayConnect

FaultKinds == {"fail", "timeout", "quit", "crash"}

ASSUME BoundsAssumption ==
    /\ MaxServers \in Nat
    /\ MaxClients \in Nat
    /\ ServerAttempts \in Nat \ {0}
    /\ ClientAttempts \in Nat \ {0}
ASSUME FaultsAssumption == Faults \subseteq FaultKinds
ASSUME StartAssumption ==
    ClientStartsAfter \in {"anytime", "init_called", "init_returned"}

Sems  == {"SEM_SERVER", "SEM_CLIENT"}
Names == Sems \cup {"SHM", "MUTEX", "COND_READ", "COND_WRITE"}

(* The parts of a generation that have to be given a content: the block
   count and size of the region, the mutex and the conditions, the magic.   *)
Parts == (Names \ Sems) \cup {"MAGIC"}

Generations == 1..MaxServers

VARIABLES
    names,        \* the generation each name refers to, 0 when it is free
    sem_value,    \* the value of the semaphores of each generation
    written,      \* the parts of each generation that have their content
    srv_state,    \* the state of the current run of the server
    srv_gen,      \* its number
    srv_calls,    \* the calls it still has to make
    srv_open,     \* the names it opened
    srv_attempt,  \* the timeouts of its wait
    cli_state,    \* the state of the current run of the client
    cli_runs,     \* its number
    cli_calls,    \* the calls it still has to make
    cli_open,     \* the generation it opened under each name, 0 for none
    cli_attempt,  \* its failed attempts to open the semaphore it is at
    cli_meta      \* it read the block count and size after they were written

hostVars == <<names, sem_value, written>>
srvVars  == <<srv_state, srv_gen, srv_calls, srv_open, srv_attempt>>
cliVars  == <<cli_state, cli_runs, cli_calls, cli_open, cli_attempt, cli_meta>>
vars     == <<hostVars, srvVars, cliVars>>

Nothing == [n \in Names |-> 0]

Init ==
    /\ names = Nothing
    /\ sem_value = [g \in Generations |-> [n \in Sems |-> 0]]
    /\ written = [g \in Generations |-> {}]
    /\ srv_state = "off" /\ srv_gen = 0 /\ srv_calls = <<>> /\ srv_open = {} /\ srv_attempt = 0
    /\ cli_state = "off" /\ cli_runs = 0 /\ cli_calls = <<>> /\ cli_open = Nothing
    /\ cli_attempt = 0 /\ cli_meta = FALSE

-----------------------------------------------------------------------------
(* A call is an operation and the name or part it is about.                 *)
Calls == {"unlink", "create", "write", "post", "open", "wait", "check"}
            \X (Names \cup {"MAGIC"})

Each(op, things) == [i \in 1..Len(things) |-> <<op, things[i]>>]

Monitor == <<"MUTEX", "COND_READ", "COND_WRITE">>

(* qem_smi_client_init: old names are removed; mmap_buffer makes the region
   and writes its metadata; create_sync makes the semaphores (exclusively)
   and the monitor, and initialises the latter.                             *)
InitCalls ==
    Each("unlink", Monitor \o <<"SEM_CLIENT", "SEM_SERVER", "SHM">>)
      \o << <<"create", "SHM">>, <<"write", "SHM">> >>
      \o Each("create", <<"SEM_SERVER", "SEM_CLIENT">> \o Monitor)
      \o Each("write", Monitor)

(* Mutant: the client is never told.                                        *)
ConnectCallsUnposted == << <<"write", "MAGIC">> >>

(* qem_smi_client_connect up to its wait.                                   *)
ConnectCalls == << <<"write", "MAGIC">>, <<"post", "SEM_CLIENT">> >>

(* What is open is closed and its name is removed.                          *)
CloseCall(open, n) == IF n \in open THEN << <<"unlink", n>> >> ELSE <<>>

(* Mutant: the semaphores stay behind.                                      *)
CloseCallsForgetful(open) ==
    CloseCall(open, "SHM") \o CloseCall(open, "MUTEX")
      \o CloseCall(open, "COND_READ") \o CloseCall(open, "COND_WRITE")

(* The disconnect of either end; a name is removed whatever object it refers
   to by then.                                                              *)
CloseCalls(open) ==
    CloseCall(open, "SHM") \o CloseCall(open, "SEM_SERVER") \o CloseCall(open, "SEM_CLIENT")
      \o CloseCall(open, "MUTEX") \o CloseCall(open, "COND_READ") \o CloseCall(open, "COND_WRITE")

(* Mutant: the region is opened before the semaphores.                      *)
ClientCallsEager ==
    << <<"open", "SHM">>, <<"open", "SEM_SERVER">>, <<"open", "SEM_CLIENT">>, <<"wait", "SEM_CLIENT">> >>
      \o Each("open", Monitor) \o << <<"check", "MAGIC">>, <<"post", "SEM_SERVER">> >>

(* qem_smi_connect.                                                         *)
ClientCalls ==
    << <<"open", "SEM_SERVER">>, <<"open", "SEM_CLIENT">>, <<"wait", "SEM_CLIENT">>, <<"open", "SHM">> >>
      \o Each("open", Monitor) \o << <<"check", "MAGIC">>, <<"post", "SEM_SERVER">> >>

-----------------------------------------------------------------------------
(* The server.  QEMU calls init and connect back to back and exits when one
   of them fails.                                                           *)

ServerRuns == srv_state \in {"init", "connect", "waiting", "connected", "closing"}

ServerStart ==
    /\ ~ServerRuns
    /\ srv_gen < MaxServers
    /\ srv_state' = "init"
    /\ srv_gen' = srv_gen + 1
    /\ srv_calls' = InitCalls
    /\ srv_open' = {}
    /\ srv_attempt' = 0
    /\ UNCHANGED <<hostVars, cliVars>>

(* After its last call the server goes on to the next phase.                *)
ServerPhase ==
    /\ srv_calls = <<>>
    /\ \/ srv_state = "init" /\ srv_state' = "connect" /\ srv_calls' = ConnectCalls
       \/ srv_state = "connect" /\ srv_state' = "waiting" /\ UNCHANGED srv_calls
       \/ srv_state = "closing" /\ srv_state' = "failed" /\ UNCHANGED srv_calls
    /\ UNCHANGED <<hostVars, srv_gen, srv_open, srv_attempt, cliVars>>

(* The next call of the server is `op`, about n; it is made.                *)
ServerMakes(op, n) ==
    /\ srv_calls # <<>>
    /\ Head(srv_calls) = <<op, n>>
    /\ srv_calls' = Tail(srv_calls)

ServerUnlink(n) ==
    /\ ServerMakes("unlink", n)
    /\ names' = [names EXCEPT ![n] = 0]
    /\ srv_open' = srv_open \ {n}
    /\ UNCHANGED <<sem_value, written, srv_state, srv_gen, srv_attempt, cliVars>>

ServerCreate(n) ==
    /\ ServerMakes("create", n)
    /\ n \in Sems => names[n] = 0
    /\ names' = [names EXCEPT ![n] = srv_gen]
    /\ srv_open' = srv_open \cup {n}
    /\ UNCHANGED <<sem_value, written, srv_state, srv_gen, srv_attempt, cliVars>>

ServerWrite(p) ==
    /\ ServerMakes("write", p)
    /\ written' = [written EXCEPT ![srv_gen] = @ \cup {p}]
    /\ UNCHANGED <<names, sem_value, srv_state, srv_gen, srv_open, srv_attempt, cliVars>>

ServerPost ==
    /\ ServerMakes("post", "SEM_CLIENT")
    /\ sem_value' = [sem_value EXCEPT ![srv_gen]["SEM_CLIENT"] = @ + 1]
    /\ UNCHANGED <<names, written, srv_state, srv_gen, srv_open, srv_attempt, cliVars>>

(* A call of qem_smi_client_init fails: disconnect.                         *)
ServerFails ==
    /\ "fail" \in Faults
    /\ srv_state = "init"
    /\ srv_calls # <<>>
    /\ Head(srv_calls)[1] # "unlink"
    /\ srv_state' = "closing"
    /\ srv_calls' = CloseCalls(srv_open)
    /\ UNCHANGED <<hostVars, srv_gen, srv_open, srv_attempt, cliVars>>

(* sem_timedwait gets the semaphore ...                                     *)
ServerGets ==
    /\ srv_state = "waiting"
    /\ sem_value[srv_gen]["SEM_SERVER"] > 0
    /\ sem_value' = [sem_value EXCEPT ![srv_gen]["SEM_SERVER"] = @ - 1]
    /\ srv_state' = "connected"
    /\ UNCHANGED <<names, written, srv_gen, srv_calls, srv_open, srv_attempt, cliVars>>

(* Mutants: the attempts are not counted; they are not limited.             *)
ServerTimeoutUncounted == srv_state = "waiting" /\ UNCHANGED vars
ServerTimeoutUnlimited ==
    /\ srv_state = "waiting"
    /\ srv_attempt' = srv_attempt + 1
    /\ UNCHANGED <<hostVars, srv_state, srv_calls, srv_gen, srv_open, cliVars>>

(* ... or times out; the last time the server gives up and disconnects.     *)
ServerTimeout ==
    /\ "timeout" \in Faults
    /\ srv_state = "waiting"
    /\ sem_value[srv_gen]["SEM_SERVER"] = 0
    /\ srv_attempt' = srv_attempt + 1
    /\ \/ srv_attempt' < ServerAttempts /\ UNCHANGED <<srv_state, srv_calls>>
       \/ /\ srv_attempt' = ServerAttempts
          /\ srv_state' = "closing"
          /\ srv_calls' = CloseCalls(srv_open)
    /\ UNCHANGED <<hostVars, srv_gen, srv_open, cliVars>>

(* QEMU is killed, or ends: nothing in it disconnects.                      *)
ServerCrash ==
    /\ "crash" \in Faults
    /\ ServerRuns
    /\ srv_state' = "crashed"
    /\ srv_calls' = <<>>
    /\ srv_open' = {}
    /\ UNCHANGED <<hostVars, srv_gen, srv_attempt, cliVars>>

ServerStep ==
    \/ ServerPhase \/ ServerPost \/ ServerGets \/ ServerTimeout
    \/ \E n \in Names : ServerUnlink(n) \/ ServerCreate(n)
    \/ \E p \in Parts : ServerWrite(p)

-----------------------------------------------------------------------------
(* The client.                                                              *)

(* When the client's program calls qem_smi_connect: at any time, once the
   server has called its init, or once that has returned.                   *)
MayConnect ==
    \/ ClientStartsAfter = "anytime"
    \/ ClientStartsAfter = "init_called" /\ srv_state \in {"init", "connect", "waiting", "connected"}
    \/ ClientStartsAfter = "init_returned" /\ srv_state \in {"connect", "waiting", "connected"}

ClientRuns == cli_state \in {"connecting", "connected", "closing"}

ClientStart ==
    /\ ~ClientRuns
    /\ cli_runs < MaxClients
    /\ MayConnect
    /\ cli_runs' = cli_runs + 1
    /\ cli_state' = "connecting"
    /\ cli_calls' = ClientCalls
    /\ cli_open' = Nothing
    /\ cli_attempt' = 0
    /\ cli_meta' = FALSE
    /\ UNCHANGED <<hostVars, srvVars>>

ClientMakes(op, n) ==
    /\ cli_calls # <<>>
    /\ Head(cli_calls) = <<op, n>>
    /\ cli_calls' = Tail(cli_calls)

(* sem_open or shm_open finds the name.  With the region, the block count and
   size are read.                                                           *)
ClientOpen(n) ==
    /\ ClientMakes("open", n)
    /\ names[n] # 0
    /\ cli_open' = [cli_open EXCEPT ![n] = names[n]]
    /\ cli_meta' = IF n = "SHM" THEN "SHM" \in written[names[n]] ELSE cli_meta
    /\ cli_attempt' = 0
    /\ UNCHANGED <<hostVars, srvVars, cli_state, cli_runs>>

ClientDisconnect ==
    /\ cli_state' = "closing"
    /\ cli_calls' = CloseCalls({n \in Names : cli_open[n] # 0})
    /\ UNCHANGED <<hostVars, srvVars, cli_runs, cli_open, cli_meta>>

(* A semaphore's name is not there: another attempt, or the time is up.     *)
ClientRetry(n) ==
    /\ n \in Sems
    /\ cli_calls # <<>>
    /\ Head(cli_calls) = <<"open", n>>
    /\ names[n] = 0
    /\ cli_attempt' = cli_attempt + 1
    /\ \/ /\ cli_attempt' < ClientAttempts
          /\ UNCHANGED <<hostVars, srvVars, cli_state, cli_runs, cli_calls, cli_open, cli_meta>>
       \/ cli_attempt' = ClientAttempts /\ ClientDisconnect

(* Another name is not there, or the region does not hold the magic.        *)
ClientRefuses ==
    /\ cli_calls # <<>>
    /\ \/ \E n \in Names \ Sems : Head(cli_calls) = <<"open", n>> /\ names[n] = 0
       \/ Head(cli_calls) = <<"check", "MAGIC">> /\ "MAGIC" \notin written[cli_open["SHM"]]
    /\ ClientDisconnect
    /\ UNCHANGED cli_attempt

(* The host has no memory for a mapping or for the local buffer.            *)
ClientFails ==
    /\ "fail" \in Faults
    /\ cli_calls # <<>>
    /\ Head(cli_calls) \in {<<"open", n>> : n \in Names \ Sems} \cup {<<"check", "MAGIC">>}
    /\ ClientDisconnect
    /\ UNCHANGED cli_attempt

(* The program of a connected client calls qem_smi_disconnect.              *)
ClientQuits ==
    /\ "quit" \in Faults
    /\ cli_state = "connected"
    /\ ClientDisconnect
    /\ UNCHANGED cli_attempt

(* sem_wait(client_sem): no timeout.                                        *)
ClientGets ==
    LET g == cli_open["SEM_CLIENT"] IN
    /\ ClientMakes("wait", "SEM_CLIENT")
    /\ sem_value[g]["SEM_CLIENT"] > 0
    /\ sem_value' = [sem_value EXCEPT ![g]["SEM_CLIENT"] = @ - 1]
    /\ UNCHANGED <<names, written, srvVars, cli_state, cli_runs, cli_open, cli_attempt, cli_meta>>

ClientCheck ==
    /\ ClientMakes("check", "MAGIC")
    /\ "MAGIC" \in written[cli_open["SHM"]]
    /\ UNCHANGED <<hostVars, srvVars, cli_state, cli_runs, cli_open, cli_attempt, cli_meta>>

(* sem_post(server_sem): the client is connected.                           *)
ClientPost ==
    LET g == cli_open["SEM_SERVER"] IN
    /\ ClientMakes("post", "SEM_SERVER")
    /\ sem_value' = [sem_value EXCEPT ![g]["SEM_SERVER"] = @ + 1]
    /\ cli_state' = "connected"
    /\ UNCHANGED <<names, written, srvVars, cli_runs, cli_open, cli_attempt, cli_meta>>

ClientUnlink(n) ==
    /\ ClientMakes("unlink", n)
    /\ names' = [names EXCEPT ![n] = 0]
    /\ cli_open' = [cli_open EXCEPT ![n] = 0]
    /\ UNCHANGED <<sem_value, written, srvVars, cli_state, cli_runs, cli_attempt, cli_meta>>

ClientClosed ==
    /\ cli_state = "closing"
    /\ cli_calls = <<>>
    /\ cli_state' = "failed"
    /\ UNCHANGED <<hostVars, srvVars, cli_runs, cli_calls, cli_open, cli_attempt, cli_meta>>

(* The client program is killed, or ends: the one of the tests never
   disconnects.                                                             *)
ClientCrash ==
    /\ "crash" \in Faults
    /\ ClientRuns
    /\ cli_state' = "crashed"
    /\ cli_calls' = <<>>
    /\ cli_open' = Nothing
    /\ UNCHANGED <<hostVars, srvVars, cli_runs, cli_attempt, cli_meta>>

ClientStep ==
    \/ ClientRefuses \/ ClientGets \/ ClientCheck \/ ClientPost \/ ClientClosed
    \/ \E n \in Names : ClientOpen(n) \/ ClientRetry(n) \/ ClientUnlink(n)

-----------------------------------------------------------------------------
Next ==
    \/ ServerStart \/ ServerStep \/ ServerFails \/ ServerCrash
    \/ ClientStart \/ ClientStep \/ ClientFails \/ ClientQuits \/ ClientCrash

Spec == Init /\ [][Next]_vars

(* The host runs both programs while they live.                             *)
LiveSpec == Spec /\ WF_vars(ServerStep) /\ WF_vars(ClientStep)

-----------------------------------------------------------------------------
(* The types; in particular the waits stay within their attempts.           *)
TypeOK ==
    /\ names \in [Names -> 0..MaxServers]
    /\ sem_value \in [Generations -> [Sems -> Nat]]
    /\ written \in [Generations -> SUBSET Parts]
    /\ srv_state \in {"off", "init", "connect", "waiting", "connected", "closing", "failed", "crashed"}
    /\ srv_gen \in 0..MaxServers
    /\ srv_calls \in Seq(Calls)
    /\ srv_open \subseteq Names
    /\ srv_attempt \in 0..ServerAttempts
    /\ cli_state \in {"off", "connecting", "connected", "closing", "failed", "crashed"}
    /\ cli_runs \in 0..MaxClients
    /\ cli_calls \in Seq(Calls)
    /\ cli_open \in [Names -> 0..MaxServers]
    /\ cli_attempt \in 0..ClientAttempts
    /\ cli_meta \in BOOLEAN

(* A client that is about to answer the current server, or has answered it,
   is attached to that server's region, semaphores and monitor and to no
   leftover of an earlier run, and found all of them initialised, however
   the processes failed, timed out, crashed and restarted before.  This is
   what the model of the connected SMI starts from.                         *)
AnswerIsRight ==
    (/\ cli_calls = << <<"post", "SEM_SERVER">> >> \/ cli_state = "connected"
     /\ cli_open["SEM_SERVER"] = srv_gen) =>
        /\ \A n \in Names : cli_open[n] = srv_gen
        /\ written[srv_gen] = Parts
        /\ cli_meta

(* A server that failed leaves none of its names behind.                    *)
FailedServerLeavesNoNames ==
    srv_state = "failed" => \A n \in Names : names[n] # srv_gen

(* Why the answer is right: an invariant that every step keeps.             *)

(* The calls of a list that were made when `rest` is left of it.            *)
IsRest(rest, calls) ==
    /\ Len(rest) <= Len(calls)
    /\ \A i \in 1..Len(rest) : rest[i] = calls[Len(calls) - Len(rest) + i]
Made(rest, calls) == {calls[i] : i \in 1..(Len(calls) - Len(rest))}

(* The calls of the server's current phase and what those made have done.   *)
ServerInv ==
    /\ srv_state = "off" <=> srv_gen = 0
    /\ srv_state \notin {"init", "connect", "closing"} => srv_calls = <<>>
    /\ srv_state = "init" =>
          /\ IsRest(srv_calls, InitCalls)
          /\ \A n \in Names : <<"unlink", n>> \in Made(srv_calls, InitCalls) => names[n] \in {0, srv_gen}
          /\ \A p \in Parts : <<"write", p>> \in Made(srv_calls, InitCalls) => p \in written[srv_gen]
    /\ srv_state = "connect" =>
          /\ IsRest(srv_calls, ConnectCalls)
          /\ Parts \ {"MAGIC"} \subseteq written[srv_gen]
          /\ <<"write", "MAGIC">> \in Made(srv_calls, ConnectCalls) => "MAGIC" \in written[srv_gen]
    /\ srv_state = "closing" =>
          /\ \A i \in DOMAIN srv_calls : srv_calls[i][1] = "unlink"
          /\ \A n \in srv_open : \E i \in DOMAIN srv_calls : srv_calls[i] = <<"unlink", n>>
    /\ srv_state = "failed" => srv_open = {}

(* Names and what was opened under them are of no later generation than the
   server's; its own names it has open while it lives.  From the moment that
   its first semaphore can be found, no name of an earlier generation is left;
   a client's semaphore is posted when everything is written.               *)
HostInv ==
    /\ \A n \in Names : names[n] <= srv_gen /\ cli_open[n] <= srv_gen
    /\ (ServerRuns \/ srv_state = "failed") => \A n \in Names : names[n] = srv_gen => n \in srv_open
    /\ srv_gen \in {names["SEM_SERVER"], cli_open["SEM_SERVER"]} =>
          \A n \in Names : names[n] \in {0, srv_gen}
    /\ \A g \in Generations : sem_value[g]["SEM_CLIENT"] > 0 => written[g] = Parts

(* What a client that connects, or is connected, has made of its calls: it has
   open what it opened and nothing else, and when that began with the current
   server's semaphore, all of it is the current server's.                   *)
ClientInv ==
    /\ cli_state \in {"off", "failed", "crashed"} => cli_calls = <<>>
    /\ cli_state = "closing" => \A i \in DOMAIN cli_calls : cli_calls[i][1] = "unlink"
    /\ cli_state \in {"connecting", "connected"} =>
          LET made == Made(cli_calls, ClientCalls) IN
          /\ IsRest(cli_calls, ClientCalls)
          /\ cli_state = "connected" <=> cli_calls = <<>>
          /\ \A n \in Names : <<"open", n>> \in made <=> cli_open[n] # 0
          /\ (cli_open["SEM_SERVER"] = srv_gen /\ srv_gen # 0) =>
                /\ \A n \in Names : cli_open[n] \in {0, srv_gen}
                /\ <<"wait", "SEM_CLIENT">> \in made => written[srv_gen] = Parts
                /\ <<"open", "SHM">> \in made => cli_meta

(* Both ends and the host between them.                                     *)
HandshakeInv == ServerInv /\ HostInv /\ ClientInv

(* The server's wait for the client ends.                                   *)
ServerStopsWaiting == srv_state = "waiting" ~> srv_state # "waiting"

(* qem_smi_connect returns: "max_attempt The maximal number of time a timeout
   can occur before stoping the connection process".                        *)
ConnectReturns == cli_state = "connecting" ~> cli_state # "connecting"

(* When nothing goes wrong, a client that finds the server's semaphores ends
   up connected, and so does the server.                                    *)
HandshakeCompletes ==
    (cli_state = "connecting" /\ \A n \in Sems : names[n] # 0)
        ~> (cli_state = "connected" /\ srv_state = "connected")
=============================================================================
