------------------------- MODULE SmiHandshakeProofs -------------------------
(***************************************************************************)
(* Proofs about the handshake, for every number of server and client runs, *)
(* every bound on the attempts and every set of faults.                    *)
(*                                                                         *)
(* The argument: a server removes all old names before it creates one, and *)
(* its semaphore is the first thing a client opens.  So a client that got  *)
(* the current server's semaphore can only find this server's objects      *)
(* under the other names, and when its wait ends the server has written    *)
(* everything.  Nobody but a server creates names, which is why crashes    *)
(* and clients that remove a younger server's names do not break this.     *)
(***************************************************************************)
EXTENDS SmiHandshake, SequenceTheorems, TLAPS

-----------------------------------------------------------------------------
(* The lists of calls.                                                      *)

(* The calls of qem_smi_connect, one by one.                                *)
LEMMA ClientList ==
    /\ ClientCalls \in Seq(Calls)
    /\ Len(ClientCalls) = 9
    /\ ClientCalls[1] = <<"open", "SEM_SERVER">>
    /\ ClientCalls[2] = <<"open", "SEM_CLIENT">>
    /\ ClientCalls[3] = <<"wait", "SEM_CLIENT">>
    /\ ClientCalls[4] = <<"open", "SHM">>
    /\ ClientCalls[5] = <<"open", "MUTEX">>
    /\ ClientCalls[6] = <<"open", "COND_READ">>
    /\ ClientCalls[7] = <<"open", "COND_WRITE">>
    /\ ClientCalls[8] = <<"check", "MAGIC">>
    /\ ClientCalls[9] = <<"post", "SEM_SERVER">>
BY SMT DEF ClientCalls, Each, Monitor, Calls, Names, Sems

(* The calls of qem_smi_client_connect up to its wait.                      *)
LEMMA ConnectList ==
    /\ ConnectCalls \in Seq(Calls)
    /\ Len(ConnectCalls) = 2
    /\ ConnectCalls[1] = <<"write", "MAGIC">>
    /\ ConnectCalls[2] = <<"post", "SEM_CLIENT">>
BY SMT DEF ConnectCalls, Calls, Names, Sems

(* Making the next call of a list.                                          *)
LEMMA RestStarts == ASSUME NEW s \in Seq(Calls), NEW t \in Seq(Calls), s # <<>>, IsRest(s, t)
    PROVE /\ Head(s) = t[Len(t) - Len(s) + 1] 
          /\ Len(t) - Len(s) + 1 \in 1..Len(t)
          /\ Tail(s) \in Seq(Calls) /\ Len(Tail(s)) = Len(s) - 1
          /\ IsRest(Tail(s), t)
          /\ Made(Tail(s), t) = Made(s, t) \cup {Head(s)}
<1>1. Head(s) = s[1] /\ Len(s) \in Nat /\ Len(s) > 0 /\ Len(t) \in Nat
  BY HeadTailProperties, EmptySeq
<1>2. Tail(s) \in Seq(Calls) /\ Len(Tail(s)) = Len(s) - 1
      /\ \A i \in 1..(Len(s) - 1) : Tail(s)[i] = s[i+1]
  BY HeadTailProperties
<1>3. Head(s) = t[Len(t) - Len(s) + 1]  BY <1>1 DEF IsRest
<1>4. IsRest(Tail(s), t) BY <1>1, <1>2 DEF IsRest
<1>5. Len(t) - Len(Tail(s)) = Len(t) - Len(s) + 1 BY <1>1, <1>2
<1>6. Made(Tail(s), t) = Made(s, t) \cup {Head(s)}
  BY <1>1, <1>3, <1>5 DEF Made, IsRest
<1> QED BY <1>1, <1>2, <1>3, <1>4, <1>6 DEF IsRest

(* The calls of qem_smi_client_init, one by one.                            *)
LEMMA InitList ==
    /\ InitCalls \in Seq(Calls)
    /\ Len(InitCalls) = 16
    /\ InitCalls[1] = <<"unlink", "MUTEX">>
    /\ InitCalls[2] = <<"unlink", "COND_READ">>
    /\ InitCalls[3] = <<"unlink", "COND_WRITE">>
    /\ InitCalls[4] = <<"unlink", "SEM_CLIENT">>
    /\ InitCalls[5] = <<"unlink", "SEM_SERVER">>
    /\ InitCalls[6] = <<"unlink", "SHM">>
    /\ InitCalls[7] = <<"create", "SHM">>
    /\ InitCalls[8] = <<"write", "SHM">>
    /\ InitCalls[9] = <<"create", "SEM_SERVER">>
    /\ InitCalls[10] = <<"create", "SEM_CLIENT">>
    /\ InitCalls[11] = <<"create", "MUTEX">>
    /\ InitCalls[12] = <<"create", "COND_READ">>
    /\ InitCalls[13] = <<"create", "COND_WRITE">>
    /\ InitCalls[14] = <<"write", "MUTEX">>
    /\ InitCalls[15] = <<"write", "COND_READ">>
    /\ InitCalls[16] = <<"write", "COND_WRITE">>
BY SMT DEF InitCalls, Each, Monitor, Calls, Names, Sems

(* At the start of a list no call was made ...                              *)
LEMMA NoneMade ==
    ASSUME NEW t \in Seq(Calls)
    PROVE  IsRest(t, t) /\ Made(t, t) = {}
BY DEF IsRest, Made

(* ... and at its end all of them.                                          *)
LEMMA AllMade ==
    ASSUME NEW t \in Seq(Calls)
    PROVE  Made(<<>>, t) = {t[i] : i \in 1..Len(t)}
<1>1. Len(t) - Len(<<>>) = Len(t)
  OBVIOUS
<1> QED BY <1>1 DEF Made

(* The next call is at some place of the list; the made ones are those before. *)
LEMMA AtCall ==
    ASSUME NEW s \in Seq(Calls), NEW t \in Seq(Calls), s # <<>>, IsRest(s, t)
    PROVE  \E k \in 1..Len(t) : Head(s) = t[k] /\ Made(s, t) = {t[i] : i \in 1..(k - 1)}
                                     /\ Len(Tail(s)) = Len(t) - k
<1> DEFINE k == Len(t) - Len(s) + 1
<1>1. k \in 1..Len(t) /\ Head(s) = t[k]
  BY RestStarts
<1>2. Len(t) - Len(s) = k - 1
  OBVIOUS
<1>3. Made(s, t) = {t[i] : i \in 1..(k - 1)}
  BY <1>2 DEF Made
<1>4. Len(Tail(s)) = Len(t) - k
  BY RestStarts
<1> HIDE DEF k
<1> QED BY <1>1, <1>3, <1>4

(* qem_smi_client_init removes every old name before it creates one.        *)
LEMMA InitAtCreate ==
    ASSUME NEW s \in Seq(Calls), s # <<>>, IsRest(s, InitCalls),
           NEW m \in Names, Head(s) = <<"create", m>>
    PROVE  \A n \in Names : <<"unlink", n>> \in Made(s, InitCalls)
<1>1. PICK k \in 1..16 : Head(s) = InitCalls[k] /\ Made(s, InitCalls) = {InitCalls[i] : i \in 1..(k - 1)}
  BY AtCall, InitList
<1>2. InitCalls[k][1] = "create"
  BY <1>1
<1>3. k > 6
  BY <1>2, InitList
<1>4. \A i \in 1..6 : InitCalls[i] \in Made(s, InitCalls)
  BY <1>1, <1>3
<1>5. /\ InitCalls[1] \in Made(s, InitCalls) /\ InitCalls[2] \in Made(s, InitCalls)
      /\ InitCalls[3] \in Made(s, InitCalls) /\ InitCalls[4] \in Made(s, InitCalls)
      /\ InitCalls[5] \in Made(s, InitCalls) /\ InitCalls[6] \in Made(s, InitCalls)
  BY <1>4
<1> QED
  BY <1>5, InitList DEF Names, Sems

(* What qem_smi_client_init consists of.                                    *)
LEMMA InitOperations ==
    ASSUME NEW s \in Seq(Calls), s # <<>>, IsRest(s, InitCalls)
    PROVE  Head(s)[1] \in {"unlink", "create", "write"} /\ Head(s)[2] \in Names
<1>1. PICK k \in 1..16 : Head(s) = InitCalls[k]
  BY RestStarts, InitList
<1> QED BY <1>1, InitList, SMTT(30) DEF Names, Sems

(* When qem_smi_client_init has returned, all but the magic is written.     *)
LEMMA InitWrites ==
    \A p \in Parts \ {"MAGIC"} : <<"write", p>> \in Made(<<>>, InitCalls)
<1>1. \A i \in 1..16 : InitCalls[i] \in Made(<<>>, InitCalls)
  BY AllMade, InitList
<1>2. /\ InitCalls[8] \in Made(<<>>, InitCalls) /\ InitCalls[14] \in Made(<<>>, InitCalls)
      /\ InitCalls[15] \in Made(<<>>, InitCalls) /\ InitCalls[16] \in Made(<<>>, InitCalls)
  BY <1>1
<1> QED BY <1>2, InitList DEF Parts, Names, Sems

(* The magic is written before the client is told.                          *)
LEMMA ConnectSteps ==
    ASSUME NEW s \in Seq(Calls), s # <<>>, IsRest(s, ConnectCalls)
    PROVE  \/ Head(s) = <<"write", "MAGIC">>
           \/ Head(s) = <<"post", "SEM_CLIENT">> /\ <<"write", "MAGIC">> \in Made(s, ConnectCalls)
<1>1. PICK k \in 1..2 : Head(s) = ConnectCalls[k] /\ Made(s, ConnectCalls) = {ConnectCalls[i] : i \in 1..(k - 1)}
  BY AtCall, ConnectList
<1>2. CASE k = 1
  BY <1>1, <1>2, ConnectList
<1>3. CASE k = 2
  BY <1>1, <1>3, ConnectList
<1> QED BY <1>1, <1>2, <1>3

(* At the end of its calls the magic is written.                            *)
LEMMA ConnectWrites == <<"write", "MAGIC">> \in Made(<<>>, ConnectCalls)
BY AllMade, ConnectList, SMTT(30)

(* The part of a disconnect that is about one name.                         *)
LEMMA CloseCallOf ==
    ASSUME NEW open \in SUBSET Names, NEW n \in Names
    PROVE  /\ CloseCall(open, n) \in Seq({"unlink"} \X Names)
           /\ n \in open => Len(CloseCall(open, n)) = 1 /\ CloseCall(open, n)[1] = <<"unlink", n>>
BY SMT DEF CloseCall

(* A concatenation has the elements of both sequences.                      *)
LEMMA OneOf ==
    ASSUME NEW S, NEW a \in Seq(S), NEW b \in Seq(S)
    PROVE  /\ a \o b \in Seq(S)
           /\ \A i \in 1..Len(a) : \E j \in 1..Len(a \o b) : (a \o b)[j] = a[i]
           /\ \A i \in 1..Len(b) : \E j \in 1..Len(a \o b) : (a \o b)[j] = b[i]
<1>1. /\ a \o b \in Seq(S)
      /\ Len(a \o b) = Len(a) + Len(b)
      /\ \A i \in 1..Len(a) + Len(b) : (a \o b)[i] = IF i <= Len(a) THEN a[i] ELSE b[i - Len(a)]
  BY ConcatProperties
<1>2. Len(a) \in Nat /\ Len(b) \in Nat
  OBVIOUS
<1>3. ASSUME NEW i \in 1..Len(a)
      PROVE  i \in 1..Len(a \o b) /\ (a \o b)[i] = a[i]
  BY <1>1, <1>2
<1>4. ASSUME NEW i \in 1..Len(b)
      PROVE  Len(a) + i \in 1..Len(a \o b) /\ (a \o b)[Len(a) + i] = b[i]
  BY <1>1, <1>2
<1> QED BY <1>1, <1>3, <1>4

(* A disconnect only removes names, and those of everything open.           *)
LEMMA CloseList ==
    ASSUME NEW open \in SUBSET Names
    PROVE  /\ CloseCalls(open) \in Seq(Calls)
           /\ \A i \in DOMAIN CloseCalls(open) : CloseCalls(open)[i][1] = "unlink"
           /\ \A n \in open : \E i \in DOMAIN CloseCalls(open) : CloseCalls(open)[i] = <<"unlink", n>>
<1> DEFINE U == {"unlink"} \X Names
           Has(s, n) == \E i \in 1..Len(s) : s[i] = <<"unlink", n>>
           C(n) == CloseCall(open, n)
           c1 == C("SHM")
           c2 == c1 \o C("SEM_SERVER")
           c3 == c2 \o C("SEM_CLIENT")
           c4 == c3 \o C("MUTEX")
           c5 == c4 \o C("COND_READ")
           c6 == c5 \o C("COND_WRITE")
<1>1. ASSUME NEW n \in Names
      PROVE  C(n) \in Seq(U) /\ (n \in open => Has(C(n), n))
  BY CloseCallOf
<1>2. ASSUME NEW a \in Seq(U), NEW b \in Seq(U)
      PROVE  a \o b \in Seq(U) /\ \A n \in Names : Has(a, n) \/ Has(b, n) => Has(a \o b, n)
  <2>1. /\ a \o b \in Seq(U)
        /\ \A i \in 1..Len(a) : \E j \in 1..Len(a \o b) : (a \o b)[j] = a[i]
        /\ \A i \in 1..Len(b) : \E j \in 1..Len(a \o b) : (a \o b)[j] = b[i]
    BY OneOf
  <2> QED BY <2>1
<1>3. CloseCalls(open) = c6
  BY DEF CloseCalls
<1> HIDE DEF U, Has, C
<1>4. Names = {"SHM", "SEM_SERVER", "SEM_CLIENT", "MUTEX", "COND_READ", "COND_WRITE"}
  BY DEF Names, Sems
<1>5. /\ c1 \in Seq(U)
      /\ "SHM" \in open => Has(c1, "SHM")
  BY <1>1, <1>4
<1> HIDE DEF c1
<1>6. /\ c2 \in Seq(U)
      /\ \A n \in open \cap {"SHM", "SEM_SERVER"} : Has(c2, n)
  BY <1>1, <1>2, <1>4, <1>5
<1> HIDE DEF c2
<1>7. /\ c3 \in Seq(U)
      /\ \A n \in open \cap {"SHM", "SEM_SERVER", "SEM_CLIENT"} : Has(c3, n)
  BY <1>1, <1>2, <1>4, <1>6
<1> HIDE DEF c3
<1>8. /\ c4 \in Seq(U)
      /\ \A n \in open \cap {"SHM", "SEM_SERVER", "SEM_CLIENT", "MUTEX"} : Has(c4, n)
  BY <1>1, <1>2, <1>4, <1>7
<1> HIDE DEF c4
<1>9. /\ c5 \in Seq(U)
      /\ \A n \in open \cap {"SHM", "SEM_SERVER", "SEM_CLIENT", "MUTEX", "COND_READ"} : Has(c5, n)
  BY <1>1, <1>2, <1>4, <1>8
<1> HIDE DEF c5
<1>10. /\ c6 \in Seq(U)
       /\ \A n \in open : Has(c6, n)
  BY <1>1, <1>2, <1>4, <1>9
<1>11. U \subseteq Calls /\ \A u \in U : u[1] = "unlink"
  BY DEF U, Calls
<1> HIDE DEF c6
<1>12. c6 \in Seq(Calls) /\ \A i \in 1..Len(c6) : c6[i][1] = "unlink"
  BY <1>10, <1>11
<1>13. DOMAIN c6 = 1..Len(c6)
  BY <1>10
<1> QED BY <1>3, <1>10, <1>12, <1>13 DEF Has

(* The order of the calls of qem_smi_connect: the server's semaphore is opened
   first, the region after the wait, and everything is open at the answer. *)
LEMMA ClientSteps ==
    ASSUME NEW s \in Seq(Calls), s # <<>>, IsRest(s, ClientCalls)
    PROVE  /\ Head(s)[1] \in {"open", "wait", "check", "post"}
           /\ Head(s) = <<"open", "SEM_SERVER">> => Made(s, ClientCalls) = {}
           /\ Head(s) = <<"wait", "SEM_CLIENT">> => <<"open", "SEM_CLIENT">> \in Made(s, ClientCalls)
           /\ Head(s) = <<"open", "SHM">> => <<"wait", "SEM_CLIENT">> \in Made(s, ClientCalls)
           /\ Head(s) = <<"check", "MAGIC">> => <<"open", "SHM">> \in Made(s, ClientCalls)
           /\ Head(s)[1] = "post" <=> Tail(s) = <<>>
           /\ Head(s)[1] = "post" =>
                 /\ \A n \in Names : <<"open", n>> \in Made(s, ClientCalls)
                 /\ <<"wait", "SEM_CLIENT">> \in Made(s, ClientCalls)
<1>0. ClientCalls \in Seq(Calls) /\ Len(ClientCalls) = 9
  BY ClientList
<1>1. PICK k \in 1..9 : Head(s) = ClientCalls[k] /\ Made(s, ClientCalls) = {ClientCalls[i] : i \in 1..(k - 1)}
                         /\ Len(Tail(s)) = 9 - k
  <2>1. PICK k \in 1..Len(ClientCalls) :
            /\ Head(s) = ClientCalls[k] /\ Made(s, ClientCalls) = {ClientCalls[i] : i \in 1..(k - 1)}
            /\ Len(Tail(s)) = Len(ClientCalls) - k
    BY <1>0, AtCall, Zenon
  <2> QED BY <1>0, <2>1
<1>2. \A i \in 1..9 : i < k => ClientCalls[i] \in Made(s, ClientCalls)
  BY <1>1
<1>3. Head(s)[1] \in {"open", "wait", "check", "post"}
  BY <1>1, ClientList
<1>4. Head(s) = <<"open", "SEM_SERVER">> => Made(s, ClientCalls) = {}
  <2>1. Head(s) = <<"open", "SEM_SERVER">> => k = 1
    BY <1>1, ClientList
  <2> QED BY <1>1, <2>1
<1>5. Head(s) = <<"wait", "SEM_CLIENT">> => <<"open", "SEM_CLIENT">> \in Made(s, ClientCalls)
  <2>1. Head(s) = <<"wait", "SEM_CLIENT">> => k = 3
    BY <1>1, ClientList
  <2>2. k = 3 => ClientCalls[2] \in Made(s, ClientCalls)
    BY <1>2
  <2> QED BY <2>1, <2>2, ClientList
<1>6. Head(s) = <<"open", "SHM">> => <<"wait", "SEM_CLIENT">> \in Made(s, ClientCalls)
  <2>1. Head(s) = <<"open", "SHM">> => k = 4
    BY <1>1, ClientList
  <2>2. k = 4 => ClientCalls[3] \in Made(s, ClientCalls)
    BY <1>2
  <2> QED BY <2>1, <2>2, ClientList
<1>7. Head(s) = <<"check", "MAGIC">> => <<"open", "SHM">> \in Made(s, ClientCalls)
  <2>1. Head(s) = <<"check", "MAGIC">> => k = 8
    BY <1>1, ClientList
  <2>2. k = 8 => ClientCalls[4] \in Made(s, ClientCalls)
    BY <1>2
  <2> QED BY <2>1, <2>2, ClientList
<1>8. Head(s)[1] = "post" <=> k = 9
  BY <1>1, ClientList
<1>9. Tail(s) = <<>> <=> k = 9
  <2>1. Tail(s) \in Seq(Calls)
    BY RestStarts, ClientList
  <2>2. Tail(s) = <<>> <=> Len(Tail(s)) = 0
    BY <2>1, EmptySeq
  <2>3. PICK m \in Nat : m = Len(Tail(s))
    BY <2>1
  <2>4. m = 9 - k
    BY <1>1, <2>3
  <2>5. m = 0 <=> k = 9
    BY ONLY <2>4, k \in 1..9
  <2> QED BY ONLY <2>2, <2>3, <2>5
<1>10. Head(s)[1] = "post" =>
                 /\ \A n \in Names : <<"open", n>> \in Made(s, ClientCalls)
                 /\ <<"wait", "SEM_CLIENT">> \in Made(s, ClientCalls)
  <2> HAVE Head(s)[1] = "post"
  <2>1. \A i \in 1..8 : ClientCalls[i] \in Made(s, ClientCalls)
    BY <1>2, <1>8
  <2>2. /\ ClientCalls[1] \in Made(s, ClientCalls) /\ ClientCalls[2] \in Made(s, ClientCalls)
        /\ ClientCalls[3] \in Made(s, ClientCalls) /\ ClientCalls[4] \in Made(s, ClientCalls)
        /\ ClientCalls[5] \in Made(s, ClientCalls) /\ ClientCalls[6] \in Made(s, ClientCalls)
        /\ ClientCalls[7] \in Made(s, ClientCalls)
    BY <2>1
  <2> QED BY <2>2, ClientList DEF Names, Sems
<1> QED BY <1>3, <1>4, <1>5, <1>6, <1>7, <1>8, <1>9, <1>10

(* A client that made all its calls has waited and opened every name.       *)
LEMMA ClientEverything ==
    /\ <<"wait", "SEM_CLIENT">> \in Made(<<>>, ClientCalls)
    /\ \A n \in Names : <<"open", n>> \in Made(<<>>, ClientCalls)
<1>1. \A i \in 1..9 : ClientCalls[i] \in Made(<<>>, ClientCalls)
  BY AllMade, ClientList
<1>2. /\ ClientCalls[1] \in Made(<<>>, ClientCalls) /\ ClientCalls[2] \in Made(<<>>, ClientCalls)
      /\ ClientCalls[3] \in Made(<<>>, ClientCalls) /\ ClientCalls[4] \in Made(<<>>, ClientCalls)
      /\ ClientCalls[5] \in Made(<<>>, ClientCalls) /\ ClientCalls[6] \in Made(<<>>, ClientCalls)
      /\ ClientCalls[7] \in Made(<<>>, ClientCalls)
  BY <1>1
<1> QED BY <1>2, ClientList DEF Names, Sems

-----------------------------------------------------------------------------
(* The inductive invariant, and that the steps of the server keep it.       *)
Inv == TypeOK /\ HandshakeInv

(* Removing names does not disturb what the server has done.                *)
LEMMA ServerKeeps ==
    ASSUME TypeOK, ServerInv, UNCHANGED <<srvVars, written>>,
           \A n \in Names : names'[n] \in {0, names[n]}
    PROVE  ServerInv'
<1>1. /\ srv_state' = srv_state /\ srv_gen' = srv_gen /\ srv_calls' = srv_calls
      /\ srv_open' = srv_open /\ written' = written
  BY DEF srvVars
<1>2. \A n \in Names : names[n] \in {0, srv_gen} => names'[n] \in {0, srv_gen}
  OBVIOUS
<1> QED BY <1>1, <1>2 DEF ServerInv

(* A step of the server does not disturb what the client has done.          *)
LEMMA ClientKeeps ==
    ASSUME TypeOK, ClientInv, UNCHANGED cliVars, srv_gen' = srv_gen,
           srv_gen # 0 /\ written[srv_gen] = Parts => written'[srv_gen] = Parts
    PROVE  ClientInv'
<1>1. /\ cli_state' = cli_state /\ cli_calls' = cli_calls /\ cli_open' = cli_open
      /\ cli_meta' = cli_meta
  BY DEF cliVars
<1> QED BY <1>1 DEF ClientInv

(* The invariant holds before anything has started.                         *)
LEMMA InitHolds ==
    ASSUME Init
    PROVE  Inv
<1>1. TypeOK
  <2>1. names \in [Names -> 0..MaxServers] /\ cli_open \in [Names -> 0..MaxServers]
    BY BoundsAssumption DEF Init, Nothing
  <2>2. sem_value \in [Generations -> [Sems -> Nat]] /\ written \in [Generations -> SUBSET Parts]
    BY DEF Init
  <2>3. srv_calls \in Seq(Calls) /\ cli_calls \in Seq(Calls)
    BY DEF Init
  <2>4. /\ srv_gen \in 0..MaxServers /\ srv_attempt \in 0..ServerAttempts
        /\ cli_runs \in 0..MaxClients /\ cli_attempt \in 0..ClientAttempts
    BY BoundsAssumption DEF Init
  <2> QED BY <2>1, <2>2, <2>3, <2>4 DEF Init, TypeOK
<1>2. ServerInv
  BY DEF Init, ServerInv
<1>3. HostInv
  BY DEF Init, HostInv, Nothing, ServerRuns, Names, Sems
<1>4. ClientInv
  BY DEF Init, ClientInv
<1> QED BY <1>1, <1>2, <1>3, <1>4 DEF Inv, HandshakeInv

(* A new run of the server: all names are of earlier generations, so no client
   is attached to it yet. *)
LEMMA ServerStarts ==
    ASSUME Inv, ServerStart
    PROVE  Inv'
<1>1. /\ srv_gen < MaxServers /\ srv_state' = "init" /\ srv_gen' = srv_gen + 1
      /\ srv_calls' = InitCalls /\ srv_open' = {} /\ srv_attempt' = 0
      /\ UNCHANGED <<names, sem_value, written, cli_state, cli_runs, cli_calls, cli_open,
                     cli_attempt, cli_meta>>
  BY DEF ServerStart, hostVars, cliVars
<1>2. TypeOK /\ HostInv /\ ClientInv
  BY DEF Inv, HandshakeInv
<1>3. TypeOK'
  BY <1>1, <1>2, InitList, BoundsAssumption, SMTT(30) DEF TypeOK
<1>4. IsRest(InitCalls, InitCalls) /\ Made(InitCalls, InitCalls) = {}
  BY NoneMade, InitList
<1>5. srv_gen \in Nat /\ srv_gen' # 0
  BY <1>1, <1>2 DEF TypeOK
<1>6. ServerInv'
  BY <1>1, <1>4, <1>5 DEF ServerInv
<1>7. \A n \in Names : /\ names[n] <= srv_gen /\ names[n] \in Nat
                       /\ cli_open[n] <= srv_gen /\ cli_open[n] \in Nat
  BY <1>2 DEF HostInv, TypeOK
<1>8. \A n \in Names : /\ names'[n] <= srv_gen' /\ cli_open'[n] <= srv_gen'
                       /\ names'[n] # srv_gen' /\ cli_open'[n] # srv_gen'
  BY <1>1, <1>5, <1>7
<1>9. "SEM_SERVER" \in Names
  BY DEF Names, Sems
<1>10. HostInv'
  BY <1>1, <1>2, <1>8, <1>9 DEF HostInv
<1>11. ClientInv'
  BY <1>1, <1>2, <1>8, <1>9 DEF ClientInv
<1> QED BY <1>3, <1>6, <1>10, <1>11 DEF Inv, HandshakeInv

(* The server enters its next phase with its calls of the last one made.    *)
LEMMA ServerChangesPhase ==
    ASSUME Inv, ServerPhase
    PROVE  Inv'
<1>1. /\ srv_calls = <<>>
      /\ UNCHANGED <<srv_gen, srv_open, srv_attempt, names, sem_value, written>>
      /\ UNCHANGED cliVars
      /\ \/ srv_state = "init" /\ srv_state' = "connect" /\ srv_calls' = ConnectCalls
         \/ srv_state = "connect" /\ srv_state' = "waiting" /\ srv_calls' = <<>>
         \/ srv_state = "closing" /\ srv_state' = "failed" /\ srv_calls' = <<>>
  BY DEF ServerPhase, hostVars
<1>2. TypeOK /\ ServerInv /\ HostInv /\ ClientInv
  BY DEF Inv, HandshakeInv
<1>3. TypeOK'
  BY <1>1, <1>2, ConnectList DEF TypeOK, cliVars
<1>4. ClientInv'
  BY <1>1, <1>2, ClientKeeps
<1>5. HostInv'
  BY <1>1, <1>2 DEF HostInv, ServerRuns, cliVars
<1>6. ServerInv'
  <2>1. CASE srv_state = "init"
    <3>1. Parts \ {"MAGIC"} \subseteq written[srv_gen]
      BY <1>1, <1>2, <2>1, InitWrites DEF ServerInv
    <3>2. IsRest(ConnectCalls, ConnectCalls) /\ Made(ConnectCalls, ConnectCalls) = {}
      BY NoneMade, ConnectList
    <3> QED BY <1>1, <1>2, <2>1, <3>1, <3>2 DEF ServerInv
  <2>2. CASE srv_state = "connect"
    BY <1>1, <1>2, <2>2 DEF ServerInv
  <2>3. CASE srv_state = "closing"
    BY <1>1, <1>2, <2>3 DEF ServerInv
  <2> QED BY <1>1, <2>1, <2>2, <2>3
<1> QED BY <1>3, <1>4, <1>5, <1>6 DEF Inv, HandshakeInv

(* What is known when the server makes a call.                              *)
LEMMA ServerAt ==
    ASSUME Inv, NEW op, NEW n, ServerMakes(op, n)
    PROVE  /\ srv_calls' \in Seq(Calls)
           /\ srv_state \in {"init", "connect", "closing"}
           /\ srv_gen \in Generations
           /\ srv_state = "init" =>
                 /\ op \in {"unlink", "create", "write"} /\ n \in Names
                 /\ IsRest(srv_calls', InitCalls)
                 /\ Made(srv_calls', InitCalls) = Made(srv_calls, InitCalls) \cup {<<op, n>>}
                 /\ op = "create" => \A m \in Names : <<"unlink", m>> \in Made(srv_calls, InitCalls)
           /\ srv_state = "connect" =>
                 /\ \/ op = "write" /\ n = "MAGIC"
                    \/ op = "post" /\ <<"write", "MAGIC">> \in Made(srv_calls, ConnectCalls)
                 /\ IsRest(srv_calls', ConnectCalls)
                 /\ Made(srv_calls', ConnectCalls) = Made(srv_calls, ConnectCalls) \cup {<<op, n>>}
           /\ srv_state = "closing" =>
                 /\ op = "unlink"
                 /\ \A i \in DOMAIN srv_calls' : srv_calls'[i][1] = "unlink"
                 /\ \A m \in srv_open \ {n} : \E i \in DOMAIN srv_calls' : srv_calls'[i] = <<"unlink", m>>
<1>1. srv_calls # <<>> /\ Head(srv_calls) = <<op, n>> /\ srv_calls' = Tail(srv_calls)
  BY DEF ServerMakes
<1>2. TypeOK /\ ServerInv /\ srv_calls \in Seq(Calls)
  BY DEF Inv, HandshakeInv, TypeOK
<1>3. srv_calls' \in Seq(Calls)
  BY <1>1, <1>2
<1>4. srv_state \in {"init", "connect", "closing"} /\ srv_gen \in Generations
  BY <1>1, <1>2, BoundsAssumption DEF ServerInv, TypeOK, Generations
<1>5. srv_state = "init" =>
                 /\ op \in {"unlink", "create", "write"} /\ n \in Names
                 /\ IsRest(srv_calls', InitCalls)
                 /\ Made(srv_calls', InitCalls) = Made(srv_calls, InitCalls) \cup {<<op, n>>}
                 /\ op = "create" => \A m \in Names : <<"unlink", m>> \in Made(srv_calls, InitCalls)
  <2> HAVE srv_state = "init"
  <2>1. IsRest(srv_calls, InitCalls)
    BY <1>2 DEF ServerInv
  <2>2. Head(srv_calls)[1] \in {"unlink", "create", "write"} /\ Head(srv_calls)[2] \in Names
    BY <1>1, <1>2, <2>1, InitOperations
  <2>3. op \in {"unlink", "create", "write"} /\ n \in Names
    BY <1>1, <2>2
  <2>4. IsRest(Tail(srv_calls), InitCalls)
        /\ Made(Tail(srv_calls), InitCalls) = Made(srv_calls, InitCalls) \cup {Head(srv_calls)}
    BY <1>1, <1>2, <2>1, InitList, RestStarts
  <2>5. op = "create" => \A m \in Names : <<"unlink", m>> \in Made(srv_calls, InitCalls)
    BY <1>1, <1>2, <2>1, <2>3, InitAtCreate
  <2> QED BY <1>1, <2>3, <2>4, <2>5
<1>6. srv_state = "connect" =>
                 /\ \/ op = "write" /\ n = "MAGIC"
                    \/ op = "post" /\ <<"write", "MAGIC">> \in Made(srv_calls, ConnectCalls)
                 /\ IsRest(srv_calls', ConnectCalls)
                 /\ Made(srv_calls', ConnectCalls) = Made(srv_calls, ConnectCalls) \cup {<<op, n>>}
  <2> HAVE srv_state = "connect"
  <2>1. IsRest(srv_calls, ConnectCalls)
    BY <1>2 DEF ServerInv
  <2>2. \/ Head(srv_calls) = <<"write", "MAGIC">>
        \/ Head(srv_calls) = <<"post", "SEM_CLIENT">> /\ <<"write", "MAGIC">> \in Made(srv_calls, ConnectCalls)
    BY <1>1, <1>2, <2>1, ConnectSteps
  <2>3. IsRest(Tail(srv_calls), ConnectCalls)
        /\ Made(Tail(srv_calls), ConnectCalls) = Made(srv_calls, ConnectCalls) \cup {Head(srv_calls)}
    BY <1>1, <1>2, <2>1, ConnectList, RestStarts
  <2> QED BY <1>1, <2>2, <2>3
<1>7. srv_state = "closing" =>
                 /\ op = "unlink"
                 /\ \A i \in DOMAIN srv_calls' : srv_calls'[i][1] = "unlink"
                 /\ \A m \in srv_open \ {n} : \E i \in DOMAIN srv_calls' : srv_calls'[i] = <<"unlink", m>>
  <2> HAVE srv_state = "closing"
  <2>1. /\ \A i \in DOMAIN srv_calls : srv_calls[i][1] = "unlink"
        /\ \A m \in srv_open : \E i \in DOMAIN srv_calls : srv_calls[i] = <<"unlink", m>>
    BY <1>2 DEF ServerInv
  <2>2. /\ srv_calls[1] = <<op, n>> /\ 1 \in DOMAIN srv_calls
        /\ DOMAIN srv_calls = 1..Len(srv_calls) /\ Len(srv_calls) \in Nat
        /\ DOMAIN srv_calls' = 1..(Len(srv_calls) - 1)
        /\ \A i \in 1..(Len(srv_calls) - 1) : srv_calls'[i] = srv_calls[i + 1]
    BY <1>1, <1>2, <1>3, HeadTailProperties
  <2>3. op = "unlink"
    BY <2>1, <2>2
  <2>4. \A i \in DOMAIN srv_calls' : srv_calls'[i][1] = "unlink"
    BY <2>1, <2>2
  <2>5. ASSUME NEW m \in srv_open \ {n}
        PROVE  \E i \in DOMAIN srv_calls' : srv_calls'[i] = <<"unlink", m>>
    <3>1. PICK i \in 1..Len(srv_calls) : srv_calls[i] = <<"unlink", m>>
      BY <2>1, <2>2
    <3>2. i # 1
      BY <2>2, <3>1
    <3>3. i - 1 \in 1..(Len(srv_calls) - 1) /\ (i - 1) + 1 = i
      BY <2>2, <3>2
    <3> QED BY <2>2, <3>1, <3>3
  <2> QED BY <2>3, <2>4, <2>5
<1> QED BY <1>3, <1>4, <1>5, <1>6, <1>7

(* The server removes a name, at its start or when it closes.               *)
LEMMA ServerUnlinks ==
    ASSUME Inv, NEW n \in Names, ServerUnlink(n)
    PROVE  Inv'
<1>1. /\ ServerMakes("unlink", n)
      /\ names' = [names EXCEPT ![n] = 0] /\ srv_open' = srv_open \ {n}
      /\ UNCHANGED <<sem_value, written, srv_state, srv_gen, srv_attempt>>
      /\ UNCHANGED cliVars
  BY DEF ServerUnlink
<1>2. TypeOK /\ ServerInv /\ HostInv /\ ClientInv
  BY DEF Inv, HandshakeInv
<1>3. /\ srv_calls' \in Seq(Calls)
      /\ srv_state \in {"init", "connect", "closing"} /\ srv_state # "connect"
      /\ srv_state = "init" =>
            /\ IsRest(srv_calls', InitCalls)
            /\ Made(srv_calls', InitCalls) = Made(srv_calls, InitCalls) \cup {<<"unlink", n>>}
      /\ srv_state = "closing" =>
            /\ \A i \in DOMAIN srv_calls' : srv_calls'[i][1] = "unlink"
            /\ \A m \in srv_open \ {n} : \E i \in DOMAIN srv_calls' : srv_calls'[i] = <<"unlink", m>>
  BY <1>1, ServerAt
<1>4. TypeOK'
  BY <1>1, <1>2, <1>3, BoundsAssumption DEF TypeOK, cliVars
<1>5. names'[n] = 0 /\ \A m \in Names : m # n => names'[m] = names[m]
  BY <1>1, <1>2 DEF TypeOK
<1>6. ServerInv'
  BY <1>1, <1>2, <1>3, <1>5 DEF ServerInv
<1>7. HostInv'
  <2>1. srv_gen \in Nat /\ srv_gen # 0 /\ "SEM_SERVER" \in Names
    BY <1>2, <1>3 DEF TypeOK, ServerInv, Names, Sems
  <2> QED BY <1>1, <1>2, <1>5, <2>1 DEF HostInv, ServerRuns, cliVars
<1>8. ClientInv'
  BY <1>1, <1>2, ClientKeeps
<1> QED BY <1>4, <1>6, <1>7, <1>8 DEF Inv, HandshakeInv

(* The server creates a name: all old ones are gone by then.                *)
LEMMA ServerCreates ==
    ASSUME Inv, NEW n \in Names, ServerCreate(n)
    PROVE  Inv'
<1>1. /\ ServerMakes("create", n)
      /\ names' = [names EXCEPT ![n] = srv_gen] /\ srv_open' = srv_open \cup {n}
      /\ UNCHANGED <<sem_value, written, srv_state, srv_gen, srv_attempt>>
      /\ UNCHANGED cliVars
  BY DEF ServerCreate
<1>2. TypeOK /\ ServerInv /\ HostInv /\ ClientInv
  BY DEF Inv, HandshakeInv
<1>3. /\ srv_calls' \in Seq(Calls) /\ srv_state = "init"
      /\ IsRest(srv_calls', InitCalls)
      /\ Made(srv_calls', InitCalls) = Made(srv_calls, InitCalls) \cup {<<"create", n>>}
      /\ \A m \in Names : <<"unlink", m>> \in Made(srv_calls, InitCalls)
  BY <1>1, ServerAt
<1>4. TypeOK'
  BY <1>1, <1>2, <1>3, BoundsAssumption DEF TypeOK, cliVars
<1>5. names'[n] = srv_gen /\ \A m \in Names : m # n => names'[m] = names[m]
  BY <1>1, <1>2 DEF TypeOK
<1>6. \A m \in Names : names'[m] \in {0, srv_gen}
  BY <1>2, <1>3, <1>5 DEF ServerInv
<1>7. ServerInv'
  BY <1>1, <1>2, <1>3, <1>6 DEF ServerInv
<1>8. HostInv'
  <2>1. srv_gen \in Nat
    BY <1>2 DEF TypeOK
  <2> QED BY <1>1, <1>2, <1>5, <1>6, <2>1 DEF HostInv, ServerRuns, cliVars
<1>9. ClientInv'
  BY <1>1, <1>2, ClientKeeps
<1> QED BY <1>4, <1>7, <1>8, <1>9 DEF Inv, HandshakeInv

(* The server initialises a part.                                           *)
LEMMA ServerWrites ==
    ASSUME Inv, NEW p \in Parts, ServerWrite(p)
    PROVE  Inv'
<1>1. /\ ServerMakes("write", p)
      /\ written' = [written EXCEPT ![srv_gen] = @ \cup {p}]
      /\ UNCHANGED <<names, sem_value, srv_state, srv_gen, srv_open, srv_attempt>>
      /\ UNCHANGED cliVars
  BY DEF ServerWrite
<1>2. TypeOK /\ ServerInv /\ HostInv /\ ClientInv
  BY DEF Inv, HandshakeInv
<1>3. /\ srv_calls' \in Seq(Calls) /\ srv_gen \in Generations
      /\ srv_state \in {"init", "connect"}
      /\ srv_state = "init" =>
            /\ IsRest(srv_calls', InitCalls)
            /\ Made(srv_calls', InitCalls) = Made(srv_calls, InitCalls) \cup {<<"write", p>>}
      /\ srv_state = "connect" =>
            /\ p = "MAGIC"
            /\ IsRest(srv_calls', ConnectCalls)
  BY <1>1, ServerAt
<1>4. TypeOK'
  BY <1>1, <1>2, <1>3 DEF TypeOK, cliVars
<1>5. /\ written'[srv_gen] = written[srv_gen] \cup {p}
      /\ \A g \in Generations : g # srv_gen => written'[g] = written[g]
      /\ \A g \in Generations : written[g] = Parts => written'[g] = Parts
  BY <1>1, <1>2, <1>3 DEF TypeOK
<1>6. ServerInv'
  BY <1>1, <1>2, <1>3, <1>5 DEF ServerInv
<1>7. HostInv'
  BY <1>1, <1>2, <1>5 DEF HostInv, ServerRuns, cliVars
<1>8. ClientInv'
  BY <1>1, <1>2, <1>3, <1>5, ClientKeeps
<1> QED BY <1>4, <1>6, <1>7, <1>8 DEF Inv, HandshakeInv

(* The server tells the client: everything is written.                      *)
LEMMA ServerPosts ==
    ASSUME Inv, ServerPost
    PROVE  Inv'
<1>1. /\ ServerMakes("post", "SEM_CLIENT")
      /\ sem_value' = [sem_value EXCEPT ![srv_gen]["SEM_CLIENT"] = @ + 1]
      /\ UNCHANGED <<names, written, srv_state, srv_gen, srv_open, srv_attempt>>
      /\ UNCHANGED cliVars
  BY DEF ServerPost
<1>2. TypeOK /\ ServerInv /\ HostInv /\ ClientInv
  BY DEF Inv, HandshakeInv
<1>3. /\ srv_calls' \in Seq(Calls) /\ srv_gen \in Generations
      /\ srv_state = "connect"
      /\ <<"write", "MAGIC">> \in Made(srv_calls, ConnectCalls)
      /\ IsRest(srv_calls', ConnectCalls)
  BY <1>1, ServerAt
<1>4. written[srv_gen] = Parts
  <2>1. written[srv_gen] \subseteq Parts
    BY <1>2, <1>3 DEF TypeOK
  <2> QED BY <1>2, <1>3, <2>1 DEF ServerInv
<1>5. TypeOK'
  <2>1. sem_value' \in [Generations -> [Sems -> Nat]]
    BY <1>1, <1>2, <1>3, SMTT(30) DEF TypeOK, Sems
  <2> QED BY <1>1, <1>2, <1>3, <2>1 DEF TypeOK, cliVars
<1>6. \A g \in Generations : g # srv_gen => sem_value'[g] = sem_value[g]
  BY <1>1, <1>2, <1>3 DEF TypeOK
<1>7. ServerInv'
  BY <1>1, <1>2, <1>3, <1>4 DEF ServerInv
<1>8. HostInv'
  BY <1>1, <1>2, <1>4, <1>6 DEF HostInv, ServerRuns, cliVars
<1>9. ClientInv'
  BY <1>1, <1>2, ClientKeeps
<1> QED BY <1>5, <1>7, <1>8, <1>9 DEF Inv, HandshakeInv

(* The server disconnects: whatever it has open it is going to remove.      *)
LEMMA ServerCloses ==
    ASSUME Inv, ServerRuns, srv_state' = "closing", srv_calls' = CloseCalls(srv_open),
           srv_attempt' \in 0..ServerAttempts, srv_gen' = srv_gen, srv_open' = srv_open,
           UNCHANGED hostVars, UNCHANGED cliVars
    PROVE  Inv'
<1>1. UNCHANGED <<names, sem_value, written>>
  BY DEF hostVars
<1>2. TypeOK /\ ServerInv /\ HostInv /\ ClientInv
  BY DEF Inv, HandshakeInv
<1>3. /\ CloseCalls(srv_open) \in Seq(Calls)
      /\ \A i \in DOMAIN CloseCalls(srv_open) : CloseCalls(srv_open)[i][1] = "unlink"
      /\ \A n \in srv_open : \E i \in DOMAIN CloseCalls(srv_open) : CloseCalls(srv_open)[i] = <<"unlink", n>>
  BY <1>2, CloseList DEF TypeOK
<1>4. TypeOK'
  BY <1>1, <1>2, <1>3 DEF TypeOK, cliVars
<1>5. ServerInv'
  BY <1>1, <1>2, <1>3 DEF ServerInv, ServerRuns
<1>6. HostInv'
  BY <1>1, <1>2 DEF HostInv, ServerRuns, cliVars
<1>7. ClientInv'
  BY <1>1, <1>2, ClientKeeps
<1> QED BY <1>4, <1>5, <1>6, <1>7 DEF Inv, HandshakeInv

(* A call of the server's init fails.                                       *)
LEMMA ServerFailing ==
    ASSUME Inv, ServerFails
    PROVE  Inv'
<1>1. srv_attempt \in 0..ServerAttempts
  BY DEF Inv, TypeOK
<1> QED BY <1>1, ServerCloses DEF ServerFails, ServerRuns

(* The server gets the answer.                                              *)
LEMMA ServerTakes ==
    ASSUME Inv, ServerGets
    PROVE  Inv'
<1>1. /\ srv_state = "waiting" /\ srv_state' = "connected"
      /\ sem_value[srv_gen]["SEM_SERVER"] > 0
      /\ sem_value' = [sem_value EXCEPT ![srv_gen]["SEM_SERVER"] = @ - 1]
      /\ UNCHANGED <<names, written, srv_gen, srv_calls, srv_open, srv_attempt>>
      /\ UNCHANGED cliVars
  BY DEF ServerGets
<1>2. TypeOK /\ ServerInv /\ HostInv /\ ClientInv
  BY DEF Inv, HandshakeInv
<1>3. srv_gen \in Generations
  BY <1>1, <1>2, BoundsAssumption DEF TypeOK, ServerInv, Generations
<1>4. TypeOK'
  <2>1. sem_value' \in [Generations -> [Sems -> Nat]]
    BY <1>1, <1>2, <1>3 DEF TypeOK, Sems
  <2> QED BY <1>1, <1>2, <2>1 DEF TypeOK, cliVars
<1>5. \A g \in Generations : sem_value'[g]["SEM_CLIENT"] = sem_value[g]["SEM_CLIENT"]
  BY <1>1, <1>2, <1>3 DEF TypeOK, Sems
<1>6. ServerInv'
  BY <1>1, <1>2 DEF ServerInv
<1>7. HostInv'
  BY <1>1, <1>2, <1>5 DEF HostInv, ServerRuns, cliVars
<1>8. ClientInv'
  BY <1>1, <1>2, ClientKeeps
<1> QED BY <1>4, <1>6, <1>7, <1>8 DEF Inv, HandshakeInv

(* The server's wait times out, for the last time or not.                   *)
LEMMA ServerTimesOut ==
    ASSUME Inv, ServerTimeout
    PROVE  Inv'
<1>1. /\ srv_state = "waiting" /\ srv_attempt' = srv_attempt + 1
      /\ \/ srv_attempt' < ServerAttempts /\ UNCHANGED <<srv_state, srv_calls>>
         \/ srv_attempt' = ServerAttempts /\ srv_state' = "closing" /\ srv_calls' = CloseCalls(srv_open)
      /\ UNCHANGED hostVars /\ UNCHANGED <<srv_gen, srv_open>> /\ UNCHANGED cliVars
  BY DEF ServerTimeout
<1>2. TypeOK /\ ServerInv /\ HostInv /\ ClientInv
  BY DEF Inv, HandshakeInv
<1>3. srv_attempt' \in 0..ServerAttempts
  BY <1>1, <1>2, BoundsAssumption DEF TypeOK
<1>4. CASE srv_state' = "closing"
  BY <1>1, <1>3, <1>4, ServerCloses DEF ServerRuns
<1>5. CASE UNCHANGED <<srv_state, srv_calls>>
  <2>1. TypeOK'
    BY <1>1, <1>2, <1>3, <1>5 DEF TypeOK, cliVars, hostVars
  <2>2. ServerInv' /\ HostInv'
    BY <1>1, <1>2, <1>5 DEF ServerInv, HostInv, ServerRuns, cliVars, hostVars
  <2>3. ClientInv'
    BY <1>1, <1>2, ClientKeeps DEF hostVars
  <2> QED BY <2>1, <2>2, <2>3 DEF Inv, HandshakeInv
<1> QED BY <1>1, <1>4, <1>5

(* The server is killed; its names stay.                                    *)
LEMMA ServerCrashes ==
    ASSUME Inv, ServerCrash
    PROVE  Inv'
<1>1. /\ srv_state' = "crashed" /\ srv_calls' = <<>> /\ srv_open' = {}
      /\ UNCHANGED <<names, sem_value, written, srv_gen, srv_attempt>> /\ UNCHANGED cliVars
      /\ ServerRuns
  BY DEF ServerCrash, hostVars
<1>2. TypeOK /\ ServerInv /\ HostInv /\ ClientInv
  BY DEF Inv, HandshakeInv
<1>3. TypeOK'
  BY <1>1, <1>2 DEF TypeOK, cliVars
<1>4. ServerInv'
  BY <1>1, <1>2 DEF ServerInv, ServerRuns
<1>5. HostInv'
  BY <1>1, <1>2 DEF HostInv, ServerRuns, cliVars
<1>6. ClientInv'
  BY <1>1, <1>2, ClientKeeps
<1> QED BY <1>3, <1>4, <1>5, <1>6 DEF Inv, HandshakeInv

-----------------------------------------------------------------------------
(* The steps of the client.                                                 *)

(* What is known when the client is at a call.                              *)
LEMMA ClientAt ==
    ASSUME Inv, NEW op, NEW n, cli_calls # <<>>, Head(cli_calls) = <<op, n>>
    PROVE  /\ Tail(cli_calls) \in Seq(Calls)
           /\ cli_state \in {"connecting", "closing"}
           /\ cli_state = "connecting" =>
                 LET made == Made(cli_calls, ClientCalls) IN
                 /\ op \in {"open", "wait", "check", "post"}
                 /\ IsRest(Tail(cli_calls), ClientCalls)
                 /\ Made(Tail(cli_calls), ClientCalls) = made \cup {<<op, n>>}
                 /\ op = "post" <=> Tail(cli_calls) = <<>>
                 /\ <<op, n>> = <<"open", "SEM_SERVER">> => made = {}
                 /\ <<op, n>> = <<"wait", "SEM_CLIENT">> => <<"open", "SEM_CLIENT">> \in made
                 /\ <<op, n>> = <<"open", "SHM">> => <<"wait", "SEM_CLIENT">> \in made
                 /\ <<op, n>> = <<"check", "MAGIC">> => <<"open", "SHM">> \in made
                 /\ op = "post" => <<"wait", "SEM_CLIENT">> \in made /\ \A m \in Names : <<"open", m>> \in made
           /\ cli_state = "closing" =>
                 /\ op = "unlink"
                 /\ \A i \in DOMAIN Tail(cli_calls) : Tail(cli_calls)[i][1] = "unlink"
<1>1. TypeOK /\ ClientInv /\ cli_calls \in Seq(Calls)
  BY DEF Inv, HandshakeInv, TypeOK
<1>2. Tail(cli_calls) \in Seq(Calls)
  BY <1>1
<1>3. cli_state \in {"connecting", "closing"}
  BY <1>1 DEF ClientInv, TypeOK
<1>4. CASE cli_state = "connecting"
  <2>1. IsRest(cli_calls, ClientCalls)
    BY <1>1, <1>4 DEF ClientInv
  <2>2. IsRest(Tail(cli_calls), ClientCalls)
        /\ Made(Tail(cli_calls), ClientCalls) = Made(cli_calls, ClientCalls) \cup {Head(cli_calls)}
    BY <1>1, <2>1, ClientList, RestStarts
  <2>3. Head(cli_calls)[1] = op
    OBVIOUS
  <2> QED BY <1>1, <1>2, <1>4, <2>1, <2>2, <2>3, ClientSteps
<1>5. CASE cli_state = "closing"
  <2>1. \A i \in DOMAIN cli_calls : cli_calls[i][1] = "unlink"
    BY <1>1, <1>5 DEF ClientInv
  <2>2. /\ cli_calls[1] = <<op, n>> /\ 1 \in DOMAIN cli_calls
        /\ DOMAIN cli_calls = 1..Len(cli_calls) /\ Len(cli_calls) \in Nat
        /\ DOMAIN Tail(cli_calls) = 1..(Len(cli_calls) - 1)
        /\ \A i \in 1..(Len(cli_calls) - 1) : Tail(cli_calls)[i] = cli_calls[i + 1]
    BY <1>1, <1>2, HeadTailProperties
  <2> QED BY <1>2, <1>5, <2>1, <2>2
<1> QED BY <1>3, <1>4, <1>5

(* A step that removes no name and posts no client semaphore keeps HostInv. *)
LEMMA HostKeeps ==
    ASSUME TypeOK, HostInv, UNCHANGED <<names, srv_state, srv_gen, srv_open, written>>,
           \A n \in Names : cli_open'[n] \in {0, cli_open[n]},
           \A g \in Generations : sem_value'[g]["SEM_CLIENT"] > 0 => sem_value[g]["SEM_CLIENT"] > 0
    PROVE  HostInv'
<1>1. "SEM_SERVER" \in Names /\ srv_gen \in Nat
  BY DEF Names, Sems, TypeOK
<1>2. \A n \in Names : names[n] <= srv_gen /\ cli_open'[n] <= srv_gen
  BY <1>1 DEF HostInv
<1>3. srv_gen = 0 => \A n \in Names : names[n] \in {0, srv_gen}
  BY <1>2 DEF TypeOK
<1> QED BY <1>1, <1>2, <1>3 DEF HostInv, ServerRuns

(* A new run of the client.                                                 *)
LEMMA ClientStarts ==
    ASSUME Inv, ClientStart
    PROVE  Inv'
<1>1. /\ cli_runs < MaxClients /\ cli_runs' = cli_runs + 1 /\ cli_state' = "connecting"
      /\ cli_calls' = ClientCalls /\ cli_open' = Nothing /\ cli_attempt' = 0 /\ cli_meta' = FALSE
      /\ UNCHANGED <<names, sem_value, written>> /\ UNCHANGED srvVars
  BY DEF ClientStart, hostVars
<1>2. TypeOK /\ ServerInv /\ HostInv
  BY DEF Inv, HandshakeInv
<1>3. TypeOK'
  <2>1. cli_open' \in [Names -> 0..MaxServers]
    BY <1>1, BoundsAssumption DEF Nothing
  <2>2. cli_runs' \in 0..MaxClients
    BY <1>1, <1>2, BoundsAssumption DEF TypeOK
  <2>3. cli_attempt' \in 0..ClientAttempts
    BY <1>1, BoundsAssumption
  <2>4. cli_calls' \in Seq(Calls)
    BY <1>1, ClientList
  <2>5. cli_meta' \in BOOLEAN
    BY <1>1
  <2> QED BY <1>1, <1>2, <2>1, <2>2, <2>3, <2>4, <2>5 DEF TypeOK, srvVars
<1>4. ServerInv'
  BY <1>1, <1>2, ServerKeeps
<1>5. \A n \in Names : cli_open'[n] = 0
  BY <1>1 DEF Nothing
<1>6. HostInv'
  BY <1>1, <1>2, <1>5, HostKeeps DEF srvVars
<1>7. /\ IsRest(ClientCalls, ClientCalls) /\ Made(ClientCalls, ClientCalls) = {}
      /\ ClientCalls # <<>> /\ "SEM_SERVER" \in Names
  BY NoneMade, ClientList DEF Names, Sems
<1>8. ClientInv'
  BY <1>1, <1>5, <1>7 DEF ClientInv
<1> QED BY <1>3, <1>4, <1>6, <1>8 DEF Inv, HandshakeInv

(* The client opens a name: after the current server's first semaphore it finds
   this server's objects only. *)
LEMMA ClientOpens ==
    ASSUME Inv, NEW n \in Names, ClientOpen(n)
    PROVE  Inv'
<1>1. /\ cli_calls # <<>> /\ Head(cli_calls) = <<"open", n>> /\ cli_calls' = Tail(cli_calls)
      /\ names[n] # 0
      /\ cli_open' = [cli_open EXCEPT ![n] = names[n]]
      /\ cli_meta' = IF n = "SHM" THEN "SHM" \in written[names[n]] ELSE cli_meta
      /\ cli_attempt' = 0
      /\ UNCHANGED <<names, sem_value, written, cli_state, cli_runs>> /\ UNCHANGED srvVars
  BY DEF ClientOpen, ClientMakes, hostVars
<1>2. TypeOK /\ ServerInv /\ HostInv /\ ClientInv
  BY DEF Inv, HandshakeInv
<1>3. /\ Tail(cli_calls) \in Seq(Calls) /\ cli_state = "connecting"
      /\ IsRest(Tail(cli_calls), ClientCalls)
      /\ Made(Tail(cli_calls), ClientCalls) = Made(cli_calls, ClientCalls) \cup {<<"open", n>>}
      /\ Tail(cli_calls) # <<>>
      /\ n = "SEM_SERVER" => Made(cli_calls, ClientCalls) = {}
      /\ n = "SHM" => <<"wait", "SEM_CLIENT">> \in Made(cli_calls, ClientCalls)
  BY <1>1, ClientAt
<1>4. TypeOK'
  <2>1. cli_open' \in [Names -> 0..MaxServers]
    BY <1>1, <1>2 DEF TypeOK
  <2>2. cli_meta' \in BOOLEAN
    <3>1. ("SHM" \in written[names[n]]) \in BOOLEAN
      OBVIOUS
    <3>2. cli_meta \in BOOLEAN
      BY <1>2 DEF TypeOK
    <3> QED BY <1>1, <3>1, <3>2
  <2>3. cli_attempt' \in 0..ClientAttempts /\ cli_calls' \in Seq(Calls)
    BY <1>1, <1>3, BoundsAssumption
  <2> QED BY <1>1, <1>2, <2>1, <2>2, <2>3 DEF TypeOK, srvVars
<1>5. ServerInv'
  BY <1>1, <1>2, ServerKeeps
<1>6. cli_open'[n] = names[n] /\ \A m \in Names : m # n => cli_open'[m] = cli_open[m]
  BY <1>1, <1>2 DEF TypeOK
<1>7. "SEM_SERVER" \in Names /\ "SHM" \in Names /\ "SHM" \in Parts
  BY DEF Names, Sems, Parts
<1>8. HostInv'
  BY <1>1, <1>2, <1>6, <1>7 DEF HostInv, ServerRuns, srvVars
<1>9. /\ IsRest(cli_calls, ClientCalls) /\ cli_calls # <<>>
      /\ \A m \in Names : <<"open", m>> \in Made(cli_calls, ClientCalls) <=> cli_open[m] # 0
      /\ (cli_open["SEM_SERVER"] = srv_gen /\ srv_gen # 0) =>
                /\ \A m \in Names : cli_open[m] \in {0, srv_gen}
                /\ <<"wait", "SEM_CLIENT">> \in Made(cli_calls, ClientCalls) => written[srv_gen] = Parts
                /\ <<"open", "SHM">> \in Made(cli_calls, ClientCalls) => cli_meta
  BY <1>1, <1>2, <1>3 DEF ClientInv
<1>10. \A m \in Names : <<"open", m>> \in Made(cli_calls', ClientCalls) <=> cli_open'[m] # 0
  BY <1>1, <1>3, <1>6, <1>9
<1>11. (cli_open'["SEM_SERVER"] = srv_gen /\ srv_gen # 0) =>
                /\ \A m \in Names : cli_open'[m] \in {0, srv_gen}
                /\ <<"wait", "SEM_CLIENT">> \in Made(cli_calls', ClientCalls) => written[srv_gen] = Parts
                /\ <<"open", "SHM">> \in Made(cli_calls', ClientCalls) => cli_meta'
  <2> HAVE cli_open'["SEM_SERVER"] = srv_gen /\ srv_gen # 0
  <2>1. CASE n = "SEM_SERVER"
    <3>1. \A m \in Names : m # n => cli_open[m] = 0
      BY <1>3, <1>9, <2>1
    <3> QED BY <1>1, <1>3, <1>6, <2>1, <3>1
  <2>2. CASE n # "SEM_SERVER"
    <3>1. cli_open["SEM_SERVER"] = srv_gen
      BY <1>6, <1>7, <2>2
    <3>2. names[n] = srv_gen
      BY <1>1, <1>2, <3>1 DEF HostInv
    <3>3. \A m \in Names : cli_open'[m] \in {0, srv_gen}
      BY <1>6, <1>9, <3>1, <3>2
    <3>4. <<"wait", "SEM_CLIENT">> \in Made(cli_calls', ClientCalls) => written[srv_gen] = Parts
      BY <1>1, <1>3, <1>9, <3>1
    <3>5. <<"open", "SHM">> \in Made(cli_calls', ClientCalls) => cli_meta'
      <4>1. CASE n = "SHM"
        BY <1>1, <1>3, <1>7, <1>9, <3>1, <3>2, <4>1
      <4>2. CASE n # "SHM"
        BY <1>1, <1>3, <1>9, <3>1, <4>2
      <4> QED BY <4>1, <4>2
    <3> QED BY <3>3, <3>4, <3>5
  <2> QED BY <2>1, <2>2
<1>12. ClientInv'
  <2>1. srv_gen' = srv_gen /\ cli_calls' # <<>> /\ IsRest(cli_calls', ClientCalls)
    BY <1>1, <1>3 DEF srvVars
  <2> QED BY <1>1, <1>3, <1>10, <1>11, <2>1 DEF ClientInv
<1> QED BY <1>4, <1>5, <1>8, <1>12 DEF Inv, HandshakeInv

(* The client disconnects.                                                  *)
LEMMA ClientDisconnects ==
    ASSUME Inv, ClientDisconnect, cli_attempt' \in 0..ClientAttempts
    PROVE  Inv'
<1> DEFINE open == {n \in Names : cli_open[n] # 0}
<1>1. /\ cli_state' = "closing" /\ cli_calls' = CloseCalls(open)
      /\ UNCHANGED <<names, sem_value, written, cli_runs, cli_open, cli_meta>> /\ UNCHANGED srvVars
  BY DEF ClientDisconnect, hostVars
<1>2. TypeOK /\ ServerInv /\ HostInv
  BY DEF Inv, HandshakeInv
<1>3. /\ CloseCalls(open) \in Seq(Calls)
      /\ \A i \in DOMAIN CloseCalls(open) : CloseCalls(open)[i][1] = "unlink"
  BY CloseList
<1> HIDE DEF open
<1>4. TypeOK'
  BY <1>1, <1>2, <1>3 DEF TypeOK, srvVars
<1>5. ServerInv'
  BY <1>1, <1>2, ServerKeeps
<1>6. HostInv'
  BY <1>1, <1>2, HostKeeps DEF srvVars
<1>7. ClientInv'
  BY <1>1, <1>3 DEF ClientInv
<1> QED BY <1>4, <1>5, <1>6, <1>7 DEF Inv, HandshakeInv

(* The client finds no semaphore and tries again, or gives up.              *)
LEMMA ClientRetries ==
    ASSUME Inv, NEW n \in Names, ClientRetry(n)
    PROVE  Inv'
<1>1. TypeOK /\ ServerInv /\ HostInv /\ ClientInv
  BY DEF Inv, HandshakeInv
<1>2. cli_attempt' \in 0..ClientAttempts
  BY <1>1, BoundsAssumption DEF ClientRetry, TypeOK
<1>3. CASE ClientDisconnect
  BY <1>2, <1>3, ClientDisconnects
<1>4. CASE UNCHANGED <<hostVars, srvVars, cli_state, cli_runs, cli_calls, cli_open, cli_meta>>
  <2>1. /\ UNCHANGED <<names, sem_value, written, cli_state, cli_runs, cli_calls, cli_open, cli_meta>>
        /\ UNCHANGED srvVars /\ srv_gen' = srv_gen
    BY <1>4 DEF hostVars, srvVars
  <2>2. TypeOK'
    BY <1>1, <1>2, <2>1 DEF TypeOK, srvVars
  <2>3. ServerInv'
    BY <1>1, <2>1, ServerKeeps
  <2>4. HostInv'
    BY <1>1, <2>1, HostKeeps DEF srvVars
  <2>5. ClientInv'
    BY <1>1, <2>1 DEF ClientInv
  <2> QED BY <2>2, <2>3, <2>4, <2>5 DEF Inv, HandshakeInv
<1> QED BY <1>3, <1>4 DEF ClientRetry

(* The client refuses, fails or quits.                                      *)
LEMMA ClientGivesUp ==
    ASSUME Inv, ClientRefuses \/ ClientFails \/ ClientQuits
    PROVE  Inv'
<1>1. cli_attempt \in 0..ClientAttempts
  BY DEF Inv, TypeOK
<1> QED BY <1>1, ClientDisconnects DEF ClientRefuses, ClientFails, ClientQuits

(* The client's wait ends: the server that posted has written everything.   *)
LEMMA ClientTakes ==
    ASSUME Inv, ClientGets
    PROVE  Inv'
<1> DEFINE g == cli_open["SEM_CLIENT"]
<1>1. /\ cli_calls # <<>> /\ Head(cli_calls) = <<"wait", "SEM_CLIENT">> /\ cli_calls' = Tail(cli_calls)
      /\ sem_value[g]["SEM_CLIENT"] > 0
      /\ sem_value' = [sem_value EXCEPT ![g]["SEM_CLIENT"] = @ - 1]
      /\ UNCHANGED <<names, written, cli_state, cli_runs, cli_open, cli_attempt, cli_meta>>
      /\ UNCHANGED srvVars
  BY DEF ClientGets, ClientMakes
<1>2. TypeOK /\ ServerInv /\ HostInv /\ ClientInv
  BY DEF Inv, HandshakeInv
<1>3. /\ Tail(cli_calls) \in Seq(Calls) /\ cli_state = "connecting"
      /\ IsRest(Tail(cli_calls), ClientCalls)
      /\ Made(Tail(cli_calls), ClientCalls) = Made(cli_calls, ClientCalls) \cup {<<"wait", "SEM_CLIENT">>}
      /\ Tail(cli_calls) # <<>>
      /\ <<"open", "SEM_CLIENT">> \in Made(cli_calls, ClientCalls)
  BY <1>1, ClientAt
<1>4. "SEM_CLIENT" \in Names /\ "SEM_CLIENT" \in Sems
  BY DEF Names, Sems
<1>5. g \in Generations /\ g # 0
  <2>1. g # 0
    BY <1>2, <1>3, <1>4 DEF ClientInv
  <2>2. g \in 0..MaxServers
    BY <1>2, <1>4 DEF TypeOK
  <2> QED BY <2>1, <2>2, BoundsAssumption DEF Generations
<1>6. sem_value[g]["SEM_CLIENT"] \in Nat
  BY <1>2, <1>4, <1>5 DEF TypeOK
<1> HIDE DEF g
<1>7. TypeOK'
  <2>1. sem_value' \in [Generations -> [Sems -> Nat]]
    BY <1>1, <1>2, <1>4, <1>5, <1>6, SMTT(30) DEF TypeOK
  <2> QED BY <1>1, <1>2, <1>3, <2>1 DEF TypeOK, srvVars
<1>8. ServerInv'
  BY <1>1, <1>2, ServerKeeps
<1>9. \A h \in Generations : sem_value'[h]["SEM_CLIENT"] > 0 => sem_value[h]["SEM_CLIENT"] > 0
  BY <1>1, <1>2, <1>4, <1>5, <1>6 DEF TypeOK
<1>10. HostInv'
  BY <1>1, <1>2, <1>9, HostKeeps DEF srvVars
<1>11. cli_open["SEM_SERVER"] = srv_gen /\ srv_gen # 0 => written[srv_gen] = Parts
  BY <1>1, <1>2, <1>3, <1>4, <1>5 DEF ClientInv, HostInv, g
<1>12. ClientInv'
  <2>1. srv_gen' = srv_gen
    BY <1>1 DEF srvVars
  <2> QED BY <1>1, <1>2, <1>3, <1>11, <2>1 DEF ClientInv
<1> QED BY <1>7, <1>8, <1>10, <1>12 DEF Inv, HandshakeInv

(* The client finds the magic.                                              *)
LEMMA ClientChecks ==
    ASSUME Inv, ClientCheck
    PROVE  Inv'
<1>1. /\ cli_calls # <<>> /\ Head(cli_calls) = <<"check", "MAGIC">> /\ cli_calls' = Tail(cli_calls)
      /\ UNCHANGED <<names, sem_value, written, cli_state, cli_runs, cli_open, cli_attempt, cli_meta>>
      /\ UNCHANGED srvVars /\ srv_gen' = srv_gen
  BY DEF ClientCheck, ClientMakes, hostVars, srvVars
<1>2. TypeOK /\ ServerInv /\ HostInv /\ ClientInv
  BY DEF Inv, HandshakeInv
<1>3. /\ Tail(cli_calls) \in Seq(Calls) /\ cli_state = "connecting"
      /\ IsRest(Tail(cli_calls), ClientCalls)
      /\ Made(Tail(cli_calls), ClientCalls) = Made(cli_calls, ClientCalls) \cup {<<"check", "MAGIC">>}
      /\ Tail(cli_calls) # <<>>
  BY <1>1, ClientAt
<1>4. TypeOK'
  BY <1>1, <1>2, <1>3 DEF TypeOK, srvVars
<1>5. ServerInv'
  BY <1>1, <1>2, ServerKeeps
<1>6. HostInv'
  BY <1>1, <1>2, HostKeeps DEF srvVars
<1>7. ClientInv'
  BY <1>1, <1>2, <1>3 DEF ClientInv
<1> QED BY <1>4, <1>5, <1>6, <1>7 DEF Inv, HandshakeInv

(* The client answers.                                                      *)
LEMMA ClientPosts ==
    ASSUME Inv, ClientPost
    PROVE  Inv'
<1> DEFINE g == cli_open["SEM_SERVER"]
<1>1. /\ cli_calls # <<>> /\ Head(cli_calls) = <<"post", "SEM_SERVER">> /\ cli_calls' = Tail(cli_calls)
      /\ sem_value' = [sem_value EXCEPT ![g]["SEM_SERVER"] = @ + 1]
      /\ cli_state' = "connected"
      /\ UNCHANGED <<names, written, cli_runs, cli_open, cli_attempt, cli_meta>>
      /\ UNCHANGED srvVars /\ srv_gen' = srv_gen
  BY DEF ClientPost, ClientMakes, srvVars
<1>2. TypeOK /\ ServerInv /\ HostInv /\ ClientInv
  BY DEF Inv, HandshakeInv
<1>3. /\ cli_state = "connecting" /\ Tail(cli_calls) = <<>>
      /\ IsRest(Tail(cli_calls), ClientCalls)
      /\ Made(Tail(cli_calls), ClientCalls) = Made(cli_calls, ClientCalls) \cup {<<"post", "SEM_SERVER">>}
      /\ \A n \in Names : <<"open", n>> \in Made(cli_calls, ClientCalls)
  BY <1>1, ClientAt
<1>4. "SEM_SERVER" \in Names /\ "SEM_SERVER" \in Sems
  BY DEF Names, Sems
<1>5. g \in Generations
  <2>1. g # 0
    BY <1>2, <1>3, <1>4 DEF ClientInv
  <2>2. g \in 0..MaxServers
    BY <1>2, <1>4 DEF TypeOK
  <2> QED BY <2>1, <2>2, BoundsAssumption DEF Generations
<1> HIDE DEF g
<1>6. TypeOK'
  <2>1. sem_value' \in [Generations -> [Sems -> Nat]]
    BY <1>1, <1>2, <1>4, <1>5 DEF TypeOK
  <2>2. <<>> \in Seq(Calls) /\ cli_calls' = <<>>
    BY <1>1, <1>3
  <2> QED BY <1>1, <1>2, <2>1, <2>2 DEF TypeOK, srvVars
<1>7. ServerInv'
  BY <1>1, <1>2, ServerKeeps
<1>8. \A h \in Generations : sem_value'[h]["SEM_CLIENT"] = sem_value[h]["SEM_CLIENT"]
  BY <1>1, <1>2, <1>4, <1>5 DEF TypeOK, Sems
<1>9. HostInv'
  BY <1>1, <1>2, <1>8, HostKeeps DEF srvVars
<1>10. ClientInv'
  BY <1>1, <1>2, <1>3 DEF ClientInv
<1> QED BY <1>6, <1>7, <1>9, <1>10 DEF Inv, HandshakeInv

(* The client removes a name, which may be a younger server's.              *)
LEMMA ClientUnlinks ==
    ASSUME Inv, NEW n \in Names, ClientUnlink(n)
    PROVE  Inv'
<1>1. /\ cli_calls # <<>> /\ Head(cli_calls) = <<"unlink", n>> /\ cli_calls' = Tail(cli_calls)
      /\ names' = [names EXCEPT ![n] = 0] /\ cli_open' = [cli_open EXCEPT ![n] = 0]
      /\ UNCHANGED <<sem_value, written, cli_state, cli_runs, cli_attempt, cli_meta>>
      /\ UNCHANGED srvVars
  BY DEF ClientUnlink, ClientMakes
<1>2. TypeOK /\ ServerInv /\ HostInv
  BY DEF Inv, HandshakeInv
<1>3. /\ Tail(cli_calls) \in Seq(Calls) /\ cli_state = "closing"
      /\ \A i \in DOMAIN Tail(cli_calls) : Tail(cli_calls)[i][1] = "unlink"
  BY <1>1, ClientAt
<1>4. TypeOK'
  BY <1>1, <1>2, <1>3, BoundsAssumption DEF TypeOK, srvVars
<1>5. /\ \A m \in Names : names'[m] = IF m = n THEN 0 ELSE names[m]
      /\ \A m \in Names : cli_open'[m] = IF m = n THEN 0 ELSE cli_open[m]
  BY <1>1, <1>2 DEF TypeOK
<1>6. ServerInv'
  BY <1>1, <1>2, <1>5, ServerKeeps
<1>7. HostInv'
  <2>1. /\ "SEM_SERVER" \in Names /\ srv_gen \in Nat
        /\ srv_gen' = srv_gen /\ srv_state' = srv_state /\ srv_open' = srv_open
    BY <1>1, <1>2 DEF Names, Sems, TypeOK, srvVars
  <2>2. \A m \in Names : names'[m] <= srv_gen /\ cli_open'[m] <= srv_gen
    BY <1>2, <1>5, <2>1 DEF HostInv
  <2>3. srv_gen = 0 => \A m \in Names : names'[m] \in {0, srv_gen} /\ names[m] = 0
    BY <1>2, <1>5, <2>1 DEF HostInv, TypeOK
  <2>4. srv_gen # 0 => ServerRuns \/ srv_state \in {"failed", "crashed"}
    BY <1>2 DEF TypeOK, ServerInv, ServerRuns
  <2> QED BY <1>1, <1>2, <1>5, <2>1, <2>2, <2>3, <2>4 DEF HostInv, ServerRuns, ServerInv
<1>8. ClientInv'
  BY <1>1, <1>3 DEF ClientInv
<1> QED BY <1>4, <1>6, <1>7, <1>8 DEF Inv, HandshakeInv

(* The client has closed everything, or is killed.                          *)
LEMMA ClientEnds ==
    ASSUME Inv, ClientClosed \/ ClientCrash
    PROVE  Inv'
<1>1. /\ cli_state' \in {"failed", "crashed"} /\ cli_calls' = <<>>
      /\ cli_open' \in {cli_open, Nothing}
      /\ UNCHANGED <<names, sem_value, written, cli_runs, cli_attempt, cli_meta>>
      /\ UNCHANGED srvVars
  BY DEF ClientClosed, ClientCrash, hostVars
<1>2. TypeOK /\ ServerInv /\ HostInv
  BY DEF Inv, HandshakeInv
<1>3. TypeOK'
  <2>1. cli_open' \in [Names -> 0..MaxServers]
    BY <1>1, <1>2, BoundsAssumption DEF TypeOK, Nothing
  <2> QED BY <1>1, <1>2, <2>1 DEF TypeOK, srvVars
<1>4. ServerInv'
  BY <1>1, <1>2, ServerKeeps
<1>5. HostInv'
  BY <1>1, <1>2, HostKeeps DEF srvVars, Nothing
<1>6. ClientInv'
  BY <1>1 DEF ClientInv
<1> QED BY <1>3, <1>4, <1>5, <1>6 DEF Inv, HandshakeInv

-----------------------------------------------------------------------------
(* Every step keeps the invariant.                                          *)
LEMMA Step ==
    ASSUME Inv, [Next]_vars
    PROVE  Inv'
<1>1. CASE UNCHANGED vars
  <2>1. UNCHANGED <<names, sem_value, written, srv_state, srv_gen, srv_calls, srv_open, srv_attempt,
                    cli_state, cli_runs, cli_calls, cli_open, cli_attempt, cli_meta>>
    BY <1>1 DEF vars, hostVars, srvVars, cliVars
  <2>2. TypeOK'
    BY <2>1 DEF Inv, TypeOK
  <2>3. ServerInv'
    BY <2>1 DEF Inv, HandshakeInv, ServerInv
  <2>4. HostInv'
    BY <2>1 DEF Inv, HandshakeInv, HostInv, ServerRuns
  <2>5. ClientInv'
    BY <2>1 DEF Inv, HandshakeInv, ClientInv
  <2> QED BY <2>2, <2>3, <2>4, <2>5 DEF Inv, HandshakeInv
<1>2. CASE ServerStart
  BY <1>2, ServerStarts
<1>3. CASE ServerStep
  <2>1. CASE ServerPhase
    BY <2>1, ServerChangesPhase
  <2>2. CASE ServerPost
    BY <2>2, ServerPosts
  <2>3. CASE ServerGets
    BY <2>3, ServerTakes
  <2>4. CASE ServerTimeout
    BY <2>4, ServerTimesOut
  <2>5. ASSUME NEW n \in Names, ServerUnlink(n) \/ ServerCreate(n)
        PROVE  Inv'
    BY <2>5, ServerUnlinks, ServerCreates
  <2>6. ASSUME NEW p \in Parts, ServerWrite(p)
        PROVE  Inv'
    BY <2>6, ServerWrites
  <2> QED BY <1>3, <2>1, <2>2, <2>3, <2>4, <2>5, <2>6 DEF ServerStep
<1>4. CASE ServerFails
  BY <1>4, ServerFailing
<1>5. CASE ServerCrash
  BY <1>5, ServerCrashes
<1>6. CASE ClientStart
  BY <1>6, ClientStarts
<1>7. CASE ClientStep
  <2>1. CASE ClientRefuses
    BY <2>1, ClientGivesUp
  <2>2. CASE ClientGets
    BY <2>2, ClientTakes
  <2>3. CASE ClientCheck
    BY <2>3, ClientChecks
  <2>4. CASE ClientPost
    BY <2>4, ClientPosts
  <2>5. CASE ClientClosed
    BY <2>5, ClientEnds
  <2>6. ASSUME NEW n \in Names, ClientOpen(n) \/ ClientRetry(n) \/ ClientUnlink(n)
        PROVE  Inv'
    BY <2>6, ClientOpens, ClientRetries, ClientUnlinks
  <2> QED BY <1>7, <2>1, <2>2, <2>3, <2>4, <2>5, <2>6 DEF ClientStep
<1>8. CASE ClientFails \/ ClientQuits
  BY <1>8, ClientGivesUp
<1>9. CASE ClientCrash
  BY <1>9, ClientEnds
<1> QED BY <1>1, <1>2, <1>3, <1>4, <1>5, <1>6, <1>7, <1>8, <1>9 DEF Next

(* Every behaviour keeps the types and the invariant, whatever fails, times
   out, crashes and is started again.                                       *)
THEOREM Invariant == Spec => []Inv
<1>1. Init => Inv
  BY InitHolds
<1>2. Inv /\ [Next]_vars => Inv'
  BY Step
<1> QED BY <1>1, <1>2, PTL DEF Spec

(* Client and server stay within their attempts, and no call of theirs uses an
   object that does not exist.                                              *)
THEOREM Typing == Spec => []TypeOK
<1>1. Inv => TypeOK
  BY DEF Inv
<1> QED BY <1>1, Invariant, PTL

(* The three parts of the invariant: server, host and client.               *)
THEOREM HandshakeInvariant == Spec => []HandshakeInv
<1>1. Inv => HandshakeInv
  BY DEF Inv
<1> QED BY <1>1, Invariant, PTL

(* The invariant gives the right answer: at the answer every name was opened. *)
LEMMA AnswerFollows ==
    ASSUME Inv
    PROVE  AnswerIsRight
<1> SUFFICES ASSUME cli_calls = << <<"post", "SEM_SERVER">> >> \/ cli_state = "connected",
                    cli_open["SEM_SERVER"] = srv_gen
             PROVE  /\ \A n \in Names : cli_open[n] = srv_gen
                    /\ written[srv_gen] = Parts
                    /\ cli_meta
  BY DEF AnswerIsRight
<1>1. TypeOK /\ ClientInv /\ "SEM_SERVER" \in Names /\ "SHM" \in Names
  BY DEF Inv, HandshakeInv, Names, Sems
<1>2. /\ cli_state \in {"connecting", "connected"}
      /\ <<"wait", "SEM_CLIENT">> \in Made(cli_calls, ClientCalls)
      /\ \A n \in Names : <<"open", n>> \in Made(cli_calls, ClientCalls)
  <2>1. CASE cli_calls = << <<"post", "SEM_SERVER">> >>
    <3>1. cli_calls # <<>> /\ Head(cli_calls) = <<"post", "SEM_SERVER">>
      BY <2>1
    <3> QED BY <3>1, ClientAt
  <2>2. CASE cli_state = "connected"
    <3>1. cli_calls = <<>>
      BY <1>1, <2>2 DEF ClientInv
    <3>2. /\ <<"wait", "SEM_CLIENT">> \in Made(<<>>, ClientCalls)
          /\ \A n \in Names : <<"open", n>> \in Made(<<>>, ClientCalls)
      BY ClientEverything
    <3> QED BY <2>2, <3>1, <3>2
  <2> QED BY <2>1, <2>2
<1>3. \A n \in Names : cli_open[n] # 0
  BY <1>1, <1>2 DEF ClientInv
<1> QED BY <1>1, <1>2, <1>3 DEF ClientInv

(* A client that answers the current server is attached to this server's
   objects and to no leftover, and found all of them initialised.           *)
THEOREM AnswersAreRight == Spec => []AnswerIsRight
<1>1. Inv => AnswerIsRight
  BY AnswerFollows
<1> QED BY <1>1, Invariant, PTL

(* A server that failed leaves none of its names behind.                    *)
THEOREM FailuresLeaveNoNames == Spec => []FailedServerLeavesNoNames
<1>1. Inv => FailedServerLeavesNoNames
  BY DEF Inv, HandshakeInv, ServerInv, HostInv, FailedServerLeavesNoNames
<1> QED BY <1>1, Invariant, PTL
=============================================================================
