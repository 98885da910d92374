--------------------------- MODULE NtpClientProofs ---------------------------
(***************************************************************************)
(* Proofs about NtpClient, for every port range, pool size, timeout and    *)
(* lifetime that ConstantsAssumption admits.                               *)
(***************************************************************************)
EXTENDS NtpClient, FiniteSetTheorems, TLAPS

-----------------------------------------------------------------------------
(* The inductive invariant. *)

(* The port that was allocated k allocations ago. *)
Back(k) ==
  IF udp_port - k >= UDP_LOCAL_PORT_RANGE_START
  THEN udp_port - k
  ELSE udp_port - k + NumPorts

(* The PCB is in the list exactly while ntp_get_time waits. *)
PcbOpenWhileWaiting ==
  udp_pcbs = IF pc \in {"wait", "poll"} THEN {udp_port} ELSE {}

(* A datagram's port is the one its attempt allocated, and the datagram is  *)
(* too young for that port to have come round again.                        *)
InWindow(d) ==
  /\ d.attempt <= attempt
  /\ attempt - d.attempt < Lifetime
  /\ d.port = Back(attempt - d.attempt)

AnswersCurrent ==
  \A d \in resps :
    /\ d.ts <= now
    /\ pc \in {"wait", "poll"} /\ d.attempt = attempt => callTime <= d.ts

IInv ==
  /\ TypeOK
  /\ PcbOpenWhileWaiting
  /\ \A d \in reqs \cup resps : InWindow(d)
  /\ AnswersCurrent
  /\ AnswerIsFresh
  /\ pc = "poll" => timeout > 0
  /\ pc = "start" => attempt < MaxAttempts /\ ntp_response_received = 0

-----------------------------------------------------------------------------
(* Lemmas about the UDP layer. *)

(* With no PCB in the list udp_new_port gives the very next port. *)
LEMMA NewPortIsNext ==
  ASSUME udp_pcbs = {}, udp_port \in Ports
  PROVE  /\ udp_new_port = Forward(udp_port, 1)
         /\ udp_new_port \in Ports
<1> DEFINE free == {k \in 1..NumPorts : Forward(udp_port, k) \notin udp_pcbs}
           first == CHOOSE k \in free : \A j \in free : k <= j
<1>1. free = 1..NumPorts
  OBVIOUS
<1>2. 1 \in free /\ \A j \in free : 1 <= j
  BY <1>1, ConstantsAssumption DEF NumPorts
<1>3. first \in free /\ \A j \in free : first <= j
  BY <1>2
<1>4. first = 1
  BY <1>1, <1>2, <1>3, ConstantsAssumption DEF NumPorts
<1>5. udp_new_port = Forward(udp_port, 1)
  BY <1>4 DEF udp_new_port
<1>6. Forward(udp_port, 1) \in Ports
  BY ConstantsAssumption DEF Forward, Ports, NumPorts
<1> QED
  BY <1>5, <1>6

(* With no PCB in the list the pool has one left. *)
LEMMA PoolHasRoom ==
  ASSUME udp_pcbs = {}
  PROVE  ~PoolIsEmpty
BY FS_EmptySet, ConstantsAssumption DEF PoolIsEmpty

(* Opening a PCB moves the window of live datagrams by one allocation. *)
LEMMA WindowMoves ==
  ASSUME TypeOK, udp_pcbs = {}, \A d \in reqs \cup resps : InWindow(d),
         udp_port' = udp_new_port, attempt' = attempt + 1,
         NEW d \in Alive(reqs, attempt') \cup Alive(resps, attempt')
  PROVE  InWindow(d)'
<1>1. d \in reqs \cup resps /\ attempt' - d.attempt < Lifetime
  BY DEF Alive
<1>2. InWindow(d) /\ d.attempt \in Nat /\ attempt \in Nat /\ udp_port \in Ports
  BY <1>1 DEF TypeOK, Requests, Responses
<1>3. udp_port' = Forward(udp_port, 1)
  BY <1>2, NewPortIsNext
<1>4. attempt' - d.attempt = (attempt - d.attempt) + 1
  BY <1>2
<1>5. Back(attempt - d.attempt)' = Back(attempt - d.attempt)
  <2> DEFINE k == attempt - d.attempt
  <2>1. k \in 0..(NumPorts - 2)
    BY <1>1, <1>2, <1>4, ConstantsAssumption DEF InWindow, NumPorts
  <2> QED
    BY <2>1, <1>2, <1>3, <1>4, ConstantsAssumption DEF Back, Forward, Ports, NumPorts
<1> QED
  BY <1>1, <1>2, <1>4, <1>5 DEF InWindow

(* Two ages below the number of ports name the same port only if equal, so  *)
(* a datagram for the open PCB belongs to the current attempt.              *)
LEMMA WindowNamesAttempt ==
  ASSUME TypeOK, NEW d \in reqs \cup resps, InWindow(d), d.port = udp_port
  PROVE  d.attempt = attempt
BY ConstantsAssumption DEF TypeOK, Requests, Responses, InWindow, Back, Ports, NumPorts

-----------------------------------------------------------------------------
(* The invariant is inductive. *)

(* The client starts in the invariant. *)
LEMMA InitIInv == Init => IInv
BY ConstantsAssumption
   DEF Init, IInv, TypeOK, PcbOpenWhileWaiting, AnswersCurrent, AnswerIsFresh,
       NumPorts, FAILED

(* A call of ntp_client_get_time keeps the invariant. *)
LEMMA CallIInv == IInv /\ Call => IInv'
<1> SUFFICES ASSUME IInv, Call PROVE IInv'
  OBVIOUS
<1>1. TypeOK'
  BY ConstantsAssumption DEF IInv, TypeOK, Call, network
<1>2. \A d \in reqs' \cup resps' : InWindow(d)'
  BY DEF IInv, Call, network, InWindow, Back
<1> QED
  BY <1>1, <1>2
     DEF IInv, Call, network, PcbOpenWhileWaiting, AnswersCurrent, AnswerIsFresh

(* A request that cannot be sent keeps the invariant. *)
LEMMA RequestFailsIInv == IInv /\ RequestFails => IInv'
<1> SUFFICES ASSUME IInv, RequestFails PROVE IInv'
  OBVIOUS
<1>1. udp_pcbs = {} /\ udp_port \in Ports
  BY DEF IInv, TypeOK, PcbOpenWhileWaiting, RequestFails
<1>2. OpenPcb /\ udp_pcbs' = {}
  BY <1>1, PoolHasRoom DEF RequestFails
<1>3. TypeOK'
  <2>1. udp_port' \in Ports
    BY <1>1, <1>2, NewPortIsNext DEF OpenPcb
  <2>2. attempt' \in 0..MaxAttempts
    BY <1>2, ConstantsAssumption DEF IInv, TypeOK, OpenPcb, RequestFails
  <2> QED
    BY <1>2, <2>1, <2>2 DEF IInv, TypeOK, RequestFails, Alive, FAILED
<1>4. \A d \in reqs' \cup resps' : InWindow(d)'
  BY <1>1, <1>2, WindowMoves DEF IInv, RequestFails, OpenPcb
<1> QED
  BY <1>2, <1>3, <1>4
     DEF IInv, RequestFails, Alive, PcbOpenWhileWaiting, AnswersCurrent, AnswerIsFresh

(* A request that is sent keeps the invariant. *)
LEMMA RequestSentIInv == IInv /\ RequestSent => IInv'
<1> SUFFICES ASSUME IInv, RequestSent PROVE IInv'
  OBVIOUS
<1>1. udp_pcbs = {} /\ udp_port \in Ports
  BY DEF IInv, TypeOK, PcbOpenWhileWaiting, RequestSent
<1>2. udp_pcbs' = {udp_port'}
  BY <1>1 DEF RequestSent
<1>3. TypeOK'
  <2>1. udp_port' \in Ports
    BY <1>1, NewPortIsNext DEF RequestSent, OpenPcb
  <2>2. attempt' \in 0..MaxAttempts
    BY ConstantsAssumption DEF IInv, TypeOK, RequestSent, OpenPcb
  <2>3. reqs' \subseteq Requests /\ resps' \subseteq Responses
    BY <2>1, <2>2 DEF IInv, TypeOK, RequestSent, Alive, Requests
  <2> QED
    BY <1>2, <2>1, <2>2, <2>3, ConstantsAssumption DEF IInv, TypeOK, RequestSent
<1>4. \A d \in reqs' \cup resps' : InWindow(d)'
  <2>1. ASSUME NEW d \in Alive(reqs, attempt') \cup Alive(resps, attempt')
        PROVE  InWindow(d)'
    BY <1>1, <2>1, WindowMoves DEF IInv, RequestSent, OpenPcb
  <2>2. ASSUME NEW d, d = [port |-> udp_port', attempt |-> attempt']
        PROVE  InWindow(d)'
    <3>1. attempt' - d.attempt = 0
      BY <2>2 DEF IInv, TypeOK, RequestSent, OpenPcb
    <3>2. Lifetime \in Nat /\ Lifetime > 0
      BY ConstantsAssumption DEF NumPorts
    <3>3. udp_port' = Forward(udp_port, 1)
      BY <1>1, NewPortIsNext DEF RequestSent, OpenPcb
    <3>4. Back(attempt - d.attempt)' = udp_port'
      BY <1>1, <3>1, <3>3, ConstantsAssumption DEF Back, Forward, Ports, NumPorts
    <3> QED
      BY <2>2, <3>1, <3>2, <3>4 DEF InWindow, IInv, TypeOK, RequestSent, OpenPcb
  <2>3. reqs' \cup resps' = Alive(reqs, attempt') \cup Alive(resps, attempt')
                              \cup {[port |-> udp_port', attempt |-> attempt']}
    BY DEF RequestSent
  <2> QED
    BY <2>1, <2>2, <2>3
<1>5. AnswersCurrent'
  BY DEF IInv, TypeOK, AnswersCurrent, RequestSent, OpenPcb, Alive, InWindow, Responses
<1> QED
  BY <1>2, <1>3, <1>4, <1>5
     DEF IInv, RequestSent, PcbOpenWhileWaiting, AnswerIsFresh

(* Entering network_poll from the waiting loop keeps the invariant. *)
LEMMA BeginPollIInv == IInv /\ BeginPoll => IInv'
<1> SUFFICES ASSUME IInv, BeginPoll PROVE IInv'
  OBVIOUS
<1>1. TypeOK'
  BY ConstantsAssumption DEF IInv, TypeOK, BeginPoll, client, network
<1>2. \A d \in reqs' \cup resps' : InWindow(d)'
  BY DEF IInv, BeginPoll, client, network, InWindow, Back
<1> QED
  BY <1>1, <1>2
     DEF IInv, BeginPoll, client, network, TypeOK, PcbOpenWhileWaiting, AnswersCurrent,
         AnswerIsFresh

(* Leaving network_poll keeps the invariant. *)
LEMMA EndPollIInv == IInv /\ EndPoll => IInv'
<1> SUFFICES ASSUME IInv, EndPoll PROVE IInv'
  OBVIOUS
<1>1. TypeOK'
  BY ConstantsAssumption DEF IInv, TypeOK, EndPoll, client, network
<1>2. \A d \in reqs' \cup resps' : InWindow(d)'
  BY DEF IInv, EndPoll, client, network, InWindow, Back
<1> QED
  BY <1>1, <1>2
     DEF IInv, EndPoll, client, network, TypeOK, PcbOpenWhileWaiting, AnswersCurrent,
         AnswerIsFresh

(* The return of ntp_client_get_time keeps the invariant. *)
LEMMA ReturnIInv == IInv /\ Return => IInv'
<1> SUFFICES ASSUME IInv, Return PROVE IInv'
  OBVIOUS
<1>1. TypeOK'
  BY ConstantsAssumption DEF IInv, TypeOK, Return, client, network, AnswerIsFresh, FAILED
<1>2. \A d \in reqs' \cup resps' : InWindow(d)'
  BY DEF IInv, Return, client, network, InWindow, Back
<1> QED
  BY <1>1, <1>2
     DEF IInv, Return, client, network, TypeOK, PcbOpenWhileWaiting, AnswersCurrent,
         AnswerIsFresh

(* A datagram handed up by udp_input keeps the invariant. *)
LEMMA udp_inputIInv == ASSUME IInv, NEW d \in resps, udp_input(d) PROVE IInv'
<1>1. resps' \subseteq resps /\ d \in Responses
  BY DEF udp_input, IInv, TypeOK
<1>2. TypeOK'
  BY <1>1, ConstantsAssumption DEF IInv, TypeOK, udp_input, ntp_recv_callback, Responses
<1>3. \A e \in reqs' \cup resps' : InWindow(e)'
  BY <1>1 DEF IInv, udp_input, InWindow, Back
<1>4. AnswersCurrent'
  BY <1>1 DEF IInv, udp_input, AnswersCurrent
<1>5. ASSUME d.port \in udp_pcbs, pc = "poll"
      PROVE  d.ts \in callTime..now
  <2>1. d.port = udp_port
    BY <1>5 DEF IInv, PcbOpenWhileWaiting
  <2>2. d.attempt = attempt
    BY <2>1, WindowNamesAttempt DEF IInv
  <2> QED
    BY <1>1, <1>5, <2>2 DEF IInv, TypeOK, AnswersCurrent, Responses
<1>6. AnswerIsFresh'
  BY <1>5 DEF IInv, udp_input, ntp_recv_callback, AnswerIsFresh
<1> QED
  BY <1>2, <1>3, <1>4, <1>6 DEF IInv, udp_input, ntp_recv_callback, PcbOpenWhileWaiting

(* An answer of the server keeps the invariant. *)
LEMMA RespondIInv == ASSUME IInv, NEW r \in reqs, Respond(r) PROVE IInv'
<1>1. PICK full \in BOOLEAN :
        resps' = resps \cup {[port |-> r.port, attempt |-> r.attempt,
                              ts |-> now, full |-> full]}
  BY DEF Respond
<1>2. reqs' \subseteq reqs /\ r \in Requests
  BY DEF Respond, IInv, TypeOK
<1>3. [port |-> r.port, attempt |-> r.attempt, ts |-> now, full |-> full] \in Responses
  BY <1>2 DEF IInv, TypeOK, Requests, Responses
<1>4. TypeOK'
  BY <1>1, <1>2, <1>3 DEF IInv, TypeOK, Respond, client
<1>5. \A d \in reqs' \cup resps' : InWindow(d)'
  BY <1>1, <1>2 DEF IInv, Respond, client, InWindow, Back
<1>6. AnswersCurrent'
  BY <1>1, <1>2 DEF IInv, TypeOK, Respond, AnswersCurrent
<1> QED
  BY <1>4, <1>5, <1>6 DEF IInv, Respond, client, PcbOpenWhileWaiting, AnswerIsFresh

(* A tick of the kernel keeps the invariant. *)
LEMMA TickIInv == IInv /\ Tick => IInv'
<1> SUFFICES ASSUME IInv, Tick PROVE IInv'
  OBVIOUS
<1>1. TypeOK'
  BY ConstantsAssumption DEF IInv, TypeOK, Tick, client
<1>2. \A d \in reqs' \cup resps' : InWindow(d)'
  BY DEF IInv, Tick, client, InWindow, Back
<1>3. AnswersCurrent'
  BY DEF IInv, TypeOK, Tick, AnswersCurrent, Responses
<1> QED
  BY <1>1, <1>2, <1>3 DEF IInv, TypeOK, Tick, client, PcbOpenWhileWaiting, AnswerIsFresh

(* Every reachable state satisfies the inductive invariant. *)
THEOREM IInvHolds == Spec => []IInv
<1>1. IInv /\ [Next]_vars => IInv'
  <2> SUFFICES ASSUME IInv, [Next]_vars PROVE IInv'
    OBVIOUS
  <2>1. CASE Call
    BY <2>1, CallIInv
  <2>2. CASE GetTime
    BY <2>2, RequestFailsIInv, RequestSentIInv, BeginPollIInv, EndPollIInv, ReturnIInv
       DEF GetTime
  <2>3. ASSUME NEW d \in resps, udp_input(d) PROVE IInv'
    BY <2>3, udp_inputIInv
  <2>4. ASSUME NEW r \in reqs, Respond(r) PROVE IInv'
    BY <2>4, RespondIInv
  <2>5. CASE Tick
    BY <2>5, TickIInv
  <2>6. CASE UNCHANGED vars
    BY <2>6 DEF vars, client, network, IInv, TypeOK, PcbOpenWhileWaiting, InWindow, Back,
                AnswersCurrent, AnswerIsFresh
  <2> QED
    BY <2>1, <2>2, <2>3, <2>4, <2>5, <2>6 DEF Next
<1> QED
  BY InitIInv, <1>1, PTL DEF Spec

-----------------------------------------------------------------------------
(* What the invariant gives. *)

(* The state of ntp_get_time and of the UDP layer always has its type. *)
THEOREM TypeCorrect == Spec => []TypeOK
BY IInvHolds, PTL DEF IInv

(* ntp_get_time accepts no timestamp from before its own call, however late *)
(* or duplicated an earlier attempt's answer is, as long as no datagram     *)
(* outlives a full turn through the local ports.                            *)
THEOREM AnswersAreFresh == Spec => []AnswerIsFresh
BY IInvHolds, PTL DEF IInv

(* A datagram reaches the open PCB only if it belongs to this attempt. *)
THEOREM PortsNameAttempts == Spec => []PortNamesAttempt
<1>1. IInv => PortNamesAttempt
  <2> SUFFICES ASSUME IInv, NEW d \in reqs \cup resps, d.port \in udp_pcbs
               PROVE  d.attempt = attempt
    BY DEF PortNamesAttempt
  <2>1. d.port = udp_port
    BY DEF IInv, PcbOpenWhileWaiting
  <2> QED
    BY <2>1, WindowNamesAttempt DEF IInv
<1> QED
  BY <1>1, IInvHolds, PTL

(* No path through ntp_get_time leaks the PCB, so udp_new always succeeds. *)
THEOREM PcbsAvailable == Spec => []PcbAvailable
<1>1. IInv => PcbAvailable
  BY PoolHasRoom DEF IInv, PcbOpenWhileWaiting, PcbAvailable
<1> QED
  BY <1>1, IInvHolds, PTL

(* ntp_get_time implements the safety part of NtpService: every step is a   *)
(* step of the service under the refinement mapping, or leaves it alone.    *)
THEOREM ImplementsServiceSafety == Spec => Svc!Safety
<1>1. Init => Svc!Init
  BY DEF Init, Svc!Init, FAILED, Svc!FAILED
<1>2. IInv /\ [Next]_vars => [Svc!Next]_Svc!vars
  <2> SUFFICES ASSUME IInv, [Next]_vars PROVE [Svc!Next]_Svc!vars
    OBVIOUS
  <2>1. CASE Call
    BY <2>1 DEF Call, network, Svc!Next, Svc!Call
  <2>2. CASE RequestFails
    BY <2>2 DEF RequestFails, Svc!Next, Svc!Return, Svc!Fail, FAILED, Svc!FAILED
  <2>3. CASE RequestSent \/ BeginPoll \/ EndPoll
    BY <2>3 DEF RequestSent, BeginPoll, EndPoll, network, Svc!vars
  <2>4. CASE Return
    BY <2>4 DEF Return, network, IInv, AnswerIsFresh, Svc!Next, Svc!Return, Svc!Succeed,
                Svc!Fail, FAILED, Svc!FAILED
  <2>5. CASE Tick
    BY <2>5 DEF Tick, Svc!Next, Svc!Tick
  <2>6. ASSUME NEW d \in resps, udp_input(d) PROVE UNCHANGED Svc!vars
    BY <2>6 DEF udp_input, Svc!vars
  <2>7. ASSUME NEW r \in reqs, Respond(r) PROVE UNCHANGED Svc!vars
    BY <2>7 DEF Respond, Svc!vars
  <2>8. CASE UNCHANGED vars
    BY <2>8 DEF vars, network, Svc!vars
  <2> QED
    BY <2>1, <2>2, <2>3, <2>4, <2>5, <2>6, <2>7, <2>8 DEF Next, GetTime
<1> QED
  BY <1>1, <1>2, IInvHolds, PTL DEF Spec, Svc!Safety
=============================================================================
