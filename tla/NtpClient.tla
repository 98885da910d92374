------------------------------ MODULE NtpClient ------------------------------
(***************************************************************************)
(* ntp_get_time and ntp_recv_callback (src/network/ntp_client.c) over the  *)
(* UDP layer they use (udp_new, udp_bind, udp_new_port, udp_input,         *)
(* udp_remove of src/lwip/src/core/udp.c) and a network that loses,        *)
(* duplicates, delays and reorders datagrams.  lwIP runs with NO_SYS = 1   *)
(* inside the NTP task, so the callback runs only while that task is in    *)
(* lwip_periodic_handle.                                                   *)
(*                                                                         *)
(* A datagram carries the attempt it belongs to.  No action of the client  *)
(* reads that field: it is there for the properties and for the bound on   *)
(* how long a datagram lives.                                              *)
(***************************************************************************)
EXTENDS Integers, FiniteSets

CONSTANTS
  UDP_LOCAL_PORT_RANGE_START,
  UDP_LOCAL_PORT_RANGE_END,
  MEMP_NUM_UDP_PCB,    \* size of the pool udp_new allocates from
  NTP_TIMEOUT_CYCLES,  \* polls of one attempt
  Lifetime,            \* a datagram outlives fewer than Lifetime attempts
  MaxTime,             \* bound on the server's clock
  MaxAttempts,         \* bound on the ports allocated
  MaxInFlight          \* bound on the answers under way

NumPorts == UDP_LOCAL_PORT_RANGE_END - UDP_LOCAL_PORT_RANGE_START + 1

ASSUME ConstantsAssumption ==
  /\ UDP_LOCAL_PORT_RANGE_START \in Nat
  /\ UDP_LOCAL_PORT_RANGE_END \in Nat
  /\ UDP_LOCAL_PORT_RANGE_START <= UDP_LOCAL_PORT_RANGE_END
  /\ MEMP_NUM_UDP_PCB \in Nat /\ MEMP_NUM_UDP_PCB >= 2
  /\ NTP_TIMEOUT_CYCLES \in Nat
  /\ Lifetime \in 1..NumPorts
  /\ MaxTime \in Nat
  /\ MaxAttempts \in Nat
  /\ MaxInFlight \in Nat

VARIABLES
  pc,                     \* where ntp_get_time is; "idle" between two calls
  udp_port,               \* last local port allocated
  udp_pcbs,               \* ports of the PCBs with ntp_recv_callback
  ntp_response_received,
  ntp_timestamp,
  timeout,                \* polls left
  reqs,                   \* requests on their way to the server
  resps,                  \* answers on their way back
  now,                    \* the server's clock
  attempt,                \* ports allocated so far
  callTime,               \* the server's clock when the call began
  result                  \* what the latest call gave, FAILED for -1

client == <<udp_port, udp_pcbs, ntp_response_received, ntp_timestamp>>
network == <<reqs, resps, now>>
vars == <<pc, client, timeout, network, attempt, callTime, result>>

FAILED == -1
Ports == UDP_LOCAL_PORT_RANGE_START..UDP_LOCAL_PORT_RANGE_END
Requests == [port: Ports, attempt: 0..MaxAttempts]
Responses == [port: Ports, attempt: 0..MaxAttempts, ts: 0..MaxTime, full: BOOLEAN]

TypeOK ==
  /\ pc \in {"idle", "start", "wait", "poll"}
  /\ udp_port \in Ports
  /\ udp_pcbs \subseteq Ports
  /\ ntp_response_received \in {0, 1}
  /\ ntp_timestamp \in 0..MaxTime
  /\ timeout \in 0..NTP_TIMEOUT_CYCLES
  /\ reqs \subseteq Requests
  /\ resps \subseteq Responses
  /\ now \in 0..MaxTime
  /\ attempt \in 0..MaxAttempts
  /\ callTime \in 0..now
  /\ result \in -1..now

-----------------------------------------------------------------------------
(* The UDP layer. *)

(* The port that the k-th increment of udp_port gives, wrapping at the end. *)
Forward(port, k) ==
  IF port + k <= UDP_LOCAL_PORT_RANGE_END THEN port + k ELSE port + k - NumPorts

(* The first port after udp_port that no PCB is bound to.  The pool is      *)
(* smaller than the port range, so there is one.                            *)
udp_new_port ==
  LET free == {k \in 1..NumPorts : Forward(udp_port, k) \notin udp_pcbs}
  IN  Forward(udp_port, CHOOSE k \in free : \A j \in free : k <= j)

(* memp_malloc(MEMP_UDP_PCB) gives NULL: DHCP's PCB is the other user.      *)
PoolIsEmpty == Cardinality(udp_pcbs) >= MEMP_NUM_UDP_PCB - 1

(* The datagrams still under way once port allocation number n is made.     *)
Alive(datagrams, n) == {d \in datagrams : n - d.attempt < Lifetime}

-----------------------------------------------------------------------------
(* ntp_get_time *)

(* Mutant: the state shared with the callback is not reset. *)
CallWithoutReset ==
  /\ pc = "idle"
  /\ attempt < MaxAttempts
  /\ pc' = "start"
  /\ callTime' = now
  /\ UNCHANGED <<client, timeout, network, attempt, result>>

(* Entry: reset the state shared with the callback. *)
Call ==
  /\ pc = "idle"
  /\ attempt < MaxAttempts
  /\ pc' = "start"
  /\ callTime' = now
  /\ ntp_response_received' = 0
  /\ ntp_timestamp' = 0
  /\ UNCHANGED <<udp_port, udp_pcbs, timeout, network, attempt, result>>

(* udp_new, udp_bind to port 0 and udp_recv. *)
OpenPcb ==
  /\ ~PoolIsEmpty
  /\ udp_port' = udp_new_port
  /\ attempt' = attempt + 1

(* Mutant: the PCB is not removed when the request cannot be sent. *)
RequestFailsLeaking ==
  /\ pc = "start"
  /\ OpenPcb
  /\ udp_pcbs' = udp_pcbs \cup {udp_port'}
  /\ pc' = "idle"
  /\ result' = FAILED
  /\ reqs' = Alive(reqs, attempt')
  /\ resps' = Alive(resps, attempt')
  /\ UNCHANGED <<ntp_response_received, ntp_timestamp, timeout, now, callTime>>

(* No PCB is left, or the request cannot be built (pbuf_alloc gives NULL)   *)
(* or sent (udp_sendto gives an error), in which cases the PCB is removed   *)
(* again: return -1.                                                        *)
RequestFails ==
  /\ pc = "start"
  /\ IF PoolIsEmpty
     THEN UNCHANGED <<udp_port, udp_pcbs, attempt>>
     ELSE OpenPcb /\ udp_pcbs' = udp_pcbs \ {udp_port'}
  /\ pc' = "idle"
  /\ result' = FAILED
  /\ reqs' = Alive(reqs, attempt')
  /\ resps' = Alive(resps, attempt')
  /\ UNCHANGED <<ntp_response_received, ntp_timestamp, timeout, now, callTime>>

RequestSent ==
  /\ pc = "start"
  /\ OpenPcb
  /\ udp_pcbs' = udp_pcbs \cup {udp_port'}
  /\ pc' = "wait"
  /\ timeout' = NTP_TIMEOUT_CYCLES
  /\ reqs' = Alive(reqs, attempt') \cup {[port |-> udp_port', attempt |-> attempt']}
  /\ resps' = Alive(resps, attempt')
  /\ UNCHANGED <<ntp_response_received, ntp_timestamp, now, callTime, result>>

(* while (!ntp_response_received && timeout > 0) lwip_periodic_handle(); *)
BeginPoll ==
  /\ pc = "wait"
  /\ ntp_response_received = 0
  /\ timeout > 0
  /\ pc' = "poll"
  /\ UNCHANGED <<client, timeout, network, attempt, callTime, result>>

(* Mutant: the polls are not counted. *)
EndPollUncounted ==
  /\ pc = "poll"
  /\ pc' = "wait"
  /\ UNCHANGED <<client, timeout, network, attempt, callTime, result>>

EndPoll ==
  /\ pc = "poll"
  /\ pc' = "wait"
  /\ timeout' = timeout - 1
  /\ UNCHANGED <<client, network, attempt, callTime, result>>

(* The loop is over: remove the PCB, then return the time or -1. *)
Return ==
  /\ pc = "wait"
  /\ ntp_response_received = 1 \/ timeout = 0
  /\ udp_pcbs' = udp_pcbs \ {udp_port}
  /\ pc' = "idle"
  /\ result' = IF ntp_response_received = 1 THEN ntp_timestamp ELSE FAILED
  /\ UNCHANGED <<udp_port, ntp_response_received, ntp_timestamp, timeout, network,
                 attempt, callTime>>

(* The callback drops a datagram that has less than 48 bytes.  It looks at  *)
(* neither the sender nor anything but the transmit timestamp.              *)
ntp_recv_callback(d) ==
  IF d.full
  THEN ntp_timestamp' = d.ts /\ ntp_response_received' = 1
  ELSE UNCHANGED <<ntp_timestamp, ntp_response_received>>

(* lan9118_poll hands a frame to lwIP, within a poll of ntp_get_time or of  *)
(* ntp_task between two calls.  udp_input drops it unless a PCB is bound to *)
(* its port.  The network may keep a duplicate.                             *)
udp_input(d) ==
  /\ pc \in {"idle", "poll"}
  /\ resps' \in {resps, resps \ {d}}
  /\ IF d.port \in udp_pcbs
     THEN ntp_recv_callback(d)
     ELSE UNCHANGED <<ntp_timestamp, ntp_response_received>>
  /\ UNCHANGED <<pc, udp_port, udp_pcbs, timeout, reqs, now, attempt, callTime, result>>

-----------------------------------------------------------------------------
(* The server and the time it keeps. *)

Respond(r) ==
  /\ Cardinality(resps) < MaxInFlight
  /\ \E full \in BOOLEAN :
       resps' = resps \cup {[port |-> r.port, attempt |-> r.attempt,
                             ts |-> now, full |-> full]}
  /\ reqs' \in {reqs, reqs \ {r}}
  /\ UNCHANGED <<pc, client, timeout, now, attempt, callTime, result>>

Tick ==
  /\ now < MaxTime
  /\ now' = now + 1
  /\ UNCHANGED <<pc, client, timeout, reqs, resps, attempt, callTime, result>>

-----------------------------------------------------------------------------
Init ==
  /\ pc = "idle"
  /\ udp_port \in Ports
  /\ udp_pcbs = {}
  /\ ntp_response_received = 0
  /\ ntp_timestamp = 0
  /\ timeout = 0
  /\ reqs = {}
  /\ resps = {}
  /\ now = 0
  /\ attempt = 0
  /\ callTime = 0
  /\ result = FAILED

GetTime == RequestFails \/ RequestSent \/ BeginPoll \/ EndPoll \/ Return

Next ==
  \/ Call
  \/ GetTime
  \/ \E d \in resps : udp_input(d)
  \/ \E r \in reqs : Respond(r)
  \/ Tick

(* A call, once made, keeps running: the NTP task has the highest priority  *)
(* of the application's tasks and does not block inside ntp_get_time, and   *)
(* lan9118_poll ends because frames arrive more slowly than they are read.  *)
Spec == Init /\ [][Next]_vars /\ WF_vars(GetTime)

-----------------------------------------------------------------------------
(* While ntp_get_time polls, an accepted timestamp is one that the server   *)
(* put into an answer to this very attempt: not to an earlier attempt whose *)
(* answer was late, nor one taken before the call.                          *)
AnswerIsFresh ==
  pc \in {"wait", "poll"} /\ ntp_response_received = 1 =>
    ntp_timestamp \in callTime..now

(* Whenever ntp_get_time is about to allocate a PCB there is one left: no   *)
(* path through the function, error paths included, leaks the PCB.          *)
PcbAvailable == pc = "start" => ~PoolIsEmpty

(* A datagram under way reaches the PCB that is open only if it belongs to  *)
(* the attempt that opened it.                                              *)
PortNamesAttempt ==
  \A d \in reqs \cup resps : d.port \in udp_pcbs => d.attempt = attempt

(* ntp_get_time keeps the promise of NtpService: a time it returns was the  *)
(* server's while the call was pending, and every call returns.             *)
Svc == INSTANCE NtpService WITH pending <- pc # "idle"

ImplementsService == Svc!Spec
=============================================================================
