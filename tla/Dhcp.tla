-------------------------------- MODULE Dhcp --------------------------------
(***************************************************************************)
(* The DHCP client of lwIP, dhcp.c, and what lwip_init.c makes of it: how  *)
(* the clock gets its address, keeps it, loses it and tells the NTP task.  *)
(* dhcp_recv and the two timers run in the NTP task, one after another;    *)
(* the server answers or not, and the network loses, repeats, delays and   *)
(* reorders the answers.                                                   *)
(*                                                                         *)
(* The link of the LAN9118 is up from the start and stays so: the states   *)
(* INIT and REBOOTING do not occur.  The seconds a request waits are left  *)
(* out: an armed request_timeout may run out at any time.  Seconds of a    *)
(* lease are kept, with their rounding to minutes and their width.         *)
(* dhcp_start is first called on a heap of 16 KiB and a pool of four PCBs  *)
(* that are hardly in use, and later has its struct and gets back the PCB  *)
(* that dhcp_release_and_stop freed: neither allocation of it fails.       *)
(***************************************************************************)
EXTENDS Integers, FiniteSets, FiniteSetsExt

CONSTANTS
  Addrs,         \* addresses a server may give, positive; 0 is IP4_ADDR_ANY4
  Leases,        \* options of an ACK: [t0, t1, t2] in seconds, or NotGiven
  Word,          \* 2^32, the width of seconds
  MaxMinutes,    \* 0xffff
  Secs,          \* DHCP_COARSE_TIMER_SECS
  RequestTries,  \* 5 in dhcp_timeout
  Xids,          \* what LWIP_RAND may return, and the identifiers, 0 among them
  MaxNet         \* bound on the answers under way

NotGiven == -1
Infinite == Word - 1

ASSUME DhcpAssumption ==
  /\ Addrs \subseteq Nat \ {0}
  /\ Leases \subseteq [t0 : 0..(Word - 1) \cup {NotGiven}, t1 : 0..(Word - 1) \cup {NotGiven},
                       t2 : 0..(Word - 1) \cup {NotGiven}]
  /\ Word \in Nat \ {0} /\ MaxMinutes \in Nat \ {0} /\ Secs \in Nat \ {0}
  /\ RequestTries \in Nat /\ MaxNet \in Nat \ {0}
  /\ 0 \in Xids

VARIABLES
  dhcp,       \* struct dhcp
  gxid,       \* the static xid of dhcp_create_msg
  ip_addr,    \* of the netif
  dhcp_done,  \* of lwip_init.c
  net,        \* answers under way: [type, xid, ...]
  age,        \* ghost: calls of dhcp_coarse_tmr since the last ACK was taken, capped
  grant,      \* ghost: the seconds for which it granted the address
  past,       \* ghost: those of net that answer an earlier negotiation
  clash       \* ghost: one of them may bear the identifier of this one

vars == <<dhcp, gxid, ip_addr, dhcp_done, net, age, grant, past, clash>>

wire == <<gxid, net, past, clash>>

(* memset in dhcp_start. *)
Cleared ==
  [state |-> "OFF", tries |-> 0, request_timeout |-> 0, xid |-> 0, offered_ip |-> 0,
   offered_t0 |-> 0, t0_timeout |-> 0, t2_timeout |-> 0,
   t1_renew |-> 0, t2_rebind |-> 0, lease_used |-> 0]

Init ==
  /\ dhcp = Cleared /\ gxid = 0 /\ ip_addr = 0 /\ dhcp_done = 0 /\ net = {}
  /\ age = 0 /\ grant = 0 /\ past = {} /\ clash = FALSE

dhcp_set_state(d, s) ==
  IF d.state = s THEN d ELSE [d EXCEPT !.state = s, !.tries = 0, !.request_timeout = 0]

dhcp_supplied_address(d) == d.state \in {"BOUND", "RENEWING", "REBINDING"}

(* Mutant: only the first request waits for an answer. *)
ArmedOnce(d) == [d EXCEPT !.tries = Min({@ + 1, RequestTries + 1}),
                          !.request_timeout = IF d.tries = 0 THEN 1 ELSE 0]

(* Every request ends so: tries, which is capped where nothing tells more   *)
(* apart, and the timer for the answer.                                     *)
Armed(d) == [d EXCEPT !.tries = Min({@ + 1, RequestTries + 1}), !.request_timeout = 1]

-----------------------------------------------------------------------------
(* Mutant: a new discovery keeps the identifier of the one before. *)
XidKept(d, g, r) == g

(* dhcp_create_msg: a message that is neither a REQUEST nor retransmitted   *)
(* gets what LWIP_RAND returns, which may be any number, again or not.      *)
NextXid(d, g, r) == IF d.tries = 0 THEN r ELSE g

(* The answers a server may give to what was just sent, if it was sent. *)
Replies(d, sent) ==
  IF ~sent THEN {}
  ELSE IF d.state = "SELECTING"
       THEN [type : {"OFFER"}, xid : {d.xid}, yiaddr : Addrs, server : BOOLEAN]
       ELSE [type : {"ACK"}, xid : {d.xid}, yiaddr : Addrs, lease : Leases]
              \cup [type : {"NAK"}, xid : {d.xid}]

(* At most one answer is added to those under way, in the place of another  *)
(* when they are too many.  When a negotiation begins, all that are under   *)
(* way answer an earlier one.                                               *)
Answered(d, sent, begins) ==
  LET kept == {n \in SUBSET net : Cardinality(n) = Min({Cardinality(net), MaxNet - 1})}
  IN  /\ \/ net' = net
         \/ \E r \in Replies(d, sent), n \in kept : net' = n \cup {r}
      /\ past' = (IF begins THEN net ELSE past) \cap net'

(* dhcp_discover.  The identifier of a negotiation that begins is that of   *)
(* an answer under way if LWIP_RAND drew it again, or if dhcp_create_msg    *)
(* found no memory, and so did not come to drawing one.                     *)
dhcp_discover(d, g) ==
  LET d1 == dhcp_set_state([d EXCEPT !.offered_ip = 0], "SELECTING")
      begins == d1.tries = 0
  IN  \/ \E r \in Xids :
           /\ dhcp' = Armed([d1 EXCEPT !.xid = NextXid(d1, g, r)])
           /\ gxid' = dhcp'.xid
           /\ Answered(dhcp', TRUE, begins)
           /\ clash' = IF begins THEN \E m \in net : m.xid = r ELSE clash
      \/ /\ dhcp' = Armed(d1)
         /\ gxid' = g
         /\ Answered(dhcp', FALSE, begins)
         /\ clash' = (begins \/ clash)

(* dhcp_select, dhcp_renew and dhcp_rebind: a REQUEST reuses the xid. *)
Request(d, s) ==
  /\ dhcp' = Armed(dhcp_set_state(d, s))
  /\ \E sent \in BOOLEAN : Answered(dhcp', sent, FALSE)
  /\ UNCHANGED <<gxid, clash>>

dhcp_select(d) == Request(d, "REQUESTING")

(* netif_set_addr and netif_status_callback, which is called for a change. *)
netif_set_addr(a) ==
  /\ ip_addr' = a
  /\ dhcp_done' = IF a # ip_addr /\ a # 0 THEN 1 ELSE dhcp_done

-----------------------------------------------------------------------------
(* dhcp_release_and_stop: the address goes if DHCP supplied it. *)
Released(d) ==
  IF dhcp_supplied_address(d) THEN netif_set_addr(0) ELSE UNCHANGED <<ip_addr, dhcp_done>>

(* dhcp_start; after dhcp_release_and_stop, whose RELEASE drew an xid too   *)
(* unless memory lacked or there was no address to release.                 *)
dhcp_start ==
  /\ dhcp.state = "OFF"
  /\ dhcp_discover(Cleared, gxid)
  /\ UNCHANGED <<ip_addr, dhcp_done, age, grant>>

Restart ==
  /\ Released(dhcp)
  /\ \E g \in {gxid} \cup (IF dhcp_supplied_address(dhcp) THEN Xids ELSE {}) :
       dhcp_discover(Cleared, g)
  /\ UNCHANGED grant

dhcp_handle_offer(m) ==
  IF m.server THEN dhcp_select([dhcp EXCEPT !.request_timeout = 0, !.offered_ip = m.yiaddr])
  ELSE UNCHANGED dhcp /\ UNCHANGED wire

dhcp_handle_nak ==
  /\ dhcp_discover(dhcp_set_state(dhcp, "BACKING_OFF"), gxid)
  /\ netif_set_addr(0)

(* SET_TIMEOUT_FROM_OFFERED *)
Minutes(s) == Max({1, Min({((s + Secs \div 2) % Word) \div Secs, MaxMinutes})})

Timeout(s, t) == IF s = Infinite THEN t ELSE Minutes(s)

(* dhcp_handle_ack and dhcp_bind.  t1_timeout, which dhcp_bind compares     *)
(* with t2_timeout, is read nowhere else and left out.                      *)
dhcp_bind(m) ==
  LET l == m.lease
      t0 == IF l.t0 = NotGiven THEN dhcp.offered_t0 ELSE l.t0
      t1 == IF l.t1 = NotGiven THEN t0 \div 2 ELSE l.t1
      t2 == IF l.t2 = NotGiven THEN ((t0 * 7) % Word) \div 8 ELSE l.t2
  IN  /\ dhcp' = dhcp_set_state(
           [dhcp EXCEPT !.lease_used = 0, !.offered_t0 = t0, !.offered_ip = m.yiaddr,
                        !.t0_timeout = Timeout(t0, @),
                        !.t1_renew = Timeout(t1, @),
                        !.t2_timeout = Timeout(t2, @),
                        !.t2_rebind = Timeout(t2, @)], "BOUND")
      /\ netif_set_addr(m.yiaddr)
      /\ age' = 0
      /\ grant' = t0
      /\ UNCHANGED wire

(* dhcp_recv.  The message stays under way until the network loses it. *)
dhcp_recv(m) ==
  /\ dhcp.state # "OFF"
  /\ m.xid = dhcp.xid
  /\ \/ /\ m.type = "ACK"
        /\ dhcp.state \in {"REQUESTING", "RENEWING", "REBINDING"}
        /\ dhcp_bind(m)
     \/ /\ m.type = "NAK"
        /\ dhcp.state \in {"REQUESTING", "RENEWING", "REBINDING"}
        /\ dhcp_handle_nak
        /\ UNCHANGED <<age, grant>>
     \/ /\ m.type = "OFFER"
        /\ dhcp.state = "SELECTING"
        /\ dhcp_handle_offer(m)
        /\ UNCHANGED <<ip_addr, dhcp_done, age, grant>>

Lose(m) ==
  /\ net' = net \ {m} /\ past' = past \ {m}
  /\ UNCHANGED <<dhcp, gxid, ip_addr, dhcp_done, age, grant, clash>>

-----------------------------------------------------------------------------
(* dhcp_fine_tmr when request_timeout runs out, with dhcp_timeout. *)
dhcp_fine_tmr ==
  LET d == [dhcp EXCEPT !.request_timeout = 0]
  IN  /\ dhcp.request_timeout > 0
      /\ \/ /\ d.state \in {"SELECTING", "BACKING_OFF"}
            /\ dhcp_discover(d, gxid)
            /\ UNCHANGED <<ip_addr, dhcp_done, grant>>
         \/ /\ d.state = "REQUESTING"
            /\ d.tries <= RequestTries
            /\ dhcp_select(d)
            /\ UNCHANGED <<ip_addr, dhcp_done, grant>>
         \/ /\ d.state = "REQUESTING"
            /\ d.tries > RequestTries
            /\ Restart
         \/ /\ d.state \in {"BOUND", "RENEWING", "REBINDING"}
            /\ dhcp' = d
            /\ UNCHANGED <<ip_addr, dhcp_done, grant>> /\ UNCHANGED wire
      /\ UNCHANGED age

(* Half of what is left until the later timer, if that is a minute. *)
Half(left, t) == IF left \div 2 >= 1 THEN left \div 2 ELSE t

dhcp_t1_timeout(d) ==
  IF d.state \in {"REQUESTING", "BOUND", "RENEWING"}
  THEN Request([d EXCEPT !.t1_renew = Half(d.t2_timeout - d.lease_used, @)], "RENEWING")
  ELSE dhcp' = d /\ UNCHANGED wire

dhcp_t2_timeout(d) ==
  IF d.state \in {"REQUESTING", "BOUND", "RENEWING", "REBINDING"}
  THEN Request([d EXCEPT !.t2_rebind = Half(d.t0_timeout - d.lease_used, @)], "REBINDING")
  ELSE dhcp' = d /\ UNCHANGED wire

Down(n) == IF n > 0 THEN n - 1 ELSE 0

(* Mutant: one minute late. *)
ExpiredLate(d) == d.t0_timeout > 0 /\ d.lease_used > d.t0_timeout

Expired(d) == d.t0_timeout > 0 /\ d.lease_used = d.t0_timeout

(* dhcp_coarse_tmr, once a minute. *)
dhcp_coarse_tmr ==
  LET d0 == [dhcp EXCEPT !.lease_used = IF dhcp.t0_timeout > 0 THEN @ + 1 ELSE @]
      d2 == [d0 EXCEPT !.t2_rebind = Down(@)]
      d1 == [d2 EXCEPT !.t1_renew = Down(@)]
  IN  /\ dhcp.state # "OFF"
      /\ \/ /\ Expired(d0)
            /\ Restart
         \/ /\ ~Expired(d0)
            /\ IF dhcp.t2_rebind = 1 THEN dhcp_t2_timeout(d2)
               ELSE IF dhcp.t1_renew = 1 THEN dhcp_t1_timeout(d1)
               ELSE dhcp' = d1 /\ UNCHANGED wire
            /\ UNCHANGED <<ip_addr, dhcp_done, grant>>
      /\ age' = Min({age + 1, MaxMinutes + 1})

Next ==
  \/ dhcp_start \/ dhcp_fine_tmr \/ dhcp_coarse_tmr
  \/ \E m \in net : dhcp_recv(m) \/ Lose(m)

(* sys_check_timeouts calls both timers for ever. *)
Timers == WF_vars(dhcp_start) /\ WF_vars(dhcp_fine_tmr) /\ WF_vars(dhcp_coarse_tmr)

Spec == Init /\ [][Next]_vars /\ Timers

-----------------------------------------------------------------------------
States == {"OFF", "SELECTING", "REQUESTING", "BOUND", "RENEWING", "REBINDING", "BACKING_OFF"}

Minute == 0..MaxMinutes

Client ==
  [state : States, tries : 0..(RequestTries + 1), request_timeout : {0, 1}, xid : Xids,
   offered_ip : Addrs \cup {0}, offered_t0 : 0..(Word - 1), t0_timeout : Minute,
   t2_timeout : Minute, t1_renew : Minute, t2_rebind : Minute, lease_used : Minute]

Messages ==
  [type : {"OFFER"}, xid : Xids, yiaddr : Addrs, server : BOOLEAN]
    \cup [type : {"ACK"}, xid : Xids, yiaddr : Addrs, lease : Leases]
    \cup [type : {"NAK"}, xid : Xids]

(* dhcp_discover leaves BACKING_OFF in the step that enters it. *)
TypeOK ==
  /\ dhcp \in Client /\ dhcp.state # "BACKING_OFF"
  /\ gxid \in Xids
  /\ ip_addr \in Addrs \cup {0} /\ dhcp_done \in {0, 1}
  /\ net \subseteq Messages /\ IsFiniteSet(net) /\ Cardinality(net) <= MaxNet
  /\ age \in 0..(MaxMinutes + 1) /\ grant \in 0..(Word - 1)
  /\ past \subseteq net /\ clash \in BOOLEAN

(* The interface has an address only in the states in which the client      *)
(* knows of it (in another one nothing would ever take it away), and by the *)
(* server's seconds it is given up no later than half a period of           *)
(* dhcp_coarse_tmr after the end of the lease, or at the timer's first call *)
(* if the lease is shorter: with a period of 60 s, one of 90 s after 120 s  *)
(* at most and one of 0 s after 60 s, whatever was renewed, refused or      *)
(* late.  After age calls the next is (age + 1) * Secs from the ACK at most.*)
LeaseRespected ==
  ip_addr # 0 =>
    /\ dhcp_supplied_address(dhcp)
    /\ \/ grant = Infinite
       \/ (age + 1) * Secs <= grant + Secs \div 2
       \/ age = 0

(* dhcp_handle_nak is to "restart DHCP negotiation afresh": a client        *)
(* without an address gets one or goes back to discovery, over and over.    *)
NeverStuck == []<>(ip_addr # 0 \/ dhcp.state = "SELECTING")

(* There is one state only that waits for an answer that nobody may send:   *)
(* renewal or rebinding, without an address, after a lease without end.     *)
(* From every other a client without an address gets one or goes back to    *)
(* discovery, also when the timers of a lost lease run on.                  *)
StuckOnlyEndless ==
  []<>(\/ ip_addr # 0 \/ dhcp.state = "SELECTING"
       \/ dhcp.state \in {"RENEWING", "REBINDING"} /\ dhcp.t0_timeout = 0 /\ grant = Infinite)

(* No offer, lease or refusal is taken from an answer to an earlier         *)
(* negotiation, however old, unless LWIP_RAND drew the identifier of an     *)
(* answer that was under way or memory lacked for the first DISCOVER.       *)
FreshAnswers == [][\A m \in past : dhcp_recv(m) => clash]_vars

(* lwip_init.c says that network_is_up "returns 1 if DHCP has assigned an   *)
(* IP address", and that its callback is for an address lost, too.          *)
NetworkIsUp == dhcp_done = 1 => ip_addr # 0

(* dhcp_handle_ack calls the times it computes "safe periods" for renewal   *)
(* (half of the lease) and for rebinding ("87.5%" of it): renewal is first. *)
RenewBeforeRebind == dhcp.state = "BOUND" /\ age = 0 => dhcp.t1_renew <= dhcp.t2_rebind
=============================================================================
