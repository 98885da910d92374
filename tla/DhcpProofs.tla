----------------------------- MODULE DhcpProofs -----------------------------
(***************************************************************************)
(* Proofs about Dhcp, for every set of addresses and of leases, every      *)
(* width of seconds and of minutes, whatever LWIP_RAND draws, and for      *)
(* every bound on answers under way.                                       *)
(***************************************************************************)
EXTENDS Dhcp, FiniteSetTheorems, TLAPS

-----------------------------------------------------------------------------
(* The inductive invariant. *)

(* The client's own count of the lease is the true one, and short of the    *)
(* server's seconds as the client rounds them.                              *)
LeaseTimed ==
  ip_addr # 0 =>
    /\ dhcp_supplied_address(dhcp)
    /\ grant # Infinite =>
         dhcp.t0_timeout = Minutes(grant) /\ dhcp.lease_used = age /\ age < Minutes(grant)

UsedInLease == dhcp.lease_used = 0 \/ dhcp.lease_used < dhcp.t0_timeout

(* Unless it clashes, a negotiation has the identifier drawn last, and no   *)
(* answer from before bears it.                                             *)
XidsApart ==
  ~clash => /\ \A m \in past : m.xid # dhcp.xid
            /\ dhcp.state # "OFF" => dhcp.xid = gxid

IInv == TypeOK /\ LeaseTimed /\ UsedInLease /\ XidsApart

-----------------------------------------------------------------------------
(* The operators. *)

(* Min of two numbers. *)
LEMMA MinOfTwo ==
  ASSUME NEW a \in Int, NEW b \in Int
  PROVE  Min({a, b}) = IF a <= b THEN a ELSE b
BY DEF Min

(* Max of two numbers. *)
LEMMA MaxOfTwo ==
  ASSUME NEW a \in Int, NEW b \in Int
  PROVE  Max({a, b}) = IF a >= b THEN a ELSE b
BY DEF Max

(* A time-out is at least a minute. *)
LEMMA MinutesPositive ==
  ASSUME NEW s \in 0..(Word - 1)
  PROVE  Minutes(s) \in 1..MaxMinutes
<1> DEFINE m == ((s + Secs \div 2) % Word) \div Secs
<1>1. m \in Nat
  BY DhcpAssumption
<1>2. Min({m, MaxMinutes}) \in 0..MaxMinutes
  BY <1>1, MinOfTwo, DhcpAssumption
<1>3. \A n \in 0..MaxMinutes : Max({1, n}) \in 1..MaxMinutes
  BY MaxOfTwo, DhcpAssumption
<1> QED
  BY <1>2, <1>3 DEF Minutes

(* The quotient times the divisor is not above the dividend. *)
LEMMA DivTimes ==
  ASSUME NEW x \in Nat, NEW k \in Nat \ {0}
  PROVE  (x \div k) * k <= x /\ x \div k \in Nat
OBVIOUS

(* Factors are in order as products are. *)
LEMMA TimesMonotonic ==
  ASSUME NEW a \in Nat, NEW b \in Nat, NEW k \in Nat, a <= b
  PROVE  a * k <= b * k
OBVIOUS

(* The rounding passes the seconds granted by half a period at most, or     *)
(* comes to the first call of the timer.                                    *)
LEMMA MinutesInLease ==
  ASSUME NEW s \in 0..(Word - 1), NEW a \in Nat, a < Minutes(s)
  PROVE  a = 0 \/ (a + 1) * Secs <= s + Secs \div 2
<1> SUFFICES ASSUME a # 0 PROVE (a + 1) * Secs <= s + Secs \div 2
  OBVIOUS
<1> DEFINE x == (s + Secs \div 2) % Word
           m == x \div Secs
<1>1. Secs \div 2 \in Nat /\ s + Secs \div 2 \in Nat
  BY DhcpAssumption
<1>2. \A n \in Nat : n % Word \in Nat /\ n % Word <= n
  BY DhcpAssumption
<1>3. x \in Nat /\ x <= s + Secs \div 2
  BY <1>1, <1>2
<1> HIDE DEF x
<1>4. m * Secs <= x /\ m \in Nat
  BY <1>3, DivTimes, DhcpAssumption
<1> HIDE DEF m
<1>5. Minutes(s) = Max({1, Min({m, MaxMinutes})})
  BY DEF Minutes, m, x
<1>6. Min({m, MaxMinutes}) \in Nat /\ Min({m, MaxMinutes}) <= m
  BY <1>4, MinOfTwo, DhcpAssumption
<1> DEFINE n == Min({m, MaxMinutes})
<1> HIDE DEF n
<1>7. a + 1 <= m
  <2>1. n \in Nat /\ n <= m /\ Minutes(s) = Max({1, n})
    BY <1>5, <1>6 DEF n
  <2>2. Max({1, n}) = IF 1 >= n THEN 1 ELSE n
    BY <2>1, MaxOfTwo
  <2> QED
    BY <1>4, <2>1, <2>2
<1>8. (a + 1) * Secs <= m * Secs
  BY <1>4, <1>7, TimesMonotonic, DhcpAssumption
<1>9. (a + 1) * Secs \in Nat /\ m * Secs \in Nat
  BY <1>4, DhcpAssumption
<1> QED
  BY <1>1, <1>3, <1>4, <1>8, <1>9

(* What requests leave alone. *)
SameLease(d, e) ==
  /\ e.xid = d.xid /\ e.t0_timeout = d.t0_timeout /\ e.lease_used = d.lease_used

(* What dhcp_set_state changes. *)
LEMMA SetState ==
  ASSUME NEW d \in Client, NEW s \in States
  PROVE  /\ dhcp_set_state(d, s) \in Client
         /\ dhcp_set_state(d, s).state = s
         /\ SameLease(d, dhcp_set_state(d, s))
         /\ d.state # s => dhcp_set_state(d, s).tries = 0
         /\ d.state = s => dhcp_set_state(d, s) = d
<1>1. 0 \in 0..(RequestTries + 1)
  BY DhcpAssumption
<1> QED
  BY <1>1 DEF dhcp_set_state, Client, SameLease

(* A client whose timers are set is a client. *)
LEMMA ArmedClient ==
  ASSUME NEW d \in Client
  PROVE  /\ Armed(d) \in Client
         /\ SameLease(d, Armed(d)) /\ Armed(d).state = d.state
<1>1. d.tries + 1 \in Int /\ RequestTries + 1 \in Int
  BY DhcpAssumption DEF Client
<1>2. Min({d.tries + 1, RequestTries + 1}) \in 0..(RequestTries + 1)
  BY <1>1, MinOfTwo, DhcpAssumption DEF Client
<1> QED
  BY <1>2 DEF Armed, Client, SameLease

(* Whatever is answered or lost, the answers under way are messages of      *)
(* identifiers that were drawn, and not too many.                           *)
LEMMA AnsweredNet ==
  ASSUME TypeOK, NEW d \in Client, NEW sent \in BOOLEAN, NEW begins \in BOOLEAN,
         Answered(d, sent, begins)
  PROVE  /\ net' \subseteq Messages /\ IsFiniteSet(net') /\ Cardinality(net') <= MaxNet
         /\ past' \subseteq net' /\ past' \subseteq net
         /\ ~begins => past' \subseteq past
<1> DEFINE kept == {n \in SUBSET net : Cardinality(n) = Min({Cardinality(net), MaxNet - 1})}
           Sound == net' \subseteq Messages /\ IsFiniteSet(net') /\ Cardinality(net') <= MaxNet
<1>1. IsFiniteSet(net) /\ Cardinality(net) \in Nat
  BY FS_CardinalityType DEF TypeOK
<1>2. ASSUME net' = net PROVE Sound
  BY <1>2 DEF TypeOK
<1>3. ASSUME NEW r \in Replies(d, sent), NEW n \in kept, net' = n \cup {r}
      PROVE  Sound
  <2>1. r \in Messages
    BY DEF Replies, Messages, Client
  <2>2. n \subseteq net /\ IsFiniteSet(n) /\ Cardinality(n) \in Nat
    BY <1>1, FS_Subset, FS_CardinalityType
  <2>3. Cardinality(n) <= MaxNet - 1
    BY <1>1, <2>2, MinOfTwo, DhcpAssumption
  <2>4. /\ IsFiniteSet(n \cup {r})
        /\ \/ Cardinality(n \cup {r}) = Cardinality(n)
           \/ Cardinality(n \cup {r}) = Cardinality(n) + 1
    <3> HIDE DEF kept
    <3> QED
      BY <2>2, FS_AddElement, Zenon
  <2>5. IsFiniteSet(net') /\ Cardinality(net') <= MaxNet
    BY <1>3, <2>2, <2>3, <2>4, DhcpAssumption
  <2> QED
    BY <1>3, <2>1, <2>2, <2>5 DEF TypeOK
<1>4. Sound
  BY <1>2, <1>3 DEF Answered, TypeOK
<1>5. past' = (IF begins THEN net ELSE past) \cap net'
  BY DEF Answered
<1> QED
  BY <1>4, <1>5 DEF TypeOK

(* What the steps below leave of the answers under way. *)
WireSound ==
  /\ gxid' \in Xids /\ clash' \in BOOLEAN
  /\ net' \subseteq Messages /\ IsFiniteSet(net') /\ Cardinality(net') <= MaxNet
  /\ past' \subseteq net'
  /\ XidsApart'

-----------------------------------------------------------------------------
(* The steps that the actions are made of. *)

(* A discovery, from a client d that is dhcp or a cleared one, with the     *)
(* identifier drawn last, perhaps for a RELEASE.                            *)
LEMMA DiscoverSound ==
  ASSUME IInv, NEW d \in Client, NEW g \in Xids, dhcp_discover(d, g),
         d.state = "SELECTING" => dhcp.state = "SELECTING" /\ d.xid = dhcp.xid /\ g = gxid,
         d.lease_used = 0 \/ d.lease_used < d.t0_timeout
  PROVE  dhcp' \in Client /\ dhcp'.state = "SELECTING" /\ UsedInLease' /\ WireSound
<1> DEFINE d0 == [d EXCEPT !.offered_ip = 0]
           d1 == dhcp_set_state(d0, "SELECTING")
           begins == d1.tries = 0
<1>1. d0 \in Client /\ d0.state = d.state /\ SameLease(d, d0)
  BY DEF Client, SameLease
<1>2. /\ d1 \in Client /\ d1.state = "SELECTING" /\ SameLease(d, d1)
      /\ d.state # "SELECTING" => d1.tries = 0
  BY <1>1, SetState DEF States, SameLease
<1> HIDE DEF d0, d1
<1>3. ~begins => /\ d.xid = dhcp.xid /\ g = gxid
                 /\ ~clash => dhcp.xid = gxid /\ \A m \in past : m.xid # dhcp.xid
  BY <1>2 DEF IInv, XidsApart
<1>4. clash \in BOOLEAN /\ gxid \in Xids
  BY DEF IInv, TypeOK
<1>5. ASSUME NEW r \in Xids,
             dhcp' = Armed([d1 EXCEPT !.xid = NextXid(d1, g, r)]),
             gxid' = dhcp'.xid, Answered(dhcp', TRUE, begins),
             clash' = IF begins THEN \E m \in net : m.xid = r ELSE clash
      PROVE  dhcp' \in Client /\ dhcp'.state = "SELECTING" /\ UsedInLease' /\ WireSound
  <2> DEFINE x == NextXid(d1, g, r)
             e == [d1 EXCEPT !.xid = x]
  <2>1. x \in Xids /\ (begins => x = r) /\ (~begins => x = g)
    BY DEF NextXid
  <2> HIDE DEF x
  <2>2. /\ e \in Client /\ e.state = "SELECTING" /\ e.xid = x
        /\ e.t0_timeout = d.t0_timeout /\ e.lease_used = d.lease_used
    BY <1>2, <2>1 DEF Client, SameLease
  <2> HIDE DEF e
  <2>3. /\ dhcp' \in Client /\ dhcp'.state = "SELECTING" /\ dhcp'.xid = x
        /\ dhcp'.t0_timeout = d.t0_timeout /\ dhcp'.lease_used = d.lease_used
    BY <1>5, <2>2, ArmedClient DEF e, x, SameLease
  <2>4. /\ net' \subseteq Messages /\ IsFiniteSet(net') /\ Cardinality(net') <= MaxNet
        /\ past' \subseteq net' /\ past' \subseteq net
        /\ ~begins => past' \subseteq past
    <3> HIDE DEF begins
    <3>1. begins \in BOOLEAN
      BY DEF begins
    <3> QED
      BY <1>5, <2>3, <3>1, AnsweredNet DEF IInv
  <2>5. ~clash' => \A m \in past' : m.xid # x
    BY <1>3, <1>5, <2>1, <2>4
  <2>6. XidsApart'
    BY <1>5, <2>3, <2>5 DEF XidsApart
  <2>7. clash' \in BOOLEAN /\ gxid' \in Xids
    BY <1>4, <1>5, <2>1, <2>3
  <2> QED
    BY <2>3, <2>4, <2>6, <2>7 DEF UsedInLease, WireSound
<1>6. CASE /\ dhcp' = Armed(d1)
           /\ gxid' = g
           /\ Answered(dhcp', FALSE, begins)
           /\ clash' = (begins \/ clash)
  <2>1. dhcp' \in Client /\ dhcp'.state = "SELECTING" /\ SameLease(d, dhcp')
    BY <1>2, <1>6, ArmedClient DEF SameLease
  <2>2. /\ net' \subseteq Messages /\ IsFiniteSet(net') /\ Cardinality(net') <= MaxNet
        /\ past' \subseteq net'
        /\ ~begins => past' \subseteq past
    <3> HIDE DEF begins
    <3>1. begins \in BOOLEAN
      BY DEF begins
    <3> QED
      BY <1>6, <2>1, <3>1, AnsweredNet DEF IInv
  <2>3. XidsApart'
    BY <1>3, <1>6, <2>1, <2>2 DEF XidsApart, SameLease
  <2>4. clash' \in BOOLEAN
    BY <1>4, <1>6, Zenon
  <2> QED
    BY <1>6, <2>1, <2>2, <2>3, <2>4 DEF UsedInLease, WireSound, SameLease
<1> QED
  BY <1>5, <1>6 DEF dhcp_discover, d0, d1

(* A request, from a client d that holds the lease that dhcp holds. *)
LEMMA RequestSound ==
  ASSUME IInv, NEW d \in Client, NEW s \in States, Request(d, s), d.xid = dhcp.xid,
         dhcp.state # "OFF"
  PROVE  dhcp' \in Client /\ dhcp'.state = s /\ SameLease(d, dhcp') /\ WireSound
<1>1. /\ dhcp_set_state(d, s) \in Client /\ dhcp_set_state(d, s).state = s
      /\ SameLease(d, dhcp_set_state(d, s))
  BY SetState
<1>2. dhcp' \in Client /\ dhcp'.state = s /\ SameLease(d, dhcp')
  BY <1>1, ArmedClient DEF Request, SameLease
<1>3. gxid' = gxid /\ clash' = clash /\ dhcp'.xid = dhcp.xid
  BY <1>2 DEF Request, SameLease
<1>4. /\ net' \subseteq Messages /\ IsFiniteSet(net') /\ Cardinality(net') <= MaxNet
      /\ past' \subseteq net' /\ past' \subseteq past
  BY <1>2, AnsweredNet DEF Request, IInv
<1>5. XidsApart'
  BY <1>3, <1>4 DEF IInv, XidsApart
<1> QED
  BY <1>2, <1>3, <1>4, <1>5 DEF IInv, TypeOK, WireSound

(* So is one that starts afresh. *)
LEMMA ClearedClient ==
  Cleared \in Client /\ Cleared.state = "OFF" /\ Cleared.xid = 0 /\ Cleared.lease_used = 0
BY DhcpAssumption DEF Cleared, Client, States, Minute

(* Discovery anew after a lease or a request was given up: without address. *)
LEMMA RestartIInv ==
  ASSUME IInv, Restart, age' \in 0..(MaxMinutes + 1)
  PROVE  IInv'
<1>1. PICK g \in {gxid} \cup (IF dhcp_supplied_address(dhcp) THEN Xids ELSE {}) :
             dhcp_discover(Cleared, g)
  BY DEF Restart
<1>2. g \in Xids
  BY DEF IInv, TypeOK
<1>3. dhcp' \in Client /\ dhcp'.state = "SELECTING" /\ UsedInLease' /\ WireSound
  BY <1>1, <1>2, ClearedClient, DiscoverSound
<1>4. ip_addr' = 0 /\ dhcp_done' \in {0, 1} /\ grant' = grant
  BY DEF Restart, Released, netif_set_addr, IInv, TypeOK, LeaseTimed
<1> QED
  BY <1>3, <1>4 DEF IInv, TypeOK, LeaseTimed, WireSound

-----------------------------------------------------------------------------
(* The actions. *)

(* The invariant holds at the start. *)
LEMMA InitIInv == Init => IInv
<1> SUFFICES ASSUME Init PROVE IInv
  OBVIOUS
<1>1. IsFiniteSet({}) /\ Cardinality({}) = 0
  BY FS_EmptySet
<1>2. TypeOK
  <2>1. 0 \in 0..(MaxMinutes + 1) /\ 0 \in 0..(Word - 1) /\ 0 \in Xids /\ 0 <= MaxNet
    BY DhcpAssumption
  <2>2. dhcp \in Client /\ dhcp.state # "BACKING_OFF"
    BY ClearedClient DEF Init
  <2> QED
    BY <1>1, <2>1, <2>2 DEF Init, TypeOK
<1>3. LeaseTimed /\ UsedInLease /\ XidsApart
  BY ClearedClient DEF Init, LeaseTimed, UsedInLease, XidsApart
<1> QED
  BY <1>2, <1>3 DEF IInv

(* dhcp_start keeps it. *)
LEMMA StartIInv == ASSUME IInv, dhcp_start PROVE IInv'
<1>1. ip_addr = 0
  BY DEF dhcp_start, IInv, LeaseTimed, dhcp_supplied_address
<1>2. dhcp' \in Client /\ dhcp'.state = "SELECTING" /\ UsedInLease' /\ WireSound
  BY ClearedClient, DiscoverSound DEF dhcp_start, IInv, TypeOK
<1> QED
  BY <1>1, <1>2 DEF WireSound, dhcp_start, IInv, TypeOK, LeaseTimed

(* A lost message keeps it. *)
LEMMA LoseIInv == ASSUME IInv, NEW m \in net, Lose(m) PROVE IInv'
<1>1. IsFiniteSet(net \ {m}) /\ Cardinality(net \ {m}) <= Cardinality(net)
  BY FS_Subset DEF IInv, TypeOK
<1>2. Cardinality(net \ {m}) <= MaxNet
  BY <1>1, FS_CardinalityType, DhcpAssumption DEF IInv, TypeOK
<1> QED
  BY <1>1, <1>2 DEF Lose, IInv, TypeOK, LeaseTimed, UsedInLease, XidsApart

(* An address is assigned in a negotiation whose identifier is its own. *)
LEMMA BindIInv ==
  ASSUME IInv, NEW m \in net, m.type = "ACK", m.xid = dhcp.xid,
         dhcp.state \in {"REQUESTING", "RENEWING", "REBINDING"}, dhcp_bind(m)
  PROVE  IInv'
<1> DEFINE l == m.lease
           t0 == IF l.t0 = NotGiven THEN dhcp.offered_t0 ELSE l.t0
           t1 == IF l.t1 = NotGiven THEN t0 \div 2 ELSE l.t1
           t2 == IF l.t2 = NotGiven THEN ((t0 * 7) % Word) \div 8 ELSE l.t2
           e == [dhcp EXCEPT !.lease_used = 0, !.offered_t0 = t0, !.offered_ip = m.yiaddr,
                             !.t0_timeout = Timeout(t0, @),
                             !.t1_renew = Timeout(t1, @),
                             !.t2_timeout = Timeout(t2, @),
                             !.t2_rebind = Timeout(t2, @)]
<1>1. m \in Messages /\ m.lease \in Leases /\ m.yiaddr \in Addrs
  BY DEF IInv, TypeOK, Messages
<1>2. t0 \in 0..(Word - 1)
  BY <1>1, DhcpAssumption DEF IInv, TypeOK, Client
<1>3. t0 \div 2 \in 0..(Word - 1)
  BY <1>2, DhcpAssumption
<1>4. ((t0 * 7) % Word) \div 8 \in 0..(Word - 1)
  <2>1. t0 * 7 \in Nat
    BY <1>2, DhcpAssumption
  <2>2. \A n \in Nat : n % Word \in 0..(Word - 1)
    BY DhcpAssumption
  <2>3. \A n \in 0..(Word - 1) : n \div 8 \in 0..(Word - 1)
    BY DhcpAssumption
  <2> QED
    BY <2>1, <2>2, <2>3
<1>5. t1 \in 0..(Word - 1) /\ t2 \in 0..(Word - 1)
  BY <1>1, <1>3, <1>4, DhcpAssumption
<1> HIDE DEF t0, t1, t2
<1>6. \A s \in 0..(Word - 1), t \in Minute : Timeout(s, t) \in Minute
  BY MinutesPositive, DhcpAssumption DEF Timeout, Minute
<1>7. /\ e \in Client /\ e.xid = dhcp.xid /\ e.lease_used = 0
      /\ e.t0_timeout = Timeout(t0, dhcp.t0_timeout)
  <2>1. 0 \in Minute
    BY DhcpAssumption DEF Minute
  <2> QED
    BY <1>1, <1>2, <1>5, <1>6, <2>1 DEF IInv, TypeOK, Client
<1> HIDE DEF e
<1>8. dhcp' = dhcp_set_state(e, "BOUND")
  BY DEF dhcp_bind, e, t0, t1, t2
<1>9. /\ dhcp' \in Client /\ dhcp'.state = "BOUND" /\ dhcp'.xid = dhcp.xid
      /\ dhcp'.lease_used = 0 /\ dhcp'.t0_timeout = Timeout(t0, dhcp.t0_timeout)
  BY <1>7, <1>8, SetState DEF States, SameLease
<1>10. /\ ip_addr' = m.yiaddr /\ dhcp_done' \in {0, 1} /\ age' = 0
       /\ grant' = t0
       /\ gxid' = gxid /\ net' = net /\ past' = past /\ clash' = clash
  BY DEF dhcp_bind, netif_set_addr, wire, t0, IInv, TypeOK
<1>11. /\ grant' \in 0..(Word - 1) /\ 0 < Minutes(grant')
       /\ grant' # Infinite => dhcp'.t0_timeout = Minutes(grant')
  BY <1>2, <1>9, <1>10, MinutesPositive, DhcpAssumption DEF Timeout
<1>12. TypeOK'
  BY <1>1, <1>9, <1>10, <1>11, DhcpAssumption DEF IInv, TypeOK
<1>13. LeaseTimed' /\ UsedInLease'
  BY <1>9, <1>10, <1>11 DEF LeaseTimed, UsedInLease, dhcp_supplied_address
<1>14. XidsApart'
  BY <1>9, <1>10 DEF IInv, XidsApart
<1> QED
  BY <1>12, <1>13, <1>14 DEF IInv

(* A refusal keeps it. *)
LEMMA NakIInv ==
  ASSUME IInv, dhcp.state \in {"REQUESTING", "RENEWING", "REBINDING"}, dhcp_handle_nak,
         UNCHANGED <<age, grant>>
  PROVE  IInv'
<1> DEFINE d == dhcp_set_state(dhcp, "BACKING_OFF")
<1>1. d \in Client /\ d.state = "BACKING_OFF" /\ SameLease(dhcp, d)
  BY SetState DEF IInv, TypeOK, States
<1> HIDE DEF d
<1>2. dhcp_discover(d, gxid)
  BY DEF dhcp_handle_nak, d
<1>3. dhcp' \in Client /\ dhcp'.state = "SELECTING" /\ UsedInLease' /\ WireSound
  BY <1>1, <1>2, DiscoverSound DEF SameLease, IInv, TypeOK, UsedInLease
<1>4. ip_addr' = 0 /\ dhcp_done' \in {0, 1}
  BY DEF dhcp_handle_nak, netif_set_addr, IInv, TypeOK
<1> QED
  BY <1>3, <1>4 DEF WireSound, IInv, TypeOK, LeaseTimed

(* An offer keeps it. *)
LEMMA OfferIInv ==
  ASSUME IInv, NEW m \in net, m.type = "OFFER", m.xid = dhcp.xid, dhcp.state = "SELECTING",
         dhcp_handle_offer(m), UNCHANGED <<ip_addr, dhcp_done, age, grant>>
  PROVE  IInv'
<1>1. m \in Messages /\ m.yiaddr \in Addrs
  BY DEF IInv, TypeOK, Messages
<1>2. CASE m.server
  <2> DEFINE d == [dhcp EXCEPT !.request_timeout = 0, !.offered_ip = m.yiaddr]
  <2>1. d \in Client /\ SameLease(dhcp, d)
    BY <1>1 DEF IInv, TypeOK, Client, SameLease
  <2>2. Request(d, "REQUESTING")
    BY <1>2 DEF dhcp_handle_offer, dhcp_select
  <2> HIDE DEF d
  <2>3. /\ dhcp' \in Client /\ dhcp'.state = "REQUESTING" /\ SameLease(d, dhcp') /\ WireSound
    BY <1>1, <2>1, <2>2, RequestSound DEF SameLease, States
  <2>4. ip_addr' = 0
    BY DEF IInv, LeaseTimed, dhcp_supplied_address
  <2> QED
    BY <2>1, <2>3, <2>4 DEF WireSound, IInv, TypeOK, LeaseTimed, UsedInLease, SameLease
<1>3. CASE ~m.server
  BY <1>3 DEF dhcp_handle_offer, wire, IInv, TypeOK, LeaseTimed, UsedInLease, XidsApart
<1> QED
  BY <1>2, <1>3

(* Any message that is received keeps it. *)
LEMMA RecvIInv ==
  ASSUME IInv, NEW m \in net, dhcp_recv(m)
  PROVE  IInv'
<1>1. CASE m.type = "ACK"
  BY <1>1, BindIInv DEF dhcp_recv
<1>2. CASE m.type = "NAK"
  BY <1>2, NakIInv DEF dhcp_recv
<1>3. CASE m.type = "OFFER"
  BY <1>3, OfferIInv DEF dhcp_recv
<1> QED
  BY <1>1, <1>2, <1>3 DEF dhcp_recv

(* The fine timer keeps it. *)
LEMMA FineIInv ==
  ASSUME IInv, dhcp_fine_tmr
  PROVE  IInv'
<1> DEFINE d == [dhcp EXCEPT !.request_timeout = 0]
<1>1. d \in Client /\ d.state = dhcp.state /\ d.tries = dhcp.tries /\ SameLease(dhcp, d)
  BY DEF IInv, TypeOK, Client, SameLease
<1>2. age' = age
  BY DEF dhcp_fine_tmr
<1>3. CASE d.state \in {"SELECTING", "BACKING_OFF"} /\ dhcp_discover(d, gxid)
           /\ UNCHANGED <<ip_addr, dhcp_done, grant>>
  <2> HIDE DEF d
  <2>1. dhcp' \in Client /\ dhcp'.state = "SELECTING" /\ UsedInLease' /\ WireSound
    BY <1>1, <1>3, DiscoverSound DEF SameLease, IInv, TypeOK, UsedInLease
  <2>2. ip_addr = 0
    BY <1>1, <1>3 DEF IInv, LeaseTimed, dhcp_supplied_address
  <2> QED
    BY <1>2, <1>3, <2>1, <2>2 DEF WireSound, IInv, TypeOK, LeaseTimed
<1>4. CASE d.state = "REQUESTING" /\ dhcp_select(d) /\ UNCHANGED <<ip_addr, dhcp_done, grant>>
  <2> HIDE DEF d
  <2>1. ip_addr = 0
    BY <1>1, <1>4 DEF IInv, LeaseTimed, dhcp_supplied_address
  <2>2. /\ dhcp' \in Client /\ dhcp'.state = "REQUESTING" /\ SameLease(d, dhcp') /\ WireSound
    BY <1>1, <1>4, <2>1, RequestSound DEF SameLease, States, dhcp_select
  <2> QED
    BY <1>1, <1>2, <1>4, <2>1, <2>2 DEF WireSound, IInv, TypeOK, LeaseTimed, UsedInLease, SameLease
<1>5. CASE Restart
  BY <1>2, <1>5, RestartIInv DEF IInv, TypeOK
<1>6. CASE dhcp' = d /\ UNCHANGED <<ip_addr, dhcp_done, grant>> /\ UNCHANGED wire
  <2> HIDE DEF d
  <2> QED
    BY <1>1, <1>2, <1>6
       DEF SameLease, wire, IInv, TypeOK, LeaseTimed, UsedInLease, XidsApart, dhcp_supplied_address
<1> QED
  BY <1>3, <1>4, <1>5, <1>6 DEF dhcp_fine_tmr

(* Half of a number of minutes is one. *)
LEMMA HalfMinute ==
  ASSUME NEW a \in Minute, NEW b \in Minute, NEW t \in Minute
  PROVE  Half(a - b, t) \in Minute
BY DhcpAssumption DEF Half, Minute

(* The coarse timer keeps it, and takes the address away in time. *)
LEMMA CoarseIInv ==
  ASSUME IInv, dhcp_coarse_tmr
  PROVE  IInv'
<1> DEFINE d0 == [dhcp EXCEPT !.lease_used = IF dhcp.t0_timeout > 0 THEN @ + 1 ELSE @]
           d2 == [d0 EXCEPT !.t2_rebind = Down(@)]
           d1 == [d2 EXCEPT !.t1_renew = Down(@)]
<1>1. age' = Min({age + 1, MaxMinutes + 1}) /\ age' \in 0..(MaxMinutes + 1)
  <2>1. age' = Min({age + 1, MaxMinutes + 1})
    BY DEF dhcp_coarse_tmr
  <2> QED
    BY <2>1, MinOfTwo, DhcpAssumption DEF IInv, TypeOK
<1>2. CASE Expired(d0) /\ Restart
  BY <1>1, <1>2, RestartIInv
<1>3. CASE /\ ~Expired(d0)
           /\ IF dhcp.t2_rebind = 1 THEN dhcp_t2_timeout(d2)
              ELSE IF dhcp.t1_renew = 1 THEN dhcp_t1_timeout(d1)
              ELSE dhcp' = d1 /\ UNCHANGED wire
           /\ UNCHANGED <<ip_addr, dhcp_done, grant>>
  <2> DEFINE Counted(d) ==
               /\ d.xid = dhcp.xid /\ d.t0_timeout = dhcp.t0_timeout
               /\ d.lease_used = IF dhcp.t0_timeout > 0 THEN dhcp.lease_used + 1
                                 ELSE dhcp.lease_used
  <2>1. dhcp.lease_used \in Nat /\ dhcp.t0_timeout \in Minute /\ dhcp.state \in States
    BY DhcpAssumption DEF IInv, TypeOK, Client, Minute
  <2>2. d0.t0_timeout = dhcp.t0_timeout
    BY DEF IInv, TypeOK, Client
  <2>3. d0.lease_used = IF dhcp.t0_timeout > 0 THEN dhcp.lease_used + 1 ELSE dhcp.lease_used
    BY DEF IInv, TypeOK, Client
  <2>4. d0.lease_used \in Minute /\ (dhcp.t0_timeout > 0 => d0.lease_used < dhcp.t0_timeout)
    BY <1>3, <2>1, <2>2, <2>3, DhcpAssumption DEF IInv, UsedInLease, Expired, Minute
  <2>5. d0 \in Client /\ d0.state = dhcp.state /\ Counted(d0)
    BY <2>2, <2>3, <2>4 DEF IInv, TypeOK, Client
  <2>6. \A n \in Minute : Down(n) \in Minute
    BY DhcpAssumption DEF Down, Minute
  <2> HIDE DEF d0
  <2>7. d2 \in Client /\ d2.state = dhcp.state /\ Counted(d2)
    BY <2>5, <2>6 DEF Client
  <2> HIDE DEF d2
  <2>8. d1 \in Client /\ d1.state = dhcp.state /\ Counted(d1)
    BY <2>6, <2>7 DEF Client
  <2> HIDE DEF d1
  <2> DEFINE Ticked ==
               /\ dhcp' \in Client /\ Counted(dhcp')
               /\ dhcp'.state # "BACKING_OFF"
               /\ dhcp_supplied_address(dhcp) => dhcp_supplied_address(dhcp')
               /\ WireSound
  <2>9. ASSUME NEW d \in Client, dhcp' = d, d.state = dhcp.state, Counted(d),
               UNCHANGED wire
        PROVE  Ticked
    BY <2>9 DEF IInv, TypeOK, XidsApart, WireSound, wire, dhcp_supplied_address
  <2>10. ASSUME NEW d \in Client, NEW s \in {"RENEWING", "REBINDING"}, Request(d, s), Counted(d),
                dhcp.state \in {"REQUESTING", "BOUND", "RENEWING", "REBINDING"}
         PROVE  Ticked
    <3>1. /\ dhcp' \in Client /\ dhcp'.state = s /\ SameLease(d, dhcp') /\ WireSound
      BY <2>10, RequestSound DEF States
    <3> QED
      BY <2>10, <3>1 DEF SameLease, dhcp_supplied_address, IInv, TypeOK
  <2>11. ASSUME dhcp_t2_timeout(d2) PROVE Ticked
    <3> DEFINE e == [d2 EXCEPT !.t2_rebind = Half(d2.t0_timeout - d2.lease_used, @)]
    <3>1. e \in Client /\ Counted(e)
      BY <2>7, HalfMinute DEF Client
    <3> HIDE DEF e
    <3>2. CASE d2.state \in {"REQUESTING", "BOUND", "RENEWING", "REBINDING"}
      <4>1. Request(e, "REBINDING")
        BY <2>11, <3>2 DEF dhcp_t2_timeout, e
      <4> QED
        BY <2>7, <2>10, <3>1, <3>2, <4>1
    <3>3. CASE d2.state \notin {"REQUESTING", "BOUND", "RENEWING", "REBINDING"}
      BY <2>7, <2>9, <2>11, <3>3 DEF dhcp_t2_timeout
    <3> QED
      BY <3>2, <3>3
  <2>12. ASSUME dhcp_t1_timeout(d1) PROVE Ticked
    <3> DEFINE e == [d1 EXCEPT !.t1_renew = Half(d1.t2_timeout - d1.lease_used, @)]
    <3>1. e \in Client /\ Counted(e)
      BY <2>8, HalfMinute DEF Client
    <3> HIDE DEF e
    <3>2. CASE d1.state \in {"REQUESTING", "BOUND", "RENEWING"}
      <4>1. Request(e, "RENEWING")
        BY <2>12, <3>2 DEF dhcp_t1_timeout, e
      <4> QED
        BY <2>8, <2>10, <3>1, <3>2, <4>1
    <3>3. CASE d1.state \notin {"REQUESTING", "BOUND", "RENEWING"}
      BY <2>8, <2>9, <2>12, <3>3 DEF dhcp_t1_timeout
    <3> QED
      BY <3>2, <3>3
  <2>13. Ticked
    BY <1>3, <2>8, <2>9, <2>11, <2>12
  <2>14. TypeOK'
    BY <1>1, <1>3, <2>13 DEF WireSound, IInv, TypeOK
  <2>15. UsedInLease'
    BY <2>1, <2>3, <2>4, <2>13 DEF IInv, UsedInLease, Minute
  <2>16. LeaseTimed'
    <3> SUFFICES ASSUME ip_addr # 0, grant # Infinite
                 PROVE  /\ dhcp'.t0_timeout = Minutes(grant) /\ dhcp'.lease_used = age'
                        /\ age' < Minutes(grant)
      BY <1>3, <2>13 DEF IInv, LeaseTimed
    <3>1. dhcp.t0_timeout = Minutes(grant) /\ dhcp.lease_used = age /\ age < Minutes(grant)
      BY DEF IInv, LeaseTimed
    <3> DEFINE n == Minutes(grant)
    <3>0. n \in 1..MaxMinutes
      BY MinutesPositive DEF IInv, TypeOK
    <3> HIDE DEF n
    <3>2. age' = age + 1
      BY <1>1, <3>0, <3>1, MinOfTwo, DhcpAssumption DEF IInv, TypeOK, n
    <3> QED
      BY <2>3, <2>4, <2>13, <3>0, <3>1, <3>2, DhcpAssumption DEF IInv, TypeOK, n
  <2> QED
    BY <1>3, <2>13, <2>14, <2>15, <2>16 DEF WireSound, IInv
<1> QED
  BY <1>2, <1>3 DEF dhcp_coarse_tmr

-----------------------------------------------------------------------------
(* Every step keeps the invariant. *)
LEMMA NextIInv == ASSUME IInv, [Next]_vars PROVE IInv'
<1>1. CASE Next
  BY <1>1, StartIInv, FineIInv, CoarseIInv, RecvIInv, LoseIInv DEF Next
<1>2. CASE UNCHANGED vars
  BY <1>2 DEF vars, IInv, TypeOK, LeaseTimed, UsedInLease, XidsApart, dhcp_supplied_address
<1> QED
  BY <1>1, <1>2

(* Every reachable state satisfies the inductive invariant. *)
THEOREM IInvHolds == Spec => []IInv
<1>1. IInv /\ [Next]_vars => IInv'
  BY NextIInv
<1> QED
  BY InitIInv, <1>1, PTL DEF Spec

(* The fields of struct dhcp stay in their ranges: lease_used does not pass *)
(* the lease, no counter goes below zero, and the answers under way bear    *)
(* identifiers that were drawn.                                             *)
THEOREM TypeCorrect == Spec => []TypeOK
BY IInvHolds, PTL DEF IInv

(* By the seconds that the last ACK granted, the interface gives its        *)
(* address up half a period of dhcp_coarse_tmr late at most, or at its      *)
(* first call; and it has one only in states that will take it away.        *)
THEOREM LeaseIsRespected == Spec => []LeaseRespected
<1>1. IInv => LeaseRespected
  <2> SUFFICES ASSUME IInv, ip_addr # 0, grant # Infinite
               PROVE  (age + 1) * Secs <= grant + Secs \div 2 \/ age = 0
    BY DEF IInv, LeaseTimed, LeaseRespected
  <2>1. grant \in 0..(Word - 1) /\ age \in Nat /\ age < Minutes(grant)
    BY DhcpAssumption DEF IInv, TypeOK, LeaseTimed
  <2> QED
    BY <2>1, MinutesInLease
<1> QED
  BY <1>1, IInvHolds, PTL

(* Nothing is taken from an answer to any earlier negotiation unless        *)
(* LWIP_RAND drew the identifier of one under way or memory lacked.         *)
THEOREM AnswersAreFresh == Spec => FreshAnswers
<1>1. IInv /\ [Next]_vars => [\A m \in past : dhcp_recv(m) => clash]_vars
  BY DEF IInv, XidsApart, dhcp_recv
<1> QED
  BY <1>1, IInvHolds, PTL DEF Spec, FreshAnswers
=============================================================================
