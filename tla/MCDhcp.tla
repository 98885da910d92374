------------------------------- MODULE MCDhcp -------------------------------
(* The instance of Dhcp that TLC checks: a lease of four and a half minutes *)
(* that is rounded up to five, one of no time at all, an ACK that says      *)
(* nothing of the lease, and a lease without end that has times to renew    *)
(* and to rebind.  A "minute" has four seconds.                             *)
EXTENDS Dhcp

Lease(a, b, c) == [t0 |-> a, t1 |-> b, t2 |-> c]

MCEndless == {Lease(Infinite, 4, 8)}

MCLeases == {Lease(18, NotGiven, NotGiven), Lease(0, NotGiven, NotGiven),
             Lease(NotGiven, NotGiven, NotGiven)} \cup MCEndless

(* A lease that times 7 does not fit into Word. *)
MCLongLease == {Lease(40, NotGiven, NotGiven)}
=============================================================================
