------------------------------ MODULE Timeouts ------------------------------
(***************************************************************************)
(* lwIP's timers (src/lwip/src/core/timeouts.c): the list of time-outs and *)
(* sys_check_timeouts, which lwip_poll (src/network/lwip_init.c) calls as  *)
(* often as the NTP task comes round.  This build has only the cyclic      *)
(* timers of lwip_cyclic_timers: ip_reass_tmr, etharp_tmr, dhcp_coarse_tmr,*)
(* dhcp_fine_tmr and dns_tmr; nothing else calls sys_timeout, and          *)
(* sys_untimeout and sys_restart_timeouts are not called.                  *)
(*                                                                         *)
(* sys_now (src/src/main.c) is a u32, scaled to Wrap values, that goes on  *)
(* while handlers run.  No absolute time is kept: what the properties need *)
(* of it are the ghosts left, ago and credit.                              *)
(***************************************************************************)
EXTENDS Integers, Sequences, SequencesExt

CONSTANTS
  Timers,
  interval_ms,  \* of each timer
  Order,        \* the order of lwip_cyclic_timers
  Wrap,         \* the number of values of a u32
  MaxLate       \* bound on how late a handler is called

LWIP_MAX_TIMEOUT == (Wrap \div 2) - 1

(* The longest that sys_check_timeouts takes. *)
MaxRun == LWIP_MAX_TIMEOUT - (Wrap \div 4)

TimeoutsAssumption ==
  /\ Wrap \in Nat /\ Wrap % 4 = 0
  /\ interval_ms \in [Timers -> 1..(Wrap \div 4)]
  /\ Order \in Seq(Timers) \ {<<>>} /\ IsInjective(Order) /\ ToSet(Order) = Timers
  /\ MaxLate \in Nat /\ MaxLate + (Wrap \div 4) <= LWIP_MAX_TIMEOUT

VARIABLES
  clock,         \* what sys_now() returns
  next_timeout,  \* the list; left is a ghost: the true time left until due
  now,           \* local of sys_check_timeouts: the time at its start
  ago,           \* ghost: the time since then
  running,       \* at most one: the timer whose handler runs and, in due,
                 \* which only that handler reads
  pc,            \* "init" at the start, "away" when sys_check_timeouts is not running
  credit,        \* ghost: time since the start less the intervals of the calls
  calls          \* ghost: the calls of each handler in this sys_check_timeouts,
                 \* 3 for more

vars == <<clock, next_timeout, now, ago, running, pc, credit, calls>>

(* A credit above this is not told apart: it covers a call that is as late  *)
(* as can be and the next one.                                              *)
MaxCredit == MaxLate + (Wrap \div 4)

TypeOK ==
  /\ clock \in 0..(Wrap - 1)
  /\ next_timeout \in Seq([timer: Timers, time: 0..(Wrap - 1),
                           left: (-MaxLate)..(Wrap \div 4)])
  /\ now \in 0..(Wrap - 1)
  /\ ago \in 0..MaxRun
  /\ running \in Seq([timer: Timers, due: 0..(Wrap - 1)]) /\ Len(running) <= 1
  /\ pc \in {"init", "away", "check", "handler"}
  /\ credit \in [Timers -> Int]
  /\ calls \in [Timers -> 0..3]

-----------------------------------------------------------------------------
(* Mutant: the times are compared as plain numbers. *)
PlainLess(t, compare_to) == t < compare_to

TIME_LESS_THAN(t, compare_to) == ((t - compare_to) % Wrap) > LWIP_MAX_TIMEOUT

(* In front of the first entry that is due later than this one. *)
sys_timeout_abs(list, entry) ==
  LET Later(i) == TIME_LESS_THAN(entry.time, list[i].time)
      later == {i \in DOMAIN list : Later(i)}
      at == IF later = {} THEN Len(list) + 1
            ELSE CHOOSE i \in later : \A j \in later : i <= j
  IN InsertAt(list, at, entry)

(* The true time left that goes with a due time, seen from the clock. *)
Entry(t, due, left) == [timer |-> t, time |-> due % Wrap, left |-> left]

Init ==
  /\ clock = 0
  /\ next_timeout = <<>>
  /\ now = 0 /\ ago = 0
  /\ running = <<>>
  /\ pc = "init"
  /\ credit = [t \in Timers |-> 0]
  /\ calls = [t \in Timers |-> 0]

(* A millisecond passes, while handlers run as well.  The bounds on how     *)
(* late an entry is and how long sys_check_timeouts takes are the code's:   *)
(* the comparison of times is right within half a turn (25 days).           *)
Tick ==
  /\ \A i \in DOMAIN next_timeout : next_timeout[i].left > -MaxLate
  /\ ago < MaxRun
  /\ clock' = (clock + 1) % Wrap
  /\ next_timeout' = [i \in DOMAIN next_timeout |->
                        [next_timeout[i] EXCEPT !.left = @ - 1]]
  /\ ago' = IF pc \in {"init", "away"} THEN ago ELSE ago + 1
  /\ credit' = [t \in Timers |-> IF credit[t] = MaxCredit THEN MaxCredit
                                 ELSE credit[t] + 1]
  /\ UNCHANGED <<now, running, pc, calls>>

(* One turn of the loop: sys_timeout sets the next of the cyclic timers.    *)
(* The clock goes on meanwhile: network_init runs in the NTP task.          *)
sys_timeouts_init ==
  /\ pc = "init"
  /\ LET n == Len(next_timeout) + 1
         t == Order[n]
     IN /\ next_timeout' = sys_timeout_abs(next_timeout,
                             Entry(t, clock + interval_ms[t], interval_ms[t]))
        /\ pc' = IF n = Len(Order) THEN "away" ELSE "init"
  /\ UNCHANGED <<clock, now, ago, running, credit, calls>>

-----------------------------------------------------------------------------
(* sys_check_timeouts *)

Begin ==
  /\ pc = "away"
  /\ pc' = "check"
  /\ now' = clock
  /\ ago' = 0
  /\ UNCHANGED <<clock, next_timeout, running, credit, calls>>

(* Only the timers that were expired at the start are called. *)
Expired == next_timeout # <<>> /\ ~TIME_LESS_THAN(now, Head(next_timeout).time)

Fire ==
  /\ pc = "check" /\ Expired
  /\ LET first == Head(next_timeout)
     IN /\ running' = <<[timer |-> first.timer, due |-> first.time]>>
        /\ credit' = [credit EXCEPT ![first.timer] = @ - interval_ms[first.timer]]
        /\ calls' = [calls EXCEPT ![first.timer] = IF @ = 3 THEN 3 ELSE @ + 1]
  /\ next_timeout' = Tail(next_timeout)
  /\ pc' = "handler"
  /\ UNCHANGED <<clock, now, ago>>

(* Mutant: a timer that is behind is called until it has caught up. *)
OverloadNever(due) == FALSE

(* The next time has passed already. *)
Overload(due) == TIME_LESS_THAN(due, clock)

NextDue(t) == (Head(running).due + interval_ms[t]) % Wrap

(* The handler has returned: lwip_cyclic_timer sets the timer again, a      *)
(* whole number of intervals after the last time unless it is behind.       *)
lwip_cyclic_timer ==
  /\ pc = "handler"
  /\ LET t == Head(running).timer
         due == NextDue(t)
         ahead == (due - clock) % Wrap
         entry == IF Overload(due) THEN Entry(t, clock + interval_ms[t], interval_ms[t])
                  ELSE Entry(t, due, IF ahead > LWIP_MAX_TIMEOUT THEN ahead - Wrap
                                     ELSE ahead)
     IN next_timeout' = sys_timeout_abs(next_timeout, entry)
  /\ running' = <<>>
  /\ pc' = "check"
  /\ UNCHANGED <<clock, now, ago, credit, calls>>

Leave ==
  /\ pc = "check" /\ ~Expired
  /\ pc' = "away"
  /\ calls' = [t \in Timers |-> 0]
  /\ now' = 0 /\ ago' = 0
  /\ UNCHANGED <<clock, next_timeout, running, credit>>

Check == Fire \/ lwip_cyclic_timer \/ Leave

Next == sys_timeouts_init \/ Tick \/ Begin \/ Check

Spec == Init /\ [][Next]_vars

-----------------------------------------------------------------------------
(* sys_check_timeouts misses nobody: when it leaves, no timer is on the     *)
(* list that was due when it began, also across the wrap of the clock.      *)
(* The loop looks at the first entry only, so this needs the list sorted by *)
(* true time whatever the handlers' delays and the restarts.                *)
NothingMissed ==
  [][pc = "check" /\ pc' = "away" =>
       \A i \in DOMAIN next_timeout : next_timeout[i].left + ago > 0]_vars

(* No handler is called more often than its interval allows, counted from   *)
(* the start: the corrections of lwip_cyclic_timer for late calls never     *)
(* make up for more than the time that has passed.                          *)
NotTooOften == \A t \in Timers : credit[t] >= 0

(* However late sys_check_timeouts is called, it calls a handler at most    *)
(* twice: a timer that is behind starts anew and does not catch up.         *)
NoBurst == \A t \in Timers : calls[t] <= 2
=============================================================================
