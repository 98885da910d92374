--------------------------- MODULE SpeechProofs ----------------------------
(***************************************************************************)
(* Proofs about what is said and how it is printed: ClockTime for every    *)
(* word size and epoch difference, the code's 2^32 and 2208988800 among    *)
(* them, and UartPrintf for every set of tasks, assignment of priorities   *)
(* and size of the buffer.                                                 *)
(***************************************************************************)
EXTENDS MCSpeech, SequenceTheorems, TLAPS

(* Arithmetic modulo a word of any size, one wrap away from the word. *)
LEMMA Wraps ==
  ASSUME NEW M \in Nat, M > 0, NEW x \in 0..(M - 1)
  PROVE  x % M = x /\ (x + M) % M = x /\ (x - M) % M = x
<1>1. x % M = x
  BY Z3
<1>2. (x + M) % M = x
  BY Z3
<1>3. (x - M) % M = x
  BY Z3
<1> QED
  BY <1>1, <1>2, <1>3

(* Subtracting the epochs' difference undoes the server's addition of it,   *)
(* whether or not the addition wrapped around.                              *)
LEMMA EpochRoundTrip ==
  ASSUME NEW u \in 0..(Modulus - 1)
  PROVE  /\ (((u + NTP_UNIX_EPOCH_DIFF) % Modulus) - NTP_UNIX_EPOCH_DIFF) % Modulus = u
         /\ (u + NTP_UNIX_EPOCH_DIFF) % Modulus \in 0..(Modulus - 1)
<1> DEFINE D == NTP_UNIX_EPOCH_DIFF
           M == Modulus
<1>0. M \in Nat /\ M > 0 /\ D \in 0..(M - 1) /\ u \in Nat
  BY WidthAssumption DEF IST_OFFSET_SECONDS
<1>1. u % M = u /\ (u - M) % M = u
  BY <1>0, Wraps
<1>2. CASE u + D < M
  <2>1. u + D \in 0..(M - 1)
    BY <1>0, <1>2
  <2>2. (u + D) % M = u + D
    BY <1>0, <2>1, Wraps
  <2>3. (u + D) - D = u
    BY <1>0
  <2> QED
    BY <1>1, <2>1, <2>2, <2>3, Zenon
<1>3. CASE u + D >= M
  <2>1. u + D - M \in 0..(M - 1) /\ u + D - M + M = u + D
    BY <1>0, <1>3
  <2>2. (u + D) % M = u + D - M
    BY <1>0, <2>1, Wraps
  <2>3. (u + D - M) - D = u - M
    BY <1>0
  <2> QED
    BY <1>1, <2>1, <2>2, <2>3, Zenon
<1> QED
  BY <1>0, <1>2, <1>3

(* Hours, minutes and seconds make up the second of the day they came from. *)
LEMMA SplitDay ==
  ASSUME NEW x \in Int
  PROVE  LET s == x % 86400
         IN  /\ s \div 3600 \in 0..23
             /\ (s % 3600) \div 60 \in 0..59
             /\ s % 60 \in 0..59
             /\ (s \div 3600) * 3600 + ((s % 3600) \div 60) * 60 + (s % 60) = s
<1> DEFINE s == x % 86400
<1>0. s \in Int /\ 0 <= s /\ s <= 86399
  BY Z3
<1> HIDE DEF s
<1>1. s \div 3600 \in 0..23
  BY <1>0, Z3
<1>2. (s % 3600) \div 60 \in 0..59
  BY <1>0, Z3
<1>3. s % 60 \in 0..59
  BY <1>0, Z3
<1>4. (s \div 3600) * 3600 + ((s % 3600) \div 60) * 60 + (s % 60) = s
  BY <1>0, Z3
<1> QED
  BY <1>1, <1>2, <1>3, <1>4 DEF s

-----------------------------------------------------------------------------
(* TypeOK with what the timestamp, the message and the tokens hold. *)
IInv ==
  /\ TypeOK
  /\ pc = "convert" => ntp_timestamp = (utc + NTP_UNIX_EPOCH_DIFF) % Modulus
  /\ MsgIsIst
  /\ pc = "done" => tokens = TokensOf(msg)

(* The conversion gives the time of day in India. *)
LEMMA TimeMsgIsIst ==
  ASSUME utc \in 0..(Modulus - 1), NEW ts, ts = (utc + NTP_UNIX_EPOCH_DIFF) % Modulus
  PROVE  /\ TimeMsg(ts) \in [hour: 0..23, minute: 0..59, second: 0..59]
         /\ utc + IST_OFFSET_SECONDS < Modulus =>
              TimeMsg(ts).hour * 3600 + TimeMsg(ts).minute * 60 + TimeMsg(ts).second
                = IstSecondsOfDay
<1>0. Modulus \in Nat /\ Modulus > 0 /\ utc + IST_OFFSET_SECONDS \in Nat
  BY WidthAssumption DEF IST_OFFSET_SECONDS
<1>1. unix_time(ts) = utc
  BY EpochRoundTrip, Zenon DEF unix_time
<1>2. ist_time(ts) = (utc + IST_OFFSET_SECONDS) % Modulus
  BY <1>1, Zenon DEF ist_time
<1>3. ist_time(ts) \in Int
  BY <1>0, <1>2
<1>4. ASSUME utc + IST_OFFSET_SECONDS < Modulus
      PROVE  ist_time(ts) = utc + IST_OFFSET_SECONDS
  <2>1. utc + IST_OFFSET_SECONDS \in 0..(Modulus - 1)
    BY <1>0, <1>4
  <2>2. (utc + IST_OFFSET_SECONDS) % Modulus = utc + IST_OFFSET_SECONDS
    BY <1>0, <2>1, Wraps
  <2> QED
    BY <1>2, <2>2, Zenon
<1> DEFINE s == ist_time(ts) % 86400
<1>5. TimeMsg(ts) = [hour |-> s \div 3600, minute |-> (s % 3600) \div 60, second |-> s % 60]
  BY DEF TimeMsg
<1>6. /\ s \div 3600 \in 0..23
      /\ (s % 3600) \div 60 \in 0..59
      /\ s % 60 \in 0..59
      /\ (s \div 3600) * 3600 + ((s % 3600) \div 60) * 60 + (s % 60) = s
  BY <1>3, SplitDay
<1>7. utc + IST_OFFSET_SECONDS < Modulus => s = IstSecondsOfDay
  BY <1>4 DEF IstSecondsOfDay, IST_OFFSET_SECONDS
<1> HIDE DEF s
<1> QED
  BY <1>5, <1>6, <1>7

(* Every reachable state satisfies the inductive invariant. *)
THEOREM IInvHolds == Spec => []IInv
<1>1. Init => IInv
  BY WidthAssumption DEF Init, IInv, TypeOK, MsgIsIst, IST_OFFSET_SECONDS
<1>2. IInv /\ [Next]_vars => IInv'
  <2> SUFFICES ASSUME IInv, [Next]_vars PROVE IInv'
    OBVIOUS
  <2>1. CASE Stamp
    <3>1. ntp_timestamp' \in 0..(Modulus - 1)
      BY <2>1, EpochRoundTrip DEF Stamp, IInv, TypeOK
    <3>2. TypeOK'
      BY <2>1, <3>1 DEF Stamp, IInv, TypeOK
    <3> QED
      BY <2>1, <3>2 DEF Stamp, IInv, MsgIsIst
  <2>2. CASE Convert
    <3>1. utc \in 0..(Modulus - 1) /\ ntp_timestamp = (utc + NTP_UNIX_EPOCH_DIFF) % Modulus
      BY <2>2 DEF Convert, IInv, TypeOK
    <3>2. /\ msg' \in [hour: 0..23, minute: 0..59, second: 0..59]
          /\ utc + IST_OFFSET_SECONDS < Modulus =>
               msg'.hour * 3600 + msg'.minute * 60 + msg'.second = IstSecondsOfDay
      BY <2>2, <3>1, TimeMsgIsIst DEF Convert
    <3>3. TypeOK'
      BY <2>2, <3>2 DEF Convert, IInv, TypeOK
    <3>4. MsgIsIst'
      BY <2>2, <3>2 DEF Convert, MsgIsIst, IstSecondsOfDay
    <3> QED
      BY <2>2, <3>3, <3>4 DEF Convert, IInv
  <2>3. CASE speak_time
    BY <2>3 DEF speak_time, IInv, TypeOK, MsgIsIst, IstSecondsOfDay, TokensOf, Number, Unit
  <2>4. CASE UNCHANGED vars
    <3>1. TypeOK' /\ pc' = pc /\ msg' = msg /\ tokens' = tokens /\ utc' = utc
                 /\ ntp_timestamp' = ntp_timestamp
      BY <2>4 DEF vars, IInv, TypeOK
    <3>2. MsgIsIst'
      BY <3>1 DEF IInv, MsgIsIst, IstSecondsOfDay
    <3> QED
      BY <3>1, <3>2 DEF IInv, TokensOf, Number, Unit
  <2> QED
    BY <2>1, <2>2, <2>3, <2>4 DEF Next
<1> QED
  BY <1>1, <1>2, PTL DEF Spec

(* The fields of time_msg always have the ranges that time_msg.h gives. *)
THEOREM TypeCorrect == Spec => []TypeOK
BY IInvHolds, PTL DEF IInv

(* For every word size ntp_get_time converts every instant that leaves room *)
(* for the offset, those after the NTP era's end included, to Indian time.  *)
THEOREM ConvertsToIst == Spec => []MsgIsIst
BY IInvHolds, PTL DEF IInv
-----------------------------------------------------------------------------
(* r is t with one token more, x. *)
Emitted(S, t, x, r) ==
  /\ r \in Seq(S)
  /\ Len(r) = Len(t) + 1
  /\ r[Len(t) + 1] = x
  /\ \A k \in 1..Len(t) : r[k] = t[k]

(* A token that is added comes last and moves no other. *)
LEMMA TokenAdded ==
  ASSUME NEW S, NEW t \in Seq(S), NEW x \in S
  PROVE  Emitted(S, t, x, t \o <<x>>)
<1>0. PICK r : r = t \o <<x>>
  OBVIOUS
<1>1. PICK u : u = <<x>>
  OBVIOUS
<1>2. u \in Seq(S) /\ Len(u) = 1 /\ u[1] = x
  BY <1>1
<1>3. /\ r \in Seq(S)
      /\ Len(r) = Len(t) + Len(u)
      /\ \A k \in 1..(Len(t) + Len(u)) :
           r[k] = IF k <= Len(t) THEN t[k] ELSE u[k - Len(t)]
  BY <1>0, <1>1, <1>2, ConcatProperties
<1>4. Len(t) \in Nat
  OBVIOUS
<1>5. Emitted(S, t, x, r)
  BY <1>2, <1>3, <1>4 DEF Emitted
<1> QED
  BY <1>0, <1>5, Zenon

(* The listener's six tokens stand at their places among ten. *)
InPlace(all, a, b, c, d, f, g) ==
  /\ Len(all) = 10
  /\ all[4] = a /\ all[5] = b /\ all[6] = c /\ all[7] = d
  /\ all[9] = f /\ all[10] = g

(* Ten tokens that are emitted one after the other, after the first three. *)
LEMMA TenTokens ==
  ASSUME NEW S, NEW t \in Seq(S), Len(t) = 3,
         NEW a \in S, NEW b \in S, NEW c \in S, NEW d \in S, NEW e \in S, NEW f \in S,
         NEW g \in S
  PROVE  InPlace(t \o <<a>> \o <<b>> \o <<c>> \o <<d>> \o <<e>> \o <<f>> \o <<g>>,
                 a, b, c, d, f, g)
<1>1. PICK t4 : t4 = t \o <<a>>
  OBVIOUS
<1>2. PICK t5 : t5 = t4 \o <<b>>
  OBVIOUS
<1>3. PICK t6 : t6 = t5 \o <<c>>
  OBVIOUS
<1>4. PICK t7 : t7 = t6 \o <<d>>
  OBVIOUS
<1>5. PICK t8 : t8 = t7 \o <<e>>
  OBVIOUS
<1>6. PICK t9 : t9 = t8 \o <<f>>
  OBVIOUS
<1>7. PICK t10 : t10 = t9 \o <<g>>
  OBVIOUS
<1>11. t4 \in Seq(S) /\ Len(t4) = 4 /\ t4[4] = a
  <2>1. Emitted(S, t, a, t4)
    BY <1>1, TokenAdded, Zenon
  <2> QED
    BY <2>1 DEF Emitted
<1>12. t5 \in Seq(S) /\ Len(t5) = 5 /\ t5[4] = a /\ t5[5] = b
  <2>1. Emitted(S, t4, b, t5)
    BY <1>2, <1>11, TokenAdded, Zenon
  <2> QED
    BY <1>11, <2>1 DEF Emitted
<1>13. /\ t6 \in Seq(S) /\ Len(t6) = 6
       /\ t6[4] = a /\ t6[5] = b /\ t6[6] = c
  <2>1. Emitted(S, t5, c, t6)
    BY <1>3, <1>12, TokenAdded, Zenon
  <2> QED
    BY <1>12, <2>1 DEF Emitted
<1>14. /\ t7 \in Seq(S) /\ Len(t7) = 7
       /\ t7[4] = a /\ t7[5] = b /\ t7[6] = c /\ t7[7] = d
  <2>1. Emitted(S, t6, d, t7)
    BY <1>4, <1>13, TokenAdded, Zenon
  <2> QED
    BY <1>13, <2>1 DEF Emitted
<1>15. /\ t8 \in Seq(S) /\ Len(t8) = 8
       /\ t8[4] = a /\ t8[5] = b /\ t8[6] = c /\ t8[7] = d
  <2>1. Emitted(S, t7, e, t8)
    BY <1>5, <1>14, TokenAdded, Zenon
  <2> QED
    BY <1>14, <2>1 DEF Emitted
<1>16. /\ t9 \in Seq(S) /\ Len(t9) = 9
       /\ t9[4] = a /\ t9[5] = b /\ t9[6] = c /\ t9[7] = d /\ t9[9] = f
  <2>1. Emitted(S, t8, f, t9)
    BY <1>6, <1>15, TokenAdded, Zenon
  <2> QED
    BY <1>15, <2>1 DEF Emitted
<1>17. /\ Len(t10) = 10
       /\ t10[4] = a /\ t10[5] = b /\ t10[6] = c /\ t10[7] = d /\ t10[9] = f /\ t10[10] = g
  <2>1. Emitted(S, t9, g, t10)
    BY <1>7, <1>16, TokenAdded, Zenon
  <2> QED
    BY <1>16, <2>1 DEF Emitted
<1>18. InPlace(t10, a, b, c, d, f, g)
  BY <1>17, Zenon DEF InPlace
<1> QED
  BY <1>1, <1>2, <1>3, <1>4, <1>5, <1>6, <1>7, <1>18, Zenon

(* The ten tokens of a message: every number of a time of day has a word,   *)
(* so none is left out and each stands where the listener expects it.       *)
LEMMA TokensInPlace ==
  ASSUME NEW m \in [hour: 0..23, minute: 0..59, second: 0..59]
  PROVE  LET all == TokensOf(m)
         IN  /\ Len(all) = 10
             /\ all[4] = m.hour /\ all[6] = m.minute /\ all[9] = m.second
             /\ all[5] = IF m.hour = 1 THEN "HOUR" ELSE "HOURS"
             /\ all[7] = IF m.minute = 1 THEN "MINUTE" ELSE "MINUTES"
             /\ all[10] = IF m.second = 1 THEN "SECOND" ELSE "SECONDS"
<1>1. PICK h : h = IF m.hour = 1 THEN "HOUR" ELSE "HOURS"
  OBVIOUS
<1>2. PICK i : i = IF m.minute = 1 THEN "MINUTE" ELSE "MINUTES"
  OBVIOUS
<1>3. PICK s : s = IF m.second = 1 THEN "SECOND" ELSE "SECONDS"
  OBVIOUS
<1>4. m.hour \in 0..59 /\ m.minute \in 0..59 /\ m.second \in 0..59
  OBVIOUS
<1>5. \A n \in 0..59 : Number(n) = <<n>>
  BY DEF Number
<1>6. /\ Unit(m.hour, "HOUR", "HOURS") = <<h>>
      /\ Unit(m.minute, "MINUTE", "MINUTES") = <<i>>
      /\ Unit(m.second, "SECOND", "SECONDS") = <<s>>
  BY <1>1, <1>2, <1>3 DEF Unit
<1>7. PICK t : t = <<"THE", "TIME", "IS">>
  OBVIOUS
<1>8. TokensOf(m) = t \o <<m.hour>> \o <<h>> \o <<m.minute>> \o <<i>>
                      \o <<"AND">> \o <<m.second>> \o <<s>>
  BY <1>4, <1>5, <1>6, <1>7, Zenon DEF TokensOf
<1>9. PICK S : S = {m.hour, h, m.minute, i, m.second, s, "THE", "TIME", "IS", "AND"}
  OBVIOUS
<1>10. /\ m.hour \in S /\ h \in S /\ m.minute \in S /\ i \in S /\ m.second \in S /\ s \in S
       /\ "THE" \in S /\ "TIME" \in S /\ "IS" \in S /\ "AND" \in S
  BY <1>9
<1>11. t \in Seq(S) /\ Len(t) = 3
  BY <1>7, <1>10
<1>12. PICK n1, n2, n3, all : n1 = m.hour /\ n2 = m.minute /\ n3 = m.second /\ all = TokensOf(m)
  OBVIOUS
<1>13. /\ n1 \in S /\ n2 \in S /\ n3 \in S
       /\ all = t \o <<n1>> \o <<h>> \o <<n2>> \o <<i>> \o <<"AND">> \o <<n3>> \o <<s>>
  BY <1>8, <1>10, <1>12, Zenon
<1>14. InPlace(all, n1, h, n2, i, n3, s)
  <2>1. "AND" \in S
    BY <1>10
  <2>2. InPlace(t \o <<n1>> \o <<h>> \o <<n2>> \o <<i>> \o <<"AND">> \o <<n3>> \o <<s>>,
                n1, h, n2, i, n3, s)
    BY <1>10, <1>11, <1>13, <2>1, TenTokens, Zenon
  <2> QED
    BY <1>13, <2>2, Zenon
<1> QED
  BY <1>1, <1>2, <1>3, <1>12, <1>14, Zenon DEF InPlace

(* What is spoken is the time of day in India, for every instant that       *)
(* leaves room for the offset: no number of the sentence is dropped, and    *)
(* each unit agrees with its number.                                        *)
THEOREM SpeaksTheTime == Spec => []TokensTellTime
<1>1. IInv => TokensTellTime
  <2> SUFFICES ASSUME IInv, pc = "done", utc + IST_OFFSET_SECONDS < Modulus
               PROVE  LET hour == tokens[4]  minute == tokens[6]  second == tokens[9]
                      IN  /\ Len(tokens) = 10
                          /\ hour * 3600 + minute * 60 + second = IstSecondsOfDay
                          /\ tokens[5] = IF hour = 1 THEN "HOUR" ELSE "HOURS"
                          /\ tokens[7] = IF minute = 1 THEN "MINUTE" ELSE "MINUTES"
                          /\ tokens[10] = IF second = 1 THEN "SECOND" ELSE "SECONDS"
    BY DEF TokensTellTime
  <2>1. /\ msg \in [hour: 0..23, minute: 0..59, second: 0..59]
        /\ tokens = TokensOf(msg)
        /\ msg.hour * 3600 + msg.minute * 60 + msg.second = IstSecondsOfDay
    BY DEF IInv, TypeOK, MsgIsIst
  <2>2. /\ Len(tokens) = 10
        /\ tokens[4] = msg.hour /\ tokens[6] = msg.minute /\ tokens[9] = msg.second
        /\ tokens[5] = IF msg.hour = 1 THEN "HOUR" ELSE "HOURS"
        /\ tokens[7] = IF msg.minute = 1 THEN "MINUTE" ELSE "MINUTES"
        /\ tokens[10] = IF msg.second = 1 THEN "SECOND" ELSE "SECONDS"
    BY <2>1, TokensInPlace
  <2> QED
    BY <2>1, <2>2
<1> QED
  BY IInvHolds, <1>1, PTL

-----------------------------------------------------------------------------
(* The inductive invariant of uart_printf. *)

(* vsnprintf truncates, so nothing but a NUL ever reaches the last byte. *)
LastIsNul == buf[BufSize - 1] = Printf!NUL

FormatInText == \A t \in Tasks : printing[t] = "format" => pos[t] <= len[t]

Top(t) == \A u \in Tasks \ {t} : Priority[u] < Priority[t]

(* What the task of the highest priority has formatted so far is in place. *)
TopFormatIntact ==
  \A t \in Tasks : Top(t) /\ printing[t] = "format" =>
    \A i \in Printf!Indices : i < pos[t] => buf[i] = t

PrintfInv ==
  /\ Printf!TypeOK
  /\ LastIsNul
  /\ FormatInText
  /\ TopFormatIntact
  /\ Printf!TopTextIntact

(* No other task runs while the one of the highest priority is active. *)
LEMMA TopRunsAlone ==
  ASSUME NEW t \in Tasks, NEW u \in Tasks, Top(t),
         printing[t] # "idle", Printf!CanRun(u)
  PROVE  u = t
<1>1. Priority[t] <= Priority[u]
  BY DEF Printf!CanRun, Printf!Active
<1>2. Priority[t] \in Nat /\ Priority[u] \in Nat
  BY PrintfConstants DEF Printf!PrintfAssumption
<1> QED
  BY <1>1, <1>2 DEF Top

(* No text is in work at first. *)
LEMMA InitPrintfInv == Printf!Init => PrintfInv
BY PrintfConstants
   DEF Printf!PrintfAssumption, Printf!Init, PrintfInv, Printf!TypeOK, Printf!Indices,
       LastIsNul, FormatInText, TopFormatIntact, Printf!TopTextIntact

(* uart_printf is called, perhaps while another call is in work. *)
LEMMA CallPrintfInv ==
  ASSUME PrintfInv, NEW t \in Tasks, Printf!Call(t)
  PROVE  PrintfInv'
<1>1. PICK n \in 0..MaxText : len' = [len EXCEPT ![t] = Printf!Truncated(n)]
  BY DEF Printf!Call
<1>2. Printf!Truncated(n) \in Printf!Indices /\ 0 \in Printf!Indices
  BY PrintfConstants DEF Printf!PrintfAssumption, Printf!Truncated, Printf!Indices
<1>3. Printf!TypeOK'
  BY <1>1, <1>2 DEF PrintfInv, Printf!TypeOK, Printf!Call
<1>4. LastIsNul' /\ FormatInText'
  BY <1>1, <1>2
     DEF PrintfInv, Printf!TypeOK, LastIsNul, FormatInText, Printf!Call, Printf!Indices
<1>5. TopFormatIntact'
  <2> SUFFICES ASSUME NEW u \in Tasks, Top(u), printing'[u] = "format",
                      NEW i \in Printf!Indices, i < pos'[u]
               PROVE  buf'[i] = u
    BY DEF TopFormatIntact, Top
  <2>1. u # t
    BY PrintfConstants DEF Printf!PrintfAssumption, PrintfInv, Printf!TypeOK, Printf!Call, Printf!Indices
  <2> QED
    BY <2>1 DEF PrintfInv, Printf!TypeOK, TopFormatIntact, Printf!Call
<1>6. Printf!TopTextIntact'
  BY <1>1 DEF PrintfInv, Printf!TypeOK, Printf!TopTextIntact, Printf!Call
<1> QED
  BY <1>3, <1>4, <1>5, <1>6 DEF PrintfInv

(* vsnprintf writes a character of the buffer. *)
LEMMA FormatCharPrintfInv ==
  ASSUME PrintfInv, NEW t \in Tasks, Printf!FormatChar(t)
  PROVE  PrintfInv'
<1>1. pos[t] \in Printf!Indices /\ pos[t] + 1 \in Printf!Indices /\ pos[t] # BufSize - 1 /\ Printf!NUL # t
  BY PrintfConstants DEF Printf!PrintfAssumption, PrintfInv, Printf!TypeOK, Printf!FormatChar, Printf!Indices
<1>2. Printf!TypeOK'
  BY <1>1 DEF PrintfInv, Printf!TypeOK, Printf!FormatChar
<1>3. LastIsNul' /\ FormatInText'
  BY <1>1, PrintfConstants
     DEF Printf!PrintfAssumption, PrintfInv, Printf!TypeOK, LastIsNul, FormatInText,
         Printf!FormatChar, Printf!Indices
<1>4. ASSUME NEW u \in Tasks, Top(u), printing[u] # "idle" PROVE u = t
  BY <1>4, TopRunsAlone DEF PrintfInv, Printf!FormatChar
<1>5. TopFormatIntact'
  <2> SUFFICES ASSUME NEW u \in Tasks, Top(u), printing'[u] = "format",
                      NEW i \in Printf!Indices, i < pos'[u]
               PROVE  buf'[i] = u
    BY DEF TopFormatIntact, Top
  <2>1. u = t /\ pos'[u] = pos[t] + 1
    BY <1>4 DEF PrintfInv, Printf!TypeOK, Printf!FormatChar
  <2>2. i = pos[t] \/ i < pos[t]
    BY <1>1, <2>1, PrintfConstants DEF Printf!PrintfAssumption, Printf!Indices
  <2> QED
    BY <1>1, <2>1, <2>2 DEF PrintfInv, Printf!TypeOK, TopFormatIntact, Printf!FormatChar
<1>6. Printf!TopTextIntact'
  BY <1>1, <1>4 DEF PrintfInv, Printf!TypeOK, Printf!TopTextIntact, Top, Printf!FormatChar
<1> QED
  BY <1>2, <1>3, <1>5, <1>6 DEF PrintfInv

(* vsnprintf ends the text. *)
LEMMA FormatEndPrintfInv ==
  ASSUME PrintfInv, NEW t \in Tasks, Printf!FormatEnd(t)
  PROVE  PrintfInv'
<1>1. pos[t] \in Printf!Indices /\ 0 \in Printf!Indices
  BY PrintfConstants DEF Printf!PrintfAssumption, PrintfInv, Printf!TypeOK, Printf!Indices
<1>2. Printf!TypeOK'
  BY <1>1 DEF PrintfInv, Printf!TypeOK, Printf!FormatEnd
<1>3. LastIsNul' /\ FormatInText'
  BY <1>1, PrintfConstants
     DEF Printf!PrintfAssumption, PrintfInv, Printf!TypeOK, LastIsNul, FormatInText,
         Printf!FormatEnd, Printf!Indices
<1>4. ASSUME NEW u \in Tasks, Top(u), printing[u] # "idle" PROVE u = t
  BY <1>4, TopRunsAlone DEF PrintfInv, Printf!FormatEnd
<1>5. TopFormatIntact'
  BY <1>1, <1>4
     DEF PrintfInv, Printf!TypeOK, TopFormatIntact, Top, Printf!FormatEnd, Printf!Indices
<1>6. Printf!TopTextIntact'
  <2> SUFFICES ASSUME NEW u \in Tasks, printing'[u] = "puts",
                      \A v \in Tasks \ {u} : Priority[v] < Priority[u]
               PROVE  /\ pos'[u] <= len'[u]
                      /\ \A i \in Printf!Indices : i < len'[u] => buf'[i] = u
                      /\ buf'[len'[u]] = Printf!NUL
    BY DEF Printf!TopTextIntact
  <2>1. u = t
    BY <1>4 DEF PrintfInv, Printf!TypeOK, Printf!FormatEnd, Top
  <2>2. Top(u) /\ printing[u] = "format" /\ pos[u] = len[u]
    BY <2>1 DEF Top, Printf!FormatEnd
  <2>3. /\ len' = len /\ pos'[u] = 0 /\ len[u] \in Nat
        /\ buf' = [buf EXCEPT ![len[u]] = Printf!NUL] /\ buf'[len[u]] = Printf!NUL
    BY <1>1, <2>1 DEF PrintfInv, Printf!TypeOK, Printf!FormatEnd, Printf!Indices
  <2>4. \A i \in Printf!Indices : i < len[u] => buf[i] = u
    BY <2>2 DEF PrintfInv, TopFormatIntact
  <2>5. pos'[u] <= len'[u]
    BY <2>3
  <2>6. ASSUME NEW i \in Printf!Indices, i < len[u] PROVE buf'[i] = u
    <3>1. buf[i] = u /\ i # len[u]
      BY <2>3, <2>4, <2>6 DEF Printf!Indices
    <3>2. i \in DOMAIN buf
      BY DEF PrintfInv, Printf!TypeOK
    <3> QED
      BY <2>3, <3>1, <3>2
  <2> QED
    BY <2>3, <2>5, <2>6, Zenon
<1> QED
  BY <1>2, <1>3, <1>5, <1>6 DEF PrintfInv

(* A character of the buffer goes to the UART. *)
LEMMA PutCharPrintfInv ==
  ASSUME PrintfInv, NEW t \in Tasks, Printf!PutChar(t)
  PROVE  PrintfInv'
<1>0. pos[t] \in Printf!Indices /\ pos[t] # BufSize - 1
  BY DEF PrintfInv, Printf!TypeOK, LastIsNul, Printf!PutChar
<1>1. pos[t] \in Printf!Indices /\ pos[t] + 1 \in Printf!Indices
  BY <1>0, PrintfConstants DEF Printf!PrintfAssumption, Printf!Indices
<1>2. Printf!TypeOK'
  BY <1>1 DEF PrintfInv, Printf!TypeOK, Printf!PutChar
<1>3. LastIsNul' /\ FormatInText' /\ TopFormatIntact'
  BY <1>1
     DEF PrintfInv, Printf!TypeOK, LastIsNul, FormatInText, TopFormatIntact, Top, Printf!PutChar
<1>4. Printf!TopTextIntact'
  BY <1>1 DEF PrintfInv, Printf!TypeOK, Printf!TopTextIntact, Printf!PutChar, Printf!Indices
<1> QED
  BY <1>2, <1>3, <1>4 DEF PrintfInv

(* The call returns to the one that it interrupted. *)
LEMMA ReturnPrintfInv ==
  ASSUME PrintfInv, NEW t \in Tasks, Printf!Return(t)
  PROVE  PrintfInv'
BY DEF PrintfInv, Printf!TypeOK, LastIsNul, FormatInText, TopFormatIntact, Top,
       Printf!TopTextIntact, Printf!Return

(* Every reachable state satisfies the inductive invariant. *)
THEOREM PrintfInvHolds == MCSpec => []PrintfInv
<1>1. PrintfInv /\ [MCNext]_<<vars, printf>> => PrintfInv'
  <2> SUFFICES ASSUME PrintfInv, [MCNext]_<<vars, printf>> PROVE PrintfInv'
    OBVIOUS
  <2>1. ASSUME NEW t \in Tasks, Printf!Call(t) \/ Printf!uart_printf(t) PROVE PrintfInv'
    BY <2>1, CallPrintfInv, FormatCharPrintfInv, FormatEndPrintfInv, PutCharPrintfInv,
       ReturnPrintfInv
       DEF Printf!uart_printf
  <2>2. CASE UNCHANGED printf
    BY <2>2
       DEF printf, PrintfInv, Printf!TypeOK, LastIsNul, FormatInText, TopFormatIntact,
           Top, Printf!TopTextIntact
  <2> QED
    BY <2>1, <2>2 DEF MCNext, ClockNext, PrintfNext, Printf!Next, printf
<1> QED
  BY InitPrintfInv, <1>1, PTL DEF MCSpec, MCInit

-----------------------------------------------------------------------------
(* What the invariant gives. *)

(* The indices of vsnprintf and of uart_puts stay within the buffer. *)
THEOREM PrintfTypeCorrect == MCSpec => []Printf!TypeOK
BY PrintfInvHolds, PTL DEF PrintfInv

(* uart_puts always has a NUL ahead of it, although uart_printf is called   *)
(* while another call is under way.                                         *)
THEOREM ReadsAreBounded == MCSpec => []ReadsStayInBuffer
<1>1. PrintfInv => ReadsStayInBuffer
  <2> SUFFICES ASSUME PrintfInv, NEW t \in Tasks
               PROVE  \E z \in Printf!Indices : z >= pos[t] /\ buf[z] = Printf!NUL
    BY DEF ReadsStayInBuffer, Printf!ReadsStayInBuffer
  <2>1. BufSize - 1 \in Printf!Indices /\ BufSize - 1 >= pos[t]
    BY PrintfConstants DEF Printf!PrintfAssumption, PrintfInv, Printf!TypeOK, Printf!Indices
  <2> QED
    BY <2>1 DEF PrintfInv, LastIsNul
<1> QED
  BY <1>1, PrintfInvHolds, PTL

(* The task of the highest priority, ntp_task, prints what it formatted. *)
THEOREM TopTextPrinted == MCSpec => []TopTextIntact
BY PrintfInvHolds, PTL DEF PrintfInv, TopTextIntact
=============================================================================
