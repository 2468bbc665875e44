----------------------------- MODULE RiskProofs -----------------------------
(***************************************************************************)
(* PreTradeRiskEngine::check.  Module Admission: the rate limit and the    *)
(* kill switch bound what passes, for any number of strategies and of      *)
(* threads that call into them, any rate, burst and moments of the calls;  *)
(* and the minutes in which the gate does not keep the stated hours, in    *)
(* every week.  Module Exposure: an order that is alone in its instrument  *)
(* leads to no larger position than check 6 allowed; and the books         *)
(* balance, which takes facts about ratios and about sums over the         *)
(* instruments that come first.  The two specifications share no state.    *)
(***************************************************************************)
EXTENDS Admission, Exposure, FiniteSetTheorems, TLAPS

\* What a strategy has taken in the window, together with what it could take at
\* once, never exceeds what the window allows.
BucketInv ==
  \A s \in Strategies :
    consumed[s] * Unit + Refilled(s) <= burst * Unit + (now - window) * max_rate

\* While the switch is on, a call that is in the gate was there when the switch was
\* engaged and has submitted nothing since; what left the gate has had one order at
\* most.
KillInv ==
  \A c \in Calls :
    /\ admitted[c] <= IF c \in inside THEN 1 ELSE 0
    /\ global_kill_switch /\ gate[c] # "out" => c \in inside /\ admitted[c] = 0
    /\ ~ global_kill_switch => admitted[c] = 0

AdmissionInv == AdmissionTypeOK /\ BucketInv /\ KillInv

-----------------------------------------------------------------------------
\* Products of naturals are naturals.
LEMMA ProductNat == ASSUME NEW a \in Nat, NEW b \in Nat PROVE a * b \in Nat
  BY SMT

\* One more minute accrues max_rate, one more token is Unit parts.
LEMMA ProductStep == ASSUME NEW a \in Int, NEW b \in Int
                     PROVE  (a + 1) * b = a * b + b /\ 0 * b = 0
  BY SMT

\* The refill of try_consume keeps the bucket between empty and full, and adds
\* what has accrued since the last refill up to a full bucket.
LEMMA RefilledRange ==
  ASSUME AdmissionTypeOK, NEW s \in Strategies
  PROVE  /\ Refilled(s) \in 0 .. burst * Unit
         /\ tokens[s] \in 0 .. burst * Unit
         /\ (now - last_refill[s]) * max_rate \in Nat
         /\ (now - window) * max_rate \in Nat
         /\ consumed[s] * Unit \in Nat
         /\ burst * Unit \in Nat
<1>1. /\ now - last_refill[s] \in Nat /\ now - window \in Nat
      /\ tokens[s] \in 0 .. burst * Unit /\ consumed[s] \in Nat
  BY DEF AdmissionTypeOK
<1>2. /\ (now - last_refill[s]) * max_rate \in Nat
      /\ (now - window) * max_rate \in Nat
      /\ consumed[s] * Unit \in Nat
      /\ burst * Unit \in Nat
  BY <1>1, ProductNat, BucketAssumption
<1>3. Refilled(s) \in 0 .. burst * Unit
  <2> DEFINE accrued == (now - last_refill[s]) * max_rate
             full    == burst * Unit
  <2>1. Refilled(s) = IF tokens[s] + accrued < full THEN tokens[s] + accrued
                                                    ELSE full
    BY DEF Refilled
  <2>2. accrued \in Nat /\ full \in Nat /\ tokens[s] \in 0 .. full
    BY <1>1, <1>2
  <2> HIDE DEF accrued, full
  <2>3. Refilled(s) \in 0 .. full
    BY <2>1, <2>2
  <2> QED
    BY <2>3 DEF full
<1> QED
  BY <1>1, <1>2, <1>3

-----------------------------------------------------------------------------
LEMMA AdmissionInitInv == AdmissionInit => AdmissionInv
<1> SUFFICES ASSUME AdmissionInit PROVE AdmissionInv
  OBVIOUS
<1>1. burst * Unit \in Nat
  BY ProductNat, BucketAssumption
<1>2. AdmissionTypeOK
  <2> DEFINE full == burst * Unit
  <2>1. tokens = [s \in Strategies |-> full] /\ full \in Nat
    BY <1>1 DEF AdmissionInit
  <2> HIDE DEF full
  <2>2. tokens \in [Strategies -> 0 .. full]
    BY <2>1
  <2>3. tokens \in [Strategies -> 0 .. burst * Unit]
    BY <2>2 DEF full
  <2>4. /\ global_kill_switch \in BOOLEAN /\ now \in Nat /\ window \in 0 .. now
        /\ last_refill \in [Strategies -> 0 .. now]
    <3>1. /\ now = 0 /\ window = 0 /\ global_kill_switch = FALSE
          /\ last_refill = [s \in Strategies |-> 0]
      BY DEF AdmissionInit
    <3>2. 0 \in 0 .. 0 /\ 0 \in Nat
      OBVIOUS
    <3> QED
      BY <3>1, <3>2
  <2>5. /\ gate \in [Calls -> {"out", "hours", "rate", "submit"}]
        /\ consumed \in [Strategies -> Nat] /\ admitted \in [Calls -> Nat]
        /\ inside \subseteq Calls
    BY DEF AdmissionInit
  <2> QED
    BY <2>3, <2>4, <2>5 DEF AdmissionTypeOK
<1>3. ASSUME NEW s \in Strategies
      PROVE  consumed[s] * Unit + Refilled(s)
               <= burst * Unit + (now - window) * max_rate
  <2>1. consumed[s] * Unit = 0 /\ (now - window) * max_rate = 0
    BY ProductStep, BucketAssumption DEF AdmissionInit
  <2>2. Refilled(s) \in 0 .. burst * Unit
    BY <1>2, RefilledRange
  <2> QED
    BY <1>1, <2>1, <2>2
<1>4. KillInv
  BY DEF AdmissionInit, KillInv
<1> QED
  BY <1>2, <1>3, <1>4 DEF AdmissionInv, BucketInv

\* The bucket of a strategy is untouched by a step that changes none of its parts.
LEMMA BucketUntouched ==
  ASSUME BucketInv, UNCHANGED <<now, tokens, last_refill, window, consumed>>
  PROVE  BucketInv'
  BY DEF BucketInv, Refilled

LEMMA TypeStep == AdmissionTypeOK /\ [AdmissionNext]_admissionVars => AdmissionTypeOK'
<1> SUFFICES ASSUME AdmissionTypeOK, [AdmissionNext]_admissionVars
             PROVE  AdmissionTypeOK'
  OBVIOUS
<1> USE DEF AdmissionTypeOK
<1>1. ASSUME NEW c \in Calls, CheckKill(c) PROVE AdmissionTypeOK'
  BY <1>1 DEF CheckKill
<1>2. ASSUME NEW c \in Calls, CheckHours(c) PROVE AdmissionTypeOK'
  BY <1>2 DEF CheckHours
<1>3. ASSUME NEW c \in Calls, TryConsume(c) PROVE AdmissionTypeOK'
  <2>0. PICK s \in Strategies : s = c[1]
    BY DEF Calls
  <2>1. Refilled(s) \in 0 .. burst * Unit /\ burst * Unit \in Nat
    BY RefilledRange
  <2>2. tokens' \in [Strategies -> 0 .. burst * Unit]
    <3> DEFINE full == burst * Unit
    <3>1. Refilled(s) \in 0 .. full /\ full \in Nat /\ tokens \in [Strategies -> 0 .. full]
      BY <2>1
    <3> HIDE DEF full
    <3>2. tokens' \in [Strategies -> 0 .. full]
      BY <1>3, <2>0, <3>1, BucketAssumption DEF TryConsume
    <3> QED
      BY <3>2 DEF full
  <2> QED
    BY <1>3, <2>0, <2>2 DEF TryConsume
<1>4. ASSUME NEW c \in Calls, SubmitOrder(c) PROVE AdmissionTypeOK'
  BY <1>4 DEF SubmitOrder
<1>5. ASSUME NEW c \in Calls, RejectOrder(c) PROVE AdmissionTypeOK'
  BY <1>5 DEF RejectOrder
<1>6. CASE EngageGlobalKillSwitch
  BY <1>6 DEF EngageGlobalKillSwitch
<1>7. CASE DisengageGlobalKillSwitch
  BY <1>7 DEF DisengageGlobalKillSwitch
<1>8. CASE Clock
  BY <1>8 DEF Clock
<1>9. CASE OpenWindow
  BY <1>9 DEF OpenWindow
<1>10. CASE UNCHANGED admissionVars
  BY <1>10 DEF admissionVars
<1> QED
  BY <1>1, <1>2, <1>3, <1>4, <1>5, <1>6, <1>7, <1>8, <1>9, <1>10 DEF AdmissionNext

LEMMA BucketStep ==
  AdmissionTypeOK /\ AdmissionTypeOK' /\ BucketInv /\ [AdmissionNext]_admissionVars
    => BucketInv'
<1> SUFFICES ASSUME AdmissionTypeOK, AdmissionTypeOK', BucketInv,
                    [AdmissionNext]_admissionVars
             PROVE  BucketInv'
  OBVIOUS
<1>1. ASSUME NEW c \in Calls, TryConsume(c) PROVE BucketInv'
  <2>0. PICK s \in Strategies : s = c[1]
    BY DEF Calls
  <2> SUFFICES ASSUME NEW u \in Strategies
               PROVE  (consumed[u] * Unit + Refilled(u)
                         <= burst * Unit + (now - window) * max_rate)'
    BY DEF BucketInv
  <2>1. consumed[u] * Unit + Refilled(u) <= burst * Unit + (now - window) * max_rate
    BY DEF BucketInv
  <2>2. CASE u # s
    <3>1. /\ tokens'[u] = tokens[u] /\ last_refill'[u] = last_refill[u]
          /\ consumed'[u] = consumed[u]
      BY <1>1, <2>0, <2>2 DEF TryConsume, AdmissionTypeOK
    <3>2. now' = now /\ window' = window
      BY <1>1, <2>0 DEF TryConsume
    <3>3. Refilled(u)' = Refilled(u)
      BY <3>1, <3>2 DEF Refilled
    <3> QED
      BY <2>1, <3>1, <3>2, <3>3
  <2>3. CASE u = s
    <3> DEFINE full == burst * Unit
               R    == Refilled(s)
    <3>1. R \in 0 .. full /\ full \in Nat
      BY RefilledRange
    <3>2. now' = now /\ window' = window /\ last_refill'[s] = now
      BY <1>1, <2>0 DEF TryConsume, AdmissionTypeOK
    <3>3. (now' - last_refill'[s]) * max_rate = 0
      BY <3>2, ProductStep, BucketAssumption DEF AdmissionTypeOK
    <3>4. CASE R >= Unit
      <4>1. tokens'[s] = R - Unit /\ consumed'[s] = consumed[s] + 1
        BY <1>1, <2>0, <3>4 DEF TryConsume, AdmissionTypeOK
      <4>2. Refilled(s)' = R - Unit
        <5>1. Refilled(s)' = IF tokens'[s] + 0 < full THEN tokens'[s] + 0 ELSE full
          BY <3>3 DEF Refilled
        <5> HIDE DEF full, R
        <5> QED
          BY <5>1, <4>1, <3>1, <3>4, BucketAssumption
      <4>3. consumed'[s] * Unit = consumed[s] * Unit + Unit
        BY <4>1, ProductStep, BucketAssumption DEF AdmissionTypeOK
      <4>4. /\ consumed[s] * Unit \in Nat /\ (now - window) * max_rate \in Nat
        BY RefilledRange
      <4> HIDE DEF full, R
      <4>5. consumed[s] * Unit + R <= full + (now - window) * max_rate
        BY <2>1, <2>3 DEF full, R
      <4>6. consumed'[s] * Unit + (R - Unit) <= full + (now - window) * max_rate
        BY <4>3, <4>4, <4>5, <3>1, BucketAssumption
      <4> QED
        BY <2>3, <4>2, <4>6, <3>2 DEF full
    <3>5. CASE ~ (R >= Unit)
      <4>1. tokens'[s] = R /\ consumed'[s] = consumed[s]
        BY <1>1, <2>0, <3>5 DEF TryConsume, AdmissionTypeOK
      <4>2. Refilled(s)' = R
        <5>1. Refilled(s)' = IF tokens'[s] + 0 < full THEN tokens'[s] + 0 ELSE full
          BY <3>3 DEF Refilled
        <5> HIDE DEF full, R
        <5> QED
          BY <5>1, <4>1, <3>1
      <4> QED
        BY <2>1, <2>3, <3>2, <4>1, <4>2
    <3> QED
      BY <3>4, <3>5
  <2> QED
    BY <2>2, <2>3
<1>2. CASE Clock
  <2> SUFFICES ASSUME NEW u \in Strategies
               PROVE  (consumed[u] * Unit + Refilled(u)
                         <= burst * Unit + (now - window) * max_rate)'
    BY DEF BucketInv
  <2> DEFINE full    == burst * Unit
             accrued == (now - last_refill[u]) * max_rate
             span    == (now - window) * max_rate
             taken   == consumed[u] * Unit
  <2>1. /\ tokens' = tokens /\ last_refill' = last_refill /\ consumed' = consumed
        /\ window' = window /\ now' = now + 1
    BY <1>2 DEF Clock
  <2>2. /\ accrued \in Nat /\ span \in Nat /\ taken \in Nat /\ full \in Nat
        /\ tokens[u] \in 0 .. full
    BY RefilledRange
  <2>3. /\ (now' - last_refill'[u]) * max_rate = accrued + max_rate
        /\ (now' - window') * max_rate = span + max_rate
    <3>1. /\ now' - last_refill'[u] = (now - last_refill[u]) + 1
          /\ now' - window' = (now - window) + 1
          /\ now - last_refill[u] \in Int /\ now - window \in Int
      BY <2>1 DEF AdmissionTypeOK
    <3> QED
      BY <3>1, ProductStep, BucketAssumption
  <2>4. /\ Refilled(u) = IF tokens[u] + accrued < full THEN tokens[u] + accrued
                                                       ELSE full
        /\ Refilled(u)' = IF tokens[u] + (accrued + max_rate) < full
                            THEN tokens[u] + (accrued + max_rate) ELSE full
    BY <2>1, <2>3 DEF Refilled
  <2>5. taken + Refilled(u) <= full + span
    BY DEF BucketInv
  <2> HIDE DEF full, accrued, span, taken
  <2>6. taken + Refilled(u)' <= full + (span + max_rate)
    BY <2>2, <2>4, <2>5, BucketAssumption
  <2> QED
    BY <2>1, <2>3, <2>6 DEF full, taken
<1>3. CASE OpenWindow
  <2> SUFFICES ASSUME NEW u \in Strategies
               PROVE  (consumed[u] * Unit + Refilled(u)
                         <= burst * Unit + (now - window) * max_rate)'
    BY DEF BucketInv
  <2>1. /\ tokens' = tokens /\ last_refill' = last_refill /\ now' = now
        /\ window' = now /\ consumed'[u] = 0
    BY <1>3 DEF OpenWindow
  <2>2. consumed'[u] * Unit = 0 /\ (now' - window') * max_rate = 0
    BY <2>1, ProductStep, BucketAssumption DEF AdmissionTypeOK
  <2>3. Refilled(u)' = Refilled(u)
    BY <2>1 DEF Refilled
  <2>4. Refilled(u) \in 0 .. burst * Unit /\ burst * Unit \in Nat
    BY RefilledRange
  <2> QED
    BY <2>2, <2>3, <2>4
<1>4. CASE UNCHANGED <<now, tokens, last_refill, window, consumed>>
  BY <1>4, BucketUntouched
<1> QED
  BY <1>1, <1>2, <1>3, <1>4
  DEF AdmissionNext, admissionVars, CheckKill, CheckHours, SubmitOrder, RejectOrder,
      EngageGlobalKillSwitch, DisengageGlobalKillSwitch

LEMMA KillStep ==
  AdmissionTypeOK /\ KillInv /\ [AdmissionNext]_admissionVars => KillInv'
<1> SUFFICES ASSUME AdmissionTypeOK, KillInv, [AdmissionNext]_admissionVars
             PROVE  KillInv'
  OBVIOUS
<1> USE DEF AdmissionTypeOK, KillInv
<1>1. ASSUME NEW c \in Calls, CheckKill(c) PROVE KillInv'
  BY <1>1 DEF CheckKill
<1>2. ASSUME NEW c \in Calls, CheckHours(c) PROVE KillInv'
  BY <1>2 DEF CheckHours
<1>3. ASSUME NEW c \in Calls, TryConsume(c) PROVE KillInv'
  BY <1>3 DEF TryConsume
<1>4. ASSUME NEW c \in Calls, SubmitOrder(c) PROVE KillInv'
  BY <1>4 DEF SubmitOrder
<1>5. ASSUME NEW c \in Calls, RejectOrder(c) PROVE KillInv'
  BY <1>5 DEF RejectOrder
<1>6. CASE EngageGlobalKillSwitch
  BY <1>6 DEF EngageGlobalKillSwitch
<1>7. CASE DisengageGlobalKillSwitch
  BY <1>7 DEF DisengageGlobalKillSwitch
<1>8. CASE Clock
  BY <1>8 DEF Clock
<1>9. CASE OpenWindow
  BY <1>9 DEF OpenWindow
<1>10. CASE UNCHANGED admissionVars
  BY <1>10 DEF admissionVars
<1> QED
  BY <1>1, <1>2, <1>3, <1>4, <1>5, <1>6, <1>7, <1>8, <1>9, <1>10 DEF AdmissionNext

-----------------------------------------------------------------------------
\* The three parts together are inductive.
THEOREM AdmissionInvariant == AdmissionSpec => []AdmissionInv
<1>1. AdmissionInv /\ [AdmissionNext]_admissionVars => AdmissionInv'
  BY TypeStep, BucketStep, KillStep DEF AdmissionInv
<1> QED
  BY AdmissionInitInv, <1>1, PTL DEF AdmissionSpec

\* In every window of time a strategy takes at most burst tokens and what accrues
\* in the window, for every rate, burst, number of strategies and sequence of calls.
THEOREM RateIsBounded == AdmissionSpec => []RateBound
<1>1. AdmissionInv => RateBound
  <2> SUFFICES ASSUME AdmissionInv, NEW s \in Strategies
               PROVE  consumed[s] * Unit <= burst * Unit + (now - window) * max_rate
    BY DEF RateBound
  <2>1. /\ consumed[s] * Unit + Refilled(s) <= burst * Unit + (now - window) * max_rate
        /\ AdmissionTypeOK
    BY DEF AdmissionInv, BucketInv
  <2> DEFINE taken   == consumed[s] * Unit
             allowed == burst * Unit + (now - window) * max_rate
             R       == Refilled(s)
  <2>2. taken \in Nat /\ R \in Nat /\ allowed \in Nat /\ taken + R <= allowed
    BY <2>1, RefilledRange
  <2> HIDE DEF taken, allowed, R
  <2>3. taken <= allowed
    BY <2>2
  <2> QED
    BY <2>3 DEF taken, allowed
<1> QED
  BY <1>1, AdmissionInvariant, PTL

\* Once the kill switch is engaged only the calls that were in submit_order already
\* get an order through, one each, for any number of strategies and of threads that
\* are in submit_order for one of them at once.
THEOREM KillSwitchStops == AdmissionSpec => []KillSwitchBounds
<1>1. AdmissionInv => KillSwitchBounds
  BY DEF AdmissionInv, KillInv, KillSwitchBounds
<1> QED
  BY <1>1, AdmissionInvariant, PTL

-----------------------------------------------------------------------------
\* Minute t is minute m of hour h of day d, counted from the Sunday of week k.
At(t, k, d, h, m) == t = 10080 * k + 1440 * d + 60 * h + m

\* What gmtime makes of it.
LEMMA ClockReads ==
  ASSUME NEW t \in Nat, NEW k \in Nat, NEW d \in 0 .. 6, NEW h \in 0 .. 23,
         NEW m \in 0 .. 59, At(t, k, d, h, m)
  PROVE  wday(t) = d /\ tm_hour(t) = h /\ tm_min(t) = m
<1>1. t \div 1440 = 7 * k + d
  BY SMT DEF At
<1>2. (7 * k + d) % 7 = d
  BY SMT
<1>3. t % 1440 = 60 * h + m
  BY SMT DEF At
<1>4. (60 * h + m) \div 60 = h
  BY SMT
<1>5. t % 60 = m
  BY SMT DEF At
<1> QED
  BY <1>1, <1>2, <1>3, <1>4, <1>5 DEF wday, tm_hour, tm_min

\* Every minute is one of a day of a week.
LEMMA ClockShows ==
  ASSUME NEW t \in Nat
  PROVE  \E k \in Nat, d \in 0 .. 6, h \in 0 .. 23, m \in 0 .. 59 : At(t, k, d, h, m)
<1>1. /\ t \div 10080 \in Nat /\ t % 10080 \in Nat /\ t % 10080 < 10080
      /\ t = 10080 * (t \div 10080) + (t % 10080)
  BY SMT
<1>2. PICK k \in Nat, r \in Nat : r < 10080 /\ t = 10080 * k + r
  BY <1>1
<1>3. /\ r \div 1440 \in Nat /\ r \div 1440 < 7 /\ r % 1440 \in Nat /\ r % 1440 < 1440
      /\ r = 1440 * (r \div 1440) + (r % 1440)
  BY <1>2, SMT
<1>4. PICK d \in Nat, s \in Nat : d < 7 /\ s < 1440 /\ r = 1440 * d + s
  BY <1>3
<1>5. /\ s \div 60 \in Nat /\ s \div 60 < 24 /\ s % 60 \in Nat /\ s % 60 < 60
      /\ s = 60 * (s \div 60) + (s % 60)
  BY <1>4, SMT
<1>6. PICK h \in Nat, m \in Nat : h < 24 /\ m < 60 /\ s = 60 * h + m
  BY <1>5
<1>7. d \in 0 .. 6 /\ h \in 0 .. 23 /\ m \in 0 .. 59
  BY <1>4, <1>6
<1>8. At(t, k, d, h, m)
  BY <1>2, <1>4, <1>6 DEF At
<1> QED
  BY <1>7, <1>8

\* The clock of India, five and a half hours ahead: the minutes carry into the
\* hours, the hours into the day, the day into the week.
IndianHours(h, m) == IF m < 30 THEN h + 5 ELSE h + 6
IndianMinute(m)   == IF m < 30 THEN m + 30 ELSE m - 30
IndianHour(h, m)  == IF IndianHours(h, m) < 24
                     THEN IndianHours(h, m) ELSE IndianHours(h, m) - 24
IndianDay(d, h, m) == IF IndianHours(h, m) < 24 THEN d ELSE IF d = 6 THEN 0 ELSE d + 1

\* What the true Indian clock shows in minute t.
LEMMA IndianClock ==
  ASSUME NEW t \in Nat, NEW k \in Nat, NEW d \in 0 .. 6, NEW h \in 0 .. 23,
         NEW m \in 0 .. 59, At(t, k, d, h, m)
  PROVE  /\ wday(ist(t)) = IndianDay(d, h, m)
         /\ tm_hour(ist(t)) = IndianHour(h, m)
         /\ tm_min(ist(t)) = IndianMinute(m)
<1>1. /\ IndianDay(d, h, m) \in 0 .. 6
      /\ IndianHour(h, m) \in 0 .. 23
      /\ IndianMinute(m) \in 0 .. 59
  BY SMT DEF IndianDay, IndianHour, IndianMinute, IndianHours
<1>2. PICK l \in Nat : l = IF IndianHours(h, m) >= 24 /\ d = 6 THEN k + 1 ELSE k
  BY SMT
<1>3. ist(t) \in Nat /\ At(ist(t), l, IndianDay(d, h, m), IndianHour(h, m), IndianMinute(m))
  BY <1>2, SMT DEF ist, At, IndianDay, IndianHour, IndianMinute, IndianHours
<1> QED
  BY <1>1, <1>2, <1>3, ClockReads

\* The first quarter of an hour of trading, a quarter from 10:00 on, and half an hour
\* after four, on trading days
Edge(t) ==
  /\ wday(ist(t)) \in 1 .. 5
  /\ \/ hhmm_ist(t) \in 915 .. 929
     \/ hhmm_ist(t) \in 1000 .. 1014
     \/ hhmm_ist(t) \in 1600 .. 1629

\* The gate and the stated hours disagree in the minutes at the edges of the hours,
\* whatever the week.  Where the minutes do not carry the two clocks show the same
\* hour; where they do the gate's is one hour behind.
LEMMA GateJudges ==
  ASSUME NEW t \in Nat
  PROVE  is_open(t) = StatedOpen(t) <=> ~Edge(t)
<1>1. PICK k \in Nat, d \in 0 .. 6, h \in 0 .. 23, m \in 0 .. 59 : At(t, k, d, h, m)
  BY ClockShows
<1>2. wday(t) = d /\ tm_hour(t) = h /\ tm_min(t) = m
  BY <1>1, ClockReads
<1>3. PICK e \in 0 .. 6, i \in 0 .. 23, n \in 0 .. 59 :
        /\ wday(ist(t)) = e /\ tm_hour(ist(t)) = i /\ tm_min(ist(t)) = n
        /\ e = IndianDay(d, h, m) /\ i = IndianHour(h, m) /\ n = IndianMinute(m)
  <2>1. /\ IndianDay(d, h, m) \in 0 .. 6
        /\ IndianHour(h, m) \in 0 .. 23
        /\ IndianMinute(m) \in 0 .. 59
    BY SMT DEF IndianDay, IndianHour, IndianMinute, IndianHours
  <2>2. /\ wday(ist(t)) = IndianDay(d, h, m)
        /\ tm_hour(ist(t)) = IndianHour(h, m)
        /\ tm_min(ist(t)) = IndianMinute(m)
    BY <1>1, IndianClock
  <2> QED
    BY <2>1, <2>2
<1>4. PICK g \in 0 .. 23 : (h + 5) % 24 = g /\ g = IF h < 19 THEN h + 5 ELSE h - 19
  <2>1. (h + 5) % 24 = (IF h < 19 THEN h + 5 ELSE h - 19)
    BY SMT
  <2> QED
    BY <2>1
<1>5. (m + 30) % 60 = n
  BY <1>3, SMT DEF IndianMinute
<1> DEFINE stated == e \in 1 .. 5 /\ 915 <= i * 100 + n /\ i * 100 + n < 1530
           gate_open == d \notin {0, 6} /\ 915 <= g * 100 + n /\ g * 100 + n < 1530
           edge == /\ e \in 1 .. 5
                   /\ \/ i * 100 + n \in 915 .. 929
                      \/ i * 100 + n \in 1000 .. 1014
                      \/ i * 100 + n \in 1600 .. 1629
<1>6. is_open(t) = gate_open
  BY <1>2, <1>4, <1>5 DEF is_open
<1>7. StatedOpen(t) = stated
  BY <1>3 DEF StatedOpen, hhmm_ist
<1>8. Edge(t) = edge
  BY <1>3 DEF Edge, hhmm_ist
<1>9. (gate_open <=> stated) <=> ~edge
  <2>1. CASE m < 30
    BY <1>3, <1>4, <2>1, SMT DEF IndianDay, IndianHour, IndianMinute, IndianHours
  <2>2. CASE m >= 30
    BY <1>3, <1>4, <2>2, SMT DEF IndianDay, IndianHour, IndianMinute, IndianHours
  <2> QED
    BY <2>1, <2>2
<1>10. stated \in BOOLEAN /\ gate_open \in BOOLEAN /\ edge \in BOOLEAN
  OBVIOUS
<1> HIDE DEF stated, gate_open, edge
<1>11. (gate_open = stated) <=> ~edge
  BY <1>9, <1>10
<1> QED
  BY <1>6, <1>7, <1>8, <1>11, Zenon

\* The gate of check 3 is as stated in every minute but these.
GateHours == HoursAsStated <=> ~ Edge(Minute)

\* is_open differs from the stated hours from 09:15 to 09:29 and from 10:00 to 10:14,
\* when it turns orders away, and from 16:00 to 16:29, when it lets them through, on
\* trading days; and in no other minute, whenever the engine starts and however long
\* it runs.  The UTC weekday never disagrees with the Indian one while it is open.
THEOREM GateKeepsHours == AdmissionSpec => []GateHours
<1>1. AdmissionInv => GateHours
  <2> SUFFICES ASSUME AdmissionTypeOK PROVE GateHours
    BY DEF AdmissionInv
  <2>1. PICK t \in Nat : t = Minute
    BY ClockAssumption DEF AdmissionTypeOK, Minute
  <2>2. is_open(t) = StatedOpen(t) <=> ~ Edge(t)
    BY GateJudges
  <2> QED
    BY <2>1, <2>2, Zenon DEF GateHours, HoursAsStated
<1> QED
  BY <1>1, AdmissionInvariant, PTL

-----------------------------------------------------------------------------
(* The limit of check 6 *)

\* What is known of the books, the calls, the orders and the fills.  Average prices
\* and results are ratios, of which nothing is needed here.
Trades == [token : Instruments, strategy : StrategyIds, side : {"BUY", "SELL"},
           quantity : Nat, price : Nat, ltp : Nat]
Orders == [id : Int, token : Instruments, strategy : StrategyIds,
           side : {"BUY", "SELL"}, left : Nat, ltp : Nat]

CallType(c) ==
  /\ c.req \in Requests
  /\ \/ c.pc = "check" /\ c.quantity \in Int
     \/ c.pc = "submit" /\ c.ltp \in Nat

ExposureTypeOK ==
  /\ DOMAIN positions = Instruments
  /\ \A i \in Instruments :
       "quantity" \in DOMAIN positions[i] /\ positions[i].quantity \in Int
  /\ price_cache \in [Instruments -> Nat]
  /\ DOMAIN call = Slots
  /\ \A s \in Slots : call[s] = NoCall \/ CallType(call[s])
  /\ working \subseteq Orders
  /\ submitted \in Nat
  /\ fills \in Seq(Trades)
  /\ submitted = 0 => working = {} /\ fills = << >>

Held(i) == positions[i].quantity

\* A fill changes the position of its instrument by its quantity, and no other.
LEMMA FillMoves ==
  ASSUME ExposureTypeOK, NEW f \in Trades, process_fill(f)
  PROVE  /\ DOMAIN positions' = Instruments
         /\ \A i \in Instruments :
              /\ "quantity" \in DOMAIN positions'[i]
              /\ Held(i)' = IF i = f.token THEN Held(i) + QtyDelta(f) ELSE Held(i)
<1> DEFINE i == f.token
           p == positions[i]
           q == p.quantity + QtyDelta(f)
           realized == IF Reduces(p, f) THEN Realized(p, f) ELSE Whole(0)
           new == Booked(p, f, realized)
<1>1. positions' = [positions EXCEPT ![i] = new]
  BY DEF process_fill
<1>2. i \in Instruments /\ "quantity" \in DOMAIN p
  BY DEF Trades, ExposureTypeOK
<1>3. "quantity" \in DOMAIN new /\ new.quantity = q
  BY <1>2 DEF Booked
<1> HIDE DEF new, q
<1>4. /\ DOMAIN positions' = Instruments
      /\ positions'[i] = new
      /\ \A j \in Instruments : j # i => positions'[j] = positions[j]
  BY <1>1, <1>2 DEF ExposureTypeOK
<1> QED
  BY <1>2, <1>3, <1>4 DEF ExposureTypeOK, Held, q

\* Where the position in instrument i goes when the fills that wait are booked: c[k]
\* is what is held after k of them.  All of them, and the order that still works,
\* are of one order, checked at price l; they lead towards T, which check 6 allowed.
Path(i, c, sd, l, T) ==
  /\ c[0] = Held(i)
  /\ \A k \in 1 .. Len(fills) :
       /\ c[k] = IF fills[k].token = i THEN c[k - 1] + QtyDelta(fills[k]) ELSE c[k - 1]
       /\ fills[k].token = i => fills[k].side = sd /\ fills[k].ltp = l
  /\ \A k \in 0 .. Len(fills) : IF sd = "BUY" THEN c[k] <= T ELSE T <= c[k]
  /\ \A o \in working :
       o.token = i =>
         /\ o.side = sd /\ o.ltp = l
         /\ T = IF sd = "BUY" THEN c[Len(fills)] + o.left ELSE c[Len(fills)] - o.left
  /\ Abs(T) * l <= max_position_value

Bounded(i) ==
  \E c \in [0 .. Len(fills) -> Int], sd \in {"BUY", "SELL"}, l \in Nat, T \in Int :
    Path(i, c, sd, l, T)

\* Nothing else of its instrument is under way beside a call, whose copy of the
\* position is therefore good, and so is what it was checked against.
CallsApart ==
  /\ \A s, u \in Slots :
       call[s] # NoCall /\ call[u] # NoCall /\ Req(s).token = Req(u).token => s = u
  /\ \A s \in Slots :
       call[s] # NoCall =>
         /\ \A o \in working : o.token # Req(s).token
         /\ \A k \in 1 .. Len(fills) : fills[k].token # Req(s).token
         /\ call[s].pc = "check" => call[s].quantity = Held(Req(s).token)
         /\ call[s].pc = "submit" =>
              Abs(Held(Req(s).token) + QtyDelta(Req(s))) * call[s].ltp
                <= max_position_value

OneOrderEach == \A o, p \in working : o.token = p.token => o = p

ExposureInv ==
  /\ ExposureTypeOK
  /\ ~ overlap => CallsApart /\ OneOrderEach /\ \A i \in Instruments : Bounded(i)

\* A position that nothing is on its way to is bounded for want of growth.
LEMMA IdleBounded ==
  ASSUME ExposureTypeOK, NEW i \in Instruments,
         \A o \in working : o.token # i,
         \A k \in 1 .. Len(fills) : fills[k].token # i
  PROVE  Bounded(i)
<1> DEFINE c == [k \in 0 .. Len(fills) |-> Held(i)]
<1>1. Len(fills) \in Nat /\ Held(i) \in Int
  BY DEF ExposureTypeOK, Held
<1>2. c \in [0 .. Len(fills) -> Int] /\ \A k \in 0 .. Len(fills) : c[k] = Held(i)
  BY <1>1
<1>3. \A k \in 1 .. Len(fills) : k \in 0 .. Len(fills) /\ k - 1 \in 0 .. Len(fills)
  BY <1>1
<1>4. 0 \in 0 .. Len(fills)
  BY <1>1
<1>5. Abs(Held(i)) * 0 <= max_position_value
  BY <1>1, LimitAssumption DEF Abs
<1> HIDE DEF c
<1>6. Path(i, c, "BUY", 0, Held(i))
  BY <1>1, <1>2, <1>3, <1>4, <1>5 DEF Path
<1> QED
  BY <1>1, <1>2, <1>6 DEF Bounded

\* The books, the orders and the fills are all that Path looks at.
LEMMA BoundedKept ==
  ASSUME NEW i \in Instruments, Bounded(i), Held(i)' = Held(i),
         UNCHANGED <<working, fills>>
  PROVE  Bounded(i)'
<1>1. PICK c \in [0 .. Len(fills) -> Int], sd \in {"BUY", "SELL"}, l \in Nat, T \in Int :
        Path(i, c, sd, l, T)
  BY DEF Bounded
<1>2. Path(i, c, sd, l, T)'
  BY <1>1 DEF Path
<1>3. c \in [0 .. Len(fills') -> Int]
  OBVIOUS
<1> QED
  BY <1>2, <1>3 DEF Bounded

\* A fill takes the path one step further, and what is left of its order less far:
\* the end stays the same.
LEMMA BoundedFilled ==
  ASSUME ExposureTypeOK, OneOrderEach, NEW i \in Instruments, Bounded(i),
         NEW o \in working, NEW qty \in Nat, NEW price \in Nat, OrderFilled(o, qty, price)
  PROVE  Bounded(i)'
<1>1. PICK c \in [0 .. Len(fills) -> Int], sd \in {"BUY", "SELL"}, l \in Nat, T \in Int :
        Path(i, c, sd, l, T)
  BY DEF Bounded
<1>2. PICK n \in Nat : n = Len(fills)
  <2>1. Len(fills) \in Nat
    BY DEF ExposureTypeOK
  <2> QED
    BY <2>1
<1>3. o \in Orders /\ o.left \in Nat /\ qty \in 1 .. o.left
  BY DEF ExposureTypeOK, OrderFilled, Orders
<1>4. PICK f \in Trades :
        /\ f = [token |-> o.token, strategy |-> o.strategy, side |-> o.side,
                quantity |-> qty, price |-> price, ltp |-> o.ltp]
        /\ fills' = Append(fills, f)
  BY <1>3 DEF OrderFilled, Orders, Trades
<1>5. /\ Len(fills') = n + 1 /\ fills'[n + 1] = f
      /\ \A k \in 1 .. n : fills'[k] = fills[k]
  BY <1>2, <1>4 DEF ExposureTypeOK
<1>6. QtyDelta(f) = IF o.side = "BUY" THEN qty ELSE -qty
  BY <1>4 DEF QtyDelta
<1> DEFINE d == [k \in 0 .. n + 1 |->
                   IF k <= n THEN c[k]
                   ELSE IF o.token = i THEN c[n] + QtyDelta(f) ELSE c[n]]
<1>7. /\ d \in [0 .. n + 1 -> Int]
      /\ \A k \in 0 .. n : d[k] = c[k]
      /\ d[n + 1] = IF o.token = i THEN c[n] + QtyDelta(f) ELSE c[n]
  <2>1. QtyDelta(f) \in Int
    BY <1>6
  <2>2. \A k \in 0 .. n : c[k] \in Int
    BY <1>2
  <2> QED
    BY <2>1, <2>2
<1> HIDE DEF d
<1>8. o.token = i => /\ o.side = sd /\ o.ltp = l
                     /\ T = IF sd = "BUY" THEN c[n] + o.left ELSE c[n] - o.left
  BY <1>1, <1>2 DEF Path
<1>9. c[n] \in Int /\ n \in 0 .. n + 1 /\ 0 \in 0 .. n /\ n \in 0 .. n
  BY <1>2
<1>10. d[0] = Held(i)'
  BY <1>1, <1>7, <1>9 DEF Path, OrderFilled, books, Held
<1>11. ASSUME NEW k \in 1 .. n + 1
       PROVE  /\ d[k] = IF fills'[k].token = i THEN d[k - 1] + QtyDelta(fills'[k]) ELSE d[k - 1]
              /\ fills'[k].token = i => fills'[k].side = sd /\ fills'[k].ltp = l
  <2>1. CASE k = n + 1
    <3>1. k - 1 = n
      BY <2>1
    <3>2. fills'[k] = f /\ d[k - 1] = c[n]
      BY <2>1, <3>1, <1>5, <1>7, <1>9
    <3>3. f.token = o.token /\ f.side = o.side /\ f.ltp = o.ltp
      BY <1>4
    <3> QED
      BY <2>1, <3>2, <3>3, <1>7, <1>8
  <2>2. CASE k # n + 1
    <3>1. k \in 1 .. n /\ k \in 0 .. n /\ k - 1 \in 0 .. n
      BY <2>2
    <3>2. fills'[k] = fills[k] /\ d[k] = c[k] /\ d[k - 1] = c[k - 1]
      BY <3>1, <1>5, <1>7
    <3> QED
      BY <3>1, <3>2, <1>1, <1>2 DEF Path
  <2> QED
    BY <2>1, <2>2
<1>12. ASSUME NEW k \in 0 .. n + 1
       PROVE  IF sd = "BUY" THEN d[k] <= T ELSE T <= d[k]
  <2>1. \A j \in 0 .. n : IF sd = "BUY" THEN c[j] <= T ELSE T <= c[j]
    BY <1>1, <1>2 DEF Path
  <2>2. CASE k = n + 1
    <3>1. CASE o.token = i
      BY <2>2, <3>1, <1>3, <1>6, <1>7, <1>8, <1>9
    <3>2. CASE o.token # i
      BY <2>1, <2>2, <3>2, <1>7, <1>9
    <3> QED
      BY <3>1, <3>2
  <2>3. CASE k # n + 1
    BY <2>1, <2>3, <1>7
  <2> QED
    BY <2>2, <2>3
<1>13. ASSUME NEW p \in working', p.token = i
       PROVE  /\ p.side = sd /\ p.ltp = l
              /\ T = IF sd = "BUY" THEN d[n + 1] + p.left ELSE d[n + 1] - p.left
  <2>1. p \in working \ {o} \/ (qty # o.left /\ p = [o EXCEPT !.left = @ - qty])
    BY DEF OrderFilled
  <2>2. CASE p \in working \ {o}
    <3>1. o.token # i
      BY <2>2, <1>13 DEF OneOrderEach
    <3> QED
      BY <2>2, <3>1, <1>1, <1>2, <1>7, <1>13 DEF Path
  <2>3. CASE qty # o.left /\ p = [o EXCEPT !.left = @ - qty]
    <3>1. p.token = o.token /\ p.side = o.side /\ p.ltp = o.ltp /\ p.left = o.left - qty
      BY <2>3, <1>3 DEF Orders
    <3>2. /\ o.token = i /\ d[n + 1] = c[n] + QtyDelta(f) /\ o.side = sd /\ o.ltp = l
          /\ T = IF sd = "BUY" THEN c[n] + o.left ELSE c[n] - o.left
      BY <3>1, <1>7, <1>8, <1>13
    <3>3. PICK left \in Nat, e \in Int : left = o.left /\ e = c[n]
      BY <1>3, <1>9
    <3>4. d[n + 1] = IF sd = "BUY" THEN e + qty ELSE e - qty
      BY <3>2, <3>3, <1>6
    <3>5. T = IF sd = "BUY" THEN d[n + 1] + (left - qty) ELSE d[n + 1] - (left - qty)
      BY <3>2, <3>3, <3>4
    <3> QED
      BY <3>1, <3>2, <3>3, <3>5
  <2> QED
    BY <2>1, <2>2, <2>3
<1>14. Abs(T) * l <= max_position_value
  BY <1>1 DEF Path
<1>15. Path(i, d, sd, l, T)'
  BY <1>5, <1>10, <1>11, <1>12, <1>13, <1>14 DEF Path
<1> QED
  BY <1>5, <1>7, <1>15 DEF Bounded

\* A fill that is booked takes the position to the next point of its path.
LEMMA BoundedBooked ==
  ASSUME ExposureTypeOK, NEW i \in Instruments, ProcessFill,
         NEW c \in [0 .. Len(fills) -> Int], NEW sd \in {"BUY", "SELL"}, NEW l \in Nat,
         NEW T \in Int, Path(i, c, sd, l, T)
  PROVE  Bounded(i)' /\ Held(i)' = c[1] /\ 1 \in 1 .. Len(fills)
<1>1. /\ fills \in Seq(Trades) /\ fills # << >> /\ fills' = Tail(fills)
      /\ process_fill(Head(fills)) /\ working' = working
  BY DEF ProcessFill, ExposureTypeOK
<1>2. PICK n \in Nat : n + 1 = Len(fills)
  <2>1. Len(fills) \in Nat /\ Len(fills) # 0
    BY <1>1
  <2>2. Len(fills) - 1 \in Nat /\ (Len(fills) - 1) + 1 = Len(fills)
    BY <2>1
  <2> QED
    BY <2>2
<1>3. PICK f \in Trades : f = Head(fills) /\ f = fills[1]
  BY <1>1
<1>4. Len(fills') = n /\ \A k \in 1 .. n : fills'[k] = fills[k + 1]
  BY <1>1, <1>2
<1>5. /\ c[0] = Held(i)
      /\ \A k \in 1 .. n + 1 :
           /\ c[k] = IF fills[k].token = i THEN c[k - 1] + QtyDelta(fills[k]) ELSE c[k - 1]
           /\ fills[k].token = i => fills[k].side = sd /\ fills[k].ltp = l
      /\ \A k \in 0 .. n + 1 : IF sd = "BUY" THEN c[k] <= T ELSE T <= c[k]
      /\ \A o \in working :
           o.token = i =>
             /\ o.side = sd /\ o.ltp = l
             /\ T = IF sd = "BUY" THEN c[n + 1] + o.left ELSE c[n + 1] - o.left
      /\ Abs(T) * l <= max_position_value
  BY <1>2 DEF Path
<1>6. Held(i)' = c[1]
  <2>1. Held(i)' = IF i = f.token THEN Held(i) + QtyDelta(f) ELSE Held(i)
    BY <1>1, <1>3, FillMoves
  <2>2. 1 \in 1 .. n + 1 /\ 1 - 1 = 0
    BY <1>2
  <2>3. c[1] = IF fills[1].token = i THEN c[1 - 1] + QtyDelta(fills[1]) ELSE c[1 - 1]
    BY <1>5, <2>2
  <2> QED
    BY <1>3, <1>5, <2>1, <2>2, <2>3
<1> DEFINE d == [k \in 0 .. n |-> c[k + 1]]
<1>7. d \in [0 .. n -> Int] /\ \A k \in 0 .. n : d[k] = c[k + 1]
  <2>1. \A k \in 0 .. n : k + 1 \in 0 .. n + 1
    OBVIOUS
  <2> QED
    BY <1>2, <2>1
<1> HIDE DEF d
<1>8. d[0] = Held(i)'
  BY <1>6, <1>7
<1>9. ASSUME NEW k \in 1 .. n
      PROVE  /\ d[k] = IF fills'[k].token = i THEN d[k - 1] + QtyDelta(fills'[k]) ELSE d[k - 1]
             /\ fills'[k].token = i => fills'[k].side = sd /\ fills'[k].ltp = l
  <2>1. k + 1 \in 1 .. n + 1 /\ (k + 1) - 1 = k /\ k - 1 \in 0 .. n /\ k \in 0 .. n
        /\ (k - 1) + 1 = k
    OBVIOUS
  <2>2. d[k] = c[k + 1] /\ d[k - 1] = c[k] /\ fills'[k] = fills[k + 1]
    BY <2>1, <1>4, <1>7
  <2>3. /\ c[k + 1] = IF fills[k + 1].token = i
                      THEN c[(k + 1) - 1] + QtyDelta(fills[k + 1]) ELSE c[(k + 1) - 1]
        /\ fills[k + 1].token = i => fills[k + 1].side = sd /\ fills[k + 1].ltp = l
    BY <2>1, <1>5
  <2> QED
    BY <2>1, <2>2, <2>3
<1>10. \A k \in 0 .. n : IF sd = "BUY" THEN d[k] <= T ELSE T <= d[k]
  <2>1. \A k \in 0 .. n : k + 1 \in 0 .. n + 1
    OBVIOUS
  <2> QED
    BY <2>1, <1>5, <1>7
<1>11. ASSUME NEW o \in working', o.token = i
       PROVE  /\ o.side = sd /\ o.ltp = l
              /\ T = IF sd = "BUY" THEN d[n] + o.left ELSE d[n] - o.left
  <2>1. d[n] = c[n + 1]
    BY <1>7
  <2> QED
    BY <1>1, <1>5, <1>11, <2>1
<1>12. Path(i, d, sd, l, T)'
  BY <1>4, <1>5, <1>8, <1>9, <1>10, <1>11 DEF Path
<1>13. Bounded(i)'
  BY <1>4, <1>7, <1>12 DEF Bounded
<1>14. 1 \in 1 .. Len(fills)
  BY <1>2
<1> QED
  BY <1>6, <1>13, <1>14

\* An order that is submitted starts a path, to the position it was checked for.
LEMMA BoundedSubmitted ==
  ASSUME ExposureTypeOK, CallsApart, NEW s \in Slots, OmsSubmit(s),
         NEW i \in Instruments, Bounded(i)
  PROVE  Bounded(i)'
<1>1. /\ call[s] # NoCall /\ call[s].pc = "submit" /\ call[s].ltp \in Nat
      /\ Req(s) \in Requests
  BY DEF OmsSubmit, ExposureTypeOK, CallType, NoCall, Req
<1>2. PICK q \in Nat, side \in {"BUY", "SELL"} : q = Req(s).quantity /\ side = Req(s).side
  BY <1>1, TradeAssumption DEF Requests
<1>3. PICK new :
        /\ working' = working \cup {new}
        /\ new.token = Req(s).token /\ new.side = side /\ new.left = q
        /\ new.ltp = call[s].ltp
  <2> DEFINE new == [id |-> submitted + 1, token |-> Req(s).token, strategy |-> s[1],
                     side |-> Req(s).side, left |-> Req(s).quantity, ltp |-> call[s].ltp]
  <2>1. working' = working \cup {new}
    BY DEF OmsSubmit
  <2>2. /\ new.token = Req(s).token /\ new.side = side /\ new.left = q
        /\ new.ltp = call[s].ltp
    BY <1>2
  <2> HIDE DEF new
  <2> QED
    BY <2>1, <2>2
<1>4. fills' = fills /\ Held(i)' = Held(i) /\ Held(i) \in Int
  BY DEF OmsSubmit, books, Held, ExposureTypeOK
<1>5. CASE Req(s).token # i
  <2>1. PICK c \in [0 .. Len(fills) -> Int], sd \in {"BUY", "SELL"}, l \in Nat, T \in Int :
          Path(i, c, sd, l, T)
    BY DEF Bounded
  <2>2. \A o \in working' : o.token = i => o \in working
    BY <1>3, <1>5
  <2>3. Path(i, c, sd, l, T)'
    BY <1>4, <2>1, <2>2 DEF Path
  <2> QED
    BY <1>4, <2>3 DEF Bounded
<1>6. CASE Req(s).token = i
  <2>1. PICK n \in Nat : n = Len(fills)
    <3>1. Len(fills) \in Nat
      BY DEF ExposureTypeOK
    <3> QED
      BY <3>1
  <2>2. PICK h \in Int, l \in Nat : h = Held(i) /\ l = call[s].ltp
    BY <1>1, <1>4
  <2>3. PICK T \in Int : T = IF side = "BUY" THEN h + q ELSE h - q
    OBVIOUS
  <2>4. PICK c \in [0 .. n -> Int] : \A k \in 0 .. n : c[k] = h
    BY [k \in 0 .. n |-> h] \in [0 .. n -> Int]
  <2>5. Abs(T) * l <= max_position_value
    <3>1. QtyDelta(Req(s)) = IF side = "BUY" THEN q ELSE -q
      BY <1>2 DEF QtyDelta
    <3>2. h + QtyDelta(Req(s)) = T
      BY <2>3, <3>1
    <3> QED
      BY <1>1, <1>6, <2>2, <3>2 DEF CallsApart
  <2>6. \A o \in working' : o.token = i => o = new
    BY <1>1, <1>3, <1>6 DEF CallsApart
  <2>7. \A k \in 1 .. n : fills[k].token # i
    BY <1>1, <1>6, <2>1 DEF CallsApart
  <2>8. 0 \in 0 .. n /\ n \in 0 .. n /\ \A k \in 1 .. n : k \in 0 .. n /\ k - 1 \in 0 .. n
    OBVIOUS
  <2>9. /\ c[0] = h /\ c[n] = h
        /\ \A k \in 1 .. n : c[k] = c[k - 1]
        /\ \A k \in 0 .. n : IF side = "BUY" THEN c[k] <= T ELSE T <= c[k]
    BY <2>3, <2>4, <2>8
  <2>10. \A o \in working' :
           o.token = i =>
             /\ o.side = side /\ o.ltp = l
             /\ T = IF side = "BUY" THEN c[n] + o.left ELSE c[n] - o.left
    BY <1>3, <2>2, <2>3, <2>6, <2>9
  <2>11. Path(i, c, side, l, T)'
    BY <1>4, <2>1, <2>2, <2>5, <2>7, <2>9, <2>10 DEF Path
  <2> QED
    BY <1>4, <2>1, <2>11 DEF Bounded
<1> QED
  BY <1>5, <1>6

\* The books after a step: only fills that are booked, and the positions of the day
\* before, change what is held.
BooksTyped ==
  /\ DOMAIN positions = Instruments
  /\ \A i \in Instruments :
       "quantity" \in DOMAIN positions[i] /\ positions[i].quantity \in Int

\* A price changes no quantity.
LEMMA MarkKeeps ==
  ASSUME ExposureTypeOK, NEW j \in Instruments, NEW price \in Nat, update_price(j, price)
  PROVE  BooksTyped' /\ \A i \in Instruments : Held(i)' = Held(i)
<1> DEFINE p == positions[j]
           new == [p EXCEPT !.current_price = price,
                            !.unrealized_pnl =
                              IF p.quantity # 0 /\ Less(Whole(0), p.avg_price)
                              THEN Times(p.quantity, Minus(Whole(price), p.avg_price))
                              ELSE @]
<1>1. positions' = [positions EXCEPT ![j] = new]
  BY DEF update_price
<1>2. "quantity" \in DOMAIN p
  BY DEF ExposureTypeOK
<1>3. "quantity" \in DOMAIN new /\ new.quantity = p.quantity
  BY <1>2
<1> HIDE DEF new
<1>4. /\ DOMAIN positions' = Instruments
      /\ positions'[j] = new
      /\ \A i \in Instruments : i # j => positions'[i] = positions[i]
  BY <1>1 DEF ExposureTypeOK
<1> QED
  BY <1>3, <1>4 DEF ExposureTypeOK, BooksTyped, Held

\* A position that is carried over from the day before.
LEMMA LoadTyped ==
  ASSUME ExposureTypeOK, NEW j \in Instruments, NEW a \in Carried,
         load_positions(j, Reported(a))
  PROVE  BooksTyped' /\ \A i \in Instruments : i # j => Held(i)' = Held(i)
<1> DEFINE new == Reported(a)
<1>1. positions' = [positions EXCEPT ![j] = new]
  BY DEF load_positions
<1>2. "quantity" \in DOMAIN new /\ new.quantity \in Int
  BY TradeAssumption DEF Reported
<1> HIDE DEF new
<1>3. /\ DOMAIN positions' = Instruments
      /\ positions'[j] = new
      /\ \A i \in Instruments : i # j => positions'[i] = positions[i]
  BY <1>1 DEF ExposureTypeOK
<1> QED
  BY <1>2, <1>3 DEF ExposureTypeOK, BooksTyped, Held

\* The locals of a call after the copy of the portfolio was taken ...
LEMMA SnapshotCall ==
  ASSUME ExposureTypeOK, NEW s \in Slots, NEW req \in Requests, GetSnapshot(s, req)
  PROVE  \E new :
           /\ DOMAIN call' = Slots
           /\ \A u \in Slots : call'[u] = IF u = s THEN new ELSE call[u]
           /\ new.pc = "check" /\ new.req = req
           /\ new.quantity = positions[req.token].quantity
<1> DEFINE new == [pc |-> "check", req |-> req,
                   quantity |-> positions[req.token].quantity,
                   used |-> strategy_used_capital(s[1]), pnl |-> strategy_daily_pnl(s[1])]
<1>1. call' = [call EXCEPT ![s] = new]
  BY DEF GetSnapshot
<1>2. /\ new.pc = "check" /\ new.req = req
      /\ new.quantity = positions[req.token].quantity
  OBVIOUS
<1> HIDE DEF new
<1>3. /\ DOMAIN call' = Slots
      /\ \A u \in Slots : call'[u] = IF u = s THEN new ELSE call[u]
  BY <1>1 DEF ExposureTypeOK
<1> QED
  BY <1>2, <1>3

\* ... and after the checks were passed.
LEMMA PassedCall ==
  ASSUME ExposureTypeOK, NEW s \in Slots, CheckPasses(s)
  PROVE  \E new :
           /\ DOMAIN call' = Slots
           /\ \A u \in Slots : call'[u] = IF u = s THEN new ELSE call[u]
           /\ new.pc = "submit" /\ new.req = Req(s)
           /\ new.ltp = price_cache[Req(s).token]
<1> DEFINE new == [pc |-> "submit", req |-> Req(s), ltp |-> price_cache[Req(s).token]]
<1>1. call' = [call EXCEPT ![s] = new]
  BY DEF CheckPasses
<1>2. new.pc = "submit" /\ new.req = Req(s) /\ new.ltp = price_cache[Req(s).token]
  OBVIOUS
<1> HIDE DEF new
<1>3. /\ DOMAIN call' = Slots
      /\ \A u \in Slots : call'[u] = IF u = s THEN new ELSE call[u]
  BY <1>1 DEF ExposureTypeOK
<1> QED
  BY <1>2, <1>3

\* The shape of the books, calls, orders and fills is kept.
LEMMA ExposureTypeStep == ExposureTypeOK /\ [ExposureNext]_exposureVars => ExposureTypeOK'
<1> SUFFICES ASSUME ExposureTypeOK, [ExposureNext]_exposureVars
             PROVE  ExposureTypeOK'
  OBVIOUS
<1> USE TradeAssumption
<1>1. ASSUME NEW s \in Slots, NEW req \in Requests, GetSnapshot(s, req)
      PROVE  ExposureTypeOK'
  <2>1. PICK new :
          /\ DOMAIN call' = Slots
          /\ \A u \in Slots : call'[u] = IF u = s THEN new ELSE call[u]
          /\ new.pc = "check" /\ new.req = req
          /\ new.quantity = positions[req.token].quantity
    BY <1>1, SnapshotCall
  <2>2. new.quantity \in Int
    BY <2>1 DEF ExposureTypeOK, Requests
  <2>3. \A u \in Slots : (call[u] = NoCall \/ CallType(call[u]))'
    BY <2>1, <2>2 DEF ExposureTypeOK, CallType
  <2> QED
    BY <1>1, <2>1, <2>3 DEF ExposureTypeOK, GetSnapshot, books, orderVars
<1>2. ASSUME NEW s \in Slots, CheckPasses(s) PROVE ExposureTypeOK'
  <2>1. call[s].req \in Requests
    BY <1>2 DEF CheckPasses, ExposureTypeOK, CallType, NoCall
  <2>2. price_cache[Req(s).token] \in Nat
    BY <2>1 DEF ExposureTypeOK, Requests, Req
  <2>3. PICK new :
          /\ DOMAIN call' = Slots
          /\ \A u \in Slots : call'[u] = IF u = s THEN new ELSE call[u]
          /\ new.pc = "submit" /\ new.req = Req(s)
          /\ new.ltp = price_cache[Req(s).token]
    BY <1>2, PassedCall
  <2>4. \A u \in Slots : (call[u] = NoCall \/ CallType(call[u]))'
    BY <2>1, <2>2, <2>3 DEF ExposureTypeOK, CallType, Req
  <2> QED
    BY <1>2, <2>3, <2>4 DEF ExposureTypeOK, CheckPasses, books, orderVars
<1>3. ASSUME NEW s \in Slots, CheckRejects(s) PROVE ExposureTypeOK'
  <2>1. \A u \in Slots : call'[u] = IF u = s THEN NoCall ELSE call[u]
    BY <1>3 DEF CheckRejects, ExposureTypeOK
  <2>2. DOMAIN call' = Slots
    BY <1>3 DEF CheckRejects, ExposureTypeOK
  <2>3. \A u \in Slots : (call[u] = NoCall \/ CallType(call[u]))'
    BY <2>1 DEF ExposureTypeOK, CallType
  <2> QED
    BY <1>3, <2>2, <2>3 DEF ExposureTypeOK, CheckRejects, books, orderVars
<1>4. ASSUME NEW s \in Slots, OmsSubmit(s) PROVE ExposureTypeOK'
  <2>1. /\ \A u \in Slots : call'[u] = IF u = s THEN NoCall ELSE call[u]
        /\ DOMAIN call' = Slots
    BY <1>4 DEF OmsSubmit, ExposureTypeOK
  <2>2. \A u \in Slots : (call[u] = NoCall \/ CallType(call[u]))'
    BY <2>1 DEF ExposureTypeOK, CallType
  <2>3. Req(s) \in Requests /\ call[s].ltp \in Nat
    BY <1>4 DEF OmsSubmit, ExposureTypeOK, CallType, NoCall, Req
  <2>4. working' \subseteq Orders
    <3>1. /\ Req(s).token \in Instruments /\ Req(s).side \in {"BUY", "SELL"}
          /\ Req(s).quantity \in Quantities
      BY <2>3 DEF Requests
    <3>2. submitted \in Nat
      BY DEF ExposureTypeOK
    <3>3. submitted + 1 \in Int
      BY <3>2
    <3>4. Req(s).quantity \in Nat
      BY <3>1
    <3>5. s[1] \in StrategyIds
      BY DEF Slots
    <3> QED
      BY <1>4, <2>3, <3>1, <3>3, <3>4, <3>5 DEF OmsSubmit, Orders, ExposureTypeOK
  <2>5. submitted' \in Nat /\ submitted' # 0
    BY <1>4 DEF OmsSubmit, ExposureTypeOK
  <2> QED
    BY <1>4, <2>1, <2>2, <2>4, <2>5 DEF ExposureTypeOK, OmsSubmit, books
<1>5. ASSUME NEW o \in working, NEW qty \in Quantities, NEW price \in Prices,
             OrderFilled(o, qty, price)
      PROVE  ExposureTypeOK'
  <2>1. o \in Orders /\ qty \in Nat /\ price \in Nat /\ qty \in 1 .. o.left /\ submitted # 0
    BY <1>5 DEF ExposureTypeOK, OrderFilled
  <2>2. working' \subseteq Orders
    <3>1. o.left \in Nat
      BY <2>1 DEF Orders
    <3>2. o.left - qty \in Nat
      BY <2>1, <3>1
    <3>3. [o EXCEPT !.left = @ - qty] \in Orders
      BY <2>1, <3>2 DEF Orders
    <3> QED
      BY <1>5, <3>3 DEF OrderFilled, ExposureTypeOK
  <2>3. fills' \in Seq(Trades)
    <3>1. [token |-> o.token, strategy |-> o.strategy, side |-> o.side,
           quantity |-> qty, price |-> price, ltp |-> o.ltp] \in Trades
      BY <2>1 DEF Orders, Trades
    <3> QED
      BY <1>5, <3>1 DEF OrderFilled, ExposureTypeOK
  <2>4. price_cache' \in [Instruments -> Nat]
    BY <1>5, <2>1 DEF OrderFilled, ExposureTypeOK
  <2> QED
    BY <1>5, <2>1, <2>2, <2>3, <2>4 DEF ExposureTypeOK, OrderFilled, books
<1>6. ASSUME NEW o \in working, OrderGone(o) PROVE ExposureTypeOK'
  BY <1>6 DEF ExposureTypeOK, OrderGone, books
<1>7. CASE ProcessFill
  <2>1. /\ Head(fills) \in Trades /\ fills' \in Seq(Trades) /\ fills # << >>
        /\ process_fill(Head(fills))
    BY <1>7 DEF ProcessFill, ExposureTypeOK
  <2>2. BooksTyped'
    <3>1. QtyDelta(Head(fills)) \in Int
      BY <2>1 DEF QtyDelta, Trades
    <3>2. \A i \in Instruments : positions[i].quantity \in Int
      BY DEF ExposureTypeOK
    <3>3. /\ DOMAIN positions' = Instruments
          /\ \A i \in Instruments :
               /\ "quantity" \in DOMAIN positions'[i]
               /\ Held(i)' = IF i = Head(fills).token
                             THEN Held(i) + QtyDelta(Head(fills)) ELSE Held(i)
      BY <2>1, FillMoves
    <3> QED
      BY <3>1, <3>2, <3>3 DEF BooksTyped, Held
  <2> QED
    BY <1>7, <2>1, <2>2 DEF ExposureTypeOK, ProcessFill, BooksTyped
<1>8. ASSUME NEW i \in Instruments, NEW price \in Prices, RiskUpdatePrice(i, price)
      PROVE  ExposureTypeOK'
  <2>1. price_cache' \in [Instruments -> Nat]
    BY <1>8 DEF RiskUpdatePrice, ExposureTypeOK
  <2> QED
    BY <1>8, <2>1 DEF ExposureTypeOK, RiskUpdatePrice, books, orderVars
<1>9. ASSUME NEW i \in Instruments, NEW price \in Prices, MarkToMarket(i, price)
      PROVE  ExposureTypeOK'
  <2>1. price \in Nat /\ update_price(i, price)
    BY <1>9 DEF MarkToMarket
  <2>2. BooksTyped'
    BY <2>1, MarkKeeps
  <2> QED
    BY <1>9, <2>2 DEF ExposureTypeOK, MarkToMarket, orderVars, BooksTyped
<1>10. ASSUME NEW i \in Instruments, NEW a \in Carried, StartOfDay(i, a)
       PROVE  ExposureTypeOK'
  <2>1. load_positions(i, Reported(a))
    BY <1>10 DEF StartOfDay
  <2>2. BooksTyped'
    BY <2>1, LoadTyped
  <2> QED
    BY <1>10, <2>2 DEF ExposureTypeOK, StartOfDay, orderVars, BooksTyped
<1>11. CASE UNCHANGED exposureVars
  BY <1>11 DEF ExposureTypeOK, exposureVars, books, orderVars, CallType
<1> QED
  BY <1>1, <1>2, <1>3, <1>4, <1>5, <1>6, <1>7, <1>8, <1>9, <1>10, <1>11
  DEF ExposureNext, Market, SubmitCall

\* What CallsApart says of one call.
Apart(u) ==
  call[u] # NoCall =>
    /\ \A o \in working : o.token # Req(u).token
    /\ \A k \in 1 .. Len(fills) : fills[k].token # Req(u).token
    /\ call[u].pc = "check" => call[u].quantity = Held(Req(u).token)
    /\ call[u].pc = "submit" =>
         Abs(Held(Req(u).token) + QtyDelta(Req(u))) * call[u].ltp <= max_position_value

\* A call that goes on while its instrument is left alone.
LEMMA ApartKept ==
  ASSUME NEW u \in Slots, Apart(u), call'[u] = call[u],
         call[u] # NoCall =>
           /\ \A o \in working' : o.token # Req(u).token
           /\ \A k \in 1 .. Len(fills') : fills'[k].token # Req(u).token
           /\ positions'[Req(u).token].quantity = Held(Req(u).token)
  PROVE  Apart(u)'
<1> SUFFICES ASSUME call'[u] # NoCall PROVE Apart(u)'
  BY DEF Apart
<1>1. Req(u)' = Req(u)
  BY DEF Req
<1>2. Held(Req(u).token)' = Held(Req(u).token)
  BY <1>1 DEF Held
<1>3. QtyDelta(Req(u))' = QtyDelta(Req(u))
  BY <1>1 DEF QtyDelta
<1> QED
  BY <1>1, <1>2, <1>3 DEF Apart

\* The calls that are over need no attention.
LEMMA CallsApartKept ==
  ASSUME CallsApart,
         \A u \in Slots : call'[u] = call[u] \/ call'[u] = NoCall,
         \A u \in Slots :
           call'[u] # NoCall =>
             /\ \A o \in working' : o.token # Req(u).token
             /\ \A k \in 1 .. Len(fills') : fills'[k].token # Req(u).token
             /\ positions'[Req(u).token].quantity = Held(Req(u).token)
  PROVE  CallsApart'
<1>1. ASSUME NEW u \in Slots PROVE Apart(u)'
  <2>1. Apart(u)
    BY DEF CallsApart, Apart
  <2>2. CASE call'[u] = NoCall
    BY <2>2 DEF Apart
  <2>3. CASE call'[u] # NoCall
    BY <2>1, <2>3, ApartKept
  <2> QED
    BY <2>2, <2>3
<1>2. ASSUME NEW u \in Slots, NEW v \in Slots,
             call'[u] # NoCall, call'[v] # NoCall, Req(u)'.token = Req(v)'.token
      PROVE  u = v
  <2>1. call'[u] = call[u] /\ call'[v] = call[v]
    BY <1>2
  <2>2. Req(u)' = Req(u) /\ Req(v)' = Req(v)
    BY <2>1 DEF Req
  <2> QED
    BY <1>2, <2>1, <2>2 DEF CallsApart
<1> QED
  BY <1>1, <1>2 DEF CallsApart, Apart

\* Beside a call of submit_order nothing of its instrument moves.
LEMMA ApartStep ==
  ASSUME ExposureInv, [ExposureNext]_exposureVars, ~ overlap'
  PROVE  ~ overlap /\ CallsApart' /\ OneOrderEach'
<1> USE TradeAssumption, LimitAssumption
<1>0. ~ overlap
  BY DEF ExposureNext, Market, SubmitCall, exposureVars, GetSnapshot, CheckPasses,
         CheckRejects, OmsSubmit, OrderFilled, OrderGone, ProcessFill, RiskUpdatePrice,
         MarkToMarket, StartOfDay
<1>1. ExposureTypeOK /\ CallsApart /\ OneOrderEach
  BY <1>0 DEF ExposureInv
<1>2. ASSUME NEW s \in Slots, NEW req \in Requests, GetSnapshot(s, req)
      PROVE  CallsApart' /\ OneOrderEach'
  <2>1. PICK new :
          /\ \A u \in Slots : call'[u] = IF u = s THEN new ELSE call[u]
          /\ new.pc = "check" /\ new.req = req
          /\ new.quantity = positions[req.token].quantity
    BY <1>1, <1>2, SnapshotCall
  <2>2. positions' = positions /\ working' = working /\ fills' = fills
    BY <1>2 DEF GetSnapshot, books, orderVars
  <2>3. /\ \A u \in Slots : call[u] # NoCall => Req(u).token # req.token
        /\ \A o \in working : o.token # req.token
        /\ \A k \in 1 .. Len(fills) : fills[k].token # req.token
    <3>1. ~ UnderWay(req.token)
      BY <1>2 DEF GetSnapshot
    <3>2. DOMAIN fills = 1 .. Len(fills)
      BY <1>1 DEF ExposureTypeOK
    <3> QED
      BY <3>1, <3>2 DEF UnderWay
  <2>4. \A u \in Slots : Req(u)' = IF u = s THEN req ELSE Req(u)
    BY <2>1 DEF Req
  <2>5. ASSUME NEW u \in Slots PROVE Apart(u)'
    <3>1. CASE u = s
      BY <3>1, <2>1, <2>2, <2>3, <2>4 DEF Held, Apart
    <3>2. CASE u # s
      <4>1. Apart(u) /\ call'[u] = call[u]
        BY <3>2, <1>1, <2>1 DEF Apart, CallsApart
      <4> QED
        BY <4>1, <2>2, ApartKept DEF Apart, Held
    <3> QED
      BY <3>1, <3>2
  <2>6. \A u, v \in Slots :
          call'[u] # NoCall /\ call'[v] # NoCall /\ Req(u)'.token = Req(v)'.token => u = v
    BY <1>1, <2>1, <2>3, <2>4 DEF CallsApart
  <2> QED
    BY <1>1, <2>2, <2>5, <2>6 DEF OneOrderEach, CallsApart, Apart
<1>3. ASSUME NEW s \in Slots, CheckPasses(s)
      PROVE  CallsApart' /\ OneOrderEach'
  <2>1. PICK new :
          /\ \A u \in Slots : call'[u] = IF u = s THEN new ELSE call[u]
          /\ new.pc = "submit" /\ new.req = Req(s)
          /\ new.ltp = price_cache[Req(s).token]
    BY <1>1, <1>3, PassedCall
  <2>2. /\ positions' = positions /\ working' = working /\ fills' = fills
        /\ call[s].pc = "check" /\ call[s] # NoCall
        /\ call[s].req \in Requests /\ call[s].quantity \in Int
    BY <1>1, <1>3 DEF CheckPasses, books, orderVars, NoCall, ExposureTypeOK, CallType
  <2>3. \A u \in Slots : Req(u)' = Req(u)
    BY <2>1 DEF Req
  <2>4. Abs(Held(Req(s).token) + QtyDelta(Req(s))) * new.ltp <= max_position_value
    <3>1. PICK l \in Nat : l = new.ltp
      BY <1>1, <2>1, <2>2 DEF Req, Requests, ExposureTypeOK
    <3>2. call[s].quantity = Held(Req(s).token)
      BY <1>1, <2>2 DEF CallsApart
    <3>3. PICK x \in Int : x = Held(Req(s).token) + QtyDelta(Req(s))
      <4>1. Req(s).quantity \in Nat
        BY <2>2 DEF Req, Requests
      <4>2. QtyDelta(Req(s)) \in Int
        BY <4>1 DEF QtyDelta
      <4> QED
        BY <2>2, <3>2, <4>2
    <3>4. CASE l = 0
      BY <3>1, <3>3, <3>4 DEF Abs
    <3>5. CASE l > 0
      BY <1>3, <2>1, <3>1, <3>2, <3>3, <3>5 DEF CheckPasses, WithinLimits, Req
    <3> QED
      BY <3>4, <3>5
  <2>5. ASSUME NEW u \in Slots PROVE Apart(u)'
    <3>1. CASE u = s
      BY <3>1, <1>1, <2>1, <2>2, <2>3, <2>4 DEF Held, Apart, CallsApart
    <3>2. CASE u # s
      <4>1. Apart(u) /\ call'[u] = call[u]
        BY <3>2, <1>1, <2>1 DEF Apart, CallsApart
      <4> QED
        BY <4>1, <2>2, ApartKept DEF Apart, Held
    <3> QED
      BY <3>1, <3>2
  <2>6. \A u, v \in Slots :
          call'[u] # NoCall /\ call'[v] # NoCall /\ Req(u)'.token = Req(v)'.token => u = v
    BY <1>1, <2>1, <2>2, <2>3 DEF CallsApart
  <2> QED
    BY <1>1, <2>2, <2>5, <2>6 DEF OneOrderEach, CallsApart, Apart
<1>4. ASSUME NEW s \in Slots, CheckRejects(s)
      PROVE  CallsApart' /\ OneOrderEach'
  <2>1. /\ \A u \in Slots : call'[u] = call[u] \/ call'[u] = NoCall
        /\ positions' = positions /\ working' = working /\ fills' = fills
    BY <1>1, <1>4 DEF CheckRejects, ExposureTypeOK, books, orderVars
  <2>2. CallsApart'
    BY <1>1, <2>1, CallsApartKept DEF CallsApart, Held
  <2> QED
    BY <1>1, <2>1, <2>2 DEF OneOrderEach
<1>5. ASSUME NEW s \in Slots, OmsSubmit(s)
      PROVE  CallsApart' /\ OneOrderEach'
  <2>1. /\ \A u \in Slots : call'[u] = IF u = s THEN NoCall ELSE call[u]
        /\ positions' = positions /\ fills' = fills /\ call[s] # NoCall
    BY <1>1, <1>5 DEF OmsSubmit, ExposureTypeOK, books, NoCall
  <2>2. PICK new : working' = working \cup {new} /\ new.token = Req(s).token
    <3> DEFINE new == [id |-> submitted + 1, token |-> Req(s).token, strategy |-> s[1],
                       side |-> Req(s).side, left |-> Req(s).quantity, ltp |-> call[s].ltp]
    <3>1. working' = working \cup {new}
      BY <1>5 DEF OmsSubmit
    <3>2. new.token = Req(s).token
      OBVIOUS
    <3> HIDE DEF new
    <3> QED
      BY <3>1, <3>2
  <2>3. ASSUME NEW u \in Slots, call'[u] # NoCall
        PROVE  /\ \A o \in working' : o.token # Req(u).token
               /\ \A k \in 1 .. Len(fills') : fills'[k].token # Req(u).token
               /\ positions'[Req(u).token].quantity = Held(Req(u).token)
    <3>1. u # s /\ call[u] # NoCall /\ Req(u).token # Req(s).token
      BY <1>1, <2>1, <2>3 DEF CallsApart
    <3> QED
      BY <1>1, <2>1, <2>2, <3>1 DEF CallsApart, Held
  <2>4. CallsApart'
    BY <1>1, <2>1, <2>3, CallsApartKept
  <2>5. \A o \in working : o.token # Req(s).token
    BY <1>1, <2>1 DEF CallsApart
  <2>6. OneOrderEach'
    BY <1>1, <2>2, <2>5 DEF OneOrderEach
  <2> QED
    BY <2>4, <2>6
<1>6. ASSUME NEW o \in working, NEW qty \in Quantities, NEW price \in Prices,
             OrderFilled(o, qty, price)
      PROVE  CallsApart' /\ OneOrderEach'
  <2>1. call' = call /\ positions' = positions /\ o \in Orders
    BY <1>1, <1>6 DEF OrderFilled, books, ExposureTypeOK
  <2>2. \A p \in working' : \/ p \in working /\ p # o
                            \/ p = [o EXCEPT !.left = @ - qty]
    BY <1>6 DEF OrderFilled
  <2>3. [o EXCEPT !.left = @ - qty].token = o.token
    BY <2>1 DEF Orders
  <2>4. PICK f : fills' = Append(fills, f) /\ f.token = o.token /\ f \in Trades
    <3> DEFINE f == [token |-> o.token, strategy |-> o.strategy, side |-> o.side,
                     quantity |-> qty, price |-> price, ltp |-> o.ltp]
    <3>1. fills' = Append(fills, f) /\ f.token = o.token
      BY <1>6 DEF OrderFilled
    <3>2. f \in Trades
      BY <2>1 DEF Orders, Trades
    <3> HIDE DEF f
    <3> QED
      BY <3>1, <3>2
  <2>5. \A k \in 1 .. Len(fills') :
          fills'[k] = f \/ (k \in 1 .. Len(fills) /\ fills'[k] = fills[k])
    BY <1>1, <2>4 DEF ExposureTypeOK
  <2>6. CallsApart'
    <3>1. ASSUME NEW u \in Slots, call'[u] # NoCall
          PROVE  /\ \A p \in working' : p.token # Req(u).token
                 /\ \A k \in 1 .. Len(fills') : fills'[k].token # Req(u).token
                 /\ positions'[Req(u).token].quantity = Held(Req(u).token)
      <4>1. /\ \A p \in working : p.token # Req(u).token
            /\ \A k \in 1 .. Len(fills) : fills[k].token # Req(u).token
        BY <1>1, <2>1, <3>1 DEF CallsApart
      <4> QED
        BY <2>1, <2>2, <2>3, <2>4, <2>5, <4>1 DEF Held
    <3> QED
      BY <1>1, <2>1, <3>1, CallsApartKept
  <2>7. OneOrderEach'
    BY <1>1, <2>2, <2>3 DEF OneOrderEach
  <2> QED
    BY <2>6, <2>7
<1>7. ASSUME NEW o \in working, OrderGone(o) PROVE CallsApart' /\ OneOrderEach'
  <2>1. /\ call' = call /\ positions' = positions /\ fills' = fills
        /\ working' \subseteq working
    BY <1>7 DEF OrderGone, books
  <2>2. CallsApart'
    BY <1>1, <2>1, CallsApartKept DEF CallsApart, Held
  <2> QED
    BY <1>1, <2>1, <2>2 DEF OneOrderEach
<1>8. CASE ProcessFill
  <2>1. /\ call' = call /\ working' = working /\ fills' = Tail(fills) /\ fills # << >>
        /\ fills \in Seq(Trades) /\ process_fill(Head(fills))
    BY <1>1, <1>8 DEF ProcessFill, ExposureTypeOK
  <2>2. /\ Head(fills) \in Trades /\ Head(fills) = fills[1] /\ 1 \in 1 .. Len(fills)
        /\ \A k \in 1 .. Len(fills') : k + 1 \in 1 .. Len(fills) /\ fills'[k] = fills[k + 1]
    BY <2>1
  <2>3. \A i \in Instruments : i # Head(fills).token => Held(i)' = Held(i)
    BY <1>1, <2>1, <2>2, FillMoves
  <2>4. ASSUME NEW u \in Slots, call'[u] # NoCall
        PROVE  /\ \A o \in working' : o.token # Req(u).token
               /\ \A k \in 1 .. Len(fills') : fills'[k].token # Req(u).token
               /\ positions'[Req(u).token].quantity = Held(Req(u).token)
    <3>1. Req(u).token \in Instruments
      BY <1>1, <2>1, <2>4 DEF ExposureTypeOK, CallType, Req, Requests
    <3>2. \A k \in 1 .. Len(fills) : fills[k].token # Req(u).token
      BY <1>1, <2>1, <2>4 DEF CallsApart
    <3>3. PICK i \in Instruments : i = Req(u).token
      BY <3>1
    <3>4. positions'[i].quantity = Held(i)
      BY <2>2, <2>3, <3>2, <3>3 DEF Held
    <3> QED
      BY <1>1, <2>1, <2>2, <2>4, <3>2, <3>3, <3>4 DEF CallsApart
  <2>5. CallsApart'
    BY <1>1, <2>1, <2>4, CallsApartKept
  <2>6. OneOrderEach'
    BY <1>1, <2>1 DEF OneOrderEach
  <2> QED
    BY <1>0, <2>5, <2>6
<1>9. ASSUME NEW i \in Instruments, NEW price \in Prices, RiskUpdatePrice(i, price)
      PROVE  CallsApart' /\ OneOrderEach'
  <2>1. call' = call /\ positions' = positions /\ fills' = fills /\ working' = working
    BY <1>9 DEF RiskUpdatePrice, books, orderVars
  <2>2. CallsApart'
    BY <1>1, <2>1, CallsApartKept DEF CallsApart, Held
  <2>3. OneOrderEach'
    BY <1>1, <2>1 DEF OneOrderEach
  <2> QED
    BY <2>2, <2>3
<1>10. ASSUME NEW i \in Instruments, NEW price \in Prices, MarkToMarket(i, price)
       PROVE  CallsApart' /\ OneOrderEach'
  <2>1. /\ call' = call /\ fills' = fills /\ working' = working
        /\ price \in Nat /\ update_price(i, price)
    BY <1>10 DEF MarkToMarket, orderVars
  <2>2. \A j \in Instruments : positions'[j].quantity = Held(j)
    BY <1>1, <2>1, MarkKeeps DEF Held
  <2>3. \A u \in Slots : call[u] # NoCall => Req(u).token \in Instruments
    BY <1>1 DEF ExposureTypeOK, CallType, Req, Requests
  <2>4. CallsApart'
    BY <1>1, <2>1, <2>2, <2>3, CallsApartKept DEF CallsApart
  <2> QED
    BY <1>1, <2>1, <2>4 DEF OneOrderEach
<1>11. ASSUME NEW i \in Instruments, NEW a \in Carried, StartOfDay(i, a)
       PROVE  CallsApart' /\ OneOrderEach'
  <2>1. working' = working /\ \A u \in Slots : call'[u] = NoCall
    BY <1>11 DEF StartOfDay, orderVars
  <2>2. CallsApart'
    BY <1>1, <2>1, CallsApartKept
  <2> QED
    BY <1>1, <2>1, <2>2 DEF OneOrderEach
<1>12. CASE UNCHANGED exposureVars
  <2>1. call' = call /\ positions' = positions /\ fills' = fills /\ working' = working
    BY <1>12 DEF exposureVars, books, orderVars
  <2>2. CallsApart'
    BY <1>1, <2>1, CallsApartKept DEF CallsApart, Held
  <2>3. OneOrderEach'
    BY <1>1, <2>1 DEF OneOrderEach
  <2> QED
    BY <1>0, <2>2, <2>3
<1> QED
  BY <1>0, <1>2, <1>3, <1>4, <1>5, <1>6, <1>7, <1>8, <1>9, <1>10, <1>11, <1>12
  DEF ExposureNext, Market, SubmitCall

\* Every instrument's path survives every step.
LEMMA BoundedStep ==
  ASSUME ExposureInv, [ExposureNext]_exposureVars, ~ overlap, NEW i \in Instruments
  PROVE  Bounded(i)'
<1> USE TradeAssumption
<1>1. ExposureTypeOK /\ CallsApart /\ OneOrderEach /\ Bounded(i)
  BY DEF ExposureInv
<1>2. ASSUME NEW s \in Slots, OmsSubmit(s) PROVE Bounded(i)'
  BY <1>1, <1>2, BoundedSubmitted
<1>3. ASSUME NEW o \in working, NEW qty \in Quantities, NEW price \in Prices,
             OrderFilled(o, qty, price)
      PROVE  Bounded(i)'
  <2>1. qty \in Nat /\ price \in Nat
    OBVIOUS
  <2> QED
    BY <1>1, <1>3, <2>1, BoundedFilled
<1>4. ASSUME NEW o \in working, OrderGone(o) PROVE Bounded(i)'
  <2>1. PICK c \in [0 .. Len(fills) -> Int], sd \in {"BUY", "SELL"}, l \in Nat, T \in Int :
          Path(i, c, sd, l, T)
    BY <1>1 DEF Bounded
  <2>2. fills' = fills /\ Held(i)' = Held(i) /\ working' \subseteq working
    BY <1>4 DEF OrderGone, books, Held
  <2>3. Path(i, c, sd, l, T)'
    BY <2>1, <2>2 DEF Path
  <2> QED
    BY <2>2, <2>3 DEF Bounded
<1>5. CASE ProcessFill
  <2>1. PICK c \in [0 .. Len(fills) -> Int], sd \in {"BUY", "SELL"}, l \in Nat, T \in Int :
          Path(i, c, sd, l, T)
    BY <1>1 DEF Bounded
  <2> QED
    BY <1>1, <1>5, <2>1, BoundedBooked
<1>6. ASSUME NEW j \in Instruments, NEW price \in Prices, MarkToMarket(j, price)
      PROVE  Bounded(i)'
  <2>1. /\ working' = working /\ fills' = fills
        /\ price \in Nat /\ update_price(j, price)
    BY <1>6 DEF MarkToMarket, orderVars
  <2>2. Held(i)' = Held(i)
    BY <1>1, <2>1, MarkKeeps
  <2> QED
    BY <1>1, <2>1, <2>2, BoundedKept
<1>7. ASSUME NEW j \in Instruments, NEW a \in Carried, StartOfDay(j, a)
      PROVE  Bounded(i)'
  <2>1. working' = {} /\ fills' = << >>
    BY <1>1, <1>7 DEF StartOfDay, orderVars, ExposureTypeOK
  <2>2. PICK h \in Int : h = Held(i)'
    BY <1>1, ExposureTypeStep DEF ExposureTypeOK, Held
  <2>3. PICK c \in [0 .. 0 -> Int] : c[0] = h
    BY [k \in 0 .. 0 |-> h] \in [0 .. 0 -> Int], 0 \in 0 .. 0
  <2>4. Len(fills') = 0 /\ Abs(h) * 0 <= max_position_value
    BY <2>1, LimitAssumption DEF Abs
  <2>5. Path(i, c, "BUY", 0, h)'
    BY <2>1, <2>2, <2>3, <2>4 DEF Path
  <2> QED
    BY <2>4, <2>5 DEF Bounded
<1>8. CASE UNCHANGED <<positions, working, fills>>
  <2>1. Held(i)' = Held(i)
    BY <1>8 DEF Held
  <2> QED
    BY <1>1, <1>8, <2>1, BoundedKept
<1> QED
  <2>1. \/ UNCHANGED <<positions, working, fills>>
        \/ \E s \in Slots : OmsSubmit(s)
        \/ ProcessFill
        \/ \E o \in working : OrderGone(o)
        \/ \E o \in working, qty \in Quantities, price \in Prices : OrderFilled(o, qty, price)
        \/ \E j \in Instruments, price \in Prices : MarkToMarket(j, price)
        \/ \E j \in Instruments, a \in Carried : StartOfDay(j, a)
    BY DEF ExposureNext, Market, SubmitCall, exposureVars, books, orderVars, GetSnapshot,
           CheckPasses, CheckRejects, RiskUpdatePrice
  <2> QED
    BY <2>1, <1>2, <1>3, <1>4, <1>5, <1>6, <1>7, <1>8

\* The invariant holds at the start, when nothing is under way.
LEMMA ExposureInitInv == ExposureInit => ExposureInv
<1> SUFFICES ASSUME ExposureInit PROVE ExposureInv
  OBVIOUS
<1>1. /\ positions = [i \in Instruments |-> Flat]
      /\ price_cache = [i \in Instruments |-> 0]
      /\ call = [s \in Slots |-> NoCall]
      /\ working = {} /\ submitted = 0 /\ fills = << >>
  BY DEF ExposureInit, PortfolioInit
<1>2. "quantity" \in DOMAIN Flat /\ Flat.quantity \in Int
  BY DEF Flat
<1>3. ExposureTypeOK
  BY <1>1, <1>2 DEF ExposureTypeOK
<1>4. CallsApart /\ OneOrderEach
  BY <1>1 DEF CallsApart, OneOrderEach
<1>5. \A i \in Instruments : Bounded(i)
  <2> SUFFICES ASSUME NEW i \in Instruments PROVE Bounded(i)
    OBVIOUS
  <2>1. \A o \in working : o.token # i
    BY <1>1
  <2>2. \A k \in 1 .. Len(fills) : fills[k].token # i
    BY <1>1
  <2> QED
    BY <1>3, <2>1, <2>2, IdleBounded
<1> QED
  BY <1>3, <1>4, <1>5 DEF ExposureInv

\* The invariant of checks 5 to 10 and the books.
LEMMA ExposureInvariant == ExposureSpec => []ExposureInv
<1>1. ExposureInv /\ [ExposureNext]_exposureVars => ExposureInv'
  <2> SUFFICES ASSUME ExposureInv, [ExposureNext]_exposureVars PROVE ExposureInv'
    OBVIOUS
  <2>1. ExposureTypeOK'
    BY ExposureTypeStep DEF ExposureInv
  <2>2. ASSUME ~ overlap'
        PROVE  (CallsApart /\ OneOrderEach /\ \A i \in Instruments : Bounded(i))'
    <3>1. ~ overlap /\ CallsApart' /\ OneOrderEach'
      BY <2>2, ApartStep
    <3>2. \A i \in Instruments : Bounded(i)'
      BY <3>1, BoundedStep
    <3> QED
      BY <3>1, <3>2
  <2> QED
    BY <2>1, <2>2 DEF ExposureInv
<1> QED
  BY ExposureInitInv, <1>1, PTL DEF ExposureSpec

\* A point between where the position is and where its path ends is no further from
\* zero than the end, if it is further than the start.
LEMMA Between ==
  ASSUME NEW a \in Int, NEW b \in Int, NEW T \in Int, NEW l \in Nat, NEW m \in Nat,
         (a <= b /\ b <= T) \/ (T <= b /\ b <= a), Abs(b) > Abs(a), Abs(T) * l <= m
  PROVE  Abs(b) * l <= m
<1>1. Abs(b) <= Abs(T) /\ Abs(b) \in Nat /\ Abs(T) \in Nat
  BY DEF Abs
<1>2. \A x, y \in Nat : x <= y => x * l <= y * l
  BY SMT
<1>3. PICK x \in Nat, y \in Nat : x = Abs(b) /\ y = Abs(T)
  BY <1>1
<1>4. x * l <= y * l /\ y * l <= m /\ x * l \in Nat /\ y * l \in Nat
  BY <1>1, <1>2, <1>3
<1>5. x * l <= m
  BY <1>4
<1> QED
  BY <1>3, <1>5

\* Check 6 is wrong about nothing but orders under way at the same time: of any
\* number of strategies, instruments, orders and partial fills, at any prices.
THEOREM ExposureLimited == ExposureSpec => ExposureBounded
<1> DEFINE Grows == \A i \in Instruments :
                      /\ ~ overlap
                      /\ Abs(positions'[i].quantity) > Abs(positions[i].quantity)
                      /\ fills # << >>
                      => Abs(positions'[i].quantity) * Head(fills).ltp <= max_position_value
<1>1. ExposureInv /\ [ExposureNext]_exposureVars => [Grows]_exposureVars
  <2> SUFFICES ASSUME ExposureInv, ExposureNext, NEW i \in Instruments, ~ overlap,
                      Abs(positions'[i].quantity) > Abs(positions[i].quantity),
                      fills # << >>
               PROVE  Abs(positions'[i].quantity) * Head(fills).ltp <= max_position_value
    OBVIOUS
  <2>1. ExposureTypeOK /\ Bounded(i) /\ Held(i) \in Int
    BY DEF ExposureInv, ExposureTypeOK, Held
  <2>2. ~ (Abs(Held(i)) > Abs(Held(i)))
    BY <2>1 DEF Abs
  <2>3. ProcessFill
    <3>1. positions' # positions
      BY <2>2 DEF Held
    <3>2. \A j \in Instruments, price \in Prices : ~ MarkToMarket(j, price)
      <4> SUFFICES ASSUME NEW j \in Instruments, NEW price \in Prices, MarkToMarket(j, price)
                   PROVE  FALSE
        OBVIOUS
      <4>1. price \in Nat /\ update_price(j, price)
        BY TradeAssumption DEF MarkToMarket
      <4>2. Held(i)' = Held(i)
        BY <2>1, <4>1, MarkKeeps
      <4> QED
        BY <2>2, <4>2 DEF Held
    <3>3. \A j \in Instruments, a \in Carried : ~ StartOfDay(j, a)
      BY <2>1 DEF StartOfDay, ExposureTypeOK
    <3> QED
      BY <3>1, <3>2, <3>3
      DEF ExposureNext, Market, SubmitCall, books, GetSnapshot, CheckPasses, CheckRejects,
          OmsSubmit, OrderFilled, OrderGone, RiskUpdatePrice
  <2>4. PICK c \in [0 .. Len(fills) -> Int], sd \in {"BUY", "SELL"}, l \in Nat, T \in Int :
          Path(i, c, sd, l, T)
    BY <2>1 DEF Bounded
  <2>5. Held(i)' = c[1] /\ 1 \in 1 .. Len(fills)
    BY <2>1, <2>3, <2>4, BoundedBooked
  <2>6. PICK f \in Trades : f = Head(fills) /\ f = fills[1]
    BY <2>1 DEF ExposureTypeOK
  <2>7. 1 \in 0 .. Len(fills) /\ 1 - 1 = 0
    BY <2>1, <2>5 DEF ExposureTypeOK
  <2>8. /\ c[0] = Held(i)
        /\ c[1] = IF f.token = i THEN c[1 - 1] + QtyDelta(f) ELSE c[1 - 1]
        /\ f.token = i => f.side = sd /\ f.ltp = l
        /\ IF sd = "BUY" THEN c[1] <= T ELSE T <= c[1]
        /\ Abs(T) * l <= max_position_value
    BY <2>4, <2>5, <2>6, <2>7 DEF Path
  <2>9. f.token = i /\ f.ltp = l /\ f.side = sd
    BY <2>2, <2>5, <2>7, <2>8 DEF Held
  <2>10. PICK a \in Int, b \in Int, q \in Nat :
           a = Held(i) /\ b = c[1] /\ q = f.quantity
    BY <2>1, <2>7 DEF Trades
  <2>11. b = IF sd = "BUY" THEN a + q ELSE a - q
    BY <2>7, <2>8, <2>9, <2>10 DEF QtyDelta
  <2>12. (a <= b /\ b <= T) \/ (T <= b /\ b <= a)
    BY <2>8, <2>10, <2>11
  <2>13. Abs(b) * l <= max_position_value
    BY <2>5, <2>8, <2>10, <2>12, Between, LimitAssumption DEF Held
  <2> QED
    BY <2>5, <2>6, <2>9, <2>10, <2>13 DEF Held
<1>2. [][Grows]_exposureVars => ExposureBounded
  BY PTL DEF ExposureBounded
<1> QED
  BY <1>1, <1>2, ExposureInvariant, PTL DEF ExposureSpec

-----------------------------------------------------------------------------
(* Rationals in lowest terms.  Two that have the same value are equal, so the *)
(* laws of addition are equations.                                           *)

Pos == Nat \ {0}

\* Pairs in lowest terms
Rationals == {x \in Int \X Pos : x = Ratio(x[1], x[2])}

\* Every set of naturals has a least element.
LEMMA LeastNumber ==
  ASSUME NEW T \in SUBSET Nat, T # {}
  PROVE  \E m \in T : \A n \in T : m <= n
<1> DEFINE R == OpToRel(<, Nat)
<1>1. PICK m \in T : \A n \in T : ~ (<<n, m>> \in R)
  <2>1. IsWellFoundedOn(R, Nat)
    BY NatLessThanWellFounded
  <2> HIDE DEF R
  <2> QED
    BY <2>1, WFMin
<1>2. \A n \in T : ~ (n < m)
  BY <1>1 DEF OpToRel
<1> QED
  BY <1>2

\* A factor that is not zero cancels.
LEMMA Cancel ==
  ASSUME NEW a \in Int, NEW b \in Int, NEW k \in Pos, a * k = b * k
  PROVE  a = b
  BY SMT DEF Pos

\* What a remainder of zero says.
LEMMA Divides ==
  ASSUME NEW a \in Int, NEW d \in Pos
  PROVE  /\ (a % d = 0) => (a \div d \in Int /\ a = (a \div d) * d)
         /\ \A m \in Int : a = m * d => (a % d) = 0
<1>1. /\ a \div d \in Int
      /\ (a % d) \in 0 .. (d - 1)
      /\ a = d * (a \div d) + (a % d)
  BY SMT DEF Pos
<1>2. PICK q \in Int, r \in Int : q = a \div d /\ r = (a % d) /\ r >= 0 /\ r < d /\ a = d * q + r
  BY <1>1 DEF Pos
<1>3. ASSUME NEW m \in Int, a = m * d PROVE r = 0
  <2>1. (m - q) * d = r
    BY <1>2, <1>3 DEF Pos
  <2>2. CASE m - q >= 1
    <3>1. (m - q) * d >= d
      BY <2>2 DEF Pos
    <3> QED BY <3>1, <2>1, <1>2 DEF Pos
  <2>3. CASE m - q <= -1
    <3>1. (m - q) * d <= -d
      BY <2>3 DEF Pos
    <3> QED BY <3>1, <2>1, <1>2 DEF Pos
  <2>4. CASE m - q = 0
    BY <2>4, <2>1 DEF Pos
  <2> QED BY <2>2, <2>3, <2>4
<1> QED BY <1>2, <1>3 DEF Pos

\* Ratio(n, d) is n / d, and no denominator is smaller than its.
LEMMA RatioIs ==
  ASSUME NEW n \in Int, NEW d \in Pos
  PROVE  \E m \in Int, c \in Pos :
           /\ Ratio(n, d) = <<m, c>>
           /\ n * c = m * d
           /\ \A k \in Pos, l \in Int : n * k = l * d => c <= k
<1> DEFINE S == {k \in 1 .. d : (n * k) % d = 0}
<1>1. d \in S
  BY Divides, n * d \in Int DEF Pos
<1>2. S \in SUBSET Nat
  BY DEF Pos
<1>3. PICK c \in S : \A k \in S : c <= k
  BY <1>1, <1>2, LeastNumber, Zenon
<1>4. Min(S) \in S /\ \A k \in S : Min(S) <= k
  <2>1. \E x \in S : \A y \in S : x =< y
    BY <1>3
  <2> HIDE DEF S
  <2> QED
    BY <2>1 DEF Min
<1>5. PICK g \in S : g = Min(S) /\ \A k \in S : g <= k
  BY <1>4
<1>6. g \in Pos /\ n * g \in Int
  BY DEF Pos
<1>7. PICK m \in Int : m = (n * g) \div d /\ n * g = m * d
  BY <1>6, Divides
<1>8. Ratio(n, d) = <<m, g>>
  BY <1>5, <1>7 DEF Ratio
<1>9. ASSUME NEW k \in Pos, NEW l \in Int, n * k = l * d PROVE g <= k
  <2>1. CASE k <= d
    <3>1. k \in 1 .. d
      BY <2>1 DEF Pos
    <3>2. n * k \in Int
      BY DEF Pos
    <3>3. (n * k) % d = 0
      BY <3>2, <1>9, Divides
    <3> QED BY <3>1, <3>3, <1>5
  <2>2. CASE ~ (k <= d)
    BY <2>2, <1>5, <1>1 DEF Pos
  <2> QED BY <2>1, <2>2
<1> QED BY <1>6, <1>7, <1>8, <1>9

\* Two ways to write a rational have the same lowest terms.
LEMMA SameRatio ==
  ASSUME NEW n \in Int, NEW d \in Pos, NEW m \in Int, NEW e \in Pos, n * e = m * d
  PROVE  Ratio(n, d) = Ratio(m, e)
<1>1. PICK a \in Int, c \in Pos :
        /\ Ratio(n, d) = <<a, c>>
        /\ n * c = a * d
        /\ \A k \in Pos, l \in Int : n * k = l * d => c <= k
  BY RatioIs
<1>2. PICK b \in Int, g \in Pos :
        /\ Ratio(m, e) = <<b, g>>
        /\ m * g = b * e
        /\ \A k \in Pos, l \in Int : m * k = l * e => g <= k
  BY RatioIs
<1>3. m * c = a * e
  <2>1. (m * c) * d = (m * d) * c /\ (n * e) * c = (n * c) * e /\ (a * d) * e = (a * e) * d
    BY DEF Pos
  <2>2. (m * c) * d = (a * e) * d
    BY <1>1, <2>1
  <2>3. m * c \in Int /\ a * e \in Int
    BY DEF Pos
  <2> QED
    BY <2>2, <2>3, Cancel
<1>4. n * g = b * d
  <2>1. (n * g) * e = (n * e) * g /\ (m * d) * g = (m * g) * d /\ (b * e) * d = (b * d) * e
    BY DEF Pos
  <2>2. (n * g) * e = (b * d) * e
    BY <1>2, <2>1
  <2>3. n * g \in Int /\ b * d \in Int
    BY DEF Pos
  <2> QED
    BY <2>2, <2>3, Cancel
<1>5. c = g
  BY <1>1, <1>2, <1>3, <1>4 DEF Pos
<1>6. a = b
  BY <1>1, <1>4, <1>5, Cancel
<1> QED
  BY <1>1, <1>2, <1>5, <1>6

\* What Ratio returns is in lowest terms.
LEMMA RatioTyped ==
  ASSUME NEW n \in Int, NEW d \in Pos
  PROVE  Ratio(n, d) \in Rationals
<1>1. PICK a \in Int, c \in Pos : Ratio(n, d) = <<a, c>> /\ n * c = a * d
  BY RatioIs
<1>2. Ratio(a, c) = Ratio(n, d)
  BY <1>1, SameRatio
<1> QED
  BY <1>1, <1>2 DEF Rationals

\* A rational is the ratio of its two terms.
LEMMA RationalIs ==
  ASSUME NEW x \in Rationals
  PROVE  \E n \in Int, d \in Pos : x = <<n, d>> /\ x = Ratio(n, d)
  BY DEF Rationals

\* Integers are rationals, over any denominator.
LEMMA WholeIs ==
  ASSUME NEW k \in Int
  PROVE  /\ Whole(k) = Ratio(k, 1) /\ Whole(k) \in Rationals
         /\ \A d \in Pos : Whole(k) = Ratio(k * d, d)
<1>1. 1 \in Pos
  BY DEF Pos
<1>2. PICK a \in Int, c \in Pos :
        /\ Ratio(k, 1) = <<a, c>>
        /\ k * c = a * 1
        /\ \A j \in Pos, l \in Int : k * j = l * 1 => c <= j
  BY <1>1, RatioIs
<1>3. c = 1
  BY <1>1, <1>2 DEF Pos
<1>4. Ratio(k, 1) = <<k, 1>>
  BY <1>2, <1>3
<1>5. ASSUME NEW d \in Pos PROVE Ratio(k, 1) = Ratio(k * d, d)
  <2>1. k * d \in Int /\ k * d = (k * d) * 1
    BY DEF Pos
  <2> QED
    BY <1>1, <2>1, SameRatio
<1> QED
  BY <1>1, <1>4, <1>5, RatioTyped DEF Whole

\* The operations, on rationals that are given in any terms.
LEMMA PlusRatio ==
  ASSUME NEW n \in Int, NEW d \in Pos, NEW m \in Int, NEW e \in Pos
  PROVE  Plus(Ratio(n, d), Ratio(m, e)) = Ratio(n * e + m * d, d * e)
<1>1. PICK a \in Int, c \in Pos : Ratio(n, d) = <<a, c>> /\ n * c = a * d
  BY RatioIs
<1>2. PICK b \in Int, g \in Pos : Ratio(m, e) = <<b, g>> /\ m * g = b * e
  BY RatioIs
<1>3. Plus(Ratio(n, d), Ratio(m, e)) = Ratio(a * g + b * c, c * g)
  BY <1>1, <1>2 DEF Plus
<1>4. (a * g + b * c) * (d * e) = (n * e + m * d) * (c * g)
  <2>1. /\ (a * g + b * c) * (d * e) = (a * d) * (g * e) + (b * e) * (c * d)
        /\ (n * e + m * d) * (c * g) = (n * c) * (g * e) + (m * g) * (c * d)
    BY DEF Pos
  <2> QED
    BY <1>1, <1>2, <2>1
<1>5. a * g + b * c \in Int /\ c * g \in Pos /\ n * e + m * d \in Int /\ d * e \in Pos
  BY DEF Pos
<1> QED
  BY <1>3, <1>4, <1>5, SameRatio

\* ... multiplication by an integer ...
LEMMA TimesRatio ==
  ASSUME NEW k \in Int, NEW n \in Int, NEW d \in Pos
  PROVE  Times(k, Ratio(n, d)) = Ratio(k * n, d)
<1>1. PICK a \in Int, c \in Pos : Ratio(n, d) = <<a, c>> /\ n * c = a * d
  BY RatioIs
<1>2. Times(k, Ratio(n, d)) = Ratio(k * a, c)
  BY <1>1 DEF Times
<1>3. (k * a) * d = (k * n) * c
  <2>1. (k * a) * d = k * (a * d) /\ (k * n) * c = k * (n * c)
    BY DEF Pos
  <2> QED
    BY <1>1, <2>1
<1>4. k * a \in Int /\ k * n \in Int
  OBVIOUS
<1> QED
  BY <1>2, <1>3, <1>4, SameRatio

\* ... division by a positive one ...
LEMMA OverRatio ==
  ASSUME NEW k \in Pos, NEW n \in Int, NEW d \in Pos
  PROVE  Over(Ratio(n, d), k) = Ratio(n, d * k)
<1>1. PICK a \in Int, c \in Pos : Ratio(n, d) = <<a, c>> /\ n * c = a * d
  BY RatioIs
<1>2. Over(Ratio(n, d), k) = Ratio(a, c * k)
  BY <1>1 DEF Over
<1>3. a * (d * k) = n * (c * k)
  <2>1. a * (d * k) = (a * d) * k /\ n * (c * k) = (n * c) * k
    BY DEF Pos
  <2> QED
    BY <1>1, <2>1
<1>4. c * k \in Pos /\ d * k \in Pos
  BY DEF Pos
<1> QED
  BY <1>2, <1>3, <1>4, SameRatio

\* ... and sum and difference over one denominator.
LEMMA MinusRatio ==
  ASSUME NEW n \in Int, NEW m \in Int, NEW d \in Pos
  PROVE  /\ Plus(Ratio(n, d), Ratio(m, d)) = Ratio(n + m, d)
         /\ Minus(Ratio(n, d), Ratio(m, d)) = Ratio(n - m, d)
<1>1. ASSUME NEW k \in Int PROVE Plus(Ratio(n, d), Ratio(k, d)) = Ratio(n + k, d)
  <2>1. (n * d + k * d) * d = (n + k) * (d * d)
    BY DEF Pos
  <2>2. n * d + k * d \in Int /\ d * d \in Pos /\ n + k \in Int
    BY DEF Pos
  <2> QED
    BY <2>1, <2>2, PlusRatio, SameRatio
<1>2. Times(-1, Ratio(m, d)) = Ratio(-m, d)
  <2>1. -1 \in Int /\ (-1) * m = -m
    OBVIOUS
  <2> QED
    BY <2>1, TimesRatio
<1>3. -m \in Int /\ n + (-m) = n - m
  OBVIOUS
<1> QED
  BY <1>1, <1>2, <1>3 DEF Minus

\* Three rationals have a common denominator.
LEMMA CommonTerms ==
  ASSUME NEW x \in Rationals, NEW y \in Rationals, NEW z \in Rationals
  PROVE  \E a, b, c \in Int, d \in Pos :
           x = Ratio(a, d) /\ y = Ratio(b, d) /\ z = Ratio(c, d)
<1>1. PICK n1 \in Int, d1 \in Pos : x = Ratio(n1, d1)
  BY RationalIs
<1>2. PICK n2 \in Int, d2 \in Pos : y = Ratio(n2, d2)
  BY RationalIs
<1>3. PICK n3 \in Int, d3 \in Pos : z = Ratio(n3, d3)
  BY RationalIs
<1> DEFINE d == d1 * d2 * d3
<1>4. d \in Pos
  BY DEF Pos
<1>5. n1 * (d2 * d3) \in Int /\ n1 * d = (n1 * (d2 * d3)) * d1
  BY DEF Pos
<1>6. n2 * (d1 * d3) \in Int /\ n2 * d = (n2 * (d1 * d3)) * d2
  BY DEF Pos
<1>7. n3 * (d1 * d2) \in Int /\ n3 * d = (n3 * (d1 * d2)) * d3
  BY DEF Pos
<1> HIDE DEF d
<1>8. /\ x = Ratio(n1 * (d2 * d3), d)
      /\ y = Ratio(n2 * (d1 * d3), d)
      /\ z = Ratio(n3 * (d1 * d2), d)
  BY <1>1, <1>2, <1>3, <1>4, <1>5, <1>6, <1>7, SameRatio
<1> QED
  BY <1>4, <1>5, <1>6, <1>7, <1>8

\* The operations return rationals.
LEMMA RationalsClosed ==
  ASSUME NEW x \in Rationals, NEW y \in Rationals
  PROVE  /\ Plus(x, y) \in Rationals /\ Minus(x, y) \in Rationals
         /\ \A k \in Int : Times(k, x) \in Rationals
         /\ \A k \in Pos : Over(x, k) \in Rationals
<1>1. PICK a, b \in Int, d \in Pos : x = Ratio(a, d) /\ y = Ratio(b, d)
  BY CommonTerms
<1>2. Plus(x, y) \in Rationals /\ Minus(x, y) \in Rationals
  <2>1. a + b \in Int /\ a - b \in Int
    OBVIOUS
  <2> QED
    BY <1>1, <2>1, MinusRatio, RatioTyped
<1>3. ASSUME NEW k \in Int PROVE Times(k, x) \in Rationals
  <2>1. k * a \in Int
    OBVIOUS
  <2> QED
    BY <1>1, <2>1, TimesRatio, RatioTyped
<1>4. ASSUME NEW k \in Pos PROVE Over(x, k) \in Rationals
  <2>1. d * k \in Pos
    BY DEF Pos
  <2> QED
    BY <1>1, <2>1, OverRatio, RatioTyped
<1> QED
  BY <1>2, <1>3, <1>4

\* Addition is associative and commutative.
LEMMA PlusRegroups ==
  ASSUME NEW x \in Rationals, NEW y \in Rationals, NEW z \in Rationals
  PROVE  /\ Plus(x, y) = Plus(y, x)
         /\ Plus(x, Plus(y, z)) = Plus(Plus(x, y), z)
<1>1. PICK a, b, c \in Int, d \in Pos :
        x = Ratio(a, d) /\ y = Ratio(b, d) /\ z = Ratio(c, d)
  BY CommonTerms
<1>2. a + b \in Int /\ b + c \in Int /\ a + b = b + a /\ a + (b + c) = (a + b) + c
  OBVIOUS
<1> QED
  BY <1>1, <1>2, MinusRatio

\* What replaces one summand by another changes the sum by their difference.
LEMMA PlusReplaces ==
  ASSUME NEW old \in Rationals, NEW new \in Rationals, NEW rest \in Rationals
  PROVE  Plus(new, rest) = Plus(Plus(old, rest), Minus(new, old))
<1>1. PICK a, b, c \in Int, d \in Pos :
        old = Ratio(a, d) /\ new = Ratio(b, d) /\ rest = Ratio(c, d)
  BY CommonTerms
<1>2. a + c \in Int /\ b - a \in Int /\ b + c = (a + c) + (b - a)
  OBVIOUS
<1> QED
  BY <1>1, <1>2, MinusRatio

-----------------------------------------------------------------------------
(* Sums over a finite set *)

Pick(s) == CHOOSE x \in s : TRUE

\* What the fold of Total computes for every subset s of S
Sums(f, S, g) ==
  g = [s \in SUBSET S |->
         IF s = {} THEN Whole(0) ELSE Plus(f[Pick(s)], g[s \ {Pick(s)}])]

\* The community modules' fold, written out for Plus.
LEMMA TotalUnfolds ==
  ASSUME NEW f
  PROVE  Total(f) = (CHOOSE g : Sums(f, DOMAIN f, g))[DOMAIN f]
  BY Zenon DEF Total, FoldFunction, FoldFunctionOnSet, MapThenFoldSet, Sums, Pick

\* CHOOSE finds an element where there is one.
LEMMA PickIn == ASSUME NEW s, s # {} PROVE Pick(s) \in s
  BY DEF Pick

\* A set of finite sets has one that contains no other of them.
LEMMA SmallestSubset ==
  ASSUME NEW S, IsFiniteSet(S), NEW T \in SUBSET (SUBSET S), T # {}
  PROVE  \E s \in T : \A u \in T : u \subseteq s => u = s
<1>1. IsWellFoundedOn(StrictSubsetOrdering(S), FiniteSubsetsOf(S))
  BY FS_StrictSubsetOrderingWellFounded
<1>2. T \subseteq FiniteSubsetsOf(S)
  BY FS_FiniteSubsetsOfFinite
<1>3. PICK s \in T : \A u \in T : ~ (<<u, s>> \in StrictSubsetOrdering(S))
  BY <1>1, <1>2, WFMin
<1>4. ASSUME NEW u \in T, u \subseteq s, u # s PROVE FALSE
  BY <1>2, <1>3, <1>4 DEF StrictSubsetOrdering, FiniteSubsetsOf
<1> QED
  BY <1>3, <1>4

\* The recursion of the fold has a solution.
LEMMA SumsExist ==
  ASSUME NEW S, IsFiniteSet(S), NEW f
  PROVE  \E g : Sums(f, S, g)
<1> DEFINE Step(g) == [s \in SUBSET S |->
                         IF s = {} THEN Whole(0) ELSE Plus(f[Pick(s)], g[s \ {Pick(s)}])]
           Upto(n, g) == \A s \in SUBSET S : Cardinality(s) <= n => g[s] = Step(g)[s]
           T == {n \in Nat : ~ \E g : DOMAIN g = SUBSET S /\ Upto(n, g)}
<1>1. \A s \in SUBSET S :
        /\ IsFiniteSet(s) /\ Cardinality(s) \in Nat /\ Cardinality(s) <= Cardinality(S)
        /\ s # {} => /\ s \ {Pick(s)} \in SUBSET S
                     /\ Cardinality(s \ {Pick(s)}) = Cardinality(s) - 1
  BY FS_Subset, FS_CardinalityType, FS_RemoveElement, PickIn
<1>2. Cardinality(S) \in Nat
  BY FS_CardinalityType
<1>3. \E g : DOMAIN g = SUBSET S /\ Upto(0, g)
  <2> DEFINE g == [s \in SUBSET S |-> Whole(0)]
  <2>1. ASSUME NEW s \in SUBSET S, Cardinality(s) <= 0 PROVE s = {}
    <3>1. IsFiniteSet(s) /\ Cardinality(s) \in Nat
      BY <1>1
    <3>2. Cardinality(s) = 0
      BY <2>1, <3>1
    <3> QED
      BY <3>1, <3>2, FS_EmptySet, Zenon
  <2>2. Upto(0, g)
    BY <2>1
  <2> QED
    BY <2>2
<1>4. ASSUME NEW n \in Nat, NEW g, Upto(n, g)
      PROVE  Upto(n + 1, Step(g))
  <2> SUFFICES ASSUME NEW s \in SUBSET S, Cardinality(s) <= n + 1
               PROVE  Step(g)[s] = Step(Step(g))[s]
    OBVIOUS
  <2>1. CASE s = {}
    BY <2>1
  <2>2. CASE s # {}
    <3> DEFINE t == s \ {Pick(s)}
    <3>1. t \in SUBSET S /\ Cardinality(t) <= n
      BY <1>1, <2>2
    <3>2. g[t] = Step(g)[t]
      BY <1>4, <3>1
    <3>3. Step(g)[s] = Plus(f[Pick(s)], g[t]) /\ Step(Step(g))[s] = Plus(f[Pick(s)], Step(g)[t])
      BY <2>2
    <3> QED
      BY <3>2, <3>3
  <2> QED
    BY <2>1, <2>2
<1>5. T = {}
  <2> SUFFICES ASSUME T # {} PROVE FALSE
    OBVIOUS
  <2>1. PICK m \in T : \A n \in T : m <= n
    <3>1. T \in SUBSET Nat
      OBVIOUS
    <3> HIDE DEF T
    <3> QED
      BY <3>1, LeastNumber
  <2>2. m # 0
    BY <1>3
  <2>3. m - 1 \in Nat /\ m - 1 \notin T /\ (m - 1) + 1 = m
    <3>1. m \in Nat
      OBVIOUS
    <3> HIDE DEF T
    <3> QED
      BY <3>1, <2>1, <2>2
  <2>4. PICK g : Upto(m - 1, g)
    BY <2>3
  <2>5. Upto((m - 1) + 1, Step(g))
    <3> HIDE DEF Step, Upto
    <3> QED BY <1>4, <2>3, <2>4
  <2>6. DOMAIN Step(g) = SUBSET S /\ Upto(m, Step(g))
    BY <2>5, <2>3
  <2> QED
    BY <2>6
<1>6. PICK g : DOMAIN g = SUBSET S /\ Upto(Cardinality(S), g)
  BY <1>2, <1>5
<1>7. \A s \in SUBSET S : g[s] = Step(g)[s]
  BY <1>1, <1>6
<1>8. Sums(f, S, Step(g))
  <2>1. \A s \in SUBSET S : Step(g)[s] = Step(Step(g))[s]
    <3> SUFFICES ASSUME NEW s \in SUBSET S PROVE Step(g)[s] = Step(Step(g))[s]
      OBVIOUS
    <3>1. CASE s = {}
      BY <3>1
    <3>2. CASE s # {}
      <4>1. s \ {Pick(s)} \in SUBSET S
        OBVIOUS
      <4> QED
        BY <3>2, <4>1, <1>7
    <3> QED BY <3>1, <3>2
  <2>2. Step(g) = Step(Step(g))
    BY <2>1
  <2> QED
    BY <2>2 DEF Sums
<1> QED
  BY <1>8

\* The recursion, one element at a time.
LEMMA SumsStep ==
  ASSUME NEW S, NEW f, NEW g, Sums(f, S, g)
  PROVE  /\ g[{}] = Whole(0)
         /\ \A s \in SUBSET S : s # {} =>
              /\ Pick(s) \in s /\ s \ {Pick(s)} \in SUBSET S /\ s \ {Pick(s)} # s
              /\ g[s] = Plus(f[Pick(s)], g[s \ {Pick(s)}])
<1>1. g = [s \in SUBSET S |->
             IF s = {} THEN Whole(0) ELSE Plus(f[Pick(s)], g[s \ {Pick(s)}])]
  BY DEF Sums
<1>2. g[{}] = Whole(0)
  BY <1>1, Zenon
<1>3. ASSUME NEW s \in SUBSET S, s # {} PROVE g[s] = Plus(f[Pick(s)], g[s \ {Pick(s)}])
  BY <1>1, <1>3, Zenon
<1> QED
  BY <1>2, <1>3, PickIn

\* The sum of rationals is one.
LEMMA SumsTyped ==
  ASSUME NEW S, IsFiniteSet(S), NEW f \in [S -> Rationals], NEW g, Sums(f, S, g)
  PROVE  \A s \in SUBSET S : g[s] \in Rationals
<1> DEFINE T == {s \in SUBSET S : g[s] \notin Rationals}
<1> SUFFICES ASSUME T # {} PROVE FALSE
  OBVIOUS
<1>1. PICK s \in T : \A u \in T : u \subseteq s => u = s
  <2>1. T \in SUBSET (SUBSET S)
    OBVIOUS
  <2> HIDE DEF T
  <2> QED
    BY <2>1, SmallestSubset
<1>2. g[{}] \in Rationals
  BY SumsStep, WholeIs
<1>3. s # {} /\ s \in SUBSET S
  BY <1>2
<1> DEFINE t == s \ {Pick(s)}
<1>4. Pick(s) \in S /\ t \in SUBSET S /\ t # s /\ t \subseteq s /\ g[s] = Plus(f[Pick(s)], g[t])
  BY <1>3, SumsStep
<1>5. g[t] \in Rationals
  BY <1>1, <1>4
<1>6. f[Pick(s)] \in Rationals
  BY <1>4
<1>7. g[s] \in Rationals
  <2> HIDE DEF t, T
  <2> QED
    BY <1>4, <1>5, <1>6, RationalsClosed
<1> QED
  BY <1>7

\* One summand changes: so does every sum it is in, by as much.
LEMMA SumsUpdated ==
  ASSUME NEW S, IsFiniteSet(S), NEW f \in [S -> Rationals], NEW h \in [S -> Rationals],
         NEW i \in S, \A j \in S \ {i} : h[j] = f[j],
         NEW g, Sums(f, S, g), NEW k, Sums(h, S, k)
  PROVE  \A s \in SUBSET S :
           k[s] = IF i \in s THEN Plus(g[s], Minus(h[i], f[i])) ELSE g[s]
<1> DEFINE New(s) == IF i \in s THEN Plus(g[s], Minus(h[i], f[i])) ELSE g[s]
           T == {s \in SUBSET S : k[s] # New(s)}
<1> SUFFICES ASSUME T # {} PROVE FALSE
  OBVIOUS
<1>1. PICK s \in T : \A u \in T : u \subseteq s => u = s
  <2>1. T \in SUBSET (SUBSET S)
    OBVIOUS
  <2> HIDE DEF T
  <2> QED
    BY <2>1, SmallestSubset
<1>2. k[{}] = New({})
  BY SumsStep
<1>3. s # {} /\ s \in SUBSET S /\ k[s] # New(s)
  BY <1>2
<1> DEFINE t == s \ {Pick(s)}
           x == Pick(s)
<1>4. /\ x \in s /\ x \in S /\ t \in SUBSET S /\ t # s /\ t \subseteq s
      /\ g[s] = Plus(f[x], g[t]) /\ k[s] = Plus(h[x], k[t])
  BY <1>3, SumsStep
<1>5. k[t] = New(t)
  BY <1>1, <1>4
<1>6. f[x] \in Rationals /\ h[x] \in Rationals /\ f[i] \in Rationals /\ h[i] \in Rationals
  BY <1>4
<1>7. g[t] \in Rationals /\ Minus(h[i], f[i]) \in Rationals
  BY <1>4, <1>6, SumsTyped, RationalsClosed
<1>8. CASE x = i
  <2>1. i \notin t /\ i \in s
    BY <1>4, <1>8
  <2>2. k[s] = Plus(h[i], g[t]) /\ g[s] = Plus(f[i], g[t])
    BY <1>4, <1>5, <1>8, <2>1
  <2>3. New(s) = Plus(Plus(f[i], g[t]), Minus(h[i], f[i]))
    BY <2>1, <2>2
  <2> HIDE DEF New, t, T, x
  <2> QED
    BY <1>3, <1>6, <1>7, <2>2, <2>3, PlusReplaces
<1>9. CASE x # i /\ i \in s
  <2>1. i \in t /\ h[x] = f[x]
    BY <1>4, <1>9
  <2>2. k[s] = Plus(f[x], Plus(g[t], Minus(h[i], f[i])))
    BY <1>4, <1>5, <2>1
  <2>3. New(s) = Plus(Plus(f[x], g[t]), Minus(h[i], f[i]))
    BY <1>4, <1>9
  <2> HIDE DEF New, t, T, x
  <2> QED
    BY <1>3, <1>6, <1>7, <2>2, <2>3, PlusRegroups
<1>10. CASE x # i /\ i \notin s
  <2>1. i \notin t /\ h[x] = f[x]
    BY <1>4, <1>10
  <2>2. k[s] = Plus(f[x], g[t]) /\ New(s) = g[s]
    BY <1>4, <1>5, <1>10, <2>1
  <2> QED
    BY <1>3, <1>4, <2>2
<1> QED
  BY <1>8, <1>9, <1>10

\* The total changes by as much as its one summand that changes.
LEMMA TotalUpdated ==
  ASSUME NEW S, IsFiniteSet(S), NEW f \in [S -> Rationals], NEW h \in [S -> Rationals],
         NEW i \in S, \A j \in S \ {i} : h[j] = f[j]
  PROVE  /\ Total(f) \in Rationals
         /\ Total(h) = Plus(Total(f), Minus(h[i], f[i]))
<1>1. PICK g : g = (CHOOSE x : Sums(f, S, x)) /\ Sums(f, S, g)
  BY SumsExist, Zenon
<1>2. PICK k : k = (CHOOSE x : Sums(h, S, x)) /\ Sums(h, S, k)
  BY SumsExist, Zenon
<1>3. DOMAIN f = S /\ DOMAIN h = S
  OBVIOUS
<1>4. Total(f) = g[S] /\ Total(h) = k[S]
  BY <1>1, <1>2, <1>3, TotalUnfolds, Zenon
<1>5. S \in SUBSET S
  OBVIOUS
<1>6. g[S] \in Rationals
  BY <1>1, <1>5, SumsTyped
<1>7. k[S] = Plus(g[S], Minus(h[i], f[i]))
  BY <1>1, <1>2, <1>5, SumsUpdated
<1> QED
  BY <1>4, <1>6, <1>7

\* The books start empty.
LEMMA TotalZero ==
  ASSUME NEW S, IsFiniteSet(S), NEW f \in [S -> Rationals], \A j \in S : f[j] = Whole(0)
  PROVE  Total(f) = Whole(0)
<1>1. PICK g : g = (CHOOSE x : Sums(f, S, x)) /\ Sums(f, S, g)
  BY SumsExist, Zenon
<1>2. Total(f) = g[S]
  <2>1. DOMAIN f = S
    OBVIOUS
  <2> QED
    BY <1>1, <2>1, TotalUnfolds, Zenon
<1>3. Plus(Whole(0), Whole(0)) = Whole(0)
  <2>1. 1 \in Pos /\ Whole(0) = Ratio(0, 1)
    BY WholeIs DEF Pos
  <2>2. 0 + 0 = 0
    OBVIOUS
  <2> QED
    BY <2>1, <2>2, MinusRatio
<1> DEFINE T == {s \in SUBSET S : g[s] # Whole(0)}
<1>4. T = {}
  <2> SUFFICES ASSUME T # {} PROVE FALSE
    OBVIOUS
  <2>1. PICK s \in T : \A u \in T : u \subseteq s => u = s
    <3>1. T \in SUBSET (SUBSET S)
      OBVIOUS
    <3> HIDE DEF T
    <3> QED
      BY <3>1, SmallestSubset
  <2>2. s # {} /\ s \in SUBSET S
    <3>1. g[{}] = Whole(0)
      BY <1>1, SumsStep
    <3> QED
      BY <3>1
  <2> DEFINE t == s \ {Pick(s)}
  <2>3. Pick(s) \in S /\ t \in SUBSET S /\ t # s /\ t \subseteq s /\ g[s] = Plus(f[Pick(s)], g[t])
    BY <1>1, <2>2, SumsStep
  <2>4. g[t] = Whole(0)
    BY <2>1, <2>3
  <2> QED
    BY <1>3, <2>3, <2>4
<1>5. S \in SUBSET S
  OBVIOUS
<1> QED
  BY <1>2, <1>4, <1>5

-----------------------------------------------------------------------------
(* The books *)

\* What the position of a fill has cost after it, over the terms of its average
\* price before it.
CostAfter(q, delta, n, d, price) == IF q # 0 /\ ~ SameSide(delta, q)
                                    THEN (q + delta) * n
                                    ELSE q * n + (delta * price) * d

\* The signed quantity of a fill.
LEMMA QtyDeltaIs ==
  ASSUME NEW f \in Trades
  PROVE  /\ f.quantity \in Nat /\ f.price \in Nat /\ f.side \in {"BUY", "SELL"}
         /\ QtyDelta(f) \in Int /\ Abs(QtyDelta(f)) = f.quantity
         /\ f.side = "SELL" => QtyDelta(f) = -f.quantity
         /\ f.side # "SELL" => QtyDelta(f) = f.quantity
<1>1. f.quantity \in Nat /\ f.price \in Nat /\ f.side \in {"BUY", "SELL"}
  BY DEF Trades
<1> QED
  BY <1>1 DEF QtyDelta, Abs

\* The cost of a position after a fill: what is reduced goes at the old average, what
\* is added comes at the price of the fill.
LEMMA FillCost ==
  ASSUME NEW f \in Trades, NEW p, p.quantity \in Int,
         NEW n \in Int, NEW d \in Pos, p.avg_price = Ratio(n, d)
  PROVE  /\ AvgPrice(p, f) \in Rationals
         /\ Times(p.quantity + QtyDelta(f), AvgPrice(p, f))
              = Ratio(CostAfter(p.quantity, QtyDelta(f), n, d, f.price), d)
<1>1. PICK q \in Int, delta \in Int, fq \in Nat, price \in Nat :
        /\ q = p.quantity /\ delta = QtyDelta(f) /\ fq = f.quantity /\ price = f.price
        /\ Abs(delta) = fq
  BY QtyDeltaIs
<1>2. CASE q = 0
  <2>1. AvgPrice(p, f) = Whole(price)
    BY <1>1, <1>2 DEF AvgPrice, Reduces
  <2>2. price * d \in Int /\ Whole(price) = Ratio(price * d, d)
    BY WholeIs DEF Pos
  <2>3. Times(q + delta, Whole(price)) = Ratio((q + delta) * (price * d), d)
    BY <2>2, TimesRatio
  <2>4. (q + delta) * (price * d) = CostAfter(q, delta, n, d, price)
    BY <1>2 DEF CostAfter, Pos
  <2> QED
    BY <1>1, <2>1, <2>3, <2>4, WholeIs
<1>3. CASE q # 0 /\ ~ SameSide(delta, q)
  <2>1. CostAfter(q, delta, n, d, price) = (q + delta) * n
    BY <1>3 DEF CostAfter
  <2>2. Reduces(p, f)
    BY <1>1, <1>3 DEF Reduces
  <2>3. CASE q + delta = 0
    <3>1. AvgPrice(p, f) = Whole(0)
      BY <1>1, <1>3, <2>2, <2>3 DEF AvgPrice
    <3>2. 0 * d = 0 /\ Whole(0) = Ratio(0 * d, d)
      BY WholeIs DEF Pos
    <3>3. Times(0, Ratio(0, d)) = Ratio(0 * 0, d)
      BY TimesRatio
    <3>4. 0 * 0 = 0 /\ 0 * n = 0
      OBVIOUS
    <3> QED
      BY <1>1, <2>1, <2>3, <3>1, <3>2, <3>3, <3>4, WholeIs
  <2>4. CASE q + delta # 0
    <3>1. AvgPrice(p, f) = Ratio(n, d)
      BY <1>1, <1>3, <2>2, <2>4 DEF AvgPrice
    <3>2. Times(q + delta, Ratio(n, d)) = Ratio((q + delta) * n, d)
      BY TimesRatio
    <3> QED
      BY <1>1, <2>1, <3>1, <3>2, RatioTyped
  <2> QED
    BY <2>3, <2>4
<1>4. CASE q # 0 /\ SameSide(delta, q)
  <2>1. CostAfter(q, delta, n, d, price) = q * n + (delta * price) * d
    BY <1>4 DEF CostAfter
  <2>2. ~ Reduces(p, f)
    BY <1>1, <1>4 DEF Reduces
  <2>3. PICK s \in {1, -1}, a \in Nat, b \in Pos :
          /\ a = Abs(q) /\ b = Abs(q + delta)
          /\ q = s * a /\ delta = s * fq /\ q + delta = s * b
    <3>1. CASE q > 0
      BY <1>1, <1>4, <3>1 DEF SameSide, Abs, Pos
    <3>2. CASE q < 0
      BY <1>1, <1>4, <3>2 DEF SameSide, Abs, Pos
    <3> QED
      BY <1>4, <3>1, <3>2
  <2>4. AvgPrice(p, f) = Over(Plus(Times(a, Ratio(n, d)), Whole(fq * price)), b)
    BY <1>1, <1>4, <2>2, <2>3 DEF AvgPrice
  <2> DEFINE N == a * n + (fq * price) * d
  <2>5. a * n \in Int /\ fq * price \in Int /\ (fq * price) * d \in Int /\ N \in Int /\ d * b \in Pos
    BY DEF Pos
  <2>6. Plus(Times(a, Ratio(n, d)), Whole(fq * price)) = Ratio(N, d)
    <3>1. Times(a, Ratio(n, d)) = Ratio(a * n, d)
      BY TimesRatio
    <3>2. Whole(fq * price) = Ratio((fq * price) * d, d)
      BY <2>5, WholeIs
    <3> QED
      BY <2>5, <3>1, <3>2, MinusRatio
  <2>7. AvgPrice(p, f) = Ratio(N, d * b)
    <3> HIDE DEF N
    <3> QED
      BY <2>4, <2>5, <2>6, OverRatio
  <2>8. AvgPrice(p, f) \in Rationals
    <3> HIDE DEF N
    <3> QED
      BY <2>5, <2>7, RatioTyped
  <2>9. Times(q + delta, AvgPrice(p, f)) = Ratio((q + delta) * N, d * b)
    <3> HIDE DEF N
    <3> QED
      BY <2>5, <2>7, TimesRatio
  <2>10. s * N = q * n + (delta * price) * d
    BY <2>3 DEF Pos
  <2>11. ((q + delta) * N) * d = (s * N) * (d * b)
    <3> HIDE DEF N
    <3> QED
      BY <2>3, <2>5 DEF Pos
  <2>12. Ratio((q + delta) * N, d * b) = Ratio(s * N, d)
    <3>1. (q + delta) * N \in Int /\ s * N \in Int
      BY <2>5
    <3> HIDE DEF N
    <3> QED
      BY <2>5, <2>11, <3>1, SameRatio
  <2> QED
    <3> HIDE DEF N
    <3> QED
    BY <1>1, <2>1, <2>8, <2>9, <2>10, <2>12
<1> QED
  BY <1>2, <1>3, <1>4

\* A fill pays for what it changes: cash, the cost of the position, the realised
\* result and, through zero, what is misstated.
LEMMA FillBalances ==
  ASSUME NEW f \in Trades, NEW p, p.quantity \in Int, p.avg_price \in Rationals
  PROVE  LET realized == IF Reduces(p, f) THEN Realized(p, f) ELSE Whole(0)
         IN /\ realized \in Rationals
            /\ Misstated(p, f) \in Rationals
            /\ Plus(Whole(-(QtyDelta(f) * f.price)),
                    Minus(Times(p.quantity + QtyDelta(f), AvgPrice(p, f)),
                          Times(p.quantity, p.avg_price)))
                 = Plus(realized, Misstated(p, f))
<1>1. PICK q \in Int, delta \in Int, fq \in Nat, price \in Nat :
        /\ q = p.quantity /\ delta = QtyDelta(f) /\ fq = f.quantity /\ price = f.price
        /\ Abs(delta) = fq
        /\ delta = IF f.side = "SELL" THEN -fq ELSE fq
  BY QtyDeltaIs
<1>2. PICK n \in Int, d \in Pos : p.avg_price = Ratio(n, d)
  BY RationalIs
<1> DEFINE C == CostAfter(q, delta, n, d, price)
<1>3. C \in Int
  BY DEF CostAfter, Pos
<1>4. Plus(Whole(-(delta * price)),
           Minus(Times(q + delta, AvgPrice(p, f)), Times(q, p.avg_price)))
        = Ratio((-(delta * price)) * d + (C - q * n), d)
  <2>1. Times(q + delta, AvgPrice(p, f)) = Ratio(C, d)
    BY <1>1, <1>2, FillCost
  <2>2. Times(q, p.avg_price) = Ratio(q * n, d)
    BY <1>2, TimesRatio
  <2>3. -(delta * price) \in Int /\ (-(delta * price)) * d \in Int /\ q * n \in Int
    BY DEF Pos
  <2>4. Whole(-(delta * price)) = Ratio((-(delta * price)) * d, d)
    BY <2>3, WholeIs
  <2> HIDE DEF C
  <2>5. Minus(Ratio(C, d), Ratio(q * n, d)) = Ratio(C - q * n, d) /\ C - q * n \in Int
    BY <1>3, <2>3, MinusRatio
  <2> QED
    BY <2>1, <2>2, <2>3, <2>4, <2>5, MinusRatio
<1>5. CASE Reduces(p, f)
  <2>1. q # 0 /\ ~ SameSide(delta, q) /\ C = (q + delta) * n
    BY <1>1, <1>5 DEF Reduces, CostAfter
  <2> DEFINE close == Least(fq, Abs(q))
             gain == IF f.side = "SELL" THEN price * d - n ELSE n - price * d
  <2>2. close \in Nat /\ gain \in Int /\ price * d \in Int /\ Whole(price) = Ratio(price * d, d)
    BY WholeIs DEF Pos, Least, Abs
  <2>3. Realized(p, f) = Ratio(close * gain, d)
    <3>1. /\ Minus(Whole(price), p.avg_price) = Ratio(price * d - n, d)
          /\ Minus(p.avg_price, Whole(price)) = Ratio(n - price * d, d)
      <4> HIDE DEF close, gain
      <4>1. PICK k \in Int : k = price * d /\ Whole(price) = Ratio(k, d)
        BY <2>2
      <4>2. /\ Minus(Ratio(k, d), Ratio(n, d)) = Ratio(k - n, d)
            /\ Minus(Ratio(n, d), Ratio(k, d)) = Ratio(n - k, d)
        BY MinusRatio
      <4> QED
        BY <1>2, <4>1, <4>2
    <3>2. Realized(p, f) = Times(close, IF f.side = "SELL" THEN Minus(Whole(price), p.avg_price)
                                        ELSE Minus(p.avg_price, Whole(price)))
      BY <1>1 DEF Realized
    <3>3. Realized(p, f) = Times(close, Ratio(gain, d))
      BY <3>1, <3>2
    <3> HIDE DEF close, gain
    <3> QED
      BY <2>2, <3>3, TimesRatio
  <2> DEFINE slip == IF SameSide(q + delta, delta) THEN (q + delta) * (n - price * d) ELSE 0
  <2>4. slip \in Int /\ close * gain \in Int
    BY <2>2
  <2>5. Misstated(p, f) = Ratio(slip, d)
    <3> HIDE DEF close, gain, C
    <3>1. CASE SameSide(q + delta, delta)
      <4>1. Misstated(p, f) = Times(q + delta, Minus(Ratio(n, d), Ratio(price * d, d)))
        BY <1>1, <1>2, <1>5, <2>2, <3>1 DEF Misstated
      <4>2. PICK k \in Int : k = price * d
        BY <2>2
      <4>3. Minus(Ratio(n, d), Ratio(k, d)) = Ratio(n - k, d)
        BY MinusRatio
      <4>4. Times(q + delta, Ratio(n - k, d)) = Ratio((q + delta) * (n - k), d)
        BY TimesRatio
      <4> QED
        BY <3>1, <4>1, <4>2, <4>3, <4>4
    <3>2. CASE ~ SameSide(q + delta, delta)
      <4>1. Misstated(p, f) = Whole(0)
        BY <1>1, <3>2 DEF Misstated
      <4>2. 0 * d = 0 /\ Whole(0) = Ratio(0 * d, d)
        BY WholeIs DEF Pos
      <4> QED
        BY <3>2, <4>1, <4>2
    <3> QED
      BY <3>1, <3>2
  <2>6. close * gain + slip = (-(delta * price)) * d + (C - q * n)
    <3>1. CASE f.side = "SELL"
      <4>1. delta = -fq /\ gain = price * d - n
        BY <1>1, <3>1
      <4>2. CASE fq <= Abs(q)
        <5>1. close = fq /\ slip = 0
          BY <2>1, <4>1, <4>2 DEF SameSide, Least, Abs
        <5>2. fq * (price * d - n) = (-((-fq) * price)) * d + ((q + (-fq)) * n - q * n)
          BY DEF Pos
        <5>3. fq * (price * d - n) \in Int
          BY DEF Pos
        <5> HIDE DEF close, gain, C, slip
        <5> QED
          BY <2>1, <4>1, <5>1, <5>2, <5>3
      <4>3. CASE fq > Abs(q)
        <5>1. close = q /\ slip = (q + (-fq)) * (n - price * d)
          BY <2>1, <4>1, <4>3 DEF SameSide, Least, Abs
        <5>2. q * (price * d - n) + (q + (-fq)) * (n - price * d)
                = (-((-fq) * price)) * d + ((q + (-fq)) * n - q * n)
          BY DEF Pos
        <5> HIDE DEF close, gain, C, slip
        <5> QED
          BY <2>1, <4>1, <5>1, <5>2
      <4>4. Abs(q) \in Int
        BY DEF Abs
      <4> QED
        BY <4>2, <4>3, <4>4
    <3>2. CASE f.side # "SELL"
      <4>1. delta = fq /\ gain = n - price * d
        BY <1>1, <3>2
      <4>2. CASE fq <= Abs(q)
        <5>1. close = fq /\ slip = 0
          BY <2>1, <4>1, <4>2 DEF SameSide, Least, Abs
        <5>2. fq * (n - price * d) = (-(fq * price)) * d + ((q + fq) * n - q * n)
          BY DEF Pos
        <5>3. fq * (n - price * d) \in Int
          BY DEF Pos
        <5> HIDE DEF close, gain, C, slip
        <5> QED
          BY <2>1, <4>1, <5>1, <5>2, <5>3
      <4>3. CASE fq > Abs(q)
        <5>1. close = -q /\ slip = (q + fq) * (n - price * d)
          BY <2>1, <4>1, <4>3 DEF SameSide, Least, Abs
        <5>2. (-q) * (n - price * d) + (q + fq) * (n - price * d)
                = (-(fq * price)) * d + ((q + fq) * n - q * n)
          BY DEF Pos
        <5> HIDE DEF close, gain, C, slip
        <5> QED
          BY <2>1, <4>1, <5>1, <5>2
      <4>4. Abs(q) \in Int
        BY DEF Abs
      <4> QED
        BY <4>2, <4>3, <4>4
    <3> QED
      BY <3>1, <3>2
  <2> HIDE DEF C, close, gain, slip
  <2>7. Realized(p, f) \in Rationals /\ Misstated(p, f) \in Rationals
    BY <2>3, <2>4, <2>5, RatioTyped
  <2>8. Plus(Realized(p, f), Misstated(p, f)) = Ratio(close * gain + slip, d)
    BY <2>3, <2>4, <2>5, MinusRatio
  <2> QED
    BY <1>1, <1>4, <1>5, <2>6, <2>7, <2>8
<1>6. CASE ~ Reduces(p, f)
  <2>1. C = q * n + (delta * price) * d
    BY <1>1, <1>6 DEF Reduces, CostAfter
  <2>2. (-(delta * price)) * d + (C - q * n) = 0
    BY <2>1 DEF Pos
  <2>3. 0 * d = 0 /\ Whole(0) = Ratio(0 * d, d) /\ Whole(0) \in Rationals
    BY WholeIs DEF Pos
  <2>4. Misstated(p, f) = Whole(0)
    BY <1>6 DEF Misstated
  <2>5. Plus(Ratio(0, d), Ratio(0, d)) = Ratio(0 + 0, d) /\ 0 + 0 = 0
    BY MinusRatio
  <2> HIDE DEF C
  <2> QED
    BY <1>1, <1>4, <1>6, <2>2, <2>3, <2>4, <2>5
<1> QED
  BY <1>5, <1>6

-----------------------------------------------------------------------------
Position == [strategy_id : StrategyIds \cup {NoStrategy, Unowned}, quantity : Int,
             avg_price : Rationals, current_price : Nat, realized_pnl : Rationals,
             unrealized_pnl : Rationals]

BooksTypeOK ==
  /\ positions \in [Instruments -> Position]
  /\ total_realized_pnl \in Rationals
  /\ total_unrealized_pnl \in Rationals
  /\ carried \in Rationals
  /\ brought \in Rationals
  /\ available_capital \in Int
  /\ misstated \in Rationals

\* The cost of what is held and the two results, by instrument
Costs == [i \in Instruments |-> Times(positions[i].quantity, positions[i].avg_price)]
Gains == [i \in Instruments |-> positions[i].realized_pnl]
Marks == [i \in Instruments |-> positions[i].unrealized_pnl]

BooksInv == BooksTypeOK /\ CashBalances /\ RealizedAgrees

\* The total of rationals is one.
LEMMA TotalTyped ==
  ASSUME NEW f \in [Instruments -> Rationals]
  PROVE  Total(f) \in Rationals
<1>1. IsFiniteSet(Instruments)
  BY BooksAssumption
<1>2. CASE Instruments = {}
  <2>1. Total(f) = Whole(0)
    BY <1>1, <1>2, TotalZero
  <2> QED
    BY <2>1, WholeIs
<1>3. CASE Instruments # {}
  <2>1. PICK i \in Instruments : TRUE
    BY <1>3
  <2> QED
    BY <1>1, <2>1, TotalUpdated
<1> QED
  BY <1>2, <1>3

\* The three sums over the books are rationals.
LEMMA SumsOfBooks ==
  ASSUME BooksTypeOK
  PROVE  /\ Costs \in [Instruments -> Rationals]
         /\ Gains \in [Instruments -> Rationals]
         /\ Marks \in [Instruments -> Rationals]
         /\ Total(Costs) \in Rationals /\ Total(Gains) \in Rationals
         /\ Total(Marks) \in Rationals
<1>1. ASSUME NEW i \in Instruments
      PROVE  /\ Times(positions[i].quantity, positions[i].avg_price) \in Rationals
             /\ positions[i].realized_pnl \in Rationals
             /\ positions[i].unrealized_pnl \in Rationals
  <2>1. positions[i] \in Position
    BY DEF BooksTypeOK
  <2>2. positions[i].quantity \in Int /\ positions[i].avg_price \in Rationals
    BY <2>1 DEF Position
  <2> QED
    BY <2>1, <2>2, RationalsClosed DEF Position
<1>2. /\ Costs \in [Instruments -> Rationals]
      /\ Gains \in [Instruments -> Rationals]
      /\ Marks \in [Instruments -> Rationals]
  BY <1>1 DEF Costs, Gains, Marks
<1> QED
  BY <1>2, TotalTyped

\* Two sums of two are added part by part.
LEMMA PlusInterchanges ==
  ASSUME NEW a \in Rationals, NEW b \in Rationals, NEW c \in Rationals, NEW d \in Rationals
  PROVE  Plus(Plus(a, b), Plus(c, d)) = Plus(Plus(a, c), Plus(b, d))
<1>1. /\ Plus(b, c) \in Rationals /\ Plus(c, b) \in Rationals
      /\ Plus(c, d) \in Rationals /\ Plus(b, d) \in Rationals
  BY RationalsClosed
<1>2. Plus(Plus(a, b), Plus(c, d)) = Plus(a, Plus(b, Plus(c, d)))
  BY <1>1, PlusRegroups
<1>3. Plus(b, Plus(c, d)) = Plus(Plus(b, c), d) /\ Plus(b, c) = Plus(c, b)
  BY PlusRegroups
<1>4. Plus(Plus(c, b), d) = Plus(c, Plus(b, d))
  BY PlusRegroups
<1>5. Plus(a, Plus(c, Plus(b, d))) = Plus(Plus(a, c), Plus(b, d))
  BY <1>1, PlusRegroups
<1> QED
  BY <1>2, <1>3, <1>4, <1>5

\* Cash, cost and result move together.
LEMMA BalanceMoves ==
  ASSUME NEW cash \in Int, NEW T \in Rationals, NEW B \in Rationals, NEW R \in Rationals,
         NEW x \in Int, NEW D \in Rationals, NEW r \in Rationals,
         Plus(Whole(cash), T) = Plus(B, R), Plus(Whole(x), D) = r
  PROVE  Plus(Whole(cash + x), Plus(T, D)) = Plus(B, Plus(R, r))
<1>1. PICK a \in Rationals, b \in Rationals :
        a = Whole(cash) /\ b = Whole(x) /\ Whole(cash + x) = Plus(a, b)
  <2>1. 1 \in Pos /\ cash + x \in Int
    BY DEF Pos
  <2> QED
    BY <2>1, WholeIs, MinusRatio
<1>2. Plus(Plus(a, b), Plus(T, D)) = Plus(Plus(a, T), Plus(b, D))
  BY PlusInterchanges
<1>3. Plus(Plus(B, R), r) = Plus(B, Plus(R, r))
  BY PlusRegroups
<1> QED
  BY <1>1, <1>2, <1>3

\* Zero and inverse.
LEMMA PlusCancels ==
  ASSUME NEW x \in Rationals, NEW y \in Rationals
  PROVE  /\ Minus(Plus(x, y), x) = y
         /\ Minus(x, x) = Whole(0)
         /\ Plus(x, Whole(0)) = x /\ Minus(x, Whole(0)) = x
         /\ Times(0, x) = Whole(0)
<1>1. PICK a, b \in Int, d \in Pos : x = Ratio(a, d) /\ y = Ratio(b, d)
  BY CommonTerms
<1>2. 0 * d = 0 /\ Whole(0) = Ratio(0, d)
  <2>1. 0 * d = 0
    BY DEF Pos
  <2> QED
    BY <2>1, WholeIs
<1>3. a + b \in Int /\ (a + b) - a = b /\ a - a = 0 /\ a + 0 = a /\ a - 0 = a /\ 0 * a = 0
  OBVIOUS
<1>4. Minus(Plus(x, y), x) = y
  BY <1>1, <1>3, MinusRatio
<1>5. Minus(x, x) = Whole(0)
  BY <1>1, <1>2, <1>3, MinusRatio
<1>6. Plus(x, Whole(0)) = x /\ Minus(x, Whole(0)) = x
  BY <1>1, <1>2, <1>3, MinusRatio
<1>7. Times(0, x) = Whole(0)
  BY <1>1, <1>2, <1>3, TimesRatio
<1> QED
  BY <1>4, <1>5, <1>6, <1>7

\* One position becomes new: each sum changes by what new brings.
LEMMA PositionBooked ==
  ASSUME BooksTypeOK, NEW i \in Instruments, NEW new \in Position,
         positions' = [positions EXCEPT ![i] = new]
  PROVE  /\ positions' \in [Instruments -> Position]
         /\ Total(Costs)' = Plus(Total(Costs), Minus(Times(new.quantity, new.avg_price), Costs[i]))
         /\ Total(Gains)' = Plus(Total(Gains), Minus(new.realized_pnl, Gains[i]))
         /\ Total(Marks)' = Plus(Total(Marks), Minus(new.unrealized_pnl, Marks[i]))
<1>1. /\ positions' \in [Instruments -> Position]
      /\ positions'[i] = new
      /\ \A j \in Instruments \ {i} : positions'[j] = positions[j]
  BY DEF BooksTypeOK
<1>2. /\ Costs' \in [Instruments -> Rationals]
      /\ Gains' \in [Instruments -> Rationals]
      /\ Marks' \in [Instruments -> Rationals]
  <2>1. ASSUME NEW j \in Instruments
        PROVE  /\ Times(positions'[j].quantity, positions'[j].avg_price) \in Rationals
               /\ positions'[j].realized_pnl \in Rationals
               /\ positions'[j].unrealized_pnl \in Rationals
    <3>1. positions'[j] \in Position
      BY <1>1
    <3>2. positions'[j].quantity \in Int /\ positions'[j].avg_price \in Rationals
      BY <3>1 DEF Position
    <3> QED
      BY <3>1, <3>2, RationalsClosed DEF Position
  <2> QED
    BY <2>1 DEF Costs, Gains, Marks
<1>3. /\ \A j \in Instruments \ {i} : Costs'[j] = Costs[j] /\ Gains'[j] = Gains[j] /\ Marks'[j] = Marks[j]
      /\ Costs'[i] = Times(new.quantity, new.avg_price)
      /\ Gains'[i] = new.realized_pnl /\ Marks'[i] = new.unrealized_pnl
  BY <1>1 DEF Costs, Gains, Marks
<1>4. PICK c, g, m, c1, g1, m1 \in [Instruments -> Rationals] :
        /\ c = Costs /\ g = Gains /\ m = Marks
        /\ c1 = Costs' /\ g1 = Gains' /\ m1 = Marks'
  BY <1>2, SumsOfBooks
<1>5. IsFiniteSet(Instruments)
  BY BooksAssumption
<1>6. /\ Total(c1) = Plus(Total(c), Minus(c1[i], c[i]))
      /\ Total(g1) = Plus(Total(g), Minus(g1[i], g[i]))
      /\ Total(m1) = Plus(Total(m), Minus(m1[i], m[i]))
  BY <1>3, <1>4, <1>5, TotalUpdated
<1>7. Total(Costs)' = Total(c1) /\ Total(Gains)' = Total(g1) /\ Total(Marks)' = Total(m1)
  BY <1>4 DEF Total
<1> QED
  BY <1>1, <1>3, <1>4, <1>6, <1>7

\* Fills keep the books in order.
LEMMA FillBooked ==
  ASSUME BooksInv, NEW f \in Trades, process_fill(f)
  PROVE  BooksInv'
<1> DEFINE i == f.token
           p == positions[i]
           q == p.quantity + QtyDelta(f)
           realized == IF Reduces(p, f) THEN Realized(p, f) ELSE Whole(0)
           new == Booked(p, f, realized)
<1>1. /\ positions' = [positions EXCEPT ![i] = new]
      /\ total_realized_pnl' = Plus(total_realized_pnl, realized)
      /\ available_capital' = available_capital - QtyDelta(f) * f.price
      /\ misstated' = Plus(misstated, Misstated(p, f))
      /\ total_unrealized_pnl' = total_unrealized_pnl /\ carried' = carried
      /\ brought' = brought
  BY DEF process_fill
<1>2. i \in Instruments /\ f.strategy \in StrategyIds
  BY DEF Trades
<1>3. /\ p \in Position /\ p.quantity \in Int /\ p.avg_price \in Rationals
      /\ p.realized_pnl \in Rationals /\ p.unrealized_pnl \in Rationals
  BY <1>2 DEF BooksInv, BooksTypeOK, Position
<1>4. QtyDelta(f) \in Int /\ f.price \in Nat /\ q \in Int
  BY <1>3, QtyDeltaIs
<1>5. /\ realized \in Rationals /\ Misstated(p, f) \in Rationals
      /\ Plus(Whole(-(QtyDelta(f) * f.price)),
              Minus(Times(q, AvgPrice(p, f)), Times(p.quantity, p.avg_price)))
           = Plus(realized, Misstated(p, f))
  BY <1>3, FillBalances
<1>6. AvgPrice(p, f) \in Rationals
  <2>1. PICK n \in Int, d \in Pos : p.avg_price = Ratio(n, d)
    BY <1>3, RationalIs
  <2> QED
    BY <1>3, <2>1, FillCost
<1> HIDE DEF realized, q
<1>7. Plus(p.realized_pnl, realized) \in Rationals
  BY <1>3, <1>5, RationalsClosed
<1>8. /\ new \in Position
      /\ new.quantity = q /\ new.avg_price = AvgPrice(p, f)
      /\ new.realized_pnl = Plus(p.realized_pnl, realized)
      /\ new.unrealized_pnl = p.unrealized_pnl
  BY <1>2, <1>3, <1>4, <1>6, <1>7 DEF Position, Booked, q
<1> HIDE DEF new
<1>9. /\ positions' \in [Instruments -> Position]
      /\ Total(Costs)' = Plus(Total(Costs), Minus(Times(new.quantity, new.avg_price), Costs[i]))
      /\ Total(Gains)' = Plus(Total(Gains), Minus(new.realized_pnl, Gains[i]))
      /\ Total(Marks)' = Plus(Total(Marks), Minus(new.unrealized_pnl, Marks[i]))
  BY <1>1, <1>2, <1>8, PositionBooked DEF BooksInv
<1>10. /\ Costs[i] = Times(p.quantity, p.avg_price)
       /\ Gains[i] = p.realized_pnl /\ Marks[i] = p.unrealized_pnl
  BY <1>2 DEF Costs, Gains, Marks
<1>11. BooksTypeOK'
  <2>1. total_realized_pnl' \in Rationals
    BY <1>1, <1>5, RationalsClosed DEF BooksInv, BooksTypeOK
  <2>2. available_capital' \in Int
    BY <1>1, <1>4 DEF BooksInv, BooksTypeOK
  <2>3. misstated' \in Rationals
    BY <1>1, <1>5, RationalsClosed DEF BooksInv, BooksTypeOK
  <2> QED
    BY <1>1, <1>9, <2>1, <2>2, <2>3 DEF BooksInv, BooksTypeOK
<1>12. Total(Costs) \in Rationals /\ Total(Gains) \in Rationals /\ Total(Marks) \in Rationals
  BY SumsOfBooks DEF BooksInv
<1>13. RealizedAgrees'
  <2>1. Total(Gains)' = Plus(Total(Gains), realized)
    BY <1>3, <1>5, <1>8, <1>9, <1>10, PlusCancels
  <2>2. PICK t, b, r \in Rationals : t = total_realized_pnl /\ b = brought /\ r = realized
    BY <1>5 DEF BooksInv, BooksTypeOK
  <2>3. Total(Gains) = Plus(t, b)
    BY <2>2 DEF BooksInv, RealizedAgrees, Gains
  <2>4. Plus(Plus(t, b), r) = Plus(Plus(t, r), b)
    <3>1. Plus(Plus(t, b), r) = Plus(t, Plus(b, r)) /\ Plus(b, r) = Plus(r, b)
      BY PlusRegroups
    <3>2. Plus(t, Plus(r, b)) = Plus(Plus(t, r), b)
      BY PlusRegroups
    <3> QED
      BY <3>1, <3>2
  <2>5. Plus(total_realized_pnl', brought') = Total(Gains)'
    BY <1>1, <2>1, <2>2, <2>3, <2>4
  <2> QED
    BY <2>5 DEF RealizedAgrees, Gains
<1>14. CashBalances'
  <2> DEFINE base == Plus(Whole(StartingCapital), carried)
             x == -(QtyDelta(f) * f.price)
             D == Minus(Times(q, AvgPrice(p, f)), Times(p.quantity, p.avg_price))
             R == Plus(total_realized_pnl, misstated)
             r == Plus(realized, Misstated(p, f))
  <2>1. /\ total_realized_pnl \in Rationals /\ misstated \in Rationals
        /\ carried \in Rationals /\ available_capital \in Int
    BY DEF BooksInv, BooksTypeOK
  <2>2. Plus(Whole(available_capital), Total(Costs)) = Plus(base, R)
    BY DEF BooksInv, CashBalances, Costs, Cost
  <2>3. base \in Rationals /\ R \in Rationals /\ r \in Rationals
    BY <1>5, <2>1, BooksAssumption, WholeIs, RationalsClosed
  <2>4. D \in Rationals
    BY <1>3, <1>4, <1>6, RationalsClosed
  <2>5. x \in Int /\ available_capital' = available_capital + x
    BY <1>1, <1>4, <2>1
  <2>6. Plus(Whole(x), D) = r
    BY <1>5
  <2>7. Plus(R, r) = Plus(total_realized_pnl', misstated')
    BY <1>1, <1>5, <2>1, PlusInterchanges
  <2>8. Total(Costs)' = Plus(Total(Costs), D)
    BY <1>8, <1>9, <1>10
  <2>9. base = Plus(Whole(StartingCapital), carried')
    BY <1>1
  <2> HIDE DEF base, x, D, R, r
  <2>10. Plus(Whole(available_capital + x), Plus(Total(Costs), D)) = Plus(base, Plus(R, r))
    BY <1>12, <2>1, <2>2, <2>3, <2>4, <2>5, <2>6, BalanceMoves
  <2>11. Plus(Whole(available_capital'), Total(Costs)')
           = Plus(Plus(Whole(StartingCapital), carried'), Plus(total_realized_pnl', misstated'))
    BY <2>5, <2>7, <2>8, <2>9, <2>10
  <2> QED
    BY <2>11 DEF CashBalances, Costs, Cost
<1> QED
  BY <1>11, <1>13, <1>14 DEF BooksInv

\* Prices change neither cash nor cost nor realised result; the unrealised total
\* is added up anew.
LEMMA MarkBooked ==
  ASSUME BooksInv, NEW i \in Instruments, NEW price \in Nat, update_price(i, price)
  PROVE  BooksInv'
<1> DEFINE p == positions[i]
           mark == IF p.quantity # 0 /\ Less(Whole(0), p.avg_price)
                   THEN Times(p.quantity, Minus(Whole(price), p.avg_price))
                   ELSE p.unrealized_pnl
           new == [p EXCEPT !.current_price = price, !.unrealized_pnl = mark]
<1>1. /\ positions' = [positions EXCEPT ![i] = new]
      /\ total_unrealized_pnl' = Total([j \in Instruments |-> positions'[j].unrealized_pnl])
      /\ total_realized_pnl' = total_realized_pnl /\ available_capital' = available_capital
      /\ carried' = carried /\ brought' = brought /\ misstated' = misstated
  BY DEF update_price
<1>2. /\ p \in Position /\ p.quantity \in Int /\ p.avg_price \in Rationals
      /\ p.realized_pnl \in Rationals /\ p.unrealized_pnl \in Rationals
  BY DEF BooksInv, BooksTypeOK, Position
<1>3. mark \in Rationals
  <2>1. Whole(price) \in Rationals
    BY WholeIs
  <2>2. Minus(Whole(price), p.avg_price) \in Rationals
    BY <1>2, <2>1, RationalsClosed
  <2>3. Times(p.quantity, Minus(Whole(price), p.avg_price)) \in Rationals
    BY <1>2, <2>2, RationalsClosed
  <2> QED
    BY <1>2, <2>3
<1> HIDE DEF mark
<1>4. /\ new \in Position /\ new.quantity = p.quantity /\ new.avg_price = p.avg_price
      /\ new.realized_pnl = p.realized_pnl
  BY <1>2, <1>3 DEF Position
<1> HIDE DEF new
<1>5. /\ positions' \in [Instruments -> Position]
      /\ Total(Costs)' = Plus(Total(Costs), Minus(Times(new.quantity, new.avg_price), Costs[i]))
      /\ Total(Gains)' = Plus(Total(Gains), Minus(new.realized_pnl, Gains[i]))
      /\ Total(Marks)' = Plus(Total(Marks), Minus(new.unrealized_pnl, Marks[i]))
  BY <1>1, <1>4, PositionBooked DEF BooksInv
<1>6. /\ Costs[i] = Times(p.quantity, p.avg_price) /\ Costs[i] \in Rationals
      /\ Gains[i] = p.realized_pnl /\ Marks[i] = p.unrealized_pnl
  BY <1>2, RationalsClosed DEF Costs, Gains, Marks
<1>7. Total(Costs) \in Rationals /\ Total(Gains) \in Rationals /\ Total(Marks) \in Rationals
  BY SumsOfBooks DEF BooksInv
<1>8. Total(Costs)' = Total(Costs) /\ Total(Gains)' = Total(Gains)
  BY <1>2, <1>4, <1>5, <1>6, <1>7, PlusCancels
<1>9. total_unrealized_pnl' = Total(Marks)'
  BY <1>1 DEF Marks
<1>10. Total(Marks)' \in Rationals
  <2>1. new.unrealized_pnl \in Rationals /\ Marks[i] \in Rationals
    BY <1>2, <1>4, <1>6 DEF Position
  <2> QED
    BY <1>5, <1>7, <2>1, RationalsClosed
<1>11. BooksTypeOK'
  BY <1>1, <1>5, <1>9, <1>10 DEF BooksInv, BooksTypeOK
<1>12. RealizedAgrees'
  BY <1>1, <1>8 DEF BooksInv, RealizedAgrees, Gains
<1>13. CashBalances'
  BY <1>1, <1>8 DEF BooksInv, CashBalances, Costs, Cost
<1> QED
  BY <1>11, <1>12, <1>13 DEF BooksInv

\* A reported position is carried at its cost and brings its result.
LEMMA LoadBooked ==
  ASSUME BooksInv, NEW i \in Instruments, NEW p \in Position, load_positions(i, p)
  PROVE  BooksInv'
<1> DEFINE w == Minus(Times(p.quantity, p.avg_price), Costs[i])
           v == Minus(p.realized_pnl, Gains[i])
<1>1. /\ positions' = [positions EXCEPT ![i] = p]
      /\ carried' = Plus(carried, w) /\ brought' = Plus(brought, v)
      /\ total_realized_pnl' = total_realized_pnl /\ available_capital' = available_capital
      /\ total_unrealized_pnl' = total_unrealized_pnl /\ misstated' = misstated
  BY DEF load_positions, Cost, Costs, Gains
<1>2. /\ positions' \in [Instruments -> Position]
      /\ Total(Costs)' = Plus(Total(Costs), w)
      /\ Total(Gains)' = Plus(Total(Gains), v)
  BY <1>1, PositionBooked DEF BooksInv
<1>3. /\ Costs[i] \in Rationals /\ Gains[i] \in Rationals
      /\ Total(Costs) \in Rationals /\ Total(Gains) \in Rationals
  BY SumsOfBooks DEF BooksInv
<1>4. w \in Rationals /\ v \in Rationals
  <2>1. p.quantity \in Int /\ p.avg_price \in Rationals /\ p.realized_pnl \in Rationals
    BY DEF Position
  <2>2. Times(p.quantity, p.avg_price) \in Rationals
    BY <2>1, RationalsClosed
  <2> QED
    BY <1>3, <2>1, <2>2, RationalsClosed
<1> HIDE DEF w, v
<1>5. BooksTypeOK'
  <2>1. carried' \in Rationals /\ brought' \in Rationals
    BY <1>1, <1>4, RationalsClosed DEF BooksInv, BooksTypeOK
  <2> QED
    BY <1>1, <1>2, <2>1 DEF BooksInv, BooksTypeOK
<1>6. RealizedAgrees'
  <2>1. PICK t, b \in Rationals : t = total_realized_pnl /\ b = brought
    BY DEF BooksInv, BooksTypeOK
  <2>2. Total(Gains) = Plus(t, b)
    BY <2>1 DEF BooksInv, RealizedAgrees, Gains
  <2>3. Plus(Plus(t, b), v) = Plus(t, Plus(b, v))
    BY <1>4, PlusRegroups
  <2>4. Plus(total_realized_pnl', brought') = Total(Gains)'
    BY <1>1, <1>2, <2>1, <2>2, <2>3
  <2> QED
    BY <2>4 DEF RealizedAgrees, Gains
<1>7. CashBalances'
  <2>1. PICK a, s, T, c, R \in Rationals :
          /\ a = Whole(available_capital) /\ s = Whole(StartingCapital)
          /\ T = Total(Costs) /\ c = carried /\ R = Plus(total_realized_pnl, misstated)
    BY <1>3, BooksAssumption, WholeIs, RationalsClosed DEF BooksInv, BooksTypeOK
  <2>2. Plus(a, T) = Plus(Plus(s, c), R)
    BY <2>1 DEF BooksInv, CashBalances, Costs, Cost
  <2>3. Plus(a, Plus(T, w)) = Plus(Plus(Plus(s, c), R), w)
    BY <1>4, <2>2, PlusRegroups
  <2>4. Plus(s, c) \in Rationals
    BY RationalsClosed
  <2>5. Plus(Plus(Plus(s, c), R), w) = Plus(Plus(s, c), Plus(w, R))
    BY <1>4, <2>4, PlusRegroups
  <2>6. Plus(Plus(s, c), Plus(w, R)) = Plus(Plus(Plus(s, c), w), R)
    BY <1>4, <2>4, PlusRegroups
  <2>7. Plus(Plus(s, c), w) = Plus(s, Plus(c, w))
    BY <1>4, PlusRegroups
  <2>8. Plus(Whole(available_capital'), Total(Costs)')
          = Plus(Plus(Whole(StartingCapital), carried'), Plus(total_realized_pnl', misstated'))
    BY <1>1, <1>2, <2>1, <2>3, <2>5, <2>6, <2>7
  <2> QED
    BY <2>8 DEF CashBalances, Costs, Cost
<1> QED
  BY <1>5, <1>6, <1>7 DEF BooksInv

\* The books start in order ...
LEMMA BooksInit == ExposureInit => BooksInv
<1> SUFFICES ASSUME ExposureInit PROVE BooksInv
  OBVIOUS
<1>1. PortfolioInit
  BY DEF ExposureInit
<1>2. Whole(0) \in Rationals /\ Whole(StartingCapital) \in Rationals
  BY BooksAssumption, WholeIs
<1>3. Flat \in Position /\ Flat.quantity = 0 /\ Flat.avg_price = Whole(0)
      /\ Flat.realized_pnl = Whole(0) /\ Flat.unrealized_pnl = Whole(0)
  BY <1>2 DEF Flat, Position
<1>4. BooksTypeOK
  BY <1>1, <1>2, <1>3, BooksAssumption DEF PortfolioInit, BooksTypeOK
<1>5. Times(0, Whole(0)) = Whole(0)
  BY <1>2, PlusCancels
<1>6. \A i \in Instruments :
        Costs[i] = Whole(0) /\ Gains[i] = Whole(0) /\ Marks[i] = Whole(0)
  BY <1>1, <1>3, <1>5 DEF PortfolioInit, Costs, Gains, Marks
<1>7. Total(Costs) = Whole(0) /\ Total(Gains) = Whole(0) /\ Total(Marks) = Whole(0)
  BY <1>4, <1>6, SumsOfBooks, TotalZero, BooksAssumption
<1>8. RealizedAgrees
  BY <1>1, <1>2, <1>7, PlusCancels DEF PortfolioInit, RealizedAgrees, Gains
<1>9. Plus(Whole(StartingCapital), Whole(0))
        = Plus(Plus(Whole(StartingCapital), Whole(0)), Plus(Whole(0), Whole(0)))
  BY <1>2, PlusCancels
<1>10. CashBalances
  BY <1>1, <1>7, <1>9 DEF PortfolioInit, CashBalances, Costs, Cost
<1> QED
  BY <1>4, <1>8, <1>10 DEF BooksInv

\* ... and every step keeps them so: only fills, marks and loads touch them.
LEMMA BooksStep == ExposureTypeOK /\ BooksInv /\ [ExposureNext]_exposureVars => BooksInv'
<1> SUFFICES ASSUME ExposureTypeOK, BooksInv, [ExposureNext]_exposureVars PROVE BooksInv'
  OBVIOUS
<1>1. ASSUME UNCHANGED books PROVE BooksInv'
  BY <1>1 DEF books, BooksInv, BooksTypeOK, CashBalances, RealizedAgrees
<1>2. CASE ProcessFill
  <2>1. Head(fills) \in Trades
    BY <1>2 DEF ExposureTypeOK, ProcessFill
  <2> QED
    BY <1>2, <2>1, FillBooked DEF ProcessFill
<1>3. ASSUME NEW i \in Instruments, NEW price \in Prices, MarkToMarket(i, price)
      PROVE  BooksInv'
  <2>1. price \in Nat
    BY TradeAssumption
  <2> QED
    BY <1>3, <2>1, MarkBooked DEF MarkToMarket
<1>4. ASSUME NEW i \in Instruments, NEW a \in Carried, StartOfDay(i, a)
      PROVE  BooksInv'
  <2>1. /\ a.quantity \in Int /\ a.avg_price \in Nat /\ a.current_price \in Nat
        /\ a.realized_pnl \in Int /\ a.unrealized_pnl \in Int
    BY TradeAssumption
  <2>2. /\ Whole(a.avg_price) \in Rationals /\ Whole(a.realized_pnl) \in Rationals
        /\ Whole(a.unrealized_pnl) \in Rationals
    BY <2>1, WholeIs
  <2>3. Reported(a) \in Position
    BY <2>1, <2>2 DEF Reported, Position
  <2> QED
    BY <1>4, <2>3, LoadBooked DEF StartOfDay
<1>5. ASSUME NEW s \in Slots, SubmitCall(s) PROVE UNCHANGED books
  BY <1>5 DEF SubmitCall, GetSnapshot, CheckPasses, CheckRejects, OmsSubmit
<1>6. ASSUME NEW o \in working,
             OrderGone(o) \/ \E qty \in Quantities, price \in Prices : OrderFilled(o, qty, price)
      PROVE  UNCHANGED books
  BY <1>6 DEF OrderGone, OrderFilled
<1>7. ASSUME NEW i \in Instruments, NEW price \in Prices, RiskUpdatePrice(i, price)
      PROVE  UNCHANGED books
  BY <1>7 DEF RiskUpdatePrice
<1>8. CASE UNCHANGED exposureVars
  BY <1>1, <1>8 DEF exposureVars
<1> QED
  BY <1>1, <1>2, <1>3, <1>4, <1>5, <1>6, <1>7, <1>8 DEF ExposureNext, Market

\* The invariant of the books.
LEMMA BooksInvariant == ExposureSpec => []BooksInv
<1>1. ExposureInv => ExposureTypeOK
  BY DEF ExposureInv
<1> QED
  BY <1>1, BooksInit, BooksStep, ExposureInvariant, PTL DEF ExposureSpec

\* Whatever is traded, at whatever prices, by any number of strategies: cash and cost
\* are accounted for by start, reported positions (load_positions), results and what
\* fills through zero misstate; and the realised total process_fill keeps is the sum
\* of the positions' results, less what reported positions came with.
THEOREM BooksAreBalanced == ExposureSpec => []BooksBalance
<1>1. BooksInv => BooksBalance
  BY DEF BooksInv, BooksBalance
<1> QED
  BY <1>1, BooksInvariant, PTL

\* When nothing is held, cash has changed by what was carried and what was earned.
ClosedBooksShowCash ==
  (\A i \in Instruments : positions[i].quantity = 0) =>
    Whole(available_capital - StartingCapital)
      = Plus(carried, Plus(total_realized_pnl, misstated))

\* With every position closed, what was realised is what the cash shows, whatever the
\* order and the prices of the fills (process_fill), up to what fills through zero misstate.
THEOREM ClosedBooksCorrect == ExposureSpec => []ClosedBooksShowCash
<1>1. BooksInv => ClosedBooksShowCash
  <2> SUFFICES ASSUME BooksInv, \A i \in Instruments : positions[i].quantity = 0
               PROVE  Whole(available_capital - StartingCapital)
                        = Plus(carried, Plus(total_realized_pnl, misstated))
    BY DEF ClosedBooksShowCash
  <2>1. Total(Costs) = Whole(0)
    <3>1. Costs \in [Instruments -> Rationals]
      BY SumsOfBooks DEF BooksInv
    <3>2. ASSUME NEW i \in Instruments PROVE Costs[i] = Whole(0)
      <4>1. positions[i].avg_price \in Rationals
        BY DEF BooksInv, BooksTypeOK, Position
      <4>2. Times(0, positions[i].avg_price) = Whole(0)
        BY <4>1, PlusCancels
      <4> QED
        BY <4>2 DEF Costs
    <3> QED
      BY <3>1, <3>2, TotalZero, BooksAssumption
  <2>2. PICK cash \in Int, start \in Int, c \in Rationals, R \in Rationals :
          /\ cash = available_capital /\ start = StartingCapital
          /\ c = carried /\ R = Plus(total_realized_pnl, misstated)
    BY BooksAssumption, RationalsClosed DEF BooksInv, BooksTypeOK
  <2>3. Whole(cash) \in Rationals /\ Whole(start) \in Rationals /\ Plus(c, R) \in Rationals
    BY WholeIs, RationalsClosed
  <2>4. Whole(cash) = Plus(Plus(Whole(start), c), R)
    <3>1. Plus(Whole(cash), Whole(0)) = Plus(Plus(Whole(start), c), R)
      BY <2>1, <2>2 DEF BooksInv, CashBalances, Costs, Cost
    <3> QED
      BY <2>3, <3>1, PlusCancels
  <2>5. Whole(cash) = Plus(Whole(start), Plus(c, R))
    BY <2>3, <2>4, PlusRegroups
  <2>6. Minus(Whole(cash), Whole(start)) = Plus(c, R)
    BY <2>3, <2>5, PlusCancels
  <2>7. Minus(Whole(cash), Whole(start)) = Whole(cash - start)
    <3>1. 1 \in Pos /\ cash - start \in Int
      BY DEF Pos
    <3>2. /\ Whole(cash) = Ratio(cash, 1) /\ Whole(start) = Ratio(start, 1)
          /\ Whole(cash - start) = Ratio(cash - start, 1)
      BY <3>1, WholeIs
    <3>3. Minus(Ratio(cash, 1), Ratio(start, 1)) = Ratio(cash - start, 1)
      BY <3>1, MinusRatio
    <3> QED
      BY <3>2, <3>3
  <2> QED
    BY <2>2, <2>6, <2>7
<1> QED
  BY <1>1, BooksInvariant, PTL
=============================================================================
