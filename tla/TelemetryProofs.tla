--------------------------- MODULE TelemetryProofs ---------------------------
(***************************************************************************)
(* Proofs about Telemetry, for every set of requests, every owner and any  *)
(* number of months.  Time only observes Outbound, so what is proved of    *)
(* Outbound holds here; on top of it come the counters of Status and the   *)
(* monthly counter.                                                        *)
(***************************************************************************)
EXTENDS Telemetry, OutboundFaultlessProofs, WellFoundedInduction

USE DEF Requests, Months

-----------------------------------------------------------------------------
(* A sum over months is a recursive function; what it computes is proved   *)
(* by a smallest counterexample.                                           *)

\* A set of numbers has a least one.
LEMMA NatLeast ==
  ASSUME NEW S \in SUBSET Nat, S # {}
  PROVE  \E n \in S : \A m \in S : n <= m
<1> DEFINE T == {0..n : n \in S}
           R == StrictSubsetOrdering(Nat)
<1>1. T \subseteq FiniteSubsetsOf(Nat)
  <2>1. ASSUME NEW n \in S PROVE IsFiniteSet(0..n) /\ 0..n \subseteq Nat
    BY FS_Interval
  <2>2. QED BY <2>1 DEF FiniteSubsetsOf
<1>2. T # {}
  OBVIOUS
<1>3. IsWellFoundedOn(R, FiniteSubsetsOf(Nat))
  BY FS_StrictSubsetOrderingWellFounded
<1>4. PICK x \in T : \A y \in T : ~ (<<y, x>> \in R)
  <2> HIDE DEF R, T
  <2>1. QED BY <1>1, <1>2, <1>3, WFMin
<1>5. PICK n \in S : x = 0..n
  OBVIOUS
<1>6. ASSUME NEW m \in S, m < n PROVE FALSE
  <2>1. /\ 0..m \subseteq 0..n /\ n \in 0..n /\ n \notin 0..m
        /\ 0..n \subseteq Nat /\ 0..m \subseteq Nat
    BY <1>6
  <2>2. <<0..m, 0..n>> \in R
    BY <2>1 DEF StrictSubsetOrdering
  <2>3. QED BY <2>2, <1>4, <1>5
<1>7. QED BY <1>6

\* The sums of f up to each number up to m, as CountedBy defines them.
IsSums(g, f, m) == g = [k \in 0..m |-> f[k] + (IF k = 0 THEN 0 ELSE g[k - 1])]
SumTo(f, m) == LET sum[k \in 0..m] == f[k] + (IF k = 0 THEN 0 ELSE sum[k - 1]) IN sum[m]

LEMMA SumsExist ==
  ASSUME NEW M \in Nat, NEW f \in [0..M -> Nat], NEW m \in 0..M
  PROVE  \E g \in [0..m -> Nat] : IsSums(g, f, m)
<1> DEFINE Bad == {k \in 0..M : ~ \E g \in [0..k -> Nat] : IsSums(g, f, k)}
<1> SUFFICES ASSUME Bad # {} PROVE FALSE
  OBVIOUS
<1>1. PICK n \in Bad : \A k \in Bad : n <= k
  <2>1. Bad \in SUBSET Nat
    OBVIOUS
  <2> HIDE DEF Bad
  <2>2. QED BY <2>1, NatLeast
<1>2. CASE n = 0
  <2> DEFINE g == [k \in 0..0 |-> f[k]]
  <2>1. g \in [0..0 -> Nat] /\ IsSums(g, f, 0)
    BY DEF IsSums
  <2>2. QED BY <1>1, <1>2, <2>1
<1>3. CASE n # 0
  <2>1. n \in Nat /\ n - 1 \in 0..M /\ n - 1 \notin Bad
    <3>1. n \in 0..M
      OBVIOUS
    <3>2. n \in Nat /\ n - 1 \in 0..M /\ ~ (n <= n - 1)
      BY <1>3, <3>1
    <3> HIDE DEF Bad
    <3>3. QED BY <1>1, <3>2
  <2>2. PICK h \in [0..(n - 1) -> Nat] : IsSums(h, f, n - 1)
    BY <2>1
  <2> DEFINE g == [k \in 0..n |-> IF k = n THEN f[n] + h[n - 1] ELSE h[k]]
  <2>3. g \in [0..n -> Nat]
    BY <1>3, <2>1
  <2>4. ASSUME NEW k \in 0..n PROVE g[k] = f[k] + (IF k = 0 THEN 0 ELSE g[k - 1])
    <3>1. CASE k = n
      <4>1. g[n] = f[n] + h[n - 1] /\ n - 1 # n /\ n - 1 \in 0..n
        BY <1>3, <2>1
      <4>2. g[n - 1] = h[n - 1]
        BY <4>1
      <4>3. QED BY <1>3, <3>1, <4>1, <4>2
    <3>2. CASE k # n
      <4>1. k \in 0..(n - 1) /\ g[k] = h[k]
        BY <2>1, <3>2
      <4>2. h[k] = f[k] + (IF k = 0 THEN 0 ELSE h[k - 1])
        BY <2>2, <4>1 DEF IsSums
      <4>3. k # 0 => g[k - 1] = h[k - 1]
        BY <2>1, <3>2, <4>1
      <4>4. QED BY <4>1, <4>2, <4>3
    <3>3. QED BY <3>1, <3>2
  <2>5. IsSums(g, f, n)
    BY <2>3, <2>4 DEF IsSums
  <2>6. QED BY <1>1, <2>3, <2>5
<1>4. QED BY <1>2, <1>3

LEMMA SumToIsSums ==
  ASSUME NEW M \in Nat, NEW f \in [0..M -> Nat], NEW m \in 0..M
  PROVE  \E g : IsSums(g, f, m) /\ SumTo(f, m) = g[m]
<1> DEFINE s == CHOOSE g : IsSums(g, f, m)
<1>1. IsSums(s, f, m)
  BY SumsExist
<1>2. SumTo(f, m) = s[m]
  BY DEF SumTo, IsSums
<1>3. QED BY <1>1, <1>2

\* Sums of functions that agree agree.
LEMMA SumsAgree ==
  ASSUME NEW m \in Nat, NEW n \in Nat, m <= n,
         NEW e, NEW f, \A k \in 0..m : e[k] = f[k],
         NEW g, IsSums(g, e, m), NEW h, IsSums(h, f, n)
  PROVE  g[m] = h[m]
<1> DEFINE Bad == {k \in 0..m : g[k] # h[k]}
<1> SUFFICES ASSUME Bad # {} PROVE FALSE
  OBVIOUS
<1>1. PICK k \in Bad : \A j \in Bad : k <= j
  <2>1. Bad \in SUBSET Nat
    OBVIOUS
  <2> HIDE DEF Bad
  <2>2. QED BY <2>1, NatLeast
<1>2. /\ k \in 0..n /\ k \in Nat
      /\ g[k] = e[k] + (IF k = 0 THEN 0 ELSE g[k - 1])
      /\ h[k] = f[k] + (IF k = 0 THEN 0 ELSE h[k - 1])
  BY DEF IsSums
<1>3. k # 0 => g[k - 1] = h[k - 1]
  BY <1>1, <1>2
<1>4. QED BY <1>2, <1>3

\* What SumTo computes.
LEMMA SumToStep ==
  ASSUME NEW M \in Nat, NEW f \in [0..M -> Nat], NEW m \in 0..M
  PROVE  /\ SumTo(f, m) \in Nat
         /\ SumTo(f, 0) = f[0]
         /\ m # 0 => SumTo(f, m) = SumTo(f, m - 1) + f[m]
<1>1. PICK g : IsSums(g, f, m) /\ SumTo(f, m) = g[m]
  BY SumToIsSums
<1>2. PICK h \in [0..m -> Nat] : IsSums(h, f, m)
  BY SumsExist
<1>3. g[m] = h[m]
  BY <1>1, <1>2, SumsAgree
<1>4. SumTo(f, 0) = f[0]
  <2>1. PICK z : IsSums(z, f, 0) /\ SumTo(f, 0) = z[0]
    BY SumToIsSums
  <2>2. QED BY <2>1 DEF IsSums
<1>5. ASSUME m # 0 PROVE SumTo(f, m) = SumTo(f, m - 1) + f[m]
  <2>1. m - 1 \in 0..M
    BY <1>5
  <2>2. PICK l : IsSums(l, f, m - 1) /\ SumTo(f, m - 1) = l[m - 1]
    BY <2>1, SumToIsSums
  <2>3. l[m - 1] = h[m - 1]
    <3>1. m \in Nat /\ m - 1 \in Nat /\ m - 1 <= m /\ \A k \in 0..(m - 1) : f[k] = f[k]
      BY <2>1
    <3>2. QED BY <1>2, <2>2, <3>1, SumsAgree
  <2>4. h[m] = f[m] + h[m - 1]
    BY <1>2, <1>5 DEF IsSums
  <2>5. QED BY <1>1, <1>3, <2>1, <2>2, <2>3, <2>4
<1>6. QED BY <1>1, <1>3, <1>4, <1>5

\* One more in month c is one more in the sums from c on, and in no other.
LEMMA SumToAdd ==
  ASSUME NEW f \in [0..MaxClock -> Nat], NEW e \in [0..MaxClock -> Nat],
         NEW c \in 0..MaxClock, NEW m \in 0..MaxClock,
         \A j \in 0..MaxClock : e[j] = IF j = c THEN f[j] + 1 ELSE f[j]
  PROVE  SumTo(e, m) = SumTo(f, m) + (IF c <= m THEN 1 ELSE 0)
<1> USE ClockAssumption
<1> DEFINE Bad == {k \in 0..MaxClock : SumTo(e, k) # SumTo(f, k) + (IF c <= k THEN 1 ELSE 0)}
<1> SUFFICES ASSUME Bad # {} PROVE FALSE
  OBVIOUS
<1>1. PICK k \in Bad : \A j \in Bad : k <= j
  <2>1. Bad \in SUBSET Nat
    OBVIOUS
  <2> HIDE DEF Bad
  <2>2. QED BY <2>1, NatLeast
<1>2. /\ k \in 0..MaxClock /\ k \in Nat
      /\ SumTo(e, k) # SumTo(f, k) + (IF c <= k THEN 1 ELSE 0)
      /\ e[k] = IF k = c THEN f[k] + 1 ELSE f[k]
  OBVIOUS
<1>3. CASE k = 0
  <2>1. SumTo(e, 0) = e[0] /\ SumTo(f, 0) = f[0]
    BY SumToStep
  <2>2. c <= 0 <=> c = 0
    OBVIOUS
  <2>3. f[0] \in Nat
    OBVIOUS
  <2> HIDE DEF Bad
  <2>4. QED BY <1>2, <1>3, <2>1, <2>2, <2>3
<1>4. CASE k # 0
  <2>1. k - 1 \in 0..MaxClock /\ ~ (k <= k - 1)
    BY <1>2, <1>4
  <2>2. SumTo(e, k - 1) = SumTo(f, k - 1) + (IF c <= k - 1 THEN 1 ELSE 0)
    BY <1>1, <2>1
  <2>3. /\ SumTo(e, k) = SumTo(e, k - 1) + e[k] /\ SumTo(f, k) = SumTo(f, k - 1) + f[k]
        /\ SumTo(f, k - 1) \in Nat /\ f[k] \in Nat
    BY <1>2, <1>4, <2>1, SumToStep
  <2>4. c \in Nat
    OBVIOUS
  <2> HIDE DEF Bad
  <2>5. QED BY <1>2, <2>2, <2>3, <2>4
<1>5. QED BY <1>3, <1>4

-----------------------------------------------------------------------------
(* Time observes Outbound and does not take part.                          *)

LEMMA StepIsOutbounds == [TelemetryNext]_allVars => [Next]_vars
BY DEF TelemetryNext, allVars, Tick, vars

\* Telemetry is Outbound with a clock: every run of it is one of Outbound, so
\* what is proved of the trail, the answers and the counter holds in it.
THEOREM TimeOnlyObserves == TelemetrySpec => Spec
<1>1. TelemetryInit => Init
  BY DEF TelemetryInit
<1>2. QED BY <1>1, StepIsOutbounds, PTL DEF TelemetrySpec, Spec

\* Time, the month of each entry, the counters and the ghosts have their types.
TypesInv == IInv /\ TelemetryTypeOK

LEMMA TypesInit == TelemetryInit => TypesInv
BY InitInv, ClockAssumption DEF TelemetryInit, TypesInv, TelemetryTypeOK

\* A step that counts adds to one month of one integration; no other step
\* touches the monthly counters.
LEMMA MonthlySteps ==
  ASSUME IInv, TelemetryTypeOK, Next, Observe
  PROVE  \/ \E r \in Requests, n \in Nat : \E m \in SentMonths(r) \cap Months :
              /\ CountSent(r)
              /\ ~DbFaults => n = 1
              /\ monthly' = [monthly EXCEPT ![req[r].integration][m] = @ + n]
         \/ UNCHANGED monthly /\ \A r \in Requests : ~CountSent(r)
<1>0. /\ sentCount \in [Integrations -> Nat] /\ req \in [Requests -> Input]
      /\ monthly \in [Integrations -> [Months -> Nat]]
      /\ startedAt \in [Requests -> Months] /\ clock \in Months
      /\ counting \subseteq Requests
  BY DEF IInv, TypeOK, TelemetryTypeOK
<1>1. ASSUME NEW r \in Requests, CountSent(r)
      PROVE  \E n \in Nat : \E m \in SentMonths(r) \cap Months :
               /\ ~DbFaults => n = 1
               /\ monthly' = [monthly EXCEPT ![req[r].integration][m] = @ + n]
  <2> DEFINE i == req[r].integration
  <2>1. PICK n \in Nat : /\ sentCount' = [sentCount EXCEPT ![i] = @ + n]
                         /\ ~DbFaults => n = 1
    <3>1. (IF DbFaults THEN 0 .. 1 + RedisRetries ELSE {1}) \subseteq Nat
      BY DEF RedisRetries
    <3>2. QED BY <1>1, <3>1 DEF CountSent
  <2>2. /\ r \in counting /\ counting' = counting \ {r} /\ i \in Integrations
    BY <1>0, <1>1 DEF CountSent, Input
  <2>3. sentCount'[i] - sentCount[i] = n
    BY <1>0, <2>1, <2>2
  <2>4. PICK m \in SentMonths(r) :
          monthly' = [monthly EXCEPT ![i][m] = @ + (sentCount'[i] - sentCount[i])]
    BY <2>2 DEF Observe, Count
  <2>5. m \in Months
    BY <1>0, <2>4, ClockAssumption DEF SentMonths
  <2>6. QED BY <2>1, <2>3, <2>4, <2>5
<1>2. ASSUME \A r \in Requests : ~CountSent(r) PROVE UNCHANGED monthly
  <2>1. UNCHANGED sentCount /\ (counting \subseteq counting' \/ Crash)
    BY <1>2 DEF Next, Step, Receive, Lookup, RejectAndAudit, AppendAccepted, Prepare,
     ProviderAccepts, DispatchOk, DispatchFailed, MarkSentStep, MarkFailedStep,
     StatusUpdate, DeleteIntegration, Crash, Metrics
  <2>2. ASSUME NEW r \in counting \ counting', NEW m \in SentMonths(r),
               monthly' = [monthly EXCEPT ![req[r].integration][m] =
                             @ + (sentCount'[req[r].integration] - sentCount[req[r].integration])]
        PROVE  UNCHANGED monthly
    <3> DEFINE i == req[r].integration
    <3>1. i \in Integrations /\ m \in Months
      BY <1>0, <2>2, ClockAssumption DEF SentMonths, Input
    <3>2. monthly[i][m] \in Nat /\ sentCount[i] \in Nat /\ sentCount'[i] = sentCount[i]
      BY <1>0, <2>1, <3>1
    <3>3. monthly[i][m] + (sentCount'[i] - sentCount[i]) = monthly[i][m]
      BY <3>2
    <3>4. monthly' = [monthly EXCEPT ![i][m] = monthly[i][m]]
      BY <2>2, <3>3
    <3>5. QED BY <1>0, <3>1, <3>4
  <2>3. QED BY <2>2 DEF Observe, Count
<1>3. CASE \E r \in Requests : CountSent(r)
  <2>1. PICK r \in Requests : CountSent(r)
    BY <1>3
  <2>2. PICK n \in Nat : \E m \in SentMonths(r) \cap Months :
               /\ ~DbFaults => n = 1
               /\ monthly' = [monthly EXCEPT ![req[r].integration][m] = @ + n]
    BY <1>1, <2>1
  <2>3. PICK m \in SentMonths(r) \cap Months :
               /\ ~DbFaults => n = 1
               /\ monthly' = [monthly EXCEPT ![req[r].integration][m] = @ + n]
    BY <2>2
  <2>4. QED BY <2>1, <2>3
<1>4. QED BY <1>2, <1>3

LEMMA TypesNext == TypesInv /\ [TelemetryNext]_allVars => TypesInv'
<1> SUFFICES ASSUME TypesInv, [TelemetryNext]_allVars PROVE TypesInv'
  OBVIOUS
<1>0. IInv /\ TelemetryTypeOK /\ [Next]_vars /\ IInv'
  BY StepIsOutbounds, NextInv DEF TypesInv
<1>1. CASE UNCHANGED allVars
  BY <1>0, <1>1 DEF allVars, telemetryVars, TypesInv, TelemetryTypeOK
<1>2. CASE Tick
  BY <1>0, <1>2, ClockAssumption DEF Tick, telemetryVars, TypesInv, TelemetryTypeOK
<1>3. CASE Next /\ Observe
  <2>1. clock' \in Months /\ createdAt' \in [Requests -> Months]
        /\ takenAt' \in [Requests -> Months] /\ startedAt' \in [Requests -> Months]
    BY <1>0, <1>3 DEF Observe, Stamp, TelemetryTypeOK
  <2>2. /\ monthly \in [Integrations -> [Months -> Nat]] /\ req \in [Requests -> Input]
        /\ \A r \in Requests : req[r].integration \in Integrations
    BY <1>0 DEF IInv, TypeOK, Input, TelemetryTypeOK
  <2>3. monthly' \in [Integrations -> [Months -> Nat]]
    <3>1. CASE UNCHANGED monthly
      BY <2>2, <3>1
    <3>2. ASSUME NEW i \in Integrations, NEW n \in Nat, NEW m \in Months,
                 monthly' = [monthly EXCEPT ![i][m] = @ + n]
          PROVE  monthly' \in [Integrations -> [Months -> Nat]]
      <4>0. monthly[i] \in [Months -> Nat] /\ monthly[i][m] \in Nat
        BY <2>2
      <4>1. monthly[i] \in [Months -> Nat] /\ monthly[i][m] + n \in Nat
        BY <4>0
      <4>2. monthly' = [monthly EXCEPT ![i] = [monthly[i] EXCEPT ![m] = monthly[i][m] + n]]
        BY <2>2, <3>2
      <4>3. [monthly[i] EXCEPT ![m] = monthly[i][m] + n] \in [Months -> Nat]
        BY <4>1
      <4>4. QED BY <2>2, <4>2, <4>3
    <3>3. QED BY <1>0, <1>3, <2>2, <3>1, <3>2, MonthlySteps
  <2>4. QED BY <1>0, <2>1, <2>3 DEF TypesInv, TelemetryTypeOK
<1>4. QED BY <1>1, <1>2, <1>3 DEF TelemetryNext

THEOREM TelemetryTypeCorrect == TelemetrySpec => []TelemetryTypeOK
<1>1. TypesInv => TelemetryTypeOK
  BY DEF TypesInv
<1>2. QED BY <1>1, TypesInit, TypesNext, PTL DEF TelemetrySpec

-----------------------------------------------------------------------------
\* What Status counts as sent it keeps counting: a receipt moves the entry on
\* within what counts, the entry keeps its integration, direction and time,
\* and only the deletion of its own integration takes it away.
THEOREM SentOnlyGrows == TelemetrySpec => SentNeverDrops
<1>1. TypesInv /\ [TelemetryNext]_allVars => [SentStays]_allVars
  <2> SUFFICES ASSUME TypesInv, [TelemetryNext]_allVars,
                      NEW i \in rows \cap rows', NEW since \in Months,
                      NEW r \in Sent(i, since)
               PROVE  r \in Sent(i, since)'
    BY DEF SentStays
  <2>1. /\ IInv /\ IInv' /\ [Next]_vars
        /\ r \in Requests /\ audit[r].integration = i /\ createdAt[r] >= since
        /\ audit[r].status \in {"sent", "delivered", "read"}
    BY StepIsOutbounds, NextInv DEF TypesInv, Sent, Outbounds
  <2>2. /\ req[r].integration = i /\ i \in rows' /\ PcInv(r) /\ RowInv(r)'
        /\ req \in [Requests -> Input]
    BY <2>1 DEF IInv, RowInv, Present, TypeOK
  <2>3. UNCHANGED req
    BY <2>1 DEF Next, vars, Step, Receive, Lookup, RejectAndAudit, AppendAccepted, Prepare,
       ProviderAccepts, DispatchOk, DispatchFailed, MarkSentStep, MarkFailedStep, CountSent,
       StatusUpdate, DeleteIntegration, Crash, World
  <2>4. audit'[r].status \in {"sent", "delivered", "read"}
    BY <2>1, <2>2, NextAdvances DEF Advances, Forward
  <2>5. audit'[r].integration = i /\ audit'[r].direction = "outbound"
    BY <2>2, <2>3, <2>4 DEF RowInv, Present
  <2>6. createdAt'[r] = createdAt[r]
    <3>1. pc[r] # "lookup"
      BY <2>1, <2>2 DEF PcInv, NoRow
    <3>2. createdAt \in [Requests -> Months]
      BY DEF TypesInv, TelemetryTypeOK
    <3>3. QED
      BY <2>1, <3>1, <3>2 DEF TelemetryNext, Observe, Stamp, Tick, allVars, telemetryVars
  <2>7. QED BY <2>1, <2>4, <2>5, <2>6 DEF Sent, Outbounds
<1>2. QED BY <1>1, TypesInit, TypesNext, PTL DEF TelemetrySpec, SentNeverDrops

-----------------------------------------------------------------------------
\* A goroutine that has come to its end has an answer.
AnsweredInv == \A r \in Requests : pc[r] \in {"markfailed", "done"} => answer[r] # "none"

AccountIInv == SettledIInv /\ TypesInv /\ AnsweredInv

LEMMA AnsweredNext == IInv /\ AnsweredInv /\ [Next]_vars => AnsweredInv'
<1> SUFFICES ASSUME IInv, AnsweredInv, [Next]_vars, NEW q \in Requests,
                    pc'[q] \in {"markfailed", "done"}
             PROVE  answer'[q] # "none"
  BY DEF AnsweredInv
<1>0. /\ pc \in [Requests -> Active \cup {"idle", "done", "crashed"}]
      /\ answer \in [Requests -> Answer]
      /\ pc[q] \in {"markfailed", "done"} => answer[q] # "none"
      /\ CheckedInv(q)
  BY DEF IInv, TypeOK, AnsweredInv
<1>1. ASSUME NEW r \in Requests, Step(r) PROVE answer'[q] # "none"
  <2>1. CASE q # r
    BY <1>0, <1>1, <2>1, OwnStep DEF IInv
  <2>2. CASE q = r
    BY <1>0, <1>1, <2>2 DEF CheckedInv, Step, Lookup, RejectAndAudit, AppendAccepted, Prepare,
       DispatchOk, DispatchFailed, MarkSentStep, MarkFailedStep, GoTo, Finish
  <2>3. QED BY <2>1, <2>2
<1>2. CASE (\E r \in Requests : Receive(r)) \/ Crash
  BY <1>0, <1>2 DEF Receive, Crash, Active, GoTo
<1>3. CASE UNCHANGED <<pc, answer>>
  BY <1>0, <1>3
<1>4. QED
  BY <1>1, <1>2, <1>3 DEF Next, vars, ProviderAccepts, CountSent, StatusUpdate,
     DeleteIntegration

LEMMA AccountNext == ~DbFaults /\ AccountIInv /\ [TelemetryNext]_allVars => AccountIInv'
BY StepIsOutbounds, SettledNext, TypesNext, AnsweredNext DEF AccountIInv, TypesInv

LEMMA AccountInit == TelemetryInit => AccountIInv
BY SettledInit, TypesInit DEF TelemetryInit, Init, AccountIInv, AnsweredInv

\* With nothing in progress on i its entries tell the answers.
LEMMA EntriesTell ==
  ASSUME AccountIInv, NEW i \in rows, NEW since \in Months,
         \A r \in Requests : req[r].integration = i => pc[r] \in {"idle", "done"}
  PROVE  /\ Sent(i, since) = Answered(i, since, {"no_content"})
         /\ Failed(i, since) = Answered(i, since, {"bad_request", "not_found", "bad_gateway"})
<1> DEFINE Refusals == {"bad_request", "not_found", "bad_gateway"}
<1>0. ASSUME NEW r \in Requests
      PROVE  /\ PcInv(r) /\ RowInv(r) /\ SettledInv(r) /\ answer[r] \in Answer
             /\ pc[r] = "done" => answer[r] # "none"
  BY DEF AccountIInv, SettledIInv, IInv, TypeOK, AnsweredInv
<1>1. ASSUME NEW r \in Requests, audit[r].integration = i, Present(audit, r)
      PROVE  /\ req[r].integration = i /\ pc[r] = "done"
             /\ audit[r].status \in {"sent", "delivered", "read"} => answer[r] = "no_content"
             /\ audit[r].status \in {"failed", "rejected"} => answer[r] \in Refusals
  <2>1. req[r].integration = i
    BY <1>0, <1>1 DEF RowInv
  <2>2. pc[r] = "done"
    BY <1>0, <1>1, <2>1 DEF PcInv, Present, NoRow
  <2>3. QED BY <1>0, <2>1, <2>2 DEF SettledInv, Answer
<1>2. ASSUME NEW r \in Requests, req[r].integration = i, pc[r] = "done"
      PROVE  /\ answer[r] = "no_content" => audit[r].status \in {"sent", "delivered", "read"}
             /\ answer[r] \in Refusals => audit[r].status \in {"failed", "rejected"}
             /\ answer[r] \in Refusals \cup {"no_content"} =>
                  audit[r].integration = i /\ audit[r].direction = "outbound"
  BY <1>0, <1>2 DEF SettledInv, RowInv, Present
<1>3. ASSUME NEW r \in Requests, Present(audit, r)
      PROVE  audit[r].status # "forward_failed"
  BY <1>0 DEF RowInv
<1>4. Sent(i, since) = Answered(i, since, {"no_content"})
  <2>1. ASSUME NEW r \in Sent(i, since) PROVE r \in Answered(i, since, {"no_content"})
    BY <1>1 DEF Sent, Outbounds, Answered, Present
  <2>2. ASSUME NEW r \in Answered(i, since, {"no_content"}) PROVE r \in Sent(i, since)
    BY <1>2 DEF Sent, Outbounds, Answered
  <2>3. QED BY <2>1, <2>2
<1>5. Failed(i, since) = Answered(i, since, Refusals)
  <2>1. ASSUME NEW r \in Failed(i, since) PROVE r \in Answered(i, since, Refusals)
    BY <1>1, <1>3 DEF Failed, Outbounds, Answered, Present
  <2>2. ASSUME NEW r \in Answered(i, since, Refusals) PROVE r \in Failed(i, since)
    BY <1>2 DEF Failed, Outbounds, Answered
  <2>3. QED BY <2>1, <2>2
<1>6. QED BY <1>4, <1>5

\* What Status tells a consumer adds up with the answers it was given, with any
\* number of requests.  The database answers (else entries stay "accepted").
THEOREM StatusAddsUp ==
  ASSUME ~DbFaults
  PROVE  TelemetrySpec => []AccountsAdd
<1>1. AccountIInv => AccountsAdd
  <2> SUFFICES ASSUME AccountIInv, NEW i \in rows, NEW since \in Months,
                      \A r \in Requests : req[r].integration = i => pc[r] \in {"idle", "done"}
               PROVE  LET status == Status(Owner[i], i, since)
                          ok     == Answered(i, since, {"no_content"})
                          other  == Answered(i, since, {"bad_request", "not_found", "bad_gateway"})
                      IN /\ status.sent_24h = Cardinality(ok)
                         /\ status.failed_24h = Cardinality(other)
    BY DEF AccountsAdd
  <2>1. /\ Status(Owner[i], i, since).sent_24h = Cardinality(Sent(i, since))
        /\ Status(Owner[i], i, since).failed_24h = Cardinality(Failed(i, since))
    BY DEF Status
  <2>2. QED BY <2>1, EntriesTell
<1>2. QED BY <1>1, AccountInit, AccountNext, PTL DEF TelemetrySpec

\* Every entry that counts as sent is the owner's own, so that it is missing in
\* a listing of the owner's only when newer ones fill it: for any number of
\* requests, any limits, with failing statements and stops.
THEOREM SentIsListed == TelemetrySpec => []OwnerFindsSent
<1>1. TypesInv => OwnerFindsSent
  <2> SUFFICES ASSUME TypesInv, NEW i \in rows, NEW filter \in {i, NoIntegration}, NEW query,
                      NEW page \in List(Owner[i], filter, "", query), NEW r \in Sent(i, 0) \ page
               PROVE  /\ Cardinality(page) = Limit(AskedLimit(query))
                      /\ \A listed \in page : createdAt[listed] >= createdAt[r]
    BY DEF OwnerFindsSent
  <2> DEFINE all == Listable(Owner[i], filter, "")
  <2>1. r \in Requests /\ audit[r].integration = i
        /\ audit[r].status \in {"sent", "delivered", "read"}
    BY DEF Sent, Outbounds
  <2>2. req[r].integration = i /\ Verdict(r) = "none"
    BY <2>1 DEF TypesInv, IInv, RowInv, CheckedInv, Present
  <2>3. req[r].consumer = Owner[i]
    BY <2>2 DEF Verdict
  <2>4. r \in all /\ page # all
    BY <2>1, <2>3 DEF Listable, Present
  <2>5. /\ page # all => Cardinality(page) = Limit(AskedLimit(query))
        /\ \A new \in page, old \in all \ page : createdAt[new] >= createdAt[old]
    <3> HIDE DEF all
    <3>1. QED BY DEF List, ListByConsumer, all
  <2>6. QED BY <2>4, <2>5
<1>2. QED BY <1>1, TypesInit, TypesNext, PTL DEF TelemetrySpec

-----------------------------------------------------------------------------
\* The messages of i the provider took up to the end of month m, those of them
\* whose goroutine is past its HTTP call, and the goroutines started by then
\* that have yet to count.
TakenBy(i, m)   == {r \in accepted : req[r].integration = i /\ takenAt[r] <= m}
LeftBy(i, m)    == {r \in Left(i) : takenAt[r] <= m}
StartedBy(i, m) == {r \in Waiting(i) : startedAt[r] <= m}

\* A goroutine counts in the month it starts in or later, so up to any month
\* it has counted no more than goroutines were started.
MonthlyInv(i, m) ==
  SumTo(monthly[i], m) + Cardinality(StartedBy(i, m)) <= Cardinality(LeftBy(i, m))

MonthlyIInv ==
  /\ CountIInv /\ TypesInv
  /\ \A r \in Requests : takenAt[r] <= clock
  /\ \A i \in Integrations, m \in Months : MonthlyInv(i, m)

LEMMA CountedIsSum ==
  \A i, m : CountedBy(i, m) = SumTo(monthly[i], m)
BY DEF CountedBy, SumTo, GetMonthly

\* The sets are finite, and everything that is added or compared a number.
LEMMA MonthlyTypes ==
  ASSUME CountIInv, TypesInv, NEW i \in Integrations, NEW m \in Months
  PROVE  /\ IsFiniteSet(LeftBy(i, m)) /\ Cardinality(LeftBy(i, m)) \in Nat
         /\ IsFiniteSet(StartedBy(i, m)) /\ Cardinality(StartedBy(i, m)) \in Nat
         /\ SumTo(monthly[i], m) \in Nat /\ monthly[i] \in [0..MaxClock -> Nat]
<1>1. LeftBy(i, m) \in SUBSET Left(i) /\ StartedBy(i, m) \in SUBSET Waiting(i)
  BY DEF LeftBy, StartedBy
<1>2. monthly[i] \in [0..MaxClock -> Nat]
  BY DEF TypesInv, TelemetryTypeOK
<1>3. SumTo(monthly[i], m) \in Nat
  BY <1>2, SumToStep, ClockAssumption
<1>4. QED BY <1>1, <1>2, <1>3, CountTypes, FS_Subset, FS_CardinalityType

LEMMA MonthlyTypesNext ==
  (CountIInv /\ TypesInv =>
     \A i \in Integrations, m \in Months :
        /\ IsFiniteSet(LeftBy(i, m)) /\ Cardinality(LeftBy(i, m)) \in Nat
        /\ IsFiniteSet(StartedBy(i, m)) /\ Cardinality(StartedBy(i, m)) \in Nat
        /\ SumTo(monthly[i], m) \in Nat /\ monthly[i] \in [0..MaxClock -> Nat])'
<1>1. CountIInv /\ TypesInv =>
     \A i \in Integrations, m \in Months :
        /\ IsFiniteSet(LeftBy(i, m)) /\ Cardinality(LeftBy(i, m)) \in Nat
        /\ IsFiniteSet(StartedBy(i, m)) /\ Cardinality(StartedBy(i, m)) \in Nat
        /\ SumTo(monthly[i], m) \in Nat /\ monthly[i] \in [0..MaxClock -> Nat]
  BY MonthlyTypes
<1>2. QED BY <1>1, PTL

LEMMA MonthlyInit == TelemetryInit => MonthlyIInv
<1> SUFFICES ASSUME TelemetryInit PROVE MonthlyIInv
  OBVIOUS
<1>1. CountIInv /\ TypesInv /\ \A r \in Requests : takenAt[r] <= clock
  BY CountInit, TypesInit DEF TelemetryInit
<1>2. ASSUME NEW i \in Integrations, NEW m \in Months PROVE MonthlyInv(i, m)
  <2> DEFINE f == monthly[i]
             Bad == {k \in 0..MaxClock : SumTo(f, k) # 0}
  <2>1. f \in [0..MaxClock -> Nat] /\ \A k \in 0..MaxClock : f[k] = 0
    BY DEF TelemetryInit
  <2>2. SumTo(f, m) = 0
    <3> HIDE DEF f
    <3> SUFFICES ASSUME Bad # {} PROVE FALSE
      OBVIOUS
    <3>1. PICK k \in Bad : \A j \in Bad : k <= j
      <4>1. Bad \in SUBSET Nat
        BY ClockAssumption
      <4> HIDE DEF Bad
      <4>2. QED BY <4>1, NatLeast
    <3>2. k \in 0..MaxClock /\ SumTo(f, k) # 0 /\ f[k] = 0
      BY <2>1
    <3>3. k # 0
      BY <2>1, <3>2, SumToStep, ClockAssumption
    <3>4. SumTo(f, k) = SumTo(f, k - 1) + f[k]
      <4> HIDE DEF Bad
      <4>1. QED BY <2>1, <3>2, <3>3, SumToStep, ClockAssumption
    <3>5. SumTo(f, k - 1) = 0
      <4>1. k - 1 \in 0..MaxClock /\ ~ (k <= k - 1)
        BY <3>2, <3>3, ClockAssumption
      <4>2. QED BY <3>1, <4>1
    <3>6. QED BY <3>2, <3>4, <3>5
  <2>3. StartedBy(i, m) = {} /\ LeftBy(i, m) = {}
    BY DEF TelemetryInit, Init, StartedBy, Waiting, LeftBy, Left
  <2>4. QED BY <2>2, <2>3, FS_EmptySet DEF MonthlyInv
<1>3. QED BY <1>1, <1>2 DEF MonthlyIInv

\* A step that counts nothing keeps the bound of a month when nobody starts to
\* wait in it.
LEMMA MonthlyGrows ==
  ASSUME MonthlyIInv, CountIInv', TypesInv', NEW i \in Integrations, NEW m \in Months,
         UNCHANGED monthly, StartedBy(i, m)' \subseteq StartedBy(i, m),
         LeftBy(i, m) \subseteq LeftBy(i, m)'
  PROVE  MonthlyInv(i, m)'
<1>1. /\ MonthlyInv(i, m) /\ IsFiniteSet(StartedBy(i, m))
      /\ Cardinality(StartedBy(i, m)) \in Nat
      /\ Cardinality(LeftBy(i, m)) \in Nat /\ SumTo(monthly[i], m) \in Nat
  BY MonthlyTypes DEF MonthlyIInv
<1>2. /\ IsFiniteSet(LeftBy(i, m)') /\ Cardinality(LeftBy(i, m)') \in Nat
      /\ Cardinality(StartedBy(i, m)') \in Nat
  BY MonthlyTypesNext
<1>3. /\ Cardinality(LeftBy(i, m)) <= Cardinality(LeftBy(i, m)')
      /\ Cardinality(StartedBy(i, m)') <= Cardinality(StartedBy(i, m))
  BY <1>1, <1>2, FS_Subset
<1>4. QED BY <1>1, <1>2, <1>3 DEF MonthlyInv

\* The times a step of Outbound leaves alone.
LEMMA TimesKept ==
  ASSUME MonthlyIInv, TypesInv', Next, Observe
  PROVE  /\ clock' = clock /\ clock \in Nat
         /\ \A r \in Requests : takenAt'[r] <= clock'
         /\ \A r \in accepted : takenAt'[r] = takenAt[r]
         /\ \A r \in counting : startedAt'[r] = startedAt[r]
         /\ \A r \in counting' \ counting : startedAt'[r] = clock
         /\ accepted \subseteq Requests /\ counting \subseteq Requests
         /\ accepted' \subseteq Requests /\ counting' \subseteq Requests
  BY ClockAssumption DEF MonthlyIInv, TypesInv, TelemetryTypeOK, IInv, TypeOK, Observe

LEMMA MonthlyDispatchOk ==
  ASSUME MonthlyIInv, CountIInv', TypesInv', Next, Observe, UNCHANGED monthly,
         NEW r \in Requests, DispatchOk(r), NEW i \in Integrations, NEW m \in Months
  PROVE  MonthlyInv(i, m)'
<1>1. /\ r \in accepted /\ pc[r] = "dispatch" /\ pc' = [pc EXCEPT ![r] = "marksent"]
      /\ UNCHANGED <<req, accepted>> /\ counting' = counting \cup {r}
      /\ pc \in [Requests -> Active \cup {"idle", "done", "crashed"}]
  BY DEF DispatchOk, MonthlyIInv, CountIInv, IInv, TypeOK, GoTo, World
<1>2. /\ \A q \in accepted : takenAt'[q] = takenAt[q]
      /\ \A q \in counting : startedAt'[q] = startedAt[q]
      /\ r \notin counting => startedAt'[r] = clock
      /\ accepted \subseteq Requests
      /\ takenAt[r] <= clock /\ takenAt[r] \in Nat /\ clock \in Nat /\ m \in Nat
  <2>1. takenAt[r] <= clock /\ takenAt[r] \in Nat /\ m \in Nat
    BY ClockAssumption DEF MonthlyIInv, TypesInv, TelemetryTypeOK
  <2>2. QED BY <1>1, <2>1, TimesKept
<1>3. CASE req[r].integration # i \/ (r \notin counting /\ ~ (clock <= m))
  <2>1. StartedBy(i, m)' \subseteq StartedBy(i, m)
    BY <1>1, <1>2, <1>3 DEF StartedBy, Waiting
  <2>2. LeftBy(i, m) \subseteq LeftBy(i, m)'
    BY <1>1, <1>2 DEF LeftBy, Left
  <2>3. QED BY <2>1, <2>2, MonthlyGrows
<1>4. CASE r \in counting
  <2>1. StartedBy(i, m)' \subseteq StartedBy(i, m)
    BY <1>1, <1>2, <1>4 DEF StartedBy, Waiting
  <2>2. LeftBy(i, m) \subseteq LeftBy(i, m)'
    BY <1>1, <1>2 DEF LeftBy, Left
  <2>3. QED BY <2>1, <2>2, MonthlyGrows
<1>5. CASE req[r].integration = i /\ r \notin counting /\ clock <= m
  <2>1. StartedBy(i, m)' = StartedBy(i, m) \cup {r} /\ r \notin StartedBy(i, m)
    BY <1>1, <1>2, <1>5 DEF StartedBy, Waiting
  <2>2. LeftBy(i, m)' = LeftBy(i, m) \cup {r} /\ r \notin LeftBy(i, m)
    BY <1>1, <1>2, <1>5 DEF LeftBy, Left
  <2>3. /\ MonthlyInv(i, m)
        /\ IsFiniteSet(LeftBy(i, m)) /\ Cardinality(LeftBy(i, m)) \in Nat
        /\ IsFiniteSet(StartedBy(i, m)) /\ Cardinality(StartedBy(i, m)) \in Nat
        /\ SumTo(monthly[i], m) \in Nat
    BY MonthlyTypes DEF MonthlyIInv
  <2>4. /\ Cardinality(LeftBy(i, m)') = Cardinality(LeftBy(i, m)) + 1
        /\ Cardinality(StartedBy(i, m)') = Cardinality(StartedBy(i, m)) + 1
    BY <2>1, <2>2, <2>3, FS_AddElement
  <2>5. QED BY <2>3, <2>4 DEF MonthlyInv
<1>6. QED BY <1>3, <1>4, <1>5

\* A goroutine counts one message in a month not before its start: from that
\* month on the sum grows by one and one less is waited for.
LEMMA MonthlyCountSent ==
  ASSUME MonthlyIInv, CountIInv', TypesInv', Next, Observe,
         NEW r \in Requests, CountSent(r), NEW k \in SentMonths(r) \cap Months,
         monthly' = [monthly EXCEPT ![req[r].integration][k] = @ + 1],
         NEW i \in Integrations, NEW m \in Months
  PROVE  MonthlyInv(i, m)'
<1>1. /\ r \in counting /\ counting' = counting \ {r} /\ UNCHANGED <<req, accepted, pc>>
      /\ \A q \in accepted : takenAt'[q] = takenAt[q]
      /\ \A q \in counting : startedAt'[q] = startedAt[q]
  BY TimesKept DEF CountSent, Provided, World
<1>2. /\ MonthlyInv(i, m)
      /\ IsFiniteSet(LeftBy(i, m)) /\ Cardinality(LeftBy(i, m)) \in Nat
      /\ IsFiniteSet(StartedBy(i, m)) /\ Cardinality(StartedBy(i, m)) \in Nat
      /\ SumTo(monthly[i], m) \in Nat
      /\ Cardinality(StartedBy(i, m)') \in Nat
  BY MonthlyTypes, MonthlyTypesNext DEF MonthlyIInv
<1>3. LeftBy(i, m)' = LeftBy(i, m)
  BY <1>1 DEF LeftBy, Left
<1>4. /\ monthly \in [Integrations -> [0..MaxClock -> Nat]]
      /\ monthly' \in [Integrations -> [0..MaxClock -> Nat]]
      /\ startedAt[r] \in Nat /\ startedAt[r] <= k /\ k \in Nat /\ m \in Nat
  <2>1. TelemetryTypeOK /\ TelemetryTypeOK'
    BY DEF MonthlyIInv, TypesInv
  <2>2. /\ startedAt[r] \in 0..MaxClock /\ clock \in 0..MaxClock
        /\ k \in startedAt[r]..clock /\ k \in 0..MaxClock /\ m \in 0..MaxClock
    BY <2>1 DEF TelemetryTypeOK, SentMonths
  <2>3. startedAt[r] \in Nat /\ startedAt[r] <= k /\ k \in Nat /\ m \in Nat
    BY <2>2, ClockAssumption
  <2>4. QED BY <2>1, <2>3 DEF TelemetryTypeOK
<1>5. CASE req[r].integration # i
  <2>1. StartedBy(i, m)' \subseteq StartedBy(i, m) /\ monthly'[i] = monthly[i]
    BY <1>1, <1>4, <1>5 DEF StartedBy, Waiting
  <2>2. Cardinality(StartedBy(i, m)') <= Cardinality(StartedBy(i, m))
    BY <1>2, <2>1, FS_Subset
  <2>3. QED BY <1>2, <1>3, <2>1, <2>2 DEF MonthlyInv
<1>6. CASE req[r].integration = i
  <2>1. SumTo(monthly'[i], m) = SumTo(monthly[i], m) + (IF k <= m THEN 1 ELSE 0)
    <3> DEFINE e == monthly'[i]
               f == monthly[i]
    <3>1. /\ f \in [0..MaxClock -> Nat] /\ e \in [0..MaxClock -> Nat]
          /\ \A j \in 0..MaxClock : e[j] = IF j = k THEN f[j] + 1 ELSE f[j]
      BY <1>4, <1>6
    <3> HIDE DEF e, f
    <3>2. SumTo(e, m) = SumTo(f, m) + (IF k <= m THEN 1 ELSE 0)
      BY <3>1, SumToAdd, ZenonT(60)
    <3>3. QED BY <3>2 DEF e, f
  <2>2. CASE k <= m
    <3>1. StartedBy(i, m)' = StartedBy(i, m) \ {r} /\ r \in StartedBy(i, m)
      BY <1>1, <1>4, <1>6, <2>2 DEF StartedBy, Waiting
    <3>2. Cardinality(StartedBy(i, m)') = Cardinality(StartedBy(i, m)) - 1
      BY <1>2, <3>1, FS_RemoveElement
    <3>3. QED BY <1>2, <1>3, <2>1, <2>2, <3>2 DEF MonthlyInv
  <2>3. CASE ~ (k <= m)
    <3>1. StartedBy(i, m)' \subseteq StartedBy(i, m)
      BY <1>1 DEF StartedBy, Waiting
    <3>2. Cardinality(StartedBy(i, m)') <= Cardinality(StartedBy(i, m))
      BY <1>2, <3>1, FS_Subset
    <3>3. QED BY <1>2, <1>3, <2>1, <2>3, <3>2 DEF MonthlyInv
  <2>4. QED BY <2>2, <2>3
<1>7. QED BY <1>5, <1>6

LEMMA MonthlyObserve ==
  ASSUME ~DbFaults, MonthlyIInv, CountIInv', TypesInv', Next, Observe
  PROVE  MonthlyIInv'
<1>0. IInv /\ TelemetryTypeOK
  BY DEF MonthlyIInv, TypesInv
<1>1. ASSUME NEW i \in Integrations, NEW m \in Months PROVE MonthlyInv(i, m)'
  <2>1. CASE UNCHANGED monthly /\ \A r \in Requests : ~CountSent(r)
    <3>1. ASSUME NEW r \in Requests, DispatchOk(r) PROVE MonthlyInv(i, m)'
      BY <2>1, <3>1, MonthlyDispatchOk
    <3>2. CASE \A r \in Requests : ~DispatchOk(r)
      <4>1. /\ UNCHANGED req /\ counting' \subseteq counting /\ accepted \subseteq accepted'
            /\ \A q \in accepted : pc[q] # "dispatch" => pc'[q] # "dispatch"
        BY <1>0, <2>1, <3>2, CountsNothing
      <4>2. StartedBy(i, m)' \subseteq StartedBy(i, m) /\ LeftBy(i, m) \subseteq LeftBy(i, m)'
        BY <4>1, TimesKept DEF StartedBy, Waiting, LeftBy, Left
      <4>3. QED BY <2>1, <4>2, MonthlyGrows
    <3>3. QED BY <3>1, <3>2
  <2>2. \/ \E r \in Requests, n \in Nat : \E k \in SentMonths(r) \cap Months :
              /\ CountSent(r)
              /\ ~DbFaults => n = 1
              /\ monthly' = [monthly EXCEPT ![req[r].integration][k] = @ + n]
        \/ UNCHANGED monthly /\ \A r \in Requests : ~CountSent(r)
    BY <1>0, MonthlySteps
  <2>3. CASE ~ (UNCHANGED monthly /\ \A r \in Requests : ~CountSent(r))
    <3>1. PICK r \in Requests, n \in Nat : \E k \in SentMonths(r) \cap Months :
             /\ CountSent(r)
             /\ ~DbFaults => n = 1
             /\ monthly' = [monthly EXCEPT ![req[r].integration][k] = @ + n]
      BY <2>2, <2>3
    <3>2. PICK k \in SentMonths(r) \cap Months :
             /\ CountSent(r)
             /\ ~DbFaults => n = 1
             /\ monthly' = [monthly EXCEPT ![req[r].integration][k] = @ + n]
      BY <3>1
    <3>3. monthly' = [monthly EXCEPT ![req[r].integration][k] = @ + 1] /\ CountSent(r)
      BY <3>2
    <3>4. QED BY <3>3, MonthlyCountSent
  <2>4. QED BY <2>1, <2>3
<1>2. QED BY <1>1, TimesKept DEF MonthlyIInv

LEMMA MonthlyNext == ~DbFaults /\ MonthlyIInv /\ [TelemetryNext]_allVars => MonthlyIInv'
<1> SUFFICES ASSUME ~DbFaults, MonthlyIInv, [TelemetryNext]_allVars PROVE MonthlyIInv'
  OBVIOUS
<1>1. CountIInv' /\ TypesInv'
  BY StepIsOutbounds, CountNext, TypesNext DEF MonthlyIInv
<1>2. CASE UNCHANGED allVars \/ Tick
  <2>1. /\ UNCHANGED <<monthly, startedAt, takenAt, accepted, req, pc, counting>>
        /\ clock' \in {clock, clock + 1}
    BY <1>2 DEF allVars, Tick, telemetryVars, vars
  <2>2. \A r \in Requests : takenAt'[r] <= clock'
    BY <2>1, ClockAssumption DEF MonthlyIInv, TypesInv, TelemetryTypeOK
  <2>3. ASSUME NEW i \in Integrations, NEW m \in Months PROVE MonthlyInv(i, m)'
    <3>1. MonthlyInv(i, m)
      BY DEF MonthlyIInv
    <3>2. StartedBy(i, m)' = StartedBy(i, m) /\ LeftBy(i, m)' = LeftBy(i, m)
      BY <2>1 DEF StartedBy, Waiting, LeftBy, Left
    <3>3. QED BY <2>1, <3>1, <3>2 DEF MonthlyInv
  <2>4. QED BY <1>1, <2>2, <2>3 DEF MonthlyIInv
<1>3. QED BY <1>1, <1>2, MonthlyObserve DEF TelemetryNext

\* A month's counter never runs ahead of the provider: a goroutine counts
\* after the message was taken, in the month it runs in, and what it counts
\* late counts in a later month.  With a Redis that answers.
THEOREM MonthsNotEarly ==
  ASSUME ~DbFaults
  PROVE  TelemetrySpec => []MonthlyNotEarly
<1>1. MonthlyIInv => MonthlyNotEarly
  <2> SUFFICES ASSUME MonthlyIInv, NEW i \in Integrations, NEW m \in Months
               PROVE  SumTo(monthly[i], m) <= Cardinality(TakenBy(i, m))
    BY CountedIsSum DEF MonthlyNotEarly, TakenBy
  <2>1. /\ MonthlyInv(i, m) /\ SumTo(monthly[i], m) \in Nat
        /\ Cardinality(StartedBy(i, m)) \in Nat /\ Cardinality(LeftBy(i, m)) \in Nat
    BY MonthlyTypes DEF MonthlyIInv
  <2>2. LeftBy(i, m) \in SUBSET TakenBy(i, m) /\ TakenBy(i, m) \in SUBSET accepted
    BY DEF LeftBy, Left, TakenBy
  <2>3. Cardinality(LeftBy(i, m)) <= Cardinality(TakenBy(i, m)) /\ Cardinality(TakenBy(i, m)) \in Nat
    BY <2>2, FS_Subset, FS_CardinalityType DEF MonthlyIInv, CountIInv
  <2>4. QED BY <2>1, <2>3 DEF MonthlyInv
<1>2. QED BY <1>1, MonthlyInit, MonthlyNext, PTL DEF TelemetrySpec
=============================================================================
