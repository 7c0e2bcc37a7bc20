----------------------- MODULE OutboundFaultlessProofs -----------------------
(***************************************************************************)
(* What holds of Outbound when the database and Redis answer (DbFaults is  *)
(* FALSE): the trail records every outcome and the counter never exceeds   *)
(* what the providers took.  Providers fail, integrations are deleted and  *)
(* the process stops all the same, and there is no bound on the requests.  *)
(***************************************************************************)
EXTENDS OutboundProofs, FiniteSetTheorems

\* What the trail says of r while its integration has a row.
SettledInv(r) ==
  req[r].integration \in rows =>
    /\ pc[r] \in {"prepare", "dispatch", "marksent", "markfailed"} =>
         audit[r].status = "accepted"
    /\ pc[r] = "markfailed" => answer[r] = "bad_gateway"
    /\ pc[r] = "done" =>
         /\ answer[r] = "no_content" => audit[r].status \in {"sent", "delivered", "read"}
         /\ answer[r] = "bad_gateway" => audit[r].status = "failed"
         /\ answer[r] \in {"bad_request", "not_found"} => audit[r].status = "rejected"

SettledIInv == IInv /\ \A r \in Requests : SettledInv(r)

\* The messages of i a provider took whose goroutine is past its HTTP call,
\* and those still to be counted.
Left(i)    == {r \in accepted : req[r].integration = i /\ pc[r] # "dispatch"}
Waiting(i) == {r \in counting : req[r].integration = i}

CountInv(i) == sentCount[i] + Cardinality(Waiting(i)) <= Cardinality(Left(i))

CountIInv ==
  /\ IInv
  /\ IsFiniteSet(accepted) /\ IsFiniteSet(counting)
  /\ \A i \in Integrations : CountInv(i)

-----------------------------------------------------------------------------
USE DEF Requests, Provided, Metrics, World, GoTo, Finish, Present

LEMMA SettledInit == Init => SettledIInv
BY InitInv DEF Init, SettledIInv, SettledInv

\* A step of a goroutine touches nothing of another request.
LEMMA OwnStep ==
  ASSUME TypeOK, NEW r \in Requests, Step(r), NEW q \in Requests
  PROVE  /\ UNCHANGED <<req, rows>>
         /\ q # r => audit'[q] = audit[q] /\ pc'[q] = pc[q] /\ answer'[q] = answer[q]
<1> USE DEF TypeOK, Table
<1>1. CASE Lookup(r) \/ Prepare(r) \/ DispatchOk(r) \/ DispatchFailed(r)
  BY <1>1 DEF Lookup, Prepare, DispatchOk, DispatchFailed
<1>2. CASE RejectAndAudit(r) \/ AppendAccepted(r)
  BY <1>2 DEF RejectAndAudit, AppendAccepted, AppendEntry
<1>3. CASE MarkSentStep(r)
  BY <1>3 DEF MarkSentStep, MarkSent
<1>4. CASE MarkFailedStep(r)
  BY <1>4 DEF MarkFailedStep, UpdateStatus
<1>5. QED BY <1>1, <1>2, <1>3, <1>4 DEF Step

LEMMA SettledStep ==
  ASSUME ~DbFaults, SettledIInv, NEW r \in Requests, Step(r), NEW q \in Requests
  PROVE  SettledInv(q)'
<1>0. TypeOK /\ PcInv(r) /\ CheckedInv(r) /\ SettledInv(r) /\ SettledInv(q)
  BY DEF SettledIInv, IInv
<1>1. CASE q # r
  BY <1>0, <1>1, OwnStep DEF SettledInv
<1>2. CASE q = r
  <2>0. /\ UNCHANGED <<req, rows>>
        /\ audit \in [Requests -> Row \cup {NoRow}]
        /\ pc \in [Requests -> Active \cup {"idle", "done", "crashed"}]
        /\ answer \in [Requests -> Answer]
    BY <1>0, OwnStep DEF TypeOK, Table
  <2>1. CASE Lookup(r)
    BY <1>0, <1>2, <2>0, <2>1 DEF Lookup, SettledInv
  <2>2. CASE RejectAndAudit(r)
    <3>1. Verdict(r) \in {"not_found", "bad_request"}
      BY <1>0, <2>2, ProviderAssumption
         DEF RejectAndAudit, CheckedInv, Verdict, WiredProviders, TypeOK, Input
    <3>2. pc'[r] = "done" /\ answer'[r] = Verdict(r)
      BY <2>0, <2>2 DEF RejectAndAudit
    <3>3. req[r].integration \in rows => audit'[r].status = "rejected"
      BY <2>0, <2>2 DEF RejectAndAudit, AppendEntry, Entry
    <3>4. QED BY <1>2, <2>0, <3>1, <3>2, <3>3 DEF SettledInv
  <2>3. CASE AppendAccepted(r)
    <3>1. req[r].integration \in rows => audit'[r].status = "accepted" /\ pc'[r] = "prepare"
      BY <2>0, <2>3 DEF AppendAccepted, AppendEntry, Entry
    <3>2. QED BY <1>2, <2>0, <3>1 DEF SettledInv
  <2>4. CASE Prepare(r)
    BY <1>0, <1>2, <2>0, <2>4 DEF Prepare, SettledInv
  <2>5. CASE DispatchOk(r) \/ DispatchFailed(r)
    BY <1>0, <1>2, <2>0, <2>5 DEF DispatchOk, DispatchFailed, SettledInv
  <2>6. CASE MarkSentStep(r)
    <3>1. pc'[r] = "done" /\ answer'[r] = "no_content" /\ pc[r] = "marksent"
      BY <2>0, <2>6 DEF MarkSentStep
    <3>2. audit[r].status = "accepted" => audit'[r].status = "sent"
      <4>1. audit[r].status = "accepted" => audit[r] \in Row
        BY <2>0 DEF NoRow
      <4>2. QED BY <2>0, <2>6, <4>1 DEF MarkSentStep, MarkSent, Row
    <3>3. QED BY <1>0, <1>2, <2>0, <3>1, <3>2 DEF SettledInv
  <2>7. CASE MarkFailedStep(r)
    <3>1. pc'[r] = "done" /\ answer'[r] = answer[r] /\ pc[r] = "markfailed"
      BY <2>0, <2>7 DEF MarkFailedStep
    <3>2. audit[r].status = "accepted" => audit'[r].status = "failed"
      <4>1. audit[r].status = "accepted" => audit[r] \in Row
        BY <2>0 DEF NoRow
      <4>2. QED BY <2>0, <2>7, <4>1 DEF MarkFailedStep, UpdateStatus, Row
    <3>3. QED BY <1>0, <1>2, <2>0, <3>1, <3>2 DEF SettledInv
  <2>8. QED BY <2>1, <2>2, <2>3, <2>4, <2>5, <2>6, <2>7 DEF Step
<1>3. QED BY <1>1, <1>2

\* A receipt finds an entry that says sent or more, and leaves it so.
LEMMA SettledReceipt ==
  ASSUME SettledIInv, NEW r \in Requests, NEW ack \in DOMAIN AckOf, StatusUpdate(r, ack),
         NEW q \in Requests
  PROVE  SettledInv(q)'
<1>0. /\ SettledInv(q) /\ UNCHANGED <<req, rows, pc, answer>> /\ AckOf[ack] \in Receipt
      /\ audit \in [Requests -> Row \cup {NoRow}]
      /\ \/ audit' = MarkOutboundStatusByExternalID(audit, req[r].integration, r, AckOf[ack])
         \/ UNCHANGED audit
  <2>1. SettledInv(q) /\ TypeOK
    BY DEF SettledIInv, IInv
  <2>2. QED BY <2>1 DEF StatusUpdate, TypeOK, Table
<1>1. CASE audit'[q] = audit[q]
  BY <1>0, <1>1 DEF SettledInv
<1>2. CASE audit'[q] # audit[q]
  <2>1. /\ q \in Matching(audit, req[r].integration, r, AckOf[ack])
        /\ audit'[q] = [audit[q] EXCEPT !.status = AckOf[ack]]
    BY <1>0, <1>2 DEF MarkOutboundStatusByExternalID
  <2>2. audit[q].status \in {"sent", "delivered", "read"}
    BY <1>0, <2>1, ReceiptMatches DEF SettledIInv
  <2>3. audit'[q].status \in {"delivered", "read"}
    BY <1>0, <2>1, <2>2 DEF Row, NoRow, Receipt
  <2>4. QED BY <1>0, <2>2, <2>3 DEF SettledInv
<1>3. QED BY <1>1, <1>2

LEMMA SettledNext == ~DbFaults /\ SettledIInv /\ [Next]_vars => SettledIInv'
<1> SUFFICES ASSUME ~DbFaults, SettledIInv, [Next]_vars, NEW q \in Requests
             PROVE  SettledInv(q)'
  BY NextInv DEF SettledIInv
<1>0. SettledInv(q) /\ IInv /\ TypeOK
  BY DEF SettledIInv, IInv
<1>1. ASSUME NEW r \in Requests, Step(r) PROVE SettledInv(q)'
  BY <1>1, SettledStep
<1>2. ASSUME NEW r \in Requests, Receive(r) \/ ProviderAccepts(r) \/ CountSent(r)
      PROVE  SettledInv(q)'
  BY <1>0, <1>2 DEF TypeOK, Receive, ProviderAccepts, CountSent, SettledInv
<1>3. ASSUME NEW i \in Integrations, DeleteIntegration(i) PROVE SettledInv(q)'
  <2>1. /\ SettledInv(q) /\ RowInv(q) /\ UNCHANGED <<req, pc, answer>> /\ rows' = rows \ {i}
        /\ audit' = Cascade(audit, i) /\ audit \in [Requests -> Row \cup {NoRow}]
    BY <1>0, <1>3 DEF IInv, TypeOK, Table, DeleteIntegration
  <2>2. CASE audit[q].integration # i
    <3>1. audit'[q] = audit[q]
      BY <2>1, <2>2 DEF Cascade
    <3>2. QED BY <2>1, <3>1 DEF SettledInv
  <2>3. CASE audit[q].integration = i
    <3>1. audit[q] # NoRow
      BY <2>3, SentinelAssumption DEF NoRow
    <3>2. req[q].integration = i
      <4>1. audit[q] \in Row
        BY <2>1, <3>1
      <4>2. Present(audit, q)
        BY <4>1 DEF Row, AuditStatus
      <4>3. QED BY <2>1, <2>3, <4>2 DEF RowInv
    <3>3. QED BY <2>1, <3>2 DEF SettledInv
  <2>4. QED BY <2>2, <2>3
<1>4. CASE Crash
  BY <1>0, <1>4 DEF Crash, TypeOK, Active, SettledInv
<1>5. CASE UNCHANGED vars
  BY <1>0, <1>5 DEF vars, SettledInv
<1>6. QED BY <1>1, <1>2, <1>3, <1>4, <1>5, SettledReceipt DEF Next, SettledIInv

\* With a database that answers, the trail says of every answered request how
\* it ended, as long as its integration exists: no crash, timeout, receipt or
\* deletion of another integration leaves the entry and the answer apart.
THEOREM OutcomesAreRecorded ==
  ASSUME ~DbFaults
  PROVE  Spec => []OutcomeRecorded
<1>1. SettledIInv => OutcomeRecorded
  BY DEF SettledIInv, SettledInv, OutcomeRecorded
<1>2. QED BY <1>1, SettledInit, SettledNext, PTL DEF Spec

-----------------------------------------------------------------------------
LEMMA CountInit == Init => CountIInv
<1> SUFFICES ASSUME Init PROVE CountIInv
  OBVIOUS
<1>1. ASSUME NEW i \in Integrations PROVE CountInv(i)
  <2>1. Waiting(i) = {} /\ Left(i) = {} /\ sentCount[i] = 0
    BY DEF Init, Waiting, Left
  <2>2. QED BY <2>1, FS_EmptySet DEF CountInv
<1>2. QED BY <1>1, InitInv, FS_EmptySet DEF Init, CountIInv

\* The two sets of an integration are finite, and their sizes numbers.
LEMMA CountTypes ==
  ASSUME CountIInv, NEW i \in Integrations
  PROVE  /\ IsFiniteSet(Left(i)) /\ Cardinality(Left(i)) \in Nat
         /\ IsFiniteSet(Waiting(i)) /\ Cardinality(Waiting(i)) \in Nat
         /\ sentCount[i] \in Nat
<1>1. Left(i) \in SUBSET accepted /\ Waiting(i) \in SUBSET counting
  BY DEF Left, Waiting
<1>2. QED BY <1>1, FS_Subset, FS_CardinalityType DEF CountIInv, IInv, TypeOK

\* A step that counts nothing keeps the bound, whatever becomes of the message.
LEMMA CountGrows ==
  ASSUME CountIInv, NEW i \in Integrations, IsFiniteSet(accepted'),
         UNCHANGED sentCount, Waiting(i)' \subseteq Waiting(i), Left(i) \subseteq Left(i)'
  PROVE  CountInv(i)'
<1>1. IsFiniteSet(Left(i)') /\ Cardinality(Left(i)') \in Nat
  <2>1. Left(i)' \in SUBSET accepted'
    BY DEF Left
  <2>2. QED BY <2>1, FS_Subset, FS_CardinalityType
<1>2. Cardinality(Left(i)) <= Cardinality(Left(i)')
  BY <1>1, FS_Subset
<1>3. Cardinality(Waiting(i)') <= Cardinality(Waiting(i)) /\ Cardinality(Waiting(i)') \in Nat
  BY CountTypes, FS_Subset, FS_CardinalityType
<1>4. QED BY <1>1, <1>2, <1>3, CountTypes DEF CountIInv, CountInv

LEMMA CountDispatchOk ==
  ASSUME CountIInv, NEW r \in Requests, DispatchOk(r), NEW i \in Integrations
  PROVE  CountInv(i)'
<1>1. /\ r \in accepted /\ pc[r] = "dispatch" /\ pc' = [pc EXCEPT ![r] = "marksent"]
      /\ UNCHANGED <<req, accepted, sentCount>> /\ counting' = counting \cup {r}
      /\ accepted \subseteq Requests /\ pc'[r] = "marksent"
      /\ \A q \in Requests : q # r => pc'[q] = pc[q]
  BY DEF DispatchOk, CountIInv, IInv, TypeOK
<1>2. CASE req[r].integration # i
  <2>1. Waiting(i)' = Waiting(i) /\ Left(i)' = Left(i)
    BY <1>1, <1>2 DEF Waiting, Left
  <2>2. QED BY <1>1, <2>1 DEF CountIInv, CountInv
<1>3. CASE req[r].integration = i
  <2>1. Waiting(i)' = Waiting(i) \cup {r}
    BY <1>1, <1>3 DEF Waiting
  <2>2. Left(i)' = Left(i) \cup {r} /\ r \notin Left(i)
    BY <1>1, <1>3 DEF Left
  <2>3. Cardinality(Left(i)') = Cardinality(Left(i)) + 1
    BY <2>2, CountTypes, FS_AddElement
  <2>4. /\ Cardinality(Waiting(i)') <= Cardinality(Waiting(i)) + 1
        /\ Cardinality(Waiting(i)') \in Nat
    <3>1. IsFiniteSet(Waiting(i)) /\ Cardinality(Waiting(i)) \in Nat
      BY CountTypes
    <3>2. Cardinality(Waiting(i) \cup {r}) =
            IF r \in Waiting(i) THEN Cardinality(Waiting(i)) ELSE Cardinality(Waiting(i)) + 1
      BY <3>1, FS_AddElement
    <3>3. QED BY <2>1, <3>1, <3>2
  <2>5. QED BY <1>1, <2>3, <2>4, CountTypes DEF CountIInv, CountInv
<1>4. QED BY <1>2, <1>3

LEMMA CountCountSent ==
  ASSUME ~DbFaults, CountIInv, NEW r \in Requests, CountSent(r), NEW i \in Integrations
  PROVE  CountInv(i)'
<1>1. /\ r \in counting /\ counting' = counting \ {r}
      /\ UNCHANGED <<req, accepted, pc>>
      /\ sentCount' = [sentCount EXCEPT ![req[r].integration] = @ + 1]
      /\ sentCount \in [Integrations -> Nat]
  BY DEF CountSent, CountIInv, IInv, TypeOK
<1>0. Left(i)' = Left(i)
  BY <1>1 DEF Left
<1>2. CASE req[r].integration # i
  <2>1. Waiting(i)' = Waiting(i) /\ sentCount'[i] = sentCount[i]
    BY <1>1, <1>2 DEF Waiting
  <2>2. QED BY <1>0, <2>1 DEF CountIInv, CountInv
<1>3. CASE req[r].integration = i
  <2>1. Waiting(i)' = Waiting(i) \ {r} /\ r \in Waiting(i) /\ sentCount'[i] = sentCount[i] + 1
    BY <1>1, <1>3 DEF Waiting
  <2>2. Cardinality(Waiting(i)') = Cardinality(Waiting(i)) - 1
    BY <2>1, CountTypes, FS_RemoveElement
  <2>3. QED BY <1>0, <2>1, <2>2, CountTypes DEF CountIInv, CountInv
<1>4. QED BY <1>2, <1>3

\* Every other step counts nothing, and leaves a message that is past its HTTP
\* call past it.
LEMMA CountsNothing ==
  ASSUME IInv, [Next]_vars, \A r \in Requests : ~DispatchOk(r) /\ ~CountSent(r)
  PROVE  /\ UNCHANGED <<req, sentCount>> /\ counting' \subseteq counting
         /\ accepted \subseteq accepted'
         /\ \A q \in accepted : pc[q] # "dispatch" => pc'[q] # "dispatch"
<1>0. TypeOK
  BY DEF IInv
<1>1. ASSUME NEW r \in Requests, Receive(r) \/ (Step(r) /\ ~DispatchOk(r)) \/ ProviderAccepts(r)
      PROVE  /\ UNCHANGED <<req, sentCount>> /\ counting' \subseteq counting
             /\ accepted \subseteq accepted'
             /\ \A q \in accepted : pc[q] # "dispatch" => pc'[q] # "dispatch"
  <2>1. /\ UNCHANGED <<req, sentCount, counting>> /\ accepted \subseteq accepted'
        /\ \A q \in Requests : q # r => pc'[q] = pc[q]
    BY <1>0, <1>1 DEF TypeOK, Step, Receive, Lookup, RejectAndAudit, AppendAccepted, Prepare,
       ProviderAccepts, DispatchFailed, MarkSentStep, MarkFailedStep
  <2>2. r \in accepted /\ pc[r] # "dispatch" => pc'[r] # "dispatch"
    <3>1. PcInv(r)
      BY DEF IInv
    <3>2. QED
      BY <1>0, <1>1, <3>1 DEF PcInv, TypeOK, Step, Receive, Lookup, RejectAndAudit,
         AppendAccepted, Prepare, ProviderAccepts, DispatchFailed, MarkSentStep, MarkFailedStep
  <2>3. QED BY <1>0, <2>1, <2>2 DEF TypeOK
<1>2. ASSUME \/ \E r \in Requests, ack \in DOMAIN AckOf : StatusUpdate(r, ack)
             \/ \E j \in Integrations : DeleteIntegration(j)
             \/ Crash \/ UNCHANGED vars
      PROVE  /\ UNCHANGED <<req, sentCount>> /\ counting' \subseteq counting
             /\ accepted \subseteq accepted'
             /\ \A q \in accepted : pc[q] # "dispatch" => pc'[q] # "dispatch"
  BY <1>0, <1>2 DEF TypeOK, StatusUpdate, DeleteIntegration, Crash, Active, vars
<1>3. QED BY <1>1, <1>2 DEF Next

LEMMA CountNext == ~DbFaults /\ CountIInv /\ [Next]_vars => CountIInv'
<1> SUFFICES ASSUME ~DbFaults, CountIInv, [Next]_vars PROVE CountIInv'
  OBVIOUS
<1>1. IsFiniteSet(accepted')
  <2>1. accepted' = accepted \/ \E r \in Requests : accepted' = accepted \cup {r}
    BY DEF Next, Step, vars, Receive, Lookup, RejectAndAudit, AppendAccepted, Prepare,
       ProviderAccepts, DispatchOk, DispatchFailed, MarkSentStep, MarkFailedStep, CountSent,
       StatusUpdate, DeleteIntegration, Crash
  <2>2. QED BY <2>1, FS_AddElement DEF CountIInv
<1>2. IsFiniteSet(counting')
  <2>1. \/ counting' \subseteq counting
        \/ \E r \in Requests : counting' = counting \cup {r}
    BY DEF Next, Step, vars, Receive, Lookup, RejectAndAudit, AppendAccepted, Prepare,
       ProviderAccepts, DispatchOk, DispatchFailed, MarkSentStep, MarkFailedStep, CountSent,
       StatusUpdate, DeleteIntegration, Crash
  <2>2. QED BY <2>1, FS_AddElement, FS_Subset DEF CountIInv
<1>3. ASSUME NEW i \in Integrations,
             \A r \in Requests : ~DispatchOk(r) /\ ~CountSent(r)
      PROVE  CountInv(i)'
  BY <1>1, <1>3, CountsNothing, CountGrows DEF Waiting, Left, CountIInv
<1>4. ASSUME NEW i \in Integrations PROVE CountInv(i)'
  BY <1>3, <1>4, CountDispatchOk, CountCountSent
<1>5. QED BY <1>1, <1>2, <1>4, NextInv DEF CountIInv

\* With a Redis that answers, the counter and the goroutines that have yet to
\* count never exceed what the providers took, although a timed-out send may
\* have been taken uncounted and a stop loses counts.
THEOREM MetricsAreBounded ==
  ASSUME ~DbFaults
  PROVE  Spec => []MetricsBounded
<1>1. CountIInv => MetricsBounded
  <2> SUFFICES ASSUME CountIInv, NEW i \in Integrations
               PROVE  sentCount[i] + Cardinality(Waiting(i))
                        <= Cardinality({r \in accepted : req[r].integration = i})
    BY DEF MetricsBounded, Waiting
  <2> DEFINE took == {r \in accepted : req[r].integration = i}
  <2>1. IsFiniteSet(took) /\ Cardinality(took) \in Nat
    BY FS_Subset, FS_CardinalityType DEF CountIInv
  <2>2. Left(i) \in SUBSET took
    BY DEF Left
  <2>3. Cardinality(Left(i)) <= Cardinality(took)
    BY <2>1, <2>2, FS_Subset
  <2>4. QED BY <2>1, <2>3, CountTypes DEF CountIInv, CountInv
<1>2. QED BY <1>1, CountInit, CountNext, PTL DEF Spec
=============================================================================
