---------------------------- MODULE GatewayProofs ----------------------------
(***************************************************************************)
(* Proofs about Gateway: sending while integrations are connected and      *)
(* disconnected.  They rest on two invariants proved for the parts, the    *)
(* one of Connection, which the sends do not disturb, and the one of       *)
(* Outbound, whose Next every step of Gateway is a step of or a stutter.   *)
(***************************************************************************)
EXTENDS Gateway, ConnectionProofs

\* Outbound again as Gateway has it, with what is proved about it.
OP == INSTANCE OutboundFaultlessProofs WITH
  rows   <- {i \in Integrations : Exists(i)},
  pc     <- sendPc,
  answer <- sendAnswer,
  DbFaults <- SendFaults

\* What Outbound assumes of its constants holds here.
LEMMA OutboundAssumed ==
  /\ OP!MessageIdAssumption
  /\ OP!StatusCheckAssumption
  /\ OP!SentinelAssumption
  /\ OP!FaultAssumption
BY SendAssumption, SentinelAssumption, FaultAssumption
   DEF OP!Requests, Out!MigrationStatusCheck, OP!MigrationStatusCheck, Out!AuditStatus,
       OP!AuditStatus, OP!MessageIdAssumption, OP!StatusCheckAssumption, OP!SentinelAssumption,
       OP!FaultAssumption

-----------------------------------------------------------------------------
(* Out and OP are the same Outbound.                                       *)

LEMMA SameReceive ==
  ASSUME NEW r PROVE Out!Receive(r) <=> OP!Receive(r)
BY DEF Out!Receive, OP!Receive, Out!GoTo, OP!GoTo, Out!Provided, OP!Provided,
       Out!Metrics, OP!Metrics, Out!World, OP!World

LEMMA SameLookup ==
  ASSUME NEW r PROVE Out!Lookup(r) <=> OP!Lookup(r)
BY DEF Out!Lookup, OP!Lookup, Out!GoTo, OP!GoTo, Out!Finish, OP!Finish, Out!Verdict,
       OP!Verdict, Out!WiredProviders, OP!WiredProviders, Out!Provided, OP!Provided,
       Out!Metrics, OP!Metrics, Out!World, OP!World

LEMMA SameRejectAndAudit ==
  ASSUME NEW r PROVE Out!RejectAndAudit(r) <=> OP!RejectAndAudit(r)
BY DEF Out!RejectAndAudit, OP!RejectAndAudit, Out!Finish, OP!Finish, Out!Verdict,
       OP!Verdict, Out!WiredProviders, OP!WiredProviders, Out!Entry, OP!Entry,
       Out!AppendEntry, OP!AppendEntry, Out!Provided, OP!Provided, Out!Metrics,
       OP!Metrics, Out!World, OP!World

LEMMA SameAppendAccepted ==
  ASSUME NEW r PROVE Out!AppendAccepted(r) <=> OP!AppendAccepted(r)
BY DEF Out!AppendAccepted, OP!AppendAccepted, Out!GoTo, OP!GoTo, Out!Finish, OP!Finish,
       Out!Entry, OP!Entry, Out!AppendEntry, OP!AppendEntry, Out!Provided, OP!Provided,
       Out!Metrics, OP!Metrics, Out!World, OP!World

LEMMA SamePrepare ==
  ASSUME NEW r PROVE Out!Prepare(r) <=> OP!Prepare(r)
BY DEF Out!Prepare, OP!Prepare, Out!GoTo, OP!GoTo, Out!Metrics, OP!Metrics, Out!World,
       OP!World

LEMMA SameProviderAccepts ==
  ASSUME NEW r PROVE Out!ProviderAccepts(r) <=> OP!ProviderAccepts(r)
BY DEF Out!ProviderAccepts, OP!ProviderAccepts, Out!Metrics, OP!Metrics, Out!World,
       OP!World

LEMMA SameDispatchOk ==
  ASSUME NEW r PROVE Out!DispatchOk(r) <=> OP!DispatchOk(r)
BY DEF Out!DispatchOk, OP!DispatchOk, Out!GoTo, OP!GoTo, Out!World, OP!World

LEMMA SameDispatchFailed ==
  ASSUME NEW r PROVE Out!DispatchFailed(r) <=> OP!DispatchFailed(r)
BY DEF Out!DispatchFailed, OP!DispatchFailed, Out!GoTo, OP!GoTo, Out!Metrics,
       OP!Metrics, Out!World, OP!World

LEMMA SameMarkSentStep ==
  ASSUME NEW r PROVE Out!MarkSentStep(r) <=> OP!MarkSentStep(r)
BY DEF Out!MarkSentStep, OP!MarkSentStep, Out!MarkSent, OP!MarkSent, Out!Present,
       OP!Present, Out!Finish, OP!Finish, Out!Provided, OP!Provided, Out!Metrics,
       OP!Metrics, Out!World, OP!World

LEMMA SameMarkFailedStep ==
  ASSUME NEW r PROVE Out!MarkFailedStep(r) <=> OP!MarkFailedStep(r)
BY DEF Out!MarkFailedStep, OP!MarkFailedStep, Out!UpdateStatus, OP!UpdateStatus,
       Out!Present, OP!Present, Out!GoTo, OP!GoTo, Out!Provided, OP!Provided,
       Out!Metrics, OP!Metrics, Out!World, OP!World

LEMMA SameCountSent ==
  ASSUME NEW r PROVE Out!CountSent(r) <=> OP!CountSent(r)
BY DEF Out!CountSent, OP!CountSent, Out!RedisRetries, OP!RedisRetries, Out!Provided, OP!Provided, Out!World, OP!World

LEMMA SameStatusUpdate ==
  ASSUME NEW r, NEW ack PROVE Out!StatusUpdate(r, ack) <=> OP!StatusUpdate(r, ack)
BY DEF Out!StatusUpdate, OP!StatusUpdate, Out!AckOf, OP!AckOf, Out!Receipt, OP!Receipt,
       Out!MarkOutboundStatusByExternalID, OP!MarkOutboundStatusByExternalID,
       Out!Matching, OP!Matching, Out!LifecycleRank, OP!LifecycleRank, Out!Provided,
       OP!Provided, Out!Metrics, OP!Metrics

LEMMA SameDeleteIntegration ==
  ASSUME NEW i PROVE Out!DeleteIntegration(i) <=> OP!DeleteIntegration(i)
BY DEF Out!DeleteIntegration, OP!DeleteIntegration, Out!Cascade, OP!Cascade, Out!NoRow,
       OP!NoRow, Out!Provided, OP!Provided, Out!Metrics, OP!Metrics

LEMMA SameCrash ==
  Out!Crash <=> OP!Crash
BY DEF Out!Crash, OP!Crash, Out!Requests, OP!Requests, Out!Active, OP!Active,
       Out!Provided, OP!Provided

LEMMA SameNext == Out!Next <=> OP!Next
<1>1. \A r : Out!Step(r) <=> OP!Step(r)
  BY SameLookup, SameRejectAndAudit, SameAppendAccepted, SamePrepare, SameDispatchOk,
     SameDispatchFailed, SameMarkSentStep, SameMarkFailedStep DEF Out!Step, OP!Step
<1>2. QED
  BY <1>1, SameReceive, SameProviderAccepts, SameCountSent, SameStatusUpdate,
     SameDeleteIntegration, SameCrash
     DEF Out!Next, OP!Next, Out!Requests, OP!Requests, Out!AckOf, OP!AckOf

LEMMA SameInit == Out!Init <=> OP!Init
BY DEF Out!Init, OP!Init, Out!Requests, OP!Requests, Out!Input, OP!Input, Out!EmptyTable,
       OP!EmptyTable, Out!NoRow, OP!NoRow

LEMMA SameVars == UNCHANGED Out!vars <=> UNCHANGED OP!vars
BY DEF Out!vars, OP!vars

LEMMA SameTable == Out!Table = OP!Table
BY DEF Out!Table, OP!Table, Out!Row, OP!Row, Out!NoRow, OP!NoRow, Out!AuditStatus,
       OP!AuditStatus, Out!Direction, OP!Direction

-----------------------------------------------------------------------------
(* What a step of Gateway is to Connection and to Outbound.                *)

USE OwnerAssumption, ProviderAssumption, SentinelAssumption
USE DEF evolutionVars, callVars, GoTo, Finish, SetInstance, Exists

LEMMA StepOfConnection == [GatewayNext]_allVars => [Next]_vars
BY DEF GatewayNext, Next, allVars

\* A step of Connection leaves the table of integrations as Outbound sees it,
\* or is the last step of a disconnect and takes one row out of it.
LEMMA RowsOfConnection ==
  ASSUME IInv,
         \/ \E c \in Clients : Step(c) \/ \E request \in Call : Begin(c, request)
         \/ \E i \in Integrations : Scan(i) \/ SessionLost(i)
         \/ \E request \in late : TakesEffect(request)
  PROVE  /\ crashes' = crashes
         /\ \/ /\ {i \in Integrations : Exists(i)}' = {i \in Integrations : Exists(i)}
               /\ \A i \in Integrations : Exists(i) => row'[i] # "deleted"
            \/ \E c \in Clients :
                 /\ DeleteRow(c)
                 /\ Exists(call[c].integration)
                 /\ row' = [row EXCEPT ![call[c].integration] = "deleted"]
<1> DEFINE Same == /\ {i \in Integrations : Exists(i)}' = {i \in Integrations : Exists(i)}
                   /\ \A i \in Integrations : Exists(i) => row'[i] # "deleted"
<1>1. row' = row => Same
  OBVIOUS
<1>2. ASSUME NEW c \in Clients, Activate(c)
      PROVE  crashes' = crashes /\ Same
  BY <1>2, CallType DEF IInv, TypeOK, Activate
<1>3. ASSUME NEW c \in Clients, DeleteRow(c)
      PROVE  /\ crashes' = crashes
             /\ \/ Same
                \/ /\ Exists(call[c].integration)
                   /\ row' = [row EXCEPT ![call[c].integration] = "deleted"]
  <2>1. CASE row' = row
    BY <1>1, <1>3, <2>1 DEF DeleteRow
  <2>2. CASE row' = [row EXCEPT ![call[c].integration] = "deleted"]
    BY <1>3, <2>2, CallType DEF IInv, TypeOK, DeleteRow
  <2>3. QED BY <1>3, <2>1, <2>2 DEF DeleteRow
<1>4. ASSUME NEW c \in Clients,
             \/ Lookup(c) \/ CreateInstance(c) \/ SetWebhook(c) \/ ConnectionState(c)
             \/ GetQR(c) \/ LogoutInstance(c) \/ DeleteInstance(c)
             \/ \E request \in Call : Begin(c, request)
      PROVE  crashes' = crashes /\ row' = row
  BY <1>4 DEF Lookup, CreateInstance, SetWebhook, ConnectionState, GetQR, LogoutInstance,
     DeleteInstance, Begin
<1>5. ASSUME \/ \E i \in Integrations : Scan(i) \/ SessionLost(i)
             \/ \E request \in late : TakesEffect(request)
      PROVE  crashes' = crashes /\ row' = row
  BY <1>5 DEF Scan, SessionLost, TakesEffect
<1> HIDE DEF Same
<1>6. \/ crashes' = crashes /\ Same
      \/ \E c \in Clients :
           /\ DeleteRow(c) /\ crashes' = crashes
           /\ Exists(call[c].integration)
           /\ row' = [row EXCEPT ![call[c].integration] = "deleted"]
  BY <1>1, <1>2, <1>3, <1>4, <1>5 DEF Step, ConnectStep, DisconnectStep
<1>7. QED BY <1>6 DEF Same

\* What Connection does to the trail is nothing, or the cascade of that row.
LEMMA TrailOfConnection ==
  ASSUME IInv, audit \in Out!Table, TakeTrailAlong,
         \/ \E c \in Clients : Step(c) \/ \E request \in Call : Begin(c, request)
         \/ \E i \in Integrations : Scan(i) \/ SessionLost(i)
         \/ \E request \in late : TakesEffect(request)
  PROVE  \/ UNCHANGED Out!vars
         \/ \E c \in Clients : \E i \in Integrations :
              DeleteRow(c) /\ i = call[c].integration /\ Out!DeleteIntegration(i)
<1>1. CASE /\ {i \in Integrations : Exists(i)}' = {i \in Integrations : Exists(i)}
           /\ \A i \in Integrations : Exists(i) => row'[i] # "deleted"
  <2>1. audit' = [e \in Entries |-> audit[e]]
    BY <1>1 DEF TakeTrailAlong
  <2>2. audit' = audit
    BY <2>1 DEF Out!Table
  <2>3. QED BY <1>1, <2>2, RowsOfConnection DEF TakeTrailAlong, Out!vars
<1>2. CASE \E c \in Clients :
             /\ DeleteRow(c)
             /\ Exists(call[c].integration)
             /\ row' = [row EXCEPT ![call[c].integration] = "deleted"]
  <2>1. PICK c \in Clients : /\ DeleteRow(c)
                             /\ Exists(call[c].integration)
                             /\ row' = [row EXCEPT ![call[c].integration] = "deleted"]
    BY <1>2
  <2>2. PICK gone \in Integrations : gone = call[c].integration
    BY <2>1, CallType DEF DeleteRow
  <2>3. \A i \in Integrations : Exists(i) /\ row'[i] = "deleted" <=> i = gone
    BY <2>1, <2>2 DEF IInv, TypeOK
  <2>4. {i \in Integrations : Exists(i)}' = {i \in Integrations : Exists(i)} \ {gone}
    BY <2>1, <2>2 DEF IInv, TypeOK
  <2>5. audit' = [e \in Entries |-> IF audit[e].integration = gone THEN Out!NoRow ELSE audit[e]]
    BY <2>2, <2>3 DEF TakeTrailAlong
  <2>6. crashes' = crashes /\ gone \in {i \in Integrations : Exists(i)}
    BY <2>1, <2>2, RowsOfConnection
  <2>7. Out!DeleteIntegration(gone)
    BY <2>4, <2>5, <2>6
    DEF Out!DeleteIntegration, Out!Cascade, Out!Provided, Out!Metrics, TakeTrailAlong
  <2>8. QED BY <2>1, <2>2, <2>7
<1>3. QED BY <1>1, <1>2, RowsOfConnection

LEMMA SendStepOfOutbound ==
  ASSUME NEW r \in Entries, SendStep(r)
  PROVE  Out!Next
BY DEF SendStep, ProviderAccepts, StatusUpdate, Out!Next, Out!Requests

-----------------------------------------------------------------------------
\* Both parts keep their invariants.
GatewayInv == IInv /\ OP!IInv

LEMMA GatewayInitInv == GatewayInit => GatewayInv
<1> SUFFICES ASSUME GatewayInit PROVE GatewayInv
  OBVIOUS
<1>1. TypeOK
  BY FaultAssumption DEF GatewayInit, TypeOK, Answer
<1>2. ASSUME NEW c \in Clients PROVE CallInv(c)
  BY DEF GatewayInit, CallInv, ConnectPc, DisconnectPc
<1>3. ASSUME NEW i \in Integrations PROVE PairedInv(i)
  BY DEF GatewayInit, PairedInv
<1>4. OP!IInv
  BY SameInit, OP!InitInv, OutboundAssumed DEF GatewayInit
<1>5. QED BY <1>1, <1>2, <1>3, <1>4 DEF GatewayInv, IInv

LEMMA StepOfOutbound ==
  ASSUME GatewayInv, [GatewayNext]_allVars
  PROVE  [Out!Next]_(Out!vars)
<1>1. audit \in Out!Table
  <2>1. audit \in OP!Table
    BY DEF GatewayInv, OP!IInv, OP!TypeOK
  <2>2. QED BY <2>1, SameTable
<1>2. CASE UNCHANGED allVars
  BY <1>2 DEF allVars, vars, sendVars, Out!vars
<1>3. CASE UNCHANGED vars /\ \E r \in Entries : SendStep(r)
  BY <1>3, SendStepOfOutbound
<1>4. ASSUME NEW i \in Integrations, Out!DeleteIntegration(i)
      PROVE  Out!Next
  BY <1>4 DEF Out!Next
<1>5. QED BY <1>1, <1>2, <1>3, <1>4, TrailOfConnection DEF GatewayNext, GatewayInv

LEMMA GatewayNextInv == GatewayInv /\ [GatewayNext]_allVars => GatewayInv'
<1> SUFFICES ASSUME GatewayInv, [GatewayNext]_allVars PROVE GatewayInv'
  OBVIOUS
<1>1. IInv'
  BY StepOfConnection, NextInv DEF GatewayInv
<1>2. [OP!Next]_(OP!vars)
  BY StepOfOutbound, SameNext, SameVars
<1>3. OP!IInv'
  BY <1>2, OP!NextInv, OutboundAssumed DEF GatewayInv
<1>4. QED BY <1>1, <1>3 DEF GatewayInv

\* Nothing that a send does breaks the invariant of Connection, and nothing
\* that a connect or a disconnect does breaks that of Outbound.
THEOREM GatewayInvariance == GatewaySpec => []GatewayInv
BY GatewayInitInv, GatewayNextInv, PTL DEF GatewaySpec

\* Sending among connects and disconnects is the sending of Outbound.
THEOREM SendingImplementsOutbound == GatewaySpec => SendsAsOutbound
<1>1. GatewayInit => Out!Init
  BY DEF GatewayInit
<1>2. QED BY <1>1, StepOfOutbound, GatewayInvariance, PTL DEF GatewaySpec, SendsAsOutbound

LEMMA SendingIsOutbounds == GatewaySpec => OP!Spec
<1>1. GatewayInit => OP!Init
  BY SameInit DEF GatewayInit
<1>2. GatewayInv /\ [GatewayNext]_allVars => [OP!Next]_(OP!vars)
  BY StepOfOutbound, SameNext, SameVars
<1>3. QED BY <1>1, <1>2, GatewayInvariance, PTL DEF GatewaySpec, OP!Spec

\* So what is proved of Outbound holds among connects and disconnects too: a
\* send that has looked its integration up before the disconnect still goes
\* out recorded, for the owner, is answered and accounted for truthfully, and
\* its status only moves forward.
THEOREM SendingIsSafe ==
  GatewaySpec => /\ [](/\ Out!OwnedDispatch /\ Out!AuditedDispatch
                        /\ Out!TrailTruthful /\ Out!AnswerHonest)
                 /\ Out!StatusMovesForward
<1>1. OP!Spec => /\ []OP!OwnedDispatch /\ []OP!AuditedDispatch
                 /\ []OP!TrailTruthful /\ []OP!AnswerHonest
                 /\ OP!StatusMovesForward
  BY OP!TenantBoundary, OP!DispatchAudited, OP!TrailIsTruthful, OP!AnswersAreHonest,
     OP!StatusOnlyAdvances, OutboundAssumed, PTL
<1>2. /\ OP!OwnedDispatch => Out!OwnedDispatch
      /\ OP!AuditedDispatch => Out!AuditedDispatch
      /\ OP!TrailTruthful => Out!TrailTruthful
      /\ OP!AnswerHonest => Out!AnswerHonest
  BY DEF OP!OwnedDispatch, Out!OwnedDispatch, OP!AuditedDispatch, Out!AuditedDispatch,
     OP!TrailTruthful, Out!TrailTruthful, OP!AnswerHonest, Out!AnswerHonest,
     OP!Present, Out!Present, OP!Requests, Out!Requests
<1>3. [OP!TrailAdvances]_(OP!vars) => [Out!TrailAdvances]_(Out!vars)
  BY SameVars DEF OP!TrailAdvances, Out!TrailAdvances, OP!Advances, Out!Advances,
     OP!Forward, Out!Forward, OP!Requests, Out!Requests
<1>4. QED
  BY SendingIsOutbounds, <1>1, <1>2, <1>3, PTL DEF OP!StatusMovesForward, Out!StatusMovesForward

\* With a database that answers, every answered send has its outcome in the
\* trail and the counter is bounded, also across disconnects.
THEOREM SendingIsRecorded ==
  ASSUME ~SendFaults
  PROVE  GatewaySpec => [](Out!OutcomeRecorded /\ Out!MetricsBounded)
<1>1. OP!Spec => []OP!OutcomeRecorded
  BY OP!OutcomesAreRecorded, OutboundAssumed
<1>2. OP!Spec => []OP!MetricsBounded
  BY OP!MetricsAreBounded, OutboundAssumed
<1>3. OP!OutcomeRecorded => Out!OutcomeRecorded
  BY DEF OP!OutcomeRecorded, Out!OutcomeRecorded, OP!Requests, Out!Requests
<1>4. OP!MetricsBounded => Out!MetricsBounded
  BY DEF OP!MetricsBounded, Out!MetricsBounded, OP!Cardinality, Out!Cardinality
<1>5. QED BY SendingIsOutbounds, <1>1, <1>2, <1>3, <1>4, PTL

\* Among connects and disconnects the trail keeps the promise of
\* DeliveryPromise, which knows of neither.
THEOREM SendingKeepsPromise == GatewaySpec => Out!PromiseKept
<1>1. OP!Spec => OP!PromiseKept
  BY OP!PromiseIsKept, OutboundAssumed
<1>2. OP!Promise!PromiseInit <=> Out!Promise!PromiseInit
  BY DEF OP!Promise!PromiseInit, Out!Promise!PromiseInit, OP!Present, Out!Present,
     OP!Requests, Out!Requests
<1>3. [OP!Promise!PromiseNext]_(OP!Promise!promiseVars)
        <=> [Out!Promise!PromiseNext]_(Out!Promise!promiseVars)
  BY DEF OP!Promise!PromiseNext, Out!Promise!PromiseNext, OP!Promise!promiseVars,
     Out!Promise!promiseVars, OP!Promise!Record, Out!Promise!Record, OP!Promise!Leave,
     Out!Promise!Leave, OP!Promise!Settle, Out!Promise!Settle, OP!Promise!Advance,
     Out!Promise!Advance, OP!Promise!Remove, Out!Promise!Remove, OP!Promise!Move,
     Out!Promise!Move, OP!Present, Out!Present, OP!Requests, Out!Requests
<1>4. QED
  BY SendingIsOutbounds, <1>1, <1>2, <1>3, PTL
     DEF OP!PromiseKept, Out!PromiseKept, OP!Promise!Spec, Out!Promise!Spec

-----------------------------------------------------------------------------
\* A send never takes an entry out of the trail.
LEMMA SendKeepsEntries ==
  ASSUME GatewayInv, UNCHANGED vars, NEW r \in Entries, SendStep(r),
         NEW e \in Entries, Out!Present(audit, e)
  PROVE  Out!Present(audit', e)
<1>1. [OP!Next]_(OP!vars)
  BY SendStepOfOutbound, SameNext
<1>2. OP!Advances(e)
  BY <1>1, OP!NextAdvances, OutboundAssumed DEF GatewayInv, OP!Requests
<1>3. {i \in Integrations : Exists(i)}' = {i \in Integrations : Exists(i)}
  BY DEF vars
<1>4. audit'[e].status # "absent"
  BY <1>2, <1>3 DEF OP!Advances, OP!Forward, Out!Present
<1>5. QED BY <1>4 DEF Out!Present

\* An entry leaves the trail in no other step than the last one of a disconnect
\* that the owner of its integration asked for.
THEOREM OwnersRemove == GatewaySpec => TrailRemovedByOwner
<1>1. ASSUME GatewayInv, [GatewayNext]_allVars PROVE OwnerRemoves
  <2> SUFFICES ASSUME NEW e \in Entries, Out!Present(audit, e), ~Out!Present(audit', e)
               PROVE  \E c \in Clients :
                        /\ pc[c] = "delete"
                        /\ call[c].op = "disconnect"
                        /\ call[c].integration = audit[e].integration
                        /\ call[c].consumer = Owner[audit[e].integration]
    BY DEF OwnerRemoves
  <2>1. audit' # audit
    OBVIOUS
  <2>2. ~(UNCHANGED vars /\ \E r \in Entries : SendStep(r))
    BY <1>1, SendKeepsEntries
  <2>3. audit \in Out!Table
    BY <1>1, SameTable DEF GatewayInv, OP!IInv, OP!TypeOK
  <2>4. PICK c \in Clients, i \in Integrations :
          DeleteRow(c) /\ i = call[c].integration /\ Out!DeleteIntegration(i)
    BY <1>1, <2>1, <2>2, <2>3, TrailOfConnection
    DEF GatewayInv, GatewayNext, allVars, sendVars, Out!vars
  <2>5. audit[e].integration = i
    BY <2>4 DEF Out!DeleteIntegration, Out!Cascade, Out!Present
  <2>6. pc[c] = "delete" /\ CallInv(c)
    BY <1>1, <2>4 DEF DeleteRow, GatewayInv, IInv
  <2>7. QED BY <2>4, <2>5, <2>6 DEF CallInv, DisconnectPc
<1>2. QED BY <1>1, GatewayInvariance, PTL DEF GatewaySpec, TrailRemovedByOwner

-----------------------------------------------------------------------------
\* The invariant about the webhook does not look at sends.
LEMMA GatewayReady == GatewaySpec => []ReadyIInv
<1>1. GatewayInit => ReadyIInv
  BY GatewayInitInv DEF GatewayInv, GatewayInit, ReadyIInv, ReadyInv
<1>2. ReadyIInv /\ [GatewayNext]_allVars => ReadyIInv'
  BY ReadyNext, StepOfConnection
<1>3. QED BY <1>1, <1>2, PTL DEF GatewaySpec

\* A message goes out through Evolution only by an instance whose webhook is
\* set, so that its receipts come back, unless the owner has asked to
\* disconnect: however many calls of one owner overlap, fail or land late.
THEOREM TakenMessagesTracked == GatewaySpec => TakenIsTracked
<1>1. ASSUME GatewayInv, ReadyIInv, [GatewayNext]_allVars PROVE TakenWhenHooked
  <2> SUFFICES ASSUME NEW q \in accepted' \ accepted,
                      Provider[req[q].integration] = "evolution"
               PROVE  req[q].integration \in hooked \cup leaving
    BY DEF TakenWhenHooked
  <2>1. accepted' # accepted
    OBVIOUS
  <2>2. PICK r \in Entries : SendStep(r)
    BY <1>1, <2>1 DEF GatewayNext, TakeTrailAlong, allVars, sendVars
  <2>3. ProviderAccepts(r) /\ r = q
    BY <2>1, <2>2 DEF SendStep, ProviderAccepts, StatusUpdate, Out!ProviderAccepts,
       Out!StatusUpdate, Out!Receive, Out!CountSent, Out!Step, Out!Lookup, Out!RejectAndAudit,
       Out!AppendAccepted, Out!Prepare, Out!DispatchOk, Out!DispatchFailed, Out!MarkSentStep,
       Out!MarkFailedStep, Out!Provided
  <2>4. inst[req[q].integration] = "open" /\ req[q].integration \in Integrations
    BY <1>1, <2>3 DEF ProviderAccepts, GatewayInv, OP!IInv, OP!TypeOK, OP!Input, OP!Requests
  <2>5. QED BY <1>1, <2>4 DEF ReadyIInv, ReadyInv
<1>2. QED
  BY <1>1, GatewayInvariance, GatewayReady, PTL DEF GatewaySpec, TakenIsTracked

\* The promise of AnsweredHooked, while messages are being sent.
THEOREM AnsweredHookedSending == GatewaySpec => []HookedWhenAnswered
<1>1. ReadyIInv => HookedWhenAnswered
  BY DEF ReadyIInv, ReadyInv, HookedWhenAnswered
<1>2. QED BY <1>1, GatewayReady, PTL
=============================================================================
