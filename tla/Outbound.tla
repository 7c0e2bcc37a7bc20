------------------------------ MODULE Outbound ------------------------------
(***************************************************************************)
(* A consumer's POST /v1/integrations/:id/messages, from the HTTP handler  *)
(* (http/message_handler.go) through SendMessageUseCase.Execute            *)
(* (application/send_message.go) and the provider adapter's SendMessage,   *)
(* together with what runs at the same time: other sends, the delivery     *)
(* receipts of Evolution (http/webhook_evolution_handler.go), the metrics  *)
(* goroutines, the deletion of an integration, and the process stopping.   *)
(*                                                                         *)
(* One request is one attempt and one audit entry.  Every database call    *)
(* and every HTTP call is a step of its own; between two of them anything  *)
(* else may happen.  The network keeps no state for receipts: a provider   *)
(* may report on an accepted message at any time, in any order, any number *)
(* of times or never.                                                      *)
(***************************************************************************)
EXTENDS AuditTrail, FiniteSets

CONSTANTS
  Consumers,
  Owner,          \* [Integrations -> Consumers], integrations.consumer_id
  Provider,       \* [Integrations -> STRING], integrations.provider
  DbFaults,       \* whether calls to the database or to Redis may fail
  MaxCrashes      \* bound on process stops

\* A send request stands for the audit entry of its attempt and for the id a
\* provider gives its message: both are fresh for every request.
Requests == Entries

ASSUME MessageIdAssumption == MessageIds = Requests
ASSUME OwnerAssumption == Owner \in [Integrations -> Consumers]
ASSUME ProviderAssumption == Provider \in [Integrations -> {"meta", "evolution", "twilio"}]
ASSUME FaultAssumption == DbFaults \in BOOLEAN /\ MaxCrashes \in Nat

\* The keys of the providers map main.go builds.
WiredProviders == {"meta", "evolution", "twilio"}

\* What a request asks: a phone is "e164" when domain.IsE164 accepts it.
Input == [consumer : Consumers, integration : Integrations, phone : {"e164", "malformed"}]

VARIABLES
  req,        \* the input of each request; never changes
  rows,       \* the integrations that have a row
  audit,      \* message_audit_entries
  pc,         \* where the goroutine of each request is
  answer,     \* the HTTP answer the request's goroutine has come to
  messageId,  \* the message id SendMessage returned
  inFlight,   \* requests whose HTTP call the provider has not served yet
  accepted,   \* requests whose message the provider took (ghost)
  receipts,   \* receipts the gateway answered with 200 (ghost)
  counting,   \* goroutines about to count a sent message in Redis
  sentCount,  \* the counter in Redis
  crashes

vars == <<req, rows, audit, pc, answer, messageId, inFlight, accepted,
          receipts, counting, sentCount, crashes>>

Active    == {"lookup", "reject", "accept", "prepare", "dispatch", "marksent", "markfailed"}
Answer    == {"none", "no_content", "bad_request", "not_found", "bad_gateway"}
Receipt   == {"delivered", "read"}

TypeOK ==
  /\ req \in [Requests -> Input]
  /\ rows \subseteq Integrations
  /\ audit \in Table
  /\ pc \in [Requests -> Active \cup {"idle", "done", "crashed"}]
  /\ answer \in [Requests -> Answer]
  /\ messageId \in [Requests -> Requests \cup {NoMessageId}]
  /\ inFlight \subseteq Requests
  /\ accepted \subseteq Requests
  /\ receipts \in [Requests -> SUBSET Receipt]
  /\ counting \subseteq Requests
  /\ sentCount \in [Integrations -> Nat]
  /\ crashes \in 0..MaxCrashes

Init ==
  /\ req \in [Requests -> Input]
  /\ rows = Integrations
  /\ audit = EmptyTable
  /\ pc = [r \in Requests |-> "idle"]
  /\ answer = [r \in Requests |-> "none"]
  /\ messageId = [r \in Requests |-> NoMessageId]
  /\ inFlight = {}
  /\ accepted = {}
  /\ receipts = [r \in Requests |-> {}]
  /\ counting = {}
  /\ sentCount = [i \in Integrations |-> 0]
  /\ crashes = 0

-----------------------------------------------------------------------------
\* Moves of a request's goroutine.

GoTo(r, label) == pc' = [pc EXCEPT ![r] = label]

Finish(r, verdict) ==
  /\ pc' = [pc EXCEPT ![r] = "done"]
  /\ answer' = [answer EXCEPT ![r] = verdict]

Provided == <<messageId, inFlight, accepted>>
Metrics  == <<counting, sentCount>>
World    == <<req, rows, receipts, crashes>>

\* Faulty variant: ownership left to the provider.
VerdictNoOwner(r) ==
  IF req[r].phone = "malformed" THEN "bad_request" ELSE "none"

\* Which check of Execute refuses the request, in the order they are made.
Verdict(r) ==
  IF Owner[req[r].integration] # req[r].consumer THEN "not_found"
  ELSE IF req[r].phone = "malformed" THEN "bad_request"
  ELSE IF Provider[req[r].integration] \notin WiredProviders THEN "bad_gateway"
  ELSE "none"

Entry(r, status) ==
  [status      |-> status,
   direction   |-> "outbound",
   integration |-> req[r].integration,
   externalId  |-> NoMessageId]

-----------------------------------------------------------------------------
(* Faulty variants of steps below, one plausible mistake each, that the    *)
(* properties are tested against.  Next uses none of them.                 *)

\* No return after rejectAndAudit.
RejectAndAuditNoReturn(r) ==
  /\ pc[r] = "reject"
  /\ GoTo(r, "accept")
  /\ req[r].integration \in rows
  /\ audit' = AppendEntry(audit, r, Entry(r, "rejected"))
  /\ UNCHANGED <<answer, Provided, Metrics, World>>

\* The error of Append ignored.
AppendAcceptedUnchecked(r) ==
  /\ pc[r] = "accept"
  /\ GoTo(r, "prepare")
  /\ \/ /\ req[r].integration \in rows
        /\ audit' = AppendEntry(audit, r, Entry(r, "accepted"))
     \/ DbFaults /\ UNCHANGED audit
  /\ UNCHANGED <<answer, Provided, Metrics, World>>

\* A timeout taken for a success.
DispatchFailedAsSent(r) ==
  /\ pc[r] = "dispatch"
  /\ GoTo(r, "marksent")
  /\ UNCHANGED <<audit, answer, Provided, Metrics, World>>

\* The metrics goroutine started before the status is looked at.
DispatchFailedCounted(r) ==
  /\ pc[r] = "dispatch"
  /\ GoTo(r, "markfailed")
  /\ answer' = [answer EXCEPT ![r] = "bad_gateway"]
  /\ counting' = counting \cup {r}
  /\ UNCHANGED <<audit, Provided, sentCount, World>>

\* An HTTP client without a timeout.
DispatchFailedNoTimeout(r) ==
  /\ pc[r] = "dispatch"
  /\ r \notin inFlight
  /\ GoTo(r, "markfailed")
  /\ answer' = [answer EXCEPT ![r] = "bad_gateway"]
  /\ UNCHANGED <<audit, Provided, Metrics, World>>

\* The send error not returned to the handler.
MarkFailedSwallowed(r) ==
  /\ pc[r] = "markfailed"
  /\ Finish(r, "no_content")
  /\ audit' = UpdateStatus(audit, r, "failed")
  /\ UNCHANGED <<Provided, Metrics, World>>

\* The entry not updated after a failed send.
MarkFailedSkipped(r) ==
  /\ pc[r] = "markfailed"
  /\ GoTo(r, "done")
  /\ UNCHANGED <<audit, answer, Provided, Metrics, World>>

-----------------------------------------------------------------------------
\* A send request reaches the handler with a consumer, an id, a phone and a
\* message that parse.
Receive(r) ==
  /\ pc[r] = "idle"
  /\ GoTo(r, "lookup")
  /\ UNCHANGED <<audit, answer, Provided, Metrics, World>>

\* integrations.GetByID and the three checks on what it returned.
Lookup(r) ==
  /\ pc[r] = "lookup"
  /\ \/ /\ req[r].integration \in rows
        /\ GoTo(r, IF Verdict(r) = "none" THEN "accept" ELSE "reject")
        /\ UNCHANGED answer
     \/ /\ req[r].integration \notin rows
        /\ Finish(r, "not_found")
     \/ /\ DbFaults
        /\ Finish(r, "bad_gateway")
  /\ UNCHANGED <<audit, Provided, Metrics, World>>

\* rejectAndAudit: the error of Append is dropped, the answer is the verdict.
RejectAndAudit(r) ==
  /\ pc[r] = "reject"
  /\ Finish(r, Verdict(r))
  /\ \/ /\ req[r].integration \in rows
        /\ audit' = AppendEntry(audit, r, Entry(r, "rejected"))
     \/ /\ DbFaults \/ req[r].integration \notin rows
        /\ UNCHANGED audit
  /\ UNCHANGED <<Provided, Metrics, World>>

\* audit.Append of the accepted entry.  It fails on the foreign key when the
\* integration went away; a fault may lose the statement or only its reply.
AppendAccepted(r) ==
  /\ pc[r] = "accept"
  /\ \/ /\ req[r].integration \in rows
        /\ audit' = AppendEntry(audit, r, Entry(r, "accepted"))
        /\ \/ GoTo(r, "prepare") /\ UNCHANGED answer
           \/ DbFaults /\ Finish(r, "bad_gateway")
     \/ /\ DbFaults \/ req[r].integration \notin rows
        /\ Finish(r, "bad_gateway")
        /\ UNCHANGED audit
  /\ UNCHANGED <<Provided, Metrics, World>>

\* SendMessage up to its HTTP call: it reads the integration again, builds the
\* body (a message type may be unsupported, a Twilio template not created).
Prepare(r) ==
  /\ pc[r] = "prepare"
  /\ \/ /\ req[r].integration \in rows
        /\ GoTo(r, "dispatch")
        /\ inFlight' = inFlight \cup {r}
        /\ UNCHANGED answer
     \/ /\ req[r].integration \in rows \/ DbFaults
        /\ GoTo(r, "markfailed")
        /\ answer' = [answer EXCEPT ![r] = "bad_gateway"]
        /\ UNCHANGED inFlight
     \/ /\ req[r].integration \notin rows
        /\ GoTo(r, "markfailed")
        /\ answer' = [answer EXCEPT ![r] = "not_found"]
        /\ UNCHANGED inFlight
  /\ UNCHANGED <<audit, messageId, accepted, Metrics, World>>

\* The provider takes the message; nothing of the gateway changes.
ProviderAccepts(r) ==
  /\ r \in inFlight
  /\ inFlight' = inFlight \ {r}
  /\ accepted' = accepted \cup {r}
  /\ UNCHANGED <<audit, pc, answer, messageId, Metrics, World>>

\* A 2xx answer.  The metrics goroutine starts; the id is read from the body
\* and stays empty when the body does not parse.
DispatchOk(r) ==
  /\ pc[r] = "dispatch"
  /\ r \in accepted
  /\ GoTo(r, "marksent")
  /\ counting' = counting \cup {r}
  /\ \E id \in {r, NoMessageId} : messageId' = [messageId EXCEPT ![r] = id]
  /\ UNCHANGED <<audit, answer, inFlight, accepted, sentCount, World>>

\* A refusal of the provider (r leaves inFlight unaccepted), or the 10 s
\* timeout of the HTTP client or a broken connection: the provider may have
\* taken the message, or may still take it.
DispatchFailed(r) ==
  /\ pc[r] = "dispatch"
  /\ GoTo(r, "markfailed")
  /\ answer' = [answer EXCEPT ![r] = "bad_gateway"]
  /\ \/ inFlight' = inFlight \ {r}
     \/ UNCHANGED inFlight
  /\ UNCHANGED <<audit, messageId, accepted, Metrics, World>>

\* MarkSent; its error is dropped and the answer is 204 all the same.
MarkSentStep(r) ==
  /\ pc[r] = "marksent"
  /\ Finish(r, "no_content")
  /\ \/ audit' = MarkSent(audit, r, messageId[r])
     \/ DbFaults /\ UNCHANGED audit
  /\ UNCHANGED <<Provided, Metrics, World>>

\* UpdateStatus(failed); its error is dropped.
MarkFailedStep(r) ==
  /\ pc[r] = "markfailed"
  /\ GoTo(r, "done")
  /\ \/ audit' = UpdateStatus(audit, r, "failed")
     \/ DbFaults /\ UNCHANGED audit
  /\ UNCHANGED <<answer, Provided, Metrics, World>>

\* A pipeline whose reply is lost is sent again by go-redis, three times at
\* most (MaxRetries is left at its default).
RedisRetries == 3

\* The goroutine that counts a sent message (IncrementSent); errors are logged.
\* When Redis fails the count is lost, or applied once for each attempt.
CountSent(r) ==
  /\ r \in counting
  /\ counting' = counting \ {r}
  /\ \E n \in IF DbFaults THEN 0 .. 1 + RedisRetries ELSE {1} :
       sentCount' = [sentCount EXCEPT ![req[r].integration] = @ + n]
  /\ UNCHANGED <<audit, pc, answer, Provided, World>>

-----------------------------------------------------------------------------
\* The acks Evolution sends and what mapEvolutionAckStatus makes of them.
AckOf ==
  [raw \in {"DELIVERY_ACK", "DELIVERED", "READ", "PLAYED", "SERVER_ACK", "PENDING"} |->
     IF raw \in {"DELIVERY_ACK", "DELIVERED"} THEN "delivered"
     ELSE IF raw \in {"READ", "PLAYED"} THEN "read"
     ELSE "ignored"]

\* Faulty variant: acks that are no receipt recorded too.
StatusUpdateUnmapped(r, ack) ==
  /\ r \in accepted
  /\ Provider[req[r].integration] = "evolution"
  /\ \/ audit' = MarkOutboundStatusByExternalID(audit, req[r].integration, r, AckOf[ack])
     \/ DbFaults /\ UNCHANGED audit
  /\ receipts' = [receipts EXCEPT ![r] = @ \cup {AckOf[ack]}]
  /\ UNCHANGED <<req, rows, pc, answer, Provided, Metrics, crashes>>

\* A messages.update webhook about the message of r.  A statement that fails is
\* logged and the webhook answered 200 all the same.
StatusUpdate(r, ack) ==
  /\ r \in accepted
  /\ Provider[req[r].integration] = "evolution"
  /\ AckOf[ack] \in Receipt
  /\ \/ audit' = MarkOutboundStatusByExternalID(audit, req[r].integration, r, AckOf[ack])
     \/ DbFaults /\ UNCHANGED audit
  /\ receipts' = [receipts EXCEPT ![r] = @ \cup {AckOf[ack]}]
  /\ UNCHANGED <<req, rows, pc, answer, Provided, Metrics, crashes>>

\* DELETE FROM integrations, the last step of a disconnect (see Connection).
DeleteIntegration(i) ==
  /\ i \in rows
  /\ rows' = rows \ {i}
  /\ audit' = Cascade(audit, i)
  /\ UNCHANGED <<req, pc, answer, Provided, receipts, Metrics, crashes>>

\* The process stops; its goroutines are gone, an HTTP call may be served yet.
Crash ==
  /\ crashes < MaxCrashes
  /\ crashes' = crashes + 1
  /\ pc' = [r \in Requests |-> IF pc[r] \in Active THEN "crashed" ELSE pc[r]]
  /\ counting' = {}
  /\ UNCHANGED <<req, rows, audit, answer, Provided, receipts, sentCount>>

Step(r) ==
  \/ Lookup(r)
  \/ RejectAndAudit(r)
  \/ AppendAccepted(r)
  \/ Prepare(r)
  \/ DispatchOk(r)
  \/ DispatchFailed(r)
  \/ MarkSentStep(r)
  \/ MarkFailedStep(r)

\* Every request was answered or lost: the model, like the server, may rest.
Next ==
  \/ \E r \in Requests :
       \/ Receive(r)
       \/ Step(r)
       \/ ProviderAccepts(r)
       \/ CountSent(r)
       \/ \E ack \in DOMAIN AckOf : StatusUpdate(r, ack)
  \/ \E i \in Integrations : DeleteIntegration(i)
  \/ Crash

Spec == Init /\ [][Next]_vars

-----------------------------------------------------------------------------
\* Tenant boundary and number check (send_message.go): whatever reaches a
\* provider was asked by the integration's owner, for a well-formed number.
OwnedDispatch ==
  \A r \in accepted \cup inFlight :
    Owner[req[r].integration] = req[r].consumer /\ req[r].phone = "e164"

\* Recorded before dispatch (send_message.go): a message a provider has, or
\* may yet get, has its entry in the trail as long as its integration exists,
\* however many database calls failed and whenever the process stopped.
AuditedDispatch ==
  \A r \in accepted \cup inFlight :
    req[r].integration \in rows => Present(audit, r)

\* The trail never overstates (audit.go): an entry that says sent or more is
\* about a message the provider took, one that says rejected is not.
TrailTruthful ==
  \A r \in Requests :
    /\ audit[r].status \in {"sent", "delivered", "read"} => r \in accepted
    /\ audit[r].status = "rejected" => r \notin accepted \cup inFlight

\* What the answer of Send tells the consumer (message_handler.go): after 204
\* the provider has the message; after 400 or 404 it never will, so the
\* consumer may correct the request and send again.
AnswerHonest ==
  \A r \in Requests :
    pc[r] = "done" =>
      /\ answer[r] = "no_content" => r \in accepted
      /\ answer[r] \in {"bad_request", "not_found"} => r \notin accepted \cup inFlight

\* With a Redis that answers, the counter never exceeds what the providers
\* took, goroutines that have yet to count included (WithMetrics,
\* IncrementSent), although a timed-out send may have been taken uncounted.
MetricsBounded ==
  \A i \in Integrations :
    sentCount[i] + Cardinality({r \in counting : req[r].integration = i})
      <= Cardinality({r \in accepted : req[r].integration = i})

Forward ==
  {<<"absent", "accepted">>, <<"absent", "rejected">>,
   <<"accepted", "sent">>, <<"accepted", "failed">>,
   <<"sent", "delivered">>, <<"sent", "read">>, <<"delivered", "read">>}

Advances(r) ==
  audit'[r].status # audit[r].status =>
    \/ <<audit[r].status, audit'[r].status>> \in Forward
    \/ req[r].integration \in rows \ rows'

TrailAdvances == \A r \in Requests : Advances(r)

\* A status only moves forward (audit.go, audit_repository.go) although
\* UpdateStatus and MarkSent do not look at the old one and receipts come in
\* any order; the one other change is the cascade of a deleted integration.
StatusMovesForward == [][TrailAdvances]_vars

NewReceiptsShow(recorded) ==
  \A r \in Requests : \A s \in (receipts'[r] \ receipts[r]) \cap recorded :
    audit[r].externalId = r =>
      LifecycleRank(audit'[r].status) >= LifecycleRank(s)

\* With a database that answers, a receipt of a status the column admits that
\* finds its message id in the trail leaves the entry at least as far as it
\* says (webhook_evolution_handler.go).
ReceiptRecorded == [][NewReceiptsShow(StatusCheck)]_vars

\* The same of every receipt, which the handler takes to be recorded "so the
\* channel status reflects 'read'" (webhook_evolution_handler.go).
EveryReceiptRecorded == [][NewReceiptsShow(Receipt)]_vars

\* The trail is never behind a receipt Evolution delivered and the gateway
\* answered with 200, for a message that was reported sent to its consumer.
ReceiptNeverLost ==
  \A r \in Requests :
    (pc[r] = "done" /\ audit[r].externalId = r) =>
      \A s \in receipts[r] : LifecycleRank(audit[r].status) >= LifecycleRank(s)

\* Every attempt is recorded after dispatch too (send_message.go): with a
\* database that answers, the entry of an answered request says how it ended.
OutcomeRecorded ==
  \A r \in Requests :
    (pc[r] = "done" /\ req[r].integration \in rows) =>
      /\ answer[r] = "no_content" => audit[r].status \in {"sent", "delivered", "read"}
      /\ answer[r] = "bad_gateway" => audit[r].status = "failed"
      /\ answer[r] \in {"bad_request", "not_found"} => audit[r].status = "rejected"

\* An attempt does not stay "accepted" (send_message.go): the provider's
\* answer, its error or the HTTP timeout always settles the entry.
EveryAttemptSettles ==
  \A r \in Requests : audit[r].status = "accepted" ~> audit[r].status # "accepted"

\* Refinement: the trail with everything around it keeps the promise.
Promise == INSTANCE DeliveryPromise WITH
  Attempts  <- Requests,
  Channels  <- Integrations,
  channelOf <- [r \in Requests |-> req[r].integration],
  status    <- [r \in Requests |->
                  IF req[r].integration \notin rows THEN "removed"
                  ELSE IF Present(audit, r) THEN audit[r].status ELSE "none"],
  left      <- accepted

PromiseKept == Promise!Spec
=============================================================================
