# Lango in TLA+

Lango is a WhatsApp gateway: consumers (other services) send messages through
it and get the messages their customers write, over three providers: Meta's
Cloud API, Evolution (an unofficial gateway that needs a phone to be paired by
QR code) and Twilio. It keeps an audit trail of everything in PostgreSQL and a
counter of sent messages in Redis. This directory holds a model of its
concurrent core, what TLC checks about it and what TLAPS proves.

Paths below are relative to the repository; `application/`, `domain/`, `http/`,
`postgres/` and so on are directories of `internal/` or `internal/infrastructure/`.

## Inventory

| Part | State | Operations | Hard because | Must hold |
|---|---|---|---|---|
| Audit trail (`domain/audit.go`, `postgres/audit_repository.go`, the migration) | table `message_audit_entries` | Append, UpdateStatus, MarkSent, MarkOutboundStatusByExternalID, the cascade | several writers, two of which ignore the old status | statuses only advance; nothing is said that did not happen |
| Sending (`application/send_message.go`, `http/message_handler.go`) | an audit entry per request | Execute, rejectAndAudit | every database and HTTP call may fail, time out, or lose its reply; the integration may go away in between; the process may stop | tenant boundary, recorded before dispatch, honest answers |
| Provider adapters (`evolutionapi/provider.go`, `whatsapp/`, `twilio/`) | none | SendMessage | a timeout says nothing about what the provider did | a message id belongs to its request |
| Twilio templates (`twilio/provider.go`) | Redis cache by content hash | getOrCreateContentTemplate | a list becomes a template of another shape; concurrent misses; keys shared between accounts | a template says what its list says; templates are reused |
| Receipts (`http/webhook_evolution_handler.go`) | none | handleStatusUpdate | any order, duplicates, before MarkSent | recorded, never undone |
| Metrics (`redis/message_metrics.go`) | counter by integration and month | IncrementSent, GetMonthly | goroutines that outlive their request, and its month | never counts what no provider took, nor before it did |
| Connect, disconnect (`application/connect_integration.go`, `disconnect_integration.go`, `http/integration_handler.go`, `evolutionapi/admin_client.go`) | row `active`; Evolution's instance, webhook, session | Create, Connect, Disconnect | polled, four remote calls between read and write, requests carried out after their caller gave up, races with each other and with a human | active means paired; a disconnected row stays gone; a QR only with its webhook; a disconnect always succeeds |
| Inbound (`http/webhook_*.go`, `application/forward_inbound.go`) | an audit entry per message and delivery | ReceiveWebhook, Execute | redelivery, overlap, callback timeouts, batches | forwarded is true; every acknowledged message has its outcome |
| Evolution filters (`http/webhook_evolution_handler.go`, `pkg/config/config.go`) | none | resolveInboundPhone, age guard, allowlist, extractContent | formats of several versions, synced history, groups, Linked IDs | the bot gets what it is meant to and never itself |
| Phone numbers (`domain/phone.go`, the adapters) | none | IsE164, the address of each provider | one number is written in five ways | an answer reaches the chat the message came from |
| Consumers, keys (`pkg/middleware/consumer_auth.go`, `pkg/auth`) | table `consumers` | ConsumerAuth | - | a request acts for one consumer |
| Reads (`http/audit_handler.go`, `http/integration_handler.go`) | none | ListByConsumer, SummarizeIntegration, List, Get | mix of several consumers' entries, statuses that change under a count | what Status says agrees with the answers of Send |
| Start, configuration, logging | none | main, Load | - | - |

How the parts meet: sends, receipts, inbound messages and disconnects share the
tables `integrations` and `message_audit_entries` and nothing else. There are no
locks and no transactions: each statement is atomic, each handler is a goroutine,
and between two statements of one handler anything may happen. The metrics
goroutines are started by an adapter after a 2xx and nobody waits for them.

`PROJECT.json` lists every part with its status, and every hazard with its line.

## Modules

- `AuditTrail`: the table as a value and each SQL statement as an operator on
  it. `StatusCheck` is the list in the constraint `audit_status_check`, a
  constant, as the code and the committed migration disagree about it.
- `Outbound` extends it: the goroutine of each send request as a program
  counter with one action per database or HTTP call, the provider, receipts,
  counting goroutines, deletion of an integration, and the stop of the process.
- `DeliveryPromise`: the abstract specification of an attempt: recorded before a
  provider can have it, sent only of what was taken, and only forward from
  there. `Outbound!PromiseKept` is the refinement.
- `OutboundProofs`: the theorems about `Outbound`. `OutboundFaultlessProofs`
  extends it: those that need a database and a Redis that answer.
- `Connection`: create, connect and disconnect calls of concurrent clients, of one
  consumer or several, against a model of Evolution's instances, of what it carries
  out late, and of the human with the phone.
- `Inbound` extends `AuditTrail`: webhook deliveries of batches of messages,
  the forward of each, redelivery, the consumer.
- `Telemetry` extends `Outbound` with time: Status and the audit listing as functions
  of the trail, the monthly counters.
- `Gateway` extends `Connection` and instantiates `Outbound` over its rows: sends
  while their integration is connected and disconnected step by step. It is shown
  to be an `Outbound`.
- `TwilioContent`: `Prepare` of `Outbound` seen from near for Twilio: what a list becomes
  as a content template, the templates' cache and the accounts.
- `ConnectionProofs`, `InboundProofs`, `TelemetryProofs` (extends
  `OutboundFaultlessProofs`), `GatewayProofs` (extends `ConnectionProofs`,
  instantiates `OutboundFaultlessProofs`), `TwilioContentProofs`, `ConversationProofs`: the
  theorems about the module of that name.
- `Addressing`: an address as a record of its parts, and the string functions of
  the code on it. `Conversation` extends it: a message through the webhook of its
  provider to the consumer, and the answer back.
- `MCOutbound`, `MCTelemetry`, `MCConnection`, `MCGateway`, `MCInbound`, `MCTwilioContent`:
  values of the constants for TLC. `Conversation` needs only a configuration.

### Correspondence to the code

`Outbound`. A request is its audit entry. `Receive` and the answers are
`MessageHandler.Send`; `Lookup` is `GetByID` and the checks `Verdict` in the order
Execute makes them; `RejectAndAudit`, `AppendAccepted`, `MarkSentStep` and
`MarkFailedStep` are the four writes of Execute, and the errors the code drops are
dropped there. `Prepare` is an adapter up to its HTTP call, the second `GetByID`
included; the call is in `inFlight` from there on. `ProviderAccepts` is the provider
taking it, maybe after the gateway gave up; `DispatchOk` a 2xx answer, with an id
or an answer that does not parse; `DispatchFailed` a refusal, an error or the 10 s
timeout. The creation of a Twilio template is part of `Prepare`: it can only make
it fail. `StatusUpdate` is a messages.update webhook. Only Evolution has one: the
Meta and Twilio handlers take no receipts. `CountSent` is the goroutine of
IncrementSent; a Redis fault loses the count or has it applied once for each of the
four attempts go-redis makes.

`Connection`. A client has one call at a time. `Lookup` is the read and the checks;
the steps of connect are `CreateInstance`, `SetWebhook`, `ConnectionState`, `Activate`,
`GetQR`, those of disconnect `LogoutInstance`, `DeleteInstance`, `DeleteRow`. Nothing keeps
a consumer from running several calls at once: each is a client of its own. What
Evolution does with a request is an operator (`Create`, `Hook`, `StartPairing`,
`EndSession`, `Remove`); a request whose caller timed out, lost its connection or
stopped goes to `late`, from where `TakesEffect` may carry it out at any time, or
never. `late` is a set: equal requests are one there, so a request that has been
carried out may stay in it. `seenActive` is the flag as the call read it.
`NotFound` is the answer that hides foreign integrations: 404, or 204 for a
disconnect.

`Inbound`. An entry is (batch, delivery, position). `Arrive` starts a handler; what
the filters of the handlers drop is a batch without messages. `Verify` is the check
of a signature, made by the handlers whose secret is configured (`Checked`; Evolution
has none): 401 if it does not fit, and 403 if Twilio's integration cannot be read. `Lookup`,
`AppendReceived`, `CallConsumer`, `CallbackOk`/`CallbackFailed`, `RecordOutcome` are the
steps of Execute; `NextMessage` is the loop over Meta's payload. `Redeliver` and
`RedeliverEarly` are a provider that got no 200, or none in time.

`Telemetry`. `Stamp`, `Count`, `startedAt` and the ghost `takenAt` are added to each step of
`Outbound`. The month of a count is any between the start of its goroutine, which
takes the time before its pipeline runs, and the count (`SentMonths`). `Status` is IntegrationHandler.Status with the counts of
SummarizeIntegration as sets of entries, for every begin of its window; `List` is
AuditHandler.List with its limit and its filters.

`Gateway`. Outbound's `rows` are the integrations whose row Connection has, and its
`DeleteIntegration` is `DeleteRow`, whose cascade is `TakeTrailAlong`. Evolution takes
a message only of an instance that is open, and sends receipts only where the
webhook is set. Calls and sends are otherwise those of the two modules.

`TwilioContent`. A list is a record of title, footer, body, button and rows, a text in it
what fits WhatsApp's limit and what is beyond; `Rendering` is the template made of it,
without title and footer, with the texts cut (`Truncate`). A send asks for at most one
template, so a template is named after the send that made it. `CacheHit` and `CacheMiss` are redis.Get, `CreateOk` and
`CreateFailed` the answer of the Content API, `CacheSet` redis.Set with its error
dropped, `Post` the messages API. `hashListMessage` is injective: two lists share a
key only if they are the same.

`Conversation`. `Payload` writes a message as Evolution may, `EvolutionSender` is the
handler up to the forward, in the order of its returns; `MetaSender` and
`TwilioSender` are the other two. `Wanted` says of the message itself, without JIDs and
without the provider, what lines 54 to 70 of `pkg/config/config.go` let the bot have:
listed people, fresh messages, enabled groups. The run compares the two for
Evolution, but for groups under Linked IDs (`Masked`); there, and for Meta and Twilio, the
code and that text part (see the disagreements). `Answer` is a consumer that
puts a "+" before the sender of an event; Evolution reports the answer back.

Variables that only properties read: `accepted` (also what lets a 2xx come) and
`receipts` in `Outbound`, `takenAt` in `Telemetry`, `paired` and `leaving` in `Connection`,
`served` in `Inbound`, `cold` in `TwilioContent`, the chats in `events` and `posts` and
`last` in `Conversation`.

Operators named after a step with a suffix (`VerdictNoOwner`, `ActivateUpsert`, ...)
are faulty variants. No specification uses them; each shows that some property
would notice the mistake, and `PROJECT.json` pairs them.

## Runs

| Run | Instance | Shows |
|---|---|---|
| `outbound_faults` | 2 requests of any consumer, number and integration; database and Redis faults; 1 stop; full status list | type, `OwnedDispatch`, `AuditedDispatch`, `TrailTruthful`, `AnswerHonest`, `StatusMovesForward`, `PromiseKept` |
| `outbound_live` | 2 requests, no faults, a clock of 2 months, listings of 1 or 2 entries, fairness; full status list | type, `OutcomeRecorded`, `MetricsBounded`, `AccountsAdd`, `OwnerFindsSent`, `MonthlyNotEarly`, `EveryAttemptSettles`, `SentNeverDrops`, `ReceiptRecorded` |
| `gateway_races` | 2 clients of either consumer on an Evolution integration, overlapping as they like, late deletes, database faults; beside 1 send | type, `ActiveWasPaired`, `ConnectedIsActive`, `HookedWhenAnswered`, `NeverResurrected`, `TouchedByOwner`, `TrailRemovedByOwner`, `TakenIsTracked`, `SendsAsOutbound` |
| `connection_live` | 1 client, an Evolution and a Twilio integration, every Evolution call failing but not for ever and landing late, 1 stop, polling | `DisconnectRemovesRow`, `PollingActivates` |
| `inbound_faults` | any provider, Twilio's signature checked; a payload of 1 message and an empty one, 2 deliveries each, acks of the message's id, database faults, 1 stop | type, `ForwardedIsServed`, `InboundMovesForward` |
| `inbound_live` | a Meta payload of 2 messages, its signature checked, 2 deliveries, 1 stop, no database faults, fairness | `AckedRecorded`, `ReceivedSettles`, `BatchAcked` |
| `twilio_content` | 2 sends of any of 2 accounts and 3 lists or a text; Redis there or not, failing or forgetting; templates made late or removed | type, `RightContent`, `ReusedWhenCached`, `EverySendEnds` |
| `conversation` | 1 message of 7 chats and 7 bodies, in 72 formats of Evolution or of Meta or Twilio, under 64 configurations; its answers | type, `ForwardsWanted`, `AnswersArrive` |

Receipts need a constraint that admits them, so the other runs of `Outbound` take the
status list of the code; `receipts_schema` takes the list of the committed migration,
with which the database refuses every receipt. `ReceiptRecorded` is about the
statuses the constraint admits, whatever these are, and a database that answers:
a statement that fails is logged and its receipt lost. `EveryReceiptRecorded` is what
the handler's comment takes for granted.

### Disagreements between code and documentation

Each has a run that finds the behaviour, and a finding with the quoted line.

| Run | Property | In short |
|---|---|---|
| `receipts_schema` | `EveryReceiptRecorded` | the migration's constraint has neither delivered nor read: no receipt is ever stored |
| `receipts_early` | `ReceiptNeverLost` | a receipt that overtakes MarkSent is answered 200 and lost |
| `disconnect_orphan` | `SessionEnds` | connect racing disconnect leaves an instance no call can remove |
| `inbound_unaudited` | `AckedAudited` | an inbound message acknowledged but in no trail |

Some more can be read off the code and have no run. The properties beside them are
stated so that they do not take these for right:

- Nothing keeps the calls of one owner from overlapping. A connect sets the webhook, a
  disconnect deletes the instance, another connect that had read the row makes it anew,
  and the first goes on to GetQR: it returns the QR of an instance without webhook, where
  `connect_integration.go` (line 38) says create, point the webhook back, return a QR.
  `HookedWhenAnswered` and `TakenIsTracked` therefore end where the owner asks for a
  disconnect.
- The last outbound status of an integration that "never sent anything" should be empty
  (`domain/audit.go`, line 79); a refused send of another consumer is recorded under the
  integration (`rejectAndAudit`) and becomes it. `AccountsAdd` counts such entries and
  says nothing of the last status.
- Title, footer and button of a list are "forwarded as-is to the provider"
  (`message_handler.go`, line 28); Twilio's template drops the first two and cuts the
  button to 20 runes, so lists that differ in them go out alike. `RightContent` is about
  what the template does have.
- The cache of Twilio templates is keyed by content alone (`twilio/provider.go`, line 138):
  a second account that sends the same list is given a SID of the first, against lists
  being "fully and reliably supported" (line 6).
- "BotAllowedPhones, when non-empty, restricts inbound processing" and the maximal age
  is that of an inbound message (`pkg/config/config.go`, lines 60 to 66); the handlers of
  Meta and Twilio look at neither. Meta's payloads have a timestamp, which is not read.
- "BotEnableGroupReplies allows the bot to reply to group messages" (line 68); a group with
  addressingMode lid is skipped all the same, as the handler looks for remoteJidAlt, which
  only persons have.
- The cascade of the migration (line 59) deletes entries that `domain/audit.go` says
  are never deleted; `rejectAndAudit` writes numbers that failed validation although
  `ToNumber` is "always validated"; a failed MarkSent is dropped, so a 204 may leave
  the entry at accepted (`OutcomeRecorded` is about a database that answers).
- forward_failed is among the failures SummarizeIntegration counts, but only inbound
  entries have it and the count is of outbound ones. The count includes the refused
  sends of other consumers, which no listing of the owner's shows.
- An age that is not a positive number disables the guard instead of the default taking
  its place, and a list of blanks restricts nothing.
- `From` of an event is "E.164" (`domain/event.go`) without the plus, and may be a
  group. The row a customer taps reaches the consumer as `Content`, where the comment
  of extractContent says `ButtonPayload`.
- IsE164 takes a dash and digits after a number without "@g.us". A message without a
  timestamp passes the age guard, as the comment speaks only of messages that have one.
- The SID of a template that was removed at Twilio stays in Redis for up to 24 h, and the
  sends of its list fail that long.

### Bounds

- Two requests, two clients: the interactions are between a handler and one other
  party (another handler on the same integration, a receipt, a deletion), and the
  two integrations have different owners and providers. Requests share nothing but
  the integration's row and the counter. The proofs need no bound.
- `MaxCrashes` = 1: a stop loses every goroutine and nothing else, and a second one
  finds only handlers started since.
- `MaxAttempts` = 2 deliveries: enough for two handlers of one payload to overlap
  and for a retry after a stop.
- Two messages in a payload: the second is where an early return would show. Only
  Meta sends more than one, so such a payload restricts the provider to Meta.
- The counter takes at most four counts for one send under a Redis fault
  (`RedisRetries`), and the number of requests bounds it.
- `MaxClock` = 1 in `Telemetry`: a month ends once, at any point of either request; the
  counts are checked for a window from either month. `DefaultLimit` = 1 and `MaxLimit` = 2
  stand for 100 and 500, so that two entries do not fit into a listing and every kind of
  limit is asked for: none, 0, one admitted, one above the maximum.
- `gateway_races`: one Evolution integration, as integrations share nothing, and clients
  that are interchangeable (symmetry; the run has no liveness). Two clients are enough for
  a call of each consumer or two of one. Of the calls to Evolution the deletes may fail and
  land late there (`EvoFaults`), as these alone take an instance away; all kinds of them,
  and a stop, are in `connection_live` with one client, whose own calls they land in.
  `SendFaults` is FALSE: failing statements of sends are in `outbound_faults`. The theorems
  have all of these together, for any number of clients; those of `Gateway` no stop.
- One send in `Gateway`, whose number is well-formed, without stops: what it adds to its
  parts is the meeting of a send with connects and disconnects.
- `connection_live`: both integrations have one owner, as the other consumer's calls
  end at the lookup.
- `TwilioContent`: two sends overlap or follow each other, with the same list or
  account or not. A third one is beyond what TLC explores in minutes and only repeats the
  second. Of the three lists two differ in the title alone and one in the order of its
  rows; texts are within the limits or beyond them.
- `Conversation`: `MaxWritten` = 1 as messages do not affect each other, `MaxClock` = 2,
  ages of 1 (the default) and 2: a message is fresh, at the limit, or stale. Ids have 8
  and 15 digits (persons), 15 and 10, 18 and 20 (groups): the lengths in use and those
  at the limits of the pattern.

`CHECK_DEADLOCK FALSE` in `Outbound`, `Inbound`, `TwilioContent` and `Conversation`: when every request has been
answered the model rests, as the server does. `Connection` is checked for
deadlock: a client can always call again.

### Fairness

Weak fairness of each handler's next step: the HTTP clients of the adapters and
the admin client have timeouts of 10 s, the callback client one of 5 s, and a
database call returns or fails. Nothing is assumed of the provider taking a
message, of receipts, of consumers serving a callback, of humans, of deletions.
`Redeliver` is fair because providers retry without a 200 (the comment of
`ForwardInboundUseCase.Execute` says so). `TelemetrySpec` has the fairness of sends,
`FairSpec` of `TwilioContent` that of its sends, and
`LiveSpec` of `Connection` that of calls; it adds strong fairness of
the owner's connect call: the comment of `ConnectIntegrationUseCase` says callers
poll until connected; it is strong because another call of the client may be in
progress at any time. It also assumes that a call to Evolution made again and again
does not fail every time, which only `PollingActivates` needs. That Evolution carries
a late request out, or Redis drops a key, is never assumed.

## Proofs

Every invariant and every action property that a passing run checks is also a
theorem, for every value of the constants (with the conditions the tables name),
and so are the two refinements. The assumptions are those the modules name:
message ids are fresh for each request, owners and providers are total, the status
list lies between the migration's and the code's, the sentinels are no ids, the
bounds are numbers. "No faults" is `~DbFaults`, in `Gateway` `~SendFaults`: its database
may fail under connects and disconnects. Providers and Evolution may fail and the process
may stop all the same.

| Module | Theorem | States |
|---|---|---|
| `OutboundProofs` | `TypeCorrect` | `TypeOK` |
| | `TenantBoundary` | `OwnedDispatch` |
| | `DispatchAudited` | `AuditedDispatch` |
| | `TrailIsTruthful` | `TrailTruthful` |
| | `AnswersAreHonest` | `AnswerHonest` |
| | `StatusOnlyAdvances` | `StatusMovesForward` |
| | `ReceiptsAreRecorded` | `ReceiptRecorded`, no faults |
| | `PromiseIsKept` | `Outbound` implements `DeliveryPromise` |
| `OutboundFaultlessProofs` | `OutcomesAreRecorded` | `OutcomeRecorded`, no faults |
| | `MetricsAreBounded` | `MetricsBounded`, no faults |
| `TelemetryProofs` | `TimeOnlyObserves` | `TelemetrySpec` implies the `Spec` of `Outbound` |
| | `TelemetryTypeCorrect` | `TelemetryTypeOK` |
| | `SentOnlyGrows` | `SentNeverDrops` |
| | `StatusAddsUp` | `AccountsAdd`, no faults |
| | `SentIsListed` | `OwnerFindsSent` |
| | `MonthsNotEarly` | `MonthlyNotEarly`, no faults |
| `ConnectionProofs` | `TypeCorrect` | `TypeOK` |
| | `ActivePaired` | `ActiveWasPaired` |
| | `ConnectedActive` | `ConnectedIsActive` |
| | `DeletedForGood` | `NeverResurrected` |
| | `OwnersOnly` | `TouchedByOwner` |
| | `PairedHooked` | an instance being paired or open has its webhook, unless its owner ever asked for a disconnect |
| | `AnsweredHooked` | `HookedWhenAnswered` |
| `GatewayProofs` | `SendingImplementsOutbound` | `SendsAsOutbound`: `Gateway` implements `Outbound` |
| | `SendingIsSafe` | `OwnedDispatch`, `AuditedDispatch`, `TrailTruthful`, `AnswerHonest`, `StatusMovesForward` of `Outbound`, in `Gateway` |
| | `SendingIsRecorded` | `OutcomeRecorded` and `MetricsBounded`, in `Gateway`, no faults |
| | `SendingKeepsPromise` | `Gateway` implements `DeliveryPromise` |
| | `OwnersRemove` | `TrailRemovedByOwner` |
| | `TakenMessagesTracked` | `TakenIsTracked` |
| | `AnsweredHookedSending` | `HookedWhenAnswered`, in `Gateway` |
| `InboundProofs` | `TypeCorrect` | `TypeOK` |
| | `ForwardedServed` | `ForwardedIsServed` |
| | `AckedIsRecorded` | `AckedRecorded`, no faults |
| | `InboundForward` | `InboundMovesForward` |
| `TwilioContentProofs` | `TypeCorrect`, `ContentIsRight`, `TemplatesAreReused` | `TypeOK`, `RightContent`, `ReusedWhenCached` |
| `ConversationProofs` | `TypeCorrect`, `WantedForwarded`, `AnswersReturn` | `TypeOK`, `ForwardsWanted`, `AnswersArrive` |

Where a module has a theorem `Invariance` (`GatewayInvariance`), it states its
inductive invariant. Each proof has a lemma for each action, with one step per part
of the invariant, and `NextInv` (or the like) puts them together; TLC checked each of these
invariants on the run of its module before. Action properties and refinements then follow
from the invariant before a step, action by action.

**`Outbound`.** `AuditedDispatch` needs that a goroutine about to dispatch still has
its entry as long as the integration exists (`PcInv`), which the cascade keeps because
it takes the row and the integration in one statement. `OwnedDispatch` needs that
whatever is past the checks passed them (`CheckedInv`), and stays so, as owners never
change. `StatusMovesForward` needs the key fact of the design: before MarkSent no
row carries the request's message id (`RowInv`), so no receipt can find it, and so
the blind writes of MarkSent and UpdateStatus always find accepted, or no row.
`AnswerHonest` needs to know what the goroutine has decided to answer (`AnswerInv`).

**Without faults.** `SettledInv` says of a goroutine on its way that its entry is
still "accepted": then the last write, which the code does not check, sets it to what
the answer says, and a receipt only finds entries that are past it. `CountInv` is stronger than
`MetricsBounded`: it counts only messages whose goroutine is past its HTTP call.
Without that, a 2xx would add a goroutine that counts and no message to the bound.

**`Telemetry`.** Its steps are those of `Outbound` or change only the clock, so the
invariants of `Outbound` carry over. For `AccountsAdd`, `SettledInv` and that whoever
is done has an answer (`AnsweredInv`). For `OwnerFindsSent` only the invariants of `Outbound`
are needed: what was sent passed the owner's check, so its entry is listable, and a
listing leaves something out only when it is full. For `MonthlyNotEarly` the counters of future months are 0 and
the sum up to now is the counter of `Outbound` (`MonthlyInv`); past months no longer
change. The sum is a recursive function. The library's induction theorems take
an operator, which the provers cannot instantiate; instead `NatLeast` is derived from
the well-foundedness of strict subsets, and what the sum computes is shown by a
smallest counterexample.

**`Connection`.** `CallInv` says what a call past its lookup may rely on although its
copy of the row is old: the integration is its consumer's, a row read as active is now
active or deleted, and a call about to write active does so for a paired phone. The
webhook (`ReadyInv`) is only certain before the owner first asks for a disconnect:
until then no request to remove the instance is on its way or late, so the webhook,
once set, stays, and a call past `SetWebhook`, a late request for a QR and an instance
that is being paired all imply it. After that nothing is certain (the first disagreement
without a run); the theorems say so with `leaving` and assume nothing about how consumers
call.

**`Gateway`.** The invariant is that of `Connection` and that of `Outbound` (as `OP`), each
with the other's steps as stutters or, for `DeleteRow`, as `DeleteIntegration`. `OP`
instantiates `OutboundFaultlessProofs`, so the theorems need no second proof; the `Same...` lemmas
say that it is the `Outbound` which `Gateway` instantiates.

**`Inbound`.** An entry has one handler (`Handler`). `RowInv` places each entry before, at
or after the handler's position in its payload: no row before its time, "received"
at most while the handler is at it, "forwarded" only if the consumer took it. An
acknowledged delivery is the last one, and has ended (`AckInv`); without faults a
handler leaves no message behind it without an outcome (`FaultlessInv`). An ack never finds an
entry, because entries of inbound messages are not outbound.

**`TwilioContent`.** A SID a send has come to is one of its list (`SidInv`), and so is what
Redis holds (`CacheInv`): each of the two keeps the other across a hit and a set. That
the `Rendering` of a list says what the list says is a lemma (`RenderingSays`).
`WarmInv` carries the reuse: who is past redis.Set with a template of its own has left
it in Redis, or the key has been lost since.

**`Conversation`.** Events name a chat by its phone, whatever the format was, and only
persons and groups get into events. Most of the proof is about the operators: which
JID each format yields (`SenderOfMessage`), that the handler passes exactly what the
settings let in (`PassesWanted`), and that a phone with a "+" in front passes IsE164
and comes out of the adapter as an address of the same chat (`PhoneReaches`).

Only model-checked: the liveness properties (`EveryAttemptSettles`, `PollingActivates`,
`DisconnectRemovesRow`, `ReceivedSettles`, `BatchAcked`, `EverySendEnds`), which are out
of the reach of the provers. The four properties
the code violates have their counterexamples and no theorem.

## Not modelled

Key generation and hashing, the reads List and Get of integrations, the challenge
of Meta, logging, connections, wiring: see `PROJECT.json` for the reason of each.
`SendTemplate` has no caller. A signature fits or does not; the cryptography is
left out. A consumer is never deleted by the program, so the cascade from
`consumers` is not in the model. Counters expire after 13 months, which is longer
than any run. Descriptions of rows and several sections, which `buildMessage` never
makes, are left out of `TwilioContent`.
