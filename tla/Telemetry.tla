----------------------------- MODULE Telemetry ------------------------------
(***************************************************************************)
(* What a consumer is told about an integration, on top of Outbound: the   *)
(* counters of IntegrationHandler.Status (http/integration_handler.go),    *)
(* which SummarizeIntegration (postgres/audit_repository.go) computes from *)
(* the trail, and the sent messages of a month in Redis                    *)
(* (redis/message_metrics.go).  Time is added to Outbound: entries carry   *)
(* created_at and the counter's key has a month.                           *)
(***************************************************************************)
EXTENDS Outbound

CONSTANTS
  MaxClock,      \* bound on the clock, which ticks in months
  DefaultLimit,  \* entries of a listing, when the query does not say (100)
  MaxLimit       \* the most a query may ask for (500)

ASSUME ClockAssumption == MaxClock \in Nat
ASSUME LimitAssumption == DefaultLimit \in 1..MaxLimit /\ MaxLimit \in Nat

Months == 0..MaxClock

VARIABLES
  clock,
  createdAt,  \* created_at of each entry, in time of NewAuditEntry
  monthly,    \* the counters in Redis, a key by integration and month
  startedAt,  \* when the goroutine that counts each message was started
  takenAt     \* when the provider took each message (ghost)

telemetryVars == <<createdAt, monthly, startedAt, takenAt>>
allVars == <<vars, clock, telemetryVars>>

TelemetryTypeOK ==
  /\ clock \in Months
  /\ createdAt \in [Requests -> Months]
  /\ monthly \in [Integrations -> [Months -> Nat]]
  /\ startedAt \in [Requests -> Months]
  /\ takenAt \in [Requests -> Months]

TelemetryInit ==
  /\ Init
  /\ clock = 0
  /\ createdAt = [r \in Requests |-> 0]
  /\ monthly = [i \in Integrations |-> [m \in Months |-> 0]]
  /\ startedAt = [r \in Requests |-> 0]
  /\ takenAt = [r \in Requests |-> 0]

-----------------------------------------------------------------------------
\* Faulty variant: the month in which the send began.
SentMonthsOfEntry(r) == {createdAt[r]}

\* sentKey: the month in which the goroutine of IncrementSent calls time.Now,
\* some time between its start and the pipeline's execution.
SentMonths(r) == startedAt[r]..clock

\* A key that is missing reads as 0.
GetMonthly(i, month) == monthly[i][month]

\* Faulty variant: the zero value of a time left in the entry.
StampZero ==
  createdAt' = [r \in Requests |->
    IF pc[r] = "lookup" /\ pc'[r] \in {"accept", "reject"} THEN -1 ELSE createdAt[r]]

\* NewAuditEntry takes the time before the entry is inserted.
Stamp ==
  createdAt' = [r \in Requests |->
    IF pc[r] = "lookup" /\ pc'[r] \in {"accept", "reject"} THEN clock ELSE createdAt[r]]

Count ==
  \/ \E r \in counting \ counting' : \E m \in SentMonths(r) :
       LET i == req[r].integration
       IN monthly' = [monthly EXCEPT ![i][m] = @ + (sentCount'[i] - sentCount[i])]
  \/ counting \subseteq counting' /\ UNCHANGED monthly

\* What the time adds to a step of Outbound.
Observe ==
  /\ Stamp /\ Count
  /\ startedAt' = [r \in Requests |-> IF r \in counting' \ counting THEN clock ELSE startedAt[r]]
  /\ takenAt' = [r \in Requests |-> IF r \in accepted' \ accepted THEN clock ELSE takenAt[r]]
  /\ UNCHANGED clock

Tick ==
  /\ clock < MaxClock
  /\ clock' = clock + 1
  /\ UNCHANGED <<vars, telemetryVars>>

TelemetryNext ==
  \/ Next /\ Observe
  \/ Tick

\* Every call a handler makes ends: the HTTP clients have timeouts and pgx
\* returns or fails.  Clients, providers, operators and the clock owe nothing.
TelemetrySpec ==
  /\ TelemetryInit
  /\ [][TelemetryNext]_allVars
  /\ \A r \in Requests : WF_allVars(Step(r) /\ Observe)

-----------------------------------------------------------------------------
(* SummarizeIntegration: the rows its filtered counts count.               *)

Outbounds(i, since) ==
  {r \in Requests : /\ audit[r].integration = i /\ audit[r].direction = "outbound"
                    /\ createdAt[r] >= since}

\* Faulty variants: receipts move an entry out of the count; refusals forgotten.
SentStrict(i, since) == {r \in Outbounds(i, since) : audit[r].status = "sent"}
FailedOnly(i, since) == {r \in Outbounds(i, since) : audit[r].status = "failed"}

Sent(i, since) ==
  {r \in Outbounds(i, since) : audit[r].status \in {"sent", "delivered", "read"}}

Failed(i, since) ==
  {r \in Outbounds(i, since) : audit[r].status \in {"failed", "rejected", "forward_failed"}}

\* ORDER BY created_at DESC LIMIT 1: one of the latest, if there is any.
LastOutboundStatus(i) ==
  {audit[r].status : r \in {r \in Outbounds(i, 0) :
                              \A q \in Outbounds(i, 0) : createdAt[q] <= createdAt[r]}}

\* IntegrationHandler.Status, with a window that begins at `since'.
Status(consumer, i, since) ==
  IF i \notin rows \/ Owner[i] # consumer
  THEN [code |-> "not_found", sent_24h |-> 0, failed_24h |-> 0, last_outbound_status |-> {}]
  ELSE [code |-> "ok",
        sent_24h   |-> Cardinality(Sent(i, since)),
        failed_24h |-> Cardinality(Failed(i, since)),
        last_outbound_status |-> LastOutboundStatus(i)]

(* ListByConsumer and AuditHandler.List.                                  *)

\* The WHERE clause; NoIntegration and "" stand for a filter that is left out.
Listable(consumer, integration, status) ==
  {r \in Requests : /\ Present(audit, r) /\ req[r].consumer = consumer
                    /\ integration \in {NoIntegration, audit[r].integration}
                    /\ status \in {"", audit[r].status}}

Limit(limit) == IF limit \in 1..MaxLimit THEN limit ELSE DefaultLimit

\* The entries of a listing, the newest up to the limit: a set of possible
\* ones, as entries of one time come in any order.
ListByConsumer(consumer, integration, status, limit) ==
  LET all == Listable(consumer, integration, status)
  IN {s \in SUBSET all :
        /\ Cardinality(s) <= Limit(limit)
        /\ s # all => Cardinality(s) = Limit(limit)
        /\ \A new \in s, old \in all \ s : createdAt[new] >= createdAt[old]}

\* The limit GET /v1/audit asks for: the number in its query, if there is one.
AskedLimit(query) == IF query = {} THEN DefaultLimit ELSE CHOOSE n \in query : TRUE

List(consumer, integration, status, query) ==
  ListByConsumer(consumer, integration, status, AskedLimit(query))

-----------------------------------------------------------------------------
\* What Status tells a consumer agrees with the answers of Send: with nothing
\* in progress on an integration, sent_24h counts the 204s and failed_24h the
\* other answers of the window, those to other consumers included.
Answered(i, since, verdicts) ==
  {r \in Requests : /\ req[r].integration = i /\ pc[r] = "done" /\ createdAt[r] >= since
                    /\ answer[r] \in verdicts}

AccountsAdd ==
  \A i \in rows : \A since \in Months :
    (\A r \in Requests : req[r].integration = i => pc[r] \in {"idle", "done"}) =>
      LET status == Status(Owner[i], i, since)
          ok     == Answered(i, since, {"no_content"})
          other  == Answered(i, since, {"bad_request", "not_found", "bad_gateway"})
      IN /\ status.sent_24h = Cardinality(ok)
         /\ status.failed_24h = Cardinality(other)

\* An owner finds in its listing whatever Status counts as sent, or the page
\* is full of entries at least as new: nothing sent through an integration is
\* in another consumer's part of the trail (audit_handler.go, for "spotting a
\* consumer sending outside its normal pattern").
OwnerFindsSent ==
  \A i \in rows : \A filter \in {i, NoIntegration} :
    \A query \in {{}} \cup {{n} : n \in 0 .. MaxLimit + 1} :
      \A page \in List(Owner[i], filter, "", query) : \A r \in Sent(i, 0) \ page :
        /\ Cardinality(page) = Limit(AskedLimit(query))
        /\ \A listed \in page : createdAt[listed] >= createdAt[r]

SentStays ==
  \A i \in rows \cap rows' : \A since \in Months : Sent(i, since) \subseteq Sent(i, since)'

\* From one poll to the next sent_24h only drops as entries leave the window:
\* no receipt, failure or deletion of another integration takes one out.
SentNeverDrops == [][SentStays]_allVars

\* A message never counts in a month before the provider took it, although the
\* counting goroutine outlives the request: up to the end of any month no more
\* is counted than was taken (IncrementSent).
CountedBy(i, m) == LET sum[k \in 0..m] == GetMonthly(i, k) + (IF k = 0 THEN 0 ELSE sum[k - 1]) IN sum[m]

MonthlyNotEarly ==
  \A i \in Integrations : \A m \in Months :
    CountedBy(i, m)
      <= Cardinality({r \in accepted : req[r].integration = i /\ takenAt[r] <= m})
=============================================================================
