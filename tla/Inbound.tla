------------------------------ MODULE Inbound -------------------------------
(***************************************************************************)
(* Inbound messages: the webhook handlers of the three providers           *)
(* (http/webhook_handler.go, webhook_twilio_handler.go,                    *)
(* webhook_evolution_handler.go), each of which hands the messages of a    *)
(* payload, one after the other, to ForwardInboundUseCase.Execute          *)
(* (application/forward_inbound.go): record the message, call the          *)
(* consumer's callback, record how that ended.                             *)
(*                                                                         *)
(* A batch is the payload of one webhook call; Meta puts several messages  *)
(* in one.  A provider that gets no 200 in time delivers the batch again,  *)
(* while the first handler may still be at work.  An entry is              *)
(* <<batch, attempt, position>>.                                           *)
(***************************************************************************)
EXTENDS AuditTrail, Sequences

CONSTANTS
  Batches,
  Messages,       \* [Batches -> Seq(MessageIds)], what each payload carries
  Channel,        \* [Batches -> Integrations], the id in the webhook's URL
  Checked,        \* providers whose webhooks are to be signed: Meta with an app
                  \* secret, Twilio with a public base URL, if these are configured
  DbFaults,       \* whether database calls may fail
  MaxAttempts,    \* bound on deliveries of one batch
  MaxCrashes      \* bound on process stops

ASSUME BatchAssumption ==
  /\ Messages \in [Batches -> Seq(MessageIds)]
  /\ Channel \in [Batches -> Integrations]
ASSUME CheckedAssumption == Checked \subseteq {"meta", "twilio"}
ASSUME BoundAssumption == MaxAttempts \in Nat \ {0} /\ MaxCrashes \in Nat /\ DbFaults \in BOOLEAN

Attempts == Batches \X (1..MaxAttempts)
Positions(b) == 1..Len(Messages[b])

ASSUME EntryAssumption ==
  Entries = UNION {{<<b, n, k>> : n \in 1..MaxAttempts, k \in Positions(b)} : b \in Batches}

VARIABLES
  provider,   \* integrations.provider; never changes
  rows,       \* integrations that have a row
  callbacks,  \* integrations whose consumer has a callback URL that a request can
              \* be built for; the program never changes it
  audit,      \* message_audit_entries
  attempts,   \* deliveries of each batch so far
  pc,         \* where the handler of each attempt is
  pos,        \* the message of the batch it is at
  verdict,    \* the status Execute is about to record
  calling,    \* callback requests the consumer has not served yet
  served,     \* callback requests the consumer served (ghost)
  acked,      \* batches whose provider got its 200
  crashes

vars == <<provider, rows, callbacks, audit, attempts, pc, pos, verdict, calling, served, acked, crashes>>

Providers == {"meta", "evolution", "twilio"}

Working == {"verify", "lookup", "append", "consumer", "callback", "settle", "respond"}
Ended   == {"answered", "refused", "crashed"}

TypeOK ==
  /\ provider \in [Integrations -> Providers]
  /\ rows \subseteq Integrations
  /\ callbacks \subseteq Integrations
  /\ audit \in Table
  /\ attempts \in [Batches -> 0..MaxAttempts]
  /\ pc \in [Attempts -> Working \cup Ended \cup {"unsent"}]
  /\ pos \in [Attempts -> Nat \ {0}]
  /\ verdict \in [Attempts -> {"forwarded", "forward_failed"}]
  /\ calling \subseteq Entries
  /\ served \subseteq Entries
  /\ acked \subseteq Batches
  /\ crashes \in 0..MaxCrashes

Init ==
  /\ provider \in [Integrations -> Providers]
  /\ \A b \in Batches : Len(Messages[b]) > 1 => provider[Channel[b]] = "meta"
  /\ rows = Integrations
  /\ callbacks \in SUBSET Integrations
  /\ audit = EmptyTable
  /\ attempts = [b \in Batches |-> 0]
  /\ pc = [a \in Attempts |-> "unsent"]
  /\ pos = [a \in Attempts |-> 1]
  /\ verdict = [a \in Attempts |-> "forward_failed"]
  /\ calling = {}
  /\ served = {}
  /\ acked = {}
  /\ crashes = 0

-----------------------------------------------------------------------------
Entry(a) == <<a[1], a[2], pos[a]>>
Integration(a) == Channel[a[1]]
Message(a) == Messages[a[1]][pos[a]]

GoTo(a, label) == pc' = [pc EXCEPT ![a] = label]

\* The return of Execute: on to the next message of the payload, or the answer.
NextMessage(a) ==
  IF pos[a] < Len(Messages[a[1]])
  THEN /\ pos' = [pos EXCEPT ![a] = @ + 1]
       /\ GoTo(a, "lookup")
  ELSE /\ GoTo(a, "respond")
       /\ UNCHANGED pos

Settle(a, status) ==
  /\ GoTo(a, "settle")
  /\ verdict' = [verdict EXCEPT ![a] = status]

Outside == <<provider, rows, callbacks, attempts, acked, crashes>>

-----------------------------------------------------------------------------
(* Faulty variants of steps below, one plausible mistake each, that the    *)
(* properties are tested against.  Next uses none of them.                 *)

\* The status code of the consumer not looked at, nor the error.
CallbackFailedUnchecked(a) ==
  /\ pc[a] = "callback"
  /\ Settle(a, "forwarded")
  /\ UNCHANGED <<audit, pos, calling, served, Outside>>

\* An HTTP client without a timeout.
CallbackFailedNoTimeout(a) ==
  /\ pc[a] = "callback"
  /\ Entry(a) \notin calling
  /\ Settle(a, "forward_failed")
  /\ UNCHANGED <<audit, pos, calling, served, Outside>>

\* A failed forward ends the batch.
RecordOutcomeStops(a) ==
  /\ pc[a] = "settle"
  /\ IF verdict[a] = "forwarded" THEN NextMessage(a) ELSE GoTo(a, "respond") /\ UNCHANGED pos
  /\ audit' = UpdateStatus(audit, Entry(a), verdict[a])
  /\ UNCHANGED <<verdict, calling, served, Outside>>

\* A status that the schema does not know.
AppendReceivedPending(a) ==
  /\ pc[a] = "append"
  /\ GoTo(a, "consumer")
  /\ audit' = AppendEntry(audit, Entry(a),
                 [status |-> "pending", direction |-> "inbound",
                  integration |-> Integration(a), externalId |-> Message(a)])
  /\ UNCHANGED <<pos, verdict, calling, served, Outside>>

\* The answer withheld when the last forward failed.
RespondOnlyForwarded(a) ==
  /\ pc[a] = "respond"
  /\ GoTo(a, IF verdict[a] = "forwarded" THEN "answered" ELSE "failed")
  /\ acked' = IF a[2] = attempts[a[1]] /\ verdict[a] = "forwarded"
              THEN acked \cup {a[1]} ELSE acked
  /\ UNCHANGED <<provider, rows, callbacks, audit, attempts, pos, verdict, calling, served, crashes>>

-----------------------------------------------------------------------------
\* A delivery reaches its handler.
Arrive(b) ==
  /\ attempts' = [attempts EXCEPT ![b] = @ + 1]
  /\ pc' = [pc EXCEPT ![<<b, attempts[b] + 1>>] =
              IF provider[Channel[b]] \in Checked THEN "verify"
              ELSE IF Messages[b] = <<>> THEN "respond" ELSE "lookup"]
  /\ UNCHANGED <<provider, rows, callbacks, audit, pos, verdict, calling, served, acked, crashes>>

Deliver(b) ==
  /\ attempts[b] = 0
  /\ Arrive(b)

\* No 200 came for the last delivery: it was refused or its handler died.
Redeliver(b) ==
  /\ attempts[b] \in 1..(MaxAttempts - 1)
  /\ b \notin acked
  /\ pc[<<b, attempts[b]>>] \in {"refused", "crashed"}
  /\ Arrive(b)

\* The provider stops waiting while the handler is still at work.
RedeliverEarly(b) ==
  /\ attempts[b] \in 1..(MaxAttempts - 1)
  /\ pc[<<b, attempts[b]>>] \in Working
  /\ Arrive(b)

\* The signature fits, or the answer is 401.  Twilio's is keyed by the token of
\* the integration, which is read before: 403 when there is none.
Verify(a) ==
  /\ pc[a] = "verify"
  /\ \/ /\ provider[Integration(a)] = "twilio" => Integration(a) \in rows
        /\ GoTo(a, IF Messages[a[1]] = <<>> THEN "respond" ELSE "lookup")
     \/ GoTo(a, "refused")
  /\ UNCHANGED <<audit, pos, verdict, calling, served, Outside>>

\* integrations.GetByID: on an error Execute returns, with no trace.
Lookup(a) ==
  /\ pc[a] = "lookup"
  /\ \/ /\ Integration(a) \in rows
        /\ GoTo(a, "append")
        /\ UNCHANGED pos
     \/ /\ DbFaults \/ Integration(a) \notin rows
        /\ NextMessage(a)
  /\ UNCHANGED <<audit, verdict, calling, served, Outside>>

\* audit.Append of the received entry; its error is dropped.
AppendReceived(a) ==
  /\ pc[a] = "append"
  /\ GoTo(a, "consumer")
  /\ \/ /\ Integration(a) \in rows
        /\ audit' = AppendEntry(audit, Entry(a),
                      [status |-> "received", direction |-> "inbound",
                       integration |-> Integration(a), externalId |-> Message(a)])
     \/ /\ DbFaults \/ Integration(a) \notin rows
        /\ UNCHANGED audit
  /\ UNCHANGED <<pos, verdict, calling, served, Outside>>

\* consumers.GetByID and the start of the callback.
CallConsumer(a) ==
  /\ pc[a] = "consumer"
  /\ \/ /\ Integration(a) \in callbacks
        /\ GoTo(a, "callback")
        /\ calling' = calling \cup {Entry(a)}
        /\ UNCHANGED verdict
     \/ /\ DbFaults \/ Integration(a) \notin callbacks
        /\ Settle(a, "forward_failed")
        /\ UNCHANGED calling
  /\ UNCHANGED <<audit, pos, served, Outside>>

\* The consumer takes the event.
ConsumerServes(e) ==
  /\ e \in calling
  /\ calling' = calling \ {e}
  /\ served' = served \cup {e}
  /\ UNCHANGED <<audit, pc, pos, verdict, Outside>>

\* Its answer arrives: below 300.
CallbackOk(a) ==
  /\ pc[a] = "callback"
  /\ Entry(a) \in served
  /\ Settle(a, "forwarded")
  /\ UNCHANGED <<audit, pos, calling, served, Outside>>

\* An answer of 300 or more, a broken connection, or the 5 s timeout: the
\* consumer may have taken the event, or may still take it.
CallbackFailed(a) ==
  /\ pc[a] = "callback"
  /\ Settle(a, "forward_failed")
  /\ \/ calling' = calling \ {Entry(a)}
     \/ UNCHANGED calling
  /\ UNCHANGED <<audit, pos, served, Outside>>

\* UpdateStatus, its error dropped, and the return of Execute.
RecordOutcome(a) ==
  /\ pc[a] = "settle"
  /\ NextMessage(a)
  /\ \/ audit' = UpdateStatus(audit, Entry(a), verdict[a])
     \/ DbFaults /\ UNCHANGED audit
  /\ UNCHANGED <<verdict, calling, served, Outside>>

\* 200, which only counts while the provider waits for this delivery.
Respond(a) ==
  /\ pc[a] = "respond"
  /\ GoTo(a, "answered")
  /\ acked' = IF a[2] = attempts[a[1]] THEN acked \cup {a[1]} ELSE acked
  /\ UNCHANGED <<provider, rows, callbacks, audit, attempts, pos, verdict, calling, served, crashes>>

-----------------------------------------------------------------------------
\* An ack of Evolution about any message of the chat, also one it received
\* (handleStatusUpdate does not tell them apart).
StatusUpdate(i, m, status) ==
  /\ provider[i] = "evolution"
  /\ audit' = MarkOutboundStatusByExternalID(audit, i, m, status)
  /\ UNCHANGED <<provider, rows, callbacks, attempts, pc, pos, verdict, calling, served, acked, crashes>>

\* A disconnect removes the integration and, by the cascade, its entries.
DeleteIntegration(i) ==
  /\ i \in rows
  /\ rows' = rows \ {i}
  /\ audit' = Cascade(audit, i)
  /\ UNCHANGED <<provider, callbacks, attempts, pc, pos, verdict, calling, served, acked, crashes>>

Crash ==
  /\ crashes < MaxCrashes
  /\ crashes' = crashes + 1
  /\ pc' = [a \in Attempts |-> IF pc[a] \in Working THEN "crashed" ELSE pc[a]]
  /\ UNCHANGED <<provider, rows, callbacks, audit, attempts, pos, verdict, calling, served, acked>>

Step(a) ==
  \/ Verify(a)
  \/ Lookup(a)
  \/ AppendReceived(a)
  \/ CallConsumer(a)
  \/ CallbackOk(a)
  \/ CallbackFailed(a)
  \/ RecordOutcome(a)
  \/ Respond(a)

Next ==
  \/ \E b \in Batches : Deliver(b) \/ Redeliver(b) \/ RedeliverEarly(b)
  \/ \E a \in Attempts : Step(a)
  \/ \E e \in Entries : ConsumerServes(e)
  \/ \E i \in Integrations :
       \/ DeleteIntegration(i)
       \/ \E m \in MessageIds, status \in {"delivered", "read"} : StatusUpdate(i, m, status)
  \/ Crash

Spec == Init /\ [][Next]_vars

\* A handler's calls all end: the callback has a 5 s timeout, database calls
\* return or fail.  A provider that got no 200 delivers again (the comment of
\* ForwardInboundUseCase.Execute).  Consumers and operators owe nothing.
FairSpec ==
  /\ Spec
  /\ \A a \in Attempts : WF_vars(Step(a))
  /\ \A b \in Batches : WF_vars(Redeliver(b))

-----------------------------------------------------------------------------
\* The trail never claims a forward that did not happen (audit.go), whatever
\* is delivered twice, times out, crashes or is deleted meanwhile.
ForwardedIsServed ==
  \A e \in Entries : audit[e].status = "forwarded" => e \in served

Forward ==
  {<<"absent", "received">>, <<"received", "forwarded">>, <<"received", "forward_failed">>}

\* An inbound entry goes from received to one outcome and stays there
\* (audit.go), also when Evolution acks the same message id with a status of
\* the outbound lifecycle; only a deleted integration takes it away.
EntriesMoveForward ==
  \A e \in Entries :
    audit'[e].status # audit[e].status =>
      \/ <<audit[e].status, audit'[e].status>> \in Forward
      \/ Channel[e[1]] \in rows \ rows'
InboundMovesForward == [][EntriesMoveForward]_vars

\* A batch whose provider was answered 200 has, for every message of that
\* delivery, an entry that says how the forward ended (forward_inbound.go), as
\* long as the database answers and the integration exists.
AckedRecorded ==
  \A b \in acked : Channel[b] \in rows =>
    \A k \in Positions(b) :
      audit[<<b, attempts[b], k>>].status \in {"forwarded", "forward_failed"}

\* forward_inbound.go: errors are logged via the audit trail.  A message taken
\* with a 200 is in the trail, whatever happened to it.
AckedAudited ==
  \A b \in acked : Channel[b] \in rows =>
    \A k \in Positions(b) : Present(audit, <<b, attempts[b], k>>)

\* An entry does not stay "received": the consumer's answer or the timeout
\* settles it, unless the process stops first.
ReceivedSettles ==
  \A e \in Entries :
    audit[e].status = "received" ~>
      (audit[e].status # "received" \/ pc[<<e[1], e[2]>>] = "crashed")

\* A failed forward or database call never makes a provider deliver again
\* (forward_inbound.go: never returned to the webhook caller): a batch is
\* acknowledged in the end, unless its last delivery dies with the process or
\* was refused for its signature.
BatchAcked ==
  \A b \in Batches :
    (attempts[b] > 0 /\ Channel[b] \in rows) ~>
      \/ b \in acked
      \/ Channel[b] \notin rows
      \/ pc[<<b, MaxAttempts>>] \in {"crashed", "refused"}
=============================================================================
