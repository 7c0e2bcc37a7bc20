----------------------------- MODULE AuditTrail -----------------------------
(***************************************************************************)
(* The table message_audit_entries and the statements that change it       *)
(* (internal/infrastructure/postgres/audit_repository.go and the schema of *)
(* migrations/20260702000001_initial_schema.sql).  A table `t' is a        *)
(* function from entry ids to rows; NoRow stands for an id that has none.  *)
(* Every operator is one SQL statement, so one atomic step of its caller.  *)
(*                                                                         *)
(* A row keeps the columns some statement reads or changes.  consumer_id,  *)
(* to_number, provider and correlation_id are written once, from the       *)
(* request that inserts the row, and are read from that request.           *)
(***************************************************************************)
EXTENDS Integers

CONSTANTS
  Entries,        \* ids of audit entries (UUIDs, fresh for every attempt)
  Integrations,   \* ids of integrations
  MessageIds,     \* ids providers give to messages
  NoIntegration,
  NoMessageId,    \* the empty external_id
  StatusCheck     \* statuses the constraint audit_status_check lets a row have

AuditStatus == {"accepted", "sent", "delivered", "read", "failed", "rejected",
                "received", "forwarded", "forward_failed"}

\* The list the committed migration gives audit_status_check.
MigrationStatusCheck == {"accepted", "sent", "failed", "rejected", "received",
                         "forwarded", "forward_failed"}

\* Whatever the schema is, the statuses the use cases write directly fit it.
ASSUME StatusCheckAssumption ==
  MigrationStatusCheck \subseteq StatusCheck /\ StatusCheck \subseteq AuditStatus

ASSUME SentinelAssumption ==
  NoIntegration \notin Integrations /\ NoMessageId \notin MessageIds

Direction == {"inbound", "outbound"}

Row == [status      : AuditStatus,
        direction   : Direction,
        integration : Integrations,
        externalId  : MessageIds \cup {NoMessageId}]

NoRow == [status      |-> "absent",
          direction   |-> "none",
          integration |-> NoIntegration,
          externalId  |-> NoMessageId]

Table == [Entries -> Row \cup {NoRow}]

EmptyTable == [e \in Entries |-> NoRow]

Present(t, e) == t[e].status # "absent"

-----------------------------------------------------------------------------
\* Position of a status in the list the receipt statement orders by;
\* COALESCE(array_position(...), -1).
LifecycleRank(status) ==
  CASE status = "accepted"  -> 1
    [] status = "sent"      -> 2
    [] status = "delivered" -> 3
    [] status = "read"      -> 4
    [] OTHER                -> -1

\* INSERT.  The foreign key makes it fail when the integration has no row;
\* the caller tests that.
AppendEntry(t, e, row) == [t EXCEPT ![e] = row]

\* UPDATE ... SET status WHERE id: no row, no effect; no look at the old status.
UpdateStatus(t, e, status) ==
  IF Present(t, e) THEN [t EXCEPT ![e].status = status] ELSE t

MarkSent(t, e, messageId) ==
  IF Present(t, e)
  THEN [t EXCEPT ![e].status = "sent", ![e].externalId = messageId]
  ELSE t

\* Faulty variants of the WHERE clause below: without the order of the
\* lifecycle, advancing by one stage only, and without the direction.
MatchingUnordered(t, i, messageId, status) ==
  {e \in Entries : /\ t[e].integration = i
                   /\ t[e].externalId = messageId
                   /\ t[e].direction = "outbound"}

MatchingNextStage(t, i, messageId, status) ==
  {e \in Entries : /\ t[e].integration = i
                   /\ t[e].externalId = messageId
                   /\ t[e].direction = "outbound"
                   /\ LifecycleRank(t[e].status) + 1 = LifecycleRank(status)}

MatchingAnyDirection(t, i, messageId, status) ==
  {e \in Entries : /\ t[e].integration = i
                   /\ t[e].externalId = messageId
                   /\ LifecycleRank(t[e].status) < LifecycleRank(status)}

\* The rows the WHERE clause of the receipt statement selects.
Matching(t, i, messageId, status) ==
  {e \in Entries : /\ t[e].integration = i
                   /\ t[e].externalId = messageId
                   /\ t[e].direction = "outbound"
                   /\ LifecycleRank(t[e].status) < LifecycleRank(status)}

\* The receipt statement: nothing for an empty id; every matching row takes
\* the status, unless audit_status_check refuses it, and then the statement
\* fails as a whole.
MarkOutboundStatusByExternalID(t, i, messageId, status) ==
  IF messageId = NoMessageId \/ status \notin StatusCheck
  THEN t
  ELSE [e \in Entries |->
          IF e \in Matching(t, i, messageId, status)
          THEN [t[e] EXCEPT !.status = status]
          ELSE t[e]]

\* ON DELETE CASCADE of the foreign key on integrations.
Cascade(t, i) ==
  [e \in Entries |-> IF t[e].integration = i THEN NoRow ELSE t[e]]
=============================================================================
