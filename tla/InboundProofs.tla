---------------------------- MODULE InboundProofs ----------------------------
(***************************************************************************)
(* Proofs about Inbound, for every set of payloads and channels, however   *)
(* often a provider delivers a payload again and the process stops.        *)
(***************************************************************************)
EXTENDS Inbound, SequenceTheorems, TLAPS

\* The handler an entry belongs to.
Handler(e) == <<e[1], e[2]>>

Untried   == {"unsent", "verify", "lookup", "append"}
Tried     == {"consumer", "callback", "settle"}
AtMessage == {"lookup", "append"} \cup Tried

Recorded(e) == audit[e].status \in {"forwarded", "forward_failed"}

\* Where a handler is in its payload; it is about to record "forwarded" only
\* of what the consumer took.
PcInv(a) ==
  /\ pc[a] = "unsent" <=> a[2] > attempts[a[1]]
  /\ pc[a] \in {"unsent", "verify"} => pos[a] = 1
  /\ pc[a] \in AtMessage => pos[a] <= Len(Messages[a[1]])
  /\ pc[a] = "settle" /\ verdict[a] = "forwarded" => Entry(a) \in served

\* A row is one some handler wrote, of its channel, and no handler has written
\* the row of a message it has not come to.
RowInv(e) ==
  /\ audit[e].status \in {"absent", "received", "forwarded", "forward_failed"}
  /\ Present(audit, e) =>
       audit[e].direction = "inbound" /\ audit[e].integration = Channel[e[1]]
  /\ audit[e].status = "forwarded" => e \in served
  /\ e[3] > pos[Handler(e)] => ~Present(audit, e)
  /\ e[3] = pos[Handler(e)] =>
       /\ pc[Handler(e)] \in Untried => ~Present(audit, e)
       /\ pc[Handler(e)] \in Tried => audit[e].status \in {"absent", "received"}

\* The delivery that was acknowledged is the last one, and it has ended.
AckInv(b) == b \in acked => attempts[b] # 0 /\ pc[<<b, attempts[b]>>] = "answered"

\* With a database that answers, a handler leaves no message behind it without
\* an outcome.
FaultlessInv(e) ==
  Channel[e[1]] \in rows =>
    /\ \/ pc[Handler(e)] \in {"respond", "answered"}
       \/ pc[Handler(e)] \in AtMessage /\ e[3] < pos[Handler(e)]
       => Recorded(e)
    /\ pc[Handler(e)] \in Tried /\ e[3] = pos[Handler(e)] => Present(audit, e)

IInv ==
  /\ TypeOK
  /\ \A a \in Attempts : PcInv(a)
  /\ \A e \in Entries : RowInv(e)
  /\ \A b \in Batches : AckInv(b)
  /\ ~DbFaults => \A e \in Entries : FaultlessInv(e)

-----------------------------------------------------------------------------
USE BatchAssumption, BoundAssumption DEF Untried, Tried, AtMessage, Working, Ended,
    GoTo, Outside, Integration, Present, Recorded

(* Entries and the handlers they belong to. *)

LEMMA EntryParts ==
  ASSUME NEW e \in Entries
  PROVE  /\ e = <<e[1], e[2], e[3]>>
         /\ e[1] \in Batches /\ e[2] \in 1..MaxAttempts /\ e[3] \in 1..Len(Messages[e[1]])
         /\ Handler(e) \in Attempts /\ Handler(e)[1] = e[1] /\ Handler(e)[2] = e[2]
BY EntryAssumption DEF Attempts, Positions, Handler

LEMMA AttemptParts ==
  ASSUME NEW a \in Attempts
  PROVE  /\ a = <<a[1], a[2]>> /\ a[1] \in Batches /\ a[2] \in 1..MaxAttempts
         /\ Messages[a[1]] \in Seq(MessageIds) /\ Len(Messages[a[1]]) \in Nat
         /\ Channel[a[1]] \in Integrations
BY DEF Attempts

LEMMA LastAttempt ==
  ASSUME NEW b \in Batches, NEW n \in 1..MaxAttempts
  PROVE  <<b, n>> \in Attempts
BY DEF Attempts

LEMMA EntryOfHandler ==
  ASSUME TypeOK, NEW a \in Attempts, PcInv(a), pc[a] \in AtMessage
  PROVE  Entry(a) \in Entries
BY AttemptParts, EntryAssumption DEF TypeOK, PcInv, Positions, Entry

\* The entry a handler is at is that of no other handler.
LEMMA OwnEntry ==
  ASSUME NEW a \in Attempts, NEW e \in Entries
  PROVE  e = Entry(a) <=> Handler(e) = a /\ e[3] = pos[a]
BY AttemptParts, EntryParts DEF Entry, Handler

\* A payload with messages has a first one.
LEMMA NonEmpty ==
  ASSUME NEW b \in Batches, Messages[b] # <<>>
  PROVE  1 <= Len(Messages[b])
BY EmptySeq

\* The return of Execute moves one handler, to its next message or to the end.
LEMMA NextMessageMoves ==
  ASSUME TypeOK, NEW a \in Attempts, PcInv(a), pc[a] \in AtMessage, NextMessage(a)
  PROVE  /\ pc' \in [Attempts -> Working \cup Ended \cup {"unsent"}]
         /\ pos' \in [Attempts -> Nat \ {0}]
         /\ \A q \in Attempts : q # a => pc'[q] = pc[q] /\ pos'[q] = pos[q]
         /\ \/ pos[a] + 1 <= Len(Messages[a[1]]) /\ pc'[a] = "lookup" /\ pos'[a] = pos[a] + 1
            \/ pos[a] = Len(Messages[a[1]]) /\ pc'[a] = "respond" /\ pos'[a] = pos[a]
<1>0. Len(Messages[a[1]]) \in Nat /\ pos[a] \in Nat \ {0} /\ pos[a] <= Len(Messages[a[1]])
  BY AttemptParts DEF TypeOK, PcInv
<1>1. CASE pos[a] < Len(Messages[a[1]])
  <2>1. pos' = [pos EXCEPT ![a] = pos[a] + 1] /\ pc' = [pc EXCEPT ![a] = "lookup"]
    BY <1>1 DEF NextMessage
  <2>2. pos[a] + 1 \in Nat \ {0} /\ pos[a] + 1 <= Len(Messages[a[1]])
    BY <1>0, <1>1
  <2>3. QED BY <2>1, <2>2 DEF TypeOK
<1>2. CASE ~(pos[a] < Len(Messages[a[1]]))
  <2>1. pos' = pos /\ pc' = [pc EXCEPT ![a] = "respond"]
    BY <1>2 DEF NextMessage
  <2>2. pos[a] = Len(Messages[a[1]])
    BY <1>0, <1>2
  <2>3. QED BY <2>1, <2>2 DEF TypeOK
<1>3. QED BY <1>1, <1>2

(* Rows and statements. *)

LEMMA AppendEntryType ==
  ASSUME NEW t \in Table, NEW e \in Entries, NEW r \in Row
  PROVE  /\ AppendEntry(t, e, r) \in Table
         /\ AppendEntry(t, e, r)[e] = r
         /\ \A d \in Entries : d # e => AppendEntry(t, e, r)[d] = t[d]
BY DEF Table, AppendEntry

LEMMA UpdateStatusType ==
  ASSUME NEW t \in Table, NEW e \in Entries, NEW status \in AuditStatus
  PROVE  /\ UpdateStatus(t, e, status) \in Table
         /\ \A d \in Entries : d # e => UpdateStatus(t, e, status)[d] = t[d]
         /\ UpdateStatus(t, e, status)[e] =
              IF Present(t, e) THEN [t[e] EXCEPT !.status = status] ELSE t[e]
<1>1. CASE ~Present(t, e)
  BY <1>1 DEF UpdateStatus
<1>2. CASE Present(t, e)
  <2>1. t[e] \in Row
    BY <1>2 DEF Table, NoRow
  <2>2. QED BY <1>2, <2>1 DEF Table, Row, UpdateStatus
<1>3. QED BY <1>1, <1>2

LEMMA CascadeType ==
  ASSUME NEW t \in Table, NEW i
  PROVE  Cascade(t, i) \in Table
BY DEF Table, Cascade

\* The receipt statement looks for outbound rows: it leaves the table alone
\* that has none.
LEMMA ReceiptOfInbound ==
  ASSUME NEW t \in Table, NEW i, NEW m, NEW status,
         \A e \in Entries : t[e].direction # "outbound"
  PROVE  MarkOutboundStatusByExternalID(t, i, m, status) = t
BY DEF Table, Matching, MarkOutboundStatusByExternalID

-----------------------------------------------------------------------------
(* One lemma per step. *)

LEMMA ArriveInv ==
  ASSUME IInv, NEW b \in Batches, attempts[b] < MaxAttempts, b \notin acked, Arrive(b)
  PROVE  IInv'
<1> DEFINE new == <<b, attempts[b] + 1>>
<1>0. /\ attempts[b] \in Nat /\ attempts[b] + 1 \in 1..MaxAttempts /\ new \in Attempts
      /\ pc[new] = "unsent" /\ pos[new] = 1 /\ Messages[b] \in Seq(MessageIds)
  <2>1. attempts[b] \in Nat /\ attempts[b] + 1 \in 1..MaxAttempts
    BY DEF IInv, TypeOK
  <2>2. new \in Attempts
    BY <2>1, LastAttempt
  <2>3. PcInv(new) /\ ~(new[2] <= attempts[new[1]])
    BY <2>1, <2>2 DEF IInv
  <2>4. QED BY <2>1, <2>2, <2>3, AttemptParts DEF PcInv
<1>1. TypeOK'
  BY <1>0 DEF IInv, TypeOK, Arrive
<1>2. ASSUME NEW q \in Attempts PROVE PcInv(q)'
  <2>1. CASE q # new
    BY <1>0, <2>1, AttemptParts DEF IInv, TypeOK, PcInv, Entry, Arrive
  <2>2. CASE q = new
    BY <1>0, <2>2, NonEmpty DEF IInv, TypeOK, PcInv, Entry, Arrive
  <2>3. QED BY <2>1, <2>2
<1>3. ASSUME NEW e \in Entries PROVE RowInv(e)'
  <2>1. CASE Handler(e) # new
    BY <1>0, <2>1, EntryParts DEF IInv, TypeOK, RowInv, Arrive
  <2>2. CASE Handler(e) = new
    BY <1>0, <2>2, EntryParts DEF IInv, TypeOK, RowInv, Arrive
  <2>3. QED BY <2>1, <2>2
<1>4. ASSUME NEW d \in Batches PROVE AckInv(d)'
  <2>1. CASE d = b
    BY <2>1 DEF AckInv, Arrive
  <2>2. CASE d # b
    BY <1>0, <2>2 DEF IInv, TypeOK, AckInv, Arrive
  <2>3. QED BY <2>1, <2>2
<1>5. ASSUME ~DbFaults, NEW e \in Entries PROVE FaultlessInv(e)'
  <2>1. CASE Handler(e) # new
    BY <1>0, <1>5, <2>1, EntryParts DEF IInv, TypeOK, FaultlessInv, Arrive
  <2>2. CASE Handler(e) = new
    BY <1>0, <2>2, EntryParts, EmptySeq DEF IInv, TypeOK, FaultlessInv, Arrive
  <2>3. QED BY <2>1, <2>2
<1>6. QED BY <1>1, <1>2, <1>3, <1>4, <1>5 DEF IInv

LEMMA VerifyInv ==
  ASSUME IInv, NEW a \in Attempts, Verify(a)
  PROVE  IInv'
<1>1. TypeOK'
  BY AttemptParts DEF IInv, TypeOK, Verify
<1>2. ASSUME NEW q \in Attempts PROVE PcInv(q)'
  BY AttemptParts, NonEmpty DEF IInv, TypeOK, PcInv, Entry, Verify
<1>3. ASSUME NEW e \in Entries PROVE RowInv(e)'
  BY AttemptParts, EntryParts DEF IInv, TypeOK, RowInv, Verify
<1>4. ASSUME NEW d \in Batches PROVE AckInv(d)'
  BY AttemptParts, LastAttempt DEF IInv, TypeOK, AckInv, Verify
<1>5. ASSUME ~DbFaults, NEW e \in Entries PROVE FaultlessInv(e)'
  <2>0. /\ e[3] \in Nat /\ Handler(e) \in Attempts /\ Handler(e)[1] = e[1]
        /\ e[3] <= Len(Messages[e[1]]) /\ RowInv(e) /\ PcInv(Handler(e)) /\ FaultlessInv(e)
    BY <1>5, EntryParts DEF IInv
  <2>1. CASE Handler(e) # a
    BY <1>5, <2>0, <2>1 DEF IInv, TypeOK, FaultlessInv, Verify, PcInv
  <2>2. CASE Handler(e) = a
    <3>1. pos[a] = 1 /\ e[3] >= 1 /\ Messages[a[1]] # <<>> /\ pos' = pos
      BY <2>0, <2>2, EntryParts, EmptySeq DEF PcInv, Verify
    <3>2. pc'[a] \in {"lookup", "refused"}
      BY <3>1 DEF IInv, TypeOK, Verify
    <3>3. QED BY <2>0, <2>2, <3>1, <3>2 DEF FaultlessInv
  <2>3. QED BY <2>1, <2>2
<1>6. QED BY <1>1, <1>2, <1>3, <1>4, <1>5 DEF IInv

LEMMA LookupInv ==
  ASSUME IInv, NEW a \in Attempts, Lookup(a)
  PROVE  IInv'
<1>0. PcInv(a) /\ pc[a] = "lookup" /\ pos[a] \in Nat \ {0} /\ pc[a] \in AtMessage
  BY DEF IInv, TypeOK, Lookup
<1>moved. /\ pc' \in [Attempts -> Working \cup Ended \cup {"unsent"}]
          /\ pos' \in [Attempts -> Nat \ {0}]
          /\ \A q \in Attempts : q # a => pc'[q] = pc[q] /\ pos'[q] = pos[q]
          /\ \/ pos[a] + 1 <= Len(Messages[a[1]]) /\ pc'[a] = "lookup" /\ pos'[a] = pos[a] + 1
             \/ pos[a] = Len(Messages[a[1]]) /\ pc'[a] = "respond" /\ pos'[a] = pos[a]
             \/ pos[a] <= Len(Messages[a[1]]) /\ pc'[a] = "append" /\ pos'[a] = pos[a]
          /\ pc'[a] = "append" \/ DbFaults \/ Channel[a[1]] \notin rows
  <2>1. CASE NextMessage(a) /\ (DbFaults \/ Channel[a[1]] \notin rows)
    BY <1>0, <2>1, NextMessageMoves DEF IInv
  <2>2. CASE GoTo(a, "append") /\ UNCHANGED pos
    BY <1>0, <2>2 DEF IInv, TypeOK, PcInv
  <2>3. QED BY <2>1, <2>2 DEF Lookup
<1>1. TypeOK'
  BY <1>moved DEF IInv, TypeOK, Lookup
<1>2. ASSUME NEW q \in Attempts PROVE PcInv(q)'
  BY <1>moved, AttemptParts DEF IInv, TypeOK, PcInv, Entry, Lookup
<1>3. ASSUME NEW e \in Entries PROVE RowInv(e)'
  <2>0. /\ e[3] \in Nat /\ Handler(e) \in Attempts /\ Handler(e)[1] = e[1]
        /\ e[3] <= Len(Messages[e[1]]) /\ RowInv(e) /\ PcInv(Handler(e))
    BY EntryParts DEF IInv
  <2>1. CASE Handler(e) # a
    BY <2>0, <2>1, <1>moved, OwnEntry DEF IInv, TypeOK, RowInv, Lookup
  <2>2. CASE Handler(e) = a
    BY <2>0, <2>2, <1>moved, OwnEntry DEF IInv, TypeOK, RowInv, Lookup
  <2>3. QED BY <2>1, <2>2
<1>4. ASSUME NEW d \in Batches PROVE AckInv(d)'
  BY <1>moved, LastAttempt DEF IInv, TypeOK, AckInv, Lookup
<1>5. ASSUME ~DbFaults, NEW e \in Entries PROVE FaultlessInv(e)'
  <2>0. /\ e[3] \in Nat /\ Handler(e) \in Attempts /\ Handler(e)[1] = e[1]
        /\ e[3] <= Len(Messages[e[1]]) /\ RowInv(e) /\ PcInv(Handler(e)) /\ FaultlessInv(e)
    BY <1>5, EntryParts DEF IInv
  <2>1. CASE Handler(e) # a
    BY <1>5, <2>0, <2>1, <1>moved, OwnEntry DEF IInv, TypeOK, FaultlessInv, Lookup, RowInv, PcInv
  <2>2. CASE Handler(e) = a
    BY <1>5, <2>0, <2>2, <1>moved, OwnEntry DEF IInv, TypeOK, FaultlessInv, Lookup, RowInv, PcInv
  <2>3. QED BY <2>1, <2>2
<1>6. QED BY <1>1, <1>2, <1>3, <1>4, <1>5 DEF IInv

LEMMA AppendReceivedInv ==
  ASSUME IInv, NEW a \in Attempts, AppendReceived(a)
  PROVE  IInv'
<1> DEFINE new == [status |-> "received", direction |-> "inbound",
                   integration |-> Integration(a), externalId |-> Message(a)]
<1>0. /\ Entry(a) \in Entries
      /\ audit' = audit \/ (audit' \in Table /\ audit'[Entry(a)] = new)
      /\ \A d \in Entries : d # Entry(a) => audit'[d] = audit[d]
      /\ DbFaults \/ Channel[a[1]] \notin rows \/ audit'[Entry(a)] = new
  <2>1. Entry(a) \in Entries /\ Message(a) \in MessageIds
    BY EntryOfHandler, AttemptParts DEF IInv, TypeOK, PcInv, Entry, AppendReceived, Message
  <2>2. new \in Row
    BY <2>1, AttemptParts DEF Row, AuditStatus, Direction
  <2>3. audit \in Table
    BY DEF IInv, TypeOK
  <2>4. QED BY <2>1, <2>2, <2>3, AppendEntryType DEF AppendReceived
<1>1. TypeOK'
  BY <1>0 DEF IInv, TypeOK, AppendReceived
<1>2. ASSUME NEW q \in Attempts PROVE PcInv(q)'
  BY AttemptParts DEF IInv, TypeOK, PcInv, Entry, AppendReceived
<1>3. ASSUME NEW e \in Entries PROVE RowInv(e)'
  <2>0. /\ e[3] \in Nat /\ Handler(e) \in Attempts /\ Handler(e)[1] = e[1]
        /\ e[3] <= Len(Messages[e[1]]) /\ RowInv(e) /\ PcInv(Handler(e))
    BY EntryParts DEF IInv
  <2>1. CASE Handler(e) # a
    BY <2>0, <2>1, <1>0, OwnEntry DEF IInv, TypeOK, RowInv, AppendReceived
  <2>2. CASE Handler(e) = a
    <3>1. pos' = pos /\ pc[a] = "append" /\ pc'[a] = "consumer" /\ served' = served
      BY DEF IInv, TypeOK, AppendReceived
    <3>2. CASE e # Entry(a)
      BY <1>0, <2>0, <2>2, <3>1, <3>2, OwnEntry DEF RowInv
    <3>3. CASE e = Entry(a) /\ audit' = audit
      BY <2>0, <2>2, <3>1, <3>3 DEF RowInv
    <3>4. CASE e = Entry(a) /\ audit'[Entry(a)] = new
      <4>1. audit'[e].status = "received" /\ audit'[e].direction = "inbound"
            /\ audit'[e].integration = Channel[e[1]] /\ e[3] = pos[a]
        BY <2>0, <2>2, <3>4, OwnEntry
      <4>2. QED BY <2>0, <2>2, <3>1, <4>1 DEF RowInv
    <3>5. QED BY <1>0, <3>2, <3>3, <3>4
  <2>3. QED BY <2>1, <2>2
<1>4. ASSUME NEW d \in Batches PROVE AckInv(d)'
  BY LastAttempt DEF IInv, TypeOK, AckInv, AppendReceived
<1>5. ASSUME ~DbFaults, NEW e \in Entries PROVE FaultlessInv(e)'
  <2>0. /\ e[3] \in Nat /\ Handler(e) \in Attempts /\ Handler(e)[1] = e[1]
        /\ e[3] <= Len(Messages[e[1]]) /\ RowInv(e) /\ PcInv(Handler(e)) /\ FaultlessInv(e)
    BY <1>5, EntryParts DEF IInv
  <2>1. CASE Handler(e) # a
    BY <1>5, <2>0, <2>1, <1>0, OwnEntry DEF IInv, TypeOK, FaultlessInv, AppendReceived
  <2>2. CASE Handler(e) = a
    <3>1. pos' = pos /\ pc[a] = "append" /\ pc'[a] = "consumer" /\ rows' = rows
      BY DEF IInv, TypeOK, AppendReceived
    <3>2. CASE e # Entry(a)
      BY <1>0, <2>0, <2>2, <3>1, <3>2, OwnEntry DEF FaultlessInv
    <3>3. CASE e = Entry(a)
      <4>1. Channel[e[1]] \in rows => audit'[e].status = "received"
        BY <1>0, <1>5, <2>0, <2>2, <3>3 DEF Integration
      <4>2. QED BY <2>0, <2>2, <3>1, <3>3, <4>1, OwnEntry DEF FaultlessInv
    <3>4. QED BY <3>2, <3>3
  <2>3. QED BY <2>1, <2>2
<1>6. QED BY <1>1, <1>2, <1>3, <1>4, <1>5 DEF IInv

LEMMA CallConsumerInv ==
  ASSUME IInv, NEW a \in Attempts, CallConsumer(a)
  PROVE  IInv'
<1>0. Entry(a) \in Entries
  BY EntryOfHandler DEF IInv, CallConsumer
<1>1. TypeOK'
  BY <1>0, AttemptParts DEF IInv, TypeOK, CallConsumer, Settle
<1>2. ASSUME NEW q \in Attempts PROVE PcInv(q)'
  BY AttemptParts DEF IInv, TypeOK, PcInv, Entry, CallConsumer, Settle
<1>3. ASSUME NEW e \in Entries PROVE RowInv(e)'
  BY AttemptParts, EntryParts DEF IInv, TypeOK, RowInv, CallConsumer, Settle
<1>4. ASSUME NEW d \in Batches PROVE AckInv(d)'
  BY AttemptParts, LastAttempt DEF IInv, TypeOK, AckInv, CallConsumer, Settle
<1>5. ASSUME ~DbFaults, NEW e \in Entries PROVE FaultlessInv(e)'
  BY <1>5, AttemptParts, EntryParts DEF IInv, TypeOK, FaultlessInv, CallConsumer, Settle
<1>6. QED BY <1>1, <1>2, <1>3, <1>4, <1>5 DEF IInv

LEMMA CallbackOkInv ==
  ASSUME IInv, NEW a \in Attempts, CallbackOk(a)
  PROVE  IInv'
<1>0. Entry(a) \in Entries
  BY EntryOfHandler DEF IInv, CallbackOk
<1>1. TypeOK'
  BY <1>0, AttemptParts DEF IInv, TypeOK, CallbackOk, Settle
<1>2. ASSUME NEW q \in Attempts PROVE PcInv(q)'
  BY AttemptParts DEF IInv, TypeOK, PcInv, Entry, CallbackOk, Settle
<1>3. ASSUME NEW e \in Entries PROVE RowInv(e)'
  BY AttemptParts, EntryParts DEF IInv, TypeOK, RowInv, CallbackOk, Settle
<1>4. ASSUME NEW d \in Batches PROVE AckInv(d)'
  BY AttemptParts, LastAttempt DEF IInv, TypeOK, AckInv, CallbackOk, Settle
<1>5. ASSUME ~DbFaults, NEW e \in Entries PROVE FaultlessInv(e)'
  BY <1>5, AttemptParts, EntryParts DEF IInv, TypeOK, FaultlessInv, CallbackOk, Settle
<1>6. QED BY <1>1, <1>2, <1>3, <1>4, <1>5 DEF IInv

LEMMA CallbackFailedInv ==
  ASSUME IInv, NEW a \in Attempts, CallbackFailed(a)
  PROVE  IInv'
<1>0. Entry(a) \in Entries
  BY EntryOfHandler DEF IInv, CallbackFailed
<1>1. TypeOK'
  BY <1>0, AttemptParts DEF IInv, TypeOK, CallbackFailed, Settle
<1>2. ASSUME NEW q \in Attempts PROVE PcInv(q)'
  BY AttemptParts DEF IInv, TypeOK, PcInv, Entry, CallbackFailed, Settle
<1>3. ASSUME NEW e \in Entries PROVE RowInv(e)'
  BY AttemptParts, EntryParts DEF IInv, TypeOK, RowInv, CallbackFailed, Settle
<1>4. ASSUME NEW d \in Batches PROVE AckInv(d)'
  BY AttemptParts, LastAttempt DEF IInv, TypeOK, AckInv, CallbackFailed, Settle
<1>5. ASSUME ~DbFaults, NEW e \in Entries PROVE FaultlessInv(e)'
  BY <1>5, AttemptParts, EntryParts DEF IInv, TypeOK, FaultlessInv, CallbackFailed, Settle
<1>6. QED BY <1>1, <1>2, <1>3, <1>4, <1>5 DEF IInv

LEMMA RecordOutcomeInv ==
  ASSUME IInv, NEW a \in Attempts, RecordOutcome(a)
  PROVE  IInv'
<1>moved. /\ pos[a] \in Nat \ {0} /\ pc[a] = "settle"
          /\ pc' \in [Attempts -> Working \cup Ended \cup {"unsent"}]
          /\ pos' \in [Attempts -> Nat \ {0}]
          /\ \A q \in Attempts : q # a => pc'[q] = pc[q] /\ pos'[q] = pos[q]
          /\ \/ pos[a] + 1 <= Len(Messages[a[1]]) /\ pc'[a] = "lookup" /\ pos'[a] = pos[a] + 1
             \/ pos[a] = Len(Messages[a[1]]) /\ pc'[a] = "respond" /\ pos'[a] = pos[a]
  <2>1. PcInv(a) /\ TypeOK /\ pos[a] \in Nat \ {0} /\ pc[a] = "settle" /\ NextMessage(a)
    BY DEF IInv, TypeOK, RecordOutcome
  <2>2. pc[a] \in AtMessage
    BY <2>1
  <2>3. QED BY <2>1, <2>2, NextMessageMoves
<1>table. /\ Entry(a) \in Entries
          /\ audit' \in Table
          /\ \A d \in Entries : d # Entry(a) => audit'[d] = audit[d]
          /\ \/ audit'[Entry(a)] = audit[Entry(a)] /\ (DbFaults \/ ~Present(audit, Entry(a)))
             \/ /\ Present(audit, Entry(a))
                /\ audit'[Entry(a)] = [audit[Entry(a)] EXCEPT !.status = verdict[a]]
                /\ audit[Entry(a)] \in Row
  <2>1. Entry(a) \in Entries /\ audit \in Table /\ verdict[a] \in AuditStatus
    BY <1>moved, EntryOfHandler DEF IInv, TypeOK, AuditStatus
  <2>2. Present(audit, Entry(a)) => audit[Entry(a)] \in Row
    BY <2>1 DEF Table, NoRow
  <2>3. CASE audit' = UpdateStatus(audit, Entry(a), verdict[a])
    <3>1. /\ audit' \in Table
          /\ \A d \in Entries : d # Entry(a) => audit'[d] = audit[d]
          /\ audit'[Entry(a)] = IF Present(audit, Entry(a))
                                THEN [audit[Entry(a)] EXCEPT !.status = verdict[a]]
                                ELSE audit[Entry(a)]
      BY <2>1, <2>3, UpdateStatusType
    <3>2. QED BY <2>1, <2>2, <3>1
  <2>4. CASE DbFaults /\ UNCHANGED audit
    BY <2>1, <2>4
  <2>5. QED BY <2>3, <2>4 DEF RecordOutcome
<1>row. Present(audit, Entry(a)) =>
          /\ audit'[Entry(a)].direction = audit[Entry(a)].direction
          /\ audit'[Entry(a)].integration = audit[Entry(a)].integration
          /\ audit'[Entry(a)].status \in {verdict[a], audit[Entry(a)].status}
          /\ ~DbFaults => audit'[Entry(a)].status = verdict[a]
  BY <1>table DEF Row
<1>verdict. verdict[a] \in {"forwarded", "forward_failed"} /\ verdict' = verdict
  BY DEF IInv, TypeOK, RecordOutcome
<1>taken. verdict[a] = "forwarded" => Entry(a) \in served
  BY <1>moved DEF IInv, PcInv
<1>1. TypeOK'
  BY <1>moved, <1>table, <1>verdict DEF IInv, TypeOK, RecordOutcome
<1>2. ASSUME NEW q \in Attempts PROVE PcInv(q)'
  <2>1. PcInv(q) /\ PcInv(a) /\ attempts' = attempts /\ served' = served
    BY DEF IInv, RecordOutcome
  <2>2. CASE q = a
    BY <1>moved, <2>1, <2>2 DEF PcInv
  <2>3. CASE q # a
    BY <1>moved, <1>verdict, <2>1, <2>3 DEF PcInv, Entry
  <2>4. QED BY <2>2, <2>3
<1>3. ASSUME NEW e \in Entries PROVE RowInv(e)'
  <2>0. /\ e[3] \in Nat /\ Handler(e) \in Attempts /\ Handler(e)[1] = e[1]
        /\ e[3] <= Len(Messages[e[1]]) /\ RowInv(e) /\ PcInv(Handler(e))
    BY EntryParts DEF IInv
  <2>1. CASE Handler(e) # a
    BY <2>0, <2>1, <1>moved, <1>table, <1>verdict, <1>row, <1>taken, OwnEntry
       DEF IInv, TypeOK, RowInv, RecordOutcome
  <2>2. CASE Handler(e) = a
    <3>1. served' = served
      BY DEF RecordOutcome
    <3>2. CASE e # Entry(a)
      BY <1>moved, <1>table, <2>0, <2>2, <3>1, <3>2, OwnEntry DEF RowInv
    <3>3. CASE e = Entry(a) /\ ~Present(audit, e)
      BY <1>moved, <1>table, <2>0, <2>2, <3>1, <3>3 DEF RowInv
    <3>4. CASE e = Entry(a) /\ Present(audit, e)
      <4>1. /\ audit'[e].direction = "inbound" /\ audit'[e].integration = Channel[e[1]]
            /\ audit'[e].status \in {"received", "forwarded", "forward_failed"}
            /\ audit'[e].status = "forwarded" => e \in served
            /\ e[3] = pos[a] /\ pos'[a] >= pos[a] /\ (pos'[a] = pos[a] => pc'[a] = "respond")
        <5>1. e[3] = pos[a] /\ audit[e].status = "received"
          BY <1>moved, <2>0, <2>2, <3>4, OwnEntry DEF RowInv
        <5>2. QED BY <1>moved, <1>verdict, <1>row, <1>taken, <2>0, <2>2, <3>4, <5>1 DEF RowInv
      <4>2. QED BY <1>moved, <2>0, <2>2, <3>1, <4>1 DEF RowInv
    <3>5. QED BY <3>2, <3>3, <3>4
  <2>3. QED BY <2>1, <2>2
<1>4. ASSUME NEW d \in Batches PROVE AckInv(d)'
  BY <1>moved, LastAttempt DEF IInv, TypeOK, AckInv, RecordOutcome
<1>5. ASSUME ~DbFaults, NEW e \in Entries PROVE FaultlessInv(e)'
  <2>0. /\ e[3] \in Nat /\ Handler(e) \in Attempts /\ Handler(e)[1] = e[1]
        /\ e[3] <= Len(Messages[e[1]]) /\ RowInv(e) /\ PcInv(Handler(e)) /\ FaultlessInv(e)
    BY <1>5, EntryParts DEF IInv
  <2>1. CASE Handler(e) # a
    BY <1>5, <2>0, <2>1, <1>moved, <1>table, <1>verdict, <1>row, <1>taken, OwnEntry
       DEF IInv, TypeOK, FaultlessInv, RecordOutcome, RowInv, PcInv
  <2>2. CASE Handler(e) = a
    <3>1. rows' = rows
      BY DEF RecordOutcome
    <3>2. CASE e # Entry(a)
      <4>1. audit'[e] = audit[e] /\ e[3] # pos[a]
        BY <1>table, <2>2, <3>2, OwnEntry
      <4>2. QED BY <1>moved, <2>0, <2>2, <3>1, <4>1 DEF FaultlessInv
    <3>3. CASE e = Entry(a)
      <4>1. Channel[e[1]] \in rows => Recorded(e)'
        <5>1. e[3] = pos[a] /\ (Channel[e[1]] \in rows => Present(audit, e))
          BY <1>moved, <2>0, <2>2, <3>3, OwnEntry DEF FaultlessInv
        <5>2. QED BY <1>5, <1>verdict, <1>row, <3>3, <5>1
      <4>2. pc'[a] \notin Tried
        BY <1>moved
      <4>3. QED BY <2>2, <3>1, <4>1, <4>2 DEF FaultlessInv
    <3>4. QED BY <3>2, <3>3
  <2>3. QED BY <2>1, <2>2
<1>6. QED BY <1>1, <1>2, <1>3, <1>4, <1>5 DEF IInv

LEMMA RespondInv ==
  ASSUME IInv, NEW a \in Attempts, Respond(a)
  PROVE  IInv'
<1>1. TypeOK'
  BY AttemptParts DEF IInv, TypeOK, Respond
<1>2. ASSUME NEW q \in Attempts PROVE PcInv(q)'
  BY AttemptParts DEF IInv, TypeOK, PcInv, Entry, Respond
<1>3. ASSUME NEW e \in Entries PROVE RowInv(e)'
  BY AttemptParts, EntryParts DEF IInv, TypeOK, RowInv, Respond
<1>4. ASSUME NEW d \in Batches PROVE AckInv(d)'
  BY AttemptParts, LastAttempt DEF IInv, TypeOK, AckInv, Respond
<1>5. ASSUME ~DbFaults, NEW e \in Entries PROVE FaultlessInv(e)'
  BY <1>5, AttemptParts, EntryParts DEF IInv, TypeOK, FaultlessInv, Respond
<1>6. QED BY <1>1, <1>2, <1>3, <1>4, <1>5 DEF IInv

LEMMA ConsumerServesInv ==
  ASSUME IInv, NEW x \in Entries, ConsumerServes(x)
  PROVE  IInv'
<1>1. TypeOK'
  BY DEF IInv, TypeOK, ConsumerServes
<1>2. ASSUME NEW q \in Attempts PROVE PcInv(q)'
  BY DEF IInv, PcInv, Entry, ConsumerServes
<1>3. ASSUME NEW e \in Entries PROVE RowInv(e)'
  BY DEF IInv, RowInv, Handler, ConsumerServes
<1>4. ASSUME NEW d \in Batches PROVE AckInv(d)'
  BY DEF IInv, AckInv, ConsumerServes
<1>5. ASSUME ~DbFaults, NEW e \in Entries PROVE FaultlessInv(e)'
  BY <1>5 DEF IInv, FaultlessInv, Handler, ConsumerServes
<1>6. QED BY <1>1, <1>2, <1>3, <1>4, <1>5 DEF IInv

\* No inbound row has a direction the receipt statement looks for.
LEMMA NoOutboundRow ==
  ASSUME IInv, NEW e \in Entries
  PROVE  audit[e].direction # "outbound"
<1>1. audit[e] \in Row \cup {NoRow} /\ RowInv(e)
  BY DEF IInv, TypeOK, Table
<1>2. CASE audit[e] = NoRow
  BY <1>2 DEF NoRow
<1>3. CASE audit[e] \in Row
  BY <1>1, <1>3 DEF Row, AuditStatus, RowInv
<1>4. QED BY <1>1, <1>2, <1>3

LEMMA StatusUpdateInv ==
  ASSUME IInv, NEW i, NEW m, NEW status, StatusUpdate(i, m, status)
  PROVE  IInv' /\ audit' = audit
<1>1. audit' = audit
  BY NoOutboundRow, ReceiptOfInbound DEF IInv, TypeOK, StatusUpdate
<1>2. QED
  BY <1>1 DEF IInv, TypeOK, PcInv, RowInv, AckInv, FaultlessInv, Entry, Handler, StatusUpdate

LEMMA DeleteIntegrationInv ==
  ASSUME IInv, NEW i \in Integrations, DeleteIntegration(i)
  PROVE  IInv'
<1>0. \A e \in Entries : audit'[e] = audit[e] \/ (audit'[e] = NoRow /\ audit[e].integration = i)
  BY DEF DeleteIntegration, Cascade
<1>1. TypeOK'
  BY CascadeType DEF IInv, TypeOK, DeleteIntegration
<1>2. ASSUME NEW q \in Attempts PROVE PcInv(q)'
  BY DEF IInv, PcInv, Entry, DeleteIntegration
<1>3. ASSUME NEW e \in Entries PROVE RowInv(e)'
  BY <1>0 DEF IInv, RowInv, Handler, NoRow, DeleteIntegration
<1>4. ASSUME NEW d \in Batches PROVE AckInv(d)'
  BY DEF IInv, AckInv, DeleteIntegration
<1>5. ASSUME ~DbFaults, NEW e \in Entries PROVE FaultlessInv(e)'
  <2>1. Present(audit, e) => audit[e].integration = Channel[e[1]]
    BY DEF IInv, RowInv
  <2>2. Channel[e[1]] \in rows' => audit'[e] = audit[e] \/ ~Present(audit, e)
    BY <1>0, <2>1 DEF DeleteIntegration
  <2>3. Channel[e[1]] \in rows' => Channel[e[1]] \in rows
    BY DEF DeleteIntegration
  <2>4. FaultlessInv(e) /\ pc' = pc /\ pos' = pos
    BY <1>5 DEF IInv, DeleteIntegration
  <2>5. QED BY <2>2, <2>3, <2>4 DEF FaultlessInv, Handler
<1>6. QED BY <1>1, <1>2, <1>3, <1>4, <1>5 DEF IInv

LEMMA CrashInv ==
  ASSUME IInv, Crash
  PROVE  IInv'
<1>0. ASSUME NEW q \in Attempts
      PROVE  pc'[q] = pc[q] \/ (pc[q] \in Working /\ pc'[q] = "crashed")
  BY <1>0 DEF Crash
<1>1. TypeOK'
  BY DEF IInv, TypeOK, Crash
<1>2. ASSUME NEW q \in Attempts PROVE PcInv(q)'
  BY <1>0 DEF IInv, PcInv, Entry, Crash
<1>3. ASSUME NEW e \in Entries PROVE RowInv(e)'
  <2>1. RowInv(e) /\ Handler(e) \in Attempts /\ pos' = pos /\ audit' = audit /\ served' = served
    BY EntryParts DEF IInv, Crash
  <2>2. QED BY <1>0, <2>1 DEF RowInv
<1>4. ASSUME NEW d \in Batches PROVE AckInv(d)'
  <2>1. AckInv(d) /\ acked' = acked /\ attempts' = attempts /\ attempts[d] \in 0..MaxAttempts
    BY DEF IInv, TypeOK, Crash
  <2>2. QED BY <1>0, <2>1, LastAttempt DEF AckInv
<1>5. ASSUME ~DbFaults, NEW e \in Entries PROVE FaultlessInv(e)'
  <2>1. FaultlessInv(e) /\ Handler(e) \in Attempts /\ pos' = pos /\ audit' = audit /\ rows' = rows
    BY <1>5, EntryParts DEF IInv, Crash
  <2>2. QED BY <1>0, <2>1 DEF FaultlessInv
<1>6. QED BY <1>1, <1>2, <1>3, <1>4, <1>5 DEF IInv

LEMMA InitInv == Init => IInv
<1> SUFFICES ASSUME Init PROVE IInv
  OBVIOUS
<1>0. \A b \in Batches : attempts[b] = 0
  BY DEF Init
<1>1. TypeOK
  BY DEF Init, TypeOK, Table, EmptyTable, Providers
<1>2. ASSUME NEW q \in Attempts PROVE PcInv(q)
  BY <1>0, AttemptParts DEF Init, PcInv
<1>3. ASSUME NEW e \in Entries PROVE RowInv(e)
  BY EntryParts DEF Init, RowInv, EmptyTable, NoRow
<1>4. ASSUME NEW d \in Batches PROVE AckInv(d)
  BY DEF Init, AckInv
<1>5. ASSUME NEW e \in Entries PROVE FaultlessInv(e)
  BY EntryParts DEF Init, FaultlessInv
<1>6. QED BY <1>1, <1>2, <1>3, <1>4, <1>5 DEF IInv

LEMMA StutterInv == IInv /\ UNCHANGED vars => IInv'
BY DEF IInv, TypeOK, PcInv, RowInv, AckInv, FaultlessInv, Entry, Handler, vars

\* A delivery that was answered is not made again.
LEMMA DeliveryInv ==
  ASSUME IInv, NEW b \in Batches, Deliver(b) \/ Redeliver(b) \/ RedeliverEarly(b)
  PROVE  IInv'
<1>1. b \notin acked
  BY DEF IInv, AckInv, Deliver, Redeliver, RedeliverEarly
<1>2. attempts[b] < MaxAttempts /\ Arrive(b)
  BY DEF Deliver, Redeliver, RedeliverEarly
<1>3. QED BY <1>1, <1>2, ArriveInv

LEMMA NextInv == IInv /\ [Next]_vars => IInv'
<1> SUFFICES ASSUME IInv, [Next]_vars PROVE IInv'
  OBVIOUS
<1>1. ASSUME NEW a \in Attempts, Step(a) PROVE IInv'
  BY <1>1, VerifyInv, LookupInv, AppendReceivedInv, CallConsumerInv, CallbackOkInv,
     CallbackFailedInv, RecordOutcomeInv, RespondInv DEF Step
<1>2. QED
  BY <1>1, DeliveryInv, ConsumerServesInv, DeleteIntegrationInv, StatusUpdateInv, CrashInv,
     StutterInv DEF Next

-----------------------------------------------------------------------------
\* The inductive invariant of the inbound handlers.
THEOREM Invariance == Spec => []IInv
BY InitInv, NextInv, PTL DEF Spec

\* Every run keeps the types, the audit table among them.
THEOREM TypeCorrect == Spec => []TypeOK
<1>1. IInv => TypeOK
  BY DEF IInv
<1>2. QED BY <1>1, Invariance, PTL

\* The trail never claims a forward the consumer did not take, whatever is
\* delivered twice, times out, crashes or is deleted meanwhile.
THEOREM ForwardedServed == Spec => []ForwardedIsServed
<1>1. IInv => ForwardedIsServed
  BY DEF IInv, RowInv, ForwardedIsServed
<1>2. QED BY <1>1, Invariance, PTL

\* With a database that answers, a payload answered 200 has an outcome on
\* record for every message of the delivery that was answered, also when an
\* earlier delivery of it is still at work.
THEOREM AckedIsRecorded ==
  ASSUME ~DbFaults
  PROVE  Spec => []AckedRecorded
<1>1. IInv => AckedRecorded
  <2> SUFFICES ASSUME IInv, NEW b \in acked, Channel[b] \in rows, NEW k \in Positions(b)
               PROVE  Recorded(<<b, attempts[b], k>>)
    BY DEF AckedRecorded
  <2> DEFINE e == <<b, attempts[b], k>>
  <2>1. b \in Batches /\ attempts[b] \in 1..MaxAttempts /\ pc[<<b, attempts[b]>>] = "answered"
    BY DEF IInv, TypeOK, AckInv
  <2>2. e \in Entries /\ Handler(e) = <<b, attempts[b]>> /\ e[1] = b
    BY <2>1, EntryAssumption DEF Handler
  <2>3. FaultlessInv(e)
    BY <2>2 DEF IInv
  <2>4. QED BY <2>1, <2>2, <2>3 DEF FaultlessInv
<1>2. QED BY <1>1, Invariance, PTL

\* An inbound entry goes from received to one outcome and stays there.
THEOREM InboundForward == Spec => InboundMovesForward
<1>1. ASSUME IInv, [Next]_vars PROVE EntriesMoveForward
  <2> SUFFICES ASSUME NEW e \in Entries, audit'[e].status # audit[e].status
               PROVE  \/ <<audit[e].status, audit'[e].status>> \in Forward
                      \/ Channel[e[1]] \in rows \ rows'
    BY DEF EntriesMoveForward
  <2>1. ASSUME NEW a \in Attempts, AppendReceived(a)
        PROVE  <<audit[e].status, audit'[e].status>> \in Forward
    <3>1. e = Entry(a) /\ audit'[e].status = "received"
      BY <1>1, <2>1 DEF IInv, TypeOK, Table, AppendReceived, AppendEntry
    <3>2. ~Present(audit, e)
      BY <1>1, <2>1, <3>1, OwnEntry DEF IInv, RowInv, AppendReceived
    <3>3. QED BY <3>1, <3>2 DEF Forward
  <2>2. ASSUME NEW a \in Attempts, RecordOutcome(a)
        PROVE  <<audit[e].status, audit'[e].status>> \in Forward
    <3>0. audit \in Table /\ verdict[a] \in {"forwarded", "forward_failed"} /\ Entry(a) \in Entries
      BY <1>1, <2>2, EntryOfHandler DEF IInv, TypeOK, RecordOutcome
    <3>1. audit' = UpdateStatus(audit, Entry(a), verdict[a])
      BY <2>2 DEF RecordOutcome
    <3>2. e = Entry(a) /\ Present(audit, e)
      <4>1. /\ \A d \in Entries : d # Entry(a) => audit'[d] = audit[d]
            /\ ~Present(audit, Entry(a)) => audit' = audit
        BY <3>0, <3>1 DEF UpdateStatus, Table
      <4>2. QED BY <4>1
    <3>3. audit[e] \in Row
      BY <3>0, <3>2 DEF Table, NoRow
    <3>4. audit'[e].status = verdict[a]
      BY <3>0, <3>1, <3>2, <3>3 DEF UpdateStatus, Table, Row
    <3>5. audit[e].status = "received"
      BY <1>1, <2>2, <3>2, OwnEntry DEF IInv, RowInv, RecordOutcome
    <3>6. QED BY <3>0, <3>4, <3>5 DEF Forward
  <2>3. ASSUME NEW i \in Integrations, DeleteIntegration(i)
        PROVE  Channel[e[1]] \in rows \ rows'
    <3>1. audit[e].integration = i /\ Present(audit, e)
      BY <2>3, SentinelAssumption DEF DeleteIntegration, Cascade, NoRow
    <3>2. QED BY <1>1, <2>3, <3>1 DEF IInv, RowInv, DeleteIntegration
  <2>4. \/ \E a \in Attempts : AppendReceived(a) \/ RecordOutcome(a)
        \/ \E i \in Integrations : DeleteIntegration(i)
    <3>1. audit' # audit
      OBVIOUS
    <3>2. ASSUME NEW i \in Integrations, NEW m, NEW status, StatusUpdate(i, m, status)
          PROVE  audit' = audit
      BY <1>1, <3>2, StatusUpdateInv
    <3>3. QED
      BY <1>1, <3>1, <3>2 DEF Next, vars, Step, Deliver, Redeliver, RedeliverEarly, Arrive,
         Verify, Lookup, CallConsumer, CallbackOk, CallbackFailed, Respond, ConsumerServes, Crash
  <2>5. QED BY <2>1, <2>2, <2>3, <2>4
<1>2. QED BY <1>1, Invariance, PTL DEF Spec, InboundMovesForward
=============================================================================
