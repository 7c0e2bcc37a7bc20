--------------------------- MODULE OutboundProofs ---------------------------
(***************************************************************************)
(* Proofs about Outbound, for every set of requests and integrations,      *)
(* every owner, every schema list, with and without faults and crashes.    *)
(***************************************************************************)
EXTENDS Outbound, TLAPS

\* Where the goroutine of r stands decides what the trail and the provider
\* can hold of it.
PcInv(r) ==
  /\ pc[r] \in {"idle", "lookup", "reject", "accept"} =>
       audit[r] = NoRow /\ r \notin accepted \cup inFlight
  /\ pc[r] = "prepare" => r \notin accepted \cup inFlight
  /\ pc[r] = "marksent" => r \in accepted
  /\ pc[r] \in {"prepare", "dispatch", "marksent", "markfailed"} =>
       audit[r].status \in {"absent", "accepted"}
  /\ pc[r] \in {"prepare", "dispatch"} /\ req[r].integration \in rows =>
       Present(audit, r)

\* Only a request that passed the three checks of Execute is past "reject".
CheckedInv(r) ==
  /\ pc[r] = "reject" => Verdict(r) # "none"
  /\ \/ pc[r] \in {"accept", "prepare", "dispatch", "marksent", "markfailed"}
     \/ r \in accepted \cup inFlight
     => Verdict(r) = "none"

\* The row of r is the row Execute wrote, and lives no longer than its
\* integration; a message id in it is the one of r, stored by MarkSent.
RowInv(r) ==
  /\ Present(audit, r) =>
       /\ req[r].integration \in rows
       /\ audit[r].integration = req[r].integration
       /\ audit[r].direction = "outbound"
  /\ audit[r].externalId # NoMessageId =>
       audit[r].externalId = r /\ audit[r].status \in {"sent", "delivered", "read"}
  /\ audit[r].status \notin {"received", "forwarded", "forward_failed"}
  /\ messageId[r] \in {r, NoMessageId}
  /\ audit[r].status \in {"sent", "delivered", "read"} => r \in accepted
  /\ audit[r].status = "rejected" => Verdict(r) # "none"
  /\ ~(r \in accepted /\ r \in inFlight)
  /\ r \in accepted \cup inFlight /\ req[r].integration \in rows => Present(audit, r)

\* What the goroutine has decided to answer.
AnswerInv(r) ==
  /\ answer[r] = "no_content" => r \in accepted
  /\ answer[r] \in {"bad_request", "not_found"} =>
       r \notin accepted \cup inFlight /\ pc[r] \in {"markfailed", "done", "crashed"}

IInv == TypeOK /\ \A r \in Requests : PcInv(r) /\ CheckedInv(r) /\ RowInv(r) /\ AnswerInv(r)

-----------------------------------------------------------------------------
USE DEF Requests

(* The statements on the table keep it a table. *)

LEMMA AppendEntryType ==
  ASSUME NEW t \in Table, NEW e \in Entries, NEW row \in Row
  PROVE  AppendEntry(t, e, row) \in Table
  BY DEF Table, AppendEntry

LEMMA UpdateStatusType ==
  ASSUME NEW t \in Table, NEW e \in Entries, NEW s \in AuditStatus
  PROVE  UpdateStatus(t, e, s) \in Table
<1>1. CASE Present(t, e)
  <2>1. t[e] \in Row
    BY <1>1 DEF Table, Present, NoRow
  <2>2. [t[e] EXCEPT !.status = s] \in Row
    BY <2>1 DEF Row
  <2>3. QED BY <1>1, <2>2 DEF Table, UpdateStatus
<1>2. CASE ~Present(t, e)
  BY <1>2 DEF UpdateStatus
<1>3. QED BY <1>1, <1>2

LEMMA MarkSentType ==
  ASSUME NEW t \in Table, NEW e \in Entries, NEW m \in MessageIds \cup {NoMessageId}
  PROVE  MarkSent(t, e, m) \in Table
<1>1. CASE Present(t, e)
  <2>1. t[e] \in Row
    BY <1>1 DEF Table, Present, NoRow
  <2>2. [t[e] EXCEPT !.status = "sent", !.externalId = m] \in Row
    BY <2>1 DEF Row, AuditStatus
  <2>3. QED BY <1>1, <2>2 DEF Table, MarkSent
<1>2. CASE ~Present(t, e)
  BY <1>2 DEF MarkSent
<1>3. QED BY <1>1, <1>2

LEMMA CascadeType ==
  ASSUME NEW t \in Table, NEW i
  PROVE  Cascade(t, i) \in Table
  BY DEF Table, Cascade

LEMMA MarkOutboundType ==
  ASSUME NEW t \in Table, NEW i, NEW m, NEW s \in AuditStatus
  PROVE  MarkOutboundStatusByExternalID(t, i, m, s) \in Table
<1>1. ASSUME NEW e \in Entries, e \in Matching(t, i, m, s)
      PROVE  [t[e] EXCEPT !.status = s] \in Row
  <2>1. t[e] \in Row
    BY <1>1 DEF Matching, Table, NoRow
  <2>2. QED BY <2>1 DEF Row
<1>2. QED BY <1>1 DEF MarkOutboundStatusByExternalID, Table

LEMMA EntryType ==
  ASSUME TypeOK, NEW r \in Requests, NEW s \in AuditStatus
  PROVE Entry(r, s) \in Row
  BY DEF Entry, TypeOK, Row, Direction, Input

LEMMA VerdictType == \A r : Verdict(r) \in Answer
  BY DEF Verdict, Answer

LEMMA ReceiveInv ==
  ASSUME IInv, NEW r \in Requests, Receive(r)
  PROVE  IInv'
<1> USE DEF GoTo, Finish, Provided, Metrics, World
<1>1. TypeOK'
  BY DEF IInv, TypeOK, Receive, Active
<1>2. ASSUME NEW q \in Requests
      PROVE  PcInv(q)' /\ CheckedInv(q)' /\ RowInv(q)' /\ AnswerInv(q)'
  <2>0. TypeOK /\ TypeOK' /\ PcInv(q) /\ CheckedInv(q) /\ RowInv(q) /\ AnswerInv(q)
    BY <1>1 DEF IInv
  <2>1. PcInv(q)'
    BY <2>0 DEF Receive, TypeOK, PcInv, RowInv, Active, NoRow, Table, Row, Present
  <2>2. CheckedInv(q)'
    BY <2>0 DEF Receive, TypeOK, PcInv, CheckedInv, Verdict
  <2>3. RowInv(q)'
    BY <2>0 DEF Receive, TypeOK, PcInv, CheckedInv, RowInv, NoRow, Table, Row, Present, Verdict
  <2>4. AnswerInv(q)'
    BY <2>0 DEF Receive, TypeOK, PcInv, CheckedInv, AnswerInv, Verdict
  <2>5. QED BY <2>1, <2>2, <2>3, <2>4
<1>3. QED BY <1>1, <1>2 DEF IInv

LEMMA LookupInv ==
  ASSUME IInv, NEW r \in Requests, Lookup(r)
  PROVE  IInv'
<1> USE DEF GoTo, Finish, Provided, Metrics, World
<1>1. TypeOK'
  BY DEF IInv, TypeOK, Lookup, Active, Answer
<1>2. ASSUME NEW q \in Requests
      PROVE  PcInv(q)' /\ CheckedInv(q)' /\ RowInv(q)' /\ AnswerInv(q)'
  <2>0. TypeOK /\ TypeOK' /\ PcInv(q) /\ CheckedInv(q) /\ RowInv(q) /\ AnswerInv(q)
    BY <1>1 DEF IInv
  <2>1. PcInv(q)'
    BY <2>0 DEF Lookup, TypeOK, PcInv, RowInv, Active, NoRow, Table, Row, Present
  <2>2. CheckedInv(q)'
    BY <2>0 DEF Lookup, TypeOK, PcInv, CheckedInv, Verdict
  <2>3. RowInv(q)'
    BY <2>0 DEF Lookup, TypeOK, PcInv, CheckedInv, RowInv, NoRow, Table, Row, Present, Verdict
  <2>4. AnswerInv(q)'
    BY <2>0 DEF Lookup, TypeOK, PcInv, CheckedInv, AnswerInv, Verdict
  <2>5. QED BY <2>1, <2>2, <2>3, <2>4
<1>3. QED BY <1>1, <1>2 DEF IInv

LEMMA RejectAndAuditInv ==
  ASSUME IInv, NEW r \in Requests, RejectAndAudit(r)
  PROVE  IInv'
<1> USE DEF GoTo, Finish, Provided, Metrics, World
<1>1. TypeOK'
  BY VerdictType, AppendEntryType, EntryType DEF IInv, TypeOK, RejectAndAudit, Active, Answer, AuditStatus
<1>2. ASSUME NEW q \in Requests
      PROVE  PcInv(q)' /\ CheckedInv(q)' /\ RowInv(q)' /\ AnswerInv(q)'
  <2>0. TypeOK /\ TypeOK' /\ PcInv(q) /\ CheckedInv(q) /\ RowInv(q) /\ AnswerInv(q)
    BY <1>1 DEF IInv
  <2>1. PcInv(q)'
    BY <2>0 DEF RejectAndAudit, TypeOK, PcInv, RowInv, Active, NoRow, Table, Row, Present, AppendEntry, Entry
  <2>2. CheckedInv(q)'
    BY <2>0 DEF RejectAndAudit, TypeOK, PcInv, CheckedInv, Verdict
  <2>3. RowInv(q)'
    BY <2>0 DEF RejectAndAudit, TypeOK, PcInv, CheckedInv, RowInv, NoRow, Table, Row, Present, Verdict, AppendEntry, Entry
  <2>4. AnswerInv(q)'
    BY <2>0 DEF RejectAndAudit, TypeOK, PcInv, CheckedInv, AnswerInv, Verdict
  <2>5. QED BY <2>1, <2>2, <2>3, <2>4
<1>3. QED BY <1>1, <1>2 DEF IInv

LEMMA AppendAcceptedInv ==
  ASSUME IInv, NEW r \in Requests, AppendAccepted(r)
  PROVE  IInv'
<1> USE DEF GoTo, Finish, Provided, Metrics, World
<1>1. TypeOK'
  <2>1. TypeOK /\ Entry(r, "accepted") \in Row
    BY EntryType DEF IInv, AuditStatus
  <2>2. audit' \in Table
    BY <2>1, AppendEntryType DEF TypeOK, AppendAccepted
  <2>3. QED BY <2>1, <2>2 DEF TypeOK, AppendAccepted, Active, Answer
<1>2. ASSUME NEW q \in Requests
      PROVE  PcInv(q)' /\ CheckedInv(q)' /\ RowInv(q)' /\ AnswerInv(q)'
  <2>0. TypeOK /\ TypeOK' /\ PcInv(q) /\ CheckedInv(q) /\ RowInv(q) /\ AnswerInv(q)
    BY <1>1 DEF IInv
  <2>1. PcInv(q)'
    BY <2>0 DEF AppendAccepted, TypeOK, PcInv, RowInv, Active, NoRow, Table, Row, Present, AppendEntry, Entry
  <2>2. CheckedInv(q)'
    BY <2>0 DEF AppendAccepted, TypeOK, PcInv, CheckedInv, Verdict
  <2>3. RowInv(q)'
    BY <2>0 DEF AppendAccepted, TypeOK, PcInv, CheckedInv, RowInv, NoRow, Table, Row, Present, Verdict, AppendEntry, Entry
  <2>4. AnswerInv(q)'
    BY <2>0 DEF AppendAccepted, TypeOK, PcInv, CheckedInv, AnswerInv, Verdict
  <2>5. QED BY <2>1, <2>2, <2>3, <2>4
<1>3. QED BY <1>1, <1>2 DEF IInv

LEMMA PrepareInv ==
  ASSUME IInv, NEW r \in Requests, Prepare(r)
  PROVE  IInv'
<1> USE DEF GoTo, Finish, Provided, Metrics, World
<1>1. TypeOK'
  BY DEF IInv, TypeOK, Prepare, Active, Answer
<1>2. ASSUME NEW q \in Requests
      PROVE  PcInv(q)' /\ CheckedInv(q)' /\ RowInv(q)' /\ AnswerInv(q)'
  <2>0. TypeOK /\ TypeOK' /\ PcInv(q) /\ CheckedInv(q) /\ RowInv(q) /\ AnswerInv(q)
    BY <1>1 DEF IInv
  <2>1. PcInv(q)'
    BY <2>0 DEF Prepare, TypeOK, PcInv, RowInv, Active, NoRow, Table, Row, Present
  <2>2. CheckedInv(q)'
    BY <2>0 DEF Prepare, TypeOK, PcInv, CheckedInv, Verdict
  <2>3. RowInv(q)'
    BY <2>0 DEF Prepare, TypeOK, PcInv, CheckedInv, RowInv, NoRow, Table, Row, Present, Verdict
  <2>4. AnswerInv(q)'
    BY <2>0 DEF Prepare, TypeOK, PcInv, CheckedInv, AnswerInv, Verdict
  <2>5. QED BY <2>1, <2>2, <2>3, <2>4
<1>3. QED BY <1>1, <1>2 DEF IInv

LEMMA ProviderAcceptsInv ==
  ASSUME IInv, NEW r \in Requests, ProviderAccepts(r)
  PROVE  IInv'
<1> USE DEF GoTo, Finish, Provided, Metrics, World
<1>1. TypeOK'
  BY DEF IInv, TypeOK, ProviderAccepts, Active
<1>2. ASSUME NEW q \in Requests
      PROVE  PcInv(q)' /\ CheckedInv(q)' /\ RowInv(q)' /\ AnswerInv(q)'
  <2>0. TypeOK /\ TypeOK' /\ PcInv(q) /\ CheckedInv(q) /\ RowInv(q) /\ AnswerInv(q)
    BY <1>1 DEF IInv
  <2>1. PcInv(q)'
    BY <2>0 DEF ProviderAccepts, TypeOK, PcInv, RowInv, Active, NoRow, Table, Row, Present
  <2>2. CheckedInv(q)'
    BY <2>0 DEF ProviderAccepts, TypeOK, PcInv, CheckedInv, Verdict
  <2>3. RowInv(q)'
    BY <2>0 DEF ProviderAccepts, TypeOK, PcInv, CheckedInv, RowInv, NoRow, Table, Row, Present, Verdict
  <2>4. AnswerInv(q)'
    BY <2>0 DEF ProviderAccepts, TypeOK, PcInv, CheckedInv, AnswerInv, Verdict
  <2>5. QED BY <2>1, <2>2, <2>3, <2>4
<1>3. QED BY <1>1, <1>2 DEF IInv

LEMMA DispatchOkInv ==
  ASSUME IInv, NEW r \in Requests, DispatchOk(r)
  PROVE  IInv'
<1> USE DEF GoTo, Finish, Provided, Metrics, World
<1>1. TypeOK'
  BY DEF IInv, TypeOK, DispatchOk, Active
<1>2. ASSUME NEW q \in Requests
      PROVE  PcInv(q)' /\ CheckedInv(q)' /\ RowInv(q)' /\ AnswerInv(q)'
  <2>0. TypeOK /\ TypeOK' /\ PcInv(q) /\ CheckedInv(q) /\ RowInv(q) /\ AnswerInv(q)
    BY <1>1 DEF IInv
  <2>1. PcInv(q)'
    BY <2>0 DEF DispatchOk, TypeOK, PcInv, RowInv, Active, NoRow, Table, Row, Present
  <2>2. CheckedInv(q)'
    BY <2>0 DEF DispatchOk, TypeOK, PcInv, CheckedInv, Verdict
  <2>3. RowInv(q)'
    BY <2>0 DEF DispatchOk, TypeOK, PcInv, CheckedInv, RowInv, NoRow, Table, Row, Present, Verdict
  <2>4. AnswerInv(q)'
    BY <2>0 DEF DispatchOk, TypeOK, PcInv, CheckedInv, AnswerInv, Verdict
  <2>5. QED BY <2>1, <2>2, <2>3, <2>4
<1>3. QED BY <1>1, <1>2 DEF IInv

LEMMA DispatchFailedInv ==
  ASSUME IInv, NEW r \in Requests, DispatchFailed(r)
  PROVE  IInv'
<1> USE DEF GoTo, Finish, Provided, Metrics, World
<1>1. TypeOK'
  BY DEF IInv, TypeOK, DispatchFailed, Active, Answer
<1>2. ASSUME NEW q \in Requests
      PROVE  PcInv(q)' /\ CheckedInv(q)' /\ RowInv(q)' /\ AnswerInv(q)'
  <2>0. TypeOK /\ TypeOK' /\ PcInv(q) /\ CheckedInv(q) /\ RowInv(q) /\ AnswerInv(q)
    BY <1>1 DEF IInv
  <2>1. PcInv(q)'
    BY <2>0 DEF DispatchFailed, TypeOK, PcInv, RowInv, Active, NoRow, Table, Row, Present
  <2>2. CheckedInv(q)'
    BY <2>0 DEF DispatchFailed, TypeOK, PcInv, CheckedInv, Verdict
  <2>3. RowInv(q)'
    BY <2>0 DEF DispatchFailed, TypeOK, PcInv, CheckedInv, RowInv, NoRow, Table, Row, Present, Verdict
  <2>4. AnswerInv(q)'
    BY <2>0 DEF DispatchFailed, TypeOK, PcInv, CheckedInv, AnswerInv, Verdict
  <2>5. QED BY <2>1, <2>2, <2>3, <2>4
<1>3. QED BY <1>1, <1>2 DEF IInv

LEMMA MarkSentStepInv ==
  ASSUME IInv, NEW r \in Requests, MarkSentStep(r)
  PROVE  IInv'
<1> USE DEF GoTo, Finish, Provided, Metrics, World
<1>1. TypeOK'
  BY MarkSentType, MessageIdAssumption DEF IInv, TypeOK, MarkSentStep, Active, Answer
<1>2. ASSUME NEW q \in Requests
      PROVE  PcInv(q)' /\ CheckedInv(q)' /\ RowInv(q)' /\ AnswerInv(q)'
  <2>0. TypeOK /\ TypeOK' /\ PcInv(q) /\ CheckedInv(q) /\ RowInv(q) /\ AnswerInv(q)
    BY <1>1 DEF IInv
  <2>1. PcInv(q)'
    BY <2>0 DEF MarkSentStep, TypeOK, PcInv, RowInv, Active, NoRow, Table, Row, Present, MarkSent
  <2>2. CheckedInv(q)'
    BY <2>0 DEF MarkSentStep, TypeOK, PcInv, CheckedInv, Verdict
  <2>3. RowInv(q)'
    BY <2>0 DEF MarkSentStep, TypeOK, PcInv, CheckedInv, RowInv, NoRow, Table, Row, Present, Verdict, MarkSent
  <2>4. AnswerInv(q)'
    BY <2>0 DEF MarkSentStep, TypeOK, PcInv, CheckedInv, AnswerInv, Verdict
  <2>5. QED BY <2>1, <2>2, <2>3, <2>4
<1>3. QED BY <1>1, <1>2 DEF IInv

LEMMA MarkFailedStepInv ==
  ASSUME IInv, NEW r \in Requests, MarkFailedStep(r)
  PROVE  IInv'
<1> USE DEF GoTo, Finish, Provided, Metrics, World
<1>1. TypeOK'
  BY UpdateStatusType DEF IInv, TypeOK, MarkFailedStep, Active, AuditStatus
<1>2. ASSUME NEW q \in Requests
      PROVE  PcInv(q)' /\ CheckedInv(q)' /\ RowInv(q)' /\ AnswerInv(q)'
  <2>0. TypeOK /\ TypeOK' /\ PcInv(q) /\ CheckedInv(q) /\ RowInv(q) /\ AnswerInv(q)
    BY <1>1 DEF IInv
  <2>1. PcInv(q)'
    BY <2>0 DEF MarkFailedStep, TypeOK, PcInv, RowInv, Active, NoRow, Table, Row, Present, UpdateStatus
  <2>2. CheckedInv(q)'
    BY <2>0 DEF MarkFailedStep, TypeOK, PcInv, CheckedInv, Verdict
  <2>3. RowInv(q)'
    BY <2>0 DEF MarkFailedStep, TypeOK, PcInv, CheckedInv, RowInv, NoRow, Table, Row, Present, Verdict, UpdateStatus
  <2>4. AnswerInv(q)'
    BY <2>0 DEF MarkFailedStep, TypeOK, PcInv, CheckedInv, AnswerInv, Verdict
  <2>5. QED BY <2>1, <2>2, <2>3, <2>4
<1>3. QED BY <1>1, <1>2 DEF IInv

LEMMA CountSentInv ==
  ASSUME IInv, NEW r \in Requests, CountSent(r)
  PROVE  IInv'
<1> USE DEF GoTo, Finish, Provided, Metrics, World
<1>1. TypeOK'
  BY DEF IInv, TypeOK, CountSent, Active, Input
<1>2. ASSUME NEW q \in Requests
      PROVE  PcInv(q)' /\ CheckedInv(q)' /\ RowInv(q)' /\ AnswerInv(q)'
  <2>0. TypeOK /\ TypeOK' /\ PcInv(q) /\ CheckedInv(q) /\ RowInv(q) /\ AnswerInv(q)
    BY <1>1 DEF IInv
  <2>1. PcInv(q)'
    BY <2>0 DEF CountSent, TypeOK, PcInv, RowInv, Active, NoRow, Table, Row, Present
  <2>2. CheckedInv(q)'
    BY <2>0 DEF CountSent, TypeOK, PcInv, CheckedInv, Verdict
  <2>3. RowInv(q)'
    BY <2>0 DEF CountSent, TypeOK, PcInv, CheckedInv, RowInv, NoRow, Table, Row, Present, Verdict
  <2>4. AnswerInv(q)'
    BY <2>0 DEF CountSent, TypeOK, PcInv, CheckedInv, AnswerInv, Verdict
  <2>5. QED BY <2>1, <2>2, <2>3, <2>4
<1>3. QED BY <1>1, <1>2 DEF IInv

\* A receipt touches the row of the message it is about and no other, and
\* that row only when it says the message was sent.
LEMMA ReceiptMatches ==
  ASSUME IInv, NEW r \in Requests, NEW s \in Receipt
  PROVE  \A q \in Matching(audit, req[r].integration, r, s) :
           q = r /\ audit[q].status \in {"sent", "delivered", "read"}
<1> SUFFICES ASSUME NEW q \in Matching(audit, req[r].integration, r, s)
             PROVE  q = r /\ audit[q].status \in {"sent", "delivered", "read"}
  OBVIOUS
<1>1. q \in Requests /\ audit[q].externalId = r
  BY DEF Matching
<1>2. r # NoMessageId
  BY SentinelAssumption, MessageIdAssumption
<1>3. RowInv(q)
  BY <1>1 DEF IInv
<1>4. QED BY <1>1, <1>2, <1>3 DEF RowInv

LEMMA StatusUpdateInv ==
  ASSUME IInv, NEW r \in Requests, NEW ack \in DOMAIN AckOf, StatusUpdate(r, ack)
  PROVE  IInv'
<1> DEFINE s == AckOf[ack]
<1> USE DEF Provided, Metrics
<1>1. s \in Receipt /\ s \in AuditStatus
  BY DEF StatusUpdate, Receipt, AuditStatus
<1>2. \/ audit' = MarkOutboundStatusByExternalID(audit, req[r].integration, r, s)
      \/ UNCHANGED audit
  BY DEF StatusUpdate
<1> HIDE DEF s
<1>3. TypeOK'
  <2>1. audit' \in Table
    BY <1>1, <1>2, MarkOutboundType DEF IInv, TypeOK
  <2>2. receipts' \in [Requests -> SUBSET Receipt]
    BY <1>1 DEF IInv, TypeOK, StatusUpdate, s
  <2>3. QED BY <2>1, <2>2 DEF IInv, TypeOK, StatusUpdate
<1>4. \A q \in Requests :
        \/ audit'[q] = audit[q]
        \/ /\ q = r
           /\ audit[q].status \in {"sent", "delivered", "read"}
           /\ audit'[q] = [audit[q] EXCEPT !.status = s]
  BY <1>1, <1>2, ReceiptMatches DEF MarkOutboundStatusByExternalID, IInv, TypeOK, Table
<1>5. ASSUME NEW q \in Requests
      PROVE  PcInv(q)' /\ CheckedInv(q)' /\ RowInv(q)' /\ AnswerInv(q)'
  <2>1. PcInv(q) /\ CheckedInv(q) /\ RowInv(q) /\ AnswerInv(q) /\ TypeOK
    BY DEF IInv
  <2>2. UNCHANGED <<req, rows, pc, answer, messageId, inFlight, accepted>>
    BY DEF StatusUpdate
  <2>3. CheckedInv(q)' /\ AnswerInv(q)'
    BY <2>1, <2>2 DEF CheckedInv, AnswerInv, Verdict
  <2>4. CASE audit'[q] = audit[q]
    BY <2>1, <2>2, <2>3, <2>4 DEF PcInv, RowInv, Present, Verdict
  <2>5. CASE /\ q = r
             /\ audit[q].status \in {"sent", "delivered", "read"}
             /\ audit'[q] = [audit[q] EXCEPT !.status = s]
    <3>1. audit[q] \in Row
      BY <2>1, <2>5 DEF TypeOK, Table, NoRow
    <3>2. /\ audit'[q].status = s
          /\ audit'[q].integration = audit[q].integration
          /\ audit'[q].direction = audit[q].direction
          /\ audit'[q].externalId = audit[q].externalId
      BY <2>5, <3>1 DEF Row
    <3>3. QED
      BY <1>1, <2>1, <2>2, <2>3, <2>5, <3>2 DEF PcInv, RowInv, Present, Verdict, Receipt, NoRow
  <2>6. QED BY <1>4, <2>4, <2>5
<1>6. QED BY <1>3, <1>5 DEF IInv

\* The cascade empties exactly the rows whose integration goes away.
LEMMA DeleteIntegrationInv ==
  ASSUME IInv, NEW i \in Integrations, DeleteIntegration(i)
  PROVE  IInv'
<1> USE DEF Provided, Metrics
<1>1. TypeOK'
  BY CascadeType DEF IInv, TypeOK, DeleteIntegration
<1>2. ASSUME NEW q \in Requests
      PROVE  PcInv(q)' /\ CheckedInv(q)' /\ RowInv(q)' /\ AnswerInv(q)'
  <2>1. PcInv(q) /\ CheckedInv(q) /\ RowInv(q) /\ AnswerInv(q) /\ TypeOK
    BY DEF IInv
  <2>2. CheckedInv(q)' /\ AnswerInv(q)'
    BY <2>1 DEF DeleteIntegration, CheckedInv, AnswerInv, Verdict
  <2>3. CASE audit[q].integration = i
    <3>1. audit'[q] = NoRow
      BY <2>3 DEF DeleteIntegration, Cascade
    <3>2. NoRow.status = "absent" /\ NoRow.externalId = NoMessageId
      BY DEF NoRow
    <3>3. audit[q] # NoRow
      BY <2>3, SentinelAssumption DEF NoRow
    <3>4. Present(audit, q)
      BY <2>1, <3>3 DEF TypeOK, Table, Row, AuditStatus, Present
    <3>5. req[q].integration = i
      BY <2>1, <2>3, <3>4 DEF RowInv
    <3>6. req'[q].integration \notin rows'
      BY <3>5 DEF DeleteIntegration
    <3>7. PcInv(q)'
      BY <2>1, <3>1, <3>2, <3>6 DEF DeleteIntegration, PcInv, Present
    <3>8. RowInv(q)'
      BY <2>1, <3>1, <3>2, <3>6 DEF DeleteIntegration, RowInv, Present
    <3>9. QED BY <2>2, <3>7, <3>8
  <2>4. CASE audit[q].integration # i
    <3>1. audit'[q] = audit[q]
      BY <2>4 DEF DeleteIntegration, Cascade
    <3>2. PcInv(q)'
      BY <2>1, <3>1 DEF DeleteIntegration, PcInv, Present
    <3>3. RowInv(q)'
      BY <2>1, <2>4, <3>1 DEF DeleteIntegration, RowInv, Present, Verdict
    <3>4. QED BY <2>2, <3>2, <3>3
  <2>5. QED BY <2>3, <2>4
<1>3. QED BY <1>1, <1>2 DEF IInv

LEMMA CrashInv ==
  ASSUME IInv, Crash
  PROVE  IInv'
<1> USE DEF Provided
<1>1. TypeOK'
  BY FaultAssumption DEF IInv, TypeOK, Crash, Active
<1>2. ASSUME NEW q \in Requests
      PROVE  PcInv(q)' /\ CheckedInv(q)' /\ RowInv(q)' /\ AnswerInv(q)'
  BY DEF IInv, TypeOK, Crash, Active, PcInv, CheckedInv, RowInv, AnswerInv, Present, Verdict
<1>3. QED BY <1>1, <1>2 DEF IInv

-----------------------------------------------------------------------------
LEMMA InitInv == Init => IInv
<1> SUFFICES ASSUME Init PROVE IInv
  OBVIOUS
<1>1. TypeOK
  BY FaultAssumption DEF Init, TypeOK, EmptyTable, Table, Active, Answer
<1>2. ASSUME NEW r \in Requests
      PROVE  PcInv(r) /\ CheckedInv(r) /\ RowInv(r) /\ AnswerInv(r)
  BY DEF Init, EmptyTable, NoRow, PcInv, CheckedInv, RowInv, AnswerInv, Present
<1>3. QED BY <1>1, <1>2 DEF IInv

LEMMA NextInv == IInv /\ [Next]_vars => IInv'
<1> SUFFICES ASSUME IInv, [Next]_vars PROVE IInv'
  OBVIOUS
<1>1. CASE UNCHANGED vars
  BY <1>1 DEF vars, IInv, TypeOK, PcInv, CheckedInv, RowInv, AnswerInv, Present, Verdict
<1>2. ASSUME NEW r \in Requests, Receive(r) \/ Step(r) \/ ProviderAccepts(r) \/ CountSent(r)
      PROVE  IInv'
  BY <1>2, ReceiveInv, LookupInv, RejectAndAuditInv, AppendAcceptedInv, PrepareInv,
     ProviderAcceptsInv, DispatchOkInv, DispatchFailedInv, MarkSentStepInv,
     MarkFailedStepInv, CountSentInv DEF Step
<1>3. ASSUME NEW r \in Requests, NEW ack \in DOMAIN AckOf, StatusUpdate(r, ack)
      PROVE  IInv'
  BY <1>3, StatusUpdateInv
<1>4. ASSUME NEW i \in Integrations, DeleteIntegration(i)
      PROVE  IInv'
  BY <1>4, DeleteIntegrationInv
<1>5. CASE Crash
  BY <1>5, CrashInv
<1>6. QED BY <1>1, <1>2, <1>3, <1>4, <1>5 DEF Next

\* The invariant holds in every reachable state.
THEOREM Invariance == Spec => []IInv
  BY InitInv, NextInv, PTL DEF Spec

\* Every variable keeps its type: in particular no statement ever gives a row
\* a status or an external id outside the schema's.
THEOREM TypeCorrect == Spec => []TypeOK
<1>1. IInv => TypeOK
  BY DEF IInv
<1>2. QED BY <1>1, Invariance, PTL

\* Nothing reaches a provider that its integration's owner did not ask for a
\* well-formed number (send_message.go), whatever fails and whenever the
\* process stops.
THEOREM TenantBoundary == Spec => []OwnedDispatch
<1>1. IInv => OwnedDispatch
  BY DEF IInv, TypeOK, Input, CheckedInv, OwnedDispatch, Verdict
<1>2. QED BY <1>1, Invariance, PTL

\* A message is in the trail before a provider can have it, and stays there
\* for as long as its integration exists.
THEOREM DispatchAudited == Spec => []AuditedDispatch
<1>1. IInv => AuditedDispatch
  BY DEF IInv, TypeOK, RowInv, AuditedDispatch
<1>2. QED BY <1>1, Invariance, PTL

\* The trail never says more than happened (audit.go).
THEOREM TrailIsTruthful == Spec => []TrailTruthful
<1>1. IInv => TrailTruthful
  BY DEF IInv, CheckedInv, RowInv, TrailTruthful
<1>2. QED BY <1>1, Invariance, PTL

\* 204 means the provider has the message, 400 and 404 that it never will.
THEOREM AnswersAreHonest == Spec => []AnswerHonest
<1>1. IInv => AnswerHonest
  BY DEF IInv, AnswerInv, AnswerHonest
<1>2. QED BY <1>1, Invariance, PTL

-----------------------------------------------------------------------------
\* A goroutine writes a status only over the one it left there itself.
LEMMA HandlerAdvances ==
  ASSUME IInv, NEW r \in Requests, Step(r), NEW q \in Requests
  PROVE  Advances(q)
<1> USE DEF Advances, Forward
<1>1. TypeOK /\ PcInv(r)
  BY DEF IInv
<1>2. CASE RejectAndAudit(r)
  BY <1>1, <1>2 DEF RejectAndAudit, TypeOK, Table, PcInv, AppendEntry, Entry, NoRow
<1>3. CASE AppendAccepted(r)
  BY <1>1, <1>3 DEF AppendAccepted, TypeOK, Table, PcInv, AppendEntry, Entry, NoRow
<1>4. CASE MarkSentStep(r)
  BY <1>1, <1>4 DEF MarkSentStep, TypeOK, Table, Row, NoRow, PcInv, MarkSent, Present
<1>5. CASE MarkFailedStep(r)
  BY <1>1, <1>5 DEF MarkFailedStep, TypeOK, Table, Row, NoRow, PcInv, UpdateStatus, Present
<1>6. CASE Lookup(r) \/ Prepare(r) \/ DispatchOk(r) \/ DispatchFailed(r)
  BY <1>6 DEF Lookup, Prepare, DispatchOk, DispatchFailed
<1>7. QED BY <1>2, <1>3, <1>4, <1>5, <1>6 DEF Step

LEMMA ReceiptAdvances ==
  ASSUME IInv, NEW r \in Requests, NEW ack \in DOMAIN AckOf, StatusUpdate(r, ack),
         NEW q \in Requests
  PROVE  Advances(q)
<1> DEFINE s == AckOf[ack]
           M == Matching(audit, req[r].integration, r, s)
<1>1. /\ s \in Receipt
      /\ \/ audit' = MarkOutboundStatusByExternalID(audit, req[r].integration, r, s)
         \/ UNCHANGED audit
  BY DEF StatusUpdate
<1> HIDE DEF s
<1>2. CASE audit'[q] = audit[q]
  BY <1>2 DEF Advances
<1>3. CASE audit'[q] # audit[q]
  <2>1. q \in M /\ audit'[q] = [audit[q] EXCEPT !.status = s]
    BY <1>1, <1>3 DEF MarkOutboundStatusByExternalID, IInv, TypeOK, Table
  <2>2. LifecycleRank(audit[q].status) < LifecycleRank(s)
    BY <2>1 DEF Matching
  <2>3. audit[q].status \in {"sent", "delivered", "read"}
    BY <1>1, <2>1, ReceiptMatches
  <2>4. audit[q] \in Row
    BY <2>3 DEF IInv, TypeOK, Table, NoRow
  <2>5. audit'[q].status = s
    BY <2>1, <2>4 DEF Row
  <2>6. QED BY <1>1, <2>2, <2>3, <2>5 DEF LifecycleRank, Receipt, Advances, Forward
<1>4. QED BY <1>2, <1>3

LEMMA DeletionAdvances ==
  ASSUME IInv, NEW i \in Integrations, DeleteIntegration(i), NEW q \in Requests
  PROVE  Advances(q)
<1>1. CASE audit[q].integration = i
  <2>1. audit[q] # NoRow
    BY <1>1, SentinelAssumption DEF NoRow
  <2>2. Present(audit, q)
    BY <2>1 DEF IInv, TypeOK, Table, Row, AuditStatus, Present
  <2>3. req[q].integration = i
    BY <1>1, <2>2 DEF IInv, RowInv
  <2>4. QED BY <2>3 DEF DeleteIntegration, Advances
<1>2. CASE audit[q].integration # i
  BY <1>2 DEF DeleteIntegration, Cascade, Advances
<1>3. QED BY <1>1, <1>2

LEMMA NextAdvances ==
  ASSUME IInv, [Next]_vars, NEW q \in Requests
  PROVE  Advances(q)
<1>1. CASE UNCHANGED audit
  BY <1>1 DEF Advances
<1>2. ASSUME NEW r \in Requests, Receive(r) \/ ProviderAccepts(r) \/ CountSent(r)
      PROVE  UNCHANGED audit
  BY <1>2 DEF Receive, ProviderAccepts, CountSent
<1>3. Crash \/ UNCHANGED vars => UNCHANGED audit
  BY DEF Crash, vars
<1>4. QED
  BY <1>1, <1>2, <1>3, HandlerAdvances, ReceiptAdvances, DeletionAdvances DEF Next

\* In the trail a status only moves forward along its lifecycle, although the
\* statements UpdateStatus and MarkSent do not look at the old status: each
\* goroutine owns its entry until it has settled it, and receipts find the
\* entry only after that.
THEOREM StatusOnlyAdvances == Spec => StatusMovesForward
<1>1. IInv /\ [Next]_vars => [TrailAdvances]_vars
  BY NextAdvances DEF TrailAdvances
<1>2. QED BY <1>1, Invariance, PTL DEF Spec, StatusMovesForward

-----------------------------------------------------------------------------
LEMMA ReceiptShows ==
  ASSUME ~DbFaults, IInv,
         NEW r \in Requests, NEW ack \in DOMAIN AckOf, StatusUpdate(r, ack)
  PROVE  NewReceiptsShow(StatusCheck)
<1> DEFINE s == AckOf[ack]
<1>1. /\ s \in Receipt
      /\ \/ audit' = MarkOutboundStatusByExternalID(audit, req[r].integration, r, s)
         \/ DbFaults /\ UNCHANGED audit
      /\ \A q \in Requests : receipts'[q] \ receipts[q] \subseteq IF q = r THEN {s} ELSE {}
  BY DEF StatusUpdate, IInv, TypeOK
<1> HIDE DEF s
<1>2. SUFFICES ASSUME audit[r].externalId = r, s \in StatusCheck
               PROVE  LifecycleRank(audit'[r].status) >= LifecycleRank(s)
  BY <1>1 DEF NewReceiptsShow
<1>3. /\ audit[r].status \in {"sent", "delivered", "read"}
      /\ r # NoMessageId
  BY <1>2, SentinelAssumption, MessageIdAssumption DEF IInv, RowInv
<1>4. /\ audit[r] \in Row
      /\ audit[r].integration = req[r].integration
      /\ audit[r].direction = "outbound"
  BY <1>3 DEF IInv, TypeOK, Table, NoRow, RowInv, Present
<1>5. CASE LifecycleRank(audit[r].status) < LifecycleRank(s)
  <2>1. r \in Matching(audit, req[r].integration, r, s)
    BY <1>2, <1>4, <1>5 DEF Matching
  <2>2. audit' = MarkOutboundStatusByExternalID(audit, req[r].integration, r, s)
    BY <1>1
  <2>3. audit'[r].status = s
    BY <1>2, <1>3, <1>4, <2>1, <2>2 DEF MarkOutboundStatusByExternalID, Row
  <2>4. QED BY <1>1, <2>3 DEF LifecycleRank, Receipt
<1>6. CASE ~(LifecycleRank(audit[r].status) < LifecycleRank(s))
  <2>1. audit'[r] = audit[r]
    BY <1>1, <1>6 DEF MarkOutboundStatusByExternalID, Matching
  <2>2. QED BY <1>1, <1>3, <1>6, <2>1 DEF LifecycleRank, Receipt
<1>7. QED BY <1>5, <1>6

\* With a database that answers, and whatever the schema admits, a receipt of
\* an admitted status that comes after the message id was stored shows in the
\* trail, in whatever order and however often receipts come.  Of a schema that
\* admits no receipt, as the committed one, it says nothing: see receipts_schema.
THEOREM ReceiptsAreRecorded ==
  ASSUME ~DbFaults
  PROVE  Spec => ReceiptRecorded
<1>1. IInv /\ [Next]_vars => [NewReceiptsShow(StatusCheck)]_vars
  <2> SUFFICES ASSUME IInv, [Next]_vars
               PROVE  UNCHANGED receipts \/ NewReceiptsShow(StatusCheck)
    BY DEF NewReceiptsShow
  <2>1. ASSUME NEW r \in Requests,
               Receive(r) \/ Step(r) \/ ProviderAccepts(r) \/ CountSent(r)
        PROVE  UNCHANGED receipts
    BY <2>1 DEF Receive, Step, ProviderAccepts, CountSent, Lookup, RejectAndAudit,
       AppendAccepted, Prepare, DispatchOk, DispatchFailed, MarkSentStep, MarkFailedStep, World
  <2>2. ASSUME NEW i \in Integrations, DeleteIntegration(i) PROVE UNCHANGED receipts
    BY <2>2 DEF DeleteIntegration
  <2>3. Crash \/ UNCHANGED vars => UNCHANGED receipts
    BY DEF Crash, vars
  <2>4. QED BY <2>1, <2>2, <2>3, ReceiptShows DEF Next
<1>2. QED BY <1>1, Invariance, PTL DEF Spec, ReceiptRecorded

-----------------------------------------------------------------------------
(* The refinement of DeliveryPromise. *)

PromisedStatus(r) ==
  IF req[r].integration \notin rows THEN "removed"
  ELSE IF Present(audit, r) THEN audit[r].status ELSE "none"

\* A step that changes neither the rows nor what is promised of a request
\* stutters in the abstract.
LEMMA PromiseStutters ==
  ASSUME UNCHANGED <<req, rows, audit, accepted>>
  PROVE  UNCHANGED Promise!promiseVars
  BY DEF Promise!promiseVars, Present

LEMMA PromiseMoves ==
  ASSUME IInv, UNCHANGED <<req, rows, accepted>>, NEW r \in Requests,
         NEW from, NEW to, PromisedStatus(r) = from, PromisedStatus(r)' = to,
         \A q \in Requests : q # r => audit'[q] = audit[q]
  PROVE  Promise!Move(r, from, to)
  BY DEF Promise!Move, PromisedStatus, Present, IInv, TypeOK

LEMMA RecordStep ==
  ASSUME IInv, NEW r \in Requests, RejectAndAudit(r) \/ AppendAccepted(r)
  PROVE  Promise!Record(r) \/ UNCHANGED Promise!promiseVars
<1> USE DEF Provided, Metrics, World
<1>1. UNCHANGED <<req, rows, accepted>>
  BY DEF RejectAndAudit, AppendAccepted
<1>2. CASE UNCHANGED audit
  BY <1>1, <1>2, PromiseStutters
<1>3. CASE \E s \in {"accepted", "rejected"} :
             req[r].integration \in rows /\ audit' = AppendEntry(audit, r, Entry(r, s))
  <2>1. PICK s \in {"accepted", "rejected"} :
          req[r].integration \in rows /\ audit' = AppendEntry(audit, r, Entry(r, s))
    BY <1>3
  <2>2. audit[r] = NoRow
    BY DEF IInv, PcInv, RejectAndAudit, AppendAccepted
  <2>3. audit'[r].status = s /\ \A q \in Requests : q # r => audit'[q] = audit[q]
    BY <2>1 DEF IInv, TypeOK, Table, AppendEntry, Entry
  <2>4. PromisedStatus(r) = "none" /\ PromisedStatus(r)' = s
    BY <1>1, <2>1, <2>2, <2>3 DEF PromisedStatus, Present, NoRow
  <2>5. Promise!Move(r, "none", s)
    BY <1>1, <2>3, <2>4, PromiseMoves
  <2>6. QED BY <2>1, <2>5 DEF Promise!Record
<1>4. QED BY <1>2, <1>3 DEF RejectAndAudit, AppendAccepted

\* The provider only ever takes what is in the trail as accepted, or was given
\* up as failed, or belonged to an integration that is gone.
LEMMA LeaveStep ==
  ASSUME IInv, NEW r \in Requests, ProviderAccepts(r)
  PROVE  Promise!Leave(r)
<1>1. PromisedStatus(r) \in {"accepted", "failed", "removed"}
  BY DEF ProviderAccepts, PromisedStatus, IInv, TypeOK, Table, Row, NoRow, AuditStatus,
     RowInv, CheckedInv, Present
<1>2. QED BY <1>1 DEF ProviderAccepts, Metrics, World, PromisedStatus, Promise!Leave, Present

LEMMA SettleStep ==
  ASSUME IInv, NEW r \in Requests, MarkSentStep(r) \/ MarkFailedStep(r)
  PROVE  Promise!Settle(r) \/ UNCHANGED Promise!promiseVars
<1> USE DEF Provided, Metrics, World
<1>1. UNCHANGED <<req, rows, accepted>>
  BY DEF MarkSentStep, MarkFailedStep
<1>2. CASE UNCHANGED audit
  BY <1>1, <1>2, PromiseStutters
<1>3. CASE ~UNCHANGED audit
  <2>1. PICK t \in {"sent", "failed"} :
          /\ Present(audit, r) /\ audit'[r].status = t
          /\ t = "sent" => r \in accepted
          /\ \A q \in Requests : q # r => audit'[q] = audit[q]
    BY <1>3 DEF MarkSentStep, MarkFailedStep, MarkSent, UpdateStatus, Present,
       IInv, TypeOK, Table, Row, NoRow, PcInv
  <2>2. audit[r].status = "accepted" /\ req[r].integration \in rows
    BY <2>1 DEF MarkSentStep, MarkFailedStep, IInv, PcInv, RowInv, Present
  <2>3. PromisedStatus(r) = "accepted" /\ PromisedStatus(r)' = t
    BY <1>1, <2>1, <2>2 DEF PromisedStatus, Present
  <2>4. Promise!Move(r, "accepted", t)
    BY <1>1, <2>1, <2>3, PromiseMoves
  <2>5. QED BY <2>1, <2>4 DEF Promise!Settle
<1>4. QED BY <1>2, <1>3

LEMMA AdvanceStep ==
  ASSUME IInv, NEW r \in Requests, NEW ack \in DOMAIN AckOf, StatusUpdate(r, ack)
  PROVE  Promise!Advance(r) \/ UNCHANGED Promise!promiseVars
<1>1. /\ UNCHANGED <<req, rows, accepted>>
      /\ AckOf[ack] \in Receipt
      /\ \/ audit' = MarkOutboundStatusByExternalID(audit, req[r].integration, r, AckOf[ack])
         \/ UNCHANGED audit
  BY DEF StatusUpdate, Provided
<1>2. \A q \in Requests : q # r => audit'[q] = audit[q]
  BY <1>1, ReceiptMatches DEF MarkOutboundStatusByExternalID, IInv, TypeOK, Table
<1>3. CASE audit'[r] = audit[r]
  <2>1. audit' \in Table
    BY StatusUpdateInv DEF IInv, TypeOK
  <2>2. UNCHANGED audit
    BY <1>2, <1>3, <2>1 DEF IInv, TypeOK, Table
  <2>3. QED BY <1>1, <2>2, PromiseStutters
<1>4. CASE audit'[r] # audit[r]
  <2>1. r \in Matching(audit, req[r].integration, r, AckOf[ack])
    BY <1>1, <1>4 DEF MarkOutboundStatusByExternalID, IInv, TypeOK, Table
  <2>2. audit[r].status \in {"sent", "delivered", "read"}
    BY <1>1, <2>1, ReceiptMatches
  <2>3. req[r].integration \in rows /\ audit[r] \in Row
    BY <2>2 DEF IInv, RowInv, Present, TypeOK, Table, NoRow
  <2>4. audit'[r].status = AckOf[ack]
    BY <1>1, <1>4, <2>1, <2>3 DEF MarkOutboundStatusByExternalID, Row
  <2>5. <<audit[r].status, AckOf[ack]>> \in
          {<<"sent", "delivered">>, <<"sent", "read">>, <<"delivered", "read">>}
    BY <1>1, <2>1, <2>2 DEF Matching, LifecycleRank, Receipt
  <2>6. PromisedStatus(r) = audit[r].status /\ PromisedStatus(r)' = AckOf[ack]
    BY <1>1, <2>2, <2>3, <2>4 DEF PromisedStatus, Present, Receipt
  <2>7. Promise!Move(r, audit[r].status, AckOf[ack])
    BY <1>1, <1>2, <2>6, PromiseMoves
  <2>8. QED BY <2>5, <2>7 DEF Promise!Advance
<1>5. QED BY <1>3, <1>4

LEMMA RemoveStep ==
  ASSUME IInv, NEW i \in Integrations, DeleteIntegration(i)
  PROVE  Promise!Remove(i)
<1>1. ASSUME NEW q \in Requests
      PROVE  PromisedStatus(q)' = IF req[q].integration = i THEN "removed" ELSE PromisedStatus(q)
  <2>1. req' = req /\ rows' = rows \ {i}
    BY DEF DeleteIntegration
  <2>2. CASE req[q].integration = i
    BY <2>1, <2>2 DEF PromisedStatus
  <2>3. CASE req[q].integration # i
    <3>1. audit[q].integration # i
      BY <2>3, SentinelAssumption
      DEF IInv, TypeOK, Table, Row, NoRow, AuditStatus, RowInv, Present
    <3>2. audit'[q] = audit[q]
      BY <3>1 DEF DeleteIntegration, Cascade
    <3>3. QED BY <2>1, <2>3, <3>2 DEF PromisedStatus, Present
  <2>4. QED BY <2>2, <2>3
<1>2. QED BY <1>1 DEF DeleteIntegration, Provided, PromisedStatus, Present, Promise!Remove

\* The machinery of handlers, providers, receipts, deletions and crashes keeps
\* what DeliveryPromise promises of every attempt.
THEOREM PromiseIsKept == Spec => PromiseKept
<1>1. Init => Promise!PromiseInit
  BY DEF Init, Promise!PromiseInit, EmptyTable, NoRow, Present, Input
<1>2. IInv /\ [Next]_vars => [Promise!PromiseNext]_(Promise!promiseVars)
  <2> SUFFICES ASSUME IInv, [Next]_vars
               PROVE  Promise!PromiseNext \/ UNCHANGED Promise!promiseVars
    OBVIOUS
  <2>1. ASSUME NEW r \in Requests,
               Receive(r) \/ CountSent(r) \/ Lookup(r) \/ Prepare(r)
                 \/ DispatchOk(r) \/ DispatchFailed(r)
        PROVE  UNCHANGED Promise!promiseVars
    BY <2>1, PromiseStutters DEF Receive, CountSent, Lookup, Prepare, DispatchOk,
       DispatchFailed, Provided, World
  <2>2. Crash \/ UNCHANGED vars => UNCHANGED Promise!promiseVars
    BY PromiseStutters DEF Crash, vars, Provided
  <2>3. ASSUME NEW r \in Requests, Step(r)
        PROVE  Promise!PromiseNext \/ UNCHANGED Promise!promiseVars
    BY <2>1, <2>3, RecordStep, SettleStep DEF Step, Promise!PromiseNext
  <2>4. ASSUME NEW r \in Requests, ProviderAccepts(r)
        PROVE  Promise!PromiseNext
    BY <2>4, LeaveStep DEF Promise!PromiseNext
  <2>5. ASSUME NEW r \in Requests, NEW ack \in DOMAIN AckOf, StatusUpdate(r, ack)
        PROVE  Promise!PromiseNext \/ UNCHANGED Promise!promiseVars
    BY <2>5, AdvanceStep DEF Promise!PromiseNext
  <2>6. ASSUME NEW i \in Integrations, DeleteIntegration(i)
        PROVE  Promise!PromiseNext
    BY <2>6, RemoveStep DEF Promise!PromiseNext
  <2>7. QED BY <2>1, <2>2, <2>3, <2>4, <2>5, <2>6 DEF Next
<1>3. QED BY <1>1, <1>2, Invariance, PTL DEF Spec, PromiseKept, Promise!Spec
=============================================================================
