------------------------------ MODULE Gateway -------------------------------
(***************************************************************************)
(* Connection and Outbound together, as they run in one process over one   *)
(* database and one Evolution: sends go on while their integration is      *)
(* connected and disconnected.  They meet in three places.  The rows that  *)
(* Outbound reads are those Connection changes, and the last step of a     *)
(* disconnect takes the audit entries along.  Evolution takes a message    *)
(* only while a phone is paired.  And it reports on a message only when    *)
(* the instance's webhook is set.                                          *)
(*                                                                         *)
(* Integrations have been created here; Connection has their creation.     *)
(* Numbers are well-formed and the process does not stop here; Outbound    *)
(* and Connection have malformed numbers and stops.                        *)
(***************************************************************************)
EXTENDS Connection

CONSTANTS
  Entries, MessageIds, NoMessageId, StatusCheck,
  SendFaults      \* whether database and Redis calls of sends may fail

VARIABLES
  req, audit, sendPc, sendAnswer, messageId, inFlight, accepted, receipts,
  counting, sentCount     \* those of Outbound

sendVars == <<req, audit, sendPc, sendAnswer, messageId, inFlight, accepted, receipts,
              counting, sentCount>>
allVars  == <<vars, sendVars>>

\* Outbound's table of integrations: those that have not been disconnected.
Out == INSTANCE Outbound WITH
  rows   <- {i \in Integrations : Exists(i)},
  pc     <- sendPc,
  answer <- sendAnswer,
  DbFaults <- SendFaults

\* What Outbound assumes of its constants.
ASSUME SendAssumption ==
  /\ MessageIds = Entries /\ NoMessageId \notin MessageIds /\ SendFaults \in BOOLEAN
  /\ Out!MigrationStatusCheck \subseteq StatusCheck /\ StatusCheck \subseteq Out!AuditStatus

GatewayInit ==
  /\ row = [i \in Integrations |-> IF Provider[i] = "evolution" THEN "inactive" ELSE "active"]
  /\ inst = [i \in Integrations |-> "none"]
  /\ hooked = {} /\ qrShown = {} /\ paired = {} /\ late = {} /\ leaving = {}
  /\ pc = [c \in Clients |-> "idle"]
  /\ call = [c \in Clients |-> NoCall]
  /\ seenActive = [c \in Clients |-> FALSE]
  /\ answer = [c \in Clients |-> "none"]
  /\ crashes = 0
  /\ Out!Init
  /\ \A e \in Entries : req[e].phone = "e164"

-----------------------------------------------------------------------------
\* Faulty variant: a foreign key without ON DELETE CASCADE.
TakeTrailAlongNot == UNCHANGED sendVars

\* What a step of Connection does to the trail: the entries of an integration
\* whose row it deletes go with it.
TakeTrailAlong ==
  /\ audit' = [e \in Entries |->
       IF \E i \in Integrations : audit[e].integration = i /\ Exists(i) /\ row'[i] = "deleted"
       THEN Out!NoRow ELSE audit[e]]
  /\ UNCHANGED <<req, sendPc, sendAnswer, messageId, inFlight, accepted, receipts,
                 counting, sentCount>>

\* Evolution takes a message only through a paired phone.
ProviderAccepts(r) ==
  LET i == req[r].integration
  IN /\ Provider[i] = "evolution" => inst[i] = "open"
     /\ Out!ProviderAccepts(r)

\* A receipt is posted to the webhook of the instance.
StatusUpdate(r, ack) ==
  /\ req[r].integration \in hooked
  /\ Out!StatusUpdate(r, ack)

SendStep(r) ==
  \/ Out!Receive(r)
  \/ Out!Step(r)
  \/ ProviderAccepts(r)
  \/ Out!CountSent(r)
  \/ \E ack \in DOMAIN Out!AckOf : StatusUpdate(r, ack)

GatewayNext ==
  \/ /\ \/ \E c \in Clients : Step(c) \/ \E request \in Call : Begin(c, request)
        \/ \E i \in Integrations : Scan(i) \/ SessionLost(i)
        \/ \E request \in late : TakesEffect(request)
     /\ TakeTrailAlong
  \/ UNCHANGED vars /\ \E r \in Entries : SendStep(r)

GatewaySpec == GatewayInit /\ [][GatewayNext]_allVars

-----------------------------------------------------------------------------
\* Sending, with integrations coming and going the way Connection has it, is
\* the sending of Outbound: all that is proved there holds here.  Above all, a
\* disconnected row never comes back under a send that has looked it up.
SendsAsOutbound == Out!Init /\ [][Out!Next]_(Out!vars)

\* The trail of an integration goes only at its owner's hand: an entry vanishes
\* in no other step than the last one of a disconnect its owner asked for.
OwnerRemoves ==
  \A e \in Entries :
    Out!Present(audit, e) /\ ~Out!Present(audit', e) =>
      \E c \in Clients :
        /\ pc[c] = "delete"
        /\ call[c].op = "disconnect"
        /\ call[c].integration = audit[e].integration
        /\ call[c].consumer = Owner[audit[e].integration]
TrailRemovedByOwner == [][OwnerRemoves]_allVars

\* What goes out through Evolution goes out through an instance that reports
\* here (connect_integration.go sets the webhook before it shows a QR): a
\* message whose receipts and answers would go nowhere is only ever taken once
\* the owner of the integration has asked to disconnect it.
TakenWhenHooked ==
  \A r \in accepted' \ accepted :
    Provider[req[r].integration] = "evolution" => req[r].integration \in hooked \cup leaving
TakenIsTracked == [][TakenWhenHooked]_allVars
=============================================================================
