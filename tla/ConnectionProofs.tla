-------------------------- MODULE ConnectionProofs ---------------------------
(***************************************************************************)
(* Proofs about Connection, for any number of clients, consumers and       *)
(* integrations, whatever calls to the database and to Evolution fail or   *)
(* take effect late, and however often the process stops.                  *)
(***************************************************************************)
EXTENDS Connection, TLAPS

\* What a call past its lookup relies on: the integration is one its consumer
\* owns, only a call that asked to disconnect is disconnecting, the row has not
\* come back to "inactive" since it was read as active, and the phone was paired
\* when the call is about to mark it active.
CallInv(c) ==
  LET i == call[c].integration
  IN /\ pc[c] # "idle" => call[c] \in Call
     /\ pc[c] \in ConnectPc \cup DisconnectPc =>
          Owner[i] = call[c].consumer /\ row[i] # "unborn"
     /\ pc[c] \in DisconnectPc => call[c].op = "disconnect"
     /\ pc[c] \in ConnectPc =>
          /\ Provider[i] = "evolution"
          /\ seenActive[c] => row[i] \in {"active", "deleted"}
     /\ pc[c] = "activate" => i \in paired
     /\ answer[c] = "connected" => call[c] \in Call /\ row[i] \in {"active", "deleted"}

\* A session is open, and an Evolution integration active, only after pairing.
PairedInv(i) ==
  \/ i \in paired
  \/ inst[i] # "open" /\ ~(Provider[i] = "evolution" /\ row[i] = "active")

IInv ==
  /\ TypeOK
  /\ \A c \in Clients : CallInv(c)
  /\ \A i \in Integrations : PairedInv(i)

-----------------------------------------------------------------------------
USE OwnerAssumption, ProviderAssumption, SentinelAssumption
USE DEF evolutionVars, callVars, GoTo, Finish, SetInstance, Exists, Create, Hook, StartPairing,
        EndSession, Remove, Unanswered, EvolutionUnchanged

\* The integration of a call in progress is one of the table, and the call
\* that names none is not one.
LEMMA CallType ==
  ASSUME IInv, NEW c \in Clients, pc[c] # "idle"
  PROVE  /\ call[c] \in Call
         /\ call[c].integration \in Integrations
         /\ call[c].op \in {"connect", "disconnect"}
BY DEF IInv, CallInv, Call

LEMMA RequestType ==
  \A op \in {"create", "webhook", "qr", "logout", "remove"} : \A i \in Integrations :
    [op |-> op, integration |-> i] \in Request
BY DEF Request

LEMMA InitInv == Init => IInv
<1> SUFFICES ASSUME Init PROVE IInv
  OBVIOUS
<1>1. TypeOK
  BY FaultAssumption DEF Init, TypeOK, Answer
<1>2. ASSUME NEW c \in Clients PROVE CallInv(c)
  BY DEF Init, CallInv, ConnectPc, DisconnectPc
<1>3. ASSUME NEW i \in Integrations PROVE PairedInv(i)
  BY DEF Init, PairedInv
<1>4. QED BY <1>1, <1>2, <1>3 DEF IInv

LEMMA CreateIntegrationInv ==
  ASSUME IInv, NEW i \in Integrations, CreateIntegration(i)
  PROVE  IInv'
<1>1. TypeOK'
  BY DEF IInv, TypeOK, CreateIntegration
<1>2. ASSUME NEW c \in Clients PROVE CallInv(c)'
  BY DEF IInv, TypeOK, CreateIntegration, CallInv, ConnectPc, DisconnectPc, Call
<1>3. ASSUME NEW j \in Integrations PROVE PairedInv(j)'
  BY DEF IInv, TypeOK, CreateIntegration, PairedInv
<1>4. QED BY <1>1, <1>2, <1>3 DEF IInv

LEMMA BeginInv ==
  ASSUME IInv, NEW c \in Clients, NEW request \in Call, Begin(c, request)
  PROVE  IInv'
<1>0. leaving' \subseteq Integrations
  BY DEF IInv, TypeOK, Begin, Call
<1>1. TypeOK'
  BY <1>0 DEF IInv, TypeOK, Begin, Answer
<1>2. ASSUME NEW d \in Clients PROVE CallInv(d)'
  BY DEF IInv, TypeOK, Begin, CallInv, ConnectPc, DisconnectPc
<1>3. ASSUME NEW j \in Integrations PROVE PairedInv(j)'
  BY DEF IInv, Begin, PairedInv
<1>4. QED BY <1>1, <1>2, <1>3 DEF IInv

LEMMA LookupInv ==
  ASSUME IInv, NEW c \in Clients, Lookup(c)
  PROVE  IInv'
<1>0. /\ call[c] \in Call /\ call[c].integration \in Integrations
      /\ call[c].op \in {"connect", "disconnect"}
  BY CallType DEF Lookup
<1>1. TypeOK'
  BY DEF IInv, TypeOK, Lookup, Answer, ConnectPc, DisconnectPc, NotFound
<1>2. ASSUME NEW d \in Clients PROVE CallInv(d)'
  <2>1. CASE d # c
    BY <2>1 DEF IInv, TypeOK, Lookup, CallInv
  <2>2. CASE d = c /\ pc'[c] = "idle"
    BY <1>0, <2>2 DEF IInv, TypeOK, Lookup, CallInv, ConnectPc, DisconnectPc, NotFound
  <2>3. CASE d = c /\ pc'[c] # "idle"
    <3>1. /\ Owner[call[c].integration] = call[c].consumer
          /\ row[call[c].integration] \in {"inactive", "active"}
          /\ \/ /\ pc'[c] = "create" /\ Provider[call[c].integration] = "evolution"
             \/ pc'[c] \in {"logout", "delete"} /\ call[c].op = "disconnect"
          /\ seenActive'[c] = (row[call[c].integration] = "active")
          /\ UNCHANGED <<row, paired, call, answer>>
      BY <1>0, <2>3 DEF IInv, TypeOK, Lookup
    <3>2. answer[c] = "connected" => row[call[c].integration] \in {"active", "deleted"}
      BY DEF IInv, CallInv
    <3>3. QED BY <1>0, <2>3, <3>1, <3>2 DEF CallInv, ConnectPc, DisconnectPc
  <2>4. QED BY <2>1, <2>2, <2>3
<1>3. ASSUME NEW j \in Integrations PROVE PairedInv(j)'
  BY DEF IInv, Lookup, PairedInv
<1>4. QED BY <1>1, <1>2, <1>3 DEF IInv

LEMMA CreateInstanceInv ==
  ASSUME IInv, NEW c \in Clients, CreateInstance(c)
  PROVE  IInv'
<1>0. call[c].integration \in Integrations
  BY CallType DEF CreateInstance
<1>01. late' \subseteq Request
  BY <1>0, RequestType DEF IInv, TypeOK, CreateInstance
<1>1. TypeOK'
  <2>1. inst' \in [Integrations -> {"none", "close", "connecting", "open"}]
        /\ UNCHANGED <<row, hooked, qrShown, paired, leaving, call, crashes>>
    BY <1>0 DEF IInv, TypeOK, CreateInstance
  <2>2. /\ pc' \in [Clients -> ConnectPc \cup DisconnectPc \cup {"idle", "lookup"}]
        /\ seenActive' \in [Clients -> BOOLEAN] /\ answer' \in [Clients -> Answer]
    BY DEF IInv, TypeOK, CreateInstance, Answer, ConnectPc, DisconnectPc
  <2>3. QED BY <1>01, <2>1, <2>2 DEF IInv, TypeOK
<1>2. ASSUME NEW d \in Clients PROVE CallInv(d)'
  BY <1>0 DEF IInv, TypeOK, CreateInstance, CallInv, ConnectPc, DisconnectPc
<1>3. ASSUME NEW j \in Integrations PROVE PairedInv(j)'
  BY <1>0 DEF IInv, TypeOK, CreateInstance, PairedInv
<1>4. QED BY <1>1, <1>2, <1>3 DEF IInv

LEMMA SetWebhookInv ==
  ASSUME IInv, NEW c \in Clients, SetWebhook(c)
  PROVE  IInv'
<1>0. call[c].integration \in Integrations
  BY CallType DEF SetWebhook
<1>01. late' \subseteq Request
  BY <1>0, RequestType DEF IInv, TypeOK, SetWebhook
<1>1. TypeOK'
  BY <1>0, <1>01 DEF IInv, TypeOK, SetWebhook, Answer, ConnectPc, DisconnectPc
<1>2. ASSUME NEW d \in Clients PROVE CallInv(d)'
  BY <1>0 DEF IInv, TypeOK, SetWebhook, CallInv, ConnectPc, DisconnectPc
<1>3. ASSUME NEW j \in Integrations PROVE PairedInv(j)'
  BY DEF IInv, SetWebhook, PairedInv
<1>4. QED BY <1>1, <1>2, <1>3 DEF IInv

LEMMA ConnectionStateInv ==
  ASSUME IInv, NEW c \in Clients, ConnectionState(c)
  PROVE  IInv'
<1>0. call[c].integration \in Integrations
  BY CallType DEF ConnectionState
<1>1. TypeOK'
  BY <1>0 DEF IInv, TypeOK, ConnectionState, Answer, ConnectPc, DisconnectPc
<1>2. ASSUME NEW d \in Clients PROVE CallInv(d)'
  BY <1>0 DEF IInv, TypeOK, ConnectionState, CallInv, PairedInv, ConnectPc, DisconnectPc
<1>3. ASSUME NEW j \in Integrations PROVE PairedInv(j)'
  BY DEF IInv, ConnectionState, PairedInv
<1>4. QED BY <1>1, <1>2, <1>3 DEF IInv

LEMMA ActivateInv ==
  ASSUME IInv, NEW c \in Clients, Activate(c)
  PROVE  IInv'
<1>0. call[c].integration \in Integrations /\ call[c] \in Call
  BY CallType DEF Activate
<1>1. TypeOK'
  BY <1>0 DEF IInv, TypeOK, Activate, Answer, ConnectPc, DisconnectPc
<1>2. ASSUME NEW d \in Clients PROVE CallInv(d)'
  BY <1>0 DEF IInv, TypeOK, Activate, CallInv, ConnectPc, DisconnectPc, Call
<1>3. ASSUME NEW j \in Integrations PROVE PairedInv(j)'
  BY <1>0 DEF IInv, TypeOK, Activate, CallInv, PairedInv, ConnectPc
<1>4. QED BY <1>1, <1>2, <1>3 DEF IInv

LEMMA GetQRInv ==
  ASSUME IInv, NEW c \in Clients, GetQR(c)
  PROVE  IInv'
<1>0. call[c].integration \in Integrations
  BY CallType DEF GetQR
<1>01. late' \subseteq Request
  BY <1>0, RequestType DEF IInv, TypeOK, GetQR
<1>1. TypeOK'
  <2>1. /\ inst' \in [Integrations -> {"none", "close", "connecting", "open"}]
        /\ qrShown' \subseteq Integrations
        /\ UNCHANGED <<row, hooked, paired, leaving, call, crashes>>
    BY <1>0 DEF IInv, TypeOK, GetQR
  <2>2. /\ pc' \in [Clients -> ConnectPc \cup DisconnectPc \cup {"idle", "lookup"}]
        /\ seenActive' \in [Clients -> BOOLEAN] /\ answer' \in [Clients -> Answer]
    BY DEF IInv, TypeOK, GetQR, Answer, ConnectPc, DisconnectPc
  <2>3. QED BY <1>01, <2>1, <2>2 DEF IInv, TypeOK
<1>2. ASSUME NEW d \in Clients PROVE CallInv(d)'
  BY <1>0 DEF IInv, TypeOK, GetQR, CallInv, ConnectPc, DisconnectPc
<1>3. ASSUME NEW j \in Integrations PROVE PairedInv(j)'
  BY <1>0 DEF IInv, TypeOK, GetQR, PairedInv
<1>4. QED BY <1>1, <1>2, <1>3 DEF IInv

LEMMA LogoutInstanceInv ==
  ASSUME IInv, NEW c \in Clients, LogoutInstance(c)
  PROVE  IInv'
<1>0. call[c].integration \in Integrations
  BY CallType DEF LogoutInstance
<1>01. late' \subseteq Request
  BY <1>0, RequestType DEF IInv, TypeOK, LogoutInstance
<1>1. TypeOK'
  BY <1>0, <1>01 DEF IInv, TypeOK, LogoutInstance, ConnectPc, DisconnectPc
<1>2. ASSUME NEW d \in Clients PROVE CallInv(d)'
  BY <1>0 DEF IInv, TypeOK, LogoutInstance, CallInv, ConnectPc, DisconnectPc
<1>3. ASSUME NEW j \in Integrations PROVE PairedInv(j)'
  BY <1>0 DEF IInv, TypeOK, LogoutInstance, PairedInv
<1>4. QED BY <1>1, <1>2, <1>3 DEF IInv

LEMMA DeleteInstanceInv ==
  ASSUME IInv, NEW c \in Clients, DeleteInstance(c)
  PROVE  IInv'
<1>0. call[c].integration \in Integrations
  BY CallType DEF DeleteInstance
<1>01. late' \subseteq Request
  BY <1>0, RequestType DEF IInv, TypeOK, DeleteInstance
<1>1. TypeOK'
  BY <1>0, <1>01 DEF IInv, TypeOK, DeleteInstance, ConnectPc, DisconnectPc
<1>2. ASSUME NEW d \in Clients PROVE CallInv(d)'
  BY <1>0 DEF IInv, TypeOK, DeleteInstance, CallInv, ConnectPc, DisconnectPc
<1>3. ASSUME NEW j \in Integrations PROVE PairedInv(j)'
  BY <1>0 DEF IInv, TypeOK, DeleteInstance, PairedInv
<1>4. QED BY <1>1, <1>2, <1>3 DEF IInv

LEMMA DeleteRowInv ==
  ASSUME IInv, NEW c \in Clients, DeleteRow(c)
  PROVE  IInv'
<1>0. call[c].integration \in Integrations
  BY CallType DEF DeleteRow
<1>1. TypeOK'
  BY <1>0 DEF IInv, TypeOK, DeleteRow, Answer, ConnectPc, DisconnectPc
<1>2. ASSUME NEW d \in Clients PROVE CallInv(d)'
  BY <1>0 DEF IInv, TypeOK, DeleteRow, CallInv, ConnectPc, DisconnectPc, Call
<1>3. ASSUME NEW j \in Integrations PROVE PairedInv(j)'
  BY <1>0 DEF IInv, TypeOK, DeleteRow, PairedInv
<1>4. QED BY <1>1, <1>2, <1>3 DEF IInv

\* Evolution and the phone.
LEMMA ScanInv ==
  ASSUME IInv, NEW i \in Integrations, Scan(i)
  PROVE  IInv'
<1>1. TypeOK'
  BY DEF IInv, TypeOK, Scan
<1>2. ASSUME NEW c \in Clients PROVE CallInv(c)'
  BY DEF IInv, Scan, CallInv
<1>3. ASSUME NEW j \in Integrations PROVE PairedInv(j)'
  BY DEF IInv, TypeOK, Scan, PairedInv
<1>4. QED BY <1>1, <1>2, <1>3 DEF IInv

LEMMA SessionLostInv ==
  ASSUME IInv, NEW i \in Integrations, SessionLost(i)
  PROVE  IInv'
<1>1. TypeOK'
  BY DEF IInv, TypeOK, SessionLost
<1>2. ASSUME NEW c \in Clients PROVE CallInv(c)'
  BY DEF IInv, SessionLost, CallInv
<1>3. ASSUME NEW j \in Integrations PROVE PairedInv(j)'
  BY DEF IInv, TypeOK, SessionLost, PairedInv
<1>4. QED BY <1>1, <1>2, <1>3 DEF IInv

LEMMA TakesEffectInv ==
  ASSUME IInv, NEW request \in late, TakesEffect(request)
  PROVE  IInv'
<1>0. request.integration \in Integrations /\ late' \subseteq late
  BY DEF IInv, TypeOK, TakesEffect, Request
<1>1. TypeOK'
  BY <1>0 DEF IInv, TypeOK, TakesEffect
<1>2. ASSUME NEW c \in Clients PROVE CallInv(c)'
  BY DEF IInv, TakesEffect, CallInv
<1>3. ASSUME NEW j \in Integrations PROVE PairedInv(j)'
  BY <1>0 DEF IInv, TypeOK, TakesEffect, PairedInv
<1>4. QED BY <1>1, <1>2, <1>3 DEF IInv

LEMMA CrashInv ==
  ASSUME IInv, Crash
  PROVE  IInv'
<1>0. late' \subseteq Request
  BY CallType, RequestType DEF IInv, TypeOK, Crash
<1>1. TypeOK'
  BY FaultAssumption, <1>0 DEF IInv, TypeOK, Crash, Answer
<1>2. ASSUME NEW c \in Clients PROVE CallInv(c)'
  BY DEF IInv, Crash, CallInv, ConnectPc, DisconnectPc
<1>3. ASSUME NEW j \in Integrations PROVE PairedInv(j)'
  BY DEF IInv, Crash, PairedInv
<1>4. QED BY <1>1, <1>2, <1>3 DEF IInv

LEMMA StutterInv == IInv /\ UNCHANGED vars => IInv'
BY DEF IInv, TypeOK, CallInv, PairedInv, vars

LEMMA NextInv == IInv /\ [Next]_vars => IInv'
<1> SUFFICES ASSUME IInv, [Next]_vars PROVE IInv'
  OBVIOUS
<1>1. ASSUME NEW c \in Clients, ConnectStep(c) PROVE IInv'
  BY <1>1, CreateInstanceInv, SetWebhookInv, ConnectionStateInv, ActivateInv, GetQRInv
     DEF ConnectStep
<1>2. ASSUME NEW c \in Clients, DisconnectStep(c) PROVE IInv'
  BY <1>2, LogoutInstanceInv, DeleteInstanceInv, DeleteRowInv DEF DisconnectStep
<1>3. QED
  BY <1>1, <1>2, LookupInv, BeginInv, CreateIntegrationInv, ScanInv, SessionLostInv,
     TakesEffectInv, CrashInv, StutterInv DEF Next, Step

-----------------------------------------------------------------------------
\* The inductive invariant of the connect and disconnect flows.
THEOREM Invariance == Spec => []IInv
BY InitInv, NextInv, PTL DEF Spec

\* Rows, instances and calls stay what the types say, in every run.
THEOREM TypeCorrect == Spec => []TypeOK
<1>1. IInv => TypeOK
  BY DEF IInv
<1>2. QED BY <1>1, Invariance, PTL

\* An Evolution integration counts as active only once a phone was paired with
\* it, whoever polls, disconnects or reconnects it meanwhile.
THEOREM ActivePaired == Spec => []ActiveWasPaired
<1>1. IInv => ActiveWasPaired
  BY DEF IInv, PairedInv, ActiveWasPaired
<1>2. QED BY <1>1, Invariance, PTL

\* A consumer told "connected" has an active integration or a deleted one,
\* although the call decides on the Active flag it read before it asked
\* Evolution three times.
THEOREM ConnectedActive == Spec => []ConnectedIsActive
<1>1. IInv => ConnectedIsActive
  BY DEF IInv, CallInv, ConnectedIsActive
<1>2. QED BY <1>1, Invariance, PTL

\* A disconnected integration stays so: a connect that read it before writes
\* nothing back.
THEOREM DeletedForGood == Spec => NeverResurrected
<1>1. ASSUME IInv, [Next]_vars PROVE StaysDeleted
  <2> SUFFICES ASSUME NEW i \in Integrations, row[i] = "deleted" PROVE row'[i] = "deleted"
    BY DEF StaysDeleted
  <2>1. ASSUME NEW c \in Clients, Step(c) PROVE row'[i] = "deleted"
    <3>1. CASE Lookup(c)
      BY <3>1 DEF Lookup
    <3>2. CASE ConnectStep(c)
      BY <1>1, <3>2, CallType DEF IInv, TypeOK, ConnectStep, CreateInstance, SetWebhook,
         ConnectionState, Activate, GetQR
    <3>3. CASE DisconnectStep(c)
      BY <1>1, <3>3, CallType DEF IInv, TypeOK, DisconnectStep, LogoutInstance,
         DeleteInstance, DeleteRow
    <3>4. QED BY <2>1, <3>1, <3>2, <3>3 DEF Step
  <2>2. QED
    BY <1>1, <2>1 DEF IInv, TypeOK, Next, vars, Begin, CreateIntegration, Scan, SessionLost,
       TakesEffect, Crash
<1>2. QED BY <1>1, Invariance, PTL DEF Spec, NeverResurrected

-----------------------------------------------------------------------------
\* An integration its owner never asked to disconnect has no logout or delete
\* under way, called or late.  So a webhook that was set stays, and QRs are only
\* shown, and phones only paired, where one was set.
ReadyInv ==
  /\ \A c \in Clients :
       pc[c] # "idle" /\ call[c].op = "disconnect" /\ call[c].consumer = Owner[call[c].integration]
         => call[c].integration \in leaving
  /\ \A i \in Integrations : i \notin leaving =>
       /\ inst[i] \in {"connecting", "open"} => i \in hooked
       /\ [op |-> "qr", integration |-> i] \in late => i \in hooked
       /\ [op |-> "remove", integration |-> i] \notin late
  /\ \A c \in Clients :
       pc[c] \in {"state", "activate", "qr"} \/ answer[c] \in {"qr", "connected"}
         => call[c].integration \in hooked \cup leaving

ReadyIInv == IInv /\ ReadyInv

\* Whoever is disconnecting was asked to by the owner.
LEMMA DisconnectAsked ==
  ASSUME ReadyIInv, NEW c \in Clients, pc[c] \in DisconnectPc
  PROVE  call[c].integration \in leaving
BY DEF ReadyIInv, ReadyInv, IInv, CallInv, DisconnectPc

LEMMA ReadyInit == Init => ReadyIInv
BY InitInv DEF Init, ReadyIInv, ReadyInv

LEMMA ReadyBegin ==
  ASSUME ReadyIInv, NEW c \in Clients,
         Lookup(c) \/ \E request \in Call : Begin(c, request)
  PROVE  ReadyInv'
<1>0. TypeOK /\ ReadyInv
  BY DEF ReadyIInv, IInv
<1>1. CASE Lookup(c)
  BY <1>0, <1>1 DEF TypeOK, Lookup, NotFound, ReadyInv
<1>2. ASSUME NEW request \in Call, Begin(c, request)
      PROVE  ReadyInv'
  BY <1>0, <1>2 DEF TypeOK, Begin, ReadyInv
<1>3. QED BY <1>1, <1>2

LEMMA ReadyConnect ==
  ASSUME ReadyIInv, NEW c \in Clients, ConnectStep(c)
  PROVE  ReadyInv'
<1>0. call[c].integration \in Integrations /\ TypeOK /\ ReadyInv
  BY CallType DEF ReadyIInv, IInv, ConnectStep, CreateInstance, SetWebhook, ConnectionState,
     Activate, GetQR
<1>1. CASE CreateInstance(c)
  BY <1>0, <1>1 DEF TypeOK, CreateInstance, ReadyInv
<1>2. CASE SetWebhook(c)
  BY <1>0, <1>2 DEF TypeOK, SetWebhook, ReadyInv
<1>3. CASE ConnectionState(c)
  BY <1>0, <1>3 DEF TypeOK, ConnectionState, ReadyInv
<1>4. CASE Activate(c)
  BY <1>0, <1>4 DEF TypeOK, Activate, ReadyInv
<1>5. CASE GetQR(c)
  BY <1>0, <1>5 DEF TypeOK, GetQR, ReadyInv
<1>6. QED BY <1>1, <1>2, <1>3, <1>4, <1>5 DEF ConnectStep

LEMMA ReadyDisconnect ==
  ASSUME ReadyIInv, NEW c \in Clients, DisconnectStep(c)
  PROVE  ReadyInv'
<1>0. /\ call[c].integration \in Integrations /\ call[c].integration \in leaving
      /\ TypeOK /\ ReadyInv
  BY CallType, DisconnectAsked DEF ReadyIInv, IInv, DisconnectStep, LogoutInstance,
     DeleteInstance, DeleteRow, DisconnectPc
<1>1. CASE LogoutInstance(c)
  BY <1>0, <1>1 DEF TypeOK, LogoutInstance, ReadyInv
<1>2. CASE DeleteInstance(c)
  BY <1>0, <1>2 DEF TypeOK, DeleteInstance, ReadyInv
<1>3. CASE DeleteRow(c)
  BY <1>0, <1>3 DEF TypeOK, DeleteRow, ReadyInv
<1>4. QED BY <1>1, <1>2, <1>3 DEF DisconnectStep

LEMMA ReadyEvolution ==
  ASSUME ReadyIInv,
         \/ \E i \in Integrations : CreateIntegration(i) \/ Scan(i) \/ SessionLost(i)
         \/ \E request \in late : TakesEffect(request)
  PROVE  ReadyInv'
<1>0. TypeOK /\ ReadyInv
  BY DEF ReadyIInv, IInv
<1>1. ASSUME NEW i \in Integrations, CreateIntegration(i) \/ Scan(i) \/ SessionLost(i)
      PROVE  ReadyInv'
  BY <1>0, <1>1 DEF TypeOK, CreateIntegration, Scan, SessionLost, ReadyInv
<1>2. ASSUME NEW request \in late, TakesEffect(request)
      PROVE  ReadyInv'
  <2>1. /\ request.integration \in Integrations /\ late' \subseteq late
        /\ request = [op |-> request.op, integration |-> request.integration]
    BY <1>0, <1>2 DEF TypeOK, TakesEffect, Request
  <2>2. CASE request.op \in {"create", "webhook", "logout"}
    BY <1>0, <1>2, <2>1, <2>2 DEF TypeOK, TakesEffect, ReadyInv
  <2>3. CASE request.op = "qr"
    BY <1>0, <1>2, <2>1, <2>3 DEF TypeOK, TakesEffect, ReadyInv
  <2>4. CASE request.op = "remove"
    <3>1. request.integration \in leaving
      BY <1>0, <2>1, <2>4 DEF ReadyInv
    <3>2. QED BY <1>0, <1>2, <2>1, <2>4, <3>1 DEF TypeOK, TakesEffect, ReadyInv
  <2>5. QED BY <1>2, <2>2, <2>3, <2>4 DEF TakesEffect
<1>3. QED BY <1>1, <1>2

LEMMA ReadyCrash ==
  ASSUME ReadyIInv, Crash
  PROVE  ReadyInv'
<1>0. TypeOK /\ ReadyInv
  BY DEF ReadyIInv, IInv
<1>1. ASSUME NEW i \in Integrations, [op |-> "remove", integration |-> i] \in late'
      PROVE  i \in leaving \/ [op |-> "remove", integration |-> i] \in late
  BY <1>1, DisconnectAsked DEF Crash, DisconnectPc
<1>2. ASSUME NEW i \in Integrations, [op |-> "qr", integration |-> i] \in late'
      PROVE  i \in hooked \cup leaving \/ [op |-> "qr", integration |-> i] \in late
  BY <1>0, <1>2 DEF Crash, ReadyInv
<1>3. QED BY <1>0, <1>1, <1>2 DEF TypeOK, Crash, ReadyInv

LEMMA ReadyNext == ReadyIInv /\ [Next]_vars => ReadyIInv'
<1> SUFFICES ASSUME ReadyIInv, [Next]_vars PROVE ReadyInv'
  BY NextInv DEF ReadyIInv
<1>1. CASE UNCHANGED vars
  BY <1>1 DEF vars, ReadyIInv, ReadyInv
<1>2. QED
  BY <1>1, ReadyBegin, ReadyConnect, ReadyDisconnect, ReadyEvolution, ReadyCrash DEF Next, Step

\* Every instance that is being paired or open has its webhook, so that what is
\* sent and received through it is heard of here, until its owner asks for a
\* disconnect: whatever calls overlap, fail, are cut off or take effect late.
THEOREM PairedHooked ==
  Spec => [](\A i \in Integrations \ leaving :
               inst[i] \in {"connecting", "open"} => i \in hooked)
<1>1. ReadyIInv =>
        \A i \in Integrations \ leaving : inst[i] \in {"connecting", "open"} => i \in hooked
  BY DEF ReadyIInv, ReadyInv
<1>2. QED BY <1>1, ReadyInit, ReadyNext, PTL DEF Spec

\* And whoever was handed a QR, or told "connected", can count on the webhook
\* until then.
THEOREM AnsweredHooked == Spec => []HookedWhenAnswered
<1>1. ReadyIInv => HookedWhenAnswered
  BY DEF ReadyIInv, ReadyInv, HookedWhenAnswered
<1>2. QED BY <1>1, ReadyInit, ReadyNext, PTL DEF Spec

-----------------------------------------------------------------------------
\* A row only changes under a call of its owner.
LEMMA RowOfOwner ==
  ASSUME IInv, [Next]_vars, NEW i \in Integrations,
         row[i] \in {"inactive", "active"}, row'[i] # row[i]
  PROVE  \E c \in Clients : /\ pc[c] # "idle"
                            /\ call[c].integration = i
                            /\ call[c].consumer = Owner[i]
<1>1. ASSUME NEW c \in Clients, Activate(c) \/ DeleteRow(c)
      PROVE  pc[c] # "idle" /\ call[c].integration = i /\ call[c].consumer = Owner[i]
  BY <1>1, CallType DEF IInv, TypeOK, CallInv, Activate, DeleteRow, ConnectPc, DisconnectPc
<1>2. ASSUME NEW c \in Clients,
             \/ Lookup(c) \/ CreateInstance(c) \/ SetWebhook(c) \/ ConnectionState(c)
             \/ GetQR(c) \/ LogoutInstance(c) \/ DeleteInstance(c)
      PROVE  FALSE
  BY <1>2 DEF Lookup, CreateInstance, SetWebhook, ConnectionState, GetQR, LogoutInstance,
     DeleteInstance
<1>3. QED
  BY <1>1, <1>2 DEF IInv, TypeOK, Next, vars, Step, ConnectStep, DisconnectStep, Begin,
     CreateIntegration, Scan, SessionLost, TakesEffect, Crash

\* An instance only goes when its owner asked for it.
LEMMA InstanceOfOwner ==
  ASSUME ReadyIInv, [Next]_vars, NEW i \in Integrations, inst[i] # "none", inst'[i] = "none"
  PROVE  i \in leaving
<1>0. IInv /\ TypeOK
  BY DEF ReadyIInv, IInv
<1>1. ASSUME NEW c \in Clients, DeleteInstance(c)
      PROVE  i \in leaving
  BY <1>0, <1>1, CallType, DisconnectAsked DEF TypeOK, DeleteInstance, DisconnectPc
<1>2. ASSUME NEW request \in late, TakesEffect(request)
      PROVE  i \in leaving
  BY <1>0, <1>2 DEF TypeOK, TakesEffect, ReadyIInv, ReadyInv, Request
<1>3. ASSUME NEW c \in Clients,
             \/ Lookup(c) \/ CreateInstance(c) \/ SetWebhook(c) \/ ConnectionState(c)
             \/ Activate(c) \/ GetQR(c) \/ LogoutInstance(c) \/ DeleteRow(c)
      PROVE  FALSE
  BY <1>0, <1>3, CallType DEF TypeOK, Lookup, CreateInstance, SetWebhook, ConnectionState,
     Activate, GetQR, LogoutInstance, DeleteRow
<1>4. QED
  BY <1>0, <1>1, <1>2, <1>3 DEF TypeOK, Next, vars, Step, ConnectStep, DisconnectStep, Begin,
     CreateIntegration, Scan, SessionLost, Crash

\* Only a call of its owner changes the row of an integration, and its instance
\* only goes when its owner asked for a disconnect, however the calls of several
\* consumers interleave and however late Evolution carries them out.
THEOREM OwnersOnly == Spec => TouchedByOwner
<1>1. ASSUME ReadyIInv, [Next]_vars PROVE OwnerTouches
  BY <1>1, RowOfOwner, InstanceOfOwner DEF ReadyIInv, OwnerTouches
<1>2. QED BY <1>1, ReadyInit, ReadyNext, PTL DEF Spec, TouchedByOwner
=============================================================================
