----------------------------- MODULE Connection -----------------------------
(***************************************************************************)
(* The life of an integration: its creation, the QR-code connect flow that *)
(* consumers poll (application/connect_integration.go), the disconnect     *)
(* (application/disconnect_integration.go), their HTTP handlers            *)
(* (http/integration_handler.go) and the Evolution gateway they drive      *)
(* through evolutionapi/admin_client.go, with the human who scans the QR.  *)
(*                                                                         *)
(* Clients call again and again, so nothing here needs a bound but the     *)
(* number of crashes.  Evolution is external: an instance is "none",       *)
(* "close", "connecting" (a QR is out) or "open" (a phone is paired).  A   *)
(* request whose caller gave up (10 s timeout, broken connection, stop of  *)
(* the process) may still be carried out at any later time, or never.      *)
(***************************************************************************)
EXTENDS Integers

CONSTANTS
  Clients,        \* callers of the API, each with one call at a time
  Consumers,
  Integrations,
  NoIntegration,
  NoConsumer,
  Owner,          \* [Integrations -> Consumers]
  Provider,       \* [Integrations -> STRING]
  DbFaults,       \* whether database calls may fail
  EvoFaults,      \* calls to Evolution that may fail
  MaxCrashes      \* bound on process stops

ASSUME OwnerAssumption == Owner \in [Integrations -> Consumers]
ASSUME ProviderAssumption == Provider \in [Integrations -> {"meta", "evolution", "twilio"}]
ASSUME FaultAssumption ==
  /\ DbFaults \in BOOLEAN /\ MaxCrashes \in Nat
  /\ EvoFaults \subseteq {"create", "webhook", "state", "qr", "logout", "remove"}
ASSUME SentinelAssumption == NoIntegration \notin Integrations /\ NoConsumer \notin Consumers

VARIABLES
  row,          \* integrations: "unborn", "inactive", "active" or "deleted"
  inst,         \* Evolution's instance of each integration
  hooked,       \* instances whose webhook points to this gateway
  qrShown,      \* instances whose current QR somebody was given
  paired,       \* integrations a phone was ever paired with (ghost)
  late,         \* requests at Evolution that nobody waits for any more
  pc,           \* where the call of each client is
  call,         \* what each client asked
  seenActive,   \* integration.Active as the call read it
  answer,       \* what the call was answered
  leaving,      \* integrations their owner ever asked to disconnect (ghost)
  crashes

evolutionVars == <<inst, hooked, qrShown, paired, late>>
callVars      == <<pc, call, seenActive, answer, leaving>>
vars          == <<row, evolutionVars, callVars, crashes>>

Call == [op : {"connect", "disconnect"}, integration : Integrations, consumer : Consumers]
NoCall == [op |-> "none", integration |-> NoIntegration, consumer |-> NoConsumer]

ConnectPc    == {"create", "webhook", "state", "activate", "qr"}
DisconnectPc == {"logout", "remove", "delete"}

\* The requests to Evolution that change something there, named for the stage
\* of the call that makes them.
Request == [op : {"create", "webhook", "qr", "logout", "remove"}, integration : Integrations]
Answer == {"none", "connected", "qr", "no_qr", "gone", "not_found", "bad_request", "bad_gateway"}

TypeOK ==
  /\ row \in [Integrations -> {"unborn", "inactive", "active", "deleted"}]
  /\ inst \in [Integrations -> {"none", "close", "connecting", "open"}]
  /\ hooked \subseteq Integrations
  /\ qrShown \subseteq Integrations
  /\ paired \subseteq Integrations
  /\ late \subseteq Request
  /\ leaving \subseteq Integrations
  /\ pc \in [Clients -> ConnectPc \cup DisconnectPc \cup {"idle", "lookup"}]
  /\ call \in [Clients -> Call \cup {NoCall}]
  /\ seenActive \in [Clients -> BOOLEAN]
  /\ answer \in [Clients -> Answer]
  /\ crashes \in 0..MaxCrashes

Init ==
  /\ row = [i \in Integrations |-> "unborn"]
  /\ inst = [i \in Integrations |-> "none"]
  /\ hooked = {}
  /\ qrShown = {}
  /\ paired = {}
  /\ late = {}
  /\ leaving = {}
  /\ pc = [c \in Clients |-> "idle"]
  /\ call = [c \in Clients |-> NoCall]
  /\ seenActive = [c \in Clients |-> FALSE]
  /\ answer = [c \in Clients |-> "none"]
  /\ crashes = 0

-----------------------------------------------------------------------------
Exists(i) == row[i] \in {"inactive", "active"}

GoTo(c, label) ==
  /\ pc' = [pc EXCEPT ![c] = label]
  /\ UNCHANGED <<call, seenActive, answer, leaving>>

Finish(c, verdict) ==
  /\ pc' = [pc EXCEPT ![c] = "idle"]
  /\ answer' = [answer EXCEPT ![c] = verdict]
  /\ seenActive' = [seenActive EXCEPT ![c] = FALSE]
  /\ UNCHANGED <<call, leaving>>

SetInstance(i, state) == inst' = [inst EXCEPT ![i] = state]

\* What Evolution does with each request.  Creating an instance that exists
\* answers "already in use", which counts as success.
Create(i) ==
  /\ SetInstance(i, IF inst[i] = "none" THEN "close" ELSE inst[i])
  /\ UNCHANGED <<hooked, qrShown>>

Hook(i) ==
  /\ inst[i] # "none"
  /\ hooked' = hooked \cup {i}
  /\ UNCHANGED <<inst, qrShown>>

StartPairing(i) ==
  /\ inst[i] \in {"close", "connecting"}
  /\ SetInstance(i, "connecting")
  /\ UNCHANGED hooked

\* An instance that is gone or not paired answers 404 or 400, a success too.
EndSession(i) ==
  /\ SetInstance(i, IF inst[i] = "open" THEN "close" ELSE inst[i])
  /\ UNCHANGED <<hooked, qrShown>>

\* Refused while a phone is paired.
Remove(i) ==
  /\ inst[i] # "open"
  /\ SetInstance(i, "none")
  /\ hooked' = hooked \ {i}
  /\ qrShown' = qrShown \ {i}

\* The caller got no answer: what it asked may be carried out later.
Unanswered(op, i) ==
  /\ op \in EvoFaults
  /\ late' = late \cup {[op |-> op, integration |-> i]}
  /\ UNCHANGED <<inst, hooked, qrShown>>

EvolutionUnchanged == UNCHANGED <<inst, hooked, qrShown, late>>

\* IntegrationHandler.Create: an Evolution integration starts inactive, the
\* others have nothing to connect.
CreateIntegration(i) ==
  /\ row[i] = "unborn"
  /\ row' = [row EXCEPT ![i] = IF Provider[i] = "evolution" THEN "inactive" ELSE "active"]
  /\ UNCHANGED <<evolutionVars, callVars, crashes>>

-----------------------------------------------------------------------------
(* Faulty variants of steps below, one plausible mistake each, that the    *)
(* properties are tested against.  Next uses none of them.                 *)

\* The owner and the provider not looked at.
LookupAnyOwner(c) ==
  LET i == call[c].integration
  IN /\ pc[c] = "lookup"
     /\ \/ /\ Exists(i)
           /\ GoTo(c, IF call[c].op = "connect" THEN "create"
                      ELSE IF Provider[i] = "evolution" THEN "logout" ELSE "delete")
        \/ /\ ~Exists(i)
           /\ Finish(c, "gone")
     /\ UNCHANGED <<row, evolutionVars, crashes>>

\* The webhook set for a new instance only.
CreateInstanceHooksNew(c) ==
  LET i == call[c].integration
  IN /\ pc[c] = "create"
     /\ \/ Create(i) /\ UNCHANGED late /\ GoTo(c, IF inst[i] = "none" THEN "webhook" ELSE "state")
        \/ Unanswered("create", i) /\ Finish(c, "bad_gateway")
     /\ UNCHANGED <<row, paired, crashes>>

\* "connecting" taken for connected.
ConnectionStateLoose(c) ==
  LET i == call[c].integration
  IN /\ pc[c] = "state"
     /\ \/ inst[i] \in {"connecting", "open"} /\ GoTo(c, "activate")
        \/ inst[i] = "close" /\ GoTo(c, "qr")
        \/ inst[i] = "none" /\ Finish(c, "bad_gateway")
     /\ UNCHANGED <<row, evolutionVars, crashes>>

\* The activation forgotten.
ConnectionStateOnly(c) ==
  LET i == call[c].integration
  IN /\ pc[c] = "state"
     /\ \/ inst[i] = "open" /\ Finish(c, "connected")
        \/ inst[i] \in {"close", "connecting"} /\ GoTo(c, "qr")
        \/ inst[i] = "none" /\ Finish(c, "bad_gateway")
     /\ UNCHANGED <<row, evolutionVars, crashes>>

\* The integration saved again (an upsert) instead of updated.
ActivateUpsert(c) ==
  LET i == call[c].integration
  IN /\ pc[c] = "activate"
     /\ row' = [row EXCEPT ![i] = "active"]
     /\ Finish(c, "connected")
     /\ UNCHANGED <<evolutionVars, crashes>>

\* The error of Update dropped.
ActivateUnchecked(c) ==
  LET i == call[c].integration
  IN /\ pc[c] = "activate"
     /\ Finish(c, "connected")
     /\ \/ Exists(i) /\ row' = [row EXCEPT ![i] = "active"]
        \/ (DbFaults \/ ~Exists(i)) /\ UNCHANGED row
     /\ UNCHANGED <<evolutionVars, crashes>>

\* A failed logout ends the disconnect.
LogoutInstanceFatal(c) ==
  LET i == call[c].integration
  IN /\ pc[c] = "logout"
     /\ \/ EndSession(i) /\ UNCHANGED late /\ GoTo(c, "remove")
        \/ Unanswered("logout", i) /\ Finish(c, "bad_gateway")
     /\ UNCHANGED <<row, paired, crashes>>

-----------------------------------------------------------------------------
\* A client calls connect or disconnect, on whatever integration it names.
Begin(c, request) ==
  /\ pc[c] = "idle"
  /\ pc' = [pc EXCEPT ![c] = "lookup"]
  /\ call' = [call EXCEPT ![c] = request]
  /\ answer' = [answer EXCEPT ![c] = "none"]
  /\ leaving' = leaving \cup
       {i \in {request.integration} : request.op = "disconnect" /\ request.consumer = Owner[i]}
  /\ UNCHANGED <<row, evolutionVars, seenActive, crashes>>

\* Faulty variant: a 403 that tells a foreign integration exists.
NotFoundForbidden(c) == "forbidden"

\* Where Execute goes with the integration it has read, or what its error
\* becomes in the handler: a disconnect hides whether the integration exists.
NotFound(c) == IF call[c].op = "connect" THEN "not_found" ELSE "gone"

Lookup(c) ==
  LET i == call[c].integration
      mine == Owner[i] = call[c].consumer
      evolution == Provider[i] = "evolution"
  IN /\ pc[c] = "lookup"
     /\ \/ /\ Exists(i) /\ mine /\ (evolution \/ call[c].op = "disconnect")
           /\ pc' = [pc EXCEPT ![c] = IF call[c].op = "connect" THEN "create"
                                      ELSE IF evolution THEN "logout" ELSE "delete"]
           /\ seenActive' = [seenActive EXCEPT ![c] = row[i] = "active"]
           /\ UNCHANGED <<call, answer, leaving>>
        \/ /\ Exists(i) /\ mine /\ ~evolution /\ call[c].op = "connect"
           /\ Finish(c, "bad_request")
        \/ /\ ~(Exists(i) /\ mine)
           /\ Finish(c, NotFound(c))
        \/ /\ DbFaults
           /\ Finish(c, "bad_gateway")
     /\ UNCHANGED <<row, evolutionVars, crashes>>

CreateInstance(c) ==
  LET i == call[c].integration
  IN /\ pc[c] = "create"
     /\ \/ Create(i) /\ UNCHANGED late /\ GoTo(c, "webhook")
        \/ Unanswered("create", i) /\ Finish(c, "bad_gateway")
     /\ UNCHANGED <<row, paired, crashes>>

SetWebhook(c) ==
  LET i == call[c].integration
  IN /\ pc[c] = "webhook"
     /\ \/ Hook(i) /\ UNCHANGED late /\ GoTo(c, "state")
        \/ inst[i] = "none" /\ EvolutionUnchanged /\ Finish(c, "bad_gateway")
        \/ Unanswered("webhook", i) /\ Finish(c, "bad_gateway")
     /\ UNCHANGED <<row, paired, crashes>>

\* ConnectionState, and the test of integration.Active as it was read.
ConnectionState(c) ==
  LET i == call[c].integration
  IN /\ pc[c] = "state"
     /\ \/ inst[i] = "open" /\ seenActive[c] /\ Finish(c, "connected")
        \/ inst[i] = "open" /\ ~seenActive[c] /\ GoTo(c, "activate")
        \/ inst[i] \in {"close", "connecting"} /\ GoTo(c, "qr")
        \/ ("state" \in EvoFaults \/ inst[i] = "none") /\ Finish(c, "bad_gateway")
     /\ UNCHANGED <<row, evolutionVars, crashes>>

\* integrations.Update with active = true; no row affected is "not found".
Activate(c) ==
  LET i == call[c].integration
  IN /\ pc[c] = "activate"
     /\ \/ /\ Exists(i)
           /\ row' = [row EXCEPT ![i] = "active"]
           /\ \/ Finish(c, "connected")
              \/ DbFaults /\ Finish(c, "bad_gateway")
        \/ /\ ~Exists(i)
           /\ Finish(c, "not_found")
           /\ UNCHANGED row
        \/ /\ DbFaults
           /\ Finish(c, "bad_gateway")
           /\ UNCHANGED row
     /\ UNCHANGED <<evolutionVars, crashes>>

\* GetQR: Evolution starts pairing and hands a QR out, or has none to give
\* (not generated yet, or the phone was paired since the state was read).
GetQR(c) ==
  LET i == call[c].integration
  IN /\ pc[c] = "qr"
     /\ \/ /\ StartPairing(i) /\ UNCHANGED late
           /\ \/ Finish(c, "qr") /\ qrShown' = qrShown \cup {i}
              \/ Finish(c, "no_qr") /\ UNCHANGED qrShown
        \/ inst[i] = "open" /\ EvolutionUnchanged /\ Finish(c, "no_qr")
        \/ inst[i] = "none" /\ EvolutionUnchanged /\ Finish(c, "bad_gateway")
        \/ Unanswered("qr", i) /\ Finish(c, "bad_gateway")
     /\ UNCHANGED <<row, paired, crashes>>

\* LogoutInstance, then DeleteInstance: their errors are only logged.
LogoutInstance(c) ==
  LET i == call[c].integration
  IN /\ pc[c] = "logout"
     /\ GoTo(c, "remove")
     /\ \/ EndSession(i) /\ UNCHANGED late
        \/ Unanswered("logout", i)
     /\ UNCHANGED <<row, paired, crashes>>

DeleteInstance(c) ==
  LET i == call[c].integration
  IN /\ pc[c] = "remove"
     /\ GoTo(c, "delete")
     /\ \/ Remove(i) /\ UNCHANGED late
        \/ inst[i] = "open" /\ EvolutionUnchanged
        \/ Unanswered("remove", i)
     /\ UNCHANGED <<row, paired, crashes>>

\* integrations.Delete, idempotent.
DeleteRow(c) ==
  LET i == call[c].integration
  IN /\ pc[c] = "delete"
     /\ \/ /\ row' = [row EXCEPT ![i] = "deleted"]
           /\ \/ Finish(c, "gone")
              \/ DbFaults /\ Finish(c, "bad_gateway")
        \/ /\ DbFaults
           /\ Finish(c, "bad_gateway")
           /\ UNCHANGED row
     /\ UNCHANGED <<evolutionVars, crashes>>

-----------------------------------------------------------------------------
\* Evolution and the human with the phone.

\* Somebody scans the QR the gateway handed out.
Scan(i) ==
  /\ inst[i] = "connecting" /\ i \in qrShown
  /\ SetInstance(i, "open")
  /\ paired' = paired \cup {i}
  /\ qrShown' = qrShown \ {i}
  /\ UNCHANGED <<row, hooked, late, callVars, crashes>>

\* The QR expires unscanned, or the phone ends the session.
SessionLost(i) ==
  /\ inst[i] \in {"connecting", "open"}
  /\ SetInstance(i, "close")
  /\ qrShown' = qrShown \ {i}
  /\ UNCHANGED <<row, hooked, paired, late, callVars, crashes>>

\* Evolution carries a request out that nobody waits for.  Equal requests of
\* several calls are one in `late', so that one may be left there.
TakesEffect(request) ==
  LET i == request.integration
  IN /\ \/ request.op = "create" /\ Create(i)
        \/ request.op = "webhook" /\ Hook(i)
        \/ request.op = "qr" /\ StartPairing(i) /\ UNCHANGED qrShown
        \/ request.op = "logout" /\ EndSession(i)
        \/ request.op = "remove" /\ Remove(i)
     /\ late' \in {late, late \ {request}}
     /\ UNCHANGED <<row, paired, callVars, crashes>>

\* The gateway stops and starts again; its calls in progress get no answer, and
\* what they asked of Evolution may be carried out yet.
Crash ==
  /\ crashes < MaxCrashes
  /\ crashes' = crashes + 1
  /\ pc' = [c \in Clients |-> "idle"]
  /\ answer' = [c \in Clients |-> IF pc[c] = "idle" THEN answer[c] ELSE "none"]
  /\ late' = late \cup
       {[op |-> pc[c], integration |-> call[c].integration] :
          c \in {c \in Clients : pc[c] \in {"create", "webhook", "qr", "logout", "remove"}}}
  /\ seenActive' = [c \in Clients |-> FALSE]
  /\ UNCHANGED <<row, inst, hooked, qrShown, paired, call, leaving>>

ConnectStep(c) ==
  \/ CreateInstance(c)
  \/ SetWebhook(c)
  \/ ConnectionState(c)
  \/ Activate(c)
  \/ GetQR(c)

DisconnectStep(c) ==
  \/ LogoutInstance(c)
  \/ DeleteInstance(c)
  \/ DeleteRow(c)

Step(c) == Lookup(c) \/ ConnectStep(c) \/ DisconnectStep(c)

Next ==
  \/ \E c \in Clients : Step(c) \/ \E request \in Call : Begin(c, request)
  \/ \E i \in Integrations : CreateIntegration(i) \/ Scan(i) \/ SessionLost(i)
  \/ \E request \in late : TakesEffect(request)
  \/ Crash

Spec == Init /\ [][Next]_vars

Poll(c, i) ==
  Begin(c, [op |-> "connect", integration |-> i, consumer |-> Owner[i]])

\* A call in progress goes on: every HTTP and database call has a timeout.
\* Moreover the owner of each integration keeps polling, as the comment of
\* ConnectIntegrationUseCase expects of its callers, and a call to Evolution
\* that is made again and again does not fail every time.  Evolution owes no
\* late effect, nobody a scan.
LiveSpec ==
  /\ Spec
  /\ \A c \in Clients :
       /\ WF_vars(Step(c))
       /\ \A i \in Integrations : SF_vars(Poll(c, i))
       /\ \A stage \in ConnectPc \ {"qr"} :
            SF_vars(pc[c] = stage /\ ConnectStep(c) /\ answer'[c] # "bad_gateway")

-----------------------------------------------------------------------------
\* An integration that was disconnected never comes back (Update of
\* integration_repository.go), although a connect that read it before the
\* disconnect writes back what it read.
StaysDeleted == \A i \in Integrations : row[i] = "deleted" => row'[i] = "deleted"
NeverResurrected == [][StaysDeleted]_vars

\* An Evolution integration counts as active only once a phone was paired with
\* it (integration_handler.go: "Not connected until a human scans the QR").
ActiveWasPaired ==
  \A i \in Integrations :
    Provider[i] = "evolution" /\ row[i] = "active" => i \in paired

\* A consumer told "connected" has an active integration, unless it has been
\* disconnected: the stale Active flag of the call never hides an inactive one.
ConnectedIsActive ==
  \A c \in Clients :
    answer[c] = "connected" => row[call[c].integration] \in {"active", "deleted"}

\* Only the owner's calls change an integration, and its instance only goes
\* when its owner asked to disconnect it, however calls of several consumers
\* interleave and however late Evolution carries them out.
OwnerTouches ==
  \A i \in Integrations :
    /\ row[i] \in {"inactive", "active"} /\ row'[i] # row[i] =>
         \E c \in Clients :
           pc[c] # "idle" /\ call[c].integration = i /\ call[c].consumer = Owner[i]
    /\ inst[i] # "none" /\ inst'[i] = "none" => i \in leaving
TouchedByOwner == [][OwnerTouches]_vars

\* A consumer is never left with a QR, or told "connected", for an instance
\* whose messages Evolution would not deliver here (connect_integration.go sets
\* the webhook first), however many calls overlap, fail or take effect late;
\* unless the owner asked for a disconnect, which may take effect in between.
HookedWhenAnswered ==
  \A c \in Clients :
    answer[c] \in {"qr", "connected"} => call[c].integration \in hooked \cup leaving

\* Polling finds the paired phone (connect_integration.go: "Callers poll this
\* repeatedly"): the integration becomes active unless the session or the
\* integration itself ends first.
PollingActivates ==
  \A i \in Integrations :
    (Provider[i] = "evolution" /\ inst[i] = "open" /\ row[i] = "inactive")
      ~> (row[i] \in {"active", "deleted"} \/ inst[i] # "open")

\* A disconnect removes the integration whatever Evolution answers
\* (disconnect_integration.go: "log and continue so the integration row is
\* still removed even if the gateway is unreachable"), unless the process stops
\* and the caller is left without an answer.
DisconnectRemovesRow ==
  \A c \in Clients : \A i \in Integrations :
    (pc[c] \in DisconnectPc /\ call[c].integration = i)
      ~> (row[i] = "deleted" \/ (pc[c] = "idle" /\ answer[c] = "none"))

\* integration_handler.go: a disconnect ends the WhatsApp session and deletes
\* the instance.  Once an integration is gone and nobody is calling about it,
\* nothing of it is left at Evolution.
SessionEnds ==
  \A i \in Integrations :
    /\ row[i] = "deleted"
    /\ \A c \in Clients : pc[c] = "idle" \/ call[c].integration # i
    => inst[i] = "none"
=============================================================================
