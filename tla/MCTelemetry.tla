----------------------------- MODULE MCTelemetry ----------------------------
(***************************************************************************)
(* Instances of Telemetry for TLC: those of Outbound with time.            *)
(***************************************************************************)
EXTENDS Telemetry, TLC

CONSTANTS alice, bob, evo, twi

MCOwner    == (evo :> alice) @@ (twi :> bob)
MCProvider == (evo :> "evolution") @@ (twi :> "twilio")
=============================================================================
