----------------------------- MODULE MCOutbound -----------------------------
(***************************************************************************)
(* Instances of Outbound for TLC: two consumers, one Evolution and one     *)
(* Twilio integration with different owners.                               *)
(***************************************************************************)
EXTENDS Outbound, TLC

CONSTANTS alice, bob, evo, twi

MCOwner    == (evo :> alice) @@ (twi :> bob)
MCProvider == (evo :> "evolution") @@ (twi :> "twilio")
=============================================================================
