---------------------------- MODULE MCConnection ----------------------------
(***************************************************************************)
(* Instances of Connection for TLC: one Evolution and one Twilio           *)
(* integration, of two consumers or of one.                                *)
(***************************************************************************)
EXTENDS Connection, TLC

CONSTANTS alice, bob, evo, twi

MCOwner    == (evo :> alice) @@ (twi :> bob)
LiveOwner  == (evo :> alice) @@ (twi :> alice)
MCProvider == (evo :> "evolution") @@ (twi :> "twilio")
=============================================================================
