------------------------------ MODULE MCGateway -----------------------------
(***************************************************************************)
(* Instances of Gateway for TLC: two consumers and the Evolution           *)
(* integration of one of them.                                             *)
(***************************************************************************)
EXTENDS Gateway, TLC

CONSTANTS alice, bob, evo

RaceOwner    == evo :> alice
RaceProvider == evo :> "evolution"
ClientSymmetry == Permutations(Clients)
\* All of AuditStatus, written out: Out!AuditStatus would refer to StatusCheck.
MCStatusCheck == {"accepted", "sent", "delivered", "read", "failed", "rejected",
                  "received", "forwarded", "forward_failed"}
=============================================================================
