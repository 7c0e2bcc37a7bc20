------------------------------ MODULE MCInbound ------------------------------
(***************************************************************************)
(* Instances of Inbound for TLC: one integration of any provider; b1 is a  *)
(* payload of one message, b2 one of two messages, which only Meta sends,  *)
(* and b0 one without messages (statuses, filtered events).                *)
(***************************************************************************)
EXTENDS Inbound, TLC

CONSTANTS chan, b0, b1, b2, m1, m2

MCMessages ==
  [b \in Batches |-> CASE b = b0 -> <<>> [] b = b1 -> <<m1>> [] b = b2 -> <<m1, m2>>]
MCChannel == [b \in Batches |-> chan]
MCEntries ==
  UNION {{<<b, n, k>> : n \in 1..MaxAttempts, k \in 1..Len(MCMessages[b])} : b \in Batches}
=============================================================================
