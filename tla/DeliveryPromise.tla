--------------------------- MODULE DeliveryPromise ---------------------------
(***************************************************************************)
(* What the gateway promises about a send attempt, whatever happens to the *)
(* process, the database or the network (the lifecycle comments of         *)
(* internal/domain/audit.go): an attempt is recorded before the provider   *)
(* can see it, a rejected attempt never reaches a provider, "sent" is only *)
(* ever said of a message the provider took, and a status only advances.   *)
(* Removing an integration takes its attempts out of the trail for good.   *)
(***************************************************************************)
CONSTANTS Attempts, Channels

VARIABLES
  channelOf,\* the integration each attempt goes through; never changes
  status,   \* "none" before the attempt is recorded, "removed" once its channel is gone
  left      \* attempts a provider has taken

promiseVars == <<channelOf, status, left>>

PromiseInit ==
  /\ channelOf \in [Attempts -> Channels]
  /\ status = [a \in Attempts |-> "none"]
  /\ left = {}

Move(a, from, to) ==
  /\ status[a] = from
  /\ status' = [status EXCEPT ![a] = to]
  /\ UNCHANGED <<left, channelOf>>

Record(a) == Move(a, "none", "accepted") \/ Move(a, "none", "rejected")

\* A call that timed out may be served after the attempt was given up.
Leave(a) ==
  /\ status[a] \in {"accepted", "failed", "removed"}
  /\ left' = left \cup {a}
  /\ UNCHANGED <<status, channelOf>>

Settle(a) ==
  \/ a \in left /\ Move(a, "accepted", "sent")
  \/ Move(a, "accepted", "failed")

Advance(a) ==
  \/ Move(a, "sent", "delivered")
  \/ Move(a, "sent", "read")
  \/ Move(a, "delivered", "read")

Remove(c) ==
  /\ status' = [a \in Attempts |-> IF channelOf[a] = c THEN "removed" ELSE status[a]]
  /\ UNCHANGED <<left, channelOf>>

PromiseNext ==
  \/ \E a \in Attempts : Record(a) \/ Leave(a) \/ Settle(a) \/ Advance(a)
  \/ \E c \in Channels : Remove(c)

Spec == PromiseInit /\ [][PromiseNext]_promiseVars
=============================================================================
