----------------------------- MODULE Addressing -----------------------------
(***************************************************************************)
(* How the gateway writes the address of a chat: the phone a consumer      *)
(* gives (domain/phone.go), the sender it is told (the three webhook       *)
(* handlers) and the address each adapter gives its provider.              *)
(*                                                                         *)
(* An address "whatsapp:+5511999990000-1400000000@g.us" is a record of its *)
(* parts; of the digits only how many there are, and whether the first is  *)
(* a zero, is ever looked at.  Every operator is a string function of the  *)
(* code on these parts.                                                    *)
(***************************************************************************)
EXTENDS Naturals

\* The number, or two joined by a dash as in ids of old groups.
User == [zero : BOOLEAN, digits : Nat, dash : Nat]

Number(digits) == [zero |-> FALSE, digits |-> digits, dash |-> 0]

Servers == {"none", "s.whatsapp.net", "c.us", "g.us", "lid", "broadcast", "newsletter"}

Address == [scheme : BOOLEAN, plus : BOOLEAN, user : User, server : Servers]

Jid(user, server) == [scheme |-> FALSE, plus |-> FALSE, user |-> user, server |-> server]

\* The empty string.
Empty == Jid(Number(0), "none")

TrimPlus(a)   == [a EXCEPT !.plus = FALSE]
TrimScheme(a) == [a EXCEPT !.scheme = FALSE]
TrimServer(a, server) == IF a.server = server THEN [a EXCEPT !.server = "none"] ELSE a

\* What a consumer makes of the "from" of an event to answer it.
Reply(a) == [a EXCEPT !.plus = TRUE]

-----------------------------------------------------------------------------
\* Faulty variant: the leading digit counted twice.
IsE164Short(a) ==
  /\ a.plus /\ ~a.scheme
  /\ \/ /\ ~a.user.zero /\ a.user.digits \in 2..14 /\ a.user.dash <= 15
        /\ a.server \in {"none", "g.us"}
     \/ /\ a.user.digits \in 15..20 /\ a.user.dash = 0
        /\ a.server = "g.us"

\* ^\+[1-9]\d{1,14}(?:-\d{1,15})?(?:@g\.us)?$ | ^\+\d{15,20}@g\.us$
IsE164(a) ==
  /\ a.plus /\ ~a.scheme
  /\ \/ /\ ~a.user.zero /\ a.user.digits \in 2..15 /\ a.user.dash <= 15
        /\ a.server \in {"none", "g.us"}
     \/ /\ a.user.digits \in 15..20 /\ a.user.dash = 0
        /\ a.server = "g.us"

\* Faulty variant: a domain WhatsApp does not have.
EvolutionJidShort(a) ==
  LET jid == TrimPlus(a)
  IN IF jid.server = "none" THEN [jid EXCEPT !.server = "whatsapp.net"] ELSE jid

\* evolutionapi: the number field of sendText and sendList.
EvolutionJid(a) ==
  LET jid == TrimPlus(a)
  IN IF jid.server = "none" THEN [jid EXCEPT !.server = "s.whatsapp.net"] ELSE jid

\* twilio: toWhatsAppAddress.
ToWhatsAppAddress(a) == [a EXCEPT !.scheme = TRUE, !.plus = TRUE]

\* whatsapp: the "to" field of buildSendBody, as it came.
MetaTo(a) == a

AdapterAddress(provider, a) ==
  CASE provider = "evolution" -> EvolutionJid(a)
    [] provider = "twilio"    -> ToWhatsAppAddress(a)
    [] provider = "meta"      -> MetaTo(a)
=============================================================================
