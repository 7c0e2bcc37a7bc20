---------------------------- MODULE Conversation ----------------------------
(***************************************************************************)
(* A conversation through the gateway, seen by its content: a customer     *)
(* writes, the provider posts a webhook about it (again when Evolution     *)
(* reconnects and syncs its history, in the format of whatever version it  *)
(* is), the handler decides whether the bot gets it and names the sender,  *)
(* the consumer answers that sender, the adapter addresses the answer, and *)
(* Evolution reports the answer back as one more message.                  *)
(*                                                                         *)
(* Handlers are the webhook_*.go of http/, the settings those of           *)
(* pkg/config/config.go.  Calls that fail are the subject of Inbound and   *)
(* Outbound and left out here.                                             *)
(***************************************************************************)
EXTENDS Addressing, FiniteSets

CONSTANTS
  DefaultMaxAge,  \* the 120 s of the configuration, in ticks of the clock
  MaxAges,        \* values of BOT_MESSAGE_MAX_AGE_SECONDS that parse, in ticks
  MaxClock,       \* bound on the clock
  MaxWritten      \* bound on messages people write

ASSUME BoundAssumption ==
  /\ DefaultMaxAge \in Nat \ {0} /\ MaxAges \subseteq Nat
  /\ MaxClock \in Nat /\ MaxWritten \in Nat

-----------------------------------------------------------------------------
\* Chats of WhatsApp: persons, one whose number is as long as a number can be,
\* groups named in the old way (after such a person) and in the new way, up to
\* the longest name a send accepts, and what nobody can answer.
Person    == [kind |-> "person", user |-> Number(15)]
Stranger  == [kind |-> "person", user |-> Number(8)]
OldGroup  == [kind |-> "group", user |-> [zero |-> FALSE, digits |-> 15, dash |-> 10]]
NewGroup  == [kind |-> "group", user |-> Number(18)]
LongGroup == [kind |-> "group", user |-> Number(20)]
Status    == [kind |-> "broadcast", user |-> Number(6)]
Channel   == [kind |-> "newsletter", user |-> Number(17)]
Chats     == {Person, Stranger, OldGroup, NewGroup, LongGroup, Status, Channel}

ServerOf == [person |-> "s.whatsapp.net", group |-> "g.us",
             broadcast |-> "broadcast", newsletter |-> "newsletter"]

ChatJid(chat) == Jid(chat.user, ServerOf[chat.kind])

\* Content: its type in Evolution's terms and whether there is any text.
Bodies == {[type |-> t, text |-> TRUE] : t \in {"conversation", "extendedTextMessage",
                                                "listResponseMessage", "imageMessage"}}
          \cup {[type |-> t, text |-> FALSE] : t \in {"conversation", "imageMessage", ""}}

Message == [chat : Chats, mine : BOOLEAN, body : Bodies, at : 0..MaxClock]

\* How an Evolution server may write a webhook: the spelling of the event, v1
\* or v2 nesting, the domain of phones, whether a person is named by a Linked
\* ID, with or without the number beside it, and whether there is a timestamp.
Formats == [event : {"messages.upsert", "MESSAGES_UPSERT", "messages.update"},
            nested : BOOLEAN, domain : {"s.whatsapp.net", "c.us"},
            lid : {"no", "with_number", "without_number"}, stamped : BOOLEAN]

\* The environment of the process.  Of the list of phones only its items are
\* kept: numbers or groups, with or without the plus, and blanks.  A maximal
\* age of 0 stands for all that is not a positive number.
Env == [maxAgeSet : BOOLEAN, maxAge : {0} \cup MaxAges,
        allowed : SUBSET {Empty, Reply(Jid(Person.user, "none")), ChatJid(NewGroup)},
        groups : {"unset", "True"}]

VARIABLES
  provider,   \* integrations.provider; never changes
  env,        \* the settings; read once, at start
  clock,
  history,    \* the messages of the chats, as the provider has them
  events,     \* what the consumer got: the sender, and the chat (ghost)
  posts,      \* answers: the address, the chat meant (ghost), if accepted
  last        \* the last delivery: if forwarded, and what it was about (ghost)

vars == <<provider, env, clock, history, events, posts, last>>

Verdict == [forwarded : BOOLEAN, wanted : BOOLEAN, masked : BOOLEAN]
Nothing == [forwarded |-> FALSE, wanted |-> FALSE, masked |-> FALSE]

TypeOK ==
  /\ provider \in {"evolution", "meta", "twilio"}
  /\ env \in Env
  /\ clock \in 0..MaxClock
  /\ history \subseteq Message
  /\ \A e \in events : e.from \in Address /\ e.chat \in Chats
  /\ \A p \in posts : p.to \in Address /\ p.chat \in Chats /\ p.accepted \in BOOLEAN
  /\ last \in Verdict

Init ==
  /\ provider \in {"evolution", "meta", "twilio"}
  /\ env \in Env
  /\ clock = 0
  /\ history = {}
  /\ events = {}
  /\ posts = {}
  /\ last = Nothing

-----------------------------------------------------------------------------
(* Configuration: config.Load and NewWebhookEvolutionHandler.              *)

AllowedPhones == {TrimPlus(item) : item \in env.allowed} \ {Empty}

\* 0 disables the guard, and so does what is not a positive number.
MaxAgeSecs == IF env.maxAgeSet THEN env.maxAge ELSE DefaultMaxAge

EnableGroupReplies == env.groups = "True"

-----------------------------------------------------------------------------
(* What Evolution sends about a message.                                   *)

NoKey == [remoteJid |-> Empty, fromMe |-> FALSE, lidMode |-> FALSE, remoteJidAlt |-> Empty]

\* Only persons have a number beside their Linked ID; addressingMode says that
\* a chat, group or person, is addressed by such IDs.
KeyOf(m, f) ==
  LET phone == [ChatJid(m.chat) EXCEPT !.server = IF m.chat.kind = "person" THEN f.domain ELSE @]
      lid   == m.chat.kind \in {"person", "group"} /\ f.lid # "no"
  IN [remoteJid    |-> IF lid /\ m.chat.kind = "person" THEN Jid(Number(15), "lid") ELSE phone,
      fromMe       |-> m.mine,
      lidMode      |-> lid,
      remoteJidAlt |-> IF lid /\ m.chat.kind = "person" /\ f.lid = "with_number"
                       THEN phone ELSE Empty]

Stamp(m, f) == IF f.stamped THEN m.at + 1 ELSE 0   \* the Unix epoch is not a time

Payload(m, f) ==
  [event     |-> f.event,
   timestamp |-> Stamp(m, f),
   key       |-> IF f.nested THEN NoKey ELSE KeyOf(m, f),
   type      |-> IF f.nested THEN "" ELSE m.body.type,
   text      |-> ~f.nested /\ m.body.text,
   message   |-> [key |-> IF f.nested THEN KeyOf(m, f) ELSE NoKey,
                  type |-> IF f.nested THEN m.body.type ELSE "",
                  inner |-> f.nested,
                  text  |-> f.nested /\ m.body.text]]

-----------------------------------------------------------------------------
(* WebhookEvolutionHandler.  Faulty variants stand before what they vary.  *)

\* ToLower and "_" to ".".
EventKind == [raw \in {"messages.upsert", "MESSAGES_UPSERT", "messages.update"} |->
                IF raw = "messages.update" THEN "update" ELSE "upsert"]

\* Of a nested key only the chat taken over.
EventKeyMixed(data) ==
  IF data.key.remoteJid = Empty
  THEN [data.key EXCEPT !.remoteJid = data.message.key.remoteJid] ELSE data.key

\* v1 (flat) or v2 (nested inside data.message).
EventKey(data) ==
  IF data.key.remoteJid = Empty /\ data.message.key.remoteJid # Empty
  THEN data.message.key ELSE data.key

\* The suffix of groups cut off like that of phones.
ResolveInboundPhoneBare(key) ==
  LET jid == IF key.lidMode \/ key.remoteJid.server = "lid" THEN key.remoteJidAlt ELSE key.remoteJid
  IN IF \/ key.remoteJid.server \in {"broadcast", "newsletter"}
        \/ key.remoteJid.server = "g.us" /\ ~EnableGroupReplies
     THEN Empty
     ELSE TrimServer(TrimServer(TrimServer(jid, "s.whatsapp.net"), "c.us"), "g.us")

\* Empty for what must be skipped.
ResolveInboundPhone(key) ==
  LET jid == IF key.lidMode \/ key.remoteJid.server = "lid" THEN key.remoteJidAlt ELSE key.remoteJid
  IN IF \/ key.remoteJid.server \in {"broadcast", "newsletter"}
        \/ key.remoteJid.server = "g.us" /\ ~EnableGroupReplies
     THEN Empty
     ELSE TrimServer(TrimServer(jid, "s.whatsapp.net"), "c.us")

TooOld(data) ==
  MaxAgeSecs > 0 /\ data.timestamp > 0 /\ (clock + 1) - data.timestamp > MaxAgeSecs

NotAllowed(phone) == AllowedPhones # {} /\ phone \notin AllowedPhones

\* extractContent: "" or what the consumer is told.
ExtractContent(data) ==
  LET type == IF data.type = "" THEN data.message.type ELSE data.type
      text == IF data.message.inner THEN data.message.text ELSE data.text
  IN IF type \in {"conversation", "extendedTextMessage", "listResponseMessage"}
     THEN IF text THEN "text" ELSE ""
     ELSE IF type # "" THEN "media" ELSE ""

\* The sender a webhook is forwarded for, Empty when it is skipped.
EvolutionSender(data) ==
  LET key   == EventKey(data)
      phone == ResolveInboundPhone(key)
  IN IF \/ EventKind[data.event] # "upsert"
        \/ key.fromMe \/ key.remoteJid = Empty
        \/ phone = Empty
        \/ TooOld(data)
        \/ NotAllowed(phone)
        \/ ExtractContent(data) = ""
     THEN Empty ELSE phone

\* Meta writes a number in digits, and every message has a content; Twilio
\* as an address, and what has neither text nor button is skipped.
MetaSender(m) == Jid(m.chat.user, "none")
TwilioSender(m) ==
  IF m.body.text THEN TrimPlus(TrimScheme(ToWhatsAppAddress(Jid(m.chat.user, "none")))) ELSE Empty

Sender(m, f) ==
  CASE provider = "evolution" -> EvolutionSender(Payload(m, f))
    [] provider = "meta"      -> MetaSender(m)
    [] provider = "twilio"    -> TwilioSender(m)

-----------------------------------------------------------------------------
(* What the bot is for, as config.go:54-70 says it, in terms of the message *)
(* itself: neither of its provider nor of how a handler finds the chat.    *)

Listed(chat) ==
  \E item \in env.allowed \ {Empty} :
    item.user = chat.user /\ item.server = (IF chat.kind = "group" THEN "g.us" ELSE "none")

\* BotAllowedPhones, when it has any, "restricts inbound processing to only these".
Permitted(chat) == env.allowed \ {Empty} = {} \/ Listed(chat)

\* A message that tells its time is wanted only as long as it is fresh.
Fresh(m, f) ==
  /\ f.stamped /\ ~env.maxAgeSet => clock <= m.at + DefaultMaxAge
  /\ f.stamped /\ env.maxAgeSet /\ env.maxAge # 0 => clock <= m.at + env.maxAge

HasContent(m) == m.body.text \/ m.body.type \notin {"", "conversation"}

\* People's messages, not the bot's and not receipts, in chats with a person (of
\* whom a Linked ID alone is not enough to answer) or with an enabled group.
Wanted(m, f) ==
  /\ ~m.mine /\ f.event # "messages.update"
  /\ m.chat.kind \in {"person", "group"}
  /\ m.chat.kind = "person" => f.lid # "without_number"
  /\ m.chat.kind = "group" => env.groups = "True"
  /\ HasContent(m) /\ Fresh(m, f) /\ Permitted(m.chat)

\* A group whose members are addressed by Linked IDs, under its own name.
Masked(m, f) == m.chat.kind = "group" /\ f.lid # "no"

-----------------------------------------------------------------------------
Constant == <<provider, env>>

\* A customer writes, or the owner of the number does from the phone.  Meta
\* and Twilio have no groups and post nothing about what the owner wrote.
Write(m) ==
  /\ m.at = clock
  /\ Cardinality(history) < MaxWritten
  /\ provider # "evolution" => m.chat.kind = "person" /\ ~m.mine
  /\ history' = history \cup {m}
  /\ UNCHANGED <<Constant, clock, events, posts, last>>

\* A webhook about a message, new or synced again.
Deliver(m, f) ==
  /\ m \in history
  /\ LET from == Sender(m, f)
     IN /\ events' = IF from = Empty THEN events
                     ELSE events \cup {[from |-> from, chat |-> m.chat]}
        /\ last' = [forwarded |-> from # Empty, wanted |-> Wanted(m, f),
                    masked |-> Masked(m, f)]
  /\ UNCHANGED <<Constant, clock, history, posts>>

\* The consumer answers the sender of an event; the answer, once sent, is one
\* more message of the chat it was addressed to.
Answer(e) ==
  LET phone == Reply(e.from)
      to    == AdapterAddress(provider, phone)
  IN /\ posts' = posts \cup {[to |-> to, chat |-> e.chat, accepted |-> IsE164(phone)]}
     /\ history' = history \cup
          {m \in Message : /\ provider = "evolution" /\ IsE164(phone)
                           /\ to = ChatJid(m.chat)
                           /\ m.mine /\ m.at = clock
                           /\ m.body = [type |-> "conversation", text |-> TRUE]}
     /\ UNCHANGED <<Constant, clock, events, last>>

Tick ==
  /\ clock < MaxClock
  /\ clock' = clock + 1
  /\ UNCHANGED <<Constant, history, events, posts, last>>

\* The model rests when the clock has run out, which no server does.
Next ==
  \/ \E m \in Message : Write(m)
  \/ \E m \in history, f \in Formats : Deliver(m, f)
  \/ \E e \in events : Answer(e)
  \/ Tick

Spec == Init /\ [][Next]_vars

-----------------------------------------------------------------------------
\* Through Evolution the bot gets what it is meant to ("Bot flood protection"):
\* nothing that the settings rule out or that the bot itself wrote, and of what
\* they let in all, whatever the version of Evolution and however often it syncs
\* its history.  Two cases stay outside.  Of a masked group the handler looks for
\* the number of a person, which there is not, and skips it; and the handlers of
\* Meta and Twilio never look at the settings, so nothing is claimed of them.
ForwardsWanted ==
  provider = "evolution" =>
    /\ last.forwarded => last.wanted
    /\ last.wanted /\ ~last.masked => last.forwarded

Reaches(to, chat) ==
  CASE provider = "evolution" -> to = ChatJid(chat)
    [] provider = "twilio"    -> to.scheme /\ to.plus /\ to.user = chat.user
    [] provider = "meta"      -> ~to.scheme /\ to.user = chat.user /\ to.server = "none"

\* An answer gets back to where the message came from: "+" and the sender of an
\* event pass the validation of a send, and the adapter turns them into the
\* address of the same chat, be it a group or a person behind a Linked ID
\* (resolveInboundPhone: the suffix of a group is kept for that).
AnswersArrive == \A p \in posts : p.accepted /\ Reaches(p.to, p.chat)
=============================================================================
