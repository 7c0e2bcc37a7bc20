------------------------- MODULE ConversationProofs --------------------------
(***************************************************************************)
(* Proofs about Conversation: whom the bot is told of and where its        *)
(* answers go, for every age limit, at every time, in every format of      *)
(* Evolution's webhooks and with any number of messages.                   *)
(***************************************************************************)
EXTENDS Conversation, TLAPS

\* The name of a chat in the events of the consumer.
Phone(chat) == Jid(chat.user, IF chat.kind = "group" THEN "g.us" ELSE "none")

\* A person, or a group when groups are enabled, that the message itself gives
\* an address for: of a Linked ID that needs the number, and groups addressed
\* by Linked IDs are passed over although their own name would do.
Answerable(m, f) ==
  /\ m.chat.kind \in {"person", "group"}
  /\ m.chat.kind = "group" => env.groups = "True" /\ f.lid = "no"
  /\ f.lid # "without_number"

\* What the handlers let pass: Meta's everything, Twilio's every text.
Passes(m, f) ==
  CASE provider = "evolution" ->
         /\ ~m.mine /\ f.event # "messages.update"
         /\ Answerable(m, f) /\ HasContent(m) /\ Fresh(m, f) /\ Permitted(m.chat)
    [] provider = "meta"   -> TRUE
    [] provider = "twilio" -> m.body.text

\* Events name persons, and groups of Evolution, by their phones; the other
\* providers know of persons alone.
IInv ==
  /\ TypeOK
  /\ provider # "evolution" => \A m \in history : m.chat.kind = "person"
  /\ \A e \in events : /\ e.from = Phone(e.chat)
                       /\ e.chat.kind = "person" \/ (provider = "evolution" /\ e.chat.kind = "group")
  /\ ForwardsWanted
  /\ AnswersArrive

-----------------------------------------------------------------------------
(* Addresses and chats.                                                    *)

USE BoundAssumption

LEMMA NumberParts ==
  ASSUME NEW n \in Nat
  PROVE  Number(n) \in User /\ ~Number(n).zero /\ Number(n).digits = n /\ Number(n).dash = 0
BY DEF Number, User

LEMMA JidParts ==
  ASSUME NEW user \in User, NEW server \in Servers
  PROVE  /\ Jid(user, server) \in Address
         /\ ~Jid(user, server).scheme /\ ~Jid(user, server).plus
         /\ Jid(user, server).user = user /\ Jid(user, server).server = server
BY DEF Jid, Address

\* An address is known by its parts.
LEMMA SameAddress ==
  ASSUME NEW a \in Address, NEW b \in Address,
         a.scheme = b.scheme, a.plus = b.plus, a.user = b.user, a.server = b.server
  PROVE  a = b
BY DEF Address

LEMMA TrimPlusParts ==
  ASSUME NEW a \in Address
  PROVE  /\ TrimPlus(a) \in Address /\ ~TrimPlus(a).plus
         /\ TrimPlus(a).scheme = a.scheme /\ TrimPlus(a).user = a.user
         /\ TrimPlus(a).server = a.server
BY DEF TrimPlus, Address

LEMMA TrimSchemeParts ==
  ASSUME NEW a \in Address
  PROVE  /\ TrimScheme(a) \in Address /\ ~TrimScheme(a).scheme
         /\ TrimScheme(a).plus = a.plus /\ TrimScheme(a).user = a.user
         /\ TrimScheme(a).server = a.server
BY DEF TrimScheme, Address

LEMMA ReplyParts ==
  ASSUME NEW a \in Address
  PROVE  /\ Reply(a) \in Address /\ Reply(a).plus
         /\ Reply(a).scheme = a.scheme /\ Reply(a).user = a.user
         /\ Reply(a).server = a.server
BY DEF Reply, Address

LEMMA ServerParts ==
  ASSUME NEW a \in Address, NEW server \in Servers
  PROVE  /\ [a EXCEPT !.server = server] \in Address
         /\ [a EXCEPT !.server = server].scheme = a.scheme
         /\ [a EXCEPT !.server = server].plus = a.plus
         /\ [a EXCEPT !.server = server].user = a.user
         /\ [a EXCEPT !.server = server].server = server
BY DEF Address

LEMMA TrimServerParts ==
  ASSUME NEW a \in Address, NEW suffix
  PROVE  /\ TrimServer(a, suffix) \in Address
         /\ TrimServer(a, suffix).scheme = a.scheme /\ TrimServer(a, suffix).plus = a.plus
         /\ TrimServer(a, suffix).user = a.user
         /\ TrimServer(a, suffix).server = (IF a.server = suffix THEN "none" ELSE a.server)
<1>1. CASE a.server = suffix
  <2>1. TrimServer(a, suffix) = [a EXCEPT !.server = "none"] /\ "none" \in Servers
    BY <1>1 DEF TrimServer, Servers
  <2>2. QED BY <1>1, <2>1, ServerParts
<1>2. CASE a.server # suffix
  BY <1>2 DEF TrimServer
<1>3. QED BY <1>1, <1>2

LEMMA WhatsAppParts ==
  ASSUME NEW a \in Address
  PROVE  /\ ToWhatsAppAddress(a) \in Address
         /\ ToWhatsAppAddress(a).scheme /\ ToWhatsAppAddress(a).plus
         /\ ToWhatsAppAddress(a).user = a.user /\ ToWhatsAppAddress(a).server = a.server
BY DEF ToWhatsAppAddress, Address

LEMMA ChatParts ==
  ASSUME NEW chat \in Chats
  PROVE  /\ chat.kind \in {"person", "group", "broadcast", "newsletter"}
         /\ chat.user \in User /\ ~chat.user.zero
         /\ chat.kind = "person" => chat.user.digits \in {8, 15} /\ chat.user.dash = 0
         /\ chat.kind = "group" => \/ chat.user.digits = 15 /\ chat.user.dash = 10
                                   \/ chat.user.digits \in {18, 20} /\ chat.user.dash = 0
         /\ chat.user.digits # 0
<1>1. CASE chat = Person \/ chat = Stranger
  <2>1. chat.kind = "person" /\ (chat.user = Number(15) \/ chat.user = Number(8))
    BY <1>1 DEF Person, Stranger
  <2>2. QED BY <2>1, NumberParts
<1>2. CASE chat = OldGroup
  <2>1. chat.kind = "group" /\ chat.user = [zero |-> FALSE, digits |-> 15, dash |-> 10]
    BY <1>2 DEF OldGroup
  <2>2. QED BY <2>1 DEF User
<1>3. CASE chat = NewGroup \/ chat = LongGroup
  <2>1. chat.kind = "group" /\ (chat.user = Number(18) \/ chat.user = Number(20))
    BY <1>3 DEF NewGroup, LongGroup
  <2>2. QED BY <2>1, NumberParts
<1>4. CASE chat = Status \/ chat = Channel
  <2>1. /\ chat.kind \in {"broadcast", "newsletter"}
        /\ chat.user = Number(6) \/ chat.user = Number(17)
    BY <1>4 DEF Status, Channel
  <2>2. QED BY <2>1, NumberParts
<1>5. QED BY <1>1, <1>2, <1>3, <1>4 DEF Chats

LEMMA ChatJidParts ==
  ASSUME NEW chat \in Chats
  PROVE  /\ ChatJid(chat) \in Address
         /\ ~ChatJid(chat).scheme /\ ~ChatJid(chat).plus /\ ChatJid(chat).user = chat.user
         /\ chat.kind = "person" => ChatJid(chat).server = "s.whatsapp.net"
         /\ chat.kind = "group" => ChatJid(chat).server = "g.us"
         /\ chat.kind = "broadcast" => ChatJid(chat).server = "broadcast"
         /\ chat.kind = "newsletter" => ChatJid(chat).server = "newsletter"
<1>1. chat.user \in User /\ ServerOf[chat.kind] \in Servers
  BY ChatParts DEF ServerOf, Servers
<1>2. QED BY <1>1, ChatParts, JidParts DEF ChatJid, ServerOf

LEMMA EmptyParts ==
  Empty \in Address /\ ~Empty.scheme /\ ~Empty.plus /\ Empty.user.digits = 0 /\ Empty.server = "none"
BY NumberParts, JidParts DEF Empty, Servers

LEMMA PhoneParts ==
  ASSUME NEW chat \in Chats
  PROVE  /\ Phone(chat) \in Address /\ Phone(chat) # Empty
         /\ ~Phone(chat).scheme /\ ~Phone(chat).plus /\ Phone(chat).user = chat.user
         /\ Phone(chat).server = (IF chat.kind = "group" THEN "g.us" ELSE "none")
<1>1. chat.user \in User /\ (IF chat.kind = "group" THEN "g.us" ELSE "none") \in Servers
  BY ChatParts DEF Servers
<1>2. QED BY <1>1, ChatParts, JidParts, EmptyParts DEF Phone

\* "+" and the name of a chat is a phone a send accepts, and the adapter makes
\* the address of that chat of it.
LEMMA PhoneReaches ==
  ASSUME NEW chat \in Chats,
         chat.kind = "person" \/ (provider = "evolution" /\ chat.kind = "group"),
         provider \in {"evolution", "meta", "twilio"}
  PROVE  /\ IsE164(Reply(Phone(chat)))
         /\ Reaches(AdapterAddress(provider, Reply(Phone(chat))), chat)
         /\ AdapterAddress(provider, Reply(Phone(chat))) \in Address
<1> DEFINE reply == Reply(Phone(chat))
<1>1. /\ reply \in Address /\ reply.plus /\ ~reply.scheme /\ reply.user = chat.user
      /\ reply.server = (IF chat.kind = "group" THEN "g.us" ELSE "none")
  BY PhoneParts, ReplyParts
<1> HIDE DEF reply
<1>2. IsE164(reply)
  BY <1>1, ChatParts DEF IsE164, User
<1>3. CASE provider = "evolution"
  <2>1. /\ EvolutionJid(reply) \in Address
        /\ ~EvolutionJid(reply).scheme /\ ~EvolutionJid(reply).plus
        /\ EvolutionJid(reply).user = chat.user
        /\ EvolutionJid(reply).server = (IF chat.kind = "group" THEN "g.us" ELSE "s.whatsapp.net")
    <3>1. /\ TrimPlus(reply) \in Address
          /\ ~TrimPlus(reply).scheme /\ ~TrimPlus(reply).plus /\ TrimPlus(reply).user = chat.user
          /\ TrimPlus(reply).server = (IF chat.kind = "group" THEN "g.us" ELSE "none")
      BY <1>1, TrimPlusParts
    <3>2. CASE chat.kind = "group"
      <4>1. EvolutionJid(reply) = TrimPlus(reply)
        BY <3>1, <3>2 DEF EvolutionJid
      <4>2. QED BY <3>1, <3>2, <4>1
    <3>3. CASE chat.kind # "group"
      <4>1. /\ EvolutionJid(reply) = [TrimPlus(reply) EXCEPT !.server = "s.whatsapp.net"]
            /\ "s.whatsapp.net" \in Servers
        BY <3>1, <3>3 DEF EvolutionJid, Servers
      <4>2. QED BY <3>1, <3>3, <4>1, ServerParts
    <3>4. QED BY <3>2, <3>3
  <2>2. EvolutionJid(reply) = ChatJid(chat)
    <3>1. /\ ChatJid(chat) \in Address /\ ~ChatJid(chat).scheme /\ ~ChatJid(chat).plus
          /\ ChatJid(chat).user = chat.user
          /\ ChatJid(chat).server = (IF chat.kind = "group" THEN "g.us" ELSE "s.whatsapp.net")
      BY ChatJidParts
    <3>2. /\ EvolutionJid(reply).scheme = ChatJid(chat).scheme
          /\ EvolutionJid(reply).plus = ChatJid(chat).plus
      BY <2>1, <3>1 DEF Address
    <3>3. QED BY <2>1, <3>1, <3>2, SameAddress
  <2>3. AdapterAddress(provider, reply) = EvolutionJid(reply)
    BY <1>3 DEF AdapterAddress
  <2>4. QED BY <1>2, <1>3, <2>1, <2>2, <2>3 DEF Reaches, reply
<1>4. CASE provider = "twilio"
  <2>1. AdapterAddress(provider, reply) = ToWhatsAppAddress(reply)
    BY <1>4 DEF AdapterAddress
  <2>2. /\ ToWhatsAppAddress(reply) \in Address /\ ToWhatsAppAddress(reply).scheme
        /\ ToWhatsAppAddress(reply).plus /\ ToWhatsAppAddress(reply).user = chat.user
    BY <1>1, WhatsAppParts
  <2>3. Reaches(ToWhatsAppAddress(reply), chat)
    BY <1>4, <2>2 DEF Reaches
  <2>4. QED BY <1>2, <2>1, <2>2, <2>3 DEF reply
<1>5. CASE provider = "meta"
  <2>1. AdapterAddress(provider, reply) = reply
    BY <1>5 DEF AdapterAddress, MetaTo
  <2>2. Reaches(reply, chat)
    BY <1>1, <1>5 DEF Reaches
  <2>3. QED BY <1>1, <1>2, <2>1, <2>2 DEF reply
<1>6. QED BY <1>3, <1>4, <1>5

-----------------------------------------------------------------------------
(* What the Evolution handler reads out of a webhook.                      *)

\* A chat by its phone, in whichever domain phones have.
PhoneJid(m, f) == [ChatJid(m.chat) EXCEPT !.server = IF m.chat.kind = "person" THEN f.domain ELSE @]

LEMMA PhoneJidParts ==
  ASSUME NEW m \in Message, NEW f \in Formats
  PROVE  /\ PhoneJid(m, f) \in Address
         /\ ~PhoneJid(m, f).scheme /\ ~PhoneJid(m, f).plus
         /\ PhoneJid(m, f).user = m.chat.user
         /\ m.chat.kind = "person" => PhoneJid(m, f).server \in {"s.whatsapp.net", "c.us"}
         /\ m.chat.kind = "group" => PhoneJid(m, f).server = "g.us"
         /\ m.chat.kind \in {"broadcast", "newsletter"} => PhoneJid(m, f).server = m.chat.kind
<1>1. m.chat \in Chats /\ f.domain \in {"s.whatsapp.net", "c.us"}
  BY DEF Message, Formats
<1>2. ChatJid(m.chat) \in Address
  BY <1>1, ChatJidParts
<1> DEFINE server == IF m.chat.kind = "person" THEN f.domain ELSE ChatJid(m.chat).server
<1>3. PhoneJid(m, f) = [ChatJid(m.chat) EXCEPT !.server = server]
  BY DEF PhoneJid
<1>4. server \in Servers
  BY <1>1, <1>2 DEF Servers, Address
<1>5. /\ PhoneJid(m, f) \in Address
      /\ PhoneJid(m, f).scheme = ChatJid(m.chat).scheme
      /\ PhoneJid(m, f).plus = ChatJid(m.chat).plus
      /\ PhoneJid(m, f).user = ChatJid(m.chat).user
      /\ PhoneJid(m, f).server = server
  <2> HIDE DEF server
  <2>1. QED BY <1>2, <1>3, <1>4, ServerParts
<1>6. QED BY <1>1, <1>5, ChatJidParts, ChatParts

LEMMA KeyParts ==
  ASSUME NEW m \in Message, NEW f \in Formats
  PROVE  LET key == KeyOf(m, f)
             lid == m.chat.kind \in {"person", "group"} /\ f.lid # "no"
         IN /\ key.lidMode = lid /\ key.fromMe = m.mine
            /\ key.remoteJid =
                 IF lid /\ m.chat.kind = "person" THEN Jid(Number(15), "lid") ELSE PhoneJid(m, f)
            /\ key.remoteJidAlt =
                 IF m.chat.kind = "person" /\ f.lid = "with_number" THEN PhoneJid(m, f) ELSE Empty
            /\ key.remoteJid # Empty
<1>1. Jid(Number(15), "lid").server = "lid" /\ Empty.server = "none"
  BY NumberParts, JidParts, EmptyParts DEF Servers
<1>2. PhoneJid(m, f) # Empty
  <2>1. m.chat \in Chats
    BY DEF Message
  <2>2. QED BY <2>1, PhoneJidParts, ChatParts, EmptyParts
<1>3. QED BY <1>1, <1>2 DEF KeyOf, PhoneJid

\* The two nestings carry the same key.
LEMMA EventKeyOfPayload ==
  ASSUME NEW m \in Message, NEW f \in Formats
  PROVE  EventKey(Payload(m, f)) = KeyOf(m, f)
BY KeyParts DEF EventKey, Payload, NoKey, Formats

\* Of a phone the handler keeps the bare number, of a group all of its name.
LEMMA BarePhone ==
  ASSUME NEW m \in Message, NEW f \in Formats, m.chat.kind \in {"person", "group"}
  PROVE  TrimServer(TrimServer(PhoneJid(m, f), "s.whatsapp.net"), "c.us") = Phone(m.chat)
<1> DEFINE once  == TrimServer(PhoneJid(m, f), "s.whatsapp.net")
           twice == TrimServer(once, "c.us")
<1>1. m.chat \in Chats
  BY DEF Message
<1>2. /\ once \in Address /\ once.scheme = PhoneJid(m, f).scheme
      /\ once.plus = PhoneJid(m, f).plus /\ once.user = m.chat.user
      /\ once.server = (IF PhoneJid(m, f).server = "s.whatsapp.net" THEN "none"
                        ELSE PhoneJid(m, f).server)
  BY PhoneJidParts, TrimServerParts
<1> HIDE DEF once
<1>3. /\ twice \in Address /\ twice.scheme = PhoneJid(m, f).scheme
      /\ twice.plus = PhoneJid(m, f).plus /\ twice.user = m.chat.user
      /\ twice.server = (IF once.server = "c.us" THEN "none" ELSE once.server)
  BY <1>2, TrimServerParts
<1> HIDE DEF twice
<1>4. twice.server = Phone(m.chat).server
  BY <1>1, <1>2, <1>3, PhoneJidParts, PhoneParts
<1>5. /\ twice.scheme = Phone(m.chat).scheme /\ twice.plus = Phone(m.chat).plus
      /\ Phone(m.chat) \in Address /\ twice.user = Phone(m.chat).user
  BY <1>1, <1>3, PhoneJidParts, PhoneParts DEF Address
<1>6. twice = Phone(m.chat)
  BY <1>3, <1>4, <1>5, SameAddress
<1>7. QED BY <1>6 DEF twice, once

LEMMA BareEmpty == TrimServer(TrimServer(Empty, "s.whatsapp.net"), "c.us") = Empty
BY EmptyParts DEF TrimServer

\* The phone is that of the chat, or there is none to answer.
LEMMA ResolvedPhone ==
  ASSUME NEW m \in Message, NEW f \in Formats
  PROVE  ResolveInboundPhone(KeyOf(m, f)) = IF Answerable(m, f) THEN Phone(m.chat) ELSE Empty
<1> DEFINE key == KeyOf(m, f)
           jid == IF key.lidMode \/ key.remoteJid.server = "lid"
                  THEN key.remoteJidAlt ELSE key.remoteJid
<1>0. m.chat \in Chats /\ f.lid \in {"no", "with_number", "without_number"}
  BY DEF Message, Formats
<1>1. /\ key.lidMode <=> m.chat.kind \in {"person", "group"} /\ f.lid # "no"
      /\ key.remoteJid = IF m.chat.kind = "person" /\ f.lid # "no"
                         THEN Jid(Number(15), "lid") ELSE PhoneJid(m, f)
      /\ key.remoteJidAlt = IF m.chat.kind = "person" /\ f.lid = "with_number"
                            THEN PhoneJid(m, f) ELSE Empty
  BY KeyParts
<1>2. Jid(Number(15), "lid").server = "lid"
  BY NumberParts, JidParts DEF Servers
<1>3. ResolveInboundPhone(key) =
        IF \/ key.remoteJid.server \in {"broadcast", "newsletter"}
           \/ key.remoteJid.server = "g.us" /\ ~EnableGroupReplies
        THEN Empty
        ELSE TrimServer(TrimServer(jid, "s.whatsapp.net"), "c.us")
  BY DEF ResolveInboundPhone
<1> HIDE DEF key, jid
<1>4. CASE m.chat.kind = "person"
  <2>1. key.remoteJid.server \in {"lid", "s.whatsapp.net", "c.us"}
    BY <1>1, <1>2, <1>4, PhoneJidParts
  <2>2. jid = IF f.lid = "without_number" THEN Empty ELSE PhoneJid(m, f)
    BY <1>0, <1>1, <1>2, <1>4, PhoneJidParts DEF jid
  <2>3. Answerable(m, f) <=> f.lid # "without_number"
    BY <1>4 DEF Answerable
  <2>4. QED BY <1>3, <1>4, <2>1, <2>2, <2>3, BarePhone, BareEmpty DEF key
<1>5. CASE m.chat.kind = "group"
  <2>1. key.remoteJid.server = "g.us"
    BY <1>1, <1>5, PhoneJidParts
  <2>2. jid = IF f.lid = "no" THEN PhoneJid(m, f) ELSE Empty
    BY <1>1, <1>5, <2>1 DEF jid
  <2>3. Answerable(m, f) <=> EnableGroupReplies /\ f.lid = "no"
    BY <1>5 DEF Answerable, EnableGroupReplies
  <2>4. QED BY <1>3, <1>5, <2>1, <2>2, <2>3, BarePhone, BareEmpty DEF key
<1>6. CASE m.chat.kind \in {"broadcast", "newsletter"}
  <2>1. key.remoteJid.server = m.chat.kind
    BY <1>1, <1>6, PhoneJidParts
  <2>2. QED BY <1>3, <1>6, <2>1 DEF Answerable, key
<1>7. QED BY <1>0, <1>4, <1>5, <1>6, ChatParts

\* The list of phones, read item by item without the plus, lets pass whom it
\* lists, and everybody when it lists nobody.
LEMMA AllowList ==
  ASSUME env \in Env, NEW chat \in Chats, chat.kind \in {"person", "group"}
  PROVE  ~NotAllowed(Phone(chat)) <=> Permitted(chat)
<1> DEFINE items == env.allowed \ {Empty}
<1>1. items \subseteq {Reply(Jid(Person.user, "none")), ChatJid(NewGroup)}
  BY DEF Env
<1>2. ASSUME NEW item \in items
      PROVE  /\ TrimPlus(item) # Empty
             /\ TrimPlus(item) = Phone(chat) <=>
                  /\ item.user = chat.user
                  /\ item.server = (IF chat.kind = "group" THEN "g.us" ELSE "none")
  <2>1. /\ Person \in Chats /\ Person.kind = "person"
        /\ NewGroup \in Chats /\ NewGroup.kind = "group"
    BY DEF Chats, Person, NewGroup
  <2>2. item \in Address /\ ~item.scheme /\ item.user.digits # 0
    <3>1. CASE item = Reply(Jid(Person.user, "none"))
      <4>1. Person.user \in User /\ Person.user.digits # 0 /\ "none" \in Servers
        BY <2>1, ChatParts DEF Servers
      <4>2. Jid(Person.user, "none") \in Address /\ ~Jid(Person.user, "none").scheme
            /\ Jid(Person.user, "none").user = Person.user
        BY <4>1, JidParts
      <4>3. QED BY <3>1, <4>1, <4>2, ReplyParts
    <3>2. CASE item = ChatJid(NewGroup)
      BY <2>1, <3>2, ChatJidParts, ChatParts
    <3>3. QED BY <1>1, <1>2, <3>1, <3>2
  <2>3. /\ TrimPlus(item) \in Address /\ ~TrimPlus(item).scheme /\ ~TrimPlus(item).plus
        /\ TrimPlus(item).user = item.user /\ TrimPlus(item).server = item.server
    BY <2>2, TrimPlusParts
  <2>4. TrimPlus(item) # Empty
    BY <2>2, <2>3, EmptyParts
  <2>5. /\ TrimPlus(item).scheme = Phone(chat).scheme /\ TrimPlus(item).plus = Phone(chat).plus
        /\ Phone(chat) \in Address /\ Phone(chat).user = chat.user
        /\ Phone(chat).server = (IF chat.kind = "group" THEN "g.us" ELSE "none")
    BY <2>3, PhoneParts DEF Address
  <2>6. QED BY <2>3, <2>4, <2>5, SameAddress
<1>3. TrimPlus(Empty) = Empty
  <2>1. /\ TrimPlus(Empty) \in Address /\ ~TrimPlus(Empty).plus
        /\ TrimPlus(Empty).scheme = Empty.scheme /\ TrimPlus(Empty).user = Empty.user
        /\ TrimPlus(Empty).server = Empty.server
    BY EmptyParts, TrimPlusParts
  <2>2. TrimPlus(Empty).plus = Empty.plus
    BY <2>1, EmptyParts DEF Address
  <2>3. QED BY <2>1, <2>2, EmptyParts, SameAddress
<1>4. AllowedPhones = {TrimPlus(item) : item \in items}
  BY <1>2, <1>3 DEF AllowedPhones
<1> HIDE DEF items
<1>5. AllowedPhones = {} <=> items = {}
  BY <1>4
<1>6. Phone(chat) \in AllowedPhones <=>
        \E item \in items : /\ item.user = chat.user
                            /\ item.server = (IF chat.kind = "group" THEN "g.us" ELSE "none")
  BY <1>2, <1>4
<1>7. QED BY <1>5, <1>6 DEF NotAllowed, Permitted, Listed, items

LEMMA Age ==
  ASSUME env \in Env, clock \in Nat, NEW m \in Message, NEW f \in Formats
  PROVE  ~TooOld(Payload(m, f)) <=> Fresh(m, f)
<1>1. m.at \in Nat /\ env.maxAge \in Nat
  <2>1. m.at \in 0..MaxClock
    BY DEF Message
  <2>2. m.at \in Nat
    BY <2>1
  <2>3. env.maxAge \in {0} \cup MaxAges
    BY DEF Env
  <2>4. 0 \in Nat /\ MaxAges \subseteq Nat
    OBVIOUS
  <2>5. QED BY <2>2, <2>3, <2>4
<1>2. Payload(m, f).timestamp = IF f.stamped THEN m.at + 1 ELSE 0
  BY DEF Payload, Stamp
<1>3. TooOld(Payload(m, f)) <=> MaxAgeSecs > 0 /\ f.stamped /\ clock - m.at > MaxAgeSecs
  BY <1>1, <1>2 DEF TooOld, MaxAgeSecs
<1>4. CASE env.maxAgeSet
  BY <1>1, <1>3, <1>4 DEF MaxAgeSecs, Fresh
<1>5. CASE ~env.maxAgeSet
  BY <1>1, <1>3, <1>5 DEF MaxAgeSecs, Fresh
<1>6. QED BY <1>4, <1>5

LEMMA BodyParts ==
  ASSUME NEW body \in Bodies
  PROVE  /\ body.text \in BOOLEAN
         /\ body.type \in {"conversation", "extendedTextMessage", "listResponseMessage",
                          "imageMessage", ""}
         /\ body.type = "" => ~body.text
         /\ body.type \in {"extendedTextMessage", "listResponseMessage"} => body.text
<1>1. CASE \E t \in {"conversation", "extendedTextMessage", "listResponseMessage", "imageMessage"} :
             body = [type |-> t, text |-> TRUE]
  <2>1. PICK t \in {"conversation", "extendedTextMessage", "listResponseMessage", "imageMessage"} :
          body = [type |-> t, text |-> TRUE]
    BY <1>1
  <2>2. body.type = t /\ body.text = TRUE
    BY <2>1
  <2>3. QED BY <2>2
<1>2. CASE \E t \in {"conversation", "imageMessage", ""} : body = [type |-> t, text |-> FALSE]
  <2>1. PICK t \in {"conversation", "imageMessage", ""} : body = [type |-> t, text |-> FALSE]
    BY <1>2
  <2>2. body.type = t /\ body.text = FALSE
    BY <2>1
  <2>3. QED BY <2>2
<1>3. QED BY <1>1, <1>2 DEF Bodies

LEMMA Content ==
  ASSUME NEW m \in Message, NEW f \in Formats
  PROVE  ExtractContent(Payload(m, f)) # "" <=> HasContent(m)
<1>1. /\ m.body.text \in BOOLEAN /\ f.nested \in BOOLEAN
      /\ m.body.type \in {"conversation", "extendedTextMessage", "listResponseMessage",
                          "imageMessage", ""}
      /\ m.body.type = "" => ~m.body.text
      /\ m.body.type \in {"extendedTextMessage", "listResponseMessage"} => m.body.text
  BY BodyParts DEF Message, Formats
<1> DEFINE data == Payload(m, f)
<1>2. CASE f.nested
  <2>1. data.type = "" /\ data.message.type = m.body.type /\ data.message.inner
        /\ (data.message.text <=> m.body.text)
    BY <1>2 DEF Payload
  <2> HIDE DEF data
  <2>2. QED BY <1>1, <2>1 DEF ExtractContent, HasContent, data
<1>3. CASE ~f.nested
  <2>1. data.type = m.body.type /\ ~data.message.inner /\ (data.text <=> m.body.text)
        /\ data.message.type = ""
    BY <1>3 DEF Payload
  <2> HIDE DEF data
  <2>2. QED BY <1>1, <2>1 DEF ExtractContent, HasContent, data
<1>4. QED BY <1>1, <1>2, <1>3

\* The handler forwards what passes, under the name of its chat.
LEMMA EvolutionForwards ==
  ASSUME provider = "evolution", env \in Env, clock \in Nat, NEW m \in Message, NEW f \in Formats
  PROVE  EvolutionSender(Payload(m, f)) = IF Passes(m, f) THEN Phone(m.chat) ELSE Empty
<1> DEFINE data == Payload(m, f)
<1>1. /\ m.chat \in Chats /\ m.mine \in BOOLEAN
      /\ f.event \in {"messages.upsert", "MESSAGES_UPSERT", "messages.update"}
  BY DEF Message, Formats
<1>2. data.event = f.event /\ EventKey(data) = KeyOf(m, f)
  BY EventKeyOfPayload DEF Payload
<1>3. KeyOf(m, f).fromMe = m.mine /\ KeyOf(m, f).remoteJid # Empty
  BY KeyParts DEF KeyOf
<1>4. EventKind[f.event] # "upsert" <=> f.event = "messages.update"
  BY <1>1 DEF EventKind
<1>5. /\ TooOld(data) <=> ~Fresh(m, f)
      /\ ExtractContent(data) = "" <=> ~HasContent(m)
  BY Age, Content
<1> HIDE DEF data
<1>6. CASE Answerable(m, f)
  <2>1. ResolveInboundPhone(KeyOf(m, f)) = Phone(m.chat) /\ Phone(m.chat) # Empty
    BY <1>1, <1>6, ResolvedPhone, PhoneParts
  <2>2. ~NotAllowed(Phone(m.chat)) <=> Permitted(m.chat)
    BY <1>1, <1>6, AllowList DEF Answerable
  <2>3. QED
    BY <1>2, <1>3, <1>4, <1>5, <1>6, <2>1, <2>2 DEF EvolutionSender, Passes, data
<1>7. CASE ~Answerable(m, f)
  BY <1>2, <1>7, ResolvedPhone DEF EvolutionSender, Passes, data
<1>8. QED BY <1>6, <1>7

LEMMA SenderOfMessage ==
  ASSUME IInv, NEW m \in history, NEW f \in Formats
  PROVE  Sender(m, f) = IF Passes(m, f) THEN Phone(m.chat) ELSE Empty
<1>1. /\ m \in Message /\ clock \in Nat /\ env \in Env
      /\ provider \in {"evolution", "meta", "twilio"}
  BY DEF IInv, TypeOK
<1>2. CASE provider = "evolution"
  BY <1>1, <1>2, EvolutionForwards DEF Sender
<1>3. CASE provider \in {"meta", "twilio"}
  <2>1. m.chat \in Chats /\ m.chat.kind = "person" /\ Phone(m.chat) = Jid(m.chat.user, "none")
    BY <1>1, <1>3 DEF IInv, Phone, Message
  <2>2. CASE provider = "meta"
    BY <2>1, <2>2 DEF Sender, MetaSender, Passes
  <2>3. CASE provider = "twilio"
    <3> DEFINE there == ToWhatsAppAddress(Phone(m.chat))
               back  == TrimPlus(TrimScheme(there))
    <3>1. there \in Address /\ there.user = m.chat.user /\ there.server = Phone(m.chat).server
      BY <2>1, PhoneParts, WhatsAppParts
    <3> HIDE DEF there
    <3>2. /\ TrimScheme(there) \in Address /\ ~TrimScheme(there).scheme
          /\ TrimScheme(there).user = m.chat.user
          /\ TrimScheme(there).server = Phone(m.chat).server
      BY <3>1, TrimSchemeParts
    <3>3. /\ back \in Address /\ ~back.scheme /\ ~back.plus /\ back.user = m.chat.user
          /\ back.server = Phone(m.chat).server
      BY <3>2, TrimPlusParts
    <3> HIDE DEF back
    <3>4. back.scheme = Phone(m.chat).scheme /\ back.plus = Phone(m.chat).plus
      BY <2>1, <3>3, PhoneParts DEF Address
    <3>5. back = Phone(m.chat)
      BY <2>1, <3>3, <3>4, PhoneParts, SameAddress
    <3>6. QED BY <2>1, <2>3, <3>5 DEF Sender, TwilioSender, Passes, back, there
  <2>4. QED BY <1>3, <2>2, <2>3
<1>4. QED BY <1>1, <1>2, <1>3

-----------------------------------------------------------------------------
LEMMA InitInv == Init => IInv
BY DEF Init, IInv, TypeOK, Verdict, Nothing, ForwardsWanted, AnswersArrive

\* What is posted stands.
LEMMA PostsStand ==
  ASSUME AnswersArrive, UNCHANGED <<provider, posts>>
  PROVE  AnswersArrive'
BY DEF AnswersArrive, Reaches

LEMMA WriteInv ==
  ASSUME IInv, NEW m \in Message, Write(m)
  PROVE  IInv'
BY PostsStand DEF IInv, TypeOK, Write, Constant, ForwardsWanted

\* Through Evolution passes what is wanted, but for masked groups.
LEMMA PassesWanted ==
  ASSUME provider = "evolution", NEW m \in Message, NEW f \in Formats
  PROVE  Passes(m, f) <=> Wanted(m, f) /\ ~Masked(m, f)
<1>1. f.lid \in {"no", "with_number", "without_number"}
  BY DEF Formats
<1>2. Answerable(m, f) <=>
        /\ m.chat.kind \in {"person", "group"}
        /\ m.chat.kind = "person" => f.lid # "without_number"
        /\ m.chat.kind = "group" => env.groups = "True"
        /\ ~Masked(m, f)
  BY <1>1 DEF Answerable, Masked
<1>3. QED BY <1>2 DEF Passes, Wanted

LEMMA DeliverInv ==
  ASSUME IInv, NEW m \in history, NEW f \in Formats, Deliver(m, f)
  PROVE  IInv'
<1>0. m \in Message /\ m.chat \in Chats /\ provider \in {"evolution", "meta", "twilio"}
  BY DEF IInv, TypeOK, Message
<1>1. Passes(m, f) \in BOOLEAN
  <2>1. m.body.text \in BOOLEAN
    BY <1>0, BodyParts DEF Message
  <2>2. QED BY <1>0, <2>1 DEF Passes
<1>2. Sender(m, f) # Empty <=> Passes(m, f)
  BY <1>0, SenderOfMessage, PhoneParts
<1>3. /\ last'.forwarded = Passes(m, f) /\ last'.wanted = Wanted(m, f)
      /\ last'.masked = Masked(m, f) /\ last' \in Verdict
  <2>1. Wanted(m, f) \in BOOLEAN /\ Masked(m, f) \in BOOLEAN
    BY DEF Wanted, Masked
  <2>2. last' = [forwarded |-> Passes(m, f), wanted |-> Wanted(m, f),
                 masked |-> Masked(m, f)]
    BY <1>1, <1>2 DEF Deliver
  <2>3. QED BY <1>1, <2>1, <2>2 DEF Verdict
<1>4. \A e \in events' : e \in events \/
        (Passes(m, f) /\ e = [from |-> Phone(m.chat), chat |-> m.chat])
  BY <1>2, SenderOfMessage DEF Deliver
<1>5. Passes(m, f) =>
        m.chat.kind = "person" \/ (provider = "evolution" /\ m.chat.kind = "group")
  BY <1>0 DEF Passes, Answerable, IInv
<1>6. UNCHANGED <<provider, env, clock, history, posts>>
  BY DEF Deliver, Constant
<1>7. TypeOK'
  BY <1>0, <1>3, <1>4, <1>6, PhoneParts DEF IInv, TypeOK
<1>8. ForwardsWanted'
  BY <1>0, <1>3, <1>6, PassesWanted DEF ForwardsWanted
<1>9. QED
  BY <1>4, <1>5, <1>6, <1>7, <1>8, PostsStand DEF IInv

LEMMA AnswerInv ==
  ASSUME IInv, NEW e \in events, Answer(e)
  PROVE  IInv'
<1> DEFINE to == AdapterAddress(provider, Reply(e.from))
<1>1. /\ e.chat \in Chats /\ e.from = Phone(e.chat)
      /\ e.chat.kind = "person" \/ (provider = "evolution" /\ e.chat.kind = "group")
      /\ provider \in {"evolution", "meta", "twilio"}
  BY DEF IInv, TypeOK
<1>2. IsE164(Reply(e.from)) /\ Reaches(to, e.chat) /\ to \in Address
  BY <1>1, PhoneReaches
<1>3. posts' = posts \cup {[to |-> to, chat |-> e.chat, accepted |-> TRUE]}
  BY <1>2 DEF Answer
<1>4. /\ UNCHANGED <<provider, env, clock, events, last>>
      /\ history' \subseteq Message
      /\ provider # "evolution" => history' = history
  BY DEF Answer, Constant, IInv, TypeOK
<1> HIDE DEF to
<1>5. TypeOK'
  <2>1. \A p \in posts' : p.to \in Address /\ p.chat \in Chats /\ p.accepted \in BOOLEAN
    <3>1. ASSUME NEW p \in posts'
          PROVE  p \in posts \/ (p.to = to /\ p.chat = e.chat /\ p.accepted = TRUE)
      BY <1>3, <3>1
    <3>2. QED BY <1>1, <1>2, <3>1 DEF IInv, TypeOK
  <2>2. QED BY <1>4, <2>1 DEF IInv, TypeOK
<1>6. AnswersArrive'
  <2>1. ASSUME NEW p \in posts'
        PROVE  p \in posts \/ (p.to = to /\ p.chat = e.chat /\ p.accepted = TRUE)
    BY <1>3, <2>1
  <2>2. \A address, chat : Reaches(address, chat)' <=> Reaches(address, chat)
    BY <1>4 DEF Reaches
  <2>3. QED BY <1>2, <2>1, <2>2 DEF IInv, AnswersArrive
<1>7. QED BY <1>4, <1>5, <1>6 DEF IInv, ForwardsWanted

LEMMA TickInv ==
  ASSUME IInv, Tick
  PROVE  IInv'
<1>1. UNCHANGED <<provider, env, history, events, posts, last>> /\ clock' \in 0..MaxClock
  BY DEF IInv, TypeOK, Tick, Constant
<1>2. QED BY <1>1, PostsStand DEF IInv, TypeOK, ForwardsWanted

LEMMA NextInv == IInv /\ [Next]_vars => IInv'
<1>1. IInv /\ UNCHANGED vars => IInv'
  BY PostsStand DEF IInv, TypeOK, vars, ForwardsWanted
<1>2. QED BY <1>1, WriteInv, DeliverInv, AnswerInv, TickInv DEF Next

\* The inductive invariant of conversations.
THEOREM Invariance == Spec => []IInv
BY InitInv, NextInv, PTL DEF Spec

\* Senders and addresses are well-formed in every run.
THEOREM TypeCorrect == Spec => []TypeOK
<1>1. IInv => TypeOK
  BY DEF IInv
<1>2. QED BY <1>1, Invariance, PTL

\* Through Evolution the bot gets nothing that config.go rules out, and all that
\* it lets in but for masked groups: for every age limit and at every time, in
\* every format, under every setting of the filters.
THEOREM WantedForwarded == Spec => []ForwardsWanted
<1>1. IInv => ForwardsWanted
  BY DEF IInv
<1>2. QED BY <1>1, Invariance, PTL

\* Every answer is accepted and goes back to the chat its question came from.
THEOREM AnswersReturn == Spec => []AnswersArrive
<1>1. IInv => AnswersArrive
  BY DEF IInv
<1>2. QED BY <1>1, Invariance, PTL
=============================================================================
