---------------------------- MODULE TwilioContent ----------------------------
(***************************************************************************)
(* SendMessage of the Twilio adapter (twilio/provider.go), the step between *)
(* Prepare and DispatchOk of Outbound seen from near: an interactive list  *)
(* goes out as a content template, which is looked up in Redis by a hash   *)
(* of the list, or made with a call to Twilio and remembered there for a   *)
(* day.  Sends run at the same time, for several Twilio accounts.          *)
(*                                                                         *)
(* A list is what buildMessage makes of a request: one section, rows that  *)
(* have an ID and a title but no description.                              *)
(*                                                                         *)
(* A send makes at most one template, so the template's SID is the send    *)
(* that made it.  Redis is nil for a provider built without it.            *)
(***************************************************************************)
EXTENDS Naturals

CONSTANTS
  Sends,
  Accounts,       \* account SIDs (Integration.VerifyToken)
  Lists,          \* list messages: records of title, footer, body, button, rows
  NoSid,
  NoList,         \* a message that has no list: a text
  NoTemplate,
  Nothing         \* what is past the limit in a text that fits

\* truncate: a text is what fits in a limit of WhatsApp and what is beyond it.
Truncate(text) == [fits |-> text.fits, beyond |-> Nothing]

\* The twilio/list-picker made of a list: its body, its button and its rows cut
\* to the limits, in their order.  The title and the footer have no place in it.
Rendering(list) ==
  [body   |-> list.body,
   button |-> Truncate(list.button),
   items  |-> [i \in DOMAIN list.rows |->
                 [item |-> Truncate(list.rows[i].title), id |-> list.rows[i].id]]]

ASSUME SentinelAssumption ==
  /\ NoSid \notin Sends
  /\ NoList \notin Lists
  /\ NoTemplate \notin {Rendering(l) : l \in Lists}

\* What is sent, and with the credentials of which account.
Ask == [account : Accounts, list : Lists \cup {NoList}]

VARIABLES
  wired,      \* whether the provider has a Redis client; never changes
  ask,        \* the message of each send; never changes
  pc,         \* where each send is
  sid,        \* the content SID each send has come to
  cache,      \* the keys twilio:content:<hash> in Redis
  creating,   \* sends whose Content API call Twilio has not served yet
  template,   \* what is in each template Twilio has made (ghost once removed)
  held,       \* templates Twilio still has
  taken,      \* sends whose message Twilio took
  cold        \* lists whose key was lost or not read: a fault, the TTL (ghost)

vars == <<wired, ask, pc, sid, cache, creating, template, held, taken, cold>>

Busy == {"get", "create", "set", "post"}
Made(t) == template[t] # NoTemplate

TypeOK ==
  /\ wired \in BOOLEAN
  /\ ask \in [Sends -> Ask]
  /\ pc \in [Sends -> Busy \cup {"idle", "done", "failed"}]
  /\ sid \in [Sends -> Sends \cup {NoSid}]
  /\ cache \in [Lists -> Sends \cup {NoSid}]
  /\ creating \subseteq Sends
  /\ template \in [Sends -> {Rendering(l) : l \in Lists} \cup {NoTemplate}]
  /\ held \subseteq {t \in Sends : Made(t)}
  /\ taken \subseteq Sends
  /\ cold \subseteq Lists

Init ==
  /\ wired \in BOOLEAN
  /\ ask \in [Sends -> Ask]
  /\ pc = [s \in Sends |-> "idle"]
  /\ sid = [s \in Sends |-> NoSid]
  /\ cache = [l \in Lists |-> NoSid]
  /\ creating = {}
  /\ template = [s \in Sends |-> NoTemplate]
  /\ held = {}
  /\ taken = {}
  /\ cold = IF wired THEN {} ELSE Lists

-----------------------------------------------------------------------------
GoTo(s, label) == pc' = [pc EXCEPT ![s] = label]
Given == <<wired, ask>>
Twilio == <<creating, template, held>>

\* Faulty variant: the name of the template, not its content, as the key.
CacheKeyShared(s) == CHOOSE l \in Lists : TRUE

\* hashListMessage: two lists share a key only if they are the same.
CacheKey(s) == ask[s].list

(* Faulty variants of steps below, one plausible mistake each, that the    *)
(* properties are tested against.  Next uses none of them.                 *)

\* The new SID not remembered.
CacheSetForgotten(s) ==
  /\ pc[s] = "set"
  /\ GoTo(s, "post")
  /\ UNCHANGED <<Given, sid, cache, Twilio, taken, cold>>

\* The friendly name of the template taken for its SID.
CreateOkByName(s) ==
  /\ pc[s] = "create"
  /\ Made(s)
  /\ sid' = [sid EXCEPT ![s] = ask[s].list]
  /\ GoTo(s, IF wired THEN "set" ELSE "post")
  /\ UNCHANGED <<Given, cache, Twilio, taken, cold>>

\* No timeout on the client of the Content API.
CreateFailedNoTimeout(s) ==
  /\ pc[s] = "create"
  /\ s \notin creating /\ ~Made(s)
  /\ GoTo(s, "failed")
  /\ UNCHANGED <<Given, sid, cache, Twilio, taken, cold>>

-----------------------------------------------------------------------------
\* SendMessage has read the integration: a text goes out at once.
Begin(s) ==
  /\ pc[s] = "idle"
  /\ GoTo(s, IF ask[s].list = NoList THEN "post" ELSE "get")
  /\ UNCHANGED <<Given, sid, cache, Twilio, taken, cold>>

\* redis.Get finds a SID.
CacheHit(s) ==
  /\ pc[s] = "get" /\ wired
  /\ cache[CacheKey(s)] # NoSid
  /\ sid' = [sid EXCEPT ![s] = cache[CacheKey(s)]]
  /\ GoTo(s, "post")
  /\ UNCHANGED <<Given, cache, Twilio, taken, cold>>

\* redis.Get finds none, fails, or is not called: a template is asked for.
CacheMiss(s) ==
  /\ pc[s] = "get"
  /\ cold' = IF cache[CacheKey(s)] = NoSid THEN cold ELSE cold \cup {CacheKey(s)}
  /\ GoTo(s, "create")
  /\ creating' = creating \cup {s}
  /\ UNCHANGED <<Given, sid, cache, template, held, taken>>

\* Twilio makes the template, maybe after the gateway gave up.
TwilioCreates(s) ==
  /\ s \in creating
  /\ creating' = creating \ {s}
  /\ template' = [template EXCEPT ![s] = Rendering(ask[s].list)]
  /\ held' = held \cup {s}
  /\ UNCHANGED <<Given, pc, sid, cache, taken, cold>>

\* A 2xx answer with a SID.
CreateOk(s) ==
  /\ pc[s] = "create"
  /\ Made(s)
  /\ sid' = [sid EXCEPT ![s] = s]
  /\ GoTo(s, IF wired THEN "set" ELSE "post")
  /\ UNCHANGED <<Given, cache, Twilio, taken, cold>>

\* A refusal, an answer that does not parse, or the 10 s timeout of the HTTP
\* client: Twilio may have made the template, or may still make it.
CreateFailed(s) ==
  /\ pc[s] = "create"
  /\ GoTo(s, "failed")
  /\ \/ creating' = creating \ {s}
     \/ UNCHANGED creating
  /\ UNCHANGED <<Given, sid, cache, template, held, taken, cold>>

\* redis.Set, whose error is dropped.
CacheSet(s) ==
  /\ pc[s] = "set"
  /\ GoTo(s, "post")
  /\ \/ cache' = [cache EXCEPT ![CacheKey(s)] = sid[s]] /\ UNCHANGED cold
     \/ cold' = cold \cup {CacheKey(s)} /\ UNCHANGED cache
  /\ UNCHANGED <<Given, sid, Twilio, taken>>

\* Twilio takes a text, or a template that the account still has.
Usable(s) ==
  ask[s].list # NoList => sid[s] \in held /\ ask[sid[s]].account = ask[s].account

\* The call of the messages API; a call that fails may have had its effect.
Post(s) ==
  /\ pc[s] = "post"
  /\ \/ Usable(s) /\ taken' = taken \cup {s} /\ (GoTo(s, "done") \/ GoTo(s, "failed"))
     \/ GoTo(s, "failed") /\ UNCHANGED taken
  /\ UNCHANGED <<Given, sid, cache, Twilio, cold>>

\* The TTL of 24 h that redis.Set gives the key.
Expire(l) ==
  /\ cache[l] # NoSid
  /\ cache' = [cache EXCEPT ![l] = NoSid]
  /\ cold' = cold \cup {l}
  /\ UNCHANGED <<Given, pc, sid, Twilio, taken>>

\* Somebody removes a template in the console of Twilio.
RemoveTemplate(t) ==
  /\ t \in held
  /\ held' = held \ {t}
  /\ UNCHANGED <<Given, pc, sid, cache, creating, template, taken, cold>>

Step(s) ==
  \/ CacheHit(s)
  \/ CacheMiss(s)
  \/ CreateOk(s)
  \/ CreateFailed(s)
  \/ CacheSet(s)
  \/ Post(s)

\* Every send was answered: the model, like the server, may rest.
Next ==
  \/ \E s \in Sends : Begin(s) \/ Step(s) \/ TwilioCreates(s) \/ RemoveTemplate(s)
  \/ \E l \in Lists : Expire(l)

Spec == Init /\ [][Next]_vars

\* Every call ends, by the timeouts of the clients.
FairSpec == Spec /\ \A s \in Sends : WF_vars(Step(s))

-----------------------------------------------------------------------------
\* A template says what a list says, up to the limits of WhatsApp: the body, the
\* button, and under each label the ID that the consumer gave with it.  Nothing is
\* claimed of title and footer, which Rendering drops, nor of whose account the
\* template is in: the keys of the cache have no account.
Says(content, list) ==
  /\ content.body = list.body
  /\ content.button.fits = list.button.fits
  /\ DOMAIN content.items = DOMAIN list.rows
  /\ \A i \in DOMAIN list.rows :
       content.items[i].id = list.rows[i].id /\ content.items[i].item.fits = list.rows[i].title.fits

\* A customer reads and taps what was asked for (getOrCreateContentTemplate:
\* "keyed by a hash of the list's content"): a message went out with a template
\* that says what its own list says, whichever send made it, and so does the
\* template a key of Redis leads to.
RightContent ==
  /\ \A s \in taken : ask[s].list # NoList =>
       sid[s] # NoSid /\ Made(sid[s]) /\ Says(template[sid[s]], ask[s].list)
  /\ \A l \in Lists : cache[l] # NoSid => Made(cache[l]) /\ Says(template[cache[l]], l)

\* A template is made again only by sends that overlap, or after its key was
\* lost: once a send is past redis.Set, later ones of the same list reuse it.
NewTemplateNeeded ==
  \A s \in creating' \ creating : \A t \in Sends :
    (pc[t] \in {"post", "done"} /\ sid[t] = t /\ ask[t].list = ask[s].list)
      => ask[s].list \in cold'

ReusedWhenCached == [][NewTemplateNeeded]_vars

\* The two calls in a row and the cache never hold a send up for ever.
EverySendEnds == \A s \in Sends : pc[s] \in Busy ~> pc[s] \in {"done", "failed"}
=============================================================================
