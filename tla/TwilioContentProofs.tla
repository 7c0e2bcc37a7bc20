------------------------- MODULE TwilioContentProofs -------------------------
(***************************************************************************)
(* Proofs about TwilioContent, for every set of sends, accounts and lists, *)
(* with or without a Redis, whatever it forgets and whatever Twilio loses. *)
(***************************************************************************)
EXTENDS TwilioContent, TLAPS

\* A template some send made of its list.
MadeOf(t, l) == t \in Sends /\ Made(t) /\ ask[t].list = l

\* A SID a send has come to is that of a template of its list, and it has one
\* before it is stored or goes out.
SidInv(s) ==
  /\ sid[s] # NoSid => MadeOf(sid[s], ask[s].list)
  /\ pc[s] \in {"get", "create", "set"} => ask[s].list # NoList
  /\ pc[s] = "set" => sid[s] # NoSid
  /\ s \in creating => ask[s].list # NoList
  /\ s \in taken /\ ask[s].list # NoList => sid[s] # NoSid

\* Twilio made of every list what its request told.
TemplateInv(t) == Made(t) => template[t] = Rendering(ask[t].list)

\* Redis holds under a list only templates of that list.
CacheInv(l) == cache[l] # NoSid => MadeOf(cache[l], l)

\* A send that is past redis.Set with its own template has left it in Redis,
\* unless the key was lost.
WarmInv(t) ==
  (pc[t] \in {"post", "done"} /\ sid[t] = t /\ ask[t].list # NoList) =>
    cache[ask[t].list] # NoSid \/ ask[t].list \in cold

IInv ==
  /\ TypeOK
  /\ ~wired => cold = Lists
  /\ \A s \in Sends : SidInv(s) /\ WarmInv(s) /\ TemplateInv(s)
  /\ \A l \in Lists : CacheInv(l)

-----------------------------------------------------------------------------
USE SentinelAssumption DEF GoTo, Given, Twilio, CacheKey

\* What a send asks is a list, or nothing that is looked up.
LEMMA AskType ==
  ASSUME TypeOK, NEW s \in Sends
  PROVE  ask[s].account \in Accounts /\ ask[s].list \in Lists \cup {NoList}
  BY DEF TypeOK, Ask

LEMMA InitInv == Init => IInv
<1> SUFFICES ASSUME Init PROVE IInv
  OBVIOUS
<1>1. TypeOK
  BY DEF Init, TypeOK
<1>2. ASSUME NEW s \in Sends PROVE SidInv(s) /\ WarmInv(s) /\ TemplateInv(s)
  BY DEF Init, SidInv, WarmInv, TemplateInv, Made
<1>3. ASSUME NEW l \in Lists PROVE CacheInv(l)
  BY DEF Init, CacheInv
<1>4. QED BY <1>1, <1>2, <1>3 DEF Init, IInv

LEMMA BeginInv ==
  ASSUME IInv, NEW s \in Sends, Begin(s)
  PROVE  IInv'
<1>1. TypeOK'
  BY DEF IInv, TypeOK, Begin, Busy, Made
<1>2. ASSUME NEW q \in Sends PROVE SidInv(q)' /\ WarmInv(q)' /\ TemplateInv(q)'
  <2>1. SidInv(q)'
    BY DEF IInv, TypeOK, Begin, SidInv, MadeOf, Made
  <2>2. WarmInv(q)'
    BY DEF IInv, TypeOK, Begin, SidInv, WarmInv
  <2>3. TemplateInv(q)'
    BY DEF IInv, Begin, TemplateInv, Made
  <2>4. QED BY <2>1, <2>2, <2>3
<1>3. ASSUME NEW l \in Lists PROVE CacheInv(l)'
  BY DEF IInv, Begin, CacheInv, MadeOf, Made
<1>4. QED BY <1>1, <1>2, <1>3 DEF IInv, Begin

LEMMA CacheHitInv ==
  ASSUME IInv, NEW s \in Sends, CacheHit(s)
  PROVE  IInv'
<1>0. ask[s].list \in Lists /\ cache[ask[s].list] # NoSid
  BY AskType DEF IInv, CacheHit, SidInv
<1>1. TypeOK'
  BY <1>0 DEF IInv, TypeOK, CacheHit, Busy, Made
<1>2. ASSUME NEW q \in Sends PROVE SidInv(q)' /\ WarmInv(q)' /\ TemplateInv(q)'
  <2>1. SidInv(q)'
    BY <1>0 DEF IInv, TypeOK, CacheHit, SidInv, CacheInv, MadeOf, Made
  <2>2. WarmInv(q)'
    BY <1>0 DEF IInv, TypeOK, CacheHit, WarmInv
  <2>3. TemplateInv(q)'
    BY DEF IInv, CacheHit, TemplateInv, Made
  <2>4. QED BY <2>1, <2>2, <2>3
<1>3. ASSUME NEW l \in Lists PROVE CacheInv(l)'
  BY DEF IInv, CacheHit, CacheInv, MadeOf, Made
<1>4. QED BY <1>1, <1>2, <1>3 DEF IInv, CacheHit

LEMMA CacheMissInv ==
  ASSUME IInv, NEW s \in Sends, CacheMiss(s)
  PROVE  IInv'
<1>0. ask[s].list \in Lists
  BY AskType DEF IInv, CacheMiss, SidInv
<1>1. TypeOK'
  BY <1>0 DEF IInv, TypeOK, CacheMiss, Busy, Made
<1>2. ASSUME NEW q \in Sends PROVE SidInv(q)' /\ WarmInv(q)' /\ TemplateInv(q)'
  <2>1. SidInv(q)'
    BY <1>0 DEF IInv, TypeOK, CacheMiss, SidInv, MadeOf, Made
  <2>2. WarmInv(q)'
    BY <1>0 DEF IInv, TypeOK, CacheMiss, WarmInv
  <2>3. TemplateInv(q)'
    BY DEF IInv, CacheMiss, TemplateInv, Made
  <2>4. QED BY <2>1, <2>2, <2>3
<1>3. ASSUME NEW l \in Lists PROVE CacheInv(l)'
  BY DEF IInv, CacheMiss, CacheInv, MadeOf, Made
<1>4. ~wired' => cold' = Lists
  BY <1>0 DEF IInv, CacheMiss
<1>5. QED BY <1>1, <1>2, <1>3, <1>4 DEF IInv

LEMMA TwilioCreatesInv ==
  ASSUME IInv, NEW s \in Sends, TwilioCreates(s)
  PROVE  IInv'
<1>0. ask[s].list \in Lists
  BY AskType DEF IInv, TwilioCreates, SidInv
<1>a. /\ template' \in [Sends -> {Rendering(l) : l \in Lists} \cup {NoTemplate}]
      /\ template'[s] = Rendering(ask[s].list) /\ Made(s)'
      /\ \A t \in Sends : Made(t) => Made(t)'
      /\ \A t \in Sends : t # s => template'[t] = template[t]
  BY <1>0 DEF IInv, TypeOK, TwilioCreates, Made
<1>1. TypeOK'
  BY <1>a DEF IInv, TypeOK, TwilioCreates
<1>2. ASSUME NEW q \in Sends PROVE SidInv(q)' /\ WarmInv(q)' /\ TemplateInv(q)'
  <2>1. SidInv(q)'
    BY <1>a DEF IInv, TwilioCreates, SidInv, MadeOf, Made
  <2>2. WarmInv(q)'
    BY DEF IInv, TwilioCreates, WarmInv
  <2>3. TemplateInv(q)'
    BY <1>a DEF IInv, TwilioCreates, TemplateInv, Made
  <2>4. QED BY <2>1, <2>2, <2>3
<1>3. ASSUME NEW l \in Lists PROVE CacheInv(l)'
  BY <1>a DEF IInv, TwilioCreates, CacheInv, MadeOf, Made
<1>4. QED BY <1>1, <1>2, <1>3 DEF IInv, TwilioCreates

LEMMA CreateOkInv ==
  ASSUME IInv, NEW s \in Sends, CreateOk(s)
  PROVE  IInv'
<1>0. ask[s].list \in Lists
  BY AskType DEF IInv, CreateOk, SidInv
<1>1. TypeOK'
  BY DEF IInv, TypeOK, CreateOk, Busy, Made
<1>2. ASSUME NEW q \in Sends PROVE SidInv(q)' /\ WarmInv(q)' /\ TemplateInv(q)'
  <2>1. SidInv(q)'
    BY <1>0 DEF IInv, TypeOK, CreateOk, SidInv, MadeOf, Made
  <2>2. WarmInv(q)'
    BY <1>0 DEF IInv, TypeOK, CreateOk, WarmInv
  <2>3. TemplateInv(q)'
    BY DEF IInv, CreateOk, TemplateInv, Made
  <2>4. QED BY <2>1, <2>2, <2>3
<1>3. ASSUME NEW l \in Lists PROVE CacheInv(l)'
  BY DEF IInv, CreateOk, CacheInv, MadeOf, Made
<1>4. QED BY <1>1, <1>2, <1>3 DEF IInv, CreateOk

LEMMA CreateFailedInv ==
  ASSUME IInv, NEW s \in Sends, CreateFailed(s)
  PROVE  IInv'
<1>1. TypeOK'
  BY DEF IInv, TypeOK, CreateFailed, Busy, Made
<1>2. ASSUME NEW q \in Sends PROVE SidInv(q)' /\ WarmInv(q)' /\ TemplateInv(q)'
  BY DEF IInv, TypeOK, CreateFailed, SidInv, WarmInv, TemplateInv, MadeOf, Made
<1>3. ASSUME NEW l \in Lists PROVE CacheInv(l)'
  BY DEF IInv, CreateFailed, CacheInv, MadeOf, Made
<1>4. QED BY <1>1, <1>2, <1>3 DEF IInv, CreateFailed

LEMMA CacheSetInv ==
  ASSUME IInv, NEW s \in Sends, CacheSet(s)
  PROVE  IInv'
<1>0. ask[s].list \in Lists /\ sid[s] # NoSid /\ MadeOf(sid[s], ask[s].list)
  BY AskType DEF IInv, CacheSet, SidInv
<1>1. TypeOK'
  BY <1>0 DEF IInv, TypeOK, CacheSet, Busy, Made
<1>2. ASSUME NEW q \in Sends PROVE SidInv(q)' /\ WarmInv(q)' /\ TemplateInv(q)'
  <2>1. SidInv(q)'
    BY DEF IInv, TypeOK, CacheSet, SidInv, MadeOf, Made
  <2>2. WarmInv(q)'
    BY <1>0, AskType DEF IInv, TypeOK, CacheSet, WarmInv
  <2>3. TemplateInv(q)'
    BY DEF IInv, CacheSet, TemplateInv, Made
  <2>4. QED BY <2>1, <2>2, <2>3
<1>3. ASSUME NEW l \in Lists PROVE CacheInv(l)'
  BY <1>0 DEF IInv, TypeOK, CacheSet, CacheInv, MadeOf, Made
<1>4. ~wired' => cold' = Lists
  BY <1>0 DEF IInv, CacheSet
<1>5. QED BY <1>1, <1>2, <1>3, <1>4 DEF IInv

LEMMA PostInv ==
  ASSUME IInv, NEW s \in Sends, Post(s)
  PROVE  IInv'
<1>0. ASSUME Usable(s), ask[s].list # NoList PROVE sid[s] # NoSid
  BY <1>0 DEF IInv, TypeOK, Usable
<1>1. TypeOK'
  BY DEF IInv, TypeOK, Post, Busy, Made
<1>2. ASSUME NEW q \in Sends PROVE SidInv(q)' /\ WarmInv(q)' /\ TemplateInv(q)'
  <2>1. SidInv(q)'
    BY <1>0 DEF IInv, TypeOK, Post, SidInv, MadeOf, Made
  <2>2. WarmInv(q)'
    BY DEF IInv, TypeOK, Post, WarmInv
  <2>3. TemplateInv(q)'
    BY DEF IInv, Post, TemplateInv, Made
  <2>4. QED BY <2>1, <2>2, <2>3
<1>3. ASSUME NEW l \in Lists PROVE CacheInv(l)'
  BY DEF IInv, Post, CacheInv, MadeOf, Made
<1>4. QED BY <1>1, <1>2, <1>3 DEF IInv, Post

LEMMA ExpireInv ==
  ASSUME IInv, NEW k \in Lists, Expire(k)
  PROVE  IInv'
<1>1. TypeOK'
  BY DEF IInv, TypeOK, Expire, Made
<1>2. ASSUME NEW q \in Sends PROVE SidInv(q)' /\ WarmInv(q)' /\ TemplateInv(q)'
  <2>1. SidInv(q)'
    BY DEF IInv, Expire, SidInv, MadeOf, Made
  <2>2. WarmInv(q)'
    BY AskType DEF IInv, TypeOK, Expire, WarmInv
  <2>3. TemplateInv(q)'
    BY DEF IInv, Expire, TemplateInv, Made
  <2>4. QED BY <2>1, <2>2, <2>3
<1>3. ASSUME NEW l \in Lists PROVE CacheInv(l)'
  BY DEF IInv, TypeOK, Expire, CacheInv, MadeOf, Made
<1>4. QED BY <1>1, <1>2, <1>3 DEF IInv, Expire

LEMMA RemoveTemplateInv ==
  ASSUME IInv, NEW t \in Sends, RemoveTemplate(t)
  PROVE  IInv'
<1>1. TypeOK'
  BY DEF IInv, TypeOK, RemoveTemplate, Made
<1>2. ASSUME NEW q \in Sends PROVE SidInv(q)' /\ WarmInv(q)' /\ TemplateInv(q)'
  BY DEF IInv, RemoveTemplate, SidInv, WarmInv, TemplateInv, MadeOf, Made
<1>3. ASSUME NEW l \in Lists PROVE CacheInv(l)'
  BY DEF IInv, RemoveTemplate, CacheInv, MadeOf, Made
<1>4. QED BY <1>1, <1>2, <1>3 DEF IInv, RemoveTemplate

LEMMA NextInv == IInv /\ [Next]_vars => IInv'
<1> SUFFICES ASSUME IInv, [Next]_vars PROVE IInv'
  OBVIOUS
<1>1. ASSUME NEW s \in Sends, Begin(s) \/ Step(s) \/ TwilioCreates(s) \/ RemoveTemplate(s)
      PROVE  IInv'
  BY <1>1, BeginInv, CacheHitInv, CacheMissInv, TwilioCreatesInv, CreateOkInv,
     CreateFailedInv, CacheSetInv, PostInv, RemoveTemplateInv DEF Step
<1>2. ASSUME NEW l \in Lists, Expire(l) PROVE IInv'
  BY <1>2, ExpireInv
<1>3. CASE UNCHANGED vars
  BY <1>3 DEF vars, IInv, TypeOK, SidInv, WarmInv, CacheInv, TemplateInv, MadeOf, Made
<1>4. QED BY <1>1, <1>2, <1>3 DEF Next

\* The inductive invariant holds, with however many sends at once.
THEOREM Invariance == Spec => []IInv
<1>1. QED BY InitInv, NextInv, PTL DEF Spec

\* Every variable keeps its type: above all, what is in Redis is a SID.
THEOREM TypeCorrect == Spec => []TypeOK
<1>1. IInv => TypeOK
  BY DEF IInv
<1>2. QED BY <1>1, Invariance, PTL

\* The template made of a list says what the list says, whatever the lists.
LEMMA RenderingSays ==
  ASSUME NEW l
  PROVE  Says(Rendering(l), l)
  BY DEF Says, Rendering, Truncate

\* What a customer gets says what was asked, up to the limits: whichever send made
\* a template and however its SID came to another, through Redis or not, it is
\* the rendering of the same list (getOrCreateContentTemplate, "keyed by a hash
\* of the list's content").
THEOREM ContentIsRight == Spec => []RightContent
<1>1. IInv => RightContent
  <2> SUFFICES ASSUME IInv PROVE RightContent
    OBVIOUS
  <2>1. ASSUME NEW t \in Sends, NEW l, MadeOf(t, l)
        PROVE  Made(t) /\ Says(template[t], l)
    BY <2>1, RenderingSays DEF IInv, TemplateInv, MadeOf
  <2>2. ASSUME NEW s \in taken, ask[s].list # NoList
        PROVE  sid[s] # NoSid /\ Made(sid[s]) /\ Says(template[sid[s]], ask[s].list)
    <3>1. s \in Sends
      BY DEF IInv, TypeOK
    <3>2. sid[s] # NoSid /\ MadeOf(sid[s], ask[s].list)
      BY <2>2, <3>1 DEF IInv, SidInv
    <3>3. QED BY <2>1, <3>2 DEF MadeOf
  <2>3. ASSUME NEW l \in Lists, cache[l] # NoSid
        PROVE  Made(cache[l]) /\ Says(template[cache[l]], l)
    <3>1. MadeOf(cache[l], l)
      BY <2>3 DEF IInv, CacheInv
    <3>2. QED BY <2>1, <3>1 DEF MadeOf
  <2>4. QED BY <2>2, <2>3 DEF RightContent
<1>2. QED BY <1>1, Invariance, PTL

\* Once a send is past redis.Set, no other makes a template of its list, as
\* long as Redis keeps the key and answers.
THEOREM TemplatesAreReused == Spec => ReusedWhenCached
<1>1. IInv /\ [Next]_vars => [NewTemplateNeeded]_vars
  <2> SUFFICES ASSUME IInv, [Next]_vars PROVE NewTemplateNeeded
    OBVIOUS
  <2> SUFFICES ASSUME NEW s \in creating' \ creating, NEW t \in Sends,
                      pc[t] \in {"post", "done"}, sid[t] = t, ask[t].list = ask[s].list
               PROVE  ask[s].list \in cold'
    BY DEF NewTemplateNeeded
  <2>1. s \in Sends /\ CacheMiss(s)
    BY DEF Next, Step, vars, Begin, CacheHit, CacheMiss, TwilioCreates, CreateOk,
       CreateFailed, CacheSet, Post, Expire, RemoveTemplate
  <2>2. ask[s].list # NoList /\ WarmInv(t)
    BY <2>1 DEF IInv, CacheMiss, SidInv
  <2>3. QED BY <2>1, <2>2 DEF CacheMiss, WarmInv
<1>2. QED BY <1>1, Invariance, PTL DEF Spec, ReusedWhenCached
=============================================================================
