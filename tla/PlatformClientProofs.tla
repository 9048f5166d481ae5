------------------------- MODULE PlatformClientProofs -------------------------
(***************************************************************************)
(* The client of the platform, for any number of loops and of requests     *)
(* alive at once: its calls implement ReportDelivery, and the token cache  *)
(* keeps what it promises.                                                 *)
(***************************************************************************)
EXTENDS PlatformClient, TLAPS

Requests == [kind : {"free", "call", "login", "refresh"},
             stage : {"started", "looked up", "sent", "answered"},
             tok : Tokens \cup {Missing}, ans : Answers]

\* main() logs in before it starts the loops, and its request is the only one.
MainFirst ==
    /\ pc[Main] \in {"login", "sleep"}
    /\ pc[Main] = "login" => /\ \A l \in Loops : pc[l] = "boot"
                             /\ \A s \in Slots \ {cur[Main]} : req[s] = Free

\* Who makes a cache still wants one: what it waits with cannot go away.
CreatorsWant == \A g \in creating : WantsCache(g)

\* Only a request that is over has been answered.
AnswersCome == \A r \in Slots : req[r].ans # "none" => req[r].stage = "answered"

\* All that is about callers and requests.
CallsInv == WaitsForItsOwn /\ MainFirst /\ CreatorsWant /\ AnswersCome

IInv == TypesOK /\ CallsInv /\ (~ca => cached = Missing)
------------------------------------------------------------------------------
USE SlotsAssumption, CallersAssumption, GoroutinesAssumption, IssueAssumption
    DEF NoSlot, NoToken, Missing, Callers

LEMMA TokenRange ==
    /\ 0 \in Tokens
    /\ \A t \in Tokens : t < MaxIssue => t + 1 \in Tokens
BY DEF Tokens

USE TokenRange

\* Creators that want a cache run.
LEMMA CreatorsWantRun == IInv => TypeOK
<1> SUFFICES ASSUME IInv PROVE CreatorsRun
  BY DEF IInv, CallsInv, TypeOK
<1>1. ASSUME NEW r \in creating \cap Slots
      PROVE  req[r] # Free
  <2>1. req[r].kind \in {"call", "refresh", "login"}
    BY <1>1 DEF IInv, CallsInv, CreatorsWant, WantsCache
  <2> QED BY <2>1 DEF Free
<1>2. ASSUME NEW c \in creating \cap Callers
      PROVE  chan[c] = "body"
  BY <1>2 DEF IInv, CallsInv, CreatorsWant, WantsCache
<1> QED BY <1>1, <1>2 DEF IInv, CreatorsRun

LEMMA RequestTypes ==
    /\ Free \in Requests
    /\ \A kind \in {"call", "login", "refresh"} : NewRequest(kind) \in Requests
BY DEF Free, NewRequest, Requests, Answers

\* The state the program starts in, once its main() has made the request r.
Started(r) == /\ pc = Starts.pc /\ chan = Starts.chan /\ told = Starts.told
              /\ cur = Starts.cur[r] /\ req = Starts.req[r]
              /\ ca = FALSE /\ creating = {} /\ cached = Missing /\ token = NoToken

LEMMA StartedParts ==
    ASSUME NEW r \in Slots, Started(r)
    PROVE  /\ pc = [c \in Callers |-> IF c = Main THEN "login" ELSE "boot"]
           /\ cur = [c \in Callers |-> IF c = Main THEN r ELSE NoSlot]
           /\ req = [s \in Slots |-> IF s = r THEN NewRequest("login") ELSE Free]
           /\ chan = [c \in Callers |-> "empty"]
           /\ told = [l \in Loops |-> "nothing"]
           /\ ca = FALSE /\ creating = {} /\ cached = Missing /\ token = NoToken
BY DEF Started, Starts

LEMMA StartedIInv ==
    ASSUME NEW r \in Slots, Started(r), issued \in Tokens, expired \in Tokens,
           revoked \in Tokens
    PROVE  IInv
<1>1. /\ pc = [c \in Callers |-> IF c = Main THEN "login" ELSE "boot"]
      /\ cur = [c \in Callers |-> IF c = Main THEN r ELSE NoSlot]
      /\ req = [s \in Slots |-> IF s = r THEN NewRequest("login") ELSE Free]
      /\ chan = [c \in Callers |-> "empty"]
      /\ told = [l \in Loops |-> "nothing"]
      /\ ca = FALSE /\ creating = {} /\ cached = Missing /\ token = NoToken
  BY StartedParts
<1>2. req \in [Slots -> Requests]
  BY <1>1, RequestTypes
<1>3. TypesOK
  <2>1. pc \in [Callers -> {"boot", "sleep", "call", "login", "refresh"}]
    BY <1>1
  <2>2. cur \in [Callers -> Slots \cup {NoSlot}]
    BY <1>1
  <2>3. chan \in [Callers -> {"empty", "body"}] /\ told \in [Loops -> {"nothing", "ok", "error"}]
    BY <1>1
  <2>4. req \in [Slots -> [kind : {"free", "call", "login", "refresh"},
                                 stage : {"started", "looked up", "sent",
                                          "answered"},
                                 tok : Tokens \cup {Missing}, ans : Answers]]
    BY <1>2 DEF Requests
  <2>5. ca \in BOOLEAN /\ creating = {} /\ cached = Missing /\ token \in Tokens
    BY <1>1
  <2> QED
    BY <2>1, <2>2, <2>3, <2>4, <2>5 DEF TypesOK
<1>4. WaitsForItsOwn
  BY <1>1 DEF WaitsForItsOwn, Waiting, NewRequest
<1>5. MainFirst
  BY <1>1 DEF MainFirst
<1>6. AnswersCome
  BY <1>1 DEF AnswersCome, NewRequest, Free
<1> QED BY <1>1, <1>3, <1>4, <1>5, <1>6 DEF IInv, CallsInv, CreatorsWant

LEMMA StartedIInvNext ==
    ASSUME NEW r \in Slots, Started(r)', (issued \in Tokens)', (expired \in Tokens)',
           (revoked \in Tokens)'
    PROVE  IInv'
BY StartedIInv, PTL

LEMMA InitIInv == Init => IInv
<1> SUFFICES ASSUME Init PROVE IInv
  OBVIOUS
<1>1. PICK r \in Slots : Started(r)
  BY DEF Init, Started
<1>2. issued \in Tokens /\ expired \in Tokens /\ revoked \in Tokens
  BY DEF Init
<1> QED BY <1>1, <1>2, StartedIInv
------------------------------------------------------------------------------
\* The types of callers and requests, as the lemmas below need them.
CallTypes == /\ pc \in [Callers -> {"boot", "sleep", "call", "login", "refresh"}]
             /\ cur \in [Callers -> Slots \cup {NoSlot}]
             /\ chan \in [Callers -> {"empty", "body"}]
             /\ told \in [Loops -> {"nothing", "ok", "error"}]
             /\ req \in [Slots -> Requests]

LEMMA TypesOfCalls == TypesOK => CallTypes
BY DEF TypesOK, CallTypes, Requests

\* A request whose answer has been delivered is not making a cache.
LEMMA DeliveredRests ==
    ASSUME CallTypes, CallsInv, NEW c \in Callers, HasBody(c)
    PROVE  cur[c] \in Slots /\ cur[c] \notin creating
<1>1. cur[c] \in Slots /\ Delivered(cur[c]) /\ req[cur[c]].stage = "answered"
  BY DEF CallTypes, CallsInv, WaitsForItsOwn, HasBody, Waiting, Delivered
<1> QED BY <1>1 DEF CallsInv, CreatorsWant, WantsCache

\* The goroutine of a request, or the platform, takes it on.
LEMMA RequestRuns ==
    ASSUME CallTypes, CallsInv, NEW r \in Slots, NEW q \in Requests,
           req[r].stage # "answered", r \notin creating,
           q.kind = req[r].kind,
           q.ans # "none" => q.stage = "answered",
           req' = [req EXCEPT ![r] = q],
           UNCHANGED <<callerVars, creating>>
    PROVE  CallTypes' /\ CallsInv'
<1> USE DEF CallsInv, CallTypes, callerVars
<1>1. CallTypes'
  OBVIOUS
<1>2. /\ req'[r] = q
      /\ \A s \in Slots \ {r} : req'[s] = req[s]
  OBVIOUS
<1>3. WaitsForItsOwn'
  BY <1>2 DEF WaitsForItsOwn, Waiting
<1>4. MainFirst'
  BY <1>2 DEF MainFirst, Free
<1>5. CreatorsWant'
  <2> SUFFICES ASSUME NEW g \in creating
               PROVE  WantsCache(g)'
    BY DEF CreatorsWant
  <2>1. WantsCache(g) /\ g # r
    BY DEF CreatorsWant
  <2>2. g \in Callers /\ chan[g] = "body" => cur[g] \in Slots \ {r}
    BY DEF WaitsForItsOwn, Waiting
  <2> QED BY <1>2, <2>1, <2>2 DEF WantsCache, Delivered
<1>6. AnswersCome'
  BY <1>2 DEF AnswersCome
<1> QED BY <1>1, <1>3, <1>4, <1>5, <1>6

\* A caller stops waiting.
LEMMA ReturnKeeps ==
    ASSUME CallTypes, CallsInv, NEW c \in Callers, Waiting(c), c \notin creating,
           NEW what \in {"ok", "error"}, Return(c, what), UNCHANGED creating
    PROVE  CallTypes' /\ CallsInv'
<1> USE DEF CallsInv, CallTypes
<1> DEFINE s0 == cur[c]
<1>1. /\ s0 \in Slots
      /\ cur' = [cur EXCEPT ![c] = NoSlot]
      /\ chan' = [chan EXCEPT ![c] = "empty"]
      /\ req' = [req EXCEPT ![s0] = IF chan[c] = "body" THEN Free ELSE @]
  BY DEF Return, Waiting
<1>2. \/ c = Main /\ pc' = [d \in Callers |-> "sleep"] /\ told' = told
      \/ /\ c \in Loops
         /\ pc' = [pc EXCEPT ![c] = "sleep"]
         /\ told' = [told EXCEPT ![c] = what]
  BY DEF Return
<1>3. CallTypes'
  BY <1>1, <1>2, RequestTypes
<1>4. c = Main => \A d \in Callers \ {c} : pc[d] = "boot"
  BY DEF MainFirst, WaitsForItsOwn
<1>5. /\ pc'[c] = "sleep" /\ cur'[c] = NoSlot /\ chan'[c] = "empty"
      /\ \A d \in Callers \ {c} : cur'[d] = cur[d] /\ chan'[d] = chan[d]
      /\ \A d \in Callers \ {c} : \/ pc'[d] = pc[d]
                                  \/ pc[d] = "boot" /\ pc'[d] = "sleep"
  BY <1>1, <1>2, <1>4
<1>6. /\ \A s \in Slots \ {s0} : req'[s] = req[s]
      /\ chan[c] # "body" => req'[s0] = req[s0]
      /\ chan[c] = "body" => req'[s0] = Free
  BY <1>1
<1>7. \A d \in Callers \ {c} : cur[d] # s0
  BY DEF WaitsForItsOwn, Waiting
<1>8. WaitsForItsOwn'
  <2>1. ~Waiting(c)' /\ pc'[c] = "sleep" /\ chan'[c] = "empty"
    BY <1>5 DEF Waiting
  <2>2. ASSUME NEW d \in Callers \ {c}
        PROVE  /\ Waiting(d)' <=> Waiting(d)
               /\ Waiting(d) => pc'[d] = pc[d] /\ req'[cur'[d]] = req[cur[d]]
               /\ ~Waiting(d) => pc'[d] \notin {"call", "login", "refresh"}
    <3>1. cur'[d] = cur[d] /\ (Waiting(d)' <=> Waiting(d))
      BY <1>5 DEF Waiting
    <3>2. Waiting(d) => cur[d] \in Slots \ {s0}
      BY <1>7 DEF Waiting
    <3>3. Waiting(d) <=> pc[d] \in {"call", "login", "refresh"}
      BY DEF WaitsForItsOwn
    <3> QED BY <1>5, <1>6, <3>1, <3>2, <3>3
  <2>3. ASSUME NEW d \in Callers
        PROVE  /\ Waiting(d)' <=> pc'[d] \in {"call", "login", "refresh"}
               /\ Waiting(d)' => req'[cur'[d]].kind = pc'[d]
               /\ chan'[d] = "body" => /\ Waiting(d)'
                                       /\ req'[cur'[d]].stage = "answered"
                                       /\ req'[cur'[d]].ans # "none"
    BY <1>5, <2>1, <2>2 DEF WaitsForItsOwn
  <2>4. ASSUME NEW d \in Callers, NEW e \in Callers \ {d}, Waiting(d)'
        PROVE  cur'[d] # cur'[e]
    BY <1>5, <2>1, <2>2, <2>4 DEF WaitsForItsOwn, Waiting
  <2> QED BY <2>3, <2>4 DEF WaitsForItsOwn
<1>9. MainFirst'
  BY <1>5 DEF MainFirst, WaitsForItsOwn
<1>10. CreatorsWant'
  <2> SUFFICES ASSUME NEW g \in creating
               PROVE  WantsCache(g)'
    BY DEF CreatorsWant
  <2>1. WantsCache(g) /\ g # c
    BY DEF CreatorsWant
  <2>2. chan[c] = "body" => g # s0
    BY DeliveredRests DEF HasBody
  <2>3. g \in Slots => (Delivered(g)' => Delivered(g))
    BY <1>5 DEF Delivered
  <2>4. g \in Slots => req'[g] = req[g]
    BY <1>6, <2>2
  <2>5. g \in Callers /\ chan[g] = "body" => cur[g] \in Slots /\ req'[cur[g]] = req[cur[g]]
    <3> SUFFICES ASSUME g \in Callers, chan[g] = "body"
                 PROVE  cur[g] \in Slots /\ req'[cur[g]] = req[cur[g]]
      OBVIOUS
    <3>1. cur[g] \in Slots \ {s0}
      BY <1>7, <2>1 DEF WaitsForItsOwn, Waiting
    <3> QED BY <1>6, <3>1
  <2> QED BY <1>5, <2>1, <2>3, <2>4, <2>5 DEF WantsCache
<1>11. AnswersCome'
  BY <1>6 DEF AnswersCome, Free
<1> QED BY <1>3, <1>8, <1>9, <1>10, <1>11

\* A refused call goes on as a request for a token.
LEMMA AskKeeps ==
    ASSUME CallTypes, CallsInv, NEW c \in Callers, HasBody(c), pc[c] = "call",
           NEW kind \in {"login", "refresh"}, Ask(c, kind)
    PROVE  CallTypes' /\ CallsInv'
<1> USE DEF CallsInv, CallTypes
<1> DEFINE s0 == cur[c]
<1>1. /\ s0 \in Slots /\ s0 \notin creating
      /\ pc' = [pc EXCEPT ![c] = kind]
      /\ req' = [req EXCEPT ![s0] = NewRequest(kind)]
      /\ chan' = [chan EXCEPT ![c] = "empty"]
      /\ cur' = cur /\ told' = told /\ creating' = creating
  BY DeliveredRests DEF Ask, cacheVars
<1>2. /\ req'[s0].kind = kind /\ req'[s0].ans = "none"
      /\ \A s \in Slots \ {s0} : req'[s] = req[s]
  BY <1>1 DEF NewRequest
<1>3. \A d \in Callers \ {c} : cur[d] # s0 /\ pc'[d] = pc[d] /\ chan'[d] = chan[d]
  BY <1>1 DEF WaitsForItsOwn, HasBody, Waiting
<1>4. CallTypes'
  BY <1>1, RequestTypes
<1>5. WaitsForItsOwn'
  BY <1>1, <1>2, <1>3 DEF WaitsForItsOwn, Waiting
<1>6. MainFirst'
  BY <1>1, <1>3 DEF MainFirst
<1>7. CreatorsWant'
  <2> SUFFICES ASSUME NEW g \in creating
               PROVE  WantsCache(g)'
    BY <1>1 DEF CreatorsWant
  <2>1. WantsCache(g) /\ g # c /\ g # s0
    BY <1>1 DEF CreatorsWant, WantsCache
  <2>2. g \in Slots => (Delivered(g)' => Delivered(g))
    BY <1>1, <1>3 DEF Delivered
  <2>3. g \in Callers /\ chan[g] = "body" => cur[g] \in Slots \ {s0}
    BY <1>3, <2>1 DEF WaitsForItsOwn, Waiting
  <2> QED BY <1>1, <1>2, <1>3, <2>1, <2>2, <2>3 DEF WantsCache
<1>8. AnswersCome'
  BY <1>2 DEF AnswersCome
<1> QED BY <1>4, <1>5, <1>6, <1>7, <1>8

\* A loop makes a call: main() has its answer by then.
LEMMA CallKeeps ==
    ASSUME CallTypes, CallsInv, NEW l \in Loops, Call(l)
    PROVE  CallTypes' /\ CallsInv'
<1> USE DEF CallsInv, CallTypes
<1>1. PICK r \in Slots :
          /\ req[r] = Free
          /\ cur' = [cur EXCEPT ![l] = r]
          /\ req' = [req EXCEPT ![r] = NewRequest("call")]
  BY DEF Call, FreeSlots
<1>2. /\ pc' = [pc EXCEPT ![l] = "call"] /\ pc[l] = "sleep"
      /\ told' = [told EXCEPT ![l] = "nothing"]
      /\ chan' = chan /\ creating' = creating
  BY DEF Call, cacheVars
<1>3. ~Waiting(l) /\ chan[l] # "body"
  BY <1>2 DEF WaitsForItsOwn
<1>4. \A d \in Callers \ {l} : Waiting(d) => cur[d] \in Slots \ {r}
  BY <1>1 DEF WaitsForItsOwn, Waiting, Free
<1>5. /\ req'[r].kind = "call" /\ req'[r].ans = "none"
      /\ \A s \in Slots \ {r} : req'[s] = req[s]
  BY <1>1 DEF NewRequest
<1>6. CallTypes'
  BY <1>1, <1>2, RequestTypes
<1>7. WaitsForItsOwn'
  BY <1>1, <1>2, <1>3, <1>4, <1>5 DEF WaitsForItsOwn, Waiting
<1>8. MainFirst'
  BY <1>1, <1>2 DEF MainFirst
<1>9. CreatorsWant'
  <2> SUFFICES ASSUME NEW g \in creating
               PROVE  WantsCache(g)'
    BY <1>2 DEF CreatorsWant
  <2>1. WantsCache(g) /\ g # l /\ g # r
    BY <1>1, <1>3 DEF CreatorsWant, WantsCache, Free
  <2>2. g \in Slots => (Delivered(g)' => Delivered(g))
    BY <1>1, <1>2, <2>1 DEF Delivered
  <2>3. g \in Callers /\ chan[g] = "body" => cur[g] \in Slots \ {r}
    BY <1>4, <2>1 DEF WaitsForItsOwn
  <2> QED BY <1>1, <1>2, <1>5, <2>1, <2>2, <2>3 DEF WantsCache
<1>10. AnswersCome'
  BY <1>5 DEF AnswersCome
<1> QED BY <1>6, <1>7, <1>8, <1>9, <1>10

\* The goroutine of a request ends: for a caller that waits, or for nobody.
LEMMA DeliverKeeps ==
    ASSUME CallTypes, CallsInv, NEW r \in Slots, Deliver(r)
    PROVE  CallTypes' /\ CallsInv'
<1> USE DEF CallsInv, CallTypes
<1>1. PICK c \in Callers :
          cur[c] = r /\ chan[c] = "empty" /\ chan' = [chan EXCEPT ![c] = "body"]
  BY DEF Deliver
<1>2. /\ req[r].stage = "answered" /\ req[r].ans # "none" /\ r \notin creating
      /\ UNCHANGED <<pc, cur, told, req, creating>>
  BY DEF Deliver, cacheVars
<1>3. CallTypes' /\ MainFirst' /\ AnswersCome'
  BY <1>1, <1>2 DEF MainFirst, AnswersCome
<1>4. WaitsForItsOwn'
  BY <1>1, <1>2 DEF WaitsForItsOwn, Waiting
<1>5. CreatorsWant'
  <2> SUFFICES ASSUME NEW g \in creating
               PROVE  WantsCache(g)'
    BY <1>2 DEF CreatorsWant
  <2>1. WantsCache(g) /\ g # r
    BY <1>2 DEF CreatorsWant
  <2>2. Delivered(g)' => Delivered(g)
    BY <1>1, <1>2, <2>1 DEF Delivered
  <2> QED BY <1>1, <1>2, <2>1, <2>2 DEF WantsCache
<1> QED BY <1>3, <1>4, <1>5

LEMMA ReapKeeps ==
    ASSUME CallTypes, CallsInv, NEW r \in Slots, Reap(r)
    PROVE  CallTypes' /\ CallsInv'
<1> USE DEF CallsInv, CallTypes
<1>1. /\ ~Awaited(r) /\ r \notin creating
      /\ req' = [req EXCEPT ![r] = Free]
      /\ UNCHANGED <<pc, cur, chan, told, creating>>
  BY DEF Reap, callerVars, cacheVars
<1>2. /\ \A s \in Slots \ {r} : req'[s] = req[s]
      /\ req'[r] = Free
      /\ \A c \in Callers : cur[c] # r
  BY <1>1 DEF Awaited
<1>3. CallTypes'
  BY <1>1, RequestTypes
<1>4. WaitsForItsOwn'
  BY <1>1, <1>2 DEF WaitsForItsOwn, Waiting
<1>5. MainFirst'
  BY <1>1, <1>2 DEF MainFirst
<1>6. CreatorsWant'
  <2> SUFFICES ASSUME NEW g \in creating
               PROVE  WantsCache(g)'
    BY <1>1 DEF CreatorsWant
  <2>1. WantsCache(g) /\ g # r
    BY <1>1 DEF CreatorsWant
  <2>2. g \in Callers /\ chan[g] = "body" => cur[g] \in Slots \ {r}
    BY <1>2 DEF WaitsForItsOwn, Waiting
  <2> QED BY <1>1, <1>2, <2>1, <2>2 DEF WantsCache, Delivered
<1>7. AnswersCome'
  BY <1>2 DEF AnswersCome, Free
<1> QED BY <1>3, <1>4, <1>5, <1>6, <1>7
------------------------------------------------------------------------------
\* The rest of the types.
StoreTypes == /\ ca \in BOOLEAN /\ creating \subseteq Slots \cup Callers
              /\ cached \in Tokens \cup {Missing} /\ token \in Tokens
              /\ issued \in Tokens /\ expired \in Tokens /\ revoked \in Tokens
              /\ ~ca => cached = Missing

LEMMA IInvParts == IInv <=> CallTypes /\ CallsInv /\ StoreTypes
BY DEF IInv, TypesOK, CallTypes, StoreTypes, Requests

LEMMA IInvPartsNext == IInv' <=> CallTypes' /\ CallsInv' /\ StoreTypes'
BY IInvParts, PTL

\* A goroutine, or the platform, takes a request on that is not over; who
\* makes a cache at the time does nothing else.
RequestStep(r) == \/ SendLogin(r) \/ LookUpToken(r) \/ SendRequest(r)
                  \/ RequestLost(r) \/ PlatformHandles(r) \/ PlatformFails(r)
                  \/ TokenLeftOut(r)

LEMMA RequestChanges ==
    ASSUME CallTypes, CallsInv, StoreTypes, NEW r \in Slots, RequestStep(r)
    PROVE  /\ req[r].stage # "answered" /\ r \notin creating
           /\ \E q \in Requests : /\ q.kind = req[r].kind
                                  /\ q.ans # "none" => q.stage = "answered"
                                  /\ req' = [req EXCEPT ![r] = q]
           /\ UNCHANGED <<callerVars, ca, creating, cached>>
           /\ token' \in Tokens
           /\ issued' \in Tokens /\ expired' \in Tokens /\ revoked' \in Tokens
<1> DEFINE Changes == \E q \in Requests : /\ q.kind = req[r].kind
                                          /\ q.ans # "none" => q.stage = "answered"
                                          /\ req' = [req EXCEPT ![r] = q]
<1> USE DEF CallTypes, StoreTypes, Requests, cacheVars, tokenVars, platformVars
<1>1. req[r] \in Requests /\ r \in DOMAIN req
  OBVIOUS
<1>2. req[r].ans # "none" => req[r].stage = "answered"
  BY DEF CallsInv, AnswersCome
<1>3. /\ req[r].stage \in {"sent", "looked up"} => r \notin creating
      /\ req[r].kind = "login" /\ req[r].stage # "answered" => r \notin creating
  BY <1>2 DEF CallsInv, CreatorsWant, WantsCache
<1>4. CASE SendLogin(r)
  <2> DEFINE q == [req[r] EXCEPT !.stage = "sent"]
  <2>1. q \in Requests /\ req' = [req EXCEPT ![r] = q]
    BY <1>1, <1>4 DEF SendLogin
  <2> QED BY <1>2, <1>3, <1>4, <2>1 DEF SendLogin
<1>5. CASE LookUpToken(r)
  <2> DEFINE q == [req[r] EXCEPT !.stage = "looked up", !.tok = cached]
  <2>1. q \in Requests /\ req' = [req EXCEPT ![r] = q]
    BY <1>1, <1>5 DEF LookUpToken
  <2> QED BY <1>2, <1>5, <2>1 DEF LookUpToken, HasCache
<1>6. CASE SendRequest(r)
  <2> DEFINE q == [req[r] EXCEPT !.stage = "sent", !.tok = GetCacheToken(@)]
  <2>1. q \in Requests /\ req' = [req EXCEPT ![r] = q] /\ token' \in Tokens
    BY <1>1, <1>6 DEF SendRequest, GetCacheToken
  <2> QED BY <1>2, <1>3, <1>6, <2>1 DEF SendRequest
<1>7. CASE RequestLost(r)
  <2> DEFINE q == [req[r] EXCEPT !.stage = "answered", !.tok = NoToken]
  <2>1. q \in Requests /\ req' = [req EXCEPT ![r] = q]
    BY <1>1, <1>7 DEF RequestLost
  <2> QED BY <1>7, <2>1 DEF RequestLost
<1>8. ASSUME NEW answer \in Answers, NEW tok \in Tokens \cup {Missing},
             Answered(r, answer, tok)
      PROVE  Changes
  <2> DEFINE q == [req[r] EXCEPT !.stage = "answered", !.ans = answer, !.tok = tok]
  <2>1. q \in Requests /\ req' = [req EXCEPT ![r] = q]
    BY <1>1, <1>8 DEF Answered
  <2> QED BY <2>1
<1>9. CASE PlatformHandles(r)
  <2>1. CASE HandleCall(r)
    BY <1>3, <1>8, <1>9, <2>1 DEF PlatformHandles, HandleCall, Answers
  <2>2. CASE HandleTokenRequest(r)
    <3>1. issued' \in Tokens
      <4>1. issued \in Tokens
        OBVIOUS
      <4> QED BY ONLY <2>2, <4>1, TokenRange DEF HandleTokenRequest
    <3> QED
      BY <1>3, <1>8, <1>9, <2>2, <3>1 DEF PlatformHandles, HandleTokenRequest, Answers
  <2> QED BY <1>9, <2>1, <2>2 DEF PlatformHandles
<1>10. CASE PlatformFails(r)
  BY <1>3, <1>8, <1>10 DEF PlatformFails, Answers
<1>11. CASE TokenLeftOut(r)
  BY <1>3, <1>8, <1>11 DEF TokenLeftOut, Answers
<1> QED BY <1>4, <1>5, <1>6, <1>7, <1>9, <1>10, <1>11 DEF RequestStep

LEMMA RequestSteps ==
    ASSUME CallTypes, CallsInv, StoreTypes, NEW r \in Slots, RequestStep(r)
    PROVE  CallTypes' /\ CallsInv' /\ StoreTypes'
BY RequestChanges, RequestRuns DEF StoreTypes

\* A process that ends is followed by one that starts with the request of its
\* main() and nothing else.
LEMMA EndsStarted ==
    ASSUME CallTypes, NEW c \in Callers, ProcessEnds(c)
    PROVE  UNCHANGED platformVars /\ \E r \in Slots : Started(r)'
<1>1. PICK r \in Slots : cur' = Starts.cur[r] /\ req' = Starts.req[r]
  BY DEF ProcessEnds
<1>2. /\ pc' = Starts.pc /\ chan' = Starts.chan /\ told' = Starts.told
      /\ ca' = FALSE /\ creating' = {} /\ cached' = Missing /\ token' = NoToken
      /\ UNCHANGED platformVars
  BY DEF ProcessEnds
<1>3. Started(r)'
  BY <1>1, <1>2 DEF Started, Starts
<1> QED BY <1>2, <1>3

LEMMA CallerSteps ==
    ASSUME CallTypes, CallsInv, StoreTypes, NEW c \in Callers, Timeover(c) \/ Take(c)
    PROVE  CallTypes' /\ CallsInv' /\ StoreTypes'
<1>1. HasBody(c) => cur[c] \in Slots /\ Waiting(c)
  BY DeliveredRests DEF HasBody
<1>2. CASE Timeover(c)
  BY <1>2, ReturnKeeps
  DEF Timeover, Abandon, StoreTypes, cacheVars, tokenVars, platformVars
<1>3. CASE CallSucceeds(c)
  <2>1. c \notin creating
    BY <1>3 DEF CallSucceeds, CallTypes, CallsInv, CreatorsWant, WantsCache
  <2> QED BY <1>1, <1>3, <2>1, ReturnKeeps
          DEF CallSucceeds, StoreTypes, cacheVars, tokenVars, platformVars
<1>4. CASE CallNeedsLogin(c) \/ CallNeedsRefresh(c)
  BY <1>4, AskKeeps DEF CallNeedsLogin, CallNeedsRefresh, Ask, StoreTypes, cacheVars,
     tokenVars, platformVars
<1>5. CASE TokenArrives(c)
  <2>1. cached' \in Tokens
    BY <1>1, <1>5 DEF TokenArrives, CallTypes, Requests
  <2> QED BY <1>1, <1>5, <2>1, ReturnKeeps
          DEF TokenArrives, HasCache, StoreTypes, cacheVars, platformVars
<1>6. CASE AnswerIsError(c)
  <2>1. c \notin creating
    BY <1>6 DEF AnswerIsError, Answer, CallsInv, CreatorsWant, WantsCache
  <2> QED BY <1>1, <1>6, <2>1, ReturnKeeps
          DEF AnswerIsError, StoreTypes, cacheVars, tokenVars, platformVars
<1>7. CASE ProcessEnds(c)
  <2>1. PICK r \in Slots : Started(r)'
    BY <1>7, EndsStarted
  <2>2. (issued \in Tokens /\ expired \in Tokens /\ revoked \in Tokens)'
    BY <1>7, EndsStarted DEF StoreTypes, platformVars
  <2>3. IInv'
    BY <2>1, <2>2, StartedIInvNext
  <2> QED BY <2>3, IInvPartsNext
<1> QED BY <1>2, <1>3, <1>4, <1>5, <1>6, <1>7 DEF Take

\* A cache is made; or only time passes for the tokens.
LEMMA StoreSteps ==
    ASSUME CallTypes, CallsInv, StoreTypes, UNCHANGED <<callerVars, req>>,
           \/ \E g \in Slots \cup Callers : FindsNoCache(g) \/ CreateCache(g)
           \/ CacheExpires \/ TokensExpire \/ TokensRevoked
           \/ UNCHANGED vars
    PROVE  CallTypes' /\ CallsInv' /\ StoreTypes'
<1> USE DEF callerVars
<1>1. CallTypes' /\ WaitsForItsOwn' /\ MainFirst' /\ AnswersCome'
  BY DEF CallTypes, CallsInv, WaitsForItsOwn, Waiting, MainFirst, AnswersCome
<1>2. \A g : WantsCache(g)' <=> WantsCache(g)
  BY DEF WantsCache, Delivered
<1>3. CreatorsWant'
  <2>1. \A g \in creating' : g \in creating \/ WantsCache(g)
    BY DEF FindsNoCache, CreateCache, CacheExpires, TokensExpire, TokensRevoked, vars,
       cacheVars
  <2> QED BY <1>2, <2>1 DEF CreatorsWant, CallsInv
<1>4. StoreTypes'
  BY DEF StoreTypes, FindsNoCache, CreateCache, CacheExpires, TokensExpire,
     TokensRevoked, vars, cacheVars, tokenVars, platformVars
<1> QED BY <1>1, <1>3, <1>4 DEF CallsInv

LEMMA StepIInv == IInv /\ [Next]_vars => IInv'
<1> SUFFICES ASSUME CallTypes, CallsInv, StoreTypes, [Next]_vars
             PROVE  CallTypes' /\ CallsInv' /\ StoreTypes'
  BY IInvParts, PTL
<1>1. ASSUME NEW l \in Loops, Call(l)
      PROVE  CallTypes' /\ CallsInv' /\ StoreTypes'
  BY <1>1, CallKeeps DEF Call, StoreTypes, cacheVars, tokenVars, platformVars
<1>2. ASSUME NEW r \in Slots, Deliver(r) \/ Reap(r)
      PROVE  CallTypes' /\ CallsInv' /\ StoreTypes'
  BY <1>2, DeliverKeeps, ReapKeeps
  DEF Deliver, Reap, StoreTypes, cacheVars, tokenVars, platformVars
<1>3. CASE \/ \E g \in Slots \cup Callers : FindsNoCache(g) \/ CreateCache(g)
           \/ CacheExpires \/ TokensExpire \/ TokensRevoked
           \/ UNCHANGED vars
  <2>1. UNCHANGED <<callerVars, req>>
    BY <1>3 DEF FindsNoCache, CreateCache, CacheExpires, TokensExpire,
       TokensRevoked, vars
  <2> QED BY <1>3, <2>1, StoreSteps
<1> QED BY <1>1, <1>2, <1>3, RequestSteps, CallerSteps DEF Next, RequestStep

LEMMA Invariant == Spec => []IInv
BY InitIInv, StepIInv, PTL DEF Spec
------------------------------------------------------------------------------
\* Types, who waits for what, and who may be making a cache.
THEOREM TypeCorrect == Spec => []TypeOK
BY Invariant, CreatorsWantRun, PTL

\* The caches made without a lock are all made before there is one, and the
\* first login leaves none to be made: its token is not lost with another.
THEOREM NoLateCache == Spec => CacheMadeOnce
<1>1. ASSUME [Next]_vars, ca
      PROVE  creating' \subseteq creating
  BY <1>1 DEF Next, vars, Call, Timeover, Abandon, Take, CallSucceeds, CallNeedsLogin,
     CallNeedsRefresh, TokenArrives, Ask, AnswerIsError, ProcessEnds, SendLogin,
     LookUpToken, SendRequest, PlatformHandles, Deliver, Reap, RequestLost,
     PlatformFails, TokenLeftOut, FindsNoCache, CreateCache, CacheExpires,
     TokensExpire, TokensRevoked, cacheVars
<1>2. ASSUME IInv, TokenArrives(Main)
      PROVE  creating' = {}
  <2>1. CallTypes /\ CallsInv /\ StoreTypes
    BY <1>2, IInvParts
  <2>2. /\ HasBody(Main) /\ Main \notin creating /\ creating' = creating
        /\ pc[Main] = "login"
    BY <1>2, <2>1 DEF TokenArrives, HasCache, cacheVars, CallsInv, MainFirst
  <2>3. cur[Main] \notin creating
    BY <2>1, <2>2, DeliveredRests
  <2>4. ASSUME NEW g \in creating
        PROVE  FALSE
    <3>1. WantsCache(g) /\ g \in Slots \cup Callers
      BY <2>1 DEF CallsInv, CreatorsWant, StoreTypes
    <3>2. CASE g \in Slots
      <4>1. req[g] = Free
        BY <2>1, <2>2, <2>3, <2>4, <3>2 DEF CallsInv, MainFirst
      <4>2. req[g].kind = "free"
        BY <4>1 DEF Free
      <4> QED BY <3>1, <3>2, <4>2 DEF WantsCache
    <3>3. CASE g \in Loops
      BY <2>1, <2>2, <3>1, <3>3 DEF CallsInv, MainFirst, WantsCache
    <3> QED BY <2>2, <3>1, <3>2, <3>3
  <2> QED BY <2>2, <2>4
<1> QED BY <1>1, <1>2, Invariant, PTL DEF Spec, CacheMadeOnce
------------------------------------------------------------------------------
\* What the client stores and sends is what the platform has issued.

\* A token the platform has issued so far, or none.
GenuineRequest(q, newest) == q.tok <= newest

Genuine == /\ cached <= issued /\ token <= issued
           /\ expired <= issued /\ revoked <= issued
           /\ \A r \in Slots : GenuineRequest(req[r], issued)

LEMMA StartedGenuine ==
    ASSUME NEW r \in Slots, Started(r), issued \in Tokens,
           expired <= issued, revoked <= issued
    PROVE  Genuine
<1>1. /\ req = [s \in Slots |-> IF s = r THEN NewRequest("login") ELSE Free]
      /\ cached = Missing /\ token = NoToken
  BY StartedParts
<1>2. -1 <= issued /\ 0 <= issued
  BY DEF Tokens
<1> QED BY <1>1, <1>2 DEF Genuine, GenuineRequest, NewRequest, Free

LEMMA StartedGenuineNext ==
    ASSUME NEW r \in Slots, Started(r)', (issued \in Tokens)',
           (expired <= issued)', (revoked <= issued)'
    PROVE  Genuine'
BY StartedGenuine, PTL

LEMMA InitGenuine == Init => Genuine
<1> SUFFICES ASSUME Init PROVE Genuine
  OBVIOUS
<1>1. PICK r \in Slots : Started(r)
  BY DEF Init, Started
<1> QED BY <1>1, StartedGenuine DEF Init

\* What keeps it: the platform has issued no fewer tokens, the requests that
\* change are genuine, and so is the token in the variable.
LEMMA GenuineKept ==
    ASSUME CallTypes, StoreTypes, Genuine, NEW i \in Tokens, issued' = i, issued <= i,
           NEW t \in Tokens, token' = t, t <= issued,
           NEW r \in Slots, NEW q \in Requests, req' = [req EXCEPT ![r] = q],
           GenuineRequest(q, i), UNCHANGED <<expired, revoked>>
    PROVE  /\ \A s \in Slots : GenuineRequest(req[s], issued)'
           /\ cached' = cached => Genuine'
<1> USE DEF Tokens
<1>1. \A s \in Slots : req[s] \in Requests /\ GenuineRequest(req[s], issued)
  BY DEF CallTypes, Genuine
<1>2. \A s \in Slots : req'[s] = IF s = r THEN q ELSE req[s]
  BY DEF CallTypes
<1>3. ASSUME NEW s \in Slots
      PROVE  GenuineRequest(req'[s], i)
  <2>1. CASE s = r BY <1>2, <2>1
  <2>2. CASE s # r
    <3>1. req[s].tok \in Tokens \cup {Missing}
      BY <1>1 DEF Requests
    <3>2. GenuineRequest(req[s], i)
      BY <1>1, <3>1 DEF StoreTypes, GenuineRequest
    <3> QED BY <1>2, <2>2, <3>2
  <2> QED BY <2>1, <2>2
<1>4. cached <= i /\ t <= i /\ expired <= i /\ revoked <= i
  BY DEF StoreTypes, Genuine
<1> QED BY <1>3, <1>4 DEF Genuine

\* The goroutine of a request and the platform: a request is sent with the
\* token it has found or with the one in the variable, and brings one only
\* from a platform that has issued it.
LEMMA RequestGenuine ==
    ASSUME CallTypes, CallsInv, StoreTypes, Genuine, NEW r \in Slots, RequestStep(r)
    PROVE  Genuine'
<1> USE DEF Tokens, cacheVars, tokenVars, platformVars
<1>1. /\ req[r] \in Requests /\ GenuineRequest(req[r], issued)
      /\ cached \in Tokens \cup {Missing} /\ token \in Tokens /\ issued \in Tokens
      /\ cached <= issued /\ token <= issued
      /\ req[r].stage # "answered" => req[r].ans = "none"
  BY DEF Genuine, CallTypes, StoreTypes, CallsInv, AnswersCome
<1>2. req[r].tok \in Tokens \cup {Missing}
  BY <1>1 DEF Requests
<1>3. ASSUME NEW q \in Requests, GenuineRequest(q, issued), req' = [req EXCEPT ![r] = q],
             NEW t \in Tokens, token' = t, t <= issued,
             UNCHANGED <<cached, platformVars>>
      PROVE  Genuine'
  <2>1. issued <= issued /\ issued' = issued
    BY <1>1, <1>3
  <2> QED BY <1>1, <1>3, <2>1, GenuineKept
<1>4. CASE SendLogin(r)
  <2> DEFINE q == [req[r] EXCEPT !.stage = "sent"]
  <2>1. q \in Requests /\ GenuineRequest(q, issued) /\ req' = [req EXCEPT ![r] = q]
    BY <1>1, <1>4 DEF SendLogin, Requests, GenuineRequest
  <2> HIDE DEF q
  <2> QED BY <1>1, <1>3, <1>4, <2>1 DEF SendLogin
<1>5. CASE LookUpToken(r)
  <2> DEFINE q == [req[r] EXCEPT !.stage = "looked up", !.tok = cached]
  <2>1. q \in Requests /\ GenuineRequest(q, issued) /\ req' = [req EXCEPT ![r] = q]
    BY <1>1, <1>5 DEF LookUpToken, Requests, GenuineRequest
  <2> HIDE DEF q
  <2> QED BY <1>1, <1>3, <1>5, <2>1 DEF LookUpToken
<1>6. CASE SendRequest(r)
  <2> DEFINE t == GetCacheToken(req[r].tok)
             q == [req[r] EXCEPT !.stage = "sent", !.tok = t]
  <2>1. t \in Tokens /\ t <= issued
    BY <1>1, <1>2 DEF GetCacheToken, GenuineRequest
  <2> HIDE DEF t
  <2>2. q \in Requests /\ GenuineRequest(q, issued)
    BY <1>1, <1>6, <2>1 DEF SendRequest, Requests, GenuineRequest
  <2>3. req' = [req EXCEPT ![r] = q] /\ token' = t
    BY <1>6 DEF SendRequest, t, CallTypes
  <2> HIDE DEF q
  <2> QED BY <1>6, <1>3, <2>1, <2>2, <2>3 DEF SendRequest
<1>7. CASE RequestLost(r)
  <2> DEFINE q == [req[r] EXCEPT !.stage = "answered", !.tok = NoToken]
  <2>1. q \in Requests
    BY <1>1, TokenRange DEF Requests
  <2>2. q.tok = NoToken /\ q.ans = "none"
    BY <1>1, <1>7 DEF RequestLost, Requests
  <2>3. GenuineRequest(q, issued)
    BY <1>1, <2>2 DEF GenuineRequest
  <2>4. req' = [req EXCEPT ![r] = q]
    BY <1>7 DEF RequestLost, CallTypes
  <2> HIDE DEF q
  <2> QED BY <1>1, <1>3, <1>7, <2>1, <2>3, <2>4 DEF RequestLost
<1>8. ASSUME NEW answer \in Answers, NEW i \in Tokens, issued' = i, issued <= i,
             NEW tok \in Tokens \cup {Missing}, tok <= i, Answered(r, answer, tok),
             UNCHANGED <<cached, token, expired, revoked>>
      PROVE  Genuine'
  <2> DEFINE q == [req[r] EXCEPT !.stage = "answered", !.ans = answer, !.tok = tok]
  <2>1. q \in Requests /\ GenuineRequest(q, i) /\ req' = [req EXCEPT ![r] = q]
    BY <1>1, <1>8 DEF Answered, Requests, GenuineRequest
  <2> QED BY <1>1, <1>8, <2>1, GenuineKept
<1>9. CASE PlatformFails(r)
  BY <1>1, <1>8, <1>9 DEF PlatformFails, Answers
<1>10. CASE PlatformHandles(r)
  <2>1. CASE HandleCall(r)
    <3>1. \E answer \in {"200", "401", "402"} : Answered(r, answer, NoToken)
      BY <2>1 DEF HandleCall
    <3> QED
      BY <1>1, <1>8, <1>10, <2>1, <3>1 DEF PlatformHandles, HandleCall, Answers
  <2>2. CASE HandleTokenRequest(r)
    <3>1. UNCHANGED <<cached, token, expired, revoked>>
      BY <1>10, <2>2 DEF PlatformHandles, HandleTokenRequest
    <3>2. CASE UNCHANGED issued /\ Answered(r, "other", NoToken)
      <4>1. issued <= issued /\ NoToken <= issued /\ NoToken \in Tokens
        BY <1>1
      <4> QED BY <1>1, <1>8, <3>1, <3>2, <4>1 DEF Answers
    <3>3. CASE /\ \/ issued < MaxIssue /\ issued' = issued + 1
                  \/ issued > revoked /\ issued > expired /\ issued' = issued
               /\ Answered(r, "200", issued')
      <4>1. PICK i \in Tokens : i = issued' /\ issued <= i
        <5>1. revoked \in Tokens
          BY DEF StoreTypes
        <5> QED BY <1>1, <3>3, <5>1
      <4>2. i <= i
        OBVIOUS
      <4> QED BY <1>1, <1>8, <3>1, <3>3, <4>1, <4>2 DEF Answers
    <3> QED BY <2>2, <3>2, <3>3 DEF HandleTokenRequest
  <2> QED BY <1>10, <2>1, <2>2 DEF PlatformHandles
<1>11. CASE TokenLeftOut(r)
  <2>1. /\ issued <= issued /\ NoToken <= issued /\ Missing <= issued
        /\ NoToken \in Tokens \cup {Missing} /\ Missing \in Tokens \cup {Missing}
    BY <1>1
  <2> QED BY <1>1, <1>8, <1>11, <2>1 DEF TokenLeftOut, Answers
<1> QED BY <1>4, <1>5, <1>6, <1>7, <1>9, <1>10, <1>11 DEF RequestStep

\* A caller frees its request or makes another of it, and stores what it has
\* brought; or the process ends and starts again.
LEMMA CallerGenuine ==
    ASSUME CallTypes, CallsInv, StoreTypes, Genuine,
           NEW c \in Callers, Timeover(c) \/ Take(c), ~ProcessEnds(c)
    PROVE  Genuine'
<1> USE DEF cacheVars, tokenVars, platformVars
<1>1. PICK s \in Slots : s = cur[c] /\ req[s].kind = pc[c]
  <2>1. Waiting(c)
    BY DEF Timeover, Abandon, Take, CallSucceeds, CallNeedsLogin, CallNeedsRefresh,
       TokenArrives, AnswerIsError, HasBody
  <2>2. cur[c] \in Slots /\ req[cur[c]].kind = pc[c]
    BY <2>1 DEF Waiting, CallsInv, WaitsForItsOwn, CallTypes
  <2> QED BY <2>2
<1>2. GenuineRequest(req[s], issued) /\ req[s] \in Requests
  BY DEF Genuine, CallTypes
<1>3. PICK q \in Requests : GenuineRequest(q, issued) /\ req' = [req EXCEPT ![s] = q]
  <2>1. /\ Free \in Requests /\ GenuineRequest(Free, issued)
        /\ \A kind \in {"login", "refresh"} :
              /\ NewRequest(kind) \in Requests
              /\ GenuineRequest(NewRequest(kind), issued)
    BY RequestTypes DEF StoreTypes, Tokens, GenuineRequest, Free, NewRequest
  <2>2. CASE \E what : Return(c, what)
    <3>1. req' = [req EXCEPT ![s] = IF chan[c] = "body" THEN Free ELSE req[s]]
      BY <1>1, <2>2 DEF Return
    <3> QED BY <1>2, <2>1, <3>1
  <2>3. CASE \E kind \in {"login", "refresh"} : Ask(c, kind)
    BY <1>1, <2>1, <2>3 DEF Ask
  <2> QED BY <2>2, <2>3 DEF Timeover, Abandon, Take, CallSucceeds, CallNeedsLogin,
          CallNeedsRefresh, TokenArrives, AnswerIsError
<1>4. UNCHANGED <<token, issued, expired, revoked>>
  BY DEF Timeover, Abandon, Take, CallSucceeds, CallNeedsLogin, CallNeedsRefresh,
     TokenArrives, AnswerIsError, Ask
<1>5. /\ \A r \in Slots : GenuineRequest(req[r], issued)'
      /\ cached' = cached => Genuine'
  <2>1. issued \in Tokens /\ token \in Tokens /\ token <= issued /\ issued <= issued
    BY DEF StoreTypes, Genuine, Tokens
  <2> QED BY <1>3, <1>4, <2>1, GenuineKept
<1>6. CASE TokenArrives(c)
  <2>1. cached' = req[s].tok /\ req[s].kind \in {"login", "refresh"} /\ req[s].ans = "200"
    BY <1>1, <1>6 DEF TokenArrives, Answer
  <2>2. cached' <= issued'
    BY <1>2, <1>4, <2>1 DEF GenuineRequest
  <2> QED BY <1>4, <1>5, <2>2 DEF Genuine
<1>7. CASE ~TokenArrives(c)
  <2>1. cached' = cached
    BY <1>7 DEF Timeover, Abandon, Take, CallSucceeds, CallNeedsLogin,
       CallNeedsRefresh, AnswerIsError, Ask
  <2> QED BY <1>5, <1>7, <2>1
<1> QED BY <1>6, <1>7

LEMMA StepGenuine == IInv /\ Genuine /\ [Next]_vars => Genuine'
<1> SUFFICES ASSUME CallTypes, CallsInv, StoreTypes, Genuine, [Next]_vars
             PROVE  Genuine'
  BY IInvParts
<1> USE DEF CallTypes, StoreTypes, Tokens, cacheVars, tokenVars, platformVars
<1>1. ASSUME NEW l \in Loops, Call(l)
      PROVE  Genuine'
  BY <1>1 DEF Call, FreeSlots, Genuine, GenuineRequest, NewRequest
<1>2. ASSUME NEW r \in Slots, Deliver(r) \/ Reap(r)
      PROVE  Genuine'
  BY <1>2 DEF Deliver, Reap, Genuine, GenuineRequest, Free
<1>3. CASE \/ \E g \in Slots \cup Callers : FindsNoCache(g) \/ CreateCache(g)
           \/ CacheExpires \/ TokensExpire \/ TokensRevoked
           \/ UNCHANGED vars
  BY <1>3 DEF FindsNoCache, CreateCache, CacheExpires, TokensExpire, TokensRevoked,
     vars, Genuine
<1>4. ASSUME NEW c \in Callers, ProcessEnds(c)
      PROVE  Genuine'
  <2>1. PICK r \in Slots : Started(r)'
    BY <1>4, EndsStarted
  <2>2. (issued \in Tokens /\ expired <= issued /\ revoked <= issued)'
    BY <1>4, EndsStarted DEF Genuine
  <2> QED BY <2>1, <2>2, StartedGenuineNext
<1> QED BY <1>1, <1>2, <1>3, <1>4, RequestGenuine, CallerGenuine DEF Next, RequestStep

\* No token is stored, kept or sent that the platform has not issued, other
\* than an empty one - although the requests of all loops share the cache and
\* the variable token, a request may be given up, lost or refused between any
\* two steps, and the process may end and start again.
THEOREM TokensAreIssued == Spec => []Genuine
BY Invariant, InitGenuine, StepGenuine, PTL DEF Spec
------------------------------------------------------------------------------
\* The refinement.
USE DEF Delivery!Held

\* Fate, case by case, now and after a step.
FateOf(r) == /\ req[r].kind # "call" => Fate(r) = "idle"
             /\ req[r].kind = "call" =>
                   /\ req[r].stage # "answered" => Fate(r) = "pending"
                   /\ req[r].stage = "answered" =>
                         Fate(r) = IF req[r].ans = "200" THEN "applied" ELSE "refused"

LEMMA Fates == ASSUME NEW r PROVE FateOf(r) /\ FateOf(r)'
BY DEF FateOf, Fate

\* A process that starts holds no report and follows none.
NoReports == /\ \A s \in Slots : Fate(s) = "idle"
             /\ \A l \in Loops : pc[l] = "boot" /\ told[l] = "nothing"

LEMMA StartedDelivery ==
    ASSUME NEW r \in Slots, Started(r)
    PROVE  NoReports
<1>1. /\ pc = [c \in Callers |-> IF c = Main THEN "login" ELSE "boot"]
      /\ req = [s \in Slots |-> IF s = r THEN NewRequest("login") ELSE Free]
      /\ told = [l \in Loops |-> "nothing"]
  BY StartedParts
<1>2. NewRequest("login").kind = "login" /\ Free.kind = "free"
  BY DEF NewRequest, Free
<1>3. \A s \in Slots : req[s].kind # "call"
  BY <1>1, <1>2
<1>4. \A l \in Loops : pc[l] = "boot" /\ told[l] = "nothing"
  BY <1>1
<1> QED BY <1>3, <1>4 DEF Fate, NoReports

LEMMA InitDelivery == Init => Delivery!Init
<1> SUFFICES ASSUME Init PROVE Delivery!Init
  OBVIOUS
<1>1. PICK r \in Slots : Started(r)
  BY DEF Init, Started
<1> QED BY <1>1, StartedDelivery DEF NoReports, Init, Delivery!Init

\* A step that leaves the calls of the loops alone.
LEMMA OtherRequests ==
    ASSUME \A r \in Slots : Fate(r)' = Fate(r),
           UNCHANGED callerVars
    PROVE  UNCHANGED Delivery!vars
BY DEF Delivery!vars, callerVars

\* The goroutine of a call, and the platform, settle it.
LEMMA RequestDelivers ==
    ASSUME CallTypes, CallsInv, StoreTypes, NEW r \in Slots, RequestStep(r)
    PROVE  [Delivery!Next]_(Delivery!vars)
<1> USE DEF CallTypes
<1>1. PICK q \in Requests : q.kind = req[r].kind /\ req' = [req EXCEPT ![r] = q]
  BY RequestChanges
<1>2. UNCHANGED callerVars /\ req[r].stage # "answered"
  BY RequestChanges
<1>3. \A s \in Slots \ {r} : Fate(s)' = Fate(s)
  BY <1>1 DEF Fate
<1>4. req'[r] = q /\ q.stage \in {"started", "looked up", "sent", "answered"}
  BY <1>1 DEF Requests
<1>5. \/ Fate(r)' = Fate(r)
      \/ Fate(r) = "pending" /\ Fate(r)' \in {"applied", "refused"}
  BY <1>1, <1>2, <1>4, Fates DEF FateOf
<1>6. CASE Fate(r)' = Fate(r)
  BY <1>2, <1>3, <1>6, OtherRequests
<1>7. CASE Fate(r) = "pending" /\ Fate(r)' \in {"applied", "refused"}
  <2>1. [s \in Slots |-> Fate(s)]' = [[s \in Slots |-> Fate(s)] EXCEPT ![r] = Fate(r)']
    BY <1>3
  <2>2. Delivery!Settle(r)
    BY <1>2, <1>7, <2>1 DEF Delivery!Settle, callerVars
  <2> QED BY <2>2 DEF Delivery!Next
<1> QED BY <1>5, <1>6, <1>7

LEMMA CallDelivers ==
    ASSUME CallTypes, CallsInv, NEW l \in Loops, Call(l)
    PROVE  Delivery!Next
<1> USE DEF CallTypes
<1>1. PICK r \in Slots :
          /\ req[r] = Free
          /\ cur' = [cur EXCEPT ![l] = r]
          /\ req' = [req EXCEPT ![r] = NewRequest("call")]
  BY DEF Call, FreeSlots
<1>2. /\ pc[l] = "sleep" /\ pc' = [pc EXCEPT ![l] = "call"]
      /\ told' = [told EXCEPT ![l] = "nothing"]
  BY DEF Call
<1>3. Fate(r) = "idle" /\ Fate(r)' = "pending"
  BY <1>1 DEF Fate, Free, NewRequest
<1>4. \A s \in Slots \ {r} : Fate(s)' = Fate(s)
  BY <1>1 DEF Fate
<1>5. Delivery!Submit(l, r)
  BY <1>1, <1>2, <1>3, <1>4 DEF Delivery!Submit
<1> QED BY <1>5 DEF Delivery!Next

\* What the loop c learns when it stops waiting, or goes on to ask for a token.
LEMMA LoopReturns ==
    ASSUME CallTypes, NEW c \in Loops, pc[c] = "call", NEW s \in Slots, cur[c] = s,
           \A r \in Slots \ {s} : Fate(r)' = Fate(r),
           \/ Fate(s)' = Fate(s)
           \/ Fate(s) # "pending" /\ Fate(s)' = "idle",
           \A d \in Loops \ {c} : /\ cur'[d] = cur[d] /\ pc'[d] = pc[d]
                                  /\ told'[d] = told[d],
           pc'[c] # "call",
           \/ pc'[c] \in {"login", "refresh"}
           \/ pc'[c] = "sleep" /\ told'[c] = "error"
           \/ pc'[c] = "sleep" /\ told'[c] = "ok" /\ Fate(s) = "applied"
    PROVE  Delivery!Next
<1> DEFINE fate == [r \in Slots |-> Fate(r)]
           holding == [l \in Loops |-> IF pc[l] = "call" THEN cur[l] ELSE NoSlot]
           learned == [l \in Loops |-> IF pc[l] \in {"login", "refresh"} THEN "error"
                                       ELSE told[l]]
<1>1. \/ fate' = fate
      \/ fate[s] # "pending" /\ fate' = [fate EXCEPT ![s] = "idle"]
  OBVIOUS
<1>2. holding[c] = s /\ holding' = [holding EXCEPT ![c] = NoSlot]
  OBVIOUS
<1>3. \/ learned' = [learned EXCEPT ![c] = "error"]
      \/ fate[s] = "applied" /\ learned' = [learned EXCEPT ![c] = "ok"]
  OBVIOUS
<1> HIDE DEF fate, holding, learned
<1>4. Delivery!Return(c)
  BY <1>1, <1>2, <1>3 DEF Delivery!Return, fate, holding, learned
<1> QED BY <1>4 DEF Delivery!Next

\* A caller that has no call, but a request for a token, stops waiting.
LEMMA OtherReturns ==
    ASSUME CallTypes, CallsInv,
           \A r \in Slots : Fate(r)' = Fate(r),
           \A d \in Loops : \/ cur'[d] = cur[d] /\ pc'[d] = pc[d] /\ told'[d] = told[d]
                            \/ pc[d] = "boot" /\ pc'[d] = "sleep" /\ told'[d] = told[d]
                            \/ /\ pc[d] \in {"login", "refresh"}
                               /\ pc'[d] = "sleep" /\ told'[d] = "error"
    PROVE  UNCHANGED Delivery!vars
BY DEF Delivery!vars

LEMMA ReturnDelivers ==
    ASSUME CallTypes, CallsInv, NEW c \in Callers, Waiting(c),
           NEW what \in {"ok", "error"}, Return(c, what),
           what = "ok" => /\ pc[c] = "call" /\ HasBody(c) /\ Answer(c) = "200"
    PROVE  [Delivery!Next]_(Delivery!vars)
<1> USE DEF CallTypes
<1>1. PICK s \in Slots : s = cur[c] /\ req[s].kind = pc[c]
  <2>1. cur[c] \in Slots /\ req[cur[c]].kind = pc[c]
    BY DEF Waiting, CallsInv, WaitsForItsOwn
  <2> QED BY <2>1
<1>2. /\ req' = [req EXCEPT ![s] = IF chan[c] = "body" THEN Free ELSE @]
      /\ cur' = [cur EXCEPT ![c] = NoSlot]
  BY <1>1 DEF Return
<1>3. \A r \in Slots \ {s} : Fate(r)' = Fate(r)
  BY <1>1, <1>2 DEF Fate
<1>4. \/ Fate(s)' = Fate(s)
      \/ req[s].stage = "answered" /\ Fate(s)' = "idle"
  <2>1. CASE chan[c] = "body"
    <3>1. req[s].stage = "answered" /\ req'[s] = Free
      BY <1>1, <1>2, <2>1 DEF CallsInv, WaitsForItsOwn
    <3> QED BY <3>1 DEF Fate, Free
  <2>2. CASE chan[c] # "body"
    <3>1. req'[s] = req[s]
      BY <1>1, <1>2, <2>2
    <3> QED BY <3>1 DEF Fate
  <2> QED BY <2>1, <2>2
<1>5. ASSUME pc[c] # "call"
      PROVE  \A r \in Slots : Fate(r)' = Fate(r)
  <2>1. Fate(s) = "idle"
    BY <1>1, <1>5, Fates DEF FateOf
  <2>2. Fate(s)' = Fate(s)
    BY <1>4, <2>1
  <2> QED BY <1>3, <2>2
<1>6. CASE c = Main
  <2>1. /\ pc' = [d \in Callers |-> "sleep"] /\ told' = told
        /\ pc[c] = "login" /\ \A l \in Loops : pc[l] = "boot"
    BY <1>6 DEF Return, CallsInv, MainFirst, WaitsForItsOwn
  <2>2. \A r \in Slots : Fate(r)' = Fate(r)
    BY <1>5, <2>1
  <2>3. \A d \in Loops : cur'[d] = cur[d] /\ pc'[d] = "sleep"
    BY <1>2, <1>6, <2>1
  <2> QED BY <2>1, <2>2, <2>3, OtherReturns
<1>7. CASE c # Main
  <2>1. /\ pc' = [pc EXCEPT ![c] = "sleep"] /\ told' = [told EXCEPT ![c] = what]
        /\ c \in Loops
    BY <1>7 DEF Return
  <2>2. \A d \in Loops \ {c} : /\ cur'[d] = cur[d] /\ pc'[d] = pc[d]
                              /\ told'[d] = told[d]
    BY <1>2, <2>1
  <2>3. pc'[c] = "sleep" /\ told'[c] = what
    BY <2>1
  <2>4. CASE pc[c] = "call"
    <3>1. req[s].stage = "answered" => Fate(s) # "pending"
      BY <1>1, <2>4, Fates DEF FateOf
    <3>2. \/ Fate(s)' = Fate(s)
          \/ Fate(s) # "pending" /\ Fate(s)' = "idle"
      BY <1>4, <3>1
    <3>3. what = "ok" => Fate(s) = "applied"
      <4>1. what = "ok" => req[s].stage = "answered" /\ req[s].ans = "200"
        BY <1>1 DEF HasBody, Answer, CallsInv, WaitsForItsOwn
      <4> QED BY <1>1, <2>4, <4>1, Fates DEF FateOf
    <3>4. \/ what = "error"
          \/ what = "ok" /\ Fate(s) = "applied"
      BY <3>3
    <3>5. Delivery!Next
      BY <1>1, <1>3, <2>1, <2>2, <2>3, <2>4, <3>2, <3>4, LoopReturns
    <3> QED BY <3>5
  <2>5. CASE pc[c] # "call"
    <3>1. pc[c] \in {"login", "refresh"} /\ what = "error"
      BY <2>5 DEF CallsInv, WaitsForItsOwn
    <3>2. UNCHANGED Delivery!vars
      BY <1>5, <2>2, <2>3, <2>5, <3>1, OtherReturns
    <3> QED BY <3>2
  <2> QED BY <2>4, <2>5
<1> QED BY <1>6, <1>7

LEMMA AskDelivers ==
    ASSUME CallTypes, CallsInv, NEW c \in Callers, HasBody(c), pc[c] = "call",
           NEW kind \in {"login", "refresh"}, Ask(c, kind)
    PROVE  Delivery!Next
<1> USE DEF CallTypes
<1> DEFINE s == cur[c]
<1>1. /\ c \in Loops /\ s \in Slots
      /\ req[s].kind = "call" /\ req[s].stage = "answered"
  BY DEF HasBody, Waiting, CallsInv, WaitsForItsOwn, MainFirst
<1>2. /\ pc' = [pc EXCEPT ![c] = kind]
      /\ req' = [req EXCEPT ![s] = NewRequest(kind)]
      /\ cur' = cur /\ told' = told
  BY DEF Ask
<1>3. \A r \in Slots \ {s} : Fate(r)' = Fate(r)
  BY <1>2 DEF Fate
<1>4. Fate(s) # "pending" /\ Fate(s)' = "idle"
  BY <1>1, <1>2 DEF Fate, NewRequest
<1> QED BY <1>1, <1>2, <1>3, <1>4, LoopReturns

LEMMA StartedDeliveryNext == ASSUME NEW r \in Slots, Started(r)' PROVE NoReports'
BY StartedDelivery, PTL

LEMMA EndDelivers ==
    ASSUME CallTypes, NEW c \in Callers, ProcessEnds(c)
    PROVE  Delivery!Next
<1>1. PICK r \in Slots : Started(r)'
  BY EndsStarted
<1>2. NoReports'
  BY <1>1, StartedDeliveryNext
<1>3. Delivery!Restart
  BY <1>2 DEF NoReports, Delivery!Restart
<1> QED BY <1>3 DEF Delivery!Next

LEMMA CallerDelivers ==
    ASSUME CallTypes, CallsInv, NEW c \in Callers, Timeover(c) \/ Take(c)
    PROVE  [Delivery!Next]_(Delivery!vars)
<1>1. HasBody(c) => Waiting(c)
  BY DEF HasBody
<1>2. CASE Timeover(c) BY <1>2, ReturnDelivers DEF Timeover, Abandon
<1>3. CASE CallSucceeds(c) BY <1>1, <1>3, ReturnDelivers DEF CallSucceeds
<1>4. CASE CallNeedsLogin(c) \/ CallNeedsRefresh(c)
  BY <1>4, AskDelivers DEF CallNeedsLogin, CallNeedsRefresh
<1>5. CASE TokenArrives(c) BY <1>1, <1>5, ReturnDelivers DEF TokenArrives
<1>6. CASE AnswerIsError(c) BY <1>1, <1>6, ReturnDelivers DEF AnswerIsError
<1>7. CASE ProcessEnds(c) BY <1>7, EndDelivers
<1> QED BY <1>2, <1>3, <1>4, <1>5, <1>6, <1>7 DEF Take

\* A goroutine that ends forgets the call nobody waits for.
LEMMA ReapDelivers ==
    ASSUME CallTypes, NEW r \in Slots, Reap(r)
    PROVE  [Delivery!Next]_(Delivery!vars)
<1> USE DEF CallTypes
<1>1. /\ req[r].stage = "answered" /\ ~Awaited(r)
      /\ req' = [req EXCEPT ![r] = Free] /\ UNCHANGED callerVars
  BY DEF Reap
<1>2. \A s \in Slots \ {r} : Fate(s)' = Fate(s)
  BY <1>1 DEF Fate
<1>3. Fate(r) \in {"idle", "applied", "refused"} /\ Fate(r)' = "idle"
  BY <1>1 DEF Fate, Free
<1>4. CASE Fate(r) = "idle"
  BY <1>1, <1>2, <1>3, <1>4, OtherRequests
<1>5. CASE Fate(r) # "idle"
  <2>1. ~Delivery!Held(r)
    BY <1>1 DEF Awaited
  <2>2. [s \in Slots |-> Fate(s)]' = [[s \in Slots |-> Fate(s)] EXCEPT ![r] = "idle"]
    BY <1>2, <1>3
  <2>3. Delivery!Forget(r)
    BY <1>1, <1>3, <1>5, <2>1, <2>2 DEF Delivery!Forget, callerVars
  <2> QED BY <2>3 DEF Delivery!Next
<1> QED BY <1>4, <1>5

LEMMA StepDelivery == IInv /\ [Next]_vars => [Delivery!Next]_(Delivery!vars)
<1> SUFFICES ASSUME CallTypes, CallsInv, StoreTypes, [Next]_vars
             PROVE  [Delivery!Next]_(Delivery!vars)
  BY IInvParts
<1>1. ASSUME NEW r \in Slots, Deliver(r)
      PROVE  UNCHANGED Delivery!vars
  BY <1>1 DEF Deliver, Delivery!vars, Fate
<1>2. CASE \/ \E g \in Slots \cup Callers : FindsNoCache(g) \/ CreateCache(g)
           \/ CacheExpires \/ TokensExpire \/ TokensRevoked
           \/ UNCHANGED vars
  <2>1. UNCHANGED <<callerVars, req>>
    BY <1>2 DEF FindsNoCache, CreateCache, CacheExpires, TokensExpire,
       TokensRevoked, vars
  <2> QED BY <2>1, OtherRequests DEF Fate
<1> QED
  BY <1>1, <1>2, CallDelivers, RequestDelivers, CallerDelivers, ReapDelivers
  DEF Next, RequestStep

\* The client keeps the promise of ReportDelivery, whatever requests are
\* given up, lost or refused, in any number and any order.
THEOREM ReportsAreDelivered == Spec => DeliversReports
BY Invariant, InitDelivery, StepDelivery, PTL DEF Spec, DeliversReports, Delivery!Spec
===============================================================================
