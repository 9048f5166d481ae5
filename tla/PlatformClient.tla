---------------------------- MODULE PlatformClient ----------------------------
(***************************************************************************)
(* The client of the platform that all loops of the program share:         *)
(* utils/http.go and the token kept by utils/token.go, driven by the       *)
(* start-up login and the loops of main.go.                                *)
(*                                                                         *)
(* A call builds one HTTP request in a goroutine of its own and waits for  *)
(* its channel or for a timer.  A timer that fires first abandons the      *)
(* goroutine, which still reads the token, still reaches the platform and  *)
(* still gets an answer nobody takes.  GetServices, GetRestfuls,           *)
(* GetDevices and SyncServices treat an answer alike: 200 is success, 401  *)
(* logs in and 402 refreshes the token - and fails the call all the same - *)
(* anything else fails the call.  Nothing is sent twice.                   *)
(*                                                                         *)
(* The platform is external: it is modelled by the answers the client      *)
(* tells apart.  Tokens are numbers in the order of their issue; those up  *)
(* to revoked are answered 401, those up to expired 402.  A login or a     *)
(* refresh answered 200 may bring an empty token, which the client stores  *)
(* like any other, or no data, and then the process ends: it dereferences  *)
(* a nil pointer.  Whoever runs the program starts it again.               *)
(***************************************************************************)
EXTENDS Integers

CONSTANTS Loops,       \* the loops that call the platform
          Main,        \* the goroutine of main(), which logs in first
          Slots,       \* bound: requests alive at once, 1..n
          MaxIssue     \* bound: different tokens the platform issues

ASSUME SlotsAssumption == Slots \subseteq Nat \ {0}
ASSUME CallersAssumption == Main \notin Loops
ASSUME GoroutinesAssumption == Slots \cap (Loops \cup {Main}) = {}
ASSUME IssueAssumption == MaxIssue \in Nat

VARIABLES pc,        \* pc[c]: what the caller c is doing
          cur,       \* cur[c]: the request whose channel c selects on
          chan,      \* chan[c]: that channel
          req,       \* req[r]: the request r, or Free
          ca,        \* is there a cache
          creating,  \* goroutines that have found none and make one
          cached,    \* the entry XToken of the cache, or Missing
          token,     \* the global variable token
          told,      \* told[l]: what the last call of l returned
          issued,    \* platform: the newest token
          expired,   \* platform: tokens up to this one need a refresh
          revoked    \* platform: tokens up to this one need a login

callerVars == <<pc, cur, chan, told>>
cacheVars == <<ca, creating>>
tokenVars == <<cached, token>>
platformVars == <<issued, expired, revoked>>
vars == <<callerVars, req, cacheVars, tokenVars, platformVars>>

Callers == Loops \cup {Main}
NoToken == 0
Missing == -1
NoSlot == 0
Tokens == NoToken..MaxIssue
Answers == {"none", "200", "401", "402", "other"}

Free == [kind |-> "free", stage |-> "answered", tok |-> NoToken, ans |-> "none"]
NewRequest(kind) ==
    [kind |-> kind, stage |-> "started", tok |-> NoToken, ans |-> "none"]

Waiting(c) == cur[c] # NoSlot
Awaited(r) == \E c \in Callers : cur[c] = r
FreeSlots == {r \in Slots : req[r] = Free}

TypesOK == /\ pc \in [Callers -> {"boot", "sleep", "call", "login", "refresh"}]
           /\ cur \in [Callers -> Slots \cup {NoSlot}]
           /\ chan \in [Callers -> {"empty", "body"}]
           /\ told \in [Loops -> {"nothing", "ok", "error"}]
           /\ req \in [Slots -> [kind : {"free", "call", "login", "refresh"},
                                 stage : {"started", "looked up", "sent",
                                          "answered"},
                                 tok : Tokens \cup {Missing}, ans : Answers]]
           /\ ca \in BOOLEAN /\ creating \subseteq Slots \cup Callers
           /\ cached \in Tokens \cup {Missing} /\ token \in Tokens
           /\ issued \in Tokens /\ expired \in Tokens /\ revoked \in Tokens

\* A caller waits exactly while it is in a call, for a request of its own and
\* of the kind it made; a body in its channel is the answer to that request.
WaitsForItsOwn ==
    \A c \in Callers :
        /\ Waiting(c) <=> pc[c] \in {"call", "login", "refresh"}
        /\ Waiting(c) => req[cur[c]].kind = pc[c]
        /\ chan[c] = "body" => /\ Waiting(c)
                               /\ req[cur[c]].stage = "answered"
                               /\ req[cur[c]].ans # "none"
        /\ \A d \in Callers \ {c} : Waiting(c) => cur[c] # cur[d]

\* Nothing is stored without a cache, and who makes one is a goroutine that
\* runs: of a request, or of a caller that has a token to store.
CreatorsRun ==
    /\ ~ca => cached = Missing
    /\ \A r \in creating \cap Slots : req[r] # Free
    /\ \A c \in creating \cap Callers : chan[c] = "body"

TypeOK == TypesOK /\ WaitsForItsOwn /\ CreatorsRun

\* The program starts: main() has called GetToken; there are no loops yet.
Starts == [pc    |-> [c \in Callers |-> IF c = Main THEN "login" ELSE "boot"],
           cur   |-> [r \in Slots |-> [c \in Callers |-> IF c = Main THEN r ELSE NoSlot]],
           req   |-> [r \in Slots |-> [s \in Slots |->
                         IF s = r THEN NewRequest("login") ELSE Free]],
           chan  |-> [c \in Callers |-> "empty"],
           told  |-> [l \in Loops |-> "nothing"]]

Init == /\ pc = Starts.pc /\ chan = Starts.chan /\ told = Starts.told
        /\ \E r \in Slots : /\ cur = Starts.cur[r] /\ req = Starts.req[r]
                            /\ \A s \in Slots : r <= s
        /\ ca = FALSE
        /\ creating = {}
        /\ cached = Missing
        /\ token = NoToken
        /\ issued = NoToken
        /\ expired = NoToken
        /\ revoked = NoToken
------------------------------------------------------------------------------
\* The token cache.

Delivered(r) == \E c \in Callers : cur[c] = r /\ chan[c] = "body"

\* Who is about to call GetCache: a request that sets its headers, a login
\* whose answer brings a session cookie, a caller that has a token to store.
WantsCache(g) ==
    \/ /\ g \in Slots
       /\ \/ req[g].kind \in {"call", "refresh"} /\ req[g].stage = "started"
          \/ req[g].kind = "login" /\ req[g].ans # "none" /\ ~Delivered(g)
    \/ /\ g \in Callers
       /\ pc[g] \in {"login", "refresh"}
       /\ chan[g] = "body"
       /\ req[cur[g]].ans = "200" /\ req[cur[g]].tok # Missing

MutantFindsNoCache(g) ==
    /\ g \notin creating
    /\ WantsCache(g)
    /\ creating' = creating \cup {g}
    /\ UNCHANGED <<callerVars, req, ca, tokenVars, platformVars>>

\* GetCache looks at the variable and sets it without a lock.
FindsNoCache(g) ==
    /\ ~ca
    /\ g \notin creating
    /\ WantsCache(g)
    /\ creating' = creating \cup {g}
    /\ UNCHANGED <<callerVars, req, ca, tokenVars, platformVars>>

\* The new cache is empty: what another goroutine has stored in one it made
\* in the meantime is lost with that.
CreateCache(g) ==
    /\ g \in creating
    /\ creating' = creating \ {g}
    /\ ca' = TRUE
    /\ cached' = Missing
    /\ UNCHANGED <<callerVars, req, token, platformVars>>

HasCache(g) == ca /\ g \notin creating

\* GetCacheToken, given what the look-up has found: the entry, an empty one
\* too, or else the value the last reader left in the variable.
GetCacheToken(found) == IF found # Missing THEN found ELSE token

\* The entry lives for an hour.
CacheExpires == /\ cached # Missing
                /\ cached' = Missing
                /\ UNCHANGED <<callerVars, req, cacheVars, token, platformVars>>
------------------------------------------------------------------------------
\* The goroutine of a request, and the platform.

\* A login carries no token.
SendLogin(r) ==
    /\ req[r].kind = "login"
    /\ req[r].stage = "started"
    /\ req' = [req EXCEPT ![r].stage = "sent"]
    /\ UNCHANGED <<callerVars, cacheVars, tokenVars, platformVars>>

\* The look-up in the cache is locked, the variable token is not: another
\* request may look up and set it between the two steps.
LookUpToken(r) ==
    /\ req[r].kind \in {"call", "refresh"}
    /\ req[r].stage = "started"
    /\ HasCache(r)
    /\ req' = [req EXCEPT ![r].stage = "looked up", ![r].tok = cached]
    /\ UNCHANGED <<callerVars, cacheVars, tokenVars, platformVars>>

SendRequest(r) ==
    /\ req[r].stage = "looked up"
    /\ req' = [req EXCEPT ![r].stage = "sent", ![r].tok = GetCacheToken(@)]
    /\ token' = GetCacheToken(req[r].tok)
    /\ UNCHANGED <<callerVars, cacheVars, cached, platformVars>>

\* The request never gets to the platform.
RequestLost(r) ==
    /\ req[r].stage \in {"started", "looked up", "sent"}
    /\ r \notin creating
    /\ req' = [req EXCEPT ![r].stage = "answered", ![r].tok = NoToken]
    /\ UNCHANGED <<callerVars, cacheVars, tokenVars, platformVars>>

Answered(r, answer, tok) ==
    req' = [req EXCEPT ![r].stage = "answered", ![r].ans = answer, ![r].tok = tok]

\* The platform applies a call whose token is good, and says what is wrong
\* with one that is not.
HandleCall(r) ==
    /\ req[r].kind = "call"
    /\ LET t == req[r].tok
       IN  \/ t <= revoked /\ Answered(r, "401", NoToken)
           \/ revoked < t /\ t <= expired /\ Answered(r, "402", NoToken)
           \/ revoked < t /\ expired < t /\ Answered(r, "200", NoToken)
    /\ UNCHANGED platformVars

\* A login, or a refresh that names a token not revoked, is answered with a
\* new token or with the newest one as long as that is good.
HandleTokenRequest(r) ==
    /\ req[r].kind \in {"login", "refresh"}
    /\ \/ /\ req[r].kind = "refresh"
          /\ req[r].tok <= revoked
          /\ Answered(r, "other", NoToken)
          /\ UNCHANGED issued
       \/ /\ req[r].kind = "login" \/ req[r].tok > revoked
          /\ \/ issued < MaxIssue /\ issued' = issued + 1
             \/ issued > revoked /\ issued > expired /\ issued' = issued
          /\ Answered(r, "200", issued')
    /\ UNCHANGED <<expired, revoked>>

\* A login or a refresh is answered 200 with an empty token or without data.
TokenLeftOut(r) ==
    /\ req[r].stage = "sent"
    /\ req[r].kind \in {"login", "refresh"}
    /\ \E nothing \in {NoToken, Missing} : Answered(r, "200", nothing)
    /\ UNCHANGED <<callerVars, cacheVars, tokenVars, platformVars>>

PlatformHandles(r) == /\ req[r].stage = "sent"
                      /\ HandleCall(r) \/ HandleTokenRequest(r)
                      /\ UNCHANGED <<callerVars, cacheVars, tokenVars>>

\* The platform answers with an error of its own and does nothing.
PlatformFails(r) == /\ req[r].stage = "sent"
                    /\ Answered(r, "other", NoToken)
                    /\ UNCHANGED <<callerVars, cacheVars, tokenVars, platformVars>>

\* The goroutine puts the body into the channel; result is buffered, so it
\* ends whether or not somebody still reads.
Deliver(r) == /\ req[r].stage = "answered"
              /\ req[r].ans # "none"
              /\ r \notin creating
              /\ \E c \in Callers :
                    /\ cur[c] = r
                    /\ chan[c] = "empty"
                    /\ chan' = [chan EXCEPT ![c] = "body"]
              /\ UNCHANGED <<pc, cur, told, req, cacheVars, tokenVars, platformVars>>

\* An abandoned request has been answered and its goroutine has ended.
Reap(r) == /\ req[r] # Free
           /\ req[r].stage = "answered"
           /\ ~Awaited(r)
           /\ r \notin creating
           /\ req' = [req EXCEPT ![r] = Free]
           /\ UNCHANGED <<callerVars, cacheVars, tokenVars, platformVars>>

\* The platform lets tokens run out, or forgets them; one it has forgotten need
\* not run out any more.
TokensExpire == /\ expired < issued
                /\ issued < MaxIssue
                /\ expired' = issued
                /\ UNCHANGED <<callerVars, req, cacheVars, tokenVars, issued, revoked>>

TokensRevoked == /\ revoked < issued
                 /\ issued < MaxIssue
                 /\ revoked' = issued
                 /\ expired' = issued
                 /\ UNCHANGED <<callerVars, req, cacheVars, tokenVars, issued>>
------------------------------------------------------------------------------
\* The callers.

\* A loop calls GetServices, GetRestfuls, GetDevices or SyncServices.
Call(l) == /\ pc[l] = "sleep"
           /\ \E r \in FreeSlots :
                 /\ \A s \in FreeSlots : r <= s
                 /\ cur' = [cur EXCEPT ![l] = r]
                 /\ req' = [req EXCEPT ![r] = NewRequest("call")]
           /\ pc' = [pc EXCEPT ![l] = "call"]
           /\ told' = [told EXCEPT ![l] = "nothing"]
           /\ UNCHANGED <<chan, cacheVars, tokenVars, platformVars>>

\* The caller c stops waiting and its call returns what it is told.  main()
\* only prints an error; it starts the loops in either case.
Return(c, what) ==
    /\ pc' = IF c = Main
             THEN [d \in Callers |-> "sleep"]
             ELSE [pc EXCEPT ![c] = "sleep"]
    /\ told' = IF c = Main THEN told ELSE [told EXCEPT ![c] = what]
    /\ cur' = [cur EXCEPT ![c] = NoSlot]
    /\ chan' = [chan EXCEPT ![c] = "empty"]
    /\ req' = [req EXCEPT ![cur[c]] = IF chan[c] = "body" THEN Free ELSE @]

\* In every function of the client this is an error; the request is left
\* behind, and may be applied all the same.
Abandon(c) == /\ Waiting(c)
              /\ c \notin creating
              /\ Return(c, "error")
              /\ UNCHANGED <<cacheVars, tokenVars, platformVars>>

\* The timer fires; or Client.Do fails, at any time and whatever the platform
\* does with the request, and the caller takes the nil from its channel.
Timeover(c) == Abandon(c)

Answer(c) == req[cur[c]].ans
HasBody(c) == Waiting(c) /\ chan[c] = "body"

CallSucceeds(c) == /\ HasBody(c)
                   /\ pc[c] = "call"
                   /\ Answer(c) = "200"
                   /\ Return(c, "ok")
                   /\ UNCHANGED <<cacheVars, tokenVars, platformVars>>

MutantAsk(c, kind) ==
    /\ pc' = [pc EXCEPT ![c] = kind]
    /\ req' = [req EXCEPT ![cur[c]] = NewRequest(kind)]
    /\ UNCHANGED <<cur, chan, told, cacheVars, tokenVars, platformVars>>

\* 401 calls GetToken and 402 calls RfreshToken, each a request of its own.
Ask(c, kind) == /\ pc' = [pc EXCEPT ![c] = kind]
                /\ req' = [req EXCEPT ![cur[c]] = NewRequest(kind)]
                /\ chan' = [chan EXCEPT ![c] = "empty"]
                /\ UNCHANGED <<cur, told, cacheVars, tokenVars, platformVars>>

MutantCallNeedsLogin(c) == /\ HasBody(c)
                           /\ pc[c] = "call"
                           /\ Answer(c) = "401"
                           /\ Ask(c, "refresh")

CallNeedsLogin(c) == /\ HasBody(c)
                     /\ pc[c] = "call"
                     /\ Answer(c) = "401"
                     /\ Ask(c, "login")

CallNeedsRefresh(c) == /\ HasBody(c)
                       /\ pc[c] = "call"
                       /\ Answer(c) = "402"
                       /\ Ask(c, "refresh")

MutantTokenArrives(c) == /\ HasBody(c)
                         /\ pc[c] \in {"login", "refresh"}
                         /\ Answer(c) = "200" /\ req[cur[c]].tok # Missing
                         /\ HasCache(c)
                         /\ cached' = req[cur[c]].tok
                         /\ Return(c, "ok")
                         /\ UNCHANGED <<cacheVars, token, platformVars>>

\* GetToken or RfreshToken has a token, if only an empty one, and stores it;
\* the call that led here fails nevertheless.
TokenArrives(c) == /\ HasBody(c)
                   /\ pc[c] \in {"login", "refresh"}
                   /\ Answer(c) = "200" /\ req[cur[c]].tok # Missing
                   /\ HasCache(c)
                   /\ cached' = req[cur[c]].tok
                   /\ Return(c, "error")
                   /\ UNCHANGED <<cacheVars, token, platformVars>>

AnswerIsError(c) == /\ HasBody(c)
                    /\ Answer(c) = "other"
                    /\ Return(c, "error")
                    /\ UNCHANGED <<cacheVars, tokenVars, platformVars>>

\* There is no re.Data to take the token from: a panic that nobody recovers,
\* and the process ends with all that its loops and requests were at.  What
\* the platform still does with a request of it is not followed.
ProcessEnds(c) == /\ HasBody(c)
                  /\ pc[c] \in {"login", "refresh"}
                  /\ Answer(c) = "200" /\ req[cur[c]].tok = Missing
                  /\ pc' = Starts.pc /\ chan' = Starts.chan /\ told' = Starts.told
                  /\ \E r \in Slots : /\ cur' = Starts.cur[r] /\ req' = Starts.req[r]
                                      /\ \A s \in Slots : r <= s
                  /\ ca' = FALSE /\ creating' = {}
                  /\ cached' = Missing /\ token' = NoToken
                  /\ UNCHANGED platformVars

Take(c) == \/ CallSucceeds(c) \/ CallNeedsLogin(c) \/ CallNeedsRefresh(c)
           \/ TokenArrives(c) \/ AnswerIsError(c) \/ ProcessEnds(c)

Next == \/ \E l \in Loops : Call(l)
        \/ \E c \in Callers : Timeover(c) \/ Take(c)
        \/ \E r \in Slots : \/ SendLogin(r) \/ LookUpToken(r) \/ SendRequest(r)
                            \/ PlatformHandles(r)
                            \/ Deliver(r) \/ Reap(r)
                            \/ RequestLost(r) \/ PlatformFails(r) \/ TokenLeftOut(r)
        \/ \E g \in Slots \cup Callers : FindsNoCache(g) \/ CreateCache(g)
        \/ CacheExpires \/ TokensExpire \/ TokensRevoked

Spec == Init /\ [][Next]_vars

\* Loops come round, a caller takes its answer or its timer fires (timeover is
\* set), goroutines run, the platform answers what reaches it.
FairSpec == /\ Spec
            /\ \A l \in Loops : WF_vars(Call(l) \/ Take(l) \/ Timeover(l))
            /\ WF_vars(Take(Main) \/ Timeover(Main))
            /\ \A r \in Slots : /\ WF_vars(SendLogin(r) \/ LookUpToken(r) \/ SendRequest(r)
                                           \/ Deliver(r) \/ Reap(r))
                                /\ WF_vars(PlatformHandles(r))
            /\ \A g \in Slots \cup Callers : WF_vars(FindsNoCache(g) \/ CreateCache(g))
------------------------------------------------------------------------------
\* The calls of the loops implement ReportDelivery: a loop that is told "ok"
\* made the call the platform applied, a call refused with 401 or 402 is over
\* as an error although the login it starts succeeds, an abandoned request
\* that arrives later counts for no other call, and none is applied twice.
Fate(r) == IF req[r].kind # "call" THEN "idle"
           ELSE IF req[r].stage # "answered" THEN "pending"
           ELSE IF req[r].ans = "200" THEN "applied" ELSE "refused"

Delivery == INSTANCE ReportDelivery WITH
    Reports <- Slots,
    NoReport <- NoSlot,
    fate <- [r \in Slots |-> Fate(r)],
    holding <- [l \in Loops |-> IF pc[l] = "call" THEN cur[l] ELSE NoSlot],
    told <- [l \in Loops |-> IF pc[l] \in {"login", "refresh"} THEN "error"
                             ELSE told[l]]

DeliversReports == Delivery!Spec

\* GetCache has no lock, so a second cache may replace the first and take a
\* token that was just stored with it - but only one made by a goroutine that
\* looked before there was any, and none is left when the first login, made
\* before the loops start, stores its token.
CacheMadeOnce == [][/\ ca => creating' \subseteq creating
                    /\ TokenArrives(Main) => creating' = {}]_vars

\* Requests are lost, calls fail or are given up before their answer is taken,
\* the platform fails where it could have done what it was asked or leaves the
\* token out of its answer, tokens run out, or no request reads a new token in
\* the hour the cache keeps it.
Trouble == \/ \E c \in Callers : Timeover(c) /\ ~Take(c)
           \/ \E r \in Slots : RequestLost(r) \/ (PlatformFails(r) /\ ~PlatformHandles(r))
           \/ (\E r \in Slots : TokenLeftOut(r)) \/ TokensExpire \/ TokensRevoked
           \/ (CacheExpires /\ token # cached)

\* When trouble stops, every loop gets its reports through again, from
\* whatever mixture of old, empty and missing tokens and abandoned requests it
\* left behind: an answer without data that is still on its way ends the
\* process once more, and an empty token that displaced a good one is refused
\* with 401 and leads to a login.
Recovers == (<>[][~Trouble]_vars) =>
                \A l \in Loops : []<>(told[l] = "ok")
==============================================================================
