----------------------------- MODULE RestfulProbe -----------------------------
(***************************************************************************)
(* The interface monitor: CheckRestful and getRestful in sync/restful.go,  *)
(* called by the loop of syncRestful.  A URL is asked at most three times; *)
(* the answer is decoded into one variable re that lives as long as the    *)
(* three attempts, so a field an answer does not have keeps the value an   *)
(* earlier attempt gave it.                                                *)
(***************************************************************************)
EXTENDS Naturals

CONSTANTS Urls,      \* interfaces the platform may list
          NoUrl,
          Replies    \* kinds of answers that occur

AllReplies == {"nothing",    \* no answer, or an empty one
               "unparsed",   \* not JSON: re is not touched
               "200",        \* code 200
               "other",      \* another code
               "badField",   \* code 200, but another field has a wrong type:
                             \* an error, and re has the code
               "noCode"}     \* JSON without a code

ASSUME ReplyAssumption == Replies \subseteq AllReplies
ASSUME UrlAssumption == NoUrl \notin Urls

VARIABLES asking,
          restfuls,      \* interfaces of this cycle not yet asked
          url,           \* the one being asked, or NoUrl
          restfulCount,  \* conCount of getRestful
          re,            \* re.Status: "zero", "200" or "other"
          status,        \* restfulMsg.Status
          restfulMsgs,   \* restfulMsgs[u]: the verdict appended for u
          restfulAnswer  \* history: how the last attempt went

restfulVars ==
    <<asking, restfuls, url, restfulCount, re, status, restfulMsgs, restfulAnswer>>

RestfulTypeOK ==
    /\ asking \in {"sleep", "list", "ask", "push"}
    /\ restfuls \subseteq Urls
    /\ url \in Urls \cup {NoUrl}
    /\ restfulCount \in 0..3
    /\ re \in {"zero", "200", "other"}
    /\ status \in BOOLEAN
    /\ restfulMsgs \in [Urls -> {"none", "up", "down"}]
    /\ restfulAnswer \in {"none", "good", "bad"}

RestfulInit ==
    /\ asking = "sleep"
    /\ restfuls = {}
    /\ url = NoUrl
    /\ restfulCount = 0
    /\ re = "zero"
    /\ status = FALSE
    /\ restfulMsgs = [u \in Urls |-> "none"]
    /\ restfulAnswer = "none"

\* GetRestfuls; an error or an empty list ends the cycle.
GetRestfuls ==
    /\ asking = "sleep"
    /\ restfulMsgs' = [u \in Urls |-> "none"]
    /\ \/ restfuls' = {} /\ asking' = "sleep"
       \/ restfuls' \in (SUBSET Urls) \ {{}} /\ asking' = "list"
    /\ UNCHANGED <<url, restfulCount, re, status, restfulAnswer>>

\* getRestful begins: everything it counts and decodes is its own.
GetRestful == /\ asking = "list"
              /\ \E u \in restfuls : url' = u /\ restfuls' = restfuls \ {u}
              /\ asking' = "ask"
              /\ restfulCount' = 0
              /\ re' = "zero"
              /\ status' = FALSE
              /\ UNCHANGED <<restfulMsgs, restfulAnswer>>

\* What json.Unmarshal leaves in re.
Decoded(reply) == CASE reply \in {"200", "badField"} -> "200"
                    [] reply = "other" -> "other"
                    [] OTHER -> re

\* Does the attempt get as far as the test of the code?
Readable(reply) == reply \in {"200", "other", "noCode"}

MutantAsking == asking = "ask" /\ restfulCount < 2 /\ ~status

\* for conCount < 3 && !restfulMsg.Status
Asking == asking = "ask" /\ restfulCount < 3 /\ ~status

MutantFailed == status' = FALSE /\ restfulCount' = restfulCount + 2
MutantRestarted == status' = FALSE /\ restfulCount' = (restfulCount + 1) % 3

\* An attempt that failed is counted.
Failed == status' = FALSE /\ restfulCount' = restfulCount + 1

\* One attempt: utils.Request, decoding, and the test re.Status == 200.
Request(reply) ==
    /\ Asking
    /\ re' = Decoded(reply)
    /\ restfulAnswer' = IF reply = "200" THEN "good" ELSE "bad"
    /\ IF Readable(reply) /\ re' = "200"
       THEN status' = TRUE /\ restfulCount' = 0
       ELSE Failed
    /\ UNCHANGED <<asking, restfuls, url, restfulMsgs>>

AppendRestful ==
    /\ asking = "ask"
    /\ ~Asking
    /\ restfulMsgs' = [restfulMsgs EXCEPT ![url] = IF status THEN "up"
                                                   ELSE "down"]
    /\ asking' = IF restfuls = {} THEN "push" ELSE "list"
    /\ url' = NoUrl
    /\ restfulCount' = 0
    /\ restfulAnswer' = "none"
    /\ UNCHANGED <<restfuls, re, status>>

\* SyncServices; an error is only logged and the messages are not kept.
PushRestfuls ==
    /\ asking = "push"
    /\ asking' = "sleep"
    /\ UNCHANGED <<restfuls, url, restfulCount, re, status, restfulMsgs,
                   restfulAnswer>>

RestfulNext ==
    \/ GetRestfuls \/ GetRestful \/ AppendRestful \/ PushRestfuls
    \/ \E reply \in Replies : Request(reply)

RestfulSpec == RestfulInit /\ [][RestfulNext]_restfulVars

\* Request returns, at the latest when its timer fires.
RestfulFairness ==
    /\ WF_restfulVars(GetRestful)
    /\ WF_restfulVars(\E reply \in Replies : Request(reply))
    /\ WF_restfulVars(AppendRestful)
    /\ WF_restfulVars(PushRestfuls)
------------------------------------------------------------------------------
RestfulCycle == INSTANCE ProbeCycle WITH
    Targets <- Urls, NoTarget <- NoUrl,
    todo <- restfuls, cur <- url, failures <- restfulCount,
    answer <- restfulAnswer, verdict <- restfulMsgs

\* The monitor keeps the promise of ProbeCycle when every answer that can be
\* parsed has a code: an interface is reported down after three failed
\* attempts on it and up after one that answered 200.
RestfulsImplementCycle == RestfulCycle!Spec

\* What the comment on the test of the code says, for any answer: an
\* interface is up only if its last answer had the code 200, and everything
\* else is a fault.
UpMeans200 == [][\A u \in Urls : restfulMsgs[u] # "up" /\ restfulMsgs'[u] = "up"
                                  => restfulAnswer = "good"]_restfulVars

\* Every cycle comes to its end, whatever the interfaces answer.
RestfulCycleEnds == asking = "list" ~> asking = "sleep"
==============================================================================
