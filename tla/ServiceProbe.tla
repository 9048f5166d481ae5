----------------------------- MODULE ServiceProbe -----------------------------
(***************************************************************************)
(* The service monitor: CheckService in sync/service.go, NewRabbitMQ and   *)
(* Destory in sync/rabbitmq.go, called by the loop of syncService.         *)
(* A RabbitMQ service is probed by opening a connection and a channel, any *)
(* other by connecting to its port.                                        *)
(***************************************************************************)
EXTENDS Naturals

CONSTANTS Services,      \* services the platform may list
          Rabbit,        \* those named "RabbitMQ"
          NoService

ASSUME ServiceAssumption == Rabbit \subseteq Services /\ NoService \notin Services

VARIABLES pc,
          serverList,    \* services of this cycle not yet probed
          server,        \* the one being probed, or NoService
          conCount,
          serverMsg,     \* Status and FaultMsg (is there a text)
          serverMsgs,    \* serverMsgs[s]: the message appended for s
          conns,         \* conns[s]: AMQP connections to s this cycle left open
          answer         \* history: how the last attempt went

vars == <<pc, serverList, server, conCount, serverMsg, serverMsgs, conns, answer>>

NoMsg == [appended |-> FALSE, Status |-> FALSE, FaultMsg |-> FALSE]
Appended(m) == [appended |-> TRUE, Status |-> m.Status, FaultMsg |-> m.FaultMsg]
EmptyMsg == [Status |-> FALSE, FaultMsg |-> FALSE]

TypeOK == /\ pc \in {"sleep", "list", "probe", "push"}
          /\ serverList \subseteq Services
          /\ server \in Services \cup {NoService}
          /\ conCount \in 0..3
          /\ serverMsg \in [Status : BOOLEAN, FaultMsg : BOOLEAN]
          /\ serverMsgs \in [Services -> [appended : BOOLEAN, Status : BOOLEAN,
                                          FaultMsg : BOOLEAN]]
          /\ conns \in [Services -> Nat]
          /\ answer \in {"none", "good", "bad"}

Init == /\ pc = "sleep"
        /\ serverList = {}
        /\ server = NoService
        /\ conCount = 0
        /\ serverMsg = EmptyMsg
        /\ serverMsgs = [s \in Services |-> NoMsg]
        /\ conns = [s \in Services |-> 0]
        /\ answer = "none"

\* GetServices returns a list; an error or an empty list ends the cycle.
GetServices ==
    /\ pc = "sleep"
    /\ serverMsgs' = [s \in Services |-> NoMsg]
    /\ conns' = [s \in Services |-> 0]
    /\ \/ serverList' = {} /\ pc' = "sleep"
       \/ serverList' \in (SUBSET Services) \ {{}} /\ pc' = "list"
    /\ UNCHANGED <<server, conCount, serverMsg, answer>>

\* The next service of the list starts with a message of its own and with
\* no attempt counted.
NextService ==
    /\ pc = "list"
    /\ \E s \in serverList : server' = s /\ serverList' = serverList \ {s}
    /\ pc' = "probe"
    /\ serverMsg' = EmptyMsg
    /\ conCount' = 0
    /\ UNCHANGED <<serverMsgs, conns, answer>>

MutantProbing == pc = "probe" /\ conCount < 2 /\ ~serverMsg.Status

\* for conCount < 3 && !serverMsg.Status
Probing == pc = "probe" /\ conCount < 3 /\ ~serverMsg.Status

MutantFails == /\ serverMsg' = [serverMsg EXCEPT !.FaultMsg = TRUE]
               /\ conCount' = conCount + 2
               /\ answer' = "bad"

\* The count starts again at the limit.
MutantWraps == /\ serverMsg' = [serverMsg EXCEPT !.FaultMsg = TRUE]
               /\ conCount' = (conCount + 1) % 3
               /\ answer' = "bad"

Fails == /\ serverMsg' = [serverMsg EXCEPT !.FaultMsg = TRUE]
         /\ conCount' = conCount + 1
         /\ answer' = "bad"

Succeeds == /\ serverMsg' = [serverMsg EXCEPT !.Status = TRUE]
            /\ answer' = "good"
            /\ UNCHANGED conCount

AttemptPort == /\ Probing
               /\ server \notin Rabbit
               /\ Fails \/ Succeeds
               /\ UNCHANGED <<pc, serverList, server, serverMsgs, conns>>

\* amqp.Dial fails; an answer that denies the vhost is as good as a success.
AttemptDial == /\ Probing
               /\ server \in Rabbit
               /\ Fails \/ Succeeds
               /\ UNCHANGED <<pc, serverList, server, serverMsgs, conns>>

MutantAttemptChannel ==
    /\ Probing
    /\ server \in Rabbit
    /\ Fails \/ Succeeds
    /\ conns' = [conns EXCEPT ![server] = @ + 1]
    /\ UNCHANGED <<pc, serverList, server, serverMsgs>>

\* Dial succeeds.  If the channel cannot be opened NewRabbitMQ returns
\* without closing the connection; otherwise Destory closes both.
AttemptChannel ==
    /\ Probing
    /\ server \in Rabbit
    /\ \/ Fails /\ conns' = [conns EXCEPT ![server] = @ + 1]
       \/ Succeeds /\ UNCHANGED conns
    /\ UNCHANGED <<pc, serverList, server, serverMsgs>>

Append == /\ pc = "probe"
          /\ ~Probing
          /\ serverMsgs' = [serverMsgs EXCEPT ![server] = Appended(serverMsg)]
          /\ pc' = IF serverList = {} THEN "push" ELSE "list"
          /\ server' = NoService
          /\ conCount' = 0
          /\ answer' = "none"
          /\ UNCHANGED <<serverList, serverMsg, conns>>

\* SyncServices; an error is only logged and the messages are not kept.
Push == /\ pc = "push"
        /\ pc' = "sleep"
        /\ UNCHANGED <<serverList, server, conCount, serverMsg, serverMsgs, conns,
                       answer>>

Next == \/ GetServices \/ NextService \/ AttemptPort \/ AttemptDial
        \/ AttemptChannel \/ Append \/ Push

Spec == Init /\ [][Next]_vars

\* Every dial has a time-out of its own, so an attempt ends.
Fairness == /\ WF_vars(NextService)
            /\ WF_vars(AttemptPort \/ AttemptDial \/ AttemptChannel)
            /\ WF_vars(Append)
            /\ WF_vars(Push)
------------------------------------------------------------------------------
Verdict(s) == CASE ~serverMsgs[s].appended -> "none"
                [] serverMsgs[s].appended /\ serverMsgs[s].Status -> "up"
                [] OTHER -> "down"

Cycle == INSTANCE ProbeCycle WITH
    Targets <- Services, NoTarget <- NoService,
    todo <- serverList, cur <- server,
    failures <- IF server = NoService \/ serverMsg.Status THEN 0 ELSE conCount,
    verdict <- [s \in Services |-> Verdict(s)]

\* The monitor keeps the promise of ProbeCycle: a service is reported down
\* only after three attempts in a row on that very service failed, and up
\* only after one that succeeded; nothing is carried over from the service
\* before it.
ImplementsProbeCycle == Cycle!Spec

\* What a cycle leaves behind has a limit: at most three connections to a
\* service, as many as attempts on it have failed, and at most two to one that
\* is reported up, since the attempt that found it up closes its own.  Nothing
\* ever closes those that are left; over the cycles they add up.
LeaksBounded ==
    \A s \in Services :
        /\ conns[s] <= 3
        /\ serverMsgs[s].Status => conns[s] <= 2
        /\ s = server => conns[s] <= conCount

\* Every cycle comes to its end, whatever the services answer.
CycleEnds == pc = "list" ~> pc = "sleep"
==============================================================================
