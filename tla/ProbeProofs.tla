------------------------------ MODULE ProbeProofs ------------------------------
(***************************************************************************)
(* Both monitors keep the promise of ProbeCycle, for any set of services   *)
(* and of interfaces, and their cycles have a bound.  They are goroutines  *)
(* of one process and share no variable; neither do the two modules, and   *)
(* what is proved of each holds in Monitors, where they run together.      *)
(***************************************************************************)
EXTENDS Monitors, TLAPS

\* What an attempt on a service leaves: a success is kept in Status, and
\* until there is one the failures are those that have been counted.  Between
\* two services nothing is counted.
AttemptsInv ==
    /\ pc = "probe" <=> server # NoService
    /\ pc \in {"sleep", "push"} => serverList = {}
    /\ server = NoService => conCount = 0 /\ answer = "none"
    /\ server # NoService =>
          /\ serverMsg.Status <=> answer = "good"
          /\ ~serverMsg.Status => (answer = "bad" <=> conCount > 0)

IInv == TypeOK /\ AttemptsInv
------------------------------------------------------------------------------
USE ServiceAssumption, UrlAssumption

LEMMA InitIInv == Init => IInv
BY DEF Init, IInv, TypeOK, AttemptsInv, EmptyMsg, NoMsg

\* An attempt of either kind, which counts a failure or keeps a success.
LEMMA Attempted ==
    ASSUME IInv, Probing, Fails \/ Succeeds,
           UNCHANGED <<pc, serverList, server, serverMsgs>>, conns' \in [Services -> Nat]
    PROVE  IInv'
<1> USE DEF IInv, TypeOK, AttemptsInv, Probing
<1>1. CASE Fails
  <2>1. /\ serverMsg' \in [Status : BOOLEAN, FaultMsg : BOOLEAN]
        /\ ~serverMsg'.Status
    BY <1>1 DEF Fails
  <2>2. answer' = "bad" /\ conCount' \in 1..3
    BY <1>1 DEF Fails
  <2> QED BY <2>1, <2>2
<1>2. CASE Succeeds
  <2>1. /\ serverMsg' \in [Status : BOOLEAN, FaultMsg : BOOLEAN]
        /\ serverMsg'.Status
    BY <1>2 DEF Succeeds
  <2>2. answer' = "good" /\ conCount' = conCount
    BY <1>2 DEF Succeeds
  <2> QED BY <2>1, <2>2
<1> QED BY <1>1, <1>2

LEMMA StepIInv == IInv /\ [Next]_vars => IInv'
<1> SUFFICES ASSUME IInv, [Next]_vars PROVE IInv'
  OBVIOUS
<1> USE DEF IInv, TypeOK, AttemptsInv
<1>1. CASE GetServices BY <1>1 DEF GetServices, NoMsg
<1>2. CASE NextService BY <1>2 DEF NextService, EmptyMsg
<1>3. CASE AttemptPort BY <1>3, Attempted DEF AttemptPort
<1>4. CASE AttemptDial BY <1>4, Attempted DEF AttemptDial
<1>5. CASE AttemptChannel
  <2>1. conns' \in [Services -> Nat]
    BY <1>5 DEF AttemptChannel
  <2> QED BY <1>5, <2>1, Attempted DEF AttemptChannel
<1>6. CASE Append BY <1>6 DEF Append, Appended
<1>7. CASE Push BY <1>7 DEF Push
<1>8. CASE UNCHANGED vars BY <1>8 DEF vars
<1> QED BY <1>1, <1>2, <1>3, <1>4, <1>5, <1>6, <1>7, <1>8 DEF Next

LEMMA Invariant == Spec => []IInv
BY InitIInv, StepIInv, PTL DEF Spec

\* The types of ServiceProbe: the variables of NewRabbitMQ and CheckService,
\* conCount among them, stay in their ranges.
THEOREM TypeCorrect == Spec => []TypeOK
<1>1. IInv => TypeOK BY DEF IInv
<1> QED BY <1>1, Invariant, PTL

------------------------------------------------------------------------------
\* One message for each service, and a bound on the cycle.

\* A service still to be probed has no message yet, and the list is gone
\* through to its end.
ListedInv == /\ \A s \in Services : s \in serverList \cup {server}
                                      => ~serverMsgs[s].appended
             /\ server \notin serverList
             /\ pc = "list" => serverList # {}

LEMMA ListedStep == IInv /\ ListedInv /\ [Next]_vars => ListedInv'
<1> SUFFICES ASSUME IInv, ListedInv, [Next]_vars PROVE ListedInv'
  OBVIOUS
<1> USE DEF IInv, TypeOK, AttemptsInv, ListedInv
<1>1. CASE GetServices
  <2>1. \A s \in Services : ~serverMsgs'[s].appended
    BY <1>1 DEF GetServices, NoMsg
  <2>2. /\ server' = NoService /\ serverList' \subseteq Services
        /\ pc' = "list" => serverList' # {}
    BY <1>1 DEF GetServices
  <2> QED BY <2>1, <2>2
<1>2. CASE NextService BY <1>2 DEF NextService
<1>3. CASE AttemptPort \/ AttemptDial \/ AttemptChannel
  BY <1>3 DEF AttemptPort, AttemptDial, AttemptChannel, Probing
<1>4. CASE Append BY <1>4 DEF Append
<1>5. CASE Push BY <1>5 DEF Push
<1>6. CASE UNCHANGED vars BY <1>6 DEF vars
<1> QED BY <1>1, <1>2, <1>3, <1>4, <1>5, <1>6 DEF Next

LEMMA ListedInvariant == Spec => []ListedInv
<1>1. Init => ListedInv BY DEF Init, ListedInv, NoMsg
<1> QED BY <1>1, Invariant, ListedStep, PTL DEF Spec

\* CheckService makes one message for each service of the list: none is left
\* out, and a message made is not touched before the next list is fetched.
THEOREM OneMessageEach ==
    Spec => [][pc # "sleep" =>
                 \A s \in Services :
                    /\ s \in serverList \cup {server}
                         => s \in serverList' \cup {server'} \/ serverMsgs'[s].appended
                    /\ serverMsgs[s].appended => serverMsgs'[s] = serverMsgs[s]]_vars
<1>1. IInv /\ ListedInv /\ [Next]_vars
        => (pc # "sleep" =>
              \A s \in Services :
                 /\ s \in serverList \cup {server}
                      => s \in serverList' \cup {server'} \/ serverMsgs'[s].appended
                 /\ serverMsgs[s].appended => serverMsgs'[s] = serverMsgs[s])
  <2> SUFFICES ASSUME IInv, ListedInv, [Next]_vars, pc # "sleep", NEW s \in Services
               PROVE  /\ s \in serverList \cup {server}
                           => \/ s \in serverList' \cup {server'}
                              \/ serverMsgs'[s].appended
                      /\ serverMsgs[s].appended => serverMsgs'[s] = serverMsgs[s]
    OBVIOUS
  <2> USE DEF IInv, TypeOK, AttemptsInv, ListedInv
  <2>1. CASE NextService BY <2>1 DEF NextService
  <2>2. CASE Append BY <2>2 DEF Append, Appended
  <2> QED BY <2>1, <2>2 DEF Next, GetServices, AttemptPort, AttemptDial,
                            AttemptChannel, Push, vars
<1> QED BY <1>1, Invariant, ListedInvariant, PTL DEF Spec

\* A service has left no connection before it is probed, then no more than
\* attempts on it have failed: three, or two if it is found up.
LeaksInv == /\ LeaksBounded
            /\ \A s \in serverList : conns[s] = 0
            /\ \A s \in Services : serverMsgs[s].Status => serverMsgs[s].appended
            /\ serverMsg.Status /\ pc = "probe" => conCount <= 2

LEMMA LeaksStep == IInv /\ ListedInv /\ LeaksInv /\ [Next]_vars => LeaksInv'
<1> SUFFICES ASSUME IInv, ListedInv, LeaksInv, [Next]_vars PROVE LeaksInv'
  OBVIOUS
<1> USE DEF IInv, TypeOK, AttemptsInv, LeaksInv, LeaksBounded
<1>1. CASE GetServices BY <1>1 DEF GetServices, NoMsg
<1>2. CASE NextService BY <1>2 DEF NextService, EmptyMsg, ListedInv
<1>3. CASE AttemptPort \/ AttemptDial \/ AttemptChannel
  <2>1. /\ conCount < 3 /\ pc = "probe" /\ server \in Services
        /\ ~serverMsgs[server].Status /\ server \notin serverList
        /\ UNCHANGED <<pc, serverList, server, serverMsgs>>
    <3>1. /\ conCount < 3 /\ pc = "probe"
          /\ UNCHANGED <<pc, serverList, server, serverMsgs>>
      BY <1>3 DEF AttemptPort, AttemptDial, AttemptChannel, Probing
    <3>2. server \in Services
      BY <3>1
    <3> QED BY <3>1, <3>2 DEF ListedInv
  <2>2. \A s \in Services \ {server} : conns'[s] = conns[s]
    BY <1>3 DEF AttemptPort, AttemptDial, AttemptChannel
  <2>3. CASE Fails
    <3>1. conCount' = conCount + 1 /\ ~serverMsg'.Status
      <4>1. ~serverMsg.Status
        BY <1>3 DEF AttemptPort, AttemptDial, AttemptChannel, Probing
      <4> QED BY <2>3, <4>1 DEF Fails
    <3>2. conns'[server] \in {conns[server], conns[server] + 1}
      BY <1>3, <2>1 DEF AttemptPort, AttemptDial, AttemptChannel
    <3> QED BY <2>1, <2>2, <3>1, <3>2
  <2>4. CASE Succeeds
    <3>1. conCount' = conCount /\ answer' = "good"
      BY <2>4 DEF Succeeds
    <3>2. conns' = conns
      BY <1>3, <2>4, <3>1 DEF AttemptPort, AttemptDial, AttemptChannel, Fails
    <3> QED BY <2>1, <3>1, <3>2
  <2> QED BY <1>3, <2>3, <2>4 DEF AttemptPort, AttemptDial, AttemptChannel
<1>4. CASE Append
  <2>1. server \in Services /\ server' = NoService /\ conns' = conns
    BY <1>4 DEF Append
  <2>2. /\ serverMsgs'[server].Status = serverMsg.Status
        /\ serverMsgs'[server].appended
        /\ \A s \in Services \ {server} : serverMsgs'[s] = serverMsgs[s]
    BY <1>4, <2>1 DEF Append, Appended
  <2> QED BY <1>4, <2>1, <2>2 DEF Append
<1>5. CASE Push BY <1>5 DEF Push
<1>6. CASE UNCHANGED vars BY <1>6 DEF vars
<1> QED BY <1>1, <1>2, <1>3, <1>4, <1>5, <1>6 DEF Next

\* NewRabbitMQ leaves the connection of a failed channel open: in a cycle
\* three to a service at most, two to one that is found up in the end.
THEOREM LeaksAreFew == Spec => []LeaksBounded
<1>1. Init => LeaksInv
  BY DEF Init, LeaksInv, LeaksBounded, NoMsg
<1>2. LeaksInv => LeaksBounded
  BY DEF LeaksInv
<1> QED BY <1>1, <1>2, Invariant, ListedInvariant, LeaksStep, PTL DEF Spec

\* Steps until the service being probed has its message, or the cycle is over.
StepsLeft == CASE pc = "probe" -> 2 + IF serverMsg.Status THEN 0 ELSE 3 - conCount
               [] pc \in {"list", "push"} -> 1
               [] OTHER -> 0

\* A step that goes on with the list, or is one of the few between two.
Advances(list, steps) == \/ list' \subseteq list /\ list' # list
                         \/ list' = list /\ steps' < steps

\* A cycle of CheckService has an end in sight: each step takes a service off
\* the list or is one of the at most five spent on a service, so CycleEnds
\* needs nothing more than that the steps are taken.
THEOREM ServiceCycleIsBounded ==
    Spec => [][pc # "sleep" => Advances(serverList, StepsLeft)]_vars
<1>1. ASSUME IInv, pc # "sleep", Next
      PROVE  Advances(serverList, StepsLeft)
  <2> USE DEF IInv, TypeOK, AttemptsInv
  <2>1. CASE NextService BY <1>1, <2>1 DEF NextService, Advances
  <2>2. CASE AttemptPort \/ AttemptDial \/ AttemptChannel
    <3>1. /\ pc = "probe" /\ conCount < 3 /\ ~serverMsg.Status
          /\ pc' = pc /\ serverList' = serverList
      BY <2>2 DEF AttemptPort, AttemptDial, AttemptChannel, Probing
    <3>2. StepsLeft = 5 - conCount
      BY <1>1, <3>1 DEF StepsLeft
    <3>3. CASE Fails
      <4>1. ~serverMsg'.Status
        BY <1>1, <3>1, <3>3 DEF Fails
      <4>2. StepsLeft' = 4 - conCount
        BY <1>1, <3>1, <3>3, <4>1 DEF StepsLeft, Fails
      <4> QED BY <1>1, <3>1, <3>2, <4>2 DEF Advances
    <3>4. CASE Succeeds
      <4>1. serverMsg'.Status
        BY <1>1, <3>4 DEF Succeeds
      <4>2. StepsLeft' = 2
        BY <3>1, <4>1 DEF StepsLeft
      <4> QED BY <1>1, <3>1, <3>2, <4>2 DEF Advances
    <3> QED BY <2>2, <3>3, <3>4 DEF AttemptPort, AttemptDial, AttemptChannel
  <2>3. CASE Append
    <3>1. StepsLeft \in {2 + n : n \in 0..3} /\ serverList' = serverList
      BY <1>1, <2>3 DEF Append, StepsLeft
    <3>2. StepsLeft' = 1
      BY <2>3 DEF Append, StepsLeft
    <3> QED BY <3>1, <3>2 DEF Advances
  <2>4. CASE Push BY <2>4 DEF Push, Advances, StepsLeft
  <2> QED BY <1>1, <2>1, <2>2, <2>3, <2>4 DEF Next, GetServices
<1>2. IInv /\ [Next]_vars => [pc # "sleep" => Advances(serverList, StepsLeft)]_vars
  BY <1>1
<1> QED BY <1>2, Invariant, PTL DEF Spec
------------------------------------------------------------------------------
\* The refinement.
USE DEF Cycle!MaxAttempts

LEMMA InitCycle == Init => Cycle!Init
BY DEF Init, Cycle!Init, Verdict, NoMsg

\* An attempt of either kind is one of ProbeCycle.
LEMMA AttemptCycle ==
    ASSUME IInv, Probing, Fails \/ Succeeds,
           UNCHANGED <<pc, serverList, server, serverMsgs>>
    PROVE  Cycle!Attempt
<1> USE DEF IInv, TypeOK, AttemptsInv, Probing, Cycle!Attempt
<1>1. UNCHANGED <<serverList, server, [s \in Services |-> Verdict(s)]>>
  BY DEF Verdict
<1>2. server # NoService /\ answer # "good" /\ ~serverMsg.Status
  OBVIOUS
<1>3. CASE Fails
  <2>1. ~serverMsg'.Status /\ conCount' = conCount + 1 /\ answer' = "bad"
    BY <1>3 DEF Fails
  <2> QED BY <1>1, <1>2, <2>1
<1>4. CASE Succeeds
  <2>1. serverMsg'.Status /\ answer' = "good"
    BY <1>4 DEF Succeeds
  <2> QED BY <1>1, <1>2, <2>1
<1> QED BY <1>3, <1>4

LEMMA StepCycle == IInv /\ [Next]_vars => [Cycle!Next]_(Cycle!vars)
<1> SUFFICES ASSUME IInv, [Next]_vars PROVE [Cycle!Next]_(Cycle!vars)
  OBVIOUS
<1> USE DEF IInv, TypeOK, AttemptsInv
<1>1. CASE GetServices
  BY <1>1 DEF GetServices, NoMsg, Verdict, Cycle!Fetch, Cycle!Next
<1>2. CASE NextService
  BY <1>2 DEF NextService, EmptyMsg, Verdict, Cycle!Pick, Cycle!Next
<1>3. CASE AttemptPort \/ AttemptDial \/ AttemptChannel
  BY <1>3, AttemptCycle DEF AttemptPort, AttemptDial, AttemptChannel, Cycle!Next
<1>4. CASE Append
  <2>1. PICK t \in Services : t = server
    BY <1>4 DEF Append
  <2>2. /\ server' = NoService
        /\ conCount' = 0 /\ answer' = "none" /\ serverList' = serverList
        /\ conCount = 3 \/ serverMsg.Status
    BY <1>4 DEF Append, Probing
  <2>3. /\ serverMsgs'[t] = Appended(serverMsg)
        /\ \A s \in Services \ {t} : serverMsgs'[s] = serverMsgs[s]
    BY <1>4, <2>1 DEF Append
  <2>4. /\ Verdict(t)' = IF serverMsg.Status THEN "up" ELSE "down"
        /\ \A s \in Services \ {t} : Verdict(s)' = Verdict(s)
    BY <2>3 DEF Appended, Verdict
  <2>5. [s \in Services |-> Verdict(s)]'
        = [[s \in Services |-> Verdict(s)] EXCEPT
              ![t] = IF serverMsg.Status THEN "up" ELSE "down"]
    BY <2>4
  <2>6. /\ t # NoService
        /\ IF serverMsg.Status THEN answer = "good"
           ELSE answer = "bad" /\ conCount = 3
    BY <2>1, <2>2
  <2>7. CASE serverMsg.Status
    BY <2>1, <2>2, <2>5, <2>6, <2>7 DEF Cycle!Judge, Cycle!Next
  <2>8. CASE ~serverMsg.Status
    BY <2>1, <2>2, <2>5, <2>6, <2>8 DEF Cycle!Judge, Cycle!Next
  <2> QED BY <2>7, <2>8
<1>5. CASE Push BY <1>5 DEF Push, Verdict, Cycle!vars
<1>6. CASE UNCHANGED vars BY <1>6 DEF vars, Verdict, Cycle!vars
<1> QED BY <1>1, <1>2, <1>3, <1>4, <1>5, <1>6 DEF Next

\* The service monitor implements ProbeCycle: CheckService reports a service
\* down after three failures in a row on that service, up after a success.
THEOREM ServicesAreJudged == Spec => ImplementsProbeCycle
BY InitCycle, Invariant, StepCycle, PTL DEF Spec, ImplementsProbeCycle, Cycle!Spec
------------------------------------------------------------------------------
\* The interface monitor.

\* The types apart from that of status, a Boolean.
OtherTypes == /\ asking \in {"sleep", "list", "ask", "push"}
              /\ restfuls \subseteq Urls
              /\ url \in Urls \cup {NoUrl}
              /\ restfulCount \in 0..3
              /\ re \in {"zero", "200", "other"}
              /\ restfulMsgs \in [Urls -> {"none", "up", "down"}]
              /\ restfulAnswer \in {"none", "good", "bad"}

LEMMA RestfulTypes ==
    /\ RestfulInit => RestfulTypeOK
    /\ RestfulTypeOK /\ [RestfulNext]_restfulVars => RestfulTypeOK'
<1>1. RestfulInit => status \in BOOLEAN
  BY DEF RestfulInit
<1>2. RestfulInit => OtherTypes
  BY DEF RestfulInit, OtherTypes
<1>3. ASSUME status \in BOOLEAN, [RestfulNext]_restfulVars
      PROVE  status' \in BOOLEAN
  BY <1>3 DEF RestfulNext, restfulVars, Request, Failed, GetRestfuls,
              GetRestful, AppendRestful, PushRestfuls
<1>4. ASSUME OtherTypes, [RestfulNext]_restfulVars
      PROVE  OtherTypes'
  <2> USE DEF OtherTypes
  <2>1. ASSUME NEW reply \in Replies, Request(reply)
        PROVE  OtherTypes'
    <3>1. re' \in {"zero", "200", "other"} /\ restfulAnswer' \in {"good", "bad"}
      BY <1>4, <2>1 DEF Request, Decoded, Failed
    <3>2. restfulCount' \in 0..3
      BY <1>4, <2>1 DEF Request, Asking, Failed
    <3> QED BY <1>4, <2>1, <3>1, <3>2 DEF Request
  <2>2. CASE GetRestfuls
    BY <1>4, <2>2 DEF GetRestfuls
  <2>3. CASE GetRestful
    BY <1>4, <2>3 DEF GetRestful
  <2>4. CASE AppendRestful
    <3>1. restfulMsgs' \in [Urls -> {"none", "up", "down"}]
      <4>1. CASE status BY <1>4, <2>4, <4>1 DEF AppendRestful
      <4>2. CASE ~status BY <1>4, <2>4, <4>2 DEF AppendRestful
      <4> QED BY <4>1, <4>2
    <3> QED BY <1>4, <2>4, <3>1 DEF AppendRestful
  <2>5. CASE PushRestfuls
    BY <1>4, <2>5 DEF PushRestfuls
  <2>6. CASE UNCHANGED restfulVars
    BY <1>4, <2>6 DEF restfulVars
  <2> QED BY <1>4, <2>1, <2>2, <2>3, <2>4, <2>5, <2>6 DEF RestfulNext
<1> QED BY <1>1, <1>2, <1>3, <1>4 DEF RestfulTypeOK, OtherTypes

\* The types of the interface monitor, whatever is answered: the count of
\* getRestful stays within its bound, and so do the code and the verdicts.
THEOREM RestfulTypeCorrect == RestfulSpec => []RestfulTypeOK
BY RestfulTypes, PTL DEF RestfulSpec

\* Whatever is answered: a failure is counted, nothing is counted between two
\* interfaces, and an interface still to be asked has no verdict yet.
AskedInv ==
    /\ asking = "ask" <=> url # NoUrl
    /\ asking = "list" => restfuls # {}
    /\ url # NoUrl /\ ~status => (restfulAnswer = "bad" <=> restfulCount > 0)
    /\ url = NoUrl => restfulCount = 0 /\ restfulAnswer = "none"
    /\ url \notin restfuls
    /\ \A u \in Urls : u \in restfuls \cup {url} => restfulMsgs[u] = "none"

LEMMA AskedStep == RestfulTypeOK /\ AskedInv /\ [RestfulNext]_restfulVars => AskedInv'
<1> SUFFICES ASSUME RestfulTypeOK, AskedInv, [RestfulNext]_restfulVars PROVE AskedInv'
  OBVIOUS
<1> USE DEF RestfulTypeOK, AskedInv
<1>1. CASE GetRestfuls BY <1>1 DEF GetRestfuls
<1>2. CASE GetRestful BY <1>2 DEF GetRestful
<1>3. CASE AppendRestful BY <1>3 DEF AppendRestful
<1>4. CASE PushRestfuls BY <1>4 DEF PushRestfuls
<1>5. ASSUME NEW reply \in Replies, Request(reply) PROVE AskedInv'
  <2>1. asking = "ask" /\ UNCHANGED <<asking, restfuls, url, restfulMsgs>>
    BY <1>5 DEF Request, Asking
  <2>2. ~status' => restfulAnswer' = "bad" /\ restfulCount' > 0
    BY <1>5 DEF Request, Decoded, Readable, Failed
  <2> QED BY <2>1, <2>2
<1>6. CASE UNCHANGED restfulVars BY <1>6 DEF restfulVars
<1> QED BY <1>1, <1>2, <1>3, <1>4, <1>5, <1>6 DEF RestfulNext

LEMMA AskedInvariant == RestfulSpec => []AskedInv
<1>1. RestfulInit => AskedInv BY DEF RestfulInit, AskedInv
<1> QED BY <1>1, RestfulTypeCorrect, AskedStep, PTL DEF RestfulSpec

\* Whatever is answered, CheckRestful makes one message for each interface of
\* its list, and reports an interface down only after three attempts on it,
\* the last of them failed.
THEOREM DownMeansThreeFailures ==
    RestfulSpec => [][asking # "sleep" =>
        \A u \in Urls :
           /\ u \in restfuls \cup {url}
                => u \in restfuls' \cup {url'} \/ restfulMsgs'[u] # "none"
           /\ restfulMsgs[u] # "none" => restfulMsgs'[u] = restfulMsgs[u]
           /\ restfulMsgs'[u] = "down" /\ restfulMsgs[u] # "down"
                => u = url /\ restfulCount = 3 /\ restfulAnswer = "bad"]_restfulVars
<1>1. RestfulTypeOK /\ AskedInv /\ [RestfulNext]_restfulVars
        => (asking # "sleep" =>
              \A u \in Urls :
                 /\ u \in restfuls \cup {url}
                      => u \in restfuls' \cup {url'} \/ restfulMsgs'[u] # "none"
                 /\ restfulMsgs[u] # "none" => restfulMsgs'[u] = restfulMsgs[u]
                 /\ restfulMsgs'[u] = "down" /\ restfulMsgs[u] # "down"
                      => u = url /\ restfulCount = 3 /\ restfulAnswer = "bad")
  <2> SUFFICES ASSUME RestfulTypeOK, AskedInv, [RestfulNext]_restfulVars,
                      asking # "sleep", NEW u \in Urls
               PROVE  /\ u \in restfuls \cup {url}
                           => u \in restfuls' \cup {url'} \/ restfulMsgs'[u] # "none"
                      /\ restfulMsgs[u] # "none" => restfulMsgs'[u] = restfulMsgs[u]
                      /\ restfulMsgs'[u] = "down" /\ restfulMsgs[u] # "down"
                           => /\ u = url /\ restfulCount = 3
                              /\ restfulAnswer = "bad"
    OBVIOUS
  <2> USE DEF RestfulTypeOK, AskedInv
  <2>1. CASE GetRestful BY <2>1 DEF GetRestful
  <2>2. CASE AppendRestful
    <3>1. /\ restfuls' = restfuls /\ ~(restfulCount < 3 /\ ~status)
          /\ restfulMsgs' = [restfulMsgs EXCEPT ![url] = IF status THEN "up" ELSE "down"]
      BY <2>2 DEF AppendRestful, Asking
    <3>2. u # url => restfulMsgs'[u] = restfulMsgs[u]
      BY <3>1
    <3>3. u = url => /\ restfulMsgs[u] = "none" /\ restfulMsgs'[u] # "none"
                     /\ status => restfulMsgs'[u] = "up"
      BY <3>1
    <3>4. ~status => restfulCount = 3
      BY <3>1
    <3>5. u = url /\ restfulMsgs'[u] = "down" => restfulCount = 3 /\ restfulAnswer = "bad"
      BY <3>3, <3>4
    <3> QED BY <3>1, <3>2, <3>3, <3>5
  <2> QED BY <2>1, <2>2 DEF RestfulNext, GetRestfuls, PushRestfuls, Request, restfulVars
<1> QED BY <1>1, RestfulTypeCorrect, AskedInvariant, PTL DEF RestfulSpec

\* Steps until the interface being asked has its verdict, or the cycle is over.
RequestsLeft == CASE asking = "ask" -> 2 + IF status THEN 0 ELSE 3 - restfulCount
                  [] asking \in {"list", "push"} -> 1
                  [] OTHER -> 0

\* Whatever is answered, a cycle of CheckRestful has an end in sight.
THEOREM InterfaceCycleIsBounded ==
    RestfulSpec => [][asking # "sleep" => Advances(restfuls, RequestsLeft)]_restfulVars
<1>1. ASSUME RestfulTypeOK, asking # "sleep", RestfulNext
      PROVE  Advances(restfuls, RequestsLeft)
  <2> USE DEF RestfulTypeOK
  <2>1. CASE GetRestful BY <1>1, <2>1 DEF GetRestful, Advances
  <2>2. ASSUME NEW reply \in Replies, Request(reply)
        PROVE  Advances(restfuls, RequestsLeft)
    <3>1. /\ asking = "ask" /\ restfulCount < 3 /\ ~status
          /\ asking' = asking /\ restfuls' = restfuls
      BY <2>2 DEF Request, Asking
    <3>2. RequestsLeft = 5 - restfulCount
      BY <1>1, <3>1 DEF RequestsLeft
    <3>3. \/ status'
          \/ ~status' /\ restfulCount' = restfulCount + 1
      BY <2>2 DEF Request, Failed
    <3>4. RequestsLeft' = IF status' THEN 2 ELSE 4 - restfulCount
      BY <1>1, <3>1, <3>3 DEF RequestsLeft
    <3> QED BY <1>1, <3>1, <3>2, <3>4 DEF Advances
  <2>3. CASE AppendRestful
    <3>1. RequestsLeft \in {2 + n : n \in 0..3} /\ restfuls' = restfuls
      BY <1>1, <2>3 DEF AppendRestful, RequestsLeft
    <3>2. RequestsLeft' = 1
      BY <2>3 DEF AppendRestful, RequestsLeft
    <3> QED BY <3>1, <3>2 DEF Advances
  <2>4. CASE PushRestfuls BY <2>4 DEF PushRestfuls, Advances, RequestsLeft
  <2> QED BY <1>1, <2>1, <2>2, <2>3, <2>4 DEF RestfulNext, GetRestfuls
<1>2. RestfulTypeOK /\ [RestfulNext]_restfulVars
        => [asking # "sleep" => Advances(restfuls, RequestsLeft)]_restfulVars
  BY <1>1
<1> QED BY <1>2, RestfulTypeCorrect, PTL DEF RestfulSpec
------------------------------------------------------------------------------
\* The interface monitor implements ProbeCycle.

\* Every answer that can be parsed has a code: without that the code decodes
\* into what an earlier answer left, and UpMeans200 is violated.
AnswersHaveCodes == Replies \subseteq {"nothing", "unparsed", "200", "other"}

\* As for a service, and re has the code 200 only of an answer that counted
\* as a success.
RequestsInv ==
    /\ asking = "ask" <=> url # NoUrl
    /\ asking \in {"sleep", "push"} => restfuls = {}
    /\ url = NoUrl => restfulCount = 0 /\ restfulAnswer = "none"
    /\ url # NoUrl =>
          /\ status <=> restfulAnswer = "good"
          /\ status => restfulCount = 0
          /\ ~status => re # "200" /\ (restfulAnswer = "bad" <=> restfulCount > 0)

RestfulInv == RestfulTypeOK /\ RequestsInv

LEMMA InitRestful ==
    ASSUME AnswersHaveCodes
    PROVE  RestfulInit => RestfulInv /\ RestfulCycle!Init
<1> SUFFICES ASSUME RestfulInit PROVE RestfulInv /\ RestfulCycle!Init
  OBVIOUS
<1>1. RestfulTypeOK BY RestfulTypes
<1>2. RequestsInv BY DEF RestfulInit, RequestsInv
<1>3. RestfulCycle!Init BY DEF RestfulInit, RestfulCycle!Init
<1> QED BY <1>1, <1>2, <1>3 DEF RestfulInv

\* An attempt is one of ProbeCycle: it succeeds or counts as a failure.
LEMMA RequestIsAttempt ==
    ASSUME AnswersHaveCodes, RestfulInv, NEW reply \in Replies, Request(reply)
    PROVE  RestfulInv' /\ RestfulCycle!Attempt
<1> USE DEF RestfulInv, RestfulTypeOK, RequestsInv, AnswersHaveCodes
<1>1. /\ asking = "ask" /\ restfulCount < 3 /\ ~status
      /\ UNCHANGED <<asking, restfuls, url, restfulMsgs>>
  BY DEF Request, Asking, Failed
<1>2. CASE reply = "200"
  <2>1. /\ re' = "200" /\ restfulAnswer' = "good"
        /\ status' = TRUE /\ restfulCount' = 0
    BY <1>2 DEF Request, Decoded, Readable
  <2> QED BY <1>1, <2>1 DEF RestfulCycle!Attempt, RestfulCycle!MaxAttempts
<1>3. CASE reply # "200"
  <2>1. /\ re' \in {"zero", "other"} /\ restfulAnswer' = "bad"
        /\ status' = FALSE /\ restfulCount' = restfulCount + 1
    BY <1>1, <1>3 DEF Request, Decoded, Failed
  <2>2. RestfulCycle!Attempt
    BY <1>1, <2>1 DEF RestfulCycle!Attempt, RestfulCycle!MaxAttempts
  <2>3. restfulCount + 1 \in 1..3
    BY <1>1
  <2>4. RestfulTypeOK'
    BY RestfulTypes DEF RestfulNext
  <2>5. RequestsInv'
    BY <1>1, <2>1, <2>3
  <2> QED BY <2>2, <2>4, <2>5
<1> QED BY <1>2, <1>3

LEMMA RestfulStep ==
    ASSUME AnswersHaveCodes, RestfulInv, [RestfulNext]_restfulVars
    PROVE  RestfulInv' /\ [RestfulCycle!Next]_(RestfulCycle!vars)
<1> USE DEF RestfulInv, RestfulTypeOK, RequestsInv, AnswersHaveCodes, RestfulCycle!Next
<1>1. CASE GetRestfuls
  <2>1. RestfulTypeOK' BY RestfulTypes
  <2>2. RequestsInv' BY <1>1 DEF GetRestfuls
  <2>3. url = NoUrl BY <1>1 DEF GetRestfuls
  <2>4. RestfulCycle!Fetch
    BY <1>1, <2>3 DEF GetRestfuls, RestfulCycle!Fetch
  <2> QED BY <2>1, <2>2, <2>4
<1>2. CASE GetRestful
  <2>1. RestfulTypeOK' BY RestfulTypes
  <2>2. RequestsInv' BY <1>2 DEF GetRestful
  <2>3. url = NoUrl BY <1>2 DEF GetRestful
  <2>4. RestfulCycle!Pick
    BY <1>2, <2>3 DEF GetRestful, RestfulCycle!Pick
  <2> QED BY <2>1, <2>2, <2>4
<1>3. CASE AppendRestful
  <2>1. RestfulTypeOK' BY RestfulTypes
  <2>2. RequestsInv' BY <1>3 DEF AppendRestful
  <2>3. /\ url # NoUrl
        /\ IF status THEN restfulAnswer = "good"
           ELSE restfulAnswer = "bad" /\ restfulCount = 3
    BY <1>3 DEF AppendRestful, Asking
  <2>4. RestfulCycle!Judge
    BY <1>3, <2>3 DEF AppendRestful, RestfulCycle!Judge, RestfulCycle!MaxAttempts
  <2> QED BY <2>1, <2>2, <2>4
<1>4. CASE PushRestfuls
  BY <1>4 DEF PushRestfuls, RestfulCycle!vars
<1>5. ASSUME NEW reply \in Replies, Request(reply)
      PROVE  RestfulInv' /\ [RestfulCycle!Next]_(RestfulCycle!vars)
  BY <1>5, RequestIsAttempt
<1>6. CASE UNCHANGED restfulVars
  BY <1>6 DEF restfulVars, RestfulCycle!vars
<1> QED BY <1>1, <1>2, <1>3, <1>4, <1>5, <1>6 DEF RestfulNext

LEMMA RestfulInvariant ==
    ASSUME AnswersHaveCodes PROVE RestfulSpec => []RestfulInv
<1>1. RestfulInit => RestfulInv BY InitRestful
<1>2. RestfulInv /\ [RestfulNext]_restfulVars => RestfulInv' BY RestfulStep
<1> QED BY <1>1, <1>2, PTL DEF RestfulSpec

\* The interface monitor implements ProbeCycle as long as every answer that
\* can be parsed has a code: getRestful finds an interface down after three
\* failures in a row and up after an answer with the code 200.
THEOREM InterfacesAreJudged ==
    ASSUME AnswersHaveCodes PROVE RestfulSpec => RestfulsImplementCycle
<1>1. RestfulInit => RestfulCycle!Init BY InitRestful
<1>2. RestfulInv /\ [RestfulNext]_restfulVars
        => [RestfulCycle!Next]_(RestfulCycle!vars)
  BY RestfulStep
<1> QED BY <1>1, <1>2, RestfulInvariant, PTL
        DEF RestfulSpec, RestfulsImplementCycle, RestfulCycle!Spec
------------------------------------------------------------------------------
\* Both monitors in one process (main.go): a step of one leaves the state of
\* the other alone.
LEMMA MonitorsApart == MonitorsSpec => Spec /\ RestfulSpec
<1>1. [MonitorsNext]_<<vars, restfulVars>> => [Next]_vars /\ [RestfulNext]_restfulVars
  BY DEF MonitorsNext
<1> QED BY <1>1, PTL DEF MonitorsSpec, MonitorsInit, Spec, RestfulSpec

\* Next to each other both monitors keep their promises: neither a counter nor
\* a message of one gets into a verdict of the other.
THEOREM MonitorsJudge ==
    ASSUME AnswersHaveCodes
    PROVE  MonitorsSpec => ImplementsProbeCycle /\ RestfulsImplementCycle
BY MonitorsApart, ServicesAreJudged, InterfacesAreJudged, PTL
==============================================================================
