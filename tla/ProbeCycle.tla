------------------------------ MODULE ProbeCycle ------------------------------
(***************************************************************************)
(* What a monitoring cycle promises, for services and for interfaces       *)
(* alike: every target of the list gets one verdict, "down" after three    *)
(* attempts that all failed (README, v1.8) and "up" right after the first  *)
(* attempt that succeeded.                                                 *)
(***************************************************************************)
EXTENDS Naturals

CONSTANTS Targets, NoTarget     \* NoTarget is not one of Targets

VARIABLES todo,      \* targets of this cycle that have not been probed
          cur,       \* the target being probed, or NoTarget
          failures,  \* failed attempts on cur
          answer,    \* how the last attempt on cur really went
          verdict    \* verdict[t] in this cycle

vars == <<todo, cur, failures, answer, verdict>>

MaxAttempts == 3

TypeOK == /\ todo \subseteq Targets
          /\ cur \in Targets \cup {NoTarget}
          /\ failures \in 0..MaxAttempts
          /\ answer \in {"none", "good", "bad"}
          /\ verdict \in [Targets -> {"none", "up", "down"}]

Init == /\ todo = {}
        /\ cur = NoTarget
        /\ failures = 0
        /\ answer = "none"
        /\ verdict = [t \in Targets |-> "none"]

Fetch == /\ cur = NoTarget
         /\ todo = {}
         /\ todo' \in SUBSET Targets
         /\ verdict' = [t \in Targets |-> "none"]
         /\ UNCHANGED <<cur, failures, answer>>

Pick == /\ cur = NoTarget
        /\ \E t \in todo : cur' = t /\ todo' = todo \ {t}
        /\ UNCHANGED <<failures, answer, verdict>>

Attempt == /\ cur # NoTarget
           /\ answer # "good"
           /\ failures < MaxAttempts
           /\ \/ answer' = "good" /\ failures' = 0
              \/ answer' = "bad" /\ failures' = failures + 1
           /\ UNCHANGED <<todo, cur, verdict>>

Judge == /\ cur # NoTarget
         /\ \/ answer = "good" /\ verdict' = [verdict EXCEPT ![cur] = "up"]
            \/ /\ answer = "bad"
               /\ failures = MaxAttempts
               /\ verdict' = [verdict EXCEPT ![cur] = "down"]
         /\ cur' = NoTarget
         /\ failures' = 0
         /\ answer' = "none"
         /\ UNCHANGED todo

Next == Fetch \/ Pick \/ Attempt \/ Judge

Spec == Init /\ [][Next]_vars
===============================================================================
