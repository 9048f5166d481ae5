---------------------------- MODULE ReportDelivery ----------------------------
(***************************************************************************)
(* What SyncServices promises the loop that calls it, without tokens,      *)
(* requests or timers: a report is handed over, the platform applies it at *)
(* most once or refuses it, and the loop learns "ok" only for a report     *)
(* that was applied.  "error" promises nothing: the report may be refused, *)
(* applied, or still on its way, and it is not handed over again.          *)
(***************************************************************************)
CONSTANTS Loops,      \* the loops that report
          Reports,    \* identities of reports, used again once settled
          NoReport    \* not one of Reports

VARIABLES fate,       \* fate[r] of the report r at the platform
          holding,    \* holding[l]: the report l waits for, or NoReport
          told        \* told[l]: what l learned of its last report

vars == <<fate, holding, told>>

Fates == {"idle", "pending", "applied", "refused"}

TypeOK == /\ fate \in [Reports -> Fates]
          /\ holding \in [Loops -> Reports \cup {NoReport}]
          /\ told \in [Loops -> {"nothing", "ok", "error"}]

Init == /\ fate = [r \in Reports |-> "idle"]
        /\ holding = [l \in Loops |-> NoReport]
        /\ told = [l \in Loops |-> "nothing"]

Held(r) == \E l \in Loops : holding[l] = r

\* A loop hands over its next report.
Submit(l, r) == /\ holding[l] = NoReport
                /\ fate[r] = "idle"
                /\ fate' = [fate EXCEPT ![r] = "pending"]
                /\ holding' = [holding EXCEPT ![l] = r]
                /\ told' = [told EXCEPT ![l] = "nothing"]

\* The platform applies a report, or it is refused or lost.
Settle(r) == /\ fate[r] = "pending"
             /\ \E f \in {"applied", "refused"} : fate' = [fate EXCEPT ![r] = f]
             /\ UNCHANGED <<holding, told>>

\* A loop stops waiting; a report that is not settled yet goes on.
Return(l) == /\ holding[l] # NoReport
             /\ \/ told' = [told EXCEPT ![l] = "error"]
                \/ /\ fate[holding[l]] = "applied"
                   /\ told' = [told EXCEPT ![l] = "ok"]
             /\ \/ fate' = fate
                \/ /\ fate[holding[l]] # "pending"
                   /\ fate' = [fate EXCEPT ![holding[l]] = "idle"]
             /\ holding' = [holding EXCEPT ![l] = NoReport]

\* A report nobody waits for any more is settled and forgotten.
Forget(r) == /\ fate[r] \in {"applied", "refused"}
             /\ ~Held(r)
             /\ fate' = [fate EXCEPT ![r] = "idle"]
             /\ UNCHANGED <<holding, told>>

\* The process ends and starts again; nobody follows what it had reported.
Restart == /\ fate' = [r \in Reports |-> "idle"]
           /\ holding' = [l \in Loops |-> NoReport]
           /\ told' = [l \in Loops |-> "nothing"]

Next == \/ \E l \in Loops : Return(l) \/ \E r \in Reports : Submit(l, r)
        \/ \E r \in Reports : Settle(r) \/ Forget(r)
        \/ Restart

Spec == Init /\ [][Next]_vars
==============================================================================
