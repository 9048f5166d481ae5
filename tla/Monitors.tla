------------------------------- MODULE Monitors -------------------------------
(***************************************************************************)
(* The service monitor and the interface monitor as main.go starts them,   *)
(* two goroutines of one process.  They share no variable, only the client *)
(* (PlatformClient), so each keeps its promise whatever the other does.    *)
(***************************************************************************)
EXTENDS ServiceProbe, RestfulProbe

MonitorsInit == Init /\ RestfulInit

MonitorsNext == \/ Next /\ UNCHANGED restfulVars
                \/ RestfulNext /\ UNCHANGED vars

MonitorsSpec == MonitorsInit /\ [][MonitorsNext]_<<vars, restfulVars>>

\* Neither loop keeps the other from running.
MonitorsFairSpec == MonitorsSpec /\ Fairness /\ RestfulFairness
==============================================================================
