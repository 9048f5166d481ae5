---------------------------- MODULE MonitorProcess ----------------------------
(***************************************************************************)
(* The device monitor (DeviceCycle) next to the data synchronisation,      *)
(* sync/sync.go, in the one process main.go starts them in.  The loops     *)
(* share no data, only their end: nothing recovers from a panic, so a      *)
(* failed query of the telephone tables, which SyncDevice goes on to read  *)
(* from a nil result, takes the device monitor's reports with it, and an   *)
(* os.Exit of the device monitor interrupts the synchronisation.  The loop *)
(* that pushes readings of the machine can only end the process, too.      *)
(***************************************************************************)
EXTENDS DeviceCycle

Tables == {"devices", "telephones", "groups"}

VARIABLES at,      \* the table SyncDevice is at, or "asleep"
          read,    \* the query of that table has returned rows
          tried,   \* history: tables asked for in this synchronisation
          found,   \* history: tables that had rows
          sent     \* history: tables handed to SyncServices

syncVars == <<at, read, tried, found, sent>>
processVars == <<vars, syncVars>>

\* Types; and no table is handed over that was not asked for or was empty.
SyncTypeOK == /\ at \in Tables \cup {"asleep"}
              /\ read \in BOOLEAN
              /\ tried \subseteq Tables
              /\ found \subseteq tried
              /\ sent \subseteq found

SyncIdle == at = "asleep" /\ read = FALSE /\ tried = {} /\ found = {} /\ sent = {}

ProcessInit == Init /\ SyncIdle

Alive == pc # "exited"

MutantAfter(t) == IF t = "devices" THEN "groups" ELSE "asleep"

After(t) == CASE t = "devices" -> "telephones"
              [] t = "telephones" -> "groups"
              [] t = "groups" -> "asleep"
\* A new process: all variables of the loops are new.
SyncStartsAnew ==
    at' = "asleep" /\ read' = FALSE /\ tried' = {} /\ found' = {} /\ sent' = {}

MonitorStartsAnew == /\ n' = 0 /\ remote' = {} /\ next' = 1
                     /\ logMsgs' = <<>> /\ loop' = 0 /\ handed' = {}
------------------------------------------------------------------------------
\* gorm.Open has succeeded; when it fails the loop sleeps on.
OpenDatabase == /\ Alive
                /\ at = "asleep"
                /\ at' = "devices"
                /\ read' = FALSE
                /\ tried' = {} /\ found' = {} /\ sent' = {}

\* The table is empty; for the devices, a failed query comes to the same,
\* because createDevices goes on with the nil slice.
NothingToSend == /\ Alive
                 /\ at \in Tables
                 /\ ~read
                 /\ tried' = tried \cup {at}
                 /\ at' = After(at)
                 /\ UNCHANGED <<read, found, sent>>

ReadRows == /\ Alive
            /\ at \in Tables
            /\ ~read
            /\ read' = TRUE
            /\ tried' = tried \cup {at}
            /\ found' = found \cup {at}
            /\ UNCHANGED <<at, sent>>

\* An error of SyncServices is logged and the next table is taken.
SubmitTable == /\ Alive
               /\ at \in Tables
               /\ read
               /\ sent' = sent \cup {at}
               /\ at' = After(at)
               /\ read' = FALSE
               /\ UNCHANGED <<tried, found>>

ProcessEnds == Alive /\ SyncStartsAnew /\ pc' = "exited" /\ MonitorStartsAnew

\* createTelphones and createTelphoneGroups log the error of the query and
\* call Next of the nil rows.
QueryPanics == at \in {"telephones", "groups"} /\ ~read /\ ProcessEnds

\* The loop of main.go that pushes memory, CPU and disk usage keeps nothing
\* from one round to the next; a reading that fails is nil, and it is used.
ReadingPanics == ProcessEnds

Sync == OpenDatabase \/ NothingToSend \/ ReadRows \/ SubmitTable

ProcessNext == \/ Next /\ ~Exit /\ UNCHANGED syncVars
               \/ Exit /\ SyncStartsAnew
               \/ Sync /\ UNCHANGED vars
               \/ QueryPanics
               \/ ReadingPanics

ProcessSpec == ProcessInit /\ [][ProcessNext]_processVars

\* Both goroutines run on, and the service manager restarts the process.
ProcessFairSpec == /\ ProcessSpec
                   /\ WF_processVars(Next /\ (IF Exit THEN SyncStartsAnew ELSE UNCHANGED syncVars))
                   /\ WF_processVars(Sync /\ UNCHANGED vars)
------------------------------------------------------------------------------
SyncEnds == at # "asleep" /\ at' = "asleep" /\ pc' # "exited"
AllTablesDone == tried' = Tables /\ sent' = found'

\* A synchronisation that comes to its end has asked for all three tables,
\* whatever failed on the way, and has handed over each one that had rows.
CompleteSync == [][SyncEnds => AllTablesDone]_processVars

Crash == Alive /\ pc' = "exited"

\* Once the process stays up, and whatever died before, the device monitor
\* either goes into an examination that never returns, and is not heard of
\* again, or ends cycle after cycle and reports every device that is monitored
\* again and again.  Nothing else holds it up, least of all the
\* synchronisation, and a device passed over in cycles in which GetDevices
\* failed is reported in those in which it did not.
MonitoredReportedWithoutCrashes ==
    <>[][~Crash]_processVars => \/ <>[](pc = "stuck")
                                \/ []<>(pc = "sleep") /\ MonitoredDevicesReported
==============================================================================
