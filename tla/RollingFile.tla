------------------------------ MODULE RollingFile ------------------------------
(***************************************************************************)
(* The log files of a logger: rollingFile in utils/logging/rolling.go and  *)
(* the part of logger.go that directs a logger to a file.  An entry goes   *)
(* to the file of the day it is written on; the first entry of a day       *)
(* closes the file of the day before and opens the next.                   *)
(*                                                                         *)
(* Goroutines may share a logger, so a rollingFile has a mutex.            *)
(* SetOutputByName directs a logger to another path and closes what it has *)
(* used: entries on their way to the old files meet a closed rollingFile.  *)
(* In the program each loop has a logger of its own, from GetMyLogger,     *)
(* that is directed once; the package is modelled as it may be used.       *)
(***************************************************************************)
EXTENDS Naturals

CONSTANTS Writers,     \* goroutines that log
          LastDay,     \* bound: the days are 0..LastDay
          MaxPaths     \* bound: rollingFiles made for the logger

ASSUME BoundsAssumption == LastDay \in Nat /\ MaxPaths \in Nat \ {0}

Days == 0..LastDay
Rollers == 1..MaxPaths
NoFile == LastDay + 1      \* file is nil
Nobody == "nobody"

ASSUME WritersAssumption == Nobody \notin Writers

VARIABLES today,
          file,      \* file[r]: day of the open file, or NoFile
          fileFrag,  \* fileFrag[r]: day of the last attempt to open one
          closed,    \* closed[r]
          mu,        \* mu[r]: who holds the mutex
          handles,   \* files the operating system keeps open, as <<r, day>>
          core,      \* the rollingFile the logger writes to
          made,      \* rollingFiles made so far
          directing, \* SetOutputByName: "no", "closing", "closed"
          pc,        \* pc[w]: "idle", "waiting", "rolling", "writing"
          target,    \* target[w]: the rollingFile of the entry
          stamp      \* stamp[w]: the day the entry is stamped with

fileVars == <<file, fileFrag, closed, handles>>
loggerVars == <<core, made, directing>>
entryVars == <<target, stamp>>
vars == <<today, fileVars, mu, loggerVars, pc, entryVars>>

TypeOK == /\ today \in Days
          /\ file \in [Rollers -> Days \cup {NoFile}]
          /\ fileFrag \in [Rollers -> Days \cup {NoFile}]
          /\ closed \in [Rollers -> BOOLEAN]
          /\ mu \in [Rollers -> Writers \cup {Nobody}]
          /\ handles \subseteq Rollers \X Days
          /\ core \in 1..made
          /\ made \in Rollers
          /\ directing \in {"no", "closing", "closed"}
          /\ directing # "no" => made < MaxPaths
          /\ pc \in [Writers -> {"idle", "waiting", "rolling", "writing"}]
          /\ target \in [Writers -> Rollers]
          /\ stamp \in [Writers -> Days]

\* NewLogger has directed the logger to its path: nothing is open yet.
Init == /\ today = 0
        /\ file = [r \in Rollers |-> NoFile]
        /\ fileFrag = [r \in Rollers |-> NoFile]
        /\ closed = [r \in Rollers |-> FALSE]
        /\ mu = [r \in Rollers |-> Nobody]
        /\ handles = {}
        /\ core = 1
        /\ made = 1
        /\ directing = "no"
        /\ pc = [w \in Writers |-> "idle"]
        /\ target = [w \in Writers |-> 1]
        /\ stamp = [w \in Writers |-> 0]
------------------------------------------------------------------------------
Midnight == /\ today < LastDay
            /\ today' = today + 1
            /\ UNCHANGED <<fileVars, mu, loggerVars, pc, entryVars>>

Moves(w, from, to) == pc[w] = from /\ pc' = [pc EXCEPT ![w] = to]
Unlock(w) == mu' = [mu EXCEPT ![target[w]] = Nobody]

\* zap stamps the entry and hands it to the core the logger has now.
Log(w) == /\ Moves(w, "idle", "waiting")
          /\ target' = [target EXCEPT ![w] = core]
          /\ stamp' = [stamp EXCEPT ![w] = today]
          /\ UNCHANGED <<today, fileVars, mu, loggerVars>>

\* An entry that is refused is tried again at the logger's core.
MutantRefused(w) == /\ pc[w] = "waiting"
                    /\ mu[target[w]] = Nobody
                    /\ closed[target[w]]
                    /\ target' = [target EXCEPT ![w] = core]
                    /\ UNCHANGED <<today, fileVars, mu, loggerVars, pc, stamp>>

\* Write: the mutex, and nothing more for a rollingFile that is closed; the
\* entry is lost.
Refused(w) == /\ Moves(w, "waiting", "idle")
              /\ mu[target[w]] = Nobody
              /\ closed[target[w]]
              /\ UNCHANGED <<today, fileVars, mu, loggerVars, entryVars>>

MutantLock(w) == /\ Moves(w, "waiting", "rolling")
                 /\ ~closed[target[w]]
                 /\ mu' = [mu EXCEPT ![target[w]] = w]
                 /\ UNCHANGED <<today, fileVars, loggerVars, entryVars>>

Lock(w) == /\ Moves(w, "waiting", "rolling")
           /\ mu[target[w]] = Nobody
           /\ ~closed[target[w]]
           /\ mu' = [mu EXCEPT ![target[w]] = w]
           /\ UNCHANGED <<today, fileVars, loggerVars, entryVars>>

\* roll has nothing to do: a file is open, and it is today's.
Current(r) == file[r] # NoFile /\ fileFrag[r] = today

KeepFile(w) == /\ Moves(w, "rolling", "writing")
               /\ Current(target[w])
               /\ UNCHANGED <<today, fileVars, mu, loggerVars, entryVars>>

MutantOldClosed(r) == handles

\* The old file is closed whether or not the new one can be opened.
OldClosed(r) == handles \ {<<r, file[r]>>}

OpenFile(w) ==
    LET r == target[w] IN
    /\ Moves(w, "rolling", "writing")
    /\ ~Current(r)
    /\ handles' = OldClosed(r) \cup {<<r, today>>}
    /\ file' = [file EXCEPT ![r] = today]
    /\ fileFrag' = [fileFrag EXCEPT ![r] = today]
    /\ UNCHANGED <<today, closed, mu, loggerVars, entryVars>>

\* The directory cannot be made or the file not be opened: the entry is lost,
\* and as file is nil the next one tries again on the same day.
OpenFails(w) ==
    LET r == target[w] IN
    /\ Moves(w, "rolling", "idle")
    /\ ~Current(r)
    /\ handles' = OldClosed(r)
    /\ file' = [file EXCEPT ![r] = NoFile]
    /\ fileFrag' = [fileFrag EXCEPT ![r] = today]
    /\ Unlock(w)
    /\ UNCHANGED <<today, closed, loggerVars, entryVars>>

\* The entry is appended, or the disk is full.
WriteEntry(w) == /\ Moves(w, "writing", "idle")
                 /\ Unlock(w)
                 /\ UNCHANGED <<today, fileVars, loggerVars, entryVars>>

\* SetOutputByName: closeFiles first, unless the last call has failed after it.
Direct == /\ directing = "no"
          /\ made < MaxPaths
          /\ directing' = IF closed[core] THEN "closed" ELSE "closing"
          /\ UNCHANGED <<today, fileVars, mu, core, made, pc, entryVars>>

CloseFiles == /\ directing = "closing"
              /\ mu[core] = Nobody
              /\ closed' = [closed EXCEPT ![core] = TRUE]
              /\ handles' = OldClosed(core)
              /\ file' = [file EXCEPT ![core] = NoFile]
              /\ directing' = "closed"
              /\ UNCHANGED <<today, fileFrag, mu, core, made, pc, entryVars>>

\* Then the logger gets a core for the new path - or keeps the one whose file
\* is closed, when the path has no file name.
Directed == /\ directing = "closed"
            /\ \/ made' = made + 1 /\ core' = made + 1
               \/ UNCHANGED <<made, core>>
            /\ directing' = "no"
            /\ UNCHANGED <<today, fileVars, mu, pc, entryVars>>

Writes(w) == \/ Refused(w) \/ Lock(w) \/ KeepFile(w) \/ OpenFile(w) \/ OpenFails(w)
             \/ WriteEntry(w)

Next == \/ Midnight \/ Direct \/ CloseFiles \/ Directed
        \/ \E w \in Writers : Log(w) \/ Writes(w)

Spec == Init /\ [][Next]_vars

\* The goroutines run on.  Go's mutex hands itself over to one that has
\* waited for long, so that nobody is passed over for ever.
FairSpec == /\ Spec
            /\ \A w \in Writers : SF_vars(Writes(w))
            /\ SF_vars(CloseFiles) /\ WF_vars(Directed)
------------------------------------------------------------------------------
\* However openings fail and days change, at most one file of a rollingFile
\* is open, it is the one it writes to, and a closed one has none: a goroutine
\* that comes late with an entry does not open it again.
HandlesAccounted ==
    /\ handles = {<<r, file[r]>> : r \in {q \in Rollers : file[q] # NoFile}}
    /\ \A r \in Rollers : closed[r] => file[r] = NoFile

\* The file an entry is written to is open and not of a day before the
\* stamp of the entry, whichever goroutine has opened it.
EntryFitsFile ==
    \A w \in Writers : pc[w] = "writing" =>
        /\ file[target[w]] # NoFile
        /\ stamp[w] <= file[target[w]]

\* No goroutine is held up by the log: each entry is written or given up,
\* whatever fails, and the logger can be directed to another path.
LoggingReturns ==
    /\ \A w \in Writers : pc[w] = "waiting" ~> pc[w] = "idle"
    /\ directing = "closing" ~> directing = "no"
==============================================================================
