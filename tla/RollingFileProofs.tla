--------------------------- MODULE RollingFileProofs ---------------------------
(***************************************************************************)
(* For any number of goroutines, days and paths: the files that are open   *)
(* are those the rollingFiles write to, and an entry never gets into a     *)
(* file of a day before its stamp.  The invariant says what the mutex is   *)
(* for: between roll and write the file stays the one roll has left.       *)
(***************************************************************************)
EXTENDS RollingFile, TLAPS

\* Who is past the mutex holds it, and its rollingFile is not closed.
MutexInv == \A w \in Writers : pc[w] \in {"rolling", "writing"} =>
               mu[target[w]] = w /\ ~closed[target[w]]

\* An open file is that of the last attempt to open one.
FragInv == \A r \in Rollers : file[r] # NoFile => fileFrag[r] = file[r]

StampInv == \A w \in Writers : stamp[w] <= today

IInv == TypeOK /\ HandlesAccounted /\ MutexInv /\ FragInv /\ StampInv /\ EntryFitsFile
------------------------------------------------------------------------------
LEMMA NoFileIsNoDay == LastDay \in Nat /\ NoFile \notin Days
  BY BoundsAssumption DEF NoFile, Days

LEMMA InitIInv == Init => IInv
<1> SUFFICES ASSUME Init PROVE IInv
  OBVIOUS
<1> USE BoundsAssumption DEF Init, Rollers, Days
<1>1. TypeOK /\ 1 \in Rollers /\ 0 \in Days
  BY DEF TypeOK
<1>2. HandlesAccounted
  BY DEF HandlesAccounted
<1>3. MutexInv /\ FragInv /\ StampInv /\ EntryFitsFile
  BY DEF MutexInv, FragInv, StampInv, EntryFitsFile
<1> QED BY <1>1, <1>2, <1>3 DEF IInv

\* Steps that leave the files alone: the handles are as they were.
LEMMA FilesRest ==
    ASSUME IInv, UNCHANGED <<fileVars>>
    PROVE  HandlesAccounted' /\ FragInv'
  BY DEF IInv, HandlesAccounted, FragInv, fileVars

\* What roll and CloseFiles do to the files of r: close what is open, and
\* perhaps open the file of day d.
LEMMA FilesOf ==
    ASSUME IInv, NEW r \in Rollers, NEW d \in Days \cup {NoFile},
           file' = [file EXCEPT ![r] = d],
           handles' = IF d = NoFile THEN OldClosed(r) ELSE OldClosed(r) \cup {<<r, d>>},
           d # NoFile => closed'[r] = FALSE,
           \A q \in Rollers \ {r} : closed'[q] = closed[q]
    PROVE  HandlesAccounted'
<1> USE DEF IInv, TypeOK, HandlesAccounted
<1>1. file' \in [Rollers -> Days \cup {NoFile}] /\ file'[r] = d
  OBVIOUS
<1>2. \A q \in Rollers \ {r} : file'[q] = file[q]
  OBVIOUS
<1>3. \A q \in Rollers : closed'[q] => file'[q] = NoFile
  BY <1>1, <1>2
<1>4. OldClosed(r) = {<<q, file[q]>> : q \in {p \in Rollers \ {r} : file[p] # NoFile}}
  BY DEF OldClosed
<1>5. OldClosed(r) = {<<q, file'[q]>> : q \in {p \in Rollers \ {r} : file'[p] # NoFile}}
  BY <1>2, <1>4
<1>6. handles' = {<<q, file'[q]>> : q \in {p \in Rollers : file'[p] # NoFile}}
  BY <1>1, <1>5
<1> QED BY <1>3, <1>6

\* The writer at w alone holds the mutex of its rollingFile.
LEMMA Alone ==
    ASSUME IInv, NEW w \in Writers, pc[w] \in {"rolling", "writing"},
           NEW v \in Writers \ {w}, pc[v] \in {"rolling", "writing"}
    PROVE  target[v] # target[w]
  BY DEF IInv, MutexInv

\* A step of one entry.
LEMMA WriterKeeps ==
    ASSUME IInv, NEW w \in Writers, Log(w) \/ Writes(w)
    PROVE  IInv'
<1> DEFINE r == target[w]
<1> USE NoFileIsNoDay DEF IInv, TypeOK, Moves
<1>0. r \in Rollers
  OBVIOUS
<1>1. CASE Log(w)
  <2>1. core \in Rollers
    BY BoundsAssumption DEF Rollers
  <2>2. TypeOK' /\ StampInv'
    BY <1>1, <2>1, BoundsAssumption DEF Log, fileVars, loggerVars, StampInv, Days
  <2>3. MutexInv' /\ EntryFitsFile'
    BY <1>1 DEF Log, fileVars, MutexInv, EntryFitsFile
  <2> QED BY <1>1, <2>2, <2>3, FilesRest DEF Log
<1>2. CASE Refused(w)
  <2>1. TypeOK' /\ StampInv' /\ MutexInv' /\ EntryFitsFile'
    BY <1>2 DEF Refused, fileVars, loggerVars, entryVars, StampInv, MutexInv,
                EntryFitsFile
  <2> QED BY <1>2, <2>1, FilesRest DEF Refused
<1>3. CASE Lock(w)
  <2>1. TypeOK' /\ StampInv' /\ EntryFitsFile'
    BY <1>3 DEF Lock, fileVars, loggerVars, entryVars, StampInv, EntryFitsFile
  <2>2. MutexInv'
    <3>1. \A v \in Writers : pc[v] \in {"rolling", "writing"} => target[v] # r
      BY <1>3, WritersAssumption DEF Lock, MutexInv
    <3> QED BY <1>3, <3>1 DEF Lock, fileVars, entryVars, MutexInv
  <2> QED BY <1>3, <2>1, <2>2, FilesRest DEF Lock
<1>4. CASE KeepFile(w)
  <2>1. TypeOK' /\ StampInv' /\ MutexInv'
    BY <1>4 DEF KeepFile, fileVars, loggerVars, entryVars, StampInv, MutexInv
  <2>2. file[r] = today /\ stamp[w] <= today
    BY <1>4 DEF KeepFile, Current, FragInv, StampInv
  <2>3. EntryFitsFile'
    BY <1>4, <2>2 DEF KeepFile, Current, fileVars, entryVars, EntryFitsFile
  <2> QED BY <1>4, <2>1, <2>3, FilesRest DEF KeepFile
<1>5. CASE OpenFile(w)
  <2>1. handles' \subseteq Rollers \X Days
    BY <1>5 DEF OpenFile, OldClosed
  <2>2. TypeOK' /\ StampInv' /\ MutexInv' /\ FragInv'
    BY <1>5, <2>1 DEF OpenFile, loggerVars, entryVars, StampInv, MutexInv, FragInv
  <2>3. HandlesAccounted'
    BY <1>5, FilesOf DEF OpenFile, MutexInv
  <2>4. EntryFitsFile'
    BY <1>5, Alone DEF OpenFile, entryVars, EntryFitsFile, StampInv
  <2> QED BY <2>2, <2>3, <2>4
<1>6. CASE OpenFails(w)
  <2>1. handles' \subseteq Rollers \X Days
    BY <1>6 DEF OpenFails, OldClosed
  <2>2. TypeOK' /\ StampInv' /\ FragInv'
    BY <1>6, <2>1 DEF OpenFails, Unlock, loggerVars, entryVars, StampInv, FragInv
  <2>3. MutexInv' /\ EntryFitsFile'
    BY <1>6, Alone DEF OpenFails, Unlock, entryVars, EntryFitsFile, MutexInv
  <2>4. HandlesAccounted'
    BY <1>6, FilesOf DEF OpenFails
  <2> QED BY <2>2, <2>3, <2>4
<1>7. CASE WriteEntry(w)
  <2>1. TypeOK' /\ StampInv'
    BY <1>7 DEF WriteEntry, Unlock, fileVars, loggerVars, entryVars, StampInv
  <2>2. MutexInv' /\ EntryFitsFile'
    BY <1>7, Alone DEF WriteEntry, Unlock, fileVars, entryVars, EntryFitsFile, MutexInv
  <2> QED BY <1>7, <2>1, <2>2, FilesRest DEF WriteEntry
<1> QED
  BY <1>1, <1>2, <1>3, <1>4, <1>5, <1>6, <1>7 DEF Writes

LEMMA NextIInv == IInv /\ [Next]_vars => IInv'
<1> SUFFICES ASSUME IInv, [Next]_vars PROVE IInv'
  OBVIOUS
<1> USE NoFileIsNoDay DEF IInv, TypeOK
<1>1. CASE Midnight
  <2>1. TypeOK' /\ StampInv' /\ MutexInv' /\ EntryFitsFile'
    BY <1>1, BoundsAssumption
    DEF Midnight, fileVars, loggerVars, entryVars, StampInv, MutexInv, EntryFitsFile,
        Days
  <2> QED BY <1>1, <2>1, FilesRest DEF Midnight
<1>2. CASE Direct
  <2>1. TypeOK' /\ StampInv' /\ MutexInv' /\ EntryFitsFile'
    BY <1>2 DEF Direct, fileVars, entryVars, StampInv, MutexInv, EntryFitsFile
  <2> QED BY <1>2, <2>1, FilesRest DEF Direct
<1>3. CASE CloseFiles
  <2>0. core \in Rollers
    BY BoundsAssumption DEF Rollers
  <2>1. \A w \in Writers : pc[w] \in {"rolling", "writing"} => target[w] # core
    BY <1>3, WritersAssumption DEF CloseFiles, MutexInv
  <2>2. TypeOK' /\ StampInv' /\ FragInv'
    BY <1>3, <2>0 DEF CloseFiles, OldClosed, entryVars, StampInv, FragInv
  <2>3. MutexInv' /\ EntryFitsFile'
    BY <1>3, <2>1 DEF CloseFiles, entryVars, MutexInv, EntryFitsFile
  <2>4. HandlesAccounted'
    BY <1>3, <2>0, FilesOf DEF CloseFiles
  <2> QED BY <2>2, <2>3, <2>4
<1>4. CASE Directed
  <2>1. TypeOK'
    BY <1>4, BoundsAssumption DEF Directed, fileVars, entryVars, Rollers
  <2>2. StampInv' /\ MutexInv' /\ EntryFitsFile'
    BY <1>4 DEF Directed, fileVars, entryVars, StampInv, MutexInv, EntryFitsFile
  <2> QED BY <1>4, <2>1, <2>2, FilesRest DEF Directed
<1>5. ASSUME NEW w \in Writers, Log(w) \/ Writes(w)
      PROVE  IInv'
  BY <1>5, WriterKeeps
<1>6. CASE UNCHANGED vars
  <2>1. TypeOK' /\ StampInv' /\ MutexInv' /\ EntryFitsFile'
    BY <1>6 DEF vars, fileVars, loggerVars, entryVars, StampInv, MutexInv, EntryFitsFile
  <2> QED BY <1>6, <2>1, FilesRest DEF vars
<1> QED
  BY <1>1, <1>2, <1>3, <1>4, <1>5, <1>6 DEF Next

LEMMA InductiveInvariant == Spec => []IInv
  BY InitIInv, NextIInv, PTL DEF Spec
------------------------------------------------------------------------------
\* Types, for any number of goroutines, days and paths.
THEOREM TypeCorrect == Spec => []TypeOK
<1>1. IInv => TypeOK BY DEF IInv
<1> QED BY InductiveInvariant, <1>1, PTL

\* No file is left open behind a day that has passed or a path that was given
\* up, whatever goroutines still log and whichever openings fail.
THEOREM NoFileLeaks == Spec => []HandlesAccounted
<1>1. IInv => HandlesAccounted BY DEF IInv
<1> QED BY InductiveInvariant, <1>1, PTL

\* An entry is written to an open file, of its day or a later one.
THEOREM EntriesFit == Spec => []EntryFitsFile
<1>1. IInv => EntryFitsFile BY DEF IInv
<1> QED BY InductiveInvariant, <1>1, PTL
------------------------------------------------------------------------------
\* The mutex.

\* Whoever holds a mutex is past it, with an entry for its rollingFile.
HeldInv == \A r \in Rollers : mu[r] # Nobody =>
              /\ pc[mu[r]] \in {"rolling", "writing"}
              /\ target[mu[r]] = r

LEMMA NextHeld == IInv /\ HeldInv /\ [Next]_vars => HeldInv'
<1> SUFFICES ASSUME IInv, HeldInv, [Next]_vars, NEW r \in Rollers, mu'[r] # Nobody
             PROVE  pc'[mu'[r]] \in {"rolling", "writing"} /\ target'[mu'[r]] = r
  BY DEF HeldInv
<1> USE WritersAssumption DEF IInv, TypeOK, HeldInv, Moves
<1>1. ASSUME NEW w \in Writers, Log(w) \/ Refused(w)
      PROVE  pc'[mu'[r]] \in {"rolling", "writing"} /\ target'[mu'[r]] = r
  <2>1. mu[r] # w /\ mu' = mu
    BY <1>1 DEF Log, Refused
  <2> QED BY <1>1, <2>1 DEF Log, Refused, entryVars
<1>2. ASSUME NEW w \in Writers, Lock(w)
      PROVE  pc'[mu'[r]] \in {"rolling", "writing"} /\ target'[mu'[r]] = r
  <2>1. CASE r = target[w]
    BY <1>2, <2>1 DEF Lock, entryVars
  <2>2. CASE r # target[w]
    <3>1. mu'[r] = mu[r] /\ mu[r] # w
      BY <1>2, <2>2 DEF Lock
    <3> QED BY <1>2, <3>1 DEF Lock, entryVars
  <2> QED BY <2>1, <2>2
<1>3. ASSUME NEW w \in Writers, KeepFile(w) \/ OpenFile(w)
      PROVE  pc'[mu'[r]] \in {"rolling", "writing"} /\ target'[mu'[r]] = r
  BY <1>3 DEF KeepFile, OpenFile, entryVars
<1>4. ASSUME NEW w \in Writers, OpenFails(w) \/ WriteEntry(w)
      PROVE  pc'[mu'[r]] \in {"rolling", "writing"} /\ target'[mu'[r]] = r
  <2>1. mu[r] = mu'[r] /\ r # target[w]
    BY <1>4 DEF OpenFails, WriteEntry, Unlock
  <2>2. mu[r] # w
    BY <2>1
  <2> QED BY <1>4, <2>1, <2>2 DEF OpenFails, WriteEntry, entryVars
<1>5. CASE UNCHANGED <<mu, pc, entryVars>>
  BY <1>5 DEF entryVars
<1> QED
  BY <1>1, <1>2, <1>3, <1>4, <1>5
  DEF Next, Writes, vars, Midnight, Direct, CloseFiles, Directed

LEMMA HeldInvariant == Spec => []HeldInv
<1>1. Init => HeldInv
  BY DEF Init, HeldInv
<1> QED BY <1>1, InductiveInvariant, NextHeld, PTL DEF Spec

\* The mutex of a rollingFile does what it is for: one goroutine at a time is
\* between Lock and Unlock, and whichever way Write is left - the entry
\* refused, the file not to be opened, the disk full - the mutex is not left
\* locked behind it.  LoggingReturns needs nothing more than that goroutines
\* run on and the mutex is fair.
THEOREM MutexIsReleased ==
    Spec => [](/\ \A r \in Rollers : mu[r] # Nobody =>
                     pc[mu[r]] \in {"rolling", "writing"} /\ target[mu[r]] = r
               /\ \A v, w \in Writers :
                     /\ pc[v] \in {"rolling", "writing"}
                     /\ pc[w] \in {"rolling", "writing"}
                     /\ target[v] = target[w]
                     => v = w)
<1>1. IInv /\ HeldInv =>
        /\ \A r \in Rollers : mu[r] # Nobody =>
              pc[mu[r]] \in {"rolling", "writing"} /\ target[mu[r]] = r
        /\ \A v, w \in Writers :
              /\ pc[v] \in {"rolling", "writing"}
              /\ pc[w] \in {"rolling", "writing"}
              /\ target[v] = target[w]
              => v = w
  BY DEF IInv, MutexInv, HeldInv
<1> QED BY <1>1, InductiveInvariant, HeldInvariant, PTL
==============================================================================
