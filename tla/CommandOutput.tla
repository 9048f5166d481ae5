----------------------------- MODULE CommandOutput -----------------------------
(***************************************************************************)
(* What commandTimeout does with the output it has got: trimOutput in      *)
(* sync/sync_log.go decodes it when utils.IsGBK takes it for GBK, the      *)
(* encoding of a Chinese console.  IsGBK goes through the bytes and looks  *)
(* at the byte after the first one of a character without asking whether  *)
(* there is one; the panic ends the whole process.                         *)
(*                                                                         *)
(* This module continues CommandTimeout: between the end of the wait and   *)
(* the return of the call both buffers are examined byte by byte.          *)
(***************************************************************************)
EXTENDS CommandTimeout, Sequences

CONSTANTS Outputs    \* what a command writes when it is left to finish, without
                     \* the zeros at the end, which trimOutput cuts off first

Bytes == 0..255
GBKLeads == 129..254
GBKTrails == (64..254) \ {127}

ASSUME OutputsAssumption == Outputs \subseteq Seq(Bytes)

\* B has the places between the characters of a GBK text.
Boundaries(text, B) ==
    /\ B \subseteq 0..Len(text)
    /\ 0 \in B
    /\ Len(text) \in B
    /\ \A k \in B \ {Len(text)} :
          \/ text[k + 1] < 128 /\ k + 1 \in B
          \/ /\ text[k + 1] \in GBKLeads
             /\ k + 2 \in B
             /\ text[k + 2] \in GBKTrails

\* A console may use another encoding.
GBKText(text) == \E B \in SUBSET (0..Len(text)) : Boundaries(text, B)

VARIABLES todo,      \* buffers not yet examined: of stdout and stderr
          whole,     \* history: the text the command was writing
          length,    \* length of what has arrived of it in the buffer
          i,         \* bytes IsGBK has passed
          verdict    \* "none", "scanning", "gbk", "other", "panicked"

scanVars == <<whole, length, i, verdict>>
outVars == <<vars, todo, scanVars>>

OutTypeOK == /\ todo \in 0..2
             /\ whole \in Outputs \cup {<<>>}
             /\ length \in 0..Len(whole)
             /\ i \in 0..length
             /\ verdict \in {"none", "scanning", "gbk", "other", "panicked"}

OutInit == Init /\ todo = 0 /\ whole = <<>> /\ length = 0 /\ i = 0 /\ verdict = "none"
------------------------------------------------------------------------------
Panicked == verdict = "panicked"
Decoded == todo = 0 /\ verdict \in {"gbk", "other"}

\* A command that was not waited for may be stopped anywhere, in the middle
\* of a character too.
TakeBuffer == /\ pc = "read"
              /\ todo > 0
              /\ verdict \in {"none", "gbk", "other"}
              /\ todo' = todo - 1
              /\ whole' \in Outputs \cup {<<>>}
              /\ output = {} => whole' = <<>>
              /\ length' \in IF waiter[cur] = "none" THEN {Len(whole')}
                             ELSE 0..Len(whole')
              /\ i' = 0
              /\ verdict' = "scanning"
              /\ UNCHANGED vars

Scanning == pc = "read" /\ verdict = "scanning"

\* The bytes at i and i + 1 of the code, which counts from 0.
First == whole[i + 1]
Second == whole[i + 2]

Lead(b) == b \in 129..254

MutantTrail(b) == b \in (64..253) \ {247}

\* The code leaves out 0xf7 where GBK leaves out 0x7f.
Trail(b) == b \in (64..254) \ {247}

\* The text is decoded; what becomes of it does not matter here.
ScanEnds == /\ Scanning
            /\ i = length
            /\ verdict' = "gbk"
            /\ whole' = <<>> /\ length' = 0 /\ i' = 0
            /\ UNCHANGED <<vars, todo>>

ScanAscii == /\ Scanning
             /\ i < length
             /\ First < 128
             /\ i' = i + 1
             /\ UNCHANGED <<vars, todo, whole, length, verdict>>

MutantScanPair == /\ Scanning
                  /\ i + 1 < length
                  /\ Lead(First) /\ Trail(Second)
                  /\ i' = i + 1
                  /\ UNCHANGED <<vars, todo, whole, length, verdict>>

ScanPair == /\ Scanning
            /\ i + 1 < length
            /\ Lead(First) /\ Trail(Second)
            /\ i' = i + 2
            /\ UNCHANGED <<vars, todo, whole, length, verdict>>

ScanRejects == /\ Scanning
               /\ i < length
               /\ First > 127
               /\ Lead(First) => i + 1 < length /\ ~Trail(Second)
               /\ verdict' = "other"
               /\ UNCHANGED <<vars, todo, whole, length, i>>

\* data[i+1] is read beyond the end: nothing recovers, the process is over.
ScanOverruns == /\ Scanning
                /\ i + 1 = length
                /\ Lead(First)
                /\ verdict' = "panicked"
                /\ UNCHANGED <<vars, todo, whole, length, i>>

Examine == \/ TakeBuffer \/ ScanEnds \/ ScanAscii \/ ScanPair \/ ScanRejects
           \/ ScanOverruns

\* The caller waits as in CommandTimeout, then there are two buffers.
Waits == /\ Call \/ TimerFires
         /\ UNCHANGED <<todo, scanVars>>

StopsWaiting == /\ ReceiveDone \/ Kill
                /\ todo' = 2
                /\ UNCHANGED scanVars

Forgets == todo' = 0 /\ whole' = <<>> /\ length' = 0 /\ i' = 0 /\ verdict' = "none"

\* The call returns, or calls itself with new buffers.
HandsOver == /\ Decoded
             /\ Return \/ AskAgain
             /\ Forgets

OutCaller == ~Panicked /\ (Waits \/ StopsWaiting \/ Examine \/ HandsOver)

WaiterRuns(a) == ~Panicked /\ WaitReturns(a) /\ UNCHANGED <<todo, scanVars>>

\* The commands are processes of their own, a panic does not end them.
CommandRuns(a) == /\ Writes(a) \/ AsksForKey(a) \/ Ends(a)
                  /\ UNCHANGED <<todo, scanVars>>

BuffersFill == ~Panicked /\ Copies /\ UNCHANGED <<todo, scanVars>>

OutNext == \/ OutCaller
           \/ BuffersFill
           \/ \E a \in Attempts : WaiterRuns(a) \/ CommandRuns(a)

OutSpec == OutInit /\ [][OutNext]_outVars

\* As long as the process lives, the caller's goroutine runs on and its timer
\* fires, and the waiting goroutines run on.  No command has to answer or to end.
OutFairSpec == /\ OutSpec
               /\ WF_outVars(OutCaller)
               /\ \A a \in Attempts : WF_outVars(WaiterRuns(a))
------------------------------------------------------------------------------
\* IsGBK ends the process only with output that a time-out has cut, or with
\* output in another encoding: all of a text in GBK is examined to its end.
PanicsOnlyOnFragments == Panicked => cur \in timedOut \/ ~GBKText(whole)

\* A text in GBK that is not recognised and goes on undecoded, cut or not, has
\* the byte 0xf7 as the second one of a character.
RejectsOnlyF7 ==
    verdict = "other" =>
       \A B \in SUBSET (0..Len(whole)) : Boundaries(whole, B) =>
          \E k \in B : /\ k + 2 <= length
                       /\ whole[k + 1] \in GBKLeads
                       /\ whole[k + 2] = 247

\* Every call returns from the time on when the host key is known for good,
\* or the decoding has ended the process; PanicsOnlyOnFragments says of which
\* outputs this may come.
CallsReturnOrPanic == <>[]keyCached => []<>(pc = "idle") \/ <>[]Panicked
==============================================================================
