------------------------- MODULE CommandOutputProofs -------------------------
(***************************************************************************)
(* For any number of attempts left behind: only a timer leaves a process   *)
(* or a goroutine behind, and a call that returns without one is about a   *)
(* command that has ended, and loses of its output only what stands beside *)
(* a warning.                                                              *)
(*                                                                         *)
(* OnlyTimeoutsLeaveTraces says nothing of the attempt the caller is at;   *)
(* CallerInv adds what each place of the caller means for it.              *)
(*                                                                         *)
(* For every set of outputs: decoding ends the process only where a timer  *)
(* has cut the output or the output is not in GBK, and of texts in GBK it  *)
(* rejects only those with 0xf7 as a second byte.  IsGBK carries no state  *)
(* but its index; what makes it right is that the index stays between the  *)
(* characters of the text.  That the text is whole where no timer has      *)
(* fired comes from IInv, which the examination keeps.                     *)
(***************************************************************************)
EXTENDS CommandOutput, TLAPS

CallerInv == /\ pc \in {"idle", "read"} /\ cur \notin timedOut => Free(cur)
             /\ pc = "read" /\ cur \notin timedOut => buffer = output
             /\ pc = "select" => waiter[cur] # "none"
             /\ pc = "select" /\ waiter[cur] = "sending" => buffer = output
             /\ pc = "stop" => cur \in timedOut
             /\ pc # "idle" => proc[cur] # "none"

OthersInv == \A a \in Attempts \ {cur} : ~Free(a) => a \in timedOut

IInv == TypeOK /\ CallerInv /\ OthersInv
------------------------------------------------------------------------------
LEMMA InitIInv == Init => IInv
  BY DEF Init, IInv, TypeOK, SendsAfterEnd, CallerInv, OthersInv, Free, Alive

LEMMA StartTypeOK ==
    ASSUME TypeOK, NEW a \in Attempts, NEW input \in BOOLEAN, Start(a, input),
           result' \subseteq Texts, UNCHANGED keyCached
    PROVE  TypeOK'
<1> USE DEF TypeOK, Start
<1>1. PICK p \in {"running", "ended"} : proc' = [proc EXCEPT ![a] = p]
  OBVIOUS
<1>2. SendsAfterEnd'
  BY <1>1 DEF SendsAfterEnd
<1> QED BY <1>1, <1>2

LEMMA HostKeyIsText == HostKey \in Texts
  BY DEF HostKey, Texts

LEMMA NextTypeOK == TypeOK /\ [Next]_vars => TypeOK'
<1> SUFFICES ASSUME TypeOK, [Next]_vars PROVE TypeOK'
  OBVIOUS
<1> USE DEF TypeOK, SendsAfterEnd
<1>1. CASE Call BY <1>1, StartTypeOK DEF Call
<1>2. CASE ReceiveDone BY <1>2 DEF ReceiveDone
<1>3. CASE TimerFires BY <1>3 DEF TimerFires
<1>4. CASE Kill BY <1>4 DEF Kill
<1>5. CASE AskAgain BY <1>5, StartTypeOK DEF AskAgain
<1>6. CASE Return BY <1>6 DEF Return, Seen, Trimmed
<1>7. ASSUME NEW a \in Attempts,
             Writes(a) \/ AsksForKey(a) \/ Ends(a) \/ WaitReturns(a)
      PROVE  TypeOK'
  <2>1. CASE Writes(a)
    BY <2>1, HostKeyIsText DEF Writes, Says
  <2>2. CASE AsksForKey(a)
    <3>1. yes[a] \in BOOLEAN
      OBVIOUS
    <3> QED BY <2>2, <3>1, HostKeyIsText DEF AsksForKey, Says
  <2>3. CASE Ends(a) BY <2>3 DEF Ends
  <2>4. CASE WaitReturns(a) BY <2>4 DEF WaitReturns
  <2> QED BY <1>7, <2>1, <2>2, <2>3, <2>4
<1>8. CASE Copies BY <1>8 DEF Copies
<1>9. CASE UNCHANGED vars BY <1>9 DEF vars
<1> QED
  BY <1>1, <1>2, <1>3, <1>4, <1>5, <1>6, <1>7, <1>8, <1>9 DEF Next, Caller

\* A new attempt: by CallerInv the old one is over or its timer has fired, so
\* it may join the others.
LEMMA StartKeeps ==
    ASSUME IInv, NEW a \in Attempts, NEW input, Start(a, input),
           pc \in {"idle", "read"}
    PROVE  CallerInv' /\ OthersInv'
<1> USE DEF IInv, TypeOK, Start
<1>1. /\ cur' = a /\ pc' = "select" /\ proc'[a] \in {"running", "ended"}
      /\ waiter'[a] = "waiting"
  OBVIOUS
<1>2. CallerInv'
  BY <1>1 DEF CallerInv
<1>3. ASSUME NEW b \in Attempts, b # a, ~Free(b)'
      PROVE  b \in timedOut'
  <2>1. ~Free(b)
    BY <1>3 DEF Free, Alive
  <2>2. b \in timedOut
    BY <2>1 DEF CallerInv, OthersInv
  <2> QED BY <1>3, <2>2
<1> QED BY <1>1, <1>2, <1>3 DEF OthersInv

LEMMA NextIInv == IInv /\ [Next]_vars => IInv'
<1> SUFFICES ASSUME IInv, [Next]_vars PROVE CallerInv' /\ OthersInv'
  BY NextTypeOK DEF IInv
<1> USE DEF IInv, TypeOK, SendsAfterEnd
<1>1. CASE Call BY <1>1, StartKeeps DEF Call
<1>2. CASE ReceiveDone
  BY <1>2 DEF ReceiveDone, CallerInv, OthersInv, Free, Alive
<1>3. CASE TimerFires
  BY <1>3 DEF TimerFires, CallerInv, OthersInv, Free, Alive
<1>4. CASE Kill
  BY <1>4 DEF Kill, CallerInv, OthersInv, Free, Alive
<1>5. CASE AskAgain BY <1>5, StartKeeps DEF AskAgain
<1>6. CASE Return
  BY <1>6 DEF Return, CallerInv, OthersInv, Free, Alive
<1>7. ASSUME NEW a \in Attempts,
             Writes(a) \/ AsksForKey(a) \/ Ends(a) \/ WaitReturns(a)
      PROVE  CallerInv' /\ OthersInv'
  <2> USE DEF CallerInv, OthersInv, Free, Alive
  <2>1. CASE Writes(a) \/ AsksForKey(a)
    BY <2>1 DEF Writes, AsksForKey, Says
  <2>2. CASE Ends(a) BY <2>2 DEF Ends
  <2>3. CASE WaitReturns(a) BY <2>3 DEF WaitReturns
  <2> QED BY <1>7, <2>1, <2>2, <2>3
<1>8. CASE Copies
  BY <1>8 DEF Copies, CallerInv, OthersInv, Free, Alive
<1>9. CASE UNCHANGED vars
  BY <1>9 DEF vars, CallerInv, OthersInv, Free, Alive
<1> QED
  BY <1>1, <1>2, <1>3, <1>4, <1>5, <1>6, <1>7, <1>8, <1>9 DEF Next, Caller

LEMMA InductiveInvariant == Spec => []IInv
  BY InitIInv, NextIInv, PTL DEF Spec
------------------------------------------------------------------------------
\* Type correctness, for any number of attempts.
THEOREM TypeCorrect == Spec => []TypeOK
<1>1. IInv => TypeOK BY DEF IInv
<1> QED BY InductiveInvariant, <1>1, PTL

\* commandTimeout leaves a process or a goroutine behind only where its timer
\* has fired, however often it calls itself.
THEOREM TracesOfTimeouts == Spec => []OnlyTimeoutsLeaveTraces
<1>1. IInv => OnlyTimeoutsLeaveTraces
  BY DEF IInv, CallerInv, OthersInv, OnlyTimeoutsLeaveTraces, LeftBehind
<1> QED BY InductiveInvariant, <1>1, PTL

\* Without a time-out the command is over when the call returns, all of its
\* output has reached the buffers, and what is not returned stood beside a
\* warning, which makes trimOutput drop the buffer.
THEOREM OutputIsComplete == Spec => ReturnedMeansEnded
<1> DEFINE Complete ==
       /\ proc[cur] = "ended"
       /\ result' \subseteq output
       /\ \A t \in output : t \in result' \/ <<t[1], "warning">> \in output
<1>1. IInv => (Return /\ cur \notin timedOut => Complete)
  <2> SUFFICES ASSUME IInv, Return, cur \notin timedOut PROVE Complete
    OBVIOUS
  <2>1. proc[cur] = "ended" /\ waiter[cur] = "none" /\ buffer = output
    BY DEF IInv, TypeOK, CallerInv, Return, Free, Alive
  <2>2. result' = Trimmed(output)
    BY <2>1 DEF Return, Seen
  <2> QED BY <2>1, <2>2 DEF Trimmed
<1> QED BY InductiveInvariant, <1>1, PTL DEF ReturnedMeansEnded
------------------------------------------------------------------------------
\* The examination of the output.

\* The index is between two characters of what the command was writing.
AtBoundary ==
    verdict = "scanning" =>
       \A B \in SUBSET (0..Len(whole)) : Boundaries(whole, B) => i \in B

\* The scan is a part of the call, and sees the whole text of a command that
\* was waited for.
ScanInv == /\ verdict \in {"scanning", "panicked"} => pc = "read"
           /\ verdict = "scanning" /\ cur \notin timedOut => length = Len(whole)

OutInv == /\ OutTypeOK
          /\ ScanInv
          /\ AtBoundary
          /\ PanicsOnlyOnFragments
          /\ RejectsOnlyF7
------------------------------------------------------------------------------
LEMMA TextsAreBytes == Outputs \cup {<<>>} \subseteq Seq(Bytes)
<1>1. <<>> \in Seq(Bytes)
  OBVIOUS
<1> QED BY <1>1, OutputsAssumption

LEMMA InitOutInv == OutInit => OutInv
<1> SUFFICES ASSUME OutInit PROVE OutInv
  OBVIOUS
<1>1. Len(<<>>) = 0
  OBVIOUS
<1> QED
  BY <1>1 DEF OutInit, OutInv, OutTypeOK, ScanInv, AtBoundary,
              PanicsOnlyOnFragments, Panicked, RejectsOnlyF7

\* A byte is ASCII or belongs to a character of two bytes.
LEMMA ByteKinds ==
    /\ \A b \in Bytes : b > 127 <=> ~(b < 128)
    /\ \A b \in GBKLeads : b > 127
  BY DEF Bytes, GBKLeads

\* What stands at the index of a scan in a text in GBK: a character, whole in
\* the text though perhaps not in the buffer.
LEMMA CharacterAt ==
    ASSUME OutInv, Scanning, i < length,
           NEW B \in SUBSET (0..Len(whole)), Boundaries(whole, B)
    PROVE  /\ i \in B
           /\ First < 128 => i + 1 \in B
           /\ First > 127 => /\ First \in GBKLeads
                            /\ i + 2 \in B
                            /\ i + 2 <= Len(whole)
                            /\ whole[i + 2] \in GBKTrails
<1> USE DEF OutInv, OutTypeOK, Scanning, First
<1>1. whole \in Seq(Bytes) /\ Len(whole) \in Nat /\ i \in Nat /\ length \in Nat
  BY TextsAreBytes
<1>2. i + 1 \in 1..Len(whole) /\ whole[i + 1] \in Bytes
  BY <1>1
<1>3. i \in B
  BY DEF AtBoundary
<1>4. i \in B \ {Len(whole)}
  BY <1>1, <1>2, <1>3
<1>5. \/ whole[i + 1] < 128 /\ i + 1 \in B
      \/ /\ whole[i + 1] \in GBKLeads
         /\ i + 2 \in B
         /\ whole[i + 2] \in GBKTrails
  BY <1>4 DEF Boundaries
<1>6. ASSUME First > 127
      PROVE  First \in GBKLeads /\ i + 2 \in B /\ whole[i + 2] \in GBKTrails
  BY <1>2, <1>5, <1>6, ByteKinds
<1>7. ASSUME First < 128
      PROVE  i + 1 \in B
  BY <1>2, <1>5, <1>7, ByteKinds
<1>8. i + 2 \in B => i + 2 <= Len(whole)
  BY <1>1
<1> QED
  BY <1>3, <1>6, <1>7, <1>8

\* What the scan is not about.
LEMMA ScanRests ==
    ASSUME OutInv, UNCHANGED <<scanVars, pc, cur, timedOut, todo>>
    PROVE  OutInv'
  BY DEF OutInv, OutTypeOK, ScanInv, AtBoundary, PanicsOnlyOnFragments, Panicked,
         RejectsOnlyF7, scanVars, Boundaries, GBKText

LEMMA ExamineKeeps == IInv /\ OutInv /\ Examine => OutInv'
<1> SUFFICES ASSUME IInv, OutInv, Examine PROVE OutInv'
  OBVIOUS
<1> USE DEF OutInv, OutTypeOK, ScanInv, Panicked, Scanning, vars
<1>0. /\ whole \in Seq(Bytes) /\ Len(whole) \in Nat /\ i \in Nat /\ length \in Nat
      /\ Len(<<>>) = 0
  BY TextsAreBytes
<1>1. CASE TakeBuffer
  <2>1. whole' \in Outputs \cup {<<>>} /\ Len(whole') \in Nat
    BY <1>1, TextsAreBytes DEF TakeBuffer
  <2>2. cur \notin timedOut => waiter[cur] = "none"
    BY <1>1 DEF TakeBuffer, IInv, CallerInv, Free
  <2>3. OutTypeOK' /\ ScanInv'
    BY <1>1, <2>1, <2>2 DEF TakeBuffer
  <2>4. AtBoundary'
    BY <1>1 DEF TakeBuffer, AtBoundary, Boundaries
  <2> QED
    BY <1>1, <2>3, <2>4 DEF TakeBuffer, PanicsOnlyOnFragments, RejectsOnlyF7
<1>2. CASE ScanEnds
  BY <1>2, <1>0 DEF ScanEnds, AtBoundary, PanicsOnlyOnFragments, RejectsOnlyF7
<1>3. CASE ScanAscii
  <2>1. AtBoundary'
    <3> SUFFICES ASSUME NEW B \in SUBSET (0..Len(whole)), Boundaries(whole, B)
                 PROVE  i + 1 \in B
      BY <1>3 DEF ScanAscii, AtBoundary, Boundaries
    <3> QED BY <1>3, CharacterAt DEF ScanAscii
  <2> QED
    BY <1>3, <2>1, <1>0 DEF ScanAscii, PanicsOnlyOnFragments, RejectsOnlyF7
<1>4. CASE ScanPair
  <2>1. First > 127 /\ i < length
    BY <1>4, <1>0 DEF ScanPair, Lead
  <2>2. AtBoundary'
    <3> SUFFICES ASSUME NEW B \in SUBSET (0..Len(whole)), Boundaries(whole, B)
                 PROVE  i + 2 \in B
      BY <1>4 DEF ScanPair, AtBoundary, Boundaries
    <3> QED BY <1>4, <2>1, CharacterAt DEF ScanPair
  <2> QED
    BY <1>4, <2>2, <1>0 DEF ScanPair, PanicsOnlyOnFragments, RejectsOnlyF7
<1>5. CASE ScanRejects
  <2>1. RejectsOnlyF7'
    <3> SUFFICES ASSUME NEW B \in SUBSET (0..Len(whole)), Boundaries(whole, B)
                 PROVE  \E k \in B : /\ k + 2 <= length
                                     /\ whole[k + 1] \in GBKLeads
                                     /\ whole[k + 2] = 247
      BY <1>5 DEF ScanRejects, RejectsOnlyF7, Boundaries
    <3>1. i \in B /\ First \in GBKLeads /\ whole[i + 2] \in GBKTrails
      BY <1>5, CharacterAt DEF ScanRejects
    <3>2. i + 1 < length /\ ~Trail(whole[i + 2])
      BY <1>5, <3>1 DEF ScanRejects, Lead, GBKLeads, Second
    <3>3. whole[i + 2] = 247
      BY <3>1, <3>2 DEF Trail, GBKTrails
    <3>4. i + 2 <= length
      BY <1>0, <3>2
    <3> QED BY <3>1, <3>3, <3>4 DEF First
  <2> QED
    BY <1>5, <2>1 DEF ScanRejects, AtBoundary, PanicsOnlyOnFragments
<1>6. CASE ScanOverruns
  <2>1. First > 127 /\ i < length
    BY <1>6, <1>0 DEF ScanOverruns, Lead
  <2>2. ASSUME GBKText(whole)
        PROVE  cur \in timedOut
    <3>1. PICK B \in SUBSET (0..Len(whole)) : Boundaries(whole, B)
      BY <2>2 DEF GBKText
    <3>2. i + 2 <= Len(whole)
      BY <1>6, <2>1, <3>1, CharacterAt DEF ScanOverruns
    <3> QED BY <1>6, <1>0, <3>2 DEF ScanOverruns
  <2>3. PanicsOnlyOnFragments'
    BY <1>6, <2>2 DEF ScanOverruns, PanicsOnlyOnFragments, GBKText, Boundaries
  <2> QED
    BY <1>6, <2>3 DEF ScanOverruns, AtBoundary, RejectsOnlyF7
<1> QED BY <1>1, <1>2, <1>3, <1>4, <1>5, <1>6 DEF Examine

LEMMA NextOutInv == IInv /\ OutInv /\ [OutNext]_outVars => OutInv'
<1> SUFFICES ASSUME IInv, OutInv, [OutNext]_outVars PROVE OutInv'
  OBVIOUS
<1> USE DEF OutInv, OutTypeOK, ScanInv, Panicked
<1>1. CASE ~Panicked /\ Waits
  BY <1>1 DEF Waits, Call, Start, TimerFires, scanVars, AtBoundary,
              PanicsOnlyOnFragments, RejectsOnlyF7
<1>2. CASE ~Panicked /\ StopsWaiting
  BY <1>2 DEF StopsWaiting, ReceiveDone, Kill, scanVars, AtBoundary,
              PanicsOnlyOnFragments, RejectsOnlyF7
<1>3. CASE Examine BY <1>3, ExamineKeeps
<1>4. CASE HandsOver
  <2>1. Len(<<>>) = 0
    OBVIOUS
  <2> QED
    BY <1>4, <2>1 DEF HandsOver, Forgets, AtBoundary, PanicsOnlyOnFragments,
                      RejectsOnlyF7
<1>5. ASSUME NEW a \in Attempts, WaiterRuns(a) \/ CommandRuns(a)
      PROVE  OutInv'
  BY <1>5, ScanRests DEF WaiterRuns, CommandRuns, WaitReturns, Writes, AsksForKey,
                         Ends, scanVars
<1>6. CASE BuffersFill
  BY <1>6, ScanRests DEF BuffersFill, Copies, scanVars
<1>7. CASE UNCHANGED outVars
  BY <1>7, ScanRests DEF outVars, vars, scanVars
<1> QED
  BY <1>1, <1>2, <1>3, <1>4, <1>5, <1>6, <1>7 DEF OutNext, OutCaller
\* The examination of the output only adds steps between those of
\* CommandTimeout, and a panic only takes steps away: what was proved about
\* CommandTimeout holds with the examination, too.
THEOREM OutputRefinesTimeout == OutSpec => Spec
<1>1. OutInit => Init
  BY DEF OutInit
<1>2. [OutNext]_outVars => [Next]_vars
  BY DEF OutNext, OutCaller, Waits, StopsWaiting, Examine, TakeBuffer, ScanEnds,
         ScanAscii, ScanPair, ScanRejects, ScanOverruns, HandsOver, WaiterRuns,
         CommandRuns, BuffersFill, Next, Caller, outVars
<1> QED BY <1>1, <1>2, PTL DEF OutSpec, Spec

LEMMA OutInvariant == OutSpec => []OutInv
<1>1. OutSpec => []IInv
  BY OutputRefinesTimeout, InductiveInvariant, PTL
<1> QED BY <1>1, InitOutInv, NextOutInv, PTL DEF OutSpec
------------------------------------------------------------------------------
\* Types of the scan: the index never passes what is in the buffer.
THEOREM ScanTypes == OutSpec => []OutTypeOK
<1>1. OutInv => OutTypeOK BY DEF OutInv
<1> QED BY OutInvariant, <1>1, PTL

\* Whatever the commands write: trimOutput can end the process only with output
\* that a timer has cut or that is not in GBK.
THEOREM PanicNeedsFragment == OutSpec => []PanicsOnlyOnFragments
<1>1. OutInv => PanicsOnlyOnFragments BY DEF OutInv
<1> QED BY OutInvariant, <1>1, PTL

\* IsGBK takes every text in GBK for one, but for the byte 0xf7 at the place of
\* the second byte of a character.
THEOREM RejectionNeedsF7 == OutSpec => []RejectsOnlyF7
<1>1. OutInv => RejectsOnlyF7 BY DEF OutInv
<1> QED BY OutInvariant, <1>1, PTL
------------------------------------------------------------------------------
\* The end of the examination.

\* Steps left in the buffer that is examined.
ScanLeft == IF verdict = "scanning" THEN length - i + 1 ELSE 0

\* trimOutput comes to its end: each of its steps takes up the next of the two
\* buffers or gets IsGBK a byte further, and there are no more of these than
\* bytes.  Of CallsReturnOrPanic this is the part between the end of the wait
\* and the return.
THEOREM DecodingIsBounded ==
    OutSpec => [][pc = "read" /\ pc' = "read" /\ <<todo, scanVars>>' # <<todo, scanVars>>
                    => \/ todo \in Nat /\ todo' < todo
                       \/ todo' = todo /\ ScanLeft' \in Nat /\ ScanLeft' < ScanLeft]_outVars
<1>1. ASSUME OutInv, OutInv', [OutNext]_outVars, pc = "read", pc' = "read",
             <<todo, scanVars>>' # <<todo, scanVars>>
      PROVE  \/ todo \in Nat /\ todo' < todo
             \/ todo' = todo /\ ScanLeft' \in Nat /\ ScanLeft' < ScanLeft
  <2>1. Examine
    BY <1>1 DEF OutNext, OutCaller, Waits, Call, TimerFires, StopsWaiting, ReceiveDone,
                Kill, HandsOver, Return, AskAgain, Start, WaiterRuns, CommandRuns,
                BuffersFill, outVars, scanVars
  <2>2. /\ todo \in Nat /\ Len(whole) \in Nat /\ length \in Nat /\ i \in 0..length
        /\ Len(whole') \in Nat /\ length' \in Nat /\ i' \in 0..length'
    BY <1>1, TextsAreBytes DEF OutInv, OutTypeOK
  <2>3. CASE TakeBuffer
    BY <2>2, <2>3 DEF TakeBuffer
  <2>4. CASE ScanEnds \/ ScanRejects \/ ScanOverruns
    <3>1. /\ todo' = todo /\ verdict = "scanning" /\ verdict' # "scanning"
      BY <2>4 DEF ScanEnds, ScanRejects, ScanOverruns, Scanning
    <3> QED BY <2>2, <3>1 DEF ScanLeft
  <2>5. CASE ScanAscii \/ ScanPair
    <3>1. /\ todo' = todo /\ length' = length
          /\ verdict = "scanning" /\ verdict' = "scanning"
          /\ i' = i + 1 \/ i' = i + 2
      BY <2>5 DEF ScanAscii, ScanPair, Scanning
    <3>2. PICK k \in 1..2 : i' = i + k /\ i + k <= length
      BY <2>2, <3>1
    <3>3. ScanLeft = length - i + 1 /\ ScanLeft' = length - (i + k) + 1
      BY <3>1, <3>2 DEF ScanLeft
    <3> QED BY <2>2, <3>1, <3>2, <3>3
  <2> QED BY <2>1, <2>3, <2>4, <2>5 DEF Examine
<1>2. OutInv /\ OutInv' /\ [OutNext]_outVars =>
        (pc = "read" /\ pc' = "read" /\ <<todo, scanVars>>' # <<todo, scanVars>>
           => \/ todo \in Nat /\ todo' < todo
              \/ todo' = todo /\ ScanLeft' \in Nat /\ ScanLeft' < ScanLeft)
  BY <1>1
<1> QED BY <1>2, OutInvariant, PTL DEF OutSpec
==============================================================================
