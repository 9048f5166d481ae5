---------------------------- MODULE CommandTimeout ----------------------------
(***************************************************************************)
(* Commands with a time-out: commandTimeout in sync/sync_log.go, which the *)
(* device monitor uses for tasklist.exe and pscp.exe, one command at a     *)
(* time; the trial tool cmd/pscp has a copy.                               *)
(*                                                                         *)
(* Each attempt starts a process and a goroutine that waits for it and     *)
(* then sends on the channel done.  The caller takes what comes first, the *)
(* end or the timer.  After the timer nobody receives from done any more.  *)
(* trimOutput makes nothing of a buffer with a warning in it.  Error output*)
(* left after that which asks whether to trust a host key makes            *)
(* commandTimeout call itself, this time with "y" as input.                *)
(***************************************************************************)
EXTENDS Naturals, FiniteSets

CONSTANTS Attempts   \* bound: attempts the model keeps track of; when all are
                     \* left behind, one of them is forgotten

ASSUME AttemptsAssumption == IsFiniteSet(Attempts) /\ Cardinality(Attempts) > 1

\* What a command may write, and to which of its two outputs.
HostKey == <<"err", "host key?">>
Texts == ({"out"} \X {"answer", "warning"})
            \cup ({"err"} \X {"failure", "host key?", "warning"})

VARIABLES pc,          \* of the caller: "idle", "select", "stop", "read"
          cur,         \* the attempt the caller is at, or the last one
          proc,        \* proc[a]: "none", "running", "killed", "ended"
          waiter,      \* waiter[a]: goroutine "none", "waiting", "sending"
          output,      \* texts written so far, at the attempt of a call
          buffer,      \* those of them that have been copied into the buffers
          yes,         \* yes[a]: started with "y" as input
          timedOut,    \* history: attempts whose timer fired
          keyCached,   \* the host key is in the registry
          result       \* texts the call has returned

vars == <<pc, cur, proc, waiter, output, buffer, yes, timedOut, keyCached, result>>

\* What a goroutine sends is the end of its process.
SendsAfterEnd == \A a \in Attempts : waiter[a] = "sending" => proc[a] = "ended"

TypeOK == /\ pc \in {"idle", "select", "stop", "read"}
          /\ cur \in Attempts
          /\ proc \in [Attempts -> {"none", "running", "killed", "ended"}]
          /\ waiter \in [Attempts -> {"none", "waiting", "sending"}]
          /\ output \subseteq Texts
          /\ buffer \subseteq output
          /\ yes \in [Attempts -> BOOLEAN]
          /\ timedOut \subseteq Attempts
          /\ keyCached \in BOOLEAN
          /\ result \subseteq Texts
          /\ SendsAfterEnd

Init == /\ pc = "idle"
        /\ cur \in Attempts
        /\ proc = [a \in Attempts |-> "none"]
        /\ waiter = [a \in Attempts |-> "none"]
        /\ output = {} /\ buffer = {}
        /\ yes = [a \in Attempts |-> FALSE]
        /\ timedOut = {}
        /\ keyCached \in BOOLEAN
        /\ result = {}
------------------------------------------------------------------------------
Alive(a) == proc[a] \in {"running", "killed"}
Free(a) == waiter[a] = "none" /\ ~Alive(a)

\* Where the next attempt is kept track of.
Place(a) == \/ Free(a)
            \/ a # cur /\ \A b \in Attempts : ~Free(b)

\* Start, and the goroutine.  Its error is not looked at: a process that
\* cannot be started counts as one that has ended without output.
Start(a, input) ==
    /\ Place(a)
    /\ cur' = a
    /\ \E p \in {"running", "ended"} : proc' = [proc EXCEPT ![a] = p]
    /\ waiter' = [waiter EXCEPT ![a] = "waiting"]
    /\ output' = {} /\ buffer' = {}
    /\ yes' = [yes EXCEPT ![a] = input]
    /\ timedOut' = timedOut \ {a}
    /\ pc' = "select"

Call == /\ pc = "idle"
        /\ \E a \in Attempts : Start(a, FALSE)
        /\ result' = {}
        /\ UNCHANGED keyCached

\* What an attempt that was left behind writes is of no consequence.
Says(a, text) ==
    output' = IF a = cur /\ pc # "idle" THEN output \cup {text} ELSE output

\* The command answers, complains or warns.
Writes(a) ==
    /\ Alive(a)
    /\ \E text \in Texts \ {HostKey} : Says(a, text)
    /\ UNCHANGED <<pc, cur, proc, waiter, buffer, yes, timedOut, keyCached, result>>

\* pscp does not know the host: it asks, and with "y" it may keep the key.
AsksForKey(a) == /\ Alive(a)
                 /\ ~keyCached
                 /\ Says(a, HostKey)
                 /\ keyCached' \in {FALSE, yes[a]}
                 /\ UNCHANGED <<pc, cur, proc, waiter, buffer, yes, timedOut, result>>

Ends(a) == /\ Alive(a)
           /\ proc' = [proc EXCEPT ![a] = "ended"]
           /\ UNCHANGED <<pc, cur, waiter, output, buffer, yes, timedOut, keyCached,
                          result>>

\* Goroutines of os/exec copy from the pipes, until Wait has returned.
Copies == /\ waiter[cur] = "waiting"
          /\ buffer # output
          /\ buffer' \in {texts \in SUBSET output : buffer \subseteq texts}
          /\ UNCHANGED <<pc, cur, proc, waiter, output, yes, timedOut, keyCached,
                         result>>

\* cmd.Wait returns when the process has ended, its output is closed and all
\* of it copied.
WaitReturns(a) == /\ waiter[a] = "waiting"
                  /\ proc[a] = "ended"
                  /\ a = cur => buffer = output
                  /\ waiter' = [waiter EXCEPT ![a] = "sending"]
                  /\ UNCHANGED <<pc, cur, proc, output, buffer, yes, timedOut,
                                 keyCached, result>>

MutantReceiveDone == /\ pc = "select"
                     /\ proc[cur] = "ended"
                     /\ pc' = "read"
                     /\ UNCHANGED <<cur, proc, waiter, output, buffer, yes, timedOut,
                                    keyCached, result>>

ReceiveDone == /\ pc = "select"
               /\ waiter[cur] = "sending"
               /\ waiter' = [waiter EXCEPT ![cur] = "none"]
               /\ pc' = "read"
               /\ UNCHANGED <<cur, proc, output, buffer, yes, timedOut, keyCached,
                              result>>

\* The timer may fire together with the end; select chooses.
TimerFires == /\ pc = "select"
              /\ timedOut' = timedOut \cup {cur}
              /\ pc' = "stop"
              /\ UNCHANGED <<cur, proc, waiter, output, buffer, yes, keyCached,
                             result>>

\* Signal, a second of sleep, Kill.  Kill reaches cmd.exe; the program it has
\* started keeps the output open and may run on.
Kill == /\ pc = "stop"
        /\ proc' = IF proc[cur] = "running" THEN [proc EXCEPT ![cur] = "killed"]
                   ELSE proc
        /\ pc' = "read"
        /\ UNCHANGED <<cur, waiter, output, buffer, yes, timedOut, keyCached, result>>

\* The buffers are read, one after the other: all there is once Wait has
\* returned.  Until then they are still being written to.
Seen == IF waiter[cur] = "none" THEN {buffer} ELSE SUBSET buffer

MutantTrimmed(texts) == IF \E t \in texts : t[2] = "warning" THEN {} ELSE texts

\* trimOutput returns an empty text for an output with a warning in it.
Trimmed(texts) == {t \in texts : <<t[1], "warning">> \notin texts}

MutantAskAgain == /\ pc = "read"
                  /\ \E texts \in Seen : Trimmed(texts) # {}
                  /\ \E a \in Attempts : Start(a, TRUE)
                  /\ UNCHANGED <<keyCached, result>>

AskAgain == /\ pc = "read"
            /\ \E texts \in Seen : HostKey \in Trimmed(texts)
            /\ \E a \in Attempts : Start(a, TRUE)
            /\ UNCHANGED <<keyCached, result>>

Return == /\ pc = "read"
          /\ \E texts \in Seen : /\ HostKey \notin Trimmed(texts)
                                 /\ result' = Trimmed(texts)
          /\ pc' = "idle"
          /\ output' = {} /\ buffer' = {}
          /\ UNCHANGED <<cur, proc, waiter, yes, timedOut, keyCached>>

Caller == Call \/ ReceiveDone \/ TimerFires \/ Kill \/ AskAgain \/ Return

Next == \/ Caller
        \/ Copies
        \/ \E a \in Attempts : Writes(a) \/ AsksForKey(a) \/ Ends(a) \/ WaitReturns(a)

Spec == Init /\ [][Next]_vars
------------------------------------------------------------------------------
LeftBehind(a) == ~Free(a) /\ ~(a = cur /\ pc # "idle")

\* A command that ends in time leaves nothing behind, no process and no
\* goroutine; only the timer does.
OnlyTimeoutsLeaveTraces == \A a \in Attempts : LeftBehind(a) => a \in timedOut

\* A call that returns without a time-out does so after its command has ended,
\* so pscpDevice may look at the files it has copied.  All the command wrote
\* has reached the buffers by then, and the call returns it, but for an output
\* with a warning in it, which trimOutput drops with all that stands beside it.
ReturnedMeansEnded ==
    [][Return /\ cur \notin timedOut =>
          /\ proc[cur] = "ended"
          /\ result' \subseteq output
          /\ \A t \in output : t \in result' \/ <<t[1], "warning">> \in output]_vars
==============================================================================
