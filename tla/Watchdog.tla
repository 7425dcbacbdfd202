------------------------------ MODULE Watchdog ------------------------------
(***************************************************************************)
(* The device's parent process (edge_node/watchdog.py): the OTA thread and *)
(* the poll thread, which both end in apply_ota, the supervising thread    *)
(* that notices a dead child, and the firmware processes they start.       *)
(*                                                                         *)
(* Nothing locks firmware_path, its temporary name or self.child, so each  *)
(* read or write of one is a step.  A file a thread has open stays open    *)
(* through a rename: fd says under which name it now is.  A process reads  *)
(* the file some time after it was started.                                *)
(***************************************************************************)
EXTENDS Naturals

CONSTANTS
  Code,        \* firmware, by hash
  Baseline,    \* what is on the device when the watchdog starts
  Deaf,        \* firmware that does not end when it is asked to
  Absent,      \* no such file, or not read yet
  MaxApplies   \* bound: pushes and re-requests that pass the hash check

ASSUME WatchdogAssumption ==
  /\ Baseline \in Code
  /\ Deaf \subseteq Code
  /\ Absent \notin Code \cup {"empty", "garbled"}
  /\ {"empty", "garbled"} \cap Code = {}
  /\ MaxApplies \in Nat

VARIABLES
  file,      \* the firmware file
  tmp,       \* its temporary name
  child,     \* self.child: a process, or 0 for None
  procs,     \* each process: not started, up or down, and what it has read
  work,      \* what each applying thread is doing
  main,      \* the supervising thread: looking, or about to clear child
  applies    \* history: how many pushes and re-requests passed the hash check

vars == <<file, tmp, child, procs, work, main, applies>>

Ota == "ota"
Poll == "poll"
Applier == {Ota, Poll}

Content == Code \cup {"empty", "garbled"}
Pid == 1 .. MaxApplies + 1

Unused == [at |-> "unused", runs |-> Absent]

\* pid is the process waited for, and then the one started; alone is history: no
\* other application had the file open between this one's open and its answer.
Idle == [pc |-> "idle", code |-> Absent, fd |-> "closed", pid |-> 0, ok |-> FALSE,
         replaced |-> FALSE, alone |-> TRUE]

Place == {"idle", "read", "open", "write", "replace", "check", "poll", "terminate", "wait",
          "waiting", "kill", "start", "assign", "log", "answer", "dead"}

TypeOK ==
  /\ file \in Content
  /\ tmp \in Content \cup {Absent}
  /\ child \in {0} \cup Pid
  /\ procs \in [Pid -> [at : {"unused", "up", "down"}, runs : Content \cup {Absent}]]
  /\ work \in [Applier -> [pc : Place, code : Code \cup {Absent},
                           fd : {"closed", "tmp", "file", "gone"}, pid : {0} \cup Pid,
                           ok : BOOLEAN, replaced : BOOLEAN, alone : BOOLEAN]]
  /\ main \in {"look", "clear"}
  /\ applies \in 0 .. MaxApplies

Init ==
  /\ file = Baseline
  /\ tmp = Absent
  /\ child = 1
  /\ procs = [p \in Pid |-> IF p = 1 THEN [at |-> "up", runs |-> Absent] ELSE Unused]
  /\ work = [t \in Applier |-> Idle]
  /\ main = "look"
  /\ applies = 0

Goto(t, pc) == work' = [work EXCEPT ![t].pc = pc]

\* serve_ota turns any exception of apply_ota into a refusal; poll_loop has no
\* handler for one that is not about the network or a value, and the thread is gone.
Raises(t) == work' = [work EXCEPT ![t].pc = IF t = Ota THEN "answer" ELSE "dead",
                                  ![t].ok = FALSE]

-----------------------------------------------------------------------------
(* What reaches the two threads. *)

Accept ==
  /\ work[Ota].pc = "idle"
  /\ Goto(Ota, "read")
  /\ UNCHANGED <<file, tmp, child, procs, main, applies>>

\* readline has no timeout and stands outside the try: a peer may keep the thread
\* there, send nothing, or go away and take the thread with it.
HangUp ==
  /\ work[Ota].pc = "read"
  /\ \E pc \in {"idle", "dead"} : Goto(Ota, pc)
  /\ UNCHANGED <<file, tmp, child, procs, main, applies>>

\* poll_once handles neither an answer that is no PollResponse nor one cut short.
PollRaises ==
  /\ work[Poll].pc = "idle"
  /\ Goto(Poll, "dead")
  /\ UNCHANGED <<file, tmp, child, procs, main, applies>>

\* A push was read, or a poll found drift and re-requested what is assigned.  One
\* that does not parse, or whose hash does not match, ends here.
Receive(t, c, matches) ==
  /\ work[t].pc = IF t = Ota THEN "read" ELSE "idle"
  /\ matches => applies < MaxApplies
  /\ t = Poll => matches /\ c # file
  /\ applies' = IF matches THEN applies + 1 ELSE applies
  /\ work' = [work EXCEPT ![t] = [Idle EXCEPT !.pc = IF matches THEN "open" ELSE "answer",
                                              !.code = c]]
  /\ UNCHANGED <<file, tmp, child, procs, main>>

-----------------------------------------------------------------------------
(* apply_ota. *)

\* A name is open for writing, and a file may be changed.
Writing == {"write", "replace"}

\* write_text: the name is truncated, or created, and then written.
OpenTmp(t) ==
  /\ work[t].pc = "open"
  /\ tmp' = "empty"
  /\ work' = [s \in Applier |->
                IF s = t
                  THEN [work[t] EXCEPT !.pc = "write", !.fd = "tmp",
                                       !.alone = \A o \in Applier : work[o].pc \notin Writing]
                  ELSE [work[s] EXCEPT !.alone = @ /\ work[s].pc \in {"idle", "read", "open",
                                                                     "dead"}]]
  /\ UNCHANGED <<file, child, procs, main, applies>>

\* Writing over what another thread wrote since leaves the longer one's tail.
Over(old, new) == IF old = "empty" THEN {new} ELSE {new, "garbled"}

WriteTmp(t) ==
  /\ work[t].pc = "write"
  /\ work' = [work EXCEPT ![t].pc = "replace", ![t].fd = "closed"]
  /\ \/ work[t].fd = "tmp"  /\ tmp' \in Over(tmp, work[t].code)   /\ UNCHANGED file
     \/ work[t].fd = "file" /\ file' \in Over(file, work[t].code) /\ UNCHANGED tmp
     \/ work[t].fd = "gone" /\ UNCHANGED <<file, tmp>>
  /\ UNCHANGED <<child, procs, main, applies>>

Renamed(fd) == IF fd = "tmp" THEN "file" ELSE IF fd = "file" THEN "gone" ELSE fd

\* Mutant of Replace: the old file is removed first.
UnlinkAndRename(t) ==
  /\ work[t].pc = "replace"
  /\ file' = tmp
  /\ tmp' = Absent
  /\ IF tmp = Absent THEN Goto(t, "answer") ELSE Goto(t, "check")
  /\ UNCHANGED <<child, procs, main, applies>>

\* The rename takes the name from under another thread, or finds it taken:
\* FileNotFoundError, which both callers survive.
Replace(t) ==
  /\ work[t].pc = "replace"
  /\ \/ /\ tmp # Absent
        /\ file' = tmp
        /\ tmp' = Absent
        /\ work' = [s \in Applier |->
                      [work[s] EXCEPT !.fd = Renamed(@),
                                      !.pc = IF s = t THEN "check" ELSE @,
                                      !.replaced = @ \/ s = t]]
     \/ /\ tmp = Absent
        /\ Goto(t, "answer")
        /\ UNCHANGED <<file, tmp>>
  /\ UNCHANGED <<child, procs, main, applies>>

-----------------------------------------------------------------------------
(* restart_firmware reads self.child afresh at every use of it, and start_firmware *)
(* once more for its log line; one that finds None raises AttributeError.          *)

\* Mutant of WithoutChild: there is nothing to restart.
NothingToRestart(t) == work' = [work EXCEPT ![t].pc = "answer", ![t].ok = TRUE]

\* A firmware that is gone is started all the same.
WithoutChild(t) == Goto(t, "start")

Check(t) ==
  /\ work[t].pc = "check"
  /\ IF child = 0 THEN WithoutChild(t) ELSE Goto(t, "poll")
  /\ UNCHANGED <<file, tmp, child, procs, main, applies>>

PollChild(t) ==
  /\ work[t].pc = "poll"
  /\ IF child = 0 THEN Raises(t)
     ELSE IF procs[child].at = "down" THEN Goto(t, "start")
     ELSE Goto(t, "terminate")
  /\ UNCHANGED <<file, tmp, child, procs, main, applies>>

Down(p) == [procs EXCEPT ![p].at = "down"]

Terminate(t) ==
  /\ work[t].pc = "terminate"
  /\ IF child = 0 THEN Raises(t) /\ UNCHANGED procs
     ELSE Goto(t, "wait") /\ procs' = IF procs[child].runs \in Deaf THEN procs ELSE Down(child)
  /\ UNCHANGED <<file, tmp, child, main, applies>>

\* wait(timeout=5) is called on one process and stays with it.
WaitForIt(t) ==
  /\ work[t].pc = "wait"
  /\ IF child = 0 THEN Raises(t)
     ELSE work' = [work EXCEPT ![t].pc = "waiting", ![t].pid = child]
  /\ UNCHANGED <<file, tmp, child, procs, main, applies>>

\* Mutant of AfterTimeout: the wait has no end.
WaitOn(t) == FALSE

AfterTimeout(t) == Goto(t, "kill")

Waited(t) ==
  /\ work[t].pc = "waiting"
  /\ IF procs[work[t].pid].at = "down" THEN Goto(t, "start") ELSE AfterTimeout(t)
  /\ UNCHANGED <<file, tmp, child, procs, main, applies>>

Kill(t) ==
  /\ work[t].pc = "kill"
  /\ IF child = 0 THEN Raises(t) /\ UNCHANGED procs
     ELSE Goto(t, "start") /\ procs' = Down(child)
  /\ UNCHANGED <<file, tmp, child, main, applies>>

Popen(p) ==
  /\ procs[p] = Unused
  /\ \A q \in Pid : q < p => procs[q] # Unused
  /\ procs' = [procs EXCEPT ![p] = [at |-> "up", runs |-> Absent]]

StartFirmware(t) ==
  /\ work[t].pc = "start"
  /\ \E p \in Pid :
       /\ Popen(p)
       /\ work' = [work EXCEPT ![t].pc = "assign", ![t].pid = p]
  /\ UNCHANGED <<file, tmp, child, main, applies>>

Assign(t) ==
  /\ work[t].pc = "assign"
  /\ child' = work[t].pid
  /\ Goto(t, "log")
  /\ UNCHANGED <<file, tmp, procs, main, applies>>

LogPid(t) ==
  /\ work[t].pc = "log"
  /\ IF child = 0 THEN Raises(t) ELSE work' = [work EXCEPT ![t].pc = "answer", ![t].ok = TRUE]
  /\ UNCHANGED <<file, tmp, child, procs, main, applies>>

\* The ack is sent, or the poll thread goes back to waiting.  sendall, too, stands
\* outside the try: where the peer has gone, the thread ends with it.
Answer(t) ==
  /\ work[t].pc = "answer"
  /\ \/ work' = [work EXCEPT ![t] = Idle]
     \/ t = Ota /\ Goto(t, "dead")
  /\ UNCHANGED <<file, tmp, child, procs, main, applies>>

-----------------------------------------------------------------------------
(* The supervising thread and the firmware. *)

Look ==
  /\ main = "look"
  /\ child # 0
  /\ procs[child].at = "down"
  /\ main' = "clear"
  /\ UNCHANGED <<file, tmp, child, procs, work, applies>>

\* Mutant of Hold: a crashed firmware is started again.
Respawn == IF \E p \in Pid : procs[p] = Unused
             THEN \E p \in Pid : Popen(p) /\ child' = p
             ELSE child' = 0 /\ UNCHANGED procs

\* A crashed firmware is held: nothing starts it but a push.
Hold == child' = 0 /\ UNCHANGED procs

Clear ==
  /\ main = "clear"
  /\ main' = "look"
  /\ Hold
  /\ UNCHANGED <<file, tmp, work, applies>>

\* The interpreter opens the file it was started with.
Load(p) ==
  /\ procs[p] = [at |-> "up", runs |-> Absent]
  /\ procs' = [procs EXCEPT ![p].runs = file]
  /\ UNCHANGED <<file, tmp, child, work, main, applies>>

\* A process ends by itself: a crash, or nothing to run.
Exit(p) ==
  /\ procs[p].at = "up"
  /\ procs' = Down(p)
  /\ UNCHANGED <<file, tmp, child, work, main, applies>>

Step(t) ==
  \/ OpenTmp(t) \/ WriteTmp(t) \/ Replace(t)
  \/ Check(t) \/ PollChild(t) \/ Terminate(t) \/ WaitForIt(t) \/ Waited(t) \/ Kill(t)
  \/ StartFirmware(t) \/ Assign(t) \/ LogPid(t) \/ Answer(t)

Next ==
  \/ \E t \in Applier : Step(t) \/ \E c \in Code, b \in BOOLEAN : Receive(t, c, b)
  \/ Accept \/ HangUp \/ PollRaises
  \/ Look \/ Clear
  \/ \E p \in Pid : Load(p) \/ Exit(p)

\* The threads are scheduled.  Nothing is promised of peers, of the server, or of
\* the firmware, nor that a thread outlives its exceptions.
Fairness == (\A t \in Applier : WF_vars(Step(t))) /\ WF_vars(Look \/ Clear)

Spec == Init /\ [][Next]_vars /\ Fairness

-----------------------------------------------------------------------------
(* Properties. *)

Started == {p \in Pid : procs[p] # Unused}

\* A firmware that dies is held for a patch, not restarted in a loop: there is
\* never a process more than the first and one for each push or re-request that
\* passed the hash check, whatever the three threads do to self.child.
HoldsForPatch == Started \subseteq 1 .. applies + 1

\* An application no other overlapped and that is answered "accepted" has left its
\* own code in the firmware file, whole, and has started a process that has read
\* that code or has read nothing yet; also when the firmware was down, and
\* whatever the supervising thread did to self.child (watchdog.py apply_ota).
AcceptedRunsItsCode ==
  \A t \in Applier :
    work[t].pc = "answer" /\ work[t].ok /\ work[t].alone =>
      /\ file = work[t].code
      /\ work[t].pid \in Started
      /\ procs[work[t].pid].runs \in {Absent, work[t].code}

\* Every push the OTA thread has read comes to its answer, whatever the old firmware
\* does when it is told to end, what the other threads do meanwhile, and where
\* apply_ota raises (watchdog.py serve_ota).
PushAnswered == work[Ota].pc \notin {"idle", "read", "dead"} ~> work[Ota].pc = "answer"

\* A push that is answered "rejected" has left the firmware file alone
\* (doc/DATA_SCHEMAS.md on the ack's status).
RejectedKeepsCurrent ==
  work[Ota].pc = "answer" /\ ~work[Ota].ok => ~work[Ota].replaced

\* The firmware file is never half written (watchdog.py apply_ota): it is not so
\* where a push and a re-request overlap.
NeverHalfWritten == file \in Code

\* No peer ends the OTA thread ("malformed push must not kill the device",
\* watchdog.py serve_ota): readline and sendall do when they raise.
OtaThreadSurvives == work[Ota].pc # "dead"
=============================================================================
