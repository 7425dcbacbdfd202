-------------------------- MODULE Watchdog_proofs --------------------------
(***************************************************************************)
(* A crashed firmware is held for a patch, and an accepted push runs its   *)
(* own code unless another application overlapped it, for any number of    *)
(* pushes and re-requests and any interleaving of the three threads.       *)
(*                                                                         *)
(* The invariant has two halves.  Account: every process was paid for by   *)
(* a push or re-request that passed the hash check, and one that may yet   *)
(* start a process has paid already.  Solo: what an application that       *)
(* nothing overlapped has done to the files, at each of its places.        *)
(***************************************************************************)
EXTENDS Watchdog, Integers, TLAPS

\* Places of apply_ota from which a process may still be started.
Paying == {"open", "write", "replace", "check", "poll", "terminate", "wait", "waiting", "kill",
           "start"}

Owed(t) == IF work[t].pc \in Paying THEN 1 ELSE 0

\* Processes are numbered in the order they start, and each is paid for.
Account ==
  \E n \in Nat : Started = 1 .. n /\ n + Owed(Ota) + Owed(Poll) <= applies + 1

\* The process a thread started is there, and is yet to be answered for.
Ends(w) == w.pc \in {"assign", "log"} \/ (w.pc = "answer" /\ w.ok)

\* The rename is done.
Placed(w) == w.pc \in {"check", "poll", "terminate", "wait", "waiting", "kill", "start"} \/ Ends(w)

\* self.child, and the process a thread holds, were started.
Known ==
  /\ child # 0 => child \in Started
  /\ \A t \in Applier : work[t].pc = "waiting" \/ Ends(work[t]) => work[t].pid \in Started

\* What a thread carries is what its place says.
Done(w) ==
  /\ w.pc \in Paying \cup {"assign", "log"} => w.code \in Code
  /\ w.ok => w.pc \in {"answer", "dead"}

Progress == \A t \in Applier : Done(work[t])

\* An application that nothing overlapped: what is in the files and in its process.
Solo(t) ==
  work[t].alone =>
    /\ work[t].pc \in Writing \/ Placed(work[t]) =>
         \A o \in Applier : o # t => work[o].pc \notin Writing
    /\ work[t].pc = "write" => work[t].fd = "tmp" /\ tmp = "empty"
    /\ work[t].pc = "replace" => tmp = work[t].code
    /\ Placed(work[t]) => file = work[t].code
    /\ Ends(work[t]) => procs[work[t].pid].runs \in {Absent, work[t].code}

Solos == \A t \in Applier : Solo(t)

IInv == TypeOK /\ Account /\ Known /\ Progress /\ Solos

LEMMA InitIInv == Init => IInv
<1> SUFFICES ASSUME Init PROVE IInv
  OBVIOUS
<1>1. TypeOK
  BY WatchdogAssumption DEF Init, TypeOK, Idle, Unused, Content, Pid, Applier, Place
<1>2. Started = 1 .. 1
  BY WatchdogAssumption DEF Init, Started, Unused, Pid
<1>3. Account
  BY <1>2 DEF Init, Account, Owed, Idle, Paying, Applier
<1>4. Known /\ Progress /\ Solos
  BY <1>2 DEF Init, Known, Progress, Solos, Solo, Done, Idle, Paying, Ends, Placed, Writing
<1> QED BY <1>1, <1>3, <1>4 DEF IInv

-----------------------------------------------------------------------------
(* What a thread that moves must keep. *)

Process == [at : {"unused", "up", "down"}, runs : Content \cup {Absent}]

\* What TypeOK asks of a thread.
AnyWork ==
  [pc : Place, code : Code \cup {Absent}, fd : {"closed", "tmp", "file", "gone"},
   pid : {0} \cup Pid, ok : BOOLEAN, replaced : BOOLEAN, alone : BOOLEAN]

LEMMA WorkIs ==
  ASSUME IInv, NEW t \in Applier
  PROVE  work[t] \in AnyWork /\ Done(work[t]) /\ Solo(t)
BY DEF IInv, TypeOK, AnyWork, Progress, Solos

\* The processes there were are the processes there are, up or down.
Same ==
  /\ Started' = Started
  /\ procs' \in [Pid -> Process]
  /\ \A p \in Pid : procs'[p].runs = procs[p].runs

LEMMA StaySame == ASSUME IInv, procs' = procs PROVE Same
BY DEF IInv, TypeOK, Process, Same, Started

LEMMA DownSame == ASSUME IInv, NEW p \in Started, procs' = Down(p) PROVE Same
<1>1. p \in Pid /\ procs[p] # Unused
  BY DEF Started
<1>2. \A q \in Pid : procs'[q] = IF q = p THEN [procs[p] EXCEPT !.at = "down"] ELSE procs[q]
  BY DEF IInv, TypeOK, Down
<1>3. procs'[p].at = "down" /\ procs'[p] # Unused /\ procs'[p] \in Process
      /\ procs'[p].runs = procs[p].runs
  BY <1>1, <1>2 DEF IInv, TypeOK, Unused, Process
<1>4. procs' \in [Pid -> Process]
  BY <1>1, <1>2, <1>3 DEF IInv, TypeOK, Down, Process
<1>5. Started' = Started
  BY <1>1, <1>2, <1>3 DEF Started
<1> QED BY <1>2, <1>3, <1>4, <1>5 DEF Same

\* A thread goes on without touching the files, and starts nothing: its place is
\* paid for if the last was, and says no more of the files than the last did.
LEMMA MoveKeeps ==
  ASSUME IInv, NEW t \in Applier, NEW w \in AnyWork,
         work' = [work EXCEPT ![t] = w],
         w.pc \in Paying => work[t].pc \in Paying,
         w.pc \notin Writing,
         Placed(w) => Placed(work[t]) /\ w.code = work[t].code /\ w.alone = work[t].alone,
         Ends(w) => Ends(work[t]) /\ w.pid = work[t].pid,
         w.pc = "waiting" => w.pid \in Started,
         Done(w),
         Same,
         child' # 0 => child' \in Started,
         UNCHANGED <<file, tmp, main, applies>>
  PROVE  IInv'
<1>1. \A s \in Applier : work'[s] = IF s = t THEN w ELSE work[s]
  BY DEF IInv, TypeOK
<1>2. TypeOK'
  BY DEF IInv, TypeOK, AnyWork, Same, Process, Started
<1>3. Account'
  <2>1. Owed(Ota)' <= Owed(Ota) /\ Owed(Poll)' <= Owed(Poll)
    BY <1>1 DEF Owed, Applier
  <2>2. Owed(Ota) \in 0 .. 1 /\ Owed(Poll) \in 0 .. 1 /\ Owed(Ota)' \in 0 .. 1
        /\ Owed(Poll)' \in 0 .. 1 /\ applies \in Nat
    BY WatchdogAssumption DEF Owed, IInv, TypeOK
  <2>3. Started' = Started
    BY DEF Same
  <2> QED BY <2>1, <2>2, <2>3 DEF IInv, Account
<1>4. Known'
  <2>1. Ends(w) => w.pid \in Started
    BY DEF IInv, Known
  <2> QED BY <1>1, <2>1 DEF IInv, Known, Same
<1>5. Progress'
  BY <1>1 DEF IInv, Progress
<1>6. ASSUME NEW s \in Applier PROVE Solo(s)'
  <2>1. Solo(s)
    BY WorkIs
  <2>2. \A o \in Applier : work'[o].pc \in Writing => work[o].pc \in Writing
    BY <1>1
  <2>3. \A o \in Applier : Ends(work[o]) => work[o].pid \in Pid
    BY DEF IInv, Known, Started
  <2>4. CASE s = t
    <3>1. work'[s] = w /\ w.pc # "write" /\ w.pc # "replace"
      BY <1>1, <2>4 DEF Writing
    <3>2. ASSUME Placed(w), w.alone
          PROVE  /\ \A o \in Applier : o # s => work'[o].pc \notin Writing
                 /\ file' = w.code
                 /\ Ends(w) => procs'[w.pid].runs \in {Absent, w.code}
      <4>1. /\ \A o \in Applier : o # s => work[o].pc \notin Writing
            /\ file = w.code
            /\ Ends(w) => procs[w.pid].runs \in {Absent, w.code} /\ w.pid \in Pid
        BY <2>1, <2>3, <2>4, <3>2 DEF Solo
      <4> QED BY <2>2, <4>1 DEF Same
    <3>3. Ends(w) => Placed(w)
      BY DEF Placed
    <3>4. w.pc \notin Writing
      OBVIOUS
    <3> QED BY <3>1, <3>2, <3>3, <3>4 DEF Solo
  <2>5. CASE s # t
    <3>1. work'[s] = work[s]
      BY <1>1, <2>5
    <3> QED BY <2>1, <2>2, <2>3, <3>1 DEF Solo, Same
  <2> QED BY <2>4, <2>5
<1> QED BY <1>2, <1>3, <1>4, <1>5, <1>6 DEF IInv, Solos

LEMMA GotoKeeps ==
  ASSUME IInv, NEW t \in Applier, NEW pc \in Place,
         Goto(t, pc),
         pc \in Paying => work[t].pc \in Paying,
         pc \notin Writing, pc # "waiting",
         Placed([work[t] EXCEPT !.pc = pc]) => Placed(work[t]),
         Ends([work[t] EXCEPT !.pc = pc]) => Ends(work[t]),
         pc \in Paying \cup {"assign", "log"} => work[t].code \in Code,
         work[t].ok => pc \in {"answer", "dead"},
         Same,
         child' # 0 => child' \in Started,
         UNCHANGED <<file, tmp, main, applies>>
  PROVE  IInv'
<1> DEFINE w == [work[t] EXCEPT !.pc = pc]
<1>1. work' = [work EXCEPT ![t] = w]
  BY DEF Goto, IInv, TypeOK
<1>2. w \in AnyWork /\ w.pc = pc /\ w.code = work[t].code /\ w.alone = work[t].alone
      /\ w.pid = work[t].pid /\ w.ok = work[t].ok
  BY WorkIs DEF AnyWork
<1>3. (Placed(w) => Placed(work[t])) /\ (Ends(w) => Ends(work[t]))
  OBVIOUS
<1> HIDE DEF w
<1>4. Done(w)
  BY <1>2 DEF Done
<1> QED BY <1>1, <1>2, <1>3, <1>4, MoveKeeps

\* Within restart_firmware a thread goes on to another place of it, or to the start.
Restarting == {"check", "poll", "terminate", "wait", "waiting", "kill", "start"}

LEMMA RestartKeeps ==
  ASSUME IInv, NEW t \in Applier, work[t].pc \in Restarting,
         NEW pc \in Restarting \ {"waiting"}, Goto(t, pc), Same,
         UNCHANGED <<file, tmp, child, main, applies>>
  PROVE  IInv'
<1>1. Done(work[t]) /\ child' = child /\ work[t] \in AnyWork
  BY WorkIs
<1>2. work[t].pc \in Paying /\ pc \in Place /\ pc \notin Writing /\ pc # "waiting"
  BY DEF Restarting, Paying, Place, Writing
<1>3. Placed(work[t]) /\ ~work[t].ok /\ work[t].code \in Code
  BY <1>1, <1>2 DEF Restarting, Placed, Done
<1>4. ~Ends([work[t] EXCEPT !.pc = pc])
  BY <1>1, <1>3 DEF Ends, Restarting, AnyWork
<1>5. child' # 0 => child' \in Started
  BY <1>1 DEF IInv, Known
<1> QED BY <1>2, <1>3, <1>4, <1>5, GotoKeeps

LEMMA RaisesKeeps ==
  ASSUME IInv, NEW t \in Applier, Raises(t), Same, UNCHANGED <<file, tmp, child, main, applies>>
  PROVE  IInv'
<1> DEFINE w == [work[t] EXCEPT !.pc = IF t = Ota THEN "answer" ELSE "dead", !.ok = FALSE]
<1>1. work' = [work EXCEPT ![t] = w]
  BY DEF Raises, IInv, TypeOK
<1>2. w \in AnyWork /\ w.pc \in {"answer", "dead"} /\ ~w.ok
  BY WorkIs DEF AnyWork, Place
<1> HIDE DEF w
<1>3. Done(w) /\ ~Placed(w) /\ ~Ends(w) /\ w.pc \notin Paying /\ w.pc \notin Writing
      /\ w.pc # "waiting"
  BY <1>2 DEF Done, Placed, Ends, Paying, Writing
<1>4. child' # 0 => child' \in Started
  BY DEF IInv, Known
<1> QED BY <1>1, <1>2, <1>3, <1>4, MoveKeeps

-----------------------------------------------------------------------------
(* What reaches the two threads. *)

LEMMA AwaitKeeps == ASSUME IInv, Accept \/ HangUp \/ PollRaises PROVE IInv'
<1>1. PICK t \in Applier, pc \in {"idle", "read", "dead"} :
        Goto(t, pc) /\ work[t].pc \in {"idle", "read"}
        /\ UNCHANGED <<file, tmp, child, procs, main, applies>>
  BY DEF Accept, HangUp, PollRaises, Applier
<1>2. Same /\ work[t] \in AnyWork /\ Done(work[t])
  BY <1>1, StaySame, WorkIs
<1>3. ~work[t].ok
  BY <1>1, <1>2 DEF Done
<1>4. pc \in Place /\ pc \notin Paying \cup {"assign", "log"} /\ pc \notin Writing
      /\ pc # "waiting"
  BY DEF Place, Paying, Writing
<1>5. ~Placed([work[t] EXCEPT !.pc = pc]) /\ ~Ends([work[t] EXCEPT !.pc = pc])
  BY <1>2 DEF Placed, Ends, AnyWork
<1>6. child' # 0 => child' \in Started
  BY <1>1 DEF IInv, Known
<1> QED BY <1>1, <1>2, <1>3, <1>4, <1>5, <1>6, GotoKeeps

LEMMA ReceiveKeeps ==
  ASSUME IInv, NEW t \in Applier, NEW c \in Code, NEW b \in BOOLEAN, Receive(t, c, b)
  PROVE  IInv'
<1> DEFINE w == [Idle EXCEPT !.pc = IF b THEN "open" ELSE "answer", !.code = c]
<1>1. w.pc = (IF b THEN "open" ELSE "answer") /\ w.code = c /\ ~w.ok /\ w \in AnyWork
  BY DEF Idle, AnyWork, Place
<1>2. work' = [work EXCEPT ![t] = w] /\ applies' = (IF b THEN applies + 1 ELSE applies)
      /\ (b => applies < MaxApplies)
      /\ UNCHANGED <<file, tmp, child, procs, main>>
  BY DEF Receive
<1> HIDE DEF w
<1>3. \A s \in Applier : work'[s] = IF s = t THEN w ELSE work[s]
  BY <1>2 DEF IInv, TypeOK
<1>4. TypeOK'
  <2>1. applies' \in 0 .. MaxApplies
    BY <1>2, WatchdogAssumption DEF IInv, TypeOK
  <2> QED BY <1>1, <1>2, <2>1 DEF IInv, TypeOK, AnyWork
<1>5. Account'
  <2>1. Owed(Ota) \in 0 .. 1 /\ Owed(Poll) \in 0 .. 1 /\ Owed(Ota)' \in 0 .. 1
        /\ Owed(Poll)' \in 0 .. 1 /\ applies \in Nat
    BY WatchdogAssumption DEF Owed, IInv, TypeOK
  <2>2. \A s \in Applier : s # t => Owed(s)' = Owed(s)
    BY <1>3 DEF Owed
  <2>3. Owed(t)' = IF b THEN 1 ELSE 0
    BY <1>1, <1>3 DEF Owed, Paying
  <2>4. Owed(Ota)' + Owed(Poll)' <= Owed(Ota) + Owed(Poll) + (applies' - applies)
    BY <1>2, <2>1, <2>2, <2>3 DEF Applier, Ota, Poll
  <2>5. Started' = Started
    BY <1>2 DEF Started
  <2> QED BY <1>2, <2>1, <2>4, <2>5 DEF IInv, Account
<1>6. ~Placed(w) /\ ~Ends(w) /\ w.pc \notin Writing /\ w.pc # "waiting" /\ Done(w)
  BY <1>1 DEF Placed, Ends, Writing, Done, Paying
<1>7. Known' /\ Progress'
  BY <1>2, <1>3, <1>6 DEF IInv, Known, Progress, Started
<1>8. ASSUME NEW s \in Applier PROVE Solo(s)'
  <2>1. Solo(s) /\ \A o \in Applier : work'[o].pc \in Writing => work[o].pc \in Writing
    BY <1>3, <1>6, WorkIs
  <2>2. CASE s = t
    BY <1>3, <1>6, <2>2 DEF Solo, Writing
  <2>3. CASE s # t
    BY <1>2, <1>3, <2>1, <2>3 DEF Solo
  <2> QED BY <2>2, <2>3
<1> QED BY <1>4, <1>5, <1>7, <1>8 DEF IInv, Solos

-----------------------------------------------------------------------------
(* The files. *)

LEMMA OpenTmpKeeps == ASSUME IInv, NEW t \in Applier, OpenTmp(t) PROVE IInv'
<1> DEFINE W(s) == IF s = t
                     THEN [work[t] EXCEPT !.pc = "write", !.fd = "tmp",
                             !.alone = \A o \in Applier : work[o].pc \notin Writing]
                     ELSE [work[s] EXCEPT !.alone = @ /\ work[s].pc \in {"idle", "read", "open",
                                                                         "dead"}]
<1>1. /\ work[t].pc = "open" /\ tmp' = "empty"
      /\ work' = [s \in Applier |-> W(s)]
      /\ UNCHANGED <<file, child, procs, main, applies>>
  BY DEF OpenTmp
<1>2. ASSUME NEW s \in Applier
      PROVE  /\ work'[s].pc = IF s = t THEN "write" ELSE work[s].pc
             /\ work'[s].code = work[s].code
             /\ work'[s].pid = work[s].pid
             /\ work'[s].ok = work[s].ok
             /\ work'[s].fd = IF s = t THEN "tmp" ELSE work[s].fd
             /\ work'[s].alone =
                  IF s = t THEN \A o \in Applier : work[o].pc \notin Writing
                  ELSE work[s].alone /\ work[s].pc \in {"idle", "read", "open", "dead"}
             /\ work'[s] \in AnyWork
  <2>1. work[s] \in AnyWork /\ "write" \in Place
    BY WorkIs DEF Place
  <2> DEFINE quiet == \A o \in Applier : work[o].pc \notin Writing
             early == work[s].pc \in {"idle", "read", "open", "dead"}
  <2>2. quiet \in BOOLEAN /\ early \in BOOLEAN
    OBVIOUS
  <2>3. CASE s = t
    <3>1. work'[s] = [work[s] EXCEPT !.pc = "write", !.fd = "tmp", !.alone = quiet]
      BY <1>1, <2>3
    <3> HIDE DEF quiet, early
    <3>2. /\ work'[s].pc = "write" /\ work'[s].fd = "tmp" /\ work'[s].alone = quiet
          /\ work'[s].code = work[s].code /\ work'[s].pid = work[s].pid
          /\ work'[s].ok = work[s].ok /\ work'[s] \in AnyWork
      BY <2>1, <2>2, <3>1 DEF AnyWork
    <3> QED BY <2>3, <3>2 DEF quiet
  <2>4. CASE s # t
    <3>1. work'[s] = [work[s] EXCEPT !.alone = @ /\ early]
      BY <1>1, <2>4
    <3> HIDE DEF quiet, early
    <3>2. /\ work'[s].pc = work[s].pc /\ work'[s].fd = work[s].fd
          /\ work'[s].alone = (work[s].alone /\ early)
          /\ work'[s].code = work[s].code /\ work'[s].pid = work[s].pid
          /\ work'[s].ok = work[s].ok /\ work'[s] \in AnyWork
      BY <2>1, <2>2, <3>1 DEF AnyWork
    <3> QED BY <2>4, <3>2 DEF early
  <2> QED BY <2>3, <2>4
<1>3. work' \in [Applier -> AnyWork]
  <2>1. work' = [s \in Applier |-> work'[s]]
    BY <1>1
  <2> QED BY <1>2, <2>1
<1> HIDE DEF W
<1>4. TypeOK'
  BY <1>1, <1>3 DEF IInv, TypeOK, AnyWork, Content
<1>5. Account'
  <2>1. \A s \in Applier : Owed(s)' = Owed(s)
    BY <1>1, <1>2 DEF Owed, Paying
  <2> QED BY <1>1, <2>1 DEF IInv, Account, Started, Applier
<1>6. \A s \in Applier : Ends(work'[s]) = Ends(work[s])
  BY <1>1, <1>2 DEF Ends
<1>7. Known'
  BY <1>1, <1>2, <1>6 DEF IInv, Known, Started
<1>8. ASSUME NEW s \in Applier PROVE Done(work'[s])
  <2>1. Done(work[s])
    BY WorkIs
  <2>2. CASE s = t
    BY <1>1, <1>2, <2>1, <2>2 DEF Done, Paying
  <2>3. CASE s # t
    BY <1>2, <2>1, <2>3 DEF Done
  <2> QED BY <2>2, <2>3
<1>9. ASSUME NEW s \in Applier PROVE Solo(s)'
  <2>1. CASE s = t
    <3>1. ~Placed(work'[s]) /\ ~Ends(work'[s])
      BY <1>2, <2>1 DEF Placed, Ends
    <3>2. \A o \in Applier : o # s => work'[o].pc = work[o].pc
      BY <1>2, <2>1
    <3> QED BY <1>1, <1>2, <2>1, <3>1, <3>2 DEF Solo
  <2>2. CASE s # t
    <3>1. work'[s].alone => ~Placed(work'[s]) /\ ~Ends(work'[s]) /\ work'[s].pc \notin Writing
      BY <1>2, <2>2 DEF Placed, Ends, Writing
    <3> QED BY <3>1 DEF Solo, Writing
  <2> QED BY <2>1, <2>2
<1> QED BY <1>4, <1>5, <1>7, <1>8, <1>9 DEF IInv, Solos, Progress

\* Where another thread has a name open or a rename to do, an application that
\* nothing overlapped is not at a place that says anything.
LEMMA OthersAreOut ==
  ASSUME IInv, NEW t \in Applier, work[t].pc \in Writing,
         NEW s \in Applier, s # t, work[s].alone
  PROVE  work[s].pc \notin Writing /\ ~Placed(work[s])
BY WorkIs DEF Solo

LEMMA WriteTmpKeeps == ASSUME IInv, NEW t \in Applier, WriteTmp(t) PROVE IInv'
<1> DEFINE w == [work[t] EXCEPT !.pc = "replace", !.fd = "closed"]
<1>1. work' = [work EXCEPT ![t] = w] /\ work[t].pc = "write"
      /\ UNCHANGED <<child, procs, main, applies>>
  BY DEF WriteTmp, IInv, TypeOK
<1>2. work[t].code \in Code
  BY <1>1 DEF IInv, Progress, Done, Paying
<1>3. file' \in Content /\ tmp' \in Content \cup {Absent}
  BY <1>2 DEF WriteTmp, IInv, TypeOK, Content, Over
<1>4. w \in AnyWork /\ w.pc = "replace" /\ w.code = work[t].code /\ w.ok = work[t].ok
      /\ w.alone = work[t].alone
  BY WorkIs DEF AnyWork, Place
<1> HIDE DEF w
<1>5. \A s \in Applier : work'[s] = IF s = t THEN w ELSE work[s]
  BY <1>1 DEF IInv, TypeOK
<1>6. TypeOK'
  BY <1>1, <1>3, <1>4 DEF IInv, TypeOK, AnyWork
<1>7. Account'
  <2>1. \A s \in Applier : Owed(s)' = Owed(s)
    BY <1>1, <1>4, <1>5 DEF Owed, Paying
  <2> QED BY <1>1, <2>1 DEF IInv, Account, Started, Applier
<1>8. ~Ends(w) /\ ~Placed(w)
  BY <1>4 DEF Ends, Placed
<1>9. Known'
  BY <1>1, <1>4, <1>5, <1>8 DEF IInv, Known, Started
<1>10. Progress'
  <2>1. Done(w)
    BY <1>1, <1>2, <1>4, WorkIs DEF Done
  <2> QED BY <1>5, <2>1 DEF IInv, Progress
<1>11. ASSUME NEW s \in Applier PROVE Solo(s)'
  <2>1. CASE s = t
    <3>1. work[t].alone => /\ \A o \in Applier : o # t => work[o].pc \notin Writing
                           /\ tmp' = work[t].code
      BY <1>1, WorkIs DEF Solo, Writing, WriteTmp, Over
    <3> QED BY <1>4, <1>5, <1>8, <2>1, <3>1 DEF Solo
  <2>2. CASE s # t
    <3>1. work[s].alone => work[s].pc \notin Writing /\ ~Placed(work[s]) /\ ~Ends(work[s])
      BY <1>1, <2>2, OthersAreOut DEF Placed, Writing
    <3> QED BY <1>5, <2>2, <3>1 DEF Solo, Writing
  <2> QED BY <2>1, <2>2
<1> QED BY <1>6, <1>7, <1>9, <1>10, <1>11 DEF IInv, Solos

LEMMA ReplaceKeeps == ASSUME IInv, NEW t \in Applier, Replace(t) PROVE IInv'
<1>0. work[t].pc = "replace" /\ work[t] \in AnyWork /\ Done(work[t])
  BY WorkIs DEF Replace
<1>1. CASE tmp = Absent
  <2>1. Goto(t, "answer") /\ UNCHANGED <<file, tmp, child, procs, main, applies>>
    BY <1>1 DEF Replace
  <2>2. ~work[t].ok /\ Same /\ (child' # 0 => child' \in Started)
    BY <1>0, <2>1, StaySame DEF Done, IInv, Known
  <2>3. ~Placed([work[t] EXCEPT !.pc = "answer"]) /\ ~Ends([work[t] EXCEPT !.pc = "answer"])
    BY <1>0, <2>2 DEF Placed, Ends, AnyWork
  <2>4. "answer" \in Place /\ "answer" \notin Paying \cup {"assign", "log"}
        /\ "answer" \notin Writing
    BY DEF Place, Paying, Writing
  <2> QED BY <2>1, <2>2, <2>3, <2>4, GotoKeeps
<1>2. CASE tmp # Absent
  <2> DEFINE W(s) == [work[s] EXCEPT !.fd = Renamed(@), !.pc = IF s = t THEN "check" ELSE @,
                                     !.replaced = @ \/ s = t]
  <2>1. /\ file' = tmp /\ tmp' = Absent
        /\ work' = [s \in Applier |-> W(s)]
        /\ UNCHANGED <<child, procs, main, applies>>
    BY <1>2 DEF Replace
  <2>2. ASSUME NEW s \in Applier
        PROVE  /\ work'[s].pc = IF s = t THEN "check" ELSE work[s].pc
               /\ work'[s].code = work[s].code
               /\ work'[s].pid = work[s].pid
               /\ work'[s].ok = work[s].ok
               /\ work'[s].alone = work[s].alone
               /\ work'[s] \in AnyWork
    <3>1. work[s] \in AnyWork /\ Renamed(work[s].fd) \in {"closed", "tmp", "file", "gone"}
          /\ "check" \in Place
      BY WorkIs DEF AnyWork, Renamed, Place
    <3>2. work'[s] = W(s)
      BY <2>1
    <3> QED BY <3>1, <3>2 DEF AnyWork
  <2>3. work' \in [Applier -> AnyWork]
    <3>1. work' = [s \in Applier |-> work'[s]]
      BY <2>1
    <3> QED BY <2>2, <3>1
  <2> HIDE DEF W
  <2>4. TypeOK'
    BY <1>2, <2>1, <2>3 DEF IInv, TypeOK, AnyWork
  <2>5. Account'
    <3>1. \A s \in Applier : Owed(s)' = Owed(s)
      BY <1>0, <2>2 DEF Owed, Paying
    <3> QED BY <2>1, <3>1 DEF IInv, Account, Started, Applier
  <2>6. \A s \in Applier : Ends(work'[s]) => Ends(work[s])
    BY <2>2 DEF Ends
  <2>7. Known'
    BY <2>1, <2>2, <2>6 DEF IInv, Known, Started
  <2>8. ASSUME NEW s \in Applier PROVE Done(work'[s])
    <3>1. Done(work[s])
      BY WorkIs
    <3>2. CASE s = t
      BY <1>0, <2>2, <3>1, <3>2 DEF Done, Paying
    <3>3. CASE s # t
      BY <2>2, <3>1, <3>3 DEF Done
    <3> QED BY <3>2, <3>3
  <2>9. ASSUME NEW s \in Applier PROVE Solo(s)'
    <3>1. CASE s = t
      <4>1. ~Ends(work'[s])
        BY <2>2, <3>1 DEF Ends
      <4>2. \A o \in Applier : o # s => work'[o].pc = work[o].pc
        BY <2>2, <3>1
      <4>3. work[t].alone => /\ \A o \in Applier : o # t => work[o].pc \notin Writing
                             /\ tmp = work[t].code
        BY <1>0, WorkIs DEF Solo, Writing
      <4> QED BY <2>1, <2>2, <3>1, <4>1, <4>2, <4>3 DEF Solo
    <3>2. CASE s # t
      <4>1. work[s].alone => work[s].pc \notin Writing /\ ~Placed(work[s])
        BY <1>0, <3>2, OthersAreOut DEF Writing
      <4>2. work'[s].alone => work'[s].pc \notin Writing /\ ~Placed(work'[s])
            /\ ~Ends(work'[s])
        BY <2>2, <3>2, <4>1 DEF Placed, Ends
      <4> QED BY <4>2 DEF Solo, Writing
    <3> QED BY <3>1, <3>2
  <2> QED BY <2>4, <2>5, <2>7, <2>8, <2>9 DEF IInv, Solos, Progress
<1> QED BY <1>1, <1>2

-----------------------------------------------------------------------------
(* restart_firmware. *)

LEMMA CheckKeeps == ASSUME IInv, NEW t \in Applier, Check(t) PROVE IInv'
<1>1. Goto(t, "start") \/ Goto(t, "poll")
  BY DEF Check, WithoutChild
<1> QED BY <1>1, StaySame, RestartKeeps DEF Check, Restarting

LEMMA PollChildKeeps == ASSUME IInv, NEW t \in Applier, PollChild(t) PROVE IInv'
<1>1. Raises(t) \/ Goto(t, "start") \/ Goto(t, "terminate")
  BY DEF PollChild
<1> QED BY <1>1, StaySame, RestartKeeps, RaisesKeeps DEF PollChild, Restarting

\* terminate and kill end self.child, or leave the processes as they are.
LEMMA EndsChildSame ==
  ASSUME IInv, procs' = procs \/ (child # 0 /\ procs' = Down(child)) PROVE Same
BY StaySame, DownSame DEF IInv, Known

LEMMA TerminateKeeps == ASSUME IInv, NEW t \in Applier, Terminate(t) PROVE IInv'
<1>1. Same
  BY EndsChildSame DEF Terminate
<1>2. Raises(t) \/ Goto(t, "wait")
  BY DEF Terminate
<1> QED BY <1>1, <1>2, RestartKeeps, RaisesKeeps DEF Terminate, Restarting

LEMMA WaitForItKeeps == ASSUME IInv, NEW t \in Applier, WaitForIt(t) PROVE IInv'
<1>1. CASE child = 0
  BY <1>1, StaySame, RaisesKeeps DEF WaitForIt
<1>2. CASE child # 0
  <2> DEFINE w == [work[t] EXCEPT !.pc = "waiting", !.pid = child]
  <2>1. work' = [work EXCEPT ![t] = w] /\ work[t].pc = "wait"
        /\ UNCHANGED <<file, tmp, child, procs, main, applies>>
    BY <1>2 DEF WaitForIt, IInv, TypeOK
  <2>2. child \in Started
    BY <1>2 DEF IInv, Known
  <2>3. w \in AnyWork /\ w.pc = "waiting" /\ w.code = work[t].code /\ w.pid = child
        /\ w.alone = work[t].alone /\ w.ok = work[t].ok
    BY <2>2, WorkIs DEF AnyWork, Place, Started
  <2> HIDE DEF w
  <2>4. Done(work[t]) /\ ~work[t].ok /\ work[t].code \in Code /\ Placed(work[t])
    BY <2>1, WorkIs DEF Done, Paying, Placed
  <2>5. Done(w) /\ ~Ends(w) /\ work[t].pc \in Paying /\ w.pc \notin Writing
    BY <2>1, <2>3, <2>4 DEF Done, Ends, Paying, Writing
  <2> QED BY <2>1, <2>2, <2>3, <2>4, <2>5, StaySame, MoveKeeps
<1> QED BY <1>1, <1>2

LEMMA WaitedKeeps == ASSUME IInv, NEW t \in Applier, Waited(t) PROVE IInv'
<1>1. Goto(t, "start") \/ Goto(t, "kill")
  BY DEF Waited, AfterTimeout
<1> QED BY <1>1, StaySame, RestartKeeps DEF Waited, Restarting

LEMMA KillKeeps == ASSUME IInv, NEW t \in Applier, Kill(t) PROVE IInv'
<1>1. Same
  BY EndsChildSame DEF Kill
<1>2. Raises(t) \/ Goto(t, "start")
  BY DEF Kill
<1> QED BY <1>1, <1>2, RestartKeeps, RaisesKeeps DEF Kill, Restarting

-----------------------------------------------------------------------------
(* start_firmware. *)

\* Popen gives the next number, and the thread has paid for it.
LEMMA StartFirmwareKeeps == ASSUME IInv, NEW t \in Applier, StartFirmware(t) PROVE IInv'
<1>0. PICK p \in Pid : Popen(p) /\ work' = [work EXCEPT ![t].pc = "assign", ![t].pid = p]
  BY DEF StartFirmware
<1> DEFINE w == [work[t] EXCEPT !.pc = "assign", !.pid = p]
<1>1. work' = [work EXCEPT ![t] = w] /\ work[t].pc = "start"
      /\ UNCHANGED <<file, tmp, child, main, applies>>
  BY <1>0 DEF StartFirmware, IInv, TypeOK
<1>2. w \in AnyWork /\ w.pc = "assign" /\ w.code = work[t].code /\ w.ok = work[t].ok
      /\ w.pid = p /\ w.alone = work[t].alone
  BY WorkIs DEF AnyWork, Place
<1>3. work[t].code \in Code /\ ~work[t].ok /\ Placed(work[t])
  BY <1>1, WorkIs DEF Done, Paying, Placed
<1> HIDE DEF w
<1>4. \A s \in Applier : work'[s] = IF s = t THEN w ELSE work[s]
  BY <1>1 DEF IInv, TypeOK
<1>5. /\ procs[p] = Unused
      /\ \A q \in Pid : q < p => procs[q] # Unused
      /\ \A q \in Pid : procs'[q] = IF q = p THEN [at |-> "up", runs |-> Absent] ELSE procs[q]
  BY <1>0 DEF Popen, IInv, TypeOK
<1>6. Started' = Started \cup {p} /\ p \notin Started
  BY <1>5 DEF Started, Unused
<1>7. procs' \in [Pid -> [at : {"unused", "up", "down"}, runs : Content \cup {Absent}]]
  BY <1>0, <1>5 DEF Popen, IInv, TypeOK
<1>8. TypeOK'
  BY <1>1, <1>2, <1>7 DEF IInv, TypeOK, AnyWork
<1>9. Account'
  <2> PICK n \in Nat : Started = 1 .. n /\ n + Owed(Ota) + Owed(Poll) <= applies + 1
    BY DEF IInv, Account
  <2>1. p = n + 1
    <3>1. p \in Nat /\ p > n
      BY <1>6, WatchdogAssumption DEF Pid
    <3>2. \A q \in 1 .. (p - 1) : q \in Started
      BY <1>5, <3>1, WatchdogAssumption DEF Pid, Started
    <3>3. ~(p - 1 > n)
      <4>1. p - 1 > n => p - 1 \in 1 .. (p - 1)
        BY <3>1
      <4> QED BY <3>1, <3>2, <4>1
    <3> QED BY <3>1, <3>3
  <2>2. Started' = 1 .. n + 1
    BY <1>6, <2>1
  <2>3. Owed(Ota) \in 0 .. 1 /\ Owed(Poll) \in 0 .. 1 /\ applies \in Nat
    BY WatchdogAssumption DEF Owed, IInv, TypeOK
  <2>4. Owed(t) = 1 /\ Owed(t)' = 0
    BY <1>1, <1>2, <1>4 DEF Owed, Paying
  <2>5. \A s \in Applier : s # t => Owed(s)' = Owed(s)
    BY <1>4 DEF Owed
  <2>6. Owed(Ota)' + Owed(Poll)' = Owed(Ota) + Owed(Poll) - 1
    BY <2>3, <2>4, <2>5 DEF Applier, Ota, Poll
  <2>7. (n + 1) + Owed(Ota)' + Owed(Poll)' <= applies' + 1
    <3>1. Owed(Ota)' \in Int /\ Owed(Poll)' \in Int
      BY DEF Owed
    <3> QED BY <1>1, <2>3, <2>6, <3>1
  <2> QED BY <2>2, <2>7 DEF Account
<1>10. Known'
  <2>1. \A s \in Applier : work'[s].pc = "waiting" \/ Ends(work'[s]) => work'[s].pid \in Started'
    <3> TAKE s \in Applier
    <3>1. CASE s = t
      BY <1>2, <1>4, <1>6, <3>1
    <3>2. CASE s # t
      BY <1>4, <1>6, <3>2 DEF IInv, Known
    <3> QED BY <3>1, <3>2
  <2>2. child' # 0 => child' \in Started'
    BY <1>1, <1>6 DEF IInv, Known
  <2> QED BY <2>1, <2>2 DEF Known
<1>11. Progress'
  BY <1>2, <1>3, <1>4 DEF IInv, Progress, Done, Paying
<1>12. ASSUME NEW s \in Applier PROVE Solo(s)'
  <2>1. Solo(s) /\ \A o \in Applier : work'[o].pc \in Writing => work[o].pc \in Writing
    BY <1>2, <1>4, WorkIs DEF Writing
  <2>2. CASE s = t
    <3>1. work'[s] = w /\ procs'[w.pid].runs = Absent
      BY <1>2, <1>4, <1>5, <2>2
    <3>2. work[t].alone => /\ \A o \in Applier : o # t => work[o].pc \notin Writing
                           /\ file' = w.code
      BY <1>1, <1>2, <1>3, <2>1, <2>2 DEF Solo
    <3> QED BY <1>2, <2>1, <2>2, <3>1, <3>2 DEF Solo
  <2>3. CASE s # t
    <3>1. work'[s] = work[s]
      BY <1>4, <2>3
    <3>2. Ends(work[s]) => procs'[work[s].pid] = procs[work[s].pid]
      BY <1>5, <1>6 DEF IInv, Known, Started
    <3> QED BY <1>1, <2>1, <3>1, <3>2 DEF Solo
  <2> QED BY <2>2, <2>3
<1> QED BY <1>8, <1>9, <1>10, <1>11, <1>12 DEF IInv, Solos

LEMMA AssignKeeps == ASSUME IInv, NEW t \in Applier, Assign(t) PROVE IInv'
<1>1. Goto(t, "log") /\ work[t].pc = "assign" /\ child' = work[t].pid
      /\ UNCHANGED <<file, tmp, procs, main, applies>>
  BY DEF Assign
<1>2. Ends(work[t]) /\ Placed(work[t]) /\ ~work[t].ok /\ work[t].code \in Code
  BY <1>1, WorkIs DEF Ends, Placed, Done
<1>3. child' # 0 => child' \in Started
  BY <1>1, <1>2 DEF IInv, Known
<1>4. "log" \in Place /\ "log" \notin Paying /\ "log" \notin Writing
  BY DEF Place, Paying, Writing
<1> QED BY <1>1, <1>2, <1>3, <1>4, StaySame, GotoKeeps

LEMMA LogPidKeeps == ASSUME IInv, NEW t \in Applier, LogPid(t) PROVE IInv'
<1>1. CASE child = 0
  BY <1>1, StaySame, RaisesKeeps DEF LogPid
<1>2. CASE child # 0
  <2> DEFINE w == [work[t] EXCEPT !.pc = "answer", !.ok = TRUE]
  <2>1. work' = [work EXCEPT ![t] = w] /\ work[t].pc = "log"
        /\ UNCHANGED <<file, tmp, child, procs, main, applies>>
    BY <1>2 DEF LogPid, IInv, TypeOK
  <2>2. w \in AnyWork /\ w.pc = "answer" /\ w.code = work[t].code /\ w.pid = work[t].pid
        /\ w.alone = work[t].alone
    BY WorkIs DEF AnyWork, Place
  <2> HIDE DEF w
  <2>3. Ends(work[t]) /\ Placed(work[t])
    BY <2>1 DEF Ends, Placed
  <2>4. Done(w) /\ w.pc \notin Paying /\ w.pc \notin Writing /\ w.pc # "waiting"
    BY <2>2 DEF Done, Paying, Writing
  <2>5. child' # 0 => child' \in Started
    BY <2>1 DEF IInv, Known
  <2> QED BY <2>1, <2>2, <2>3, <2>4, <2>5, StaySame, MoveKeeps
<1> QED BY <1>1, <1>2

LEMMA AnswerKeeps == ASSUME IInv, NEW t \in Applier, Answer(t) PROVE IInv'
<1>1. work[t].pc = "answer" /\ UNCHANGED <<file, tmp, child, procs, main, applies>>
  BY DEF Answer
<1>2. child' # 0 => child' \in Started
  BY <1>1 DEF IInv, Known
<1>3. CASE work' = [work EXCEPT ![t] = Idle]
  <2>1. Idle \in AnyWork /\ Idle.pc = "idle" /\ ~Idle.ok
    BY DEF Idle, AnyWork, Place
  <2>2. Done(Idle) /\ ~Placed(Idle) /\ ~Ends(Idle) /\ Idle.pc \notin Paying
        /\ Idle.pc \notin Writing /\ Idle.pc # "waiting"
    BY <2>1 DEF Done, Placed, Ends, Paying, Writing
  <2> QED BY <1>1, <1>2, <1>3, <2>1, <2>2, StaySame, MoveKeeps
<1>4. CASE Goto(t, "dead")
  <2>1. ~Placed([work[t] EXCEPT !.pc = "dead"]) /\ ~Ends([work[t] EXCEPT !.pc = "dead"])
    BY WorkIs DEF Placed, Ends, AnyWork
  <2>2. "dead" \in Place /\ "dead" \notin Paying \cup {"assign", "log"} /\ "dead" \notin Writing
    BY DEF Place, Paying, Writing
  <2> QED BY <1>1, <1>2, <1>4, <2>1, <2>2, StaySame, GotoKeeps
<1> QED BY <1>3, <1>4 DEF Answer

-----------------------------------------------------------------------------
(* The supervising thread and the firmware. *)

\* No thread moved: the account stands.
LEMMA OthersKeep ==
  ASSUME IInv, UNCHANGED <<file, tmp, work, applies>>, Same, child' = 0 \/ child' = child,
         main' \in {"look", "clear"}
  PROVE  IInv'
<1>1. TypeOK'
  BY DEF IInv, TypeOK, Same, Process
<1>2. Account'
  BY DEF IInv, Account, Owed, Same
<1>3. Known'
  BY DEF IInv, Known, Same
<1>4. Progress'
  BY DEF IInv, Progress
<1>5. ASSUME NEW s \in Applier PROVE Solo(s)'
  <2>1. Solo(s) /\ (Ends(work[s]) => work[s].pid \in Pid)
    BY WorkIs DEF IInv, Known, Started
  <2> QED BY <2>1 DEF Solo, Same
<1> QED BY <1>1, <1>2, <1>3, <1>4, <1>5 DEF IInv, Solos

LEMMA LookKeeps == ASSUME IInv, Look PROVE IInv'
BY StaySame, OthersKeep DEF Look

LEMMA ClearKeeps == ASSUME IInv, Clear PROVE IInv'
BY StaySame, OthersKeep DEF Clear, Hold

LEMMA ExitKeeps == ASSUME IInv, NEW p \in Pid, Exit(p) PROVE IInv'
<1>1. p \in Started
  BY DEF Exit, Started, Unused
<1>2. main' \in {"look", "clear"} /\ Same
  BY <1>1, DownSame DEF Exit, IInv, TypeOK
<1> QED BY <1>2, OthersKeep DEF Exit

\* A process reads what is in the file: the code of an application that has
\* renamed it there, where nothing overlapped that one.
LEMMA LoadKeeps == ASSUME IInv, NEW p \in Pid, Load(p) PROVE IInv'
<1>1. /\ procs[p].at = "up" /\ procs' = [procs EXCEPT ![p].runs = file]
      /\ UNCHANGED <<file, tmp, child, work, main, applies>>
  BY DEF Load
<1>2. \A q \in Pid : procs'[q] = IF q = p THEN [procs[p] EXCEPT !.runs = file] ELSE procs[q]
  BY <1>1 DEF IInv, TypeOK
<1>3. procs'[p].at = "up" /\ procs'[p].runs = file /\ procs'[p] \in Process
  BY <1>1, <1>2 DEF IInv, TypeOK, Process
<1>4. procs' \in [Pid -> Process]
  BY <1>1, <1>2, <1>3 DEF IInv, TypeOK, Process
<1>5. Started' = Started
  BY <1>1, <1>2, <1>3 DEF Started, Unused
<1>6. TypeOK'
  BY <1>1, <1>4 DEF IInv, TypeOK, Process
<1>7. Account' /\ Known' /\ Progress'
  BY <1>1, <1>5 DEF IInv, Account, Owed, Known, Progress
<1>8. ASSUME NEW s \in Applier PROVE Solo(s)'
  <2>1. Solo(s) /\ (Ends(work[s]) => work[s].pid \in Pid /\ Placed(work[s]))
    BY WorkIs DEF IInv, Known, Started, Placed
  <2>2. \A q \in Pid : procs'[q].runs \in {procs[q].runs, file}
    BY <1>2, <1>3
  <2>3. ASSUME work[s].alone, Ends(work[s])
        PROVE  procs'[work[s].pid].runs \in {Absent, work[s].code}
    BY <2>1, <2>2, <2>3 DEF Solo
  <2> QED BY <1>1, <2>1, <2>3 DEF Solo
<1> QED BY <1>6, <1>7, <1>8 DEF IInv, Solos

-----------------------------------------------------------------------------

LEMMA StepKeeps == IInv /\ [Next]_vars => IInv'
<1> SUFFICES ASSUME IInv, [Next]_vars PROVE IInv'
  OBVIOUS
<1>1. CASE UNCHANGED vars
  BY <1>1 DEF vars, IInv, TypeOK, Account, Owed, Known, Progress, Started, Solos, Solo
<1>2. CASE \E t \in Applier : Step(t)
  BY <1>2, OpenTmpKeeps, WriteTmpKeeps, ReplaceKeeps, CheckKeeps, PollChildKeeps,
     TerminateKeeps, WaitForItKeeps, WaitedKeeps, KillKeeps, StartFirmwareKeeps, AssignKeeps,
     LogPidKeeps, AnswerKeeps DEF Step
<1>3. CASE \E t \in Applier : \E c \in Code, b \in BOOLEAN : Receive(t, c, b)
  BY <1>3, ReceiveKeeps
<1>4. CASE Accept \/ HangUp \/ PollRaises
  BY <1>4, AwaitKeeps
<1>5. CASE Look \/ Clear
  BY <1>5, LookKeeps, ClearKeeps
<1>6. CASE \E p \in Pid : Load(p) \/ Exit(p)
  BY <1>6, LoadKeeps, ExitKeeps
<1> QED BY <1>1, <1>2, <1>3, <1>4, <1>5, <1>6 DEF Next

LEMMA InvAlways == Spec => []IInv
BY InitIInv, StepKeeps, PTL DEF Spec

\* Every variable of the watchdog has its type: the files hold firmware whole,
\* empty or mixed, and self.child is a process or none.
THEOREM WatchdogTypeCorrect == Spec => []TypeOK
BY InvAlways, PTL DEF IInv

\* A firmware that dies is held for a patch (watchdog.py, the supervising loop):
\* whatever the three threads do to self.child, no process is started that a
\* push or re-request which passed the hash check has not paid for.
THEOREM CrashedFirmwareIsHeld == Spec => []HoldsForPatch
<1>1. IInv => HoldsForPatch
  <2> SUFFICES ASSUME IInv PROVE HoldsForPatch
    OBVIOUS
  <2> PICK n \in Nat : Started = 1 .. n /\ n + Owed(Ota) + Owed(Poll) <= applies + 1
    BY DEF IInv, Account
  <2>1. Owed(Ota) \in 0 .. 1 /\ Owed(Poll) \in 0 .. 1 /\ applies \in Nat
    BY WatchdogAssumption DEF Owed, IInv, TypeOK
  <2> QED BY <2>1 DEF HoldsForPatch
<1> QED BY <1>1, InvAlways, PTL

\* An application that no other overlapped and that is answered "accepted" has its
\* own code, whole, in the firmware file, and has started a process that runs that
\* code and no other (watchdog.py apply_ota), whatever else the threads did.
THEOREM AcceptedPushRunsItsCode == Spec => []AcceptedRunsItsCode
<1>1. IInv => AcceptedRunsItsCode
  <2> SUFFICES ASSUME IInv, NEW t \in Applier,
                      work[t].pc = "answer" /\ work[t].ok /\ work[t].alone
               PROVE  /\ file = work[t].code
                      /\ work[t].pid \in Started
                      /\ procs[work[t].pid].runs \in {Absent, work[t].code}
    BY DEF AcceptedRunsItsCode
  <2>1. Ends(work[t]) /\ Placed(work[t])
    BY DEF Ends, Placed
  <2> QED BY <2>1, WorkIs DEF Solo, IInv, Known
<1> QED BY <1>1, InvAlways, PTL
=============================================================================
