-------------------------- MODULE Pipeline_proofs --------------------------
(***************************************************************************)
(* The ledger implements Lifecycle, spends a sequence number once, has     *)
(* one live deployment per situation and loses no expiry: for any number   *)
(* of deployments, workers and raises.                                     *)
(*                                                                         *)
(* The invariant says, for each place in run(), what the worker there may  *)
(* rely on about its row, although every write before it was a transaction *)
(* of its own and the device and the caller went on meanwhile.             *)
(***************************************************************************)
EXTENDS Pipeline, FiniteSetTheorems, TLAPS

\* DeviceState, its watermark not bounded by what one run of TLC can reach.
Document ==
  [slots     : [Slot -> SlotRecord],
   active    : Slot,
   lkg       : Slot,
   candidate : Slot \cup {"none"},
   status    : {"none", "probation", "active", "failed"},
   ticks     : Nat,
   failures  : Nat,
   watermark : Nat]

Outcomes == {"ACTIVE_ON_DEVICE", "REVERTED"}

Underway == {"open", "gates", "number", "sign", "attempt", "deliver", "conclude"}

Task == [pc : {"idle"} \cup Underway, row : Deployment \cup {Nobody},
         event : Event \cup {Nobody}, base : Program \cup {Nobody}, seq : Nat,
         ok : BOOLEAN]

Typed ==
  /\ dev \in Document
  /\ row \in [Deployment -> Row]
  /\ work \in [Worker -> Task]
  /\ lock \in Worker \cup {Nobody}
  /\ reports \subseteq [row : Deployment, outcome : Outcomes]
  /\ word \in [Deployment -> SUBSET {"installed", "activated", "reverted"}]

\* One worker at a time is inside run().
Locked == \A p \in Worker : work[p] # Idle => lock = p

\* The rows that may be w's, by the place w is at.
RowFits(w) ==
  /\ w.row \in Deployment
  /\ row[w.row].event = w.event
  /\ row[w.row].state \in
       CASE w.pc = "gates" -> {"PROPOSED", "MANIFEST_VALIDATED", "COMPILED"}
         [] w.pc = "number" -> {"SIMULATION_VERIFIED"}
         [] w.pc = "sign" -> {"SIMULATION_VERIFIED"}
         [] w.pc = "attempt" -> {"SIGNED"}
         [] OTHER -> {"DELIVERY_ATTEMPTED"}

\* A number just read is above every other; a number written is the row's.
NumberFits(w) ==
  /\ w.pc = "sign" => \A d \in Deployment : row[d].seq < w.seq
  /\ w.pc \in {"attempt", "deliver"} => row[w.row].seq = w.seq
  /\ w.pc \in {"sign", "attempt", "deliver"} => dev.watermark < w.seq

\* The duplicate check, still true of a row long after it was made.
Free(w) ==
  w.event \in ContextEvents =>
    \A d \in Deployment : row[d].event = w.event => row[d].state \notin Live

AtPlace(w) ==
  /\ w.pc # "idle" => Free(w)
  /\ w.pc # "conclude" => ~w.ok
  /\ w.pc \notin {"idle", "open"} =>
       /\ RowFits(w)
       /\ word[w.row] = {} <=> ~w.ok
  /\ NumberFits(w)

Placed == \A p \in Worker : AtPlace(work[p])

\* The device speaks only of what it installed, and of that only once the
\* ledger had a row that was sent; reports and slots are backed by its word.
Told ==
  /\ \A d \in Deployment : word[d] # {} =>
       /\ "installed" \in word[d]
       /\ row[d].state \in {"DELIVERY_ATTEMPTED", "REVERTED", "ROLLED_BACK"} \cup Live
  /\ \A r \in reports :
       /\ r.outcome = "ACTIVE_ON_DEVICE" => "activated" \in word[r.row]
       /\ r.outcome # "ACTIVE_ON_DEVICE" => "reverted" \in word[r.row]
  /\ \A s \in Slot : dev.slots[s].artifact \in Deployment
                       => word[dev.slots[s].artifact] # {}

\* The device has seen no number that is not in the ledger.
Numbered ==
  /\ dev.watermark = 0 \/ \E d \in Deployment : dev.watermark <= row[d].seq
  /\ \A d, e \in Deployment : d # e /\ row[d].seq > 0 => row[d].seq # row[e].seq

IInv == Typed /\ Locked /\ Placed /\ Told /\ Numbered /\ OneLivePerEvent

-----------------------------------------------------------------------------
(* Sequence numbers. *)

\* A finite set of numbers that is not empty has a greatest element: a least
\* counterexample would still lack one after losing any of its elements.
LEMMA GreatestExists ==
  ASSUME NEW S \in SUBSET Nat, IsFiniteSet(S), S # {}
  PROVE  \E x \in S : \A y \in S : x >= y
<1> DEFINE F == FiniteSubsetsOf(Nat)
           R == StrictSubsetOrdering(Nat)
           Without == {X \in F : X # {} /\ ~ \E x \in X : \A y \in X : x >= y}
<1>1. SUFFICES ASSUME Without # {} PROVE FALSE
  BY DEF FiniteSubsetsOf
<1>2. PICK X \in Without : \A Y \in Without : <<Y, X>> \notin R
  <2>1. IsWellFoundedOn(R, F)
    BY FS_StrictSubsetOrderingWellFounded
  <2>2. Without \subseteq F
    OBVIOUS
  <2> HIDE DEF R, F, Without
  <2> QED BY <1>1, <2>1, <2>2, WFMin
<1>3. X \in SUBSET Nat /\ IsFiniteSet(X) /\ X # {}
  BY DEF FiniteSubsetsOf
<1>4. PICK x \in X : TRUE
  BY <1>3
<1> DEFINE Y == X \ {x}
<1>5. Y \in F
  BY <1>3, FS_RemoveElement DEF FiniteSubsetsOf
<1>6. <<Y, X>> \in R
  BY <1>3, <1>4 DEF StrictSubsetOrdering
<1>7. Y \notin Without
  BY <1>2, <1>6
<1>8. CASE Y = {}
  <2>1. \A y \in X : x >= y
    BY <1>8, <1>3
  <2> QED BY <2>1, <1>4, <1>2
<1>9. CASE Y # {}
  <2>1. PICK m \in Y : \A y \in Y : m >= y
    BY <1>5, <1>7, <1>9
  <2>2. CASE m >= x
    <3>1. \A y \in X : m >= y
      BY <2>1, <2>2
    <3> QED BY <3>1, <1>2
  <2>3. CASE ~(m >= x)
    <3>1. \A y \in X : x >= y
      BY <2>1, <2>3, <1>3
    <3> QED BY <3>1, <1>2
  <2> QED BY <2>2, <2>3
<1> QED BY <1>8, <1>9

LEMMA GreatestInLedger ==
  ASSUME Typed
  PROVE  \E x \in {0} \cup {row[d].seq : d \in Deployment} :
           /\ NextSequence = x + 1 /\ x \in Nat
           /\ \A d \in Deployment : row[d].seq <= x
<1> DEFINE T == {row[d].seq : d \in Deployment}
           S == {0} \cup T
<1>1. IsFiniteSet(S)
  <2>1. [d \in Deployment |-> row[d].seq] \in Surjection(Deployment, T)
    BY DEF Surjection
  <2>2. IsFiniteSet(T)
    BY <2>1, FS_Surjection, PipelineAssumption
  <2>3. IsFiniteSet(T \cup {0})
    BY <2>2, FS_AddElement
  <2>4. S = T \cup {0}
    OBVIOUS
  <2> QED BY <2>3, <2>4
<1>2. S \in SUBSET Nat /\ \A d \in Deployment : row[d].seq \in S
  BY DEF Typed, Row
<1>3. \E x \in S : \A y \in S : x >= y
  <2> HIDE DEF S
  <2>1. 0 \in S
    BY DEF S
  <2> QED BY <1>1, <1>2, <2>1, GreatestExists
<1>4. Max(S) \in S /\ \A y \in S : Max(S) >= y
  BY <1>3 DEF Max
<1>5. NextSequence = Max(S) + 1
  BY DEF NextSequence
<1> HIDE DEF S
<1>6. Max(S) \in Nat /\ \A d \in Deployment : row[d].seq <= Max(S)
  BY <1>2, <1>4
<1>7. \E x \in S : NextSequence = x + 1 /\ x \in Nat /\ \A d \in Deployment : row[d].seq <= x
  BY <1>4, <1>5, <1>6
<1> QED BY <1>7 DEF S

LEMMA NextIsFresh ==
  ASSUME Typed
  PROVE  /\ NextSequence \in Nat
         /\ NextSequence > 0
         /\ \A d \in Deployment : row[d].seq < NextSequence
<1>1. PICK x \in {0} \cup {row[d].seq : d \in Deployment} :
        /\ NextSequence = x + 1 /\ x \in Nat
        /\ \A d \in Deployment : row[d].seq <= x
  BY GreatestInLedger
<1>2. \A d \in Deployment : row[d].seq \in Nat
  BY DEF Typed, Row
<1> QED BY <1>1, <1>2

-----------------------------------------------------------------------------
(* Facts used by several steps. *)

LEMMA InitIInv == Init => IInv
<1> SUFFICES ASSUME Init PROVE IInv
  OBVIOUS
<1> DEFINE d == Provisioned(BlankState)
<1>1. FactoryRecord \in SlotRecord /\ EmptySlot \in SlotRecord
  BY SlotsAssumption DEF FactoryRecord, EmptySlot, SlotRecord, NoLease, Lease, Time
<1>2. BlankState \in Document
  BY <1>1 DEF BlankState, Document, Slot
<1>3. [BlankState.slots EXCEPT !["A"] = FactoryRecord] \in [Slot -> SlotRecord]
  BY <1>1, <1>2 DEF Document
<1>4. d \in Document
  BY <1>2, <1>3 DEF Provisioned, Document, Slot
<1>5. d.watermark = 0
  BY <1>2 DEF Provisioned, BlankState, Document
<1>6. \A s \in Slot : d.slots[s].artifact \notin Deployment
  <2>1. d.slots = [BlankState.slots EXCEPT !["A"] = FactoryRecord]
    BY <1>2 DEF Provisioned, Document
  <2>2. BlankState.slots = [s \in Slot |-> EmptySlot]
    BY DEF BlankState
  <2>3. \A s \in Slot : d.slots[s] \in {FactoryRecord, EmptySlot}
    BY <2>1, <2>2
  <2> QED BY <2>3, SlotsAssumption, PipelineAssumption DEF FactoryRecord, EmptySlot
<1> HIDE DEF d
<1>7. dev = d
  BY DEF Init, d
<1>8. Typed
  BY <1>4, <1>7, PipelineAssumption
     DEF Init, Typed, Row, NoRow, State, Task, Idle
<1>9. Placed
  BY DEF Init, Placed, AtPlace, NumberFits, Idle
<1>10. Locked /\ Told
  BY <1>6, <1>7 DEF Init, Locked, Told
<1>11. Numbered /\ OneLivePerEvent
  BY <1>5, <1>7 DEF Init, Numbered, OneLivePerEvent, NoRow, Live
<1> QED BY <1>8, <1>9, <1>10, <1>11 DEF IInv

\* A worker that has begun is alone.
LEMMA Alone ==
  ASSUME IInv, NEW p \in Worker, work[p] # Idle
  PROVE  lock = p /\ \A q \in Worker \ {p} : work[q] = Idle
BY DEF IInv, Locked

\* Nothing is asked of a worker that has not.
LEMMA PlacedByOne ==
  ASSUME NEW p \in Worker,
         \A q \in Worker \ {p} : (work[q] = Idle)',
         AtPlace(work[p])'
  PROVE  Placed'
<1>1. ASSUME NEW q \in Worker \ {p} PROVE AtPlace(work[q])'
  BY <1>1 DEF AtPlace, NumberFits, Idle
<1> QED BY <1>1 DEF Placed

LEMMA ToldKept ==
  ASSUME Told, UNCHANGED <<dev, reports, word>>,
         \A d \in Deployment :
           word[d] # {} => \/ row'[d].state = row[d].state
                          \/ row'[d].state \in {"REVERTED", "ROLLED_BACK"} \cup Live
  PROVE  Told'
BY DEF Told

LEMMA OneLiveKept ==
  ASSUME OneLivePerEvent,
         \A d \in Deployment : row'[d].state \in Live =>
           row[d].state \in Live /\ row'[d].event = row[d].event
  PROVE  /\ OneLivePerEvent'
         /\ \A p \in Worker : Free(work[p]) /\ work'[p].event = work[p].event
                             => Free(work[p])'
<1>1. OneLivePerEvent'
  BY DEF OneLivePerEvent
<1>2. ASSUME NEW p \in Worker, Free(work[p]), work'[p].event = work[p].event
      PROVE  Free(work[p])'
  BY <1>2 DEF Free
<1> QED BY <1>1, <1>2

LEMMA NumberedKept ==
  ASSUME Numbered, dev'.watermark = dev.watermark,
         \A d \in Deployment : row'[d].seq = row[d].seq
  PROVE  Numbered'
BY DEF Numbered

\* Ending run(), by a return or a raise.
LEMMA LeaveKeeps ==
  ASSUME IInv, NEW p \in Worker, work[p] # Idle, Leave(p)
  PROVE  /\ work' \in [Worker -> Task] /\ lock' \in Worker \cup {Nobody}
         /\ Locked' /\ Placed'
<1>1. \A q \in Worker : work'[q] = Idle
  BY Alone DEF Leave, IInv, Typed
<1>2. AtPlace(work[p])'
  BY <1>1 DEF AtPlace, NumberFits, Idle
<1>3. Placed'
  BY <1>1, <1>2, PlacedByOne
<1> QED BY <1>1, <1>3 DEF Leave, IInv, Typed, Locked, Task, Idle

\* Going on inside it.
LEMMA GoOn ==
  ASSUME IInv, NEW p \in Worker, work[p] # Idle, lock' = lock,
         NEW w \in Task, work' = [work EXCEPT ![p] = w]
  PROVE  /\ work' \in [Worker -> Task] /\ lock' \in Worker \cup {Nobody}
         /\ Locked' /\ work'[p] = w
         /\ \A q \in Worker \ {p} : work'[q] = Idle
BY Alone DEF IInv, Typed, Locked

\* The one state that leads to each of the outcomes.
LEMMA Precedes ==
  ASSUME NEW s, NEW to \in TRANSITIONS(s)
  PROVE  /\ to \in State \ {"none", "PROPOSED"}
         /\ to = "ACTIVE_ON_DEVICE" => s = "ACCEPTED_BY_DEVICE"
         /\ to \in {"REVERTED", "ROLLED_BACK"} => s \in Live
BY DEF TRANSITIONS, State, Live, TERMINAL

\* A row moves and nothing else of the ledger does.
LEMMA Advanced ==
  ASSUME Typed, NEW d \in Deployment, NEW to \in State,
         row' = [row EXCEPT ![d].state = to]
  PROVE  /\ row' \in [Deployment -> Row]
         /\ row'[d].state = to
         /\ \A e \in Deployment : row'[e].event = row[e].event /\ row'[e].seq = row[e].seq
         /\ \A e \in Deployment \ {d} : row'[e] = row[e]
BY DEF Typed, Row

-----------------------------------------------------------------------------
(* The steps of a worker. *)

LEMMA StartKeeps == ASSUME IInv, NEW p \in Worker, Start(p) PROVE IInv'
<1>1. PICK ev \in Event, base \in ReportedHash :
        /\ ev \in ContextEvents => ~LiveForEvent(ev)
        /\ work' = [work EXCEPT ![p] = [Idle EXCEPT !.pc = "open", !.event = ev, !.base = base]]
  BY DEF Start
<1>2. base \in Program
  BY DEF ReportedHash, IInv, Typed, Document, SlotRecord
<1>3. lock = Nobody /\ lock' = p /\ UNCHANGED <<dev, row, reports, word>>
  BY DEF Start, MayEnter
<1>4. \A q \in Worker : work[q] = Idle
  BY <1>3, PipelineAssumption DEF IInv, Locked
<1>5. [Idle EXCEPT !.pc = "open", !.event = ev, !.base = base] \in Task
  BY <1>2 DEF Idle, Task, Underway
<1>6. Typed'
  BY <1>1, <1>3, <1>5 DEF IInv, Typed
<1>7. /\ work'[p].pc = "open" /\ work'[p].event = ev /\ work'[p].ok = FALSE
      /\ \A q \in Worker \ {p} : work'[q] = Idle
  BY <1>1, <1>4 DEF IInv, Typed, Idle
<1>8. Locked'
  BY <1>3, <1>7 DEF Locked
<1>9. AtPlace(work[p])'
  BY <1>1, <1>3, <1>7 DEF AtPlace, NumberFits, Free, LiveForEvent
<1>10. Placed'
  BY <1>7, <1>9, PlacedByOne
<1>11. Told' /\ Numbered' /\ OneLivePerEvent'
  BY <1>3, ToldKept, NumberedKept, OneLiveKept DEF IInv
<1> QED BY <1>6, <1>8, <1>10, <1>11 DEF IInv

LEMMA OpenKeeps == ASSUME IInv, NEW p \in Worker, Open(p) PROVE IInv'
<1>1. PICK d \in Deployment :
        /\ row[d] = NoRow
        /\ row' = [row EXCEPT ![d] = [state |-> "PROPOSED", event |-> work[p].event,
                                      base |-> work[p].base, seq |-> 0]]
        /\ work' = [work EXCEPT ![p].pc = "gates", ![p].row = d]
  BY DEF Open
<1> DEFINE w == [work[p] EXCEPT !.pc = "gates", !.row = d]
<1>2. work[p].pc = "open" /\ UNCHANGED <<dev, lock, reports, word>>
  BY DEF Open
<1>3. work[p] \in Task /\ work[p] # Idle
  BY <1>2 DEF IInv, Typed, Idle
<1>4. w \in Task /\ work' = [work EXCEPT ![p] = w]
  BY <1>1, <1>3 DEF Task, Underway
<1>5. /\ work' \in [Worker -> Task] /\ lock' \in Worker \cup {Nobody}
      /\ Locked' /\ work'[p] = w
      /\ \A q \in Worker \ {p} : work'[q] = Idle
  <2> HIDE DEF w
  <2> QED BY <1>2, <1>3, <1>4, GoOn
<1>6. /\ w.pc = "gates" /\ w.row = d /\ w.event = work[p].event /\ w.ok = FALSE
  BY <1>2, <1>3 DEF Task, IInv, Placed, AtPlace
<1>7. /\ row' \in [Deployment -> Row]
      /\ row'[d].state = "PROPOSED" /\ row'[d].event = work[p].event /\ row'[d].seq = 0
      /\ row[d].state = "none" /\ row[d].seq = 0
      /\ \A e \in Deployment \ {d} : row'[e] = row[e]
  BY <1>1, <1>3 DEF IInv, Typed, Row, State, Task, NoRow
<1>8. word[d] = {}
  BY <1>7 DEF IInv, Told, Live
<1> HIDE DEF w
<1>9. OneLivePerEvent' /\ Free(work[p])'
  <2>1. Free(work[p])
    BY <1>2 DEF IInv, Placed, AtPlace
  <2>2. work'[p].event = work[p].event
    BY <1>5, <1>6
  <2> QED BY <1>7, <2>1, <2>2, OneLiveKept DEF IInv, Live
<1>10. AtPlace(work[p])'
  <2>1. RowFits(work[p])'
    BY <1>5, <1>6, <1>7 DEF RowFits
  <2>2. NumberFits(work[p])'
    BY <1>5, <1>6 DEF NumberFits
  <2> QED BY <1>2, <1>5, <1>6, <1>8, <1>9, <2>1, <2>2 DEF AtPlace
<1>11. Typed' /\ Placed'
  BY <1>2, <1>5, <1>7, <1>10, PlacedByOne DEF IInv, Typed
<1>12. Told'
  BY <1>2, <1>7, <1>8, ToldKept DEF IInv
<1>13. Numbered'
  BY <1>2, <1>7, NumberedKept DEF IInv
<1> QED BY <1>5, <1>9, <1>11, <1>12, <1>13 DEF IInv

LEMMA GateKeeps == ASSUME IInv, NEW p \in Worker, Gate(p) PROVE IInv'
<1> DEFINE d == work[p].row
<1>1. work[p].pc = "gates" /\ UNCHANGED <<dev, reports, word>>
  BY DEF Gate
<1>2. work[p] \in Task /\ work[p] # Idle /\ AtPlace(work[p])
  BY <1>1 DEF IInv, Typed, Idle, Placed
<1>3. /\ d \in Deployment /\ word[d] = {} /\ ~work[p].ok
      /\ row[d].state \in {"PROPOSED", "MANIFEST_VALIDATED", "COMPILED"}
  BY <1>1, <1>2 DEF AtPlace, RowFits
<1>4. PICK to \in {"MANIFEST_VALIDATED", "COMPILED", "SIMULATION_VERIFIED", "REJECTED"} :
        /\ to \in TRANSITIONS(row[d].state)
        /\ row' = [row EXCEPT ![d].state = to]
        /\ \/ /\ to # "REJECTED"
              /\ lock' = lock
              /\ work' = [work EXCEPT ![p].pc = IF to = "SIMULATION_VERIFIED" THEN "number" ELSE @]
           \/ to = "REJECTED" /\ Leave(p)
  BY DEF Gate, AdvanceTo
<1>5. /\ row' \in [Deployment -> Row]
      /\ row'[d].state = to
      /\ \A e \in Deployment : row'[e].event = row[e].event /\ row'[e].seq = row[e].seq
      /\ \A e \in Deployment \ {d} : row'[e] = row[e]
  BY <1>3, <1>4, Precedes, Advanced DEF IInv
<1> HIDE DEF d
<1>6. Told' /\ Numbered'
  BY <1>1, <1>3, <1>5, ToldKept, NumberedKept DEF IInv
<1>7. /\ OneLivePerEvent'
      /\ \A q \in Worker : Free(work[q]) /\ work'[q].event = work[q].event
                            => Free(work[q])'
  BY <1>4, <1>5, OneLiveKept DEF IInv, Live
<1>8. CASE to # "REJECTED"
  <2> DEFINE w == [work[p] EXCEPT !.pc = IF to = "SIMULATION_VERIFIED" THEN "number" ELSE @]
  <2>1. w \in Task /\ work' = [work EXCEPT ![p] = w] /\ lock' = lock
    BY <1>2, <1>4, <1>8 DEF Task, Underway
  <2>2. /\ w.row = d /\ w.event = work[p].event /\ w.ok = work[p].ok
        /\ w.pc = IF to = "SIMULATION_VERIFIED" THEN "number" ELSE "gates"
    BY <1>1, <1>2 DEF Task, d
  <2> HIDE DEF w
  <2>3. /\ work' \in [Worker -> Task] /\ lock' \in Worker \cup {Nobody}
        /\ Locked' /\ work'[p] = w
        /\ \A q \in Worker \ {p} : work'[q] = Idle
    BY <1>2, <2>1, GoOn
  <2>4. RowFits(work[p])'
    BY <1>2, <1>1, <1>3, <1>4, <1>5, <1>8, <2>2, <2>3 DEF RowFits, AtPlace, d
  <2>5. NumberFits(work[p])'
    BY <2>2, <2>3 DEF NumberFits
  <2>6. Free(work[p])'
    BY <1>1, <1>2, <1>7, <2>2, <2>3 DEF AtPlace
  <2>7. AtPlace(work[p])'
    BY <1>1, <1>3, <2>2, <2>3, <2>4, <2>5, <2>6 DEF AtPlace
  <2> QED BY <1>1, <1>5, <1>6, <1>7, <2>3, <2>7, PlacedByOne DEF IInv, Typed
<1>9. CASE to = "REJECTED"
  BY <1>1, <1>2, <1>4, <1>5, <1>6, <1>7, <1>9, LeaveKeeps DEF IInv, Typed
<1> QED BY <1>8, <1>9

LEMMA NumberKeeps == ASSUME IInv, NEW p \in Worker, Number(p) PROVE IInv'
<1> DEFINE w == [work[p] EXCEPT !.pc = "sign", !.seq = NextSequence]
<1>1. work[p].pc = "number" /\ UNCHANGED <<dev, row, lock, reports, word>>
  BY DEF Number
<1>2. work[p] \in Task /\ work[p] # Idle /\ AtPlace(work[p])
  BY <1>1 DEF IInv, Typed, Idle, Placed
<1>3. /\ NextSequence \in Nat
      /\ \A d \in Deployment : row[d].seq < NextSequence
      /\ NextSequence > 0
  BY NextIsFresh DEF IInv
<1>4. dev.watermark < NextSequence
  <2>1. dev.watermark \in Nat /\ \A d \in Deployment : row[d].seq \in Nat
    BY DEF IInv, Typed, Document, Row
  <2> QED BY <1>3, <2>1 DEF IInv, Numbered
<1>5. w \in Task /\ work' = [work EXCEPT ![p] = w]
  BY <1>2, <1>3 DEF Number, Task, Underway
<1>6. /\ w.row = work[p].row /\ w.event = work[p].event /\ w.ok = work[p].ok
      /\ w.pc = "sign" /\ w.seq = NextSequence
  BY <1>2 DEF Task
<1> HIDE DEF w
<1>7. /\ work' \in [Worker -> Task] /\ lock' \in Worker \cup {Nobody}
      /\ Locked' /\ work'[p] = w
      /\ \A q \in Worker \ {p} : work'[q] = Idle
  BY <1>1, <1>2, <1>5, GoOn
<1>8. AtPlace(work[p])'
  <2>1. RowFits(work[p])'
    BY <1>1, <1>2, <1>6, <1>7 DEF RowFits, AtPlace
  <2>2. NumberFits(work[p])'
    BY <1>1, <1>3, <1>4, <1>6, <1>7 DEF NumberFits
  <2>3. Free(work[p])'
    BY <1>1, <1>2, <1>6, <1>7 DEF Free, AtPlace
  <2> QED BY <1>1, <1>2, <1>6, <1>7, <2>1, <2>2, <2>3 DEF AtPlace
<1>9. Told' /\ Numbered' /\ OneLivePerEvent'
  BY <1>1, ToldKept, NumberedKept, OneLiveKept DEF IInv
<1> QED BY <1>1, <1>7, <1>8, <1>9, PlacedByOne DEF IInv, Typed

LEMMA SignKeeps == ASSUME IInv, NEW p \in Worker, Sign(p) PROVE IInv'
<1> DEFINE d == work[p].row
           w == [work[p] EXCEPT !.pc = "attempt"]
<1>1. work[p].pc = "sign" /\ UNCHANGED <<dev, lock, reports, word>>
  BY DEF Sign
<1>2. work[p] \in Task /\ work[p] # Idle /\ AtPlace(work[p])
  BY <1>1 DEF IInv, Typed, Idle, Placed
<1>3. /\ d \in Deployment /\ word[d] = {} /\ ~work[p].ok /\ row[d].event = work[p].event
      /\ work[p].seq \in Nat
      /\ dev.watermark < work[p].seq
      /\ \A e \in Deployment : row[e].seq < work[p].seq
  BY <1>1, <1>2 DEF AtPlace, RowFits, NumberFits, Task
<1>4. row' = [row EXCEPT ![d].state = "SIGNED", ![d].seq = work[p].seq]
  BY DEF Sign
<1>5. /\ row' \in [Deployment -> Row]
      /\ row'[d].state = "SIGNED" /\ row'[d].seq = work[p].seq
      /\ \A e \in Deployment : row'[e].event = row[e].event
      /\ \A e \in Deployment \ {d} : row'[e] = row[e]
  <2>1. [row[d] EXCEPT !.state = "SIGNED", !.seq = work[p].seq] \in Row
    <3>1. row[d] \in Row /\ "SIGNED" \in State
      BY <1>3 DEF IInv, Typed, State
    <3> HIDE DEF d
    <3> QED BY <1>3, <3>1 DEF Row
  <2>2. row' = [row EXCEPT ![d] = [row[d] EXCEPT !.state = "SIGNED", !.seq = work[p].seq]]
    BY <1>3, <1>4 DEF IInv, Typed, Row
  <2> QED BY <1>3, <2>1, <2>2 DEF IInv, Typed, Row
<1>6. w \in Task /\ work' = [work EXCEPT ![p] = w]
  BY <1>2 DEF Sign, Task, Underway
<1>7. /\ w.row = d /\ w.event = work[p].event /\ w.ok = work[p].ok
      /\ w.pc = "attempt" /\ w.seq = work[p].seq
  BY <1>2 DEF Task
<1> HIDE DEF w, d
<1>8. /\ work' \in [Worker -> Task] /\ lock' \in Worker \cup {Nobody}
      /\ Locked' /\ work'[p] = w
      /\ \A q \in Worker \ {p} : work'[q] = Idle
  BY <1>1, <1>2, <1>6, GoOn
<1>9. /\ OneLivePerEvent'
      /\ \A q \in Worker : Free(work[q]) /\ work'[q].event = work[q].event
                            => Free(work[q])'
  BY <1>5, OneLiveKept DEF IInv, Live
<1>10. AtPlace(work[p])'
  <2>1. RowFits(work[p])'
    BY <1>3, <1>5, <1>7, <1>8 DEF RowFits
  <2>2. NumberFits(work[p])'
    BY <1>1, <1>3, <1>5, <1>7, <1>8 DEF NumberFits
  <2>3. Free(work[p])'
    BY <1>1, <1>2, <1>7, <1>8, <1>9 DEF AtPlace
  <2> QED BY <1>1, <1>3, <1>7, <1>8, <2>1, <2>2, <2>3 DEF AtPlace
<1>11. Told'
  BY <1>1, <1>3, <1>5, ToldKept DEF IInv
<1>12. Numbered'
  <2>1. dev.watermark \in Nat /\ \A e \in Deployment : row[e].seq \in Nat
    BY DEF IInv, Typed, Document, Row
  <2>2. dev'.watermark <= row'[d].seq
    BY <1>1, <1>3, <1>5, <2>1
  <2>3. ASSUME NEW e \in Deployment, NEW f \in Deployment, e # f, row'[e].seq > 0
        PROVE  row'[e].seq # row'[f].seq
    BY <1>3, <1>5, <2>1, <2>3 DEF IInv, Numbered
  <2> QED BY <1>3, <2>2, <2>3 DEF Numbered
<1> QED BY <1>1, <1>5, <1>8, <1>9, <1>10, <1>11, <1>12, PlacedByOne DEF IInv, Typed

LEMMA AttemptKeeps == ASSUME IInv, NEW p \in Worker, Attempt(p) PROVE IInv'
<1> DEFINE d == work[p].row
           w == [work[p] EXCEPT !.pc = "deliver"]
<1>1. work[p].pc = "attempt" /\ UNCHANGED <<dev, lock, reports, word>>
  BY DEF Attempt
<1>2. work[p] \in Task /\ work[p] # Idle /\ AtPlace(work[p])
  BY <1>1 DEF IInv, Typed, Idle, Placed
<1>3. /\ d \in Deployment /\ word[d] = {} /\ ~work[p].ok /\ row[d].event = work[p].event
      /\ row[d].seq = work[p].seq /\ dev.watermark < work[p].seq
  BY <1>1, <1>2 DEF AtPlace, RowFits, NumberFits
<1>4. /\ row' \in [Deployment -> Row]
      /\ row'[d].state = "DELIVERY_ATTEMPTED"
      /\ \A e \in Deployment : row'[e].event = row[e].event /\ row'[e].seq = row[e].seq
      /\ \A e \in Deployment \ {d} : row'[e] = row[e]
  BY <1>3, Advanced DEF Attempt, AdvanceTo, State, IInv
<1>5. w \in Task /\ work' = [work EXCEPT ![p] = w]
  BY <1>2 DEF Attempt, Task, Underway
<1>6. /\ w.row = d /\ w.event = work[p].event /\ w.ok = work[p].ok
      /\ w.pc = "deliver" /\ w.seq = work[p].seq
  BY <1>2 DEF Task
<1> HIDE DEF w, d
<1>7. /\ work' \in [Worker -> Task] /\ lock' \in Worker \cup {Nobody}
      /\ Locked' /\ work'[p] = w
      /\ \A q \in Worker \ {p} : work'[q] = Idle
  BY <1>1, <1>2, <1>5, GoOn
<1>8. /\ OneLivePerEvent'
      /\ \A q \in Worker : Free(work[q]) /\ work'[q].event = work[q].event
                            => Free(work[q])'
  BY <1>4, OneLiveKept DEF IInv, Live
<1>9. AtPlace(work[p])'
  <2>1. RowFits(work[p])'
    BY <1>3, <1>4, <1>6, <1>7 DEF RowFits
  <2>2. NumberFits(work[p])'
    BY <1>1, <1>3, <1>4, <1>6, <1>7 DEF NumberFits
  <2>3. Free(work[p])'
    BY <1>1, <1>2, <1>6, <1>7, <1>8 DEF AtPlace
  <2> QED BY <1>1, <1>3, <1>6, <1>7, <2>1, <2>2, <2>3 DEF AtPlace
<1>10. Told' /\ Numbered'
  BY <1>1, <1>3, <1>4, ToldKept, NumberedKept DEF IInv
<1> QED BY <1>1, <1>4, <1>7, <1>8, <1>9, <1>10, PlacedByOne DEF IInv, Typed

\* What staging does to the document.
LEMMA StagedDocument ==
  ASSUME NEW d \in Document, NEW pkg, pkg.artifact \in Program, pkg.seq \in Nat,
         pkg.lease \in Nat
  PROVE  /\ Staged(d, pkg, 0) \in Document
         /\ Staged(d, pkg, 0).watermark = pkg.seq
         /\ \A s \in Slot : Staged(d, pkg, 0).slots[s].artifact
                             \in {pkg.artifact, d.slots[s].artifact}
<1> DEFINE e == Staged(d, pkg, 0)
           slots == [d.slots EXCEPT ![InactiveSlot(d)] = RecordOf(pkg, 0)]
<1>1. InactiveSlot(d) \in Slot
  BY DEF InactiveSlot, Slot
<1>2. RecordOf(pkg, 0) \in SlotRecord /\ RecordOf(pkg, 0).artifact = pkg.artifact
  <2>1. NewLease(pkg.lease, 0) \in Lease /\ NoLease \in Lease
    BY SlotsAssumption DEF NewLease, NoLease, Lease, Time
  <2> QED BY <2>1 DEF RecordOf, SlotRecord
<1>3. slots \in [Slot -> SlotRecord]
  BY <1>1, <1>2 DEF Document
<1>4. \A s \in Slot : slots[s].artifact \in {pkg.artifact, d.slots[s].artifact}
  BY <1>1, <1>2 DEF Document
<1>5. e \in Document /\ e.slots = slots /\ e.watermark = pkg.seq
  <2>1. InactiveSlot(d) \in Slot \cup {"none"} /\ PROBATION_HEALTHY_TICKS \in Nat
    BY <1>1, SlotsAssumption
  <2> QED BY <1>3, <2>1 DEF Staged, Document
<1> QED BY <1>4, <1>5

LEMMA DeliverKeeps == ASSUME IInv, NEW p \in Worker, Deliver(p) PROVE IInv'
<1> DEFINE d == work[p].row
<1>1. work[p].pc = "deliver" /\ UNCHANGED <<row, lock, reports>>
  BY DEF Deliver
<1>2. work[p] \in Task /\ work[p] # Idle /\ AtPlace(work[p])
  BY <1>1 DEF IInv, Typed, Idle, Placed
<1>3. /\ d \in Deployment /\ word[d] = {} /\ ~work[p].ok /\ row[d].event = work[p].event
      /\ row[d].state = "DELIVERY_ATTEMPTED"
      /\ row[d].seq = work[p].seq /\ dev.watermark < work[p].seq
  BY <1>1, <1>2 DEF AtPlace, RowFits, NumberFits
<1>4. \A ok \in BOOLEAN :
        LET w == [work[p] EXCEPT !.pc = "conclude", !.ok = ok]
        IN  /\ w \in Task
            /\ w.row = d /\ w.event = work[p].event /\ w.ok = ok /\ w.pc = "conclude"
  BY <1>2 DEF Task, Underway
<1>5. ASSUME NEW ok \in BOOLEAN,
             work' = [work EXCEPT ![p] = [work[p] EXCEPT !.pc = "conclude", !.ok = ok]],
             word'[d] = {} <=> ~ok
      PROVE  /\ work' \in [Worker -> Task] /\ lock' \in Worker \cup {Nobody}
             /\ Locked' /\ Placed' /\ OneLivePerEvent'
  <2> DEFINE w == [work[p] EXCEPT !.pc = "conclude", !.ok = ok]
  <2>1. /\ w \in Task
        /\ w.row = d /\ w.event = work[p].event /\ w.ok = ok /\ w.pc = "conclude"
    BY <1>4
  <2>2. work' = [work EXCEPT ![p] = w]
    BY <1>5
  <2> HIDE DEF w, d
  <2>3. /\ work' \in [Worker -> Task] /\ lock' \in Worker \cup {Nobody}
        /\ Locked' /\ work'[p] = w
        /\ \A q \in Worker \ {p} : work'[q] = Idle
    BY <1>1, <1>2, <2>1, <2>2, GoOn
  <2>4. /\ OneLivePerEvent'
        /\ \A q \in Worker : Free(work[q]) /\ work'[q].event = work[q].event
                              => Free(work[q])'
    BY <1>1, OneLiveKept DEF IInv
  <2>5. AtPlace(work[p])'
    <3>1. RowFits(work[p])'
      BY <1>1, <1>3, <2>1, <2>3 DEF RowFits
    <3>2. NumberFits(work[p])'
      BY <2>1, <2>3 DEF NumberFits
    <3>3. Free(work[p])'
      BY <1>1, <1>2, <2>1, <2>3, <2>4 DEF AtPlace
    <3> QED BY <1>5, <2>1, <2>3, <3>1, <3>2, <3>3 DEF AtPlace
  <2> QED BY <2>3, <2>4, <2>5, PlacedByOne
<1>6. CASE UNCHANGED <<dev, word>> /\ work' = [work EXCEPT ![p].pc = "conclude"]
  <2>1. work' = [work EXCEPT ![p] = [work[p] EXCEPT !.pc = "conclude", !.ok = FALSE]]
    BY <1>2, <1>3, <1>6 DEF Task
  <2>2. Told' /\ Numbered'
    BY <1>1, <1>6, ToldKept, NumberedKept DEF IInv
  <2> QED BY <1>1, <1>3, <1>5, <1>6, <2>1, <2>2 DEF IInv, Typed
<1>7. CASE \E lease \in LeaseOffers :
             /\ dev' = Staged(dev, PackageOf(p, lease), 0)
             /\ word' = [word EXCEPT ![d] = @ \cup {"installed"}]
             /\ Answered(p)
  <2>1. PICK lease \in LeaseOffers :
             /\ dev' = Staged(dev, PackageOf(p, lease), 0)
             /\ word' = [word EXCEPT ![d] = @ \cup {"installed"}]
             /\ Answered(p)
    BY <1>7
  <2>2. work' = [work EXCEPT ![p] = [work[p] EXCEPT !.pc = "conclude", !.ok = TRUE]]
    BY <2>1 DEF Answered
  <2> DEFINE pkg == PackageOf(p, lease)
  <2>3. pkg.artifact = d /\ pkg.seq = work[p].seq /\ pkg.lease = lease
    BY DEF PackageOf
  <2>4. d \in Program /\ work[p].seq \in Nat /\ lease \in Nat
    BY <1>2, <1>3, PipelineAssumption, LeaseOffersAssumption DEF Task
  <2>5. /\ dev' \in Document
        /\ dev'.watermark = work[p].seq
        /\ \A s \in Slot : dev'.slots[s].artifact \in {d, dev.slots[s].artifact}
    <3> HIDE DEF pkg, d
    <3>1. dev \in Document /\ dev' = Staged(dev, pkg, 0)
      BY <2>1 DEF IInv, Typed, pkg
    <3> QED BY <2>3, <2>4, <3>1, StagedDocument
  <2> HIDE DEF d
  <2>6. /\ word' \in [Deployment -> SUBSET {"installed", "activated", "reverted"}]
        /\ word'[d] = {"installed"}
        /\ \A e \in Deployment \ {d} : word'[e] = word[e]
    BY <1>3, <2>1 DEF IInv, Typed
  <2>7. Told'
    <3>1. \A r \in reports : r.row \in Deployment /\ r.row # d
      BY <1>3 DEF IInv, Told, Typed
    <3>2. \A s \in Slot : dev'.slots[s].artifact \in Deployment
                          => word'[dev'.slots[s].artifact] # {}
      BY <2>5, <2>6 DEF IInv, Told
    <3> QED BY <1>1, <1>3, <2>6, <3>1, <3>2 DEF IInv, Told
  <2>8. Numbered'
    <3>1. dev'.watermark <= row'[d].seq
      BY <1>1, <1>3, <2>4, <2>5
    <3> QED BY <1>1, <1>3, <3>1 DEF IInv, Numbered
  <2>9. word'[d] = {} <=> ~TRUE
    BY <2>6
  <2>10. /\ work' \in [Worker -> Task] /\ lock' \in Worker \cup {Nobody}
         /\ Locked' /\ Placed' /\ OneLivePerEvent'
    BY <1>5, <2>2, <2>9
  <2> QED BY <1>1, <2>5, <2>6, <2>7, <2>8, <2>10 DEF IInv, Typed
<1> QED BY <1>6, <1>7 DEF Deliver

LEMMA ConcludeKeeps == ASSUME IInv, NEW p \in Worker, Conclude(p) PROVE IInv'
<1> DEFINE d == work[p].row
<1>1. work[p].pc = "conclude" /\ Leave(p) /\ UNCHANGED <<dev, reports, word>>
  BY DEF Conclude
<1>2. work[p] \in Task /\ work[p] # Idle /\ AtPlace(work[p])
  BY <1>1 DEF IInv, Typed, Idle, Placed
<1>3. /\ d \in Deployment
      /\ word[d] = {} <=> ~work[p].ok
      /\ row[d].event = work[p].event /\ Free(work[p])
  BY <1>1, <1>2 DEF AtPlace, RowFits
<1>4. PICK to \in {"ACCEPTED_BY_DEVICE", "REJECTED"} :
        /\ to = IF work[p].ok THEN "ACCEPTED_BY_DEVICE" ELSE "REJECTED"
        /\ row' = [row EXCEPT ![d].state = to]
  BY DEF Conclude, AdvanceTo
<1>5. /\ row' \in [Deployment -> Row]
      /\ row'[d].state = to
      /\ \A e \in Deployment : row'[e].event = row[e].event /\ row'[e].seq = row[e].seq
      /\ \A e \in Deployment \ {d} : row'[e] = row[e]
  <2>1. to \in State /\ Typed /\ d \in Deployment
    BY <1>3 DEF State, Live, TERMINAL, IInv
  <2>2. row' = [row EXCEPT ![d].state = to]
    BY <1>4
  <2> HIDE DEF d
  <2> QED BY <2>1, <2>2, Advanced
<1> HIDE DEF d
<1>6. /\ work' \in [Worker -> Task] /\ lock' \in Worker \cup {Nobody}
      /\ Locked' /\ Placed'
  BY <1>1, <1>2, LeaveKeeps
<1>7. Told'
  BY <1>1, <1>3, <1>4, <1>5, ToldKept DEF IInv, Live
<1>8. Numbered'
  BY <1>1, <1>5, NumberedKept DEF IInv
<1>9. OneLivePerEvent'
  <2>1. ASSUME NEW e \in Deployment, NEW f \in Deployment, e # f,
               row'[e].event \in ContextEvents, row'[e].event = row'[f].event
        PROVE  ~(row'[e].state \in Live /\ row'[f].state \in Live)
    <3>1. \A g \in Deployment : g # d /\ row'[g].event = row'[d].event
                                /\ row'[d].event \in ContextEvents
                                => row'[g].state \notin Live
      BY <1>3, <1>5 DEF Free
    <3>2. CASE e = d \/ f = d
      BY <1>3, <2>1, <3>1, <3>2
    <3>3. CASE e # d /\ f # d
      BY <1>5, <2>1, <3>3 DEF IInv, OneLivePerEvent
    <3> QED BY <3>2, <3>3
  <2> QED BY <2>1 DEF OneLivePerEvent
<1> QED BY <1>1, <1>5, <1>6, <1>7, <1>8, <1>9 DEF IInv, Typed

LEMMA RaiseKeeps == ASSUME IInv, NEW p \in Worker, Raise(p) PROVE IInv'
<1>1. work[p] # Idle /\ Leave(p) /\ UNCHANGED <<dev, row, reports, word>>
  BY DEF Raise
<1>2. /\ work' \in [Worker -> Task] /\ lock' \in Worker \cup {Nobody}
      /\ Locked' /\ Placed'
  BY <1>1, LeaveKeeps
<1>3. Told' /\ Numbered' /\ OneLivePerEvent'
  BY <1>1, ToldKept, NumberedKept, OneLiveKept DEF IInv
<1> QED BY <1>1, <1>2, <1>3 DEF IInv, Typed

-----------------------------------------------------------------------------
(* The steps of the device and of the caller. *)

\* The device decides with what it has: no artifact and no number is new.
Kept(d, e) ==
  /\ e \in Document
  /\ e.watermark = d.watermark
  /\ \A s \in Slot : e.slots[s].artifact = d.slots[s].artifact

LEMMA RevertedKept == ASSUME NEW d \in Document PROVE Kept(d, Reverted(d))
<1> DEFINE slots == [d.slots EXCEPT ![RunningSlot(d)].lease = NoLease]
<1>1. RunningSlot(d) \in Slot
  BY DEF RunningSlot, Document, Slot
<1>2. NoLease \in Lease
  BY SlotsAssumption DEF NoLease, Lease, Time
<1>3. slots \in [Slot -> SlotRecord]
  BY <1>1, <1>2 DEF Document, SlotRecord
<1>4. \A s \in Slot : slots[s].artifact = d.slots[s].artifact
  BY <1>1 DEF Document, SlotRecord
<1>5. /\ Reverted(d) \in Document /\ Reverted(d).slots = slots
      /\ Reverted(d).watermark = d.watermark
  BY <1>3 DEF Reverted, Document
<1> QED BY <1>4, <1>5 DEF Kept

LEMMA PromotedKept == ASSUME NEW d \in Document PROVE Kept(d, Promoted(d))
<1>1. (IF d.candidate = "none" THEN d.active ELSE d.candidate) \in Slot
  BY DEF Document
<1> QED BY <1>1 DEF Promoted, Document, Kept

LEMMA FailedKept ==
  ASSUME NEW d \in Document PROVE Kept(d, Reverted([d EXCEPT !.status = "failed"]))
<1> DEFINE f == [d EXCEPT !.status = "failed"]
<1>1. f \in Document /\ f.slots = d.slots /\ f.watermark = d.watermark
  BY DEF Document
<1> HIDE DEF f
<1>2. Kept(d, Reverted(f))
  BY <1>1, RevertedKept DEF Kept
<1> QED BY <1>2 DEF f

\* It speaks of what it runs, which it has installed.
LEMMA SpokenKeeps ==
  ASSUME IInv, Kept(dev, dev'), UNCHANGED <<row, work, lock>>,
         NEW w \in {"activated", "reverted"}, NEW outcome \in Outcomes,
         outcome = "ACTIVE_ON_DEVICE" <=> w = "activated",
         Say(Running(dev).artifact, w),
         reports' = reports \/ Hear(Running(dev).artifact, outcome)
  PROVE  /\ IInv'
         /\ \/ word' = word
            \/ \E d \in Deployment :
                 "installed" \in word[d] /\ word' = [word EXCEPT ![d] = @ \cup {w}]
<1> DEFINE d == Running(dev).artifact
<1>1. \E s \in Slot : d = dev.slots[s].artifact
  BY DEF Running, RunningSlot, IInv, Typed, Document, Slot
<1>2. d \in Deployment => word[d] # {} /\ "installed" \in word[d]
  BY <1>1 DEF IInv, Told
<1> HIDE DEF d
<1>3. Locked' /\ Numbered' /\ OneLivePerEvent'
  BY NumberedKept, OneLiveKept DEF IInv, Locked, Kept
<1>4. CASE d \notin Deployment
  <2>1. UNCHANGED <<word, reports>>
    BY <1>4 DEF Say, Hear, d
  <2>2. Typed' /\ Told'
    BY <2>1 DEF IInv, Typed, Told, Kept
  <2>3. Placed'
    BY <2>1 DEF IInv, Placed, AtPlace, RowFits, NumberFits, Free, Kept
  <2> QED BY <1>3, <2>1, <2>2, <2>3 DEF IInv
<1>5. CASE d \in Deployment
  <2>1. /\ word' = [word EXCEPT ![d] = @ \cup {w}]
        /\ reports' \subseteq reports \cup {[row |-> d, outcome |-> outcome]}
    BY <1>5 DEF Say, Hear, d
  <2>2. /\ word' \in [Deployment -> SUBSET {"installed", "activated", "reverted"}]
        /\ w \in word'[d]
        /\ \A e \in Deployment : word[e] \subseteq word'[e]
        /\ \A e \in Deployment : word'[e] = {} <=> word[e] = {}
        /\ \A e \in Deployment \ {d} : word'[e] = word[e]
    BY <1>2, <1>5, <2>1 DEF IInv, Typed
  <2>3. Typed'
    BY <1>5, <2>1, <2>2 DEF IInv, Typed, Kept
  <2>4. Told'
    <3>1. \A e \in Deployment : word'[e] # {} =>
            /\ "installed" \in word'[e]
            /\ row'[e].state \in {"DELIVERY_ATTEMPTED", "REVERTED", "ROLLED_BACK"} \cup Live
      BY <2>2 DEF IInv, Told
    <3>2. \A r \in reports' :
            /\ r.outcome = "ACTIVE_ON_DEVICE" => "activated" \in word'[r.row]
            /\ r.outcome # "ACTIVE_ON_DEVICE" => "reverted" \in word'[r.row]
      <4>1. ASSUME NEW r \in reports
            PROVE  /\ r.outcome = "ACTIVE_ON_DEVICE" => "activated" \in word'[r.row]
                   /\ r.outcome # "ACTIVE_ON_DEVICE" => "reverted" \in word'[r.row]
        BY <2>2 DEF IInv, Told, Typed
      <4> QED BY <2>1, <2>2, <4>1
    <3>3. \A s \in Slot : dev'.slots[s].artifact \in Deployment
                          => word'[dev'.slots[s].artifact] # {}
      BY <2>2 DEF IInv, Told, Kept
    <3> QED BY <3>1, <3>2, <3>3 DEF Told
  <2>5. Placed'
    <3>1. ASSUME NEW p \in Worker PROVE AtPlace(work[p])'
      <4>1. AtPlace(work[p])
        BY DEF IInv, Placed
      <4>2. RowFits(work[p]) => RowFits(work[p])'
        BY DEF RowFits
      <4>3. NumberFits(work[p])' /\ (Free(work[p]) => Free(work[p])')
        BY <4>1 DEF AtPlace, NumberFits, Free, Kept
      <4> QED BY <2>2, <4>1, <4>2, <4>3 DEF AtPlace, RowFits
    <3> QED BY <3>1 DEF Placed
  <2> QED BY <1>2, <1>3, <1>5, <2>1, <2>3, <2>4, <2>5 DEF IInv
<1> QED BY <1>4, <1>5

LEMMA DeviceKeeps ==
  ASSUME IInv, PassProbation \/ LeaseEnds \/ FailProbation
  PROVE  /\ IInv' /\ row' = row
         /\ \/ word' = word
            \/ \E d \in Deployment, w \in {"activated", "reverted"} :
                 "installed" \in word[d] /\ word' = [word EXCEPT ![d] = @ \cup {w}]
<1>1. dev \in Document
  BY DEF IInv, Typed
<1>2. UNCHANGED <<row, work, lock>>
  BY DEF PassProbation, LeaseEnds, FailProbation
<1>3. CASE PassProbation
  BY <1>1, <1>2, <1>3, PromotedKept, SpokenKeeps DEF PassProbation, Outcomes
<1>4. CASE LeaseEnds
  <2>1. /\ Say(Running(dev).artifact, "reverted") /\ dev' = Reverted(dev)
        /\ reports' = reports \/ Hear(Running(dev).artifact, "REVERTED")
    BY <1>4 DEF LeaseEnds
  <2> QED BY <1>1, <1>2, <2>1, RevertedKept, SpokenKeeps DEF Outcomes
<1>5. CASE FailProbation
  <2>1. /\ Say(Running(dev).artifact, "reverted") /\ reports' = reports
        /\ dev' = Reverted([dev EXCEPT !.status = "failed"])
    BY <1>5 DEF FailProbation
  <2> QED BY <1>1, <1>2, <2>1, FailedKept, SpokenKeeps DEF Outcomes
<1> QED BY <1>3, <1>4, <1>5

LEMMA RecordKeeps == ASSUME IInv, NEW r \in reports, Record(r) PROVE IInv'
<1> DEFINE d == r.row
<1>1. /\ d \in Deployment /\ r.outcome \in Outcomes /\ word[d] # {}
      /\ row[d].state # "DELIVERY_ATTEMPTED"
      /\ reports' \subseteq reports
      /\ UNCHANGED <<dev, work, lock, word>>
  BY DEF IInv, Typed, Told, Record
<1>2. /\ row' \in [Deployment -> Row]
      /\ \A e \in Deployment : row'[e].event = row[e].event /\ row'[e].seq = row[e].seq
      /\ \A e \in Deployment \ {d} : row'[e] = row[e]
      /\ row'[d].state \in Live => row[d].state \in Live
      /\ row'[d].state # row[d].state => row'[d].state = r.outcome
  <2>1. CASE r.outcome \in TRANSITIONS(row[d].state)
    <3>1. row' = [row EXCEPT ![d].state = r.outcome]
      BY <2>1 DEF Record
    <3>2. r.outcome \in State /\ (r.outcome \in Live => row[d].state \in Live)
      BY <1>1, <2>1, Precedes DEF Outcomes, Live
    <3> HIDE DEF d
    <3> QED BY <1>1, <3>1, <3>2, Advanced DEF IInv
  <2>2. CASE r.outcome \notin TRANSITIONS(row[d].state)
    BY <2>2 DEF Record, IInv, Typed
  <2> QED BY <2>1, <2>2
<1> HIDE DEF d
<1>3. Told'
  BY <1>1, <1>2 DEF IInv, Told, Outcomes, Live
<1>4. Numbered' /\ Locked'
  BY <1>1, <1>2, NumberedKept DEF IInv, Locked
<1>5. /\ OneLivePerEvent'
      /\ \A p \in Worker : Free(work[p]) /\ work'[p].event = work[p].event
                            => Free(work[p])'
  BY <1>2, OneLiveKept DEF IInv
<1>6. Placed'
  <2>1. ASSUME NEW p \in Worker PROVE AtPlace(work[p])'
    <3>1. AtPlace(work[p])
      BY DEF IInv, Placed
    <3>2. RowFits(work[p]) /\ (word[work[p].row] = {} <=> ~work[p].ok) => RowFits(work[p])'
      <4>1. CASE work[p].row = d
        BY <1>1, <3>1, <4>1 DEF AtPlace, RowFits
      <4>2. CASE work[p].row # d
        BY <1>1, <1>2, <4>2 DEF RowFits
      <4> QED BY <4>1, <4>2
    <3>3. NumberFits(work[p])'
      BY <1>1, <1>2, <3>1 DEF AtPlace, NumberFits, RowFits
    <3>4. work'[p].event = work[p].event
      BY <1>1
    <3> QED BY <1>1, <1>5, <3>1, <3>2, <3>3, <3>4 DEF AtPlace
  <2> QED BY <2>1 DEF Placed
<1> QED BY <1>1, <1>2, <1>3, <1>4, <1>5, <1>6 DEF IInv, Typed

-----------------------------------------------------------------------------
(* The invariant, and what it says. *)

LEMMA StepKeeps == IInv /\ [Next]_vars => IInv'
<1> SUFFICES ASSUME IInv, [Next]_vars PROVE IInv'
  OBVIOUS
<1>1. ASSUME NEW p \in Worker, Worked(p) PROVE IInv'
  BY <1>1, StartKeeps, OpenKeeps, GateKeeps, NumberKeeps, SignKeeps, AttemptKeeps,
     DeliverKeeps, ConcludeKeeps, RaiseKeeps DEF Worked
<1>2. CASE PassProbation \/ LeaseEnds \/ FailProbation
  BY <1>2, DeviceKeeps
<1>3. ASSUME NEW r \in reports, Record(r) PROVE IInv'
  BY <1>3, RecordKeeps
<1>4. CASE UNCHANGED vars
  BY <1>4 DEF vars, IInv, Typed, Locked, Placed, AtPlace, RowFits, NumberFits, Free, Told,
     Numbered, OneLivePerEvent
<1> QED BY <1>1, <1>2, <1>3, <1>4 DEF Next

LEMMA InvAlways == Spec => []IInv
<1> QED BY InitIInv, StepKeeps, PTL DEF Spec

\* For any number of deployments and workers, and a raise at any place: no two rows
\* carry one sequence number, and what is delivered is above the watermark, although
\* the number is read in one transaction and written in another
\* (ledger.next_sequence).
THEOREM NumbersSpentOnce == Spec => []NumbersAreSpentOnce
<1>1. IInv => NumbersAreSpentOnce
  <2> SUFFICES ASSUME IInv PROVE NumbersAreSpentOnce
    OBVIOUS
  <2>1. \A p \in Worker : work[p].pc = "deliver" => dev.watermark < work[p].seq
    BY DEF IInv, Placed, AtPlace, NumberFits
  <2>2. dev.watermark \in Nat /\ \A p \in Worker : work[p].seq \in Nat
    BY DEF IInv, Typed, Document, Task
  <2>3. \A p \in Worker : work[p].pc = "deliver" => work[p].seq > dev.watermark
    BY <2>1, <2>2
  <2> QED BY <2>3 DEF IInv, Numbered, NumbersAreSpentOnce
<1> QED BY <1>1, InvAlways, PTL

\* The duplicate check stays good from the start of run() to the acceptance, many
\* writes later and with the caller recording meanwhile (ledger.live_for_event).
THEOREM DuplicateCheckHolds == Spec => []OneLivePerEvent
<1>1. IInv => OneLivePerEvent
  BY DEF IInv
<1> QED BY <1>1, InvAlways, PTL

-----------------------------------------------------------------------------
(* The bounds.  Numbers are dense: one more than the largest is read, and a *)
(* number read and not written, by a worker that raised, is read again.     *)

Unsigned == {"none", "PROPOSED", "MANIFEST_VALIDATED", "COMPILED", "SIMULATION_VERIFIED"}

Signed == {d \in Deployment : row[d].seq > 0}

Dense ==
  /\ \A d \in Deployment : row[d].state \in Unsigned => row[d].seq = 0
  /\ \A d \in Deployment : row[d].seq <= Cardinality(Signed)
  /\ \A p \in Worker : work[p].pc = "sign" => work[p].seq <= Cardinality(Signed) + 1

Budgeted ==
  /\ dev.ticks \in 0 .. PROBATION_HEALTHY_TICKS
  /\ dev.failures \in 0 .. LOCAL_FAILURE_LIMIT
  /\ raises \in 0 .. MaxRaises

LEMMA SignedIsFinite ==
  /\ IsFiniteSet(Signed) /\ Cardinality(Signed) \in Nat
  /\ Cardinality(Signed) <= Cardinality(Deployment)
<1>1. Signed \subseteq Deployment
  BY DEF Signed
<1> QED BY <1>1, FS_Subset, FS_CardinalityType, PipelineAssumption

\* The largest number in the ledger is in a row, or there is none.
LEMMA NextIsNear ==
  ASSUME Typed, Dense
  PROVE  NextSequence <= Cardinality(Signed) + 1
<1> DEFINE S == {0} \cup {row[d].seq : d \in Deployment}
<1>1. \E x \in S : NextSequence = x + 1
  BY GreatestInLedger
<1>2. \A x \in S : x \in Nat /\ x <= Cardinality(Signed)
  BY SignedIsFinite DEF Dense, Typed, Row
<1> HIDE DEF S
<1> QED BY <1>1, <1>2, SignedIsFinite

LEMMA DenseKept ==
  ASSUME Dense,
         \A d \in Deployment : /\ row'[d].seq = row[d].seq
                               /\ row'[d].state \in Unsigned => row[d].state \in Unsigned,
         \A p \in Worker : work'[p].pc = "sign" => work[p].pc = "sign" /\ work'[p] = work[p]
  PROVE  Dense'
<1>1. Signed' = Signed
  BY DEF Signed
<1> QED BY <1>1 DEF Dense

LEMMA DenseStep == ASSUME IInv, Dense, [Next]_vars PROVE Dense'
<1> DEFINE NoneToSign ==
             \A q \in Worker :
               work'[q].pc = "sign" => work[q].pc = "sign" /\ work'[q] = work[q]
<1>0. /\ work \in [Worker -> Task] /\ row \in [Deployment -> Row] /\ Typed
      /\ \A p \in Worker : AtPlace(work[p])
  BY DEF IInv, Typed, Placed
<1>1. ASSUME NEW p \in Worker, Worked(p) PROVE Dense'
  <2>1. ASSUME Leave(p) PROVE NoneToSign
    BY <1>0, <2>1 DEF Leave, Idle
  <2>2. CASE Start(p)
    <3>1. row' = row /\ NoneToSign
      BY <1>0, <2>2 DEF Start, Idle
    <3> QED BY <3>1, DenseKept
  <2>3. CASE Open(p)
    <3>1. PICK d \in Deployment :
            /\ row[d] = NoRow
            /\ row' = [row EXCEPT ![d] = [state |-> "PROPOSED", event |-> work[p].event,
                                          base |-> work[p].base, seq |-> 0]]
            /\ work' = [work EXCEPT ![p].pc = "gates", ![p].row = d]
      BY <2>3 DEF Open
    <3>2. \A e \in Deployment : /\ row'[e].seq = row[e].seq
                                /\ row'[e].state \in Unsigned => row[e].state \in Unsigned
      BY <1>0, <3>1 DEF NoRow, Unsigned
    <3>3. NoneToSign
      BY <1>0, <3>1 DEF Task
    <3> QED BY <3>2, <3>3, DenseKept
  <2>4. CASE Gate(p)
    <3> DEFINE d == work[p].row
    <3>1. d \in Deployment /\ row[d].state \in Unsigned
      BY <1>0, <2>4 DEF Gate, AtPlace, RowFits, Unsigned
    <3>2. PICK next \in State : row' = [row EXCEPT ![d].state = next]
      BY <2>4, Precedes DEF Gate, AdvanceTo
    <3>3. \A e \in Deployment : /\ row'[e].seq = row[e].seq
                                /\ row'[e].state \in Unsigned => row[e].state \in Unsigned
      <4> HIDE DEF d
      <4> QED BY <1>0, <3>1, <3>2, Advanced
    <3>4. NoneToSign
      <4>1. CASE Leave(p)
        BY <2>1, <4>1
      <4>2. CASE \E to \in State :
              work' = [work EXCEPT ![p].pc = IF to = "SIMULATION_VERIFIED" THEN "number" ELSE @]
        BY <1>0, <2>4, <4>2 DEF Task, Gate
      <4> QED BY <2>4, <4>1, <4>2 DEF Gate, State
    <3> QED BY <3>3, <3>4, DenseKept
  <2>5. CASE Number(p)
    <3>1. work' = [work EXCEPT ![p].pc = "sign", ![p].seq = NextSequence] /\ row' = row
      BY <2>5 DEF Number
    <3>2. /\ work'[p].seq = NextSequence
          /\ \A q \in Worker \ {p} : work'[q] = work[q]
      BY <1>0, <3>1 DEF Task
    <3>3. Signed' = Signed
      BY <3>1 DEF Signed
    <3> QED BY <1>0, <3>1, <3>2, <3>3, NextIsNear DEF Dense
  <2>6. CASE Sign(p)
    <3> DEFINE d == work[p].row
               n == work[p].seq
    <3>1. /\ d \in Deployment /\ row[d].seq = 0 /\ n \in Nat /\ n > 0
          /\ n <= Cardinality(Signed) + 1
      <4>1. d \in Deployment /\ row[d].state \in Unsigned
        BY <1>0, <2>6 DEF Sign, AtPlace, RowFits, Unsigned
      <4>2. n \in Nat /\ dev.watermark \in Nat /\ dev.watermark < n
        BY <1>0, <2>6 DEF Sign, AtPlace, NumberFits, Typed, Task, Document
      <4> QED BY <1>0, <2>6, <4>1, <4>2 DEF Sign, Dense
    <3>2. /\ row'[d].seq = n /\ row'[d].state = "SIGNED"
          /\ \A e \in Deployment \ {d} : row'[e] = row[e]
      <4>1. row' = [row EXCEPT ![d].state = "SIGNED", ![d].seq = n]
        BY <2>6 DEF Sign
      <4> HIDE DEF d, n
      <4> QED BY <1>0, <3>1, <4>1 DEF Row
    <3>3. NoneToSign
      BY <1>0, <2>6 DEF Sign, Task
    <3> HIDE DEF d, n
    <3>4. Signed' = Signed \cup {d} /\ d \notin Signed
      BY <3>1, <3>2 DEF Signed
    <3>5. Cardinality(Signed') = Cardinality(Signed) + 1
      BY <3>4, SignedIsFinite, FS_AddElement
    <3> QED BY <1>0, <3>1, <3>2, <3>3, <3>5, SignedIsFinite DEF Dense, Unsigned, Row, Task
  <2>7. CASE Attempt(p)
    <3> DEFINE d == work[p].row
    <3>1. d \in Deployment
      BY <1>0, <2>7 DEF Attempt, AtPlace, RowFits
    <3>2. row' = [row EXCEPT ![d].state = "DELIVERY_ATTEMPTED"]
      BY <2>7 DEF Attempt, AdvanceTo
    <3>3. \A e \in Deployment : /\ row'[e].seq = row[e].seq
                                /\ row'[e].state \in Unsigned => row[e].state \in Unsigned
      <4> HIDE DEF d
      <4> QED BY <1>0, <3>1, <3>2 DEF Row, Unsigned
    <3>4. NoneToSign
      BY <1>0, <2>7 DEF Attempt, Task
    <3> QED BY <3>3, <3>4, DenseKept
  <2>8. CASE Deliver(p)
    <3>1. row' = row
      BY <2>8 DEF Deliver
    <3>2. NoneToSign
      BY <1>0, <2>8 DEF Deliver, Answered, Task
    <3> QED BY <3>1, <3>2, DenseKept
  <2>9. CASE Conclude(p)
    <3> DEFINE d == work[p].row
    <3>1. d \in Deployment
      BY <1>0, <2>9 DEF Conclude, AtPlace, RowFits
    <3>2. PICK to \in {"ACCEPTED_BY_DEVICE", "REJECTED"} : row' = [row EXCEPT ![d].state = to]
      BY <2>9 DEF Conclude, AdvanceTo
    <3>3. \A e \in Deployment : /\ row'[e].seq = row[e].seq
                                /\ row'[e].state \in Unsigned => row[e].state \in Unsigned
      <4> HIDE DEF d
      <4> QED BY <1>0, <3>1, <3>2 DEF Row, Unsigned
    <3> QED BY <2>1, <2>9, <3>3, DenseKept DEF Conclude
  <2>10. CASE Raise(p)
    BY <2>1, <2>10, DenseKept DEF Raise
  <2> QED BY <1>1, <2>2, <2>3, <2>4, <2>5, <2>6, <2>7, <2>8, <2>9, <2>10 DEF Worked
<1>2. CASE PassProbation \/ LeaseEnds \/ FailProbation
  <2>1. UNCHANGED <<row, work>>
    BY <1>2 DEF PassProbation, LeaseEnds, FailProbation
  <2> QED BY <2>1, DenseKept
<1>3. ASSUME NEW r \in reports, Record(r) PROVE Dense'
  <2>1. work' = work /\ r.row \in Deployment /\ r.outcome \in Outcomes
    BY <1>0, <1>3 DEF Record, Typed
  <2>2. row' = row \/ row' = [row EXCEPT ![r.row].state = r.outcome]
    BY <1>3 DEF Record
  <2>3. \A e \in Deployment : /\ row'[e].seq = row[e].seq
                              /\ row'[e].state \in Unsigned => row[e].state \in Unsigned
    BY <1>0, <2>1, <2>2 DEF Row, Outcomes, Unsigned
  <2> QED BY <2>1, <2>3, DenseKept
<1>4. CASE UNCHANGED vars
  BY <1>4, DenseKept DEF vars
<1> QED BY <1>1, <1>2, <1>3, <1>4 DEF Next

LEMMA BudgetedStep == ASSUME IInv, Budgeted, [Next]_vars PROVE Budgeted'
<1>0. dev \in Document /\ raises \in Nat
  BY DEF IInv, Typed, Budgeted
<1>1. /\ PROBATION_HEALTHY_TICKS \in Nat \ {0} /\ LOCAL_FAILURE_LIMIT \in Nat \ {0}
      /\ MaxRaises \in Nat
  BY SlotsAssumption, PipelineAssumption
<1>2. ASSUME NEW p \in Worker, Deliver(p) PROVE Budgeted'
  <2>1. raises' = raises
    BY <1>2 DEF Deliver
  <2>2. \/ dev' = dev
        \/ \E lease \in LeaseOffers : dev' = Staged(dev, PackageOf(p, lease), 0)
    BY <1>2 DEF Deliver
  <2>3. CASE \E lease \in LeaseOffers : dev' = Staged(dev, PackageOf(p, lease), 0)
    <3>1. dev'.ticks = PROBATION_HEALTHY_TICKS /\ dev'.failures = dev.failures
      BY <1>0, <2>3 DEF Staged, Document
    <3> QED BY <1>1, <2>1, <3>1 DEF Budgeted
  <2> QED BY <2>1, <2>2, <2>3 DEF Budgeted
<1>3. ASSUME NEW p \in Worker, Raise(p) PROVE Budgeted'
  BY <1>0, <1>1, <1>3 DEF Raise, Budgeted
<1>4. CASE PassProbation \/ LeaseEnds \/ FailProbation
  <2>1. raises' = raises
    BY <1>4 DEF PassProbation, LeaseEnds, FailProbation
  <2>2. \/ dev'.ticks = dev.ticks /\ dev'.failures = dev.failures
        \/ dev'.ticks = 0 /\ dev'.failures = 0
    BY <1>0, <1>4 DEF PassProbation, LeaseEnds, FailProbation, Promoted, Reverted, Document
  <2> QED BY <1>1, <2>1, <2>2 DEF Budgeted
<1>5. CASE UNCHANGED <<dev, raises>>
  BY <1>5 DEF Budgeted
<1>6. ASSUME NEW p \in Worker, Worked(p), ~Deliver(p), ~Raise(p) PROVE UNCHANGED <<dev, raises>>
  BY <1>6 DEF Worked, Start, Open, Gate, Number, Sign, Attempt, Conclude
<1>7. ASSUME NEW r \in reports, Record(r) PROVE UNCHANGED <<dev, raises>>
  BY <1>7 DEF Record
<1>8. CASE UNCHANGED vars
  BY <1>5, <1>8 DEF vars
<1> QED BY <1>2, <1>3, <1>4, <1>5, <1>6, <1>7, <1>8 DEF Next

LEMMA BoundsAtFirst == Init => Dense /\ Budgeted
<1> SUFFICES ASSUME Init PROVE Dense /\ Budgeted
  OBVIOUS
<1>1. dev.ticks = 0 /\ dev.failures = 0
  BY DEF Init, Provisioned, BlankState
<1>2. Budgeted
  BY <1>1, SlotsAssumption, PipelineAssumption DEF Init, Budgeted
<1>3. Dense
  BY SignedIsFinite DEF Init, Dense, NoRow, Idle
<1> QED BY <1>2, <1>3

\* For any number of deployments, workers and raises every variable has its
\* type; above all, the device's watermark never exceeds the number of rows
\* there may be, because no number is skipped (ledger.next_sequence).
THEOREM PipelineTypeCorrect == Spec => []TypeOK
<1>1. IInv /\ Dense /\ Budgeted => TypeOK
  <2> SUFFICES ASSUME IInv, Dense, Budgeted PROVE TypeOK
    OBVIOUS
  <2>1. dev.watermark \in 0 .. MaxSeq
    <3>1. dev.watermark \in Nat /\ \A d \in Deployment : row[d].seq \in Nat
      BY DEF IInv, Typed, Document, Row
    <3>2. /\ Cardinality(Signed) <= MaxSeq /\ Cardinality(Signed) \in Nat /\ MaxSeq \in Nat
      <4>1. Cardinality(Deployment) \in Nat
        BY PipelineAssumption, FS_CardinalityType
      <4> QED BY <4>1, SignedIsFinite, PipelineAssumption, SlotsAssumption
    <3>3. \A d \in Deployment : row[d].seq <= Cardinality(Signed)
      BY DEF Dense
    <3> QED BY <3>1, <3>2, <3>3 DEF IInv, Numbered
  <2>2. dev \in DeviceState
    BY <2>1 DEF IInv, Typed, Budgeted, Document, DeviceState
  <2> QED BY <2>2 DEF IInv, Typed, Budgeted, TypeOK, Task, Underway, Outcomes, Live, TERMINAL
<1>2. IInv /\ Dense /\ Budgeted /\ [Next]_vars => Dense' /\ Budgeted'
  BY DenseStep, BudgetedStep
<1> QED BY <1>1, <1>2, BoundsAtFirst, InvAlways, PTL DEF Spec

-----------------------------------------------------------------------------
(* The refinement. *)

LEMMA ClaimsInit == Init => L!Init
BY DEF Init, L!Init, NoRow, ClaimOf

\* A row moves from one claim to the next, or within one.
LEMMA ClaimMoves ==
  ASSUME Typed, UNCHANGED word, NEW d \in Deployment,
         \A e \in Deployment \ {d} : row'[e].state = row[e].state,
         \/ ClaimOf(row'[d].state) = ClaimOf(row[d].state)
         \/ \E c \in {"intended", "sent", "refused", "held", "running", "over"} :
              L!MayClaim(d, c) /\ ClaimOf(row'[d].state) = c
  PROVE  [L!Next]_(L!vars)
<1> DEFINE claim == [e \in Deployment |-> ClaimOf(row[e].state)]
           claimed == [e \in Deployment |-> ClaimOf(row'[e].state)]
<1>1. CASE ClaimOf(row'[d].state) = ClaimOf(row[d].state)
  <2>1. \A e \in Deployment : ClaimOf(row'[e].state) = ClaimOf(row[e].state)
    BY <1>1
  <2>2. claimed = claim
    BY <2>1
  <2> QED BY <2>2 DEF L!vars
<1>2. ASSUME NEW c \in {"intended", "sent", "refused", "held", "running", "over"},
             L!MayClaim(d, c), ClaimOf(row'[d].state) = c
      PROVE  L!Next
  <2>1. \A e \in Deployment \ {d} : ClaimOf(row'[e].state) = ClaimOf(row[e].state)
    OBVIOUS
  <2>2. claimed = [claim EXCEPT ![d] = c]
    BY <1>2, <2>1
  <2>3. L!Claim(d)
    BY <1>2, <2>2 DEF L!Claim
  <2> QED BY <2>3 DEF L!Next
<1> QED BY <1>1, <1>2

LEMMA ClaimsStep == IInv /\ [Next]_vars => [L!Next]_(L!vars)
<1> SUFFICES ASSUME IInv, [Next]_vars PROVE [L!Next]_(L!vars)
  OBVIOUS
<1>1. ASSUME UNCHANGED <<row, word>> PROVE [L!Next]_(L!vars)
  BY <1>1 DEF L!vars
<1>2. \A p \in Worker : work[p].pc \notin {"idle", "open"} =>
        /\ RowFits(work[p])
        /\ word[work[p].row] = {} <=> ~work[p].ok
        /\ work[p].pc # "conclude" => ~work[p].ok
  BY DEF IInv, Placed, AtPlace
<1>3. ASSUME NEW p \in Worker, Open(p) PROVE [L!Next]_(L!vars)
  <2>1. PICK d \in Deployment :
          /\ row[d] = NoRow
          /\ row' = [row EXCEPT ![d] = [state |-> "PROPOSED", event |-> work[p].event,
                                        base |-> work[p].base, seq |-> 0]]
    BY <1>3 DEF Open
  <2>2. /\ row'[d].state = "PROPOSED" /\ row[d].state = "none"
        /\ \A e \in Deployment \ {d} : row'[e].state = row[e].state
    BY <2>1 DEF IInv, Typed, NoRow
  <2>3. L!MayClaim(d, "intended") /\ ClaimOf(row'[d].state) = "intended"
    BY <2>2 DEF L!MayClaim, ClaimOf
  <2> QED BY <1>3, <2>2, <2>3, ClaimMoves DEF Open, IInv
<1>4. ASSUME NEW p \in Worker, Gate(p) PROVE [L!Next]_(L!vars)
  <2> DEFINE d == work[p].row
  <2>1. /\ d \in Deployment /\ word[d] = {}
        /\ row[d].state \in {"PROPOSED", "MANIFEST_VALIDATED", "COMPILED"}
    BY <1>2, <1>4 DEF Gate, RowFits
  <2>2. PICK to \in {"MANIFEST_VALIDATED", "COMPILED", "SIMULATION_VERIFIED", "REJECTED"} :
          row' = [row EXCEPT ![d].state = to]
    BY <1>4 DEF Gate, AdvanceTo
  <2> HIDE DEF d
  <2>3. /\ row'[d].state = to
        /\ \A e \in Deployment \ {d} : row'[e].state = row[e].state
    BY <2>1, <2>2, Advanced DEF IInv, State, TERMINAL
  <2>4. ClaimOf(row[d].state) = "intended"
    BY <2>1 DEF ClaimOf
  <2>5. \/ ClaimOf(row'[d].state) = ClaimOf(row[d].state)
        \/ L!MayClaim(d, "refused") /\ ClaimOf(row'[d].state) = "refused"
    BY <2>1, <2>3, <2>4 DEF L!MayClaim, ClaimOf
  <2> QED BY <1>4, <2>1, <2>3, <2>5, ClaimMoves DEF Gate, IInv
<1>5. ASSUME NEW p \in Worker, Sign(p) PROVE [L!Next]_(L!vars)
  <2> DEFINE d == work[p].row
  <2>1. d \in Deployment /\ row[d].state = "SIMULATION_VERIFIED"
    BY <1>2, <1>5 DEF Sign, RowFits
  <2>2. row' = [row EXCEPT ![d].state = "SIGNED", ![d].seq = work[p].seq]
    BY <1>5 DEF Sign
  <2> HIDE DEF d
  <2>3. /\ row'[d].state = "SIGNED"
        /\ \A e \in Deployment \ {d} : row'[e].state = row[e].state
    BY <2>1, <2>2 DEF IInv, Typed, Row
  <2>4. ClaimOf(row'[d].state) = ClaimOf(row[d].state)
    BY <2>1, <2>3 DEF ClaimOf
  <2> QED BY <1>5, <2>1, <2>3, <2>4, ClaimMoves DEF Sign, IInv
<1>6. ASSUME NEW p \in Worker, Attempt(p) PROVE [L!Next]_(L!vars)
  <2> DEFINE d == work[p].row
  <2>1. d \in Deployment /\ row[d].state = "SIGNED"
    BY <1>2, <1>6 DEF Attempt, RowFits
  <2>2. row' = [row EXCEPT ![d].state = "DELIVERY_ATTEMPTED"]
    BY <1>6 DEF Attempt, AdvanceTo
  <2> HIDE DEF d
  <2>3. /\ row'[d].state = "DELIVERY_ATTEMPTED"
        /\ \A e \in Deployment \ {d} : row'[e].state = row[e].state
    BY <2>1, <2>2, Advanced DEF IInv, State
  <2>4. L!MayClaim(d, "sent") /\ ClaimOf(row'[d].state) = "sent"
    BY <2>1, <2>3 DEF L!MayClaim, ClaimOf
  <2> QED BY <1>6, <2>1, <2>3, <2>4, ClaimMoves DEF Attempt, IInv
<1>7. ASSUME NEW p \in Worker, Conclude(p) PROVE [L!Next]_(L!vars)
  <2> DEFINE d == work[p].row
  <2>1. /\ d \in Deployment /\ row[d].state = "DELIVERY_ATTEMPTED"
        /\ work[p].ok => "installed" \in word[d]
        /\ ~work[p].ok => word[d] = {}
    BY <1>2, <1>7 DEF Conclude, RowFits, IInv, Told
  <2>2. PICK to \in {"ACCEPTED_BY_DEVICE", "REJECTED"} :
          /\ to = IF work[p].ok THEN "ACCEPTED_BY_DEVICE" ELSE "REJECTED"
          /\ row' = [row EXCEPT ![d].state = to]
    BY <1>7 DEF Conclude, AdvanceTo
  <2> HIDE DEF d
  <2>3. /\ row'[d].state = to
        /\ \A e \in Deployment \ {d} : row'[e].state = row[e].state
    <3>1. to \in State /\ Typed /\ d \in Deployment /\ row' = [row EXCEPT ![d].state = to]
      BY <2>1, <2>2 DEF IInv, State, Live, TERMINAL
    <3> QED BY <3>1, Advanced
  <2>4. \/ L!MayClaim(d, "held") /\ ClaimOf(row'[d].state) = "held"
        \/ L!MayClaim(d, "refused") /\ ClaimOf(row'[d].state) = "refused"
    BY <2>1, <2>2, <2>3 DEF L!MayClaim, ClaimOf
  <2> QED BY <1>7, <2>1, <2>3, <2>4, ClaimMoves DEF Conclude, IInv
<1>8. ASSUME NEW r \in reports, Record(r) PROVE [L!Next]_(L!vars)
  <2> DEFINE d == r.row
             to == r.outcome
  <2>1. /\ d \in Deployment /\ to \in Outcomes
        /\ to = "ACTIVE_ON_DEVICE" => "activated" \in word[d]
        /\ to # "ACTIVE_ON_DEVICE" => "reverted" \in word[d]
    BY DEF IInv, Typed, Told
  <2>2. CASE to \notin TRANSITIONS(row[d].state)
    BY <1>1, <1>8, <2>2 DEF Record
  <2>3. CASE to \in TRANSITIONS(row[d].state)
    <3>1. row' = [row EXCEPT ![d].state = to]
      BY <1>8, <2>3 DEF Record
    <3>2. /\ to = "ACTIVE_ON_DEVICE" => row[d].state = "ACCEPTED_BY_DEVICE"
          /\ to # "ACTIVE_ON_DEVICE" => row[d].state \in Live
          /\ to \in State
      BY <2>1, <2>3, Precedes DEF Outcomes
    <3> HIDE DEF d, to
    <3>3. /\ row'[d].state = to
          /\ \A e \in Deployment \ {d} : row'[e].state = row[e].state
      BY <2>1, <3>1, <3>2, Advanced DEF IInv
    <3>4. \/ L!MayClaim(d, "running") /\ ClaimOf(row'[d].state) = "running"
          \/ L!MayClaim(d, "over") /\ ClaimOf(row'[d].state) = "over"
      BY <2>1, <3>2, <3>3 DEF L!MayClaim, ClaimOf, Outcomes, Live
    <3> QED BY <1>8, <2>1, <3>3, <3>4, ClaimMoves DEF Record, IInv
  <2> QED BY <2>2, <2>3
<1>9. ASSUME UNCHANGED row, NEW d \in Deployment,
             NEW w \in {"installed", "activated", "reverted"},
             IF w = "installed" THEN row[d].state = "DELIVERY_ATTEMPTED"
                                ELSE "installed" \in word[d],
             word' = [word EXCEPT ![d] = @ \cup {w}]
      PROVE  L!Next
  <2>1. w = "installed" => ClaimOf(row[d].state) = "sent"
    BY <1>9 DEF ClaimOf
  <2>2. L!Speak(d, w)
    BY <1>9, <2>1 DEF L!Speak
  <2> QED BY <2>2 DEF L!Next, L!Words
<1>10. ASSUME NEW p \in Worker, Deliver(p) PROVE [L!Next]_(L!vars)
  <2>1. work[p].row \in Deployment /\ row[work[p].row].state = "DELIVERY_ATTEMPTED"
    BY <1>2, <1>10 DEF Deliver, RowFits
  <2>2. UNCHANGED row
    BY <1>10 DEF Deliver
  <2>3. CASE UNCHANGED word
    BY <1>1, <2>2, <2>3
  <2>4. CASE word' = [word EXCEPT ![work[p].row] = @ \cup {"installed"}]
    BY <1>9, <2>1, <2>2, <2>4
  <2> QED BY <1>10, <2>3, <2>4 DEF Deliver
<1>11. CASE PassProbation \/ LeaseEnds \/ FailProbation
  <2>1. UNCHANGED row
    BY <1>11, DeviceKeeps
  <2>2. CASE word' = word
    BY <1>1, <2>1, <2>2
  <2>3. ASSUME NEW d \in Deployment, NEW w \in {"activated", "reverted"},
               "installed" \in word[d], word' = [word EXCEPT ![d] = @ \cup {w}]
        PROVE  L!Next
    BY <1>9, <2>1, <2>3
  <2> QED BY <1>11, <2>2, <2>3, DeviceKeeps
<1>12. ASSUME NEW p \in Worker, Start(p) \/ Number(p) \/ Raise(p) PROVE [L!Next]_(L!vars)
  BY <1>1, <1>12 DEF Start, Number, Raise
<1>13. CASE UNCHANGED vars
  BY <1>1, <1>13 DEF vars
<1> QED
  BY <1>3, <1>4, <1>5, <1>6, <1>7, <1>8, <1>10, <1>11, <1>12, <1>13 DEF Next, Worked

\* The ledger is never ahead of the device's word: a rejected deployment was not
\* installed and never will be, acceptance, activity and the endings were said
\* first, and nothing that ended comes back (ledger.advance over TRANSITIONS).
THEOREM LedgerImplementsLifecycle == Spec => ImplementsLifecycle
<1> QED BY ClaimsInit, ClaimsStep, InvAlways, PTL DEF Spec, ImplementsLifecycle, L!Spec

-----------------------------------------------------------------------------
(* Endings.  A candidate on probation was neither activated nor ended, so  *)
(* what was both was active when it ended, and the caller heard of it.     *)

OnTrial ==
  dev.status = "probation" =>
    /\ dev.candidate # "none"
    /\ dev.slots[dev.candidate].artifact \in Deployment
         => word[dev.slots[dev.candidate].artifact] = {"installed"}

Ended == OnTrial /\ ExpiryClosesTheRow

LEMMA EndedInit == Init => Ended
BY DEF Init, Provisioned, BlankState, Ended, OnTrial, ExpiryClosesTheRow

\* The ledger moves, and what is closed stays closed.
LEMMA LedgerKeepsEnded ==
  ASSUME Ended, UNCHANGED <<dev, word, reports>>,
         \A d \in Deployment : row[d].state \in TERMINAL => row'[d].state \in TERMINAL
  PROVE  Ended'
BY DEF Ended, OnTrial, ExpiryClosesTheRow

LEMMA NothingLeavesTerminal ==
  ASSUME NEW s \in TERMINAL PROVE TRANSITIONS(s) = {}
BY DEF TERMINAL, TRANSITIONS

LEMMA ClosedStays ==
  ASSUME IInv, NEW d, NEW to, AdvanceTo(d, to)
  PROVE  \A e \in Deployment : row[e].state \in TERMINAL => row'[e].state \in TERMINAL
<1>1. row[d].state \notin TERMINAL
  BY NothingLeavesTerminal DEF AdvanceTo
<1>2. \A e \in Deployment : e # d => row'[e] = row[e]
  BY DEF AdvanceTo, IInv, Typed
<1> QED BY <1>1, <1>2

LEMMA WorkerKeepsEnded ==
  ASSUME IInv, Ended, NEW p \in Worker, Worked(p), ~Deliver(p) PROVE Ended'
<1>1. CASE Start(p) \/ Number(p) \/ Raise(p)
  <2>1. UNCHANGED <<dev, word, reports, row>>
    BY <1>1 DEF Start, Number, Raise
  <2> QED BY <2>1, LedgerKeepsEnded
<1>2. CASE Gate(p) \/ Attempt(p) \/ Conclude(p)
  <2>1. UNCHANGED <<dev, word, reports>> /\ \E to \in State : AdvanceTo(work[p].row, to)
    BY <1>2 DEF Gate, Attempt, Conclude, State, Live, TERMINAL
  <2> QED BY <2>1, ClosedStays, LedgerKeepsEnded
<1>3. CASE Open(p)
  <2>1. PICK d \in Deployment :
          /\ row[d] = NoRow
          /\ row' = [row EXCEPT ![d] = [state |-> "PROPOSED", event |-> work[p].event,
                                        base |-> work[p].base, seq |-> 0]]
    BY <1>3 DEF Open
  <2>2. row[d].state \notin TERMINAL
    BY <2>1 DEF NoRow, TERMINAL
  <2>3. \A e \in Deployment : e # d => row'[e] = row[e]
    BY <2>1 DEF IInv, Typed
  <2> QED BY <1>3, <2>2, <2>3, LedgerKeepsEnded DEF Open
<1>4. CASE Sign(p)
  <2> DEFINE d == work[p].row
  <2>1. /\ "SIGNED" \in TRANSITIONS(row[d].state) /\ UNCHANGED <<dev, word, reports>>
        /\ row' = [row EXCEPT ![d].state = "SIGNED", ![d].seq = work[p].seq]
    BY <1>4 DEF Sign
  <2>2. row[d].state \notin TERMINAL
    BY <2>1, NothingLeavesTerminal
  <2>3. \A e \in Deployment : e # d => row'[e] = row[e]
    BY <2>1 DEF IInv, Typed
  <2> QED BY <2>1, <2>2, <2>3, LedgerKeepsEnded
<1> QED BY <1>1, <1>2, <1>3, <1>4 DEF Worked

\* What is delivered had no word, and has one.
LEMMA DeliverKeepsEnded ==
  ASSUME IInv, Ended, NEW p \in Worker, Deliver(p) PROVE Ended'
<1> DEFINE d == work[p].row
<1>1. work[p].pc = "deliver" /\ UNCHANGED <<row, reports>>
  BY DEF Deliver
<1>2. d \in Deployment /\ word[d] = {}
  BY <1>1 DEF IInv, Placed, AtPlace, RowFits
<1>3. CASE UNCHANGED <<dev, word>>
  BY <1>1, <1>3, LedgerKeepsEnded
<1>4. CASE \E lease \in LeaseOffers :
             /\ dev' = Staged(dev, PackageOf(p, lease), 0)
             /\ word' = [word EXCEPT ![d] = @ \cup {"installed"}]
  <2>1. PICK lease \in LeaseOffers :
             /\ dev' = Staged(dev, PackageOf(p, lease), 0)
             /\ word' = [word EXCEPT ![d] = @ \cup {"installed"}]
    BY <1>4
  <2> DEFINE pkg == PackageOf(p, lease)
  <2>2. pkg.artifact = d
    BY DEF PackageOf
  <2>3. /\ dev'.candidate = InactiveSlot(dev) /\ InactiveSlot(dev) # "none"
        /\ dev'.slots[InactiveSlot(dev)].artifact = d
    <3>1. dev \in Document /\ dev' = Staged(dev, pkg, 0) /\ InactiveSlot(dev) \in Slot
      BY <2>1 DEF IInv, Typed, InactiveSlot, Slot
    <3>2. RecordOf(pkg, 0).artifact = d
      BY <2>2 DEF RecordOf
    <3> HIDE DEF pkg, d
    <3>3. dev'.candidate = InactiveSlot(dev)
          /\ dev'.slots = [dev.slots EXCEPT ![InactiveSlot(dev)] = RecordOf(pkg, 0)]
      BY <3>1 DEF Staged, Document
    <3> QED BY <3>1, <3>2, <3>3 DEF Document, InactiveSlot, Slot
  <2> HIDE DEF d, pkg
  <2>4. word'[d] = {"installed"} /\ \A e \in Deployment \ {d} : word'[e] = word[e]
    BY <1>2, <2>1 DEF IInv, Typed
  <2>5. OnTrial'
    BY <2>3, <2>4 DEF OnTrial
  <2>6. ExpiryClosesTheRow'
    BY <1>1, <2>4 DEF Ended, ExpiryClosesTheRow
  <2> QED BY <2>5, <2>6 DEF Ended
<1> QED BY <1>3, <1>4 DEF Deliver

\* The device ends or promotes what it runs.
LEMMA DeviceKeepsEnded ==
  ASSUME IInv, Ended, PassProbation \/ LeaseEnds \/ FailProbation PROVE Ended'
<1> DEFINE d == Running(dev).artifact
<1>1. dev \in Document /\ UNCHANGED row
  BY DEF IInv, Typed, PassProbation, LeaseEnds, FailProbation
<1>2. dev'.status # "probation"
  BY <1>1 DEF PassProbation, LeaseEnds, FailProbation, Promoted, Reverted, Document
<1>3. OnTrial'
  BY <1>2 DEF OnTrial
<1>4. dev.status = "probation" /\ d \in Deployment => word[d] = {"installed"}
  BY DEF Ended, OnTrial, Running, RunningSlot
<1> HIDE DEF d
<1>5. PICK w \in {"activated", "reverted"} : Say(d, w)
  BY DEF PassProbation, LeaseEnds, FailProbation, d
<1>6. reports \subseteq reports'
  BY DEF PassProbation, LeaseEnds, FailProbation, Hear
<1>7. ASSUME NEW e \in Deployment, {"activated", "reverted"} \subseteq word'[e]
      PROVE  \/ row'[e].state \in TERMINAL
             \/ [row |-> e, outcome |-> "REVERTED"] \in reports'
  <2>1. CASE e # d \/ d \notin Deployment
    <3>1. word'[e] = word[e]
      BY <1>5, <2>1 DEF Say, IInv, Typed
    <3> QED BY <1>1, <1>6, <1>7, <3>1 DEF Ended, ExpiryClosesTheRow
  <2>2. CASE e = d /\ d \in Deployment
    <3>1. word'[d] = word[d] \cup {w}
      BY <1>5, <2>2 DEF Say, IInv, Typed
    <3>2. word[d] # {"installed"}
      BY <1>7, <2>2, <3>1
    <3>3. LeaseEnds
      BY <1>4, <2>2, <3>2 DEF PassProbation, FailProbation
    <3>4. Say(d, "reverted")
      BY <3>3 DEF LeaseEnds, d
    <3>5. word'[d] = word[d] \cup {"reverted"}
      BY <2>2, <3>4 DEF Say, IInv, Typed
    <3>6. WasActivated(d)
      BY <1>7, <2>2, <3>5 DEF WasActivated
    <3>7. Hear(d, "REVERTED")
      BY <3>3, <3>6 DEF LeaseEnds, d
    <3> QED BY <2>2, <3>7 DEF Hear
  <2> QED BY <2>1, <2>2
<1>8. ExpiryClosesTheRow'
  BY <1>7 DEF ExpiryClosesTheRow
<1> QED BY <1>3, <1>8 DEF Ended

\* A reversion is a legal transition of every row that may be recorded at all.
LEMMA RecordKeepsEnded ==
  ASSUME IInv, Ended, NEW r \in reports, Record(r) PROVE Ended'
<1> DEFINE d == r.row
<1>1. /\ d \in Deployment /\ UNCHANGED <<dev, word>> /\ reports' = reports \ {r}
      /\ r \in [row : Deployment, outcome : Outcomes]
      /\ row' = IF r.outcome \in TRANSITIONS(row[d].state)
                  THEN [row EXCEPT ![d].state = r.outcome] ELSE row
  BY DEF IInv, Typed, Record
<1>2. row[d].state \in Live \cup TERMINAL
  <2>1. word[d] # {} /\ row[d].state # "DELIVERY_ATTEMPTED"
    BY <1>1 DEF IInv, Told, Record
  <2> QED BY <1>1, <2>1 DEF IInv, Told, TERMINAL
<1>3. \A e \in Deployment : row[e].state \in TERMINAL => row'[e].state \in TERMINAL
  <2>1. CASE r.outcome \in TRANSITIONS(row[d].state)
    <3>1. AdvanceTo(d, r.outcome)
      BY <1>1, <2>1 DEF AdvanceTo
    <3> QED BY <3>1, ClosedStays
  <2>2. CASE r.outcome \notin TRANSITIONS(row[d].state)
    BY <1>1, <2>2
  <2> QED BY <2>1, <2>2
<1>4. r.outcome = "REVERTED" => row'[d].state \in TERMINAL
  <2>1. CASE row[d].state \in TERMINAL
    BY <1>1, <1>3, <2>1
  <2>2. CASE row[d].state \in Live /\ r.outcome = "REVERTED"
    <3>1. "REVERTED" \in TRANSITIONS(row[d].state)
      BY <2>2 DEF Live, TRANSITIONS
    <3>2. row' = [row EXCEPT ![d].state = "REVERTED"]
      BY <1>1, <2>2, <3>1
    <3>3. row'[d].state = "REVERTED"
      BY <1>1, <3>2 DEF IInv, Typed, Row
    <3> QED BY <3>3 DEF TERMINAL
  <2> QED BY <1>2, <2>1, <2>2
<1>5. ASSUME NEW e \in Deployment, {"activated", "reverted"} \subseteq word'[e]
      PROVE  \/ row'[e].state \in TERMINAL
             \/ [row |-> e, outcome |-> "REVERTED"] \in reports'
  <2>1. row[e].state \in TERMINAL \/ [row |-> e, outcome |-> "REVERTED"] \in reports
    BY <1>1, <1>5 DEF Ended, ExpiryClosesTheRow
  <2>2. [row |-> e, outcome |-> "REVERTED"] = r => d = e /\ r.outcome = "REVERTED"
    OBVIOUS
  <2> QED BY <1>1, <1>3, <1>4, <2>1, <2>2
<1>6. OnTrial'
  BY <1>1 DEF Ended, OnTrial
<1> QED BY <1>5, <1>6 DEF Ended, ExpiryClosesTheRow

LEMMA EndedStep == IInv /\ Ended /\ [Next]_vars => Ended'
<1> SUFFICES ASSUME IInv, Ended, [Next]_vars PROVE Ended'
  OBVIOUS
<1>1. ASSUME NEW p \in Worker, Worked(p) PROVE Ended'
  BY <1>1, WorkerKeepsEnded, DeliverKeepsEnded
<1>2. CASE PassProbation \/ LeaseEnds \/ FailProbation
  BY <1>2, DeviceKeepsEnded
<1>3. ASSUME NEW r \in reports, Record(r) PROVE Ended'
  BY <1>3, RecordKeepsEnded
<1>4. CASE UNCHANGED vars
  BY <1>4, LedgerKeepsEnded DEF vars
<1> QED BY <1>1, <1>2, <1>3, <1>4 DEF Next

\* The expiry of an active deployment is never lost on the ledger: until its row is
\* closed it is still to be recorded, for any number of deployments, workers and
\* raises and any order of the caller's reports (ledger.TRANSITIONS).
THEOREM ExpiriesAreRecorded == Spec => []ExpiryClosesTheRow
<1>1. Ended => ExpiryClosesTheRow
  BY DEF Ended
<1> QED BY InvAlways, EndedInit, EndedStep, <1>1, PTL DEF Spec
=============================================================================
