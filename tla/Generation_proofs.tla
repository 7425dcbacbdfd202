------------------------- MODULE Generation_proofs -------------------------
(***************************************************************************)
(* What the sandbox executes has passed the tool and the guard rail of the *)
(* attempt that wrote it, for every set of pins and every budget.          *)
(***************************************************************************)
EXTENDS Generation, TLAPS

\* The tool of this attempt has answered what it holds; what waits for the
\* sandbox has cleared the guard rail with it.
Provenance ==
  /\ \A pin \in calls : <<attempt, pin>> \in answered
  /\ stage \in {"guard", "sandbox"} => output \in Code
  /\ stage = "sandbox" => Clears(output)

IInv == TypeOK /\ Provenance /\ ExecutedIsChecked

LEMMA InitIInv == Init => IInv
<1> SUFFICES ASSUME Init PROVE IInv
  OBVIOUS
<1>1. TypeOK
  BY GenerationAssumption DEF Init, TypeOK
<1>2. Provenance /\ ExecutedIsChecked
  BY DEF Init, Provenance, ExecutedIsChecked
<1> QED BY <1>1, <1>2 DEF IInv

-----------------------------------------------------------------------------
(* The ends of an attempt. *)

LEMMA RetryTyped ==
  ASSUME TypeOK, Retry
  PROVE  /\ attempt' \in 1 .. MAX_RETRIES
         /\ turns' = 0 /\ turns' \in 0 .. MAX_TOOL_TURNS - 1
         /\ calls' = {} /\ output' = NoCode
         /\ stage' \in {"asking", "escalated"}
BY GenerationAssumption DEF TypeOK, Retry

\* Ending an attempt, with nothing answered or executed, or with one run more.
LEMMA RetryKeeps ==
  ASSUME IInv, Retry, UNCHANGED answered,
         NEW ran \in {{}, {<<attempt, output>>}}, executed' = executed \cup ran,
         ran # {} => stage = "sandbox"
  PROVE  IInv'
<1>1. /\ attempt' \in 1 .. MAX_RETRIES /\ turns' \in 0 .. MAX_TOOL_TURNS - 1
      /\ calls' = {} /\ output' = NoCode /\ stage' \in {"asking", "escalated"}
  BY RetryTyped DEF IInv
<1>2. ran \subseteq (1 .. MAX_RETRIES) \X Code
  BY DEF IInv, TypeOK, Provenance
<1>3. TypeOK'
  BY <1>1, <1>2 DEF IInv, TypeOK, Ended
<1>4. Provenance'
  BY <1>1 DEF Provenance
<1>5. ExecutedIsChecked'
  <2>1. ASSUME NEW run \in ran
        PROVE  /\ \A pin \in run[2].pins : <<run[1], pin>> \in answered
               /\ run[2].pins \subseteq run[2].declared \ Forbidden
               /\ run[2].clean
    BY <2>1 DEF IInv, Provenance, Clears
  <2> QED BY <1>1, <2>1 DEF IInv, ExecutedIsChecked
<1> QED BY <1>3, <1>4, <1>5 DEF IInv

-----------------------------------------------------------------------------
(* The steps. *)

LEMMA UseToolKeeps == ASSUME IInv, UseTool PROVE IInv'
<1>1. PICK pins \in SUBSET Pin :
        /\ answered' = answered \cup ({attempt} \X Check(pins))
        /\ IF turns + 1 < MAX_TOOL_TURNS
             THEN /\ turns' = turns + 1
                  /\ calls' = calls \cup Check(pins)
                  /\ UNCHANGED <<attempt, output, stage>>
             ELSE Retry
  BY DEF UseTool
<1>2. stage = "asking" /\ executed' = executed
  BY DEF UseTool
<1>3. Check(pins) \subseteq Pin
  BY <1>1 DEF Check
<1>4. answered' \subseteq (1 .. MAX_RETRIES) \X Pin /\ answered \subseteq answered'
  BY <1>1, <1>3 DEF IInv, TypeOK
<1>5. CASE turns + 1 < MAX_TOOL_TURNS
  <2>1. turns' = turns + 1 /\ calls' = calls \cup Check(pins)
        /\ UNCHANGED <<attempt, output, stage>>
    BY <1>1, <1>5
  <2>2. turns' \in 0 .. MAX_TOOL_TURNS - 1
    BY <2>1, <1>5, GenerationAssumption DEF IInv, TypeOK
  <2>3. TypeOK'
    BY <2>1, <2>2, <1>2, <1>3, <1>4 DEF IInv, TypeOK
  <2>4. Provenance'
    BY <2>1, <1>1, <1>2 DEF IInv, Provenance
  <2>5. ExecutedIsChecked'
    BY <2>1, <1>2, <1>4 DEF IInv, ExecutedIsChecked
  <2> QED BY <2>3, <2>4, <2>5 DEF IInv
<1>6. CASE ~(turns + 1 < MAX_TOOL_TURNS)
  <2>1. Retry
    BY <1>1, <1>6
  <2>2. /\ attempt' \in 1 .. MAX_RETRIES /\ turns' \in 0 .. MAX_TOOL_TURNS - 1
        /\ calls' = {} /\ output' = NoCode /\ stage' \in {"asking", "escalated"}
    BY <2>1, RetryTyped DEF IInv
  <2>3. TypeOK'
    BY <2>2, <1>2, <1>4 DEF IInv, TypeOK, Ended
  <2>4. Provenance'
    BY <2>2 DEF Provenance
  <2>5. ExecutedIsChecked'
    BY <2>2, <1>2, <1>4 DEF IInv, ExecutedIsChecked
  <2> QED BY <2>3, <2>4, <2>5 DEF IInv
<1> QED BY <1>5, <1>6

LEMMA WriteKeeps == ASSUME IInv, Write PROVE IInv'
<1>1. /\ output' \in Code /\ stage' = "guard" /\ UNCHANGED <<attempt, turns, calls>>
      /\ UNCHANGED <<answered, executed>>
  BY DEF Write
<1>2. TypeOK'
  BY <1>1 DEF IInv, TypeOK
<1>3. Provenance'
  BY <1>1 DEF IInv, Provenance
<1>4. ExecutedIsChecked'
  BY <1>1 DEF IInv, ExecutedIsChecked
<1> QED BY <1>2, <1>3, <1>4 DEF IInv

LEMMA GuardKeeps == ASSUME IInv, Guard PROVE IInv'
<1>1. stage = "guard" /\ UNCHANGED <<answered, executed>>
  BY DEF Guard
<1>2. CASE Clears(output)
  <2>1. stage' = "sandbox" /\ UNCHANGED <<attempt, turns, calls, output>>
    BY <1>2 DEF Guard
  <2>2. TypeOK'
    BY <2>1, <1>1 DEF IInv, TypeOK
  <2>3. Provenance'
    BY <2>1, <1>1, <1>2 DEF IInv, Provenance, Clears
  <2>4. ExecutedIsChecked'
    BY <2>1, <1>1 DEF IInv, ExecutedIsChecked
  <2> QED BY <2>2, <2>3, <2>4 DEF IInv
<1>3. CASE ~Clears(output)
  <2>1. Retry
    BY <1>3 DEF Guard
  <2> QED BY <2>1, <1>1, RetryKeeps
<1> QED BY <1>2, <1>3

\* One run more in the sandbox, and the attempt goes on or is over.
LEMMA RanKeeps ==
  ASSUME IInv, stage = "sandbox", UNCHANGED <<answered, attempt, turns, calls, output>>,
         executed' \in {executed, executed \cup {<<attempt, output>>}},
         \/ stage' = "raised"
         \/ /\ stage' = "verified" /\ output.healthy
            /\ executed' = executed \cup {<<attempt, output>>}
  PROVE  IInv'
<1>1. <<attempt, output>> \in (1 .. MAX_RETRIES) \X Code
  BY DEF IInv, TypeOK, Provenance
<1>2. TypeOK'
  BY <1>1 DEF IInv, TypeOK, Ended
<1>3. Provenance'
  BY DEF IInv, Provenance
<1>4. ExecutedIsChecked'
  <2>1. /\ \A pin \in output.pins : <<attempt, pin>> \in answered
        /\ output.pins \subseteq output.declared \ Forbidden
        /\ output.clean
    BY DEF IInv, Provenance, Clears
  <2>2. ASSUME NEW run \in executed'
        PROVE  /\ \A pin \in run[2].pins : <<run[1], pin>> \in answered
               /\ run[2].pins \subseteq run[2].declared \ Forbidden
               /\ run[2].clean
    <3>1. CASE run \in executed
      BY <3>1 DEF IInv, ExecutedIsChecked
    <3>2. CASE run = <<attempt, output>>
      BY <3>2, <2>1
    <3> QED BY <3>1, <3>2, <2>2
  <2> QED BY <2>2 DEF ExecutedIsChecked
<1> QED BY <1>2, <1>3, <1>4 DEF IInv

LEMMA ExecuteKeeps == ASSUME IInv, Execute PROVE IInv'
<1>1. stage = "sandbox" /\ UNCHANGED answered /\ executed' = executed \cup {<<attempt, output>>}
  BY DEF Execute
<1>2. CASE output.healthy
  BY <1>1, <1>2, RanKeeps DEF Execute
<1>3. CASE ~output.healthy
  <2>1. Retry
    BY <1>3 DEF Execute
  <2> QED BY <2>1, <1>1, RetryKeeps
<1> QED BY <1>2, <1>3

\* A raise before the sandbox.
LEMMA RaiseKeeps ==
  ASSUME IInv, Raise, UNCHANGED <<answered, executed>> PROVE IInv'
<1>1. stage' = "raised" /\ UNCHANGED <<attempt, turns, calls, output>>
  BY DEF Raise
<1>2. TypeOK'
  BY <1>1 DEF IInv, TypeOK, Ended
<1>3. Provenance'
  BY <1>1 DEF IInv, Provenance
<1>4. ExecutedIsChecked'
  BY <1>1 DEF IInv, ExecutedIsChecked
<1> QED BY <1>2, <1>3, <1>4 DEF IInv

LEMMA StepIInv == IInv /\ [Next]_vars => IInv'
<1> SUFFICES ASSUME IInv, [Next]_vars PROVE IInv'
  OBVIOUS
<1>1. CASE UseTool
  BY <1>1, UseToolKeeps
<1>2. CASE UseToolBadly \/ WriteNoObject \/ GuardRaises
  BY <1>2, RaiseKeeps DEF UseToolBadly, WriteNoObject, GuardRaises
<1>3. CASE WriteProse
  <2>1. Retry /\ UNCHANGED answered /\ executed' = executed \cup {}
    BY <1>3 DEF WriteProse
  <2> QED BY <2>1, RetryKeeps
<1>4. CASE Write
  BY <1>4, WriteKeeps
<1>5. CASE Guard
  BY <1>5, GuardKeeps
<1>6. CASE Execute
  BY <1>6, ExecuteKeeps
<1>7. CASE SandboxUnavailable
  <2>1. Retry /\ UNCHANGED answered /\ executed' = executed \cup {}
    BY <1>7 DEF SandboxUnavailable
  <2> QED BY <2>1, RetryKeeps
<1>8. CASE SandboxRaises
  BY <1>8, RanKeeps DEF SandboxRaises, Raise
<1>9. CASE UNCHANGED vars
  BY <1>9 DEF vars, IInv, TypeOK, Provenance, ExecutedIsChecked, Clears
<1> QED BY <1>1, <1>2, <1>3, <1>4, <1>5, <1>6, <1>7, <1>8, <1>9 DEF Next

\* Agent.run never begins an attempt past its budget, nor a tool turn, and hands
\* its stages on in their types.
THEOREM GenerationTypeCorrect == Spec => []TypeOK
<1>1. IInv => TypeOK
  BY DEF IInv
<1> QED BY <1>1, InitIInv, StepIInv, PTL DEF Spec

\* Agent.generate and guardrail.check: what the sandbox runs uses only pins that the
\* tool of the same attempt called safe, and what is handed on was run and healthy.
THEOREM OnlyCheckedRuns == Spec => []ExecutedIsChecked
<1>1. IInv => ExecutedIsChecked
  BY DEF IInv
<1> QED BY <1>1, InitIInv, StepIInv, PTL DEF Spec
=============================================================================
