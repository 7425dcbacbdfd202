----------------------------- MODULE Generation -----------------------------
(***************************************************************************)
(* One source-generation task inside Agent.run (agent/agent.py): the model *)
(* is asked, its tool calls are answered (agent/tools.py), what it writes  *)
(* passes the guard rail (guardrail/guardrail.py) and is executed in the   *)
(* sandbox (sandbox/sandbox_runner.py), within a budget of attempts.       *)
(* Deployment takes the three ways it ends, verified, escalated or raised, *)
(* as AgentVerifies, AgentEscalates and AgentRaises.                       *)
(*                                                                         *)
(* Generated code is known by the pins a scan of it finds, the pins it     *)
(* declares, whether every other check of the guard rail clears it, and    *)
(* whether it runs healthily.                                              *)
(***************************************************************************)
EXTENDS Naturals

CONSTANTS
  Pin,
  Wired,            \* pins of the hardware schema
  Forbidden,
  MAX_RETRIES,
  MAX_TOOL_TURNS

ASSUME GenerationAssumption ==
  /\ Wired \subseteq Pin /\ Forbidden \subseteq Pin
  /\ MAX_RETRIES \in Nat \ {0} /\ MAX_TOOL_TURNS \in Nat \ {0}

VARIABLES
  attempt,   \* attempts begun
  turns,     \* tool turns of this attempt
  calls,     \* pins the tool of this attempt has called safe
  output,    \* what the model has written, as long as it is being judged
  stage,
  answered,  \* history: <<attempt, pin>> answered safe
  executed   \* history: code the sandbox has run, with the attempt

vars == <<attempt, turns, calls, output, stage, answered, executed>>

Code == [pins : SUBSET Pin, declared : SUBSET Pin, clean : BOOLEAN, healthy : BOOLEAN]
NoCode == [pins |-> {}, declared |-> {}, clean |-> FALSE, healthy |-> FALSE]

Ended == {"verified", "escalated", "raised"}

\* Every variable has its type, and no attempt is begun past the budget.
TypeOK ==
  /\ attempt \in 1 .. MAX_RETRIES
  /\ turns \in 0 .. MAX_TOOL_TURNS - 1
  /\ calls \subseteq Pin
  /\ output \in Code \cup {NoCode}
  /\ stage \in {"asking", "guard", "sandbox"} \cup Ended
  /\ answered \subseteq (1 .. MAX_RETRIES) \X Pin
  /\ executed \subseteq (1 .. MAX_RETRIES) \X Code

-----------------------------------------------------------------------------

Init ==
  /\ attempt = 1 /\ turns = 0 /\ calls = {}
  /\ output = NoCode /\ stage = "asking"
  /\ answered = {} /\ executed = {}

\* The next attempt with the tool of this one.
RetryWithTheSameTool ==
  /\ IF attempt < MAX_RETRIES
       THEN attempt' = attempt + 1 /\ stage' = "asking"
       ELSE attempt' = attempt /\ stage' = "escalated"
  /\ turns' = 0 /\ output' = NoCode
  /\ UNCHANGED calls

\* One attempt more than the budget.
RetryOnceMore ==
  /\ IF attempt <= MAX_RETRIES
       THEN attempt' = attempt + 1 /\ stage' = "asking"
       ELSE attempt' = attempt /\ stage' = "escalated"
  /\ turns' = 0 /\ calls' = {} /\ output' = NoCode

\* The next attempt begins with a tool of its own; after the last, escalate.
Retry ==
  /\ IF attempt < MAX_RETRIES
       THEN attempt' = attempt + 1 /\ stage' = "asking"
       ELSE attempt' = attempt /\ stage' = "escalated"
  /\ turns' = 0 /\ calls' = {} /\ output' = NoCode

Raise == stage' = "raised" /\ UNCHANGED <<attempt, turns, calls, output>>

\* Safe means wired and not forbidden.
Check(pins) == (pins \cap Wired) \ Forbidden

\* Replies with tool calls, each answered; the turns of an attempt are counted.
UseTool ==
  /\ stage = "asking"
  /\ \E pins \in SUBSET Pin :
       /\ pins # {}
       /\ answered' = answered \cup ({attempt} \X Check(pins))
       /\ IF turns + 1 < MAX_TOOL_TURNS
            THEN /\ turns' = turns + 1
                 /\ calls' = calls \cup Check(pins)
                 /\ UNCHANGED <<attempt, output, stage>>
            ELSE Retry
  /\ UNCHANGED executed

\* A tool call whose pin is no number.
UseToolBadly == stage = "asking" /\ Raise /\ UNCHANGED <<answered, executed>>

\* JSON that is no object; the call of the model may fail as well.
WriteNoObject == stage = "asking" /\ Raise /\ UNCHANGED <<answered, executed>>

\* Prose is asked about again within the same attempt.
WriteProseAgain ==
  /\ stage = "asking"
  /\ turns' = 0 /\ calls' = {}
  /\ UNCHANGED <<attempt, output, stage, answered, executed>>

\* Prose, or an object without a plan, code or a list of pins.
WriteProse == stage = "asking" /\ Retry /\ UNCHANGED <<answered, executed>>

Write ==
  /\ stage = "asking"
  /\ output' \in Code
  /\ stage' = "guard"
  /\ UNCHANGED <<attempt, turns, calls, answered, executed>>

\* Forbidden pins, provenance, schema conformance, and everything else.
Clears(code) ==
  /\ code.pins \cap Forbidden = {}
  /\ code.pins \subseteq calls
  /\ code.pins \subseteq code.declared
  /\ code.pins \subseteq Wired
  /\ code.clean

Guard ==
  /\ stage = "guard"
  /\ IF Clears(output)
       THEN stage' = "sandbox" /\ UNCHANGED <<attempt, turns, calls, output>>
       ELSE Retry
  /\ UNCHANGED <<answered, executed>>

\* Code the guard rail cannot read: the parser or the scan raises something other
\* than a syntax error (a number too long, nesting too deep).
GuardRaises == stage = "guard" /\ Raise /\ UNCHANGED <<answered, executed>>

\* A container that runs out its time, or ends cleanly, with the healthy marker.
Execute ==
  /\ stage = "sandbox"
  /\ executed' = executed \cup {<<attempt, output>>}
  /\ IF output.healthy
       THEN stage' = "verified" /\ UNCHANGED <<attempt, turns, calls, output>>
       ELSE Retry
  /\ UNCHANGED answered

\* No docker, or no image: failing closed, as a failed run.
SandboxUnavailable == stage = "sandbox" /\ Retry /\ UNCHANGED <<answered, executed>>

\* The kill of a container that outlived its time takes too long itself, or the
\* candidate cannot be written.
SandboxRaises ==
  /\ stage = "sandbox"
  /\ Raise
  /\ executed' \in {executed, executed \cup {<<attempt, output>>}}
  /\ UNCHANGED answered

Next ==
  \/ UseTool \/ UseToolBadly \/ WriteProse \/ WriteNoObject \/ Write
  \/ Guard \/ GuardRaises \/ Execute \/ SandboxUnavailable \/ SandboxRaises

Spec == Init /\ [][Next]_vars /\ WF_vars(Next)

-----------------------------------------------------------------------------
(* Properties. *)

\* Whatever the sandbox has executed used only pins that the tool called safe
\* in the very attempt that wrote it, and none of the denylist: provenance is
\* not carried from one attempt to the next. What is handed on as verified is
\* what the sandbox ran in this attempt, and found healthy.
ExecutedIsChecked ==
  /\ \A run \in executed :
       /\ \A pin \in run[2].pins : <<run[1], pin>> \in answered
       /\ run[2].pins \subseteq run[2].declared \ Forbidden
       /\ run[2].clean
  /\ stage = "verified" => <<attempt, output>> \in executed /\ output.healthy

\* Every task ends, whatever the model answers: bad answers cost attempts.
Ends == <>(stage \in Ended)

\* run returns a verified artifact or an escalation (agent.py Agent.run): a bad
\* answer counts as a failed attempt and a failing sandbox as a failed verdict.
ReturnsOrEscalates == stage # "raised"
=============================================================================
