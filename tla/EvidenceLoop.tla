---------------------------- MODULE EvidenceLoop ----------------------------
(***************************************************************************)
(* The autonomous search loop of one evidence turn (domain/loop.py): the   *)
(* graph decide -> check_floor | act -> ... -> answer, its budget          *)
(* (domain/budget.py) and the two floors under which a model may not       *)
(* declare the evidence sufficient.  The model, the tools and the answer   *)
(* writer are free to propose, fail and cost anything; the executor may    *)
(* ask the loop to stop at any super-step.                                 *)
(***************************************************************************)
EXTENDS Naturals

CONSTANTS
    Tools,         \* registered tools
    StanceTools,   \* those that take a stance (corpus_search, live_lookup, extract_evidence)
    EvidenceTools, \* those whose success may add evidence (extract_evidence)
    Cap,           \* max_tool_calls, per tool (a tool without one: MaxToolCalls)
    MaxToolCalls,  \* max_tool_calls_total
    MaxIterations, \* max_iterations
    CostLimit,     \* token_cost_limit_usd, in units
    MaxCallCost,   \* the dearest single LLM or tool call, in units
    MaxItems,      \* bound: evidence items that are told apart
    HasAnswer      \* an answer writer is configured

ASSUME ToolSets == StanceTools \subseteq Tools /\ EvidenceTools \subseteq Tools
ASSUME Budget == /\ Cap \in [Tools -> Nat]
                 /\ MaxToolCalls \in Nat
                 /\ MaxIterations \in Nat
                 /\ CostLimit \in Nat \ {0}
                 /\ MaxCallCost \in Nat
                 /\ MaxItems \in Nat
                 /\ HasAnswer \in BOOLEAN

VARIABLES
    pc,                        \* the graph node that runs next
    steps,                     \* graph steps taken
    iterations, calls, total, cost,   \* BudgetConsumption
    items,                     \* evidence that passed the gate
    kind,                      \* question_kind declared by the model
    probed,                    \* a counter probe with outcome ok or empty is in the trace
    proposal,                  \* the tool decide proposed
    reason,                    \* termination_reason
    cut,                       \* history: what cut the search off, if anything did
    attempt, answer            \* the answer node: attempts made, what it stored

budget == <<iterations, calls, total, cost>>
found == <<items, kind, probed>>
loopVars == <<pc, steps, iterations, calls, total, cost, items, kind, probed,
              proposal, reason, cut, attempt, answer>>

Nodes == {"decide", "check_floor", "act", "answer", "writing", "end", "raised"}
Kinds == {"unknown", "claim", "comparison", "other"}
CounterRequired == {"claim", "comparison"}
Reasons == {"none", "sufficient", "budget_exhausted", "no_evidence",
            "fatal_error", "cancelled", "interrupted"}
KeptWithoutEvidence == {"fatal_error", "cancelled", "interrupted"}
Cuts == KeptWithoutEvidence \cup {"budget_exhausted"}
UnknownTool == "unknown tool"
MaxAttempts == 2               \* _ANSWER_MAX_ATTEMPTS

LoopTypeOK ==
    /\ pc \in Nodes
    /\ steps \in Nat
    /\ iterations \in 0..MaxIterations
    /\ calls \in [Tools -> Nat] /\ \A t \in Tools : calls[t] <= Cap[t]
    /\ total \in 0..MaxToolCalls
    /\ cost \in Nat
    /\ items \in 0..MaxItems
    /\ kind \in Kinds
    /\ probed \in BOOLEAN
    /\ proposal \in Tools \cup {UnknownTool}
    /\ reason \in Reasons
    /\ cut \in Cuts \cup {"none"}
    /\ attempt \in 0..MaxAttempts
    /\ answer \in {"none", "written", "fallback"}

LoopInit ==
    /\ pc = "decide"
    /\ steps = 0
    /\ iterations = 0
    /\ calls = [t \in Tools |-> 0]
    /\ total = 0
    /\ cost = 0
    /\ items = 0
    /\ kind = "unknown"
    /\ probed = FALSE
    /\ proposal = UnknownTool
    /\ reason = "none" /\ cut = "none"
    /\ attempt = 0
    /\ answer = "none"

-----------------------------------------------------------------------------
(* domain/budget.py                                                        *)

CostExhausted == cost >= CostLimit

\* mutant: only the iteration count is checked
BeginDenied_NoCost == iterations >= MaxIterations

BeginDenied == CostExhausted \/ iterations >= MaxIterations

\* check_and_consume_tool_call, in the order of its checks
TotalDenied == total >= MaxToolCalls
CapDenied(t) == calls[t] >= Cap[t]
CanCall(t) == ~TotalDenied /\ ~CapDenied(t) /\ ~CostExhausted

record_cost == \E k \in 0..MaxCallCost : cost' = cost + k

-----------------------------------------------------------------------------
(* Termination: _finish, end() and the routers.                            *)

\* mutant: a turn that has evidence has enough of it
finish_reason_Enough(r) ==
    IF r \in KeptWithoutEvidence THEN r ELSE IF items = 0 THEN "no_evidence" ELSE "sufficient"

finish_reason(r) ==
    IF r \notin KeptWithoutEvidence /\ items = 0 THEN "no_evidence" ELSE r

\* mutant: a turn that ends early leaves without an answer
End_NoAnswer(r) ==
    /\ reason' = finish_reason(r)
    /\ pc' = IF items > 0 /\ r = "sufficient" THEN "answer" ELSE "end"

\* every path that ends goes through answer when there is evidence
End(r) ==
    /\ reason' = finish_reason(r)
    /\ pc' = IF items > 0 THEN "answer" ELSE "end"

\* mutant: one graph step per iteration is overlooked
RecursionLimit_OneNode == MaxIterations + 3

\* the search is cut off: by the user, the worker's shutdown, the budget or a dead model
CutOff(r) == End(r) /\ cut' = r

\* the graph's recursion_limit: two nodes an iteration, the last decide, answer
RecursionLimit == 2 * MaxIterations + 2 + 1

NodeStep == steps' = steps + 1

-----------------------------------------------------------------------------
(* The nodes.                                                              *)

\* decide, stopped: should_stop returned CANCELLED or INTERRUPTED
DecideStopped ==
    /\ pc = "decide" /\ NodeStep
    /\ \E r \in {"cancelled", "interrupted"} : CutOff(r)
    /\ UNCHANGED <<budget, found, proposal, attempt, answer>>

\* decide, denied by begin_iteration
DecideDenied ==
    /\ pc = "decide" /\ NodeStep
    /\ BeginDenied
    /\ CutOff("budget_exhausted")
    /\ UNCHANGED <<budget, found, proposal, attempt, answer>>

\* decide, with the model unavailable
DecideFails ==
    /\ pc = "decide" /\ NodeStep
    /\ ~BeginDenied
    /\ iterations' = iterations + 1
    /\ CutOff("fatal_error")
    /\ UNCHANGED <<calls, total, cost, found, proposal, attempt, answer>>

\* decide: the model proposes a tool call or the end
Decide ==
    /\ pc = "decide" /\ NodeStep
    /\ ~BeginDenied
    /\ iterations' = iterations + 1
    /\ record_cost
    /\ \/ /\ pc' = "check_floor"
          /\ UNCHANGED proposal
       \/ /\ pc' = "act"
          /\ proposal' \in Tools \cup {UnknownTool}
    /\ UNCHANGED <<calls, total, found, reason, cut, attempt, answer>>

\* an exception no node handles leaves the graph (and fails the job)
DecideRaises ==
    /\ pc = "decide" /\ NodeStep
    /\ ~BeginDenied
    /\ iterations' = iterations + 1
    /\ pc' = "raised"
    /\ UNCHANGED <<calls, total, cost, found, proposal, reason, cut, attempt, answer>>

\* mutant: the floor is decided by the kind declared before this proposal
MissingCounterProbe_OldKind(k) ==
    kind \in CounterRequired /\ ~probed /\ \E t \in StanceTools : CanCall(t)

\* floor 2: a claim or a comparison must have looked for the other side, as
\* long as a tool that could look is still within budget
MissingCounterProbe(k) ==
    k \in CounterRequired /\ ~probed /\ \E t \in StanceTools : CanCall(t)

\* check_floor records the declared kind also when it rejects the proposal
CheckFloor ==
    /\ pc = "check_floor" /\ NodeStep
    /\ \E k \in Kinds :
         /\ k = "unknown" => kind = "unknown"
         /\ kind' = k
         /\ IF items = 0 \/ MissingCounterProbe(k)
              THEN pc' = "decide" /\ UNCHANGED reason
              ELSE End("sufficient")
    /\ UNCHANGED <<budget, items, probed, proposal, cut, attempt, answer>>

\* act without running anything: unknown tool, or the tool's own cap is used up
ActRefused ==
    /\ pc = "act" /\ NodeStep
    /\ proposal \in Tools => ~TotalDenied /\ CapDenied(proposal)
    /\ pc' = "decide"
    /\ UNCHANGED <<budget, found, proposal, reason, cut, attempt, answer>>

\* act ends the turn: the calls of the turn or its cost are used up
ActExhausted ==
    /\ pc = "act" /\ NodeStep
    /\ proposal \in Tools
    /\ TotalDenied \/ (~CapDenied(proposal) /\ CostExhausted)
    /\ CutOff("budget_exhausted")
    /\ UNCHANGED <<budget, found, proposal, attempt, answer>>

\* act runs the tool.  A failure (an exception included) finds nothing; a
\* declared counter stance counts unless the call failed.
ActRuns ==
    /\ pc = "act" /\ NodeStep
    /\ proposal \in Tools
    /\ CanCall(proposal)
    /\ calls' = [calls EXCEPT ![proposal] = @ + 1]
    /\ total' = total + 1
    /\ record_cost
    /\ \E failed, counter \in BOOLEAN :
         /\ items' \in IF failed \/ proposal \notin EvidenceTools THEN {items} ELSE items..MaxItems
         /\ probed' = (probed \/ (counter /\ ~failed /\ proposal \in StanceTools))
    /\ pc' = "decide"
    /\ UNCHANGED <<iterations, kind, proposal, reason, cut, attempt, answer>>

\* answer is entered; a turn whose model died does not call another model
AnswerEntered ==
    /\ pc = "answer" /\ NodeStep
    /\ IF HasAnswer /\ reason # "fatal_error"
         THEN pc' = "writing" /\ UNCHANGED answer
         ELSE pc' = "end" /\ answer' = IF HasAnswer THEN "fallback" ELSE answer
    /\ UNCHANGED <<budget, found, proposal, reason, cut, attempt>>

\* mutant: an attempt without budget is tried again, and not counted
AnswerAttempt_DeniedAgain ==
    /\ pc = "writing"
    /\ \/ /\ CostExhausted
          /\ UNCHANGED <<pc, answer, cost, attempt>>
       \/ /\ ~CostExhausted
          /\ record_cost
          /\ attempt' = attempt + 1
          /\ pc' = IF attempt' < MaxAttempts THEN "writing" ELSE "end"
          /\ answer' = IF attempt' < MaxAttempts THEN answer ELSE "written"
    /\ UNCHANGED <<steps, iterations, calls, total, found, proposal, reason, cut>>

\* _attempt_answer, one attempt: denied, failed, accepted by the checks, or
\* rejected and tried once more
AnswerAttempt ==
    /\ pc = "writing"
    /\ \/ /\ pc' = "end" /\ answer' = "fallback"    \* denied, or write() raised
          /\ UNCHANGED <<cost, attempt>>
       \/ /\ ~CostExhausted
          /\ record_cost
          /\ attempt' = attempt + 1
          /\ \/ pc' = "end" /\ answer' = "written"
             \/ /\ attempt + 1 < MaxAttempts
                /\ pc' = "writing" /\ UNCHANGED answer
             \/ /\ attempt + 1 = MaxAttempts
                /\ pc' = "end" /\ answer' = "fallback"
    /\ UNCHANGED <<steps, iterations, calls, total, found, proposal, reason, cut>>

LoopNext ==
    \/ DecideStopped \/ DecideDenied \/ DecideFails \/ Decide \/ DecideRaises
    \/ CheckFloor \/ ActRefused \/ ActExhausted \/ ActRuns
    \/ AnswerEntered \/ AnswerAttempt

LoopSpec == LoopInit /\ [][LoopNext]_loopVars

\* one thread runs the graph to its end
LoopFairSpec == LoopSpec /\ WF_loopVars(LoopNext)

-----------------------------------------------------------------------------
(* Correctness.                                                            *)

\* The graph never runs into the recursion limit derived from the budget, which
\* would turn a turn with evidence into an internal error: LangGraph needs the
\* limit to exceed the steps of the run.
NeverRecursionError == steps + 1 <= RecursionLimit

\* Why: a rejected end proposal or tool goes back to decide, and each decide
\* consumes an iteration, so no iteration takes more than two graph steps; and
\* a second answer is attempted only after the first.
StepCount ==
    /\ pc = "decide" => steps = 2 * iterations
    /\ pc \in {"check_floor", "act"} => steps + 1 = 2 * iterations
    /\ pc = "answer" => steps <= 2 * iterations + 1
    /\ pc \in {"writing", "end", "raised"} => steps <= 2 * iterations + 2
    /\ pc \in {"decide", "check_floor", "act", "answer"} => attempt = 0
    /\ pc = "writing" => attempt < MaxAttempts

\* A turn overspends its cost limit by less than the price of one call, although
\* capped tools can be proposed again and again and answers are retried.
CostOvershoot == cost < CostLimit + MaxCallCost

\* The reason a turn reports is the one that ended it, up to the last retry of its answer.
\* A search that was cut off never counts as sufficient, however much it had found; one
\* that the user, the shutdown or a dead model stopped says so, with evidence or without;
\* and only a turn that holds none reports "no evidence".
HonestReason ==
    /\ reason \in {"sufficient", "budget_exhausted"} => items > 0
    /\ reason = "no_evidence" => items = 0
    /\ reason = "sufficient" => cut = "none"
    /\ cut \in KeptWithoutEvidence => reason = cut
    /\ cut = "budget_exhausted" => reason \in {cut, "no_evidence"}
    /\ pc \in {"decide", "check_floor", "act"} => reason = "none" /\ cut = "none"

\* A claim or comparison is declared sufficient only after a successful look for
\* the other side, unless no tool that could look was left.
CounterFloor ==
    reason = "sufficient" /\ kind \in CounterRequired =>
        probed \/ \A t \in StanceTools : ~CanCall(t)

\* Every way to end with evidence passes the answer layer: written or fallback.
EvidenceIsAnswered == pc = "end" /\ items > 0 /\ HasAnswer => answer # "none"

\* The inductive invariant.
Inv ==
    /\ LoopTypeOK
    /\ StepCount
    /\ CostOvershoot
    /\ HonestReason
    /\ CounterFloor
    /\ EvidenceIsAnswered

\* Whatever the model and the tools do, the loop ends.
Terminates == <>(pc \in {"end", "raised"})
=============================================================================
