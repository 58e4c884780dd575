--------------------------- MODULE RunLimitsProofs ---------------------------
(***************************************************************************)
(* What bounds a run of the agent, proved for every value of the           *)
(* constants: the budget of the search loop (EvidenceLoop), the daily quota*)
(* of its user (AgentQuota) and the breaker in front of what it calls      *)
(* (CircuitBreaker).  The three specifications share no variable; each has *)
(* its part below.                                                         *)
(***************************************************************************)
EXTENDS EvidenceLoop, AgentQuota, CircuitBreaker, FiniteSetTheorems, TLAPS

-----------------------------------------------------------------------------
(***************************************************************************)
(* Proofs about the search loop for every set of tools, every caps and     *)
(* limits and every price of a call: Inv of EvidenceLoop is inductive, and *)
(* the recursion limit derived from the budget is never reached.           *)
(***************************************************************************)

\* arithmetic of one step that ends: s steps before it, i and j iterations
LEMMA EndSteps ==
  \A s, i, j \in Nat : (s = 2 * i \/ s + 1 = 2 * i) /\ i <= j =>
                        s + 1 <= 2 * j + 1 /\ s + 1 <= 2 * j + 2
  OBVIOUS

\* a counter below its cap stays within it when it grows by one
LEMMA BelowCap == \A a, b \in Nat : ~(a >= b) => a + 1 \in Nat /\ a + 1 <= b
  OBVIOUS

\* the initial state of a turn (LoopState, BudgetConsumption) satisfies Inv
LEMMA InitInv == LoopInit => Inv
<1> SUFFICES ASSUME LoopInit PROVE Inv
  OBVIOUS
<1>1. LoopTypeOK
  <2>1. /\ steps \in Nat /\ iterations \in 0..MaxIterations /\ total \in 0..MaxToolCalls
        /\ cost \in Nat /\ items \in 0..MaxItems /\ attempt \in 0..MaxAttempts
    BY Budget DEF LoopInit, MaxAttempts
  <2>2. calls \in [Tools -> Nat] /\ \A t \in Tools : calls[t] <= Cap[t]
    BY Budget DEF LoopInit
  <2>3. /\ pc \in Nodes /\ kind \in Kinds /\ probed \in BOOLEAN /\ reason \in Reasons
        /\ proposal \in Tools \cup {UnknownTool} /\ answer \in {"none", "written", "fallback"}
        /\ cut \in Cuts \cup {"none"}
    BY DEF LoopInit, Nodes, Kinds, Reasons
  <2> QED
    BY <2>1, <2>2, <2>3 DEF LoopTypeOK
<1>2. StepCount /\ CostOvershoot
  BY Budget DEF LoopInit, StepCount, CostOvershoot
<1>3. HonestReason /\ CounterFloor /\ EvidenceIsAnswered
  BY DEF LoopInit, HonestReason, CounterFloor, EvidenceIsAnswered
<1> QED
  BY <1>1, <1>2, <1>3 DEF Inv

\* _finish and the routers: ending keeps Inv from any node that may end, for
\* every reason whose own condition holds
LEMMA EndInv ==
  ASSUME Inv, pc \in {"decide", "check_floor", "act"}, NodeStep,
         NEW r \in Reasons \ {"none", "no_evidence"}, End(r),
         iterations' \in iterations .. MaxIterations,
         pc = "decide" \/ iterations' = iterations,
         kind' \in Kinds,
         r = "sufficient" /\ kind' \in CounterRequired =>
             probed \/ \A t \in StanceTools : ~CanCall(t),
         cut' = IF r = "sufficient" THEN cut ELSE r,
         UNCHANGED <<calls, total, cost, items, probed, proposal, attempt, answer>>
  PROVE  Inv'
<1>1. LoopTypeOK'
  BY Budget
  DEF Inv, LoopTypeOK, NodeStep, End, finish_reason, Nodes, Reasons, KeptWithoutEvidence, Cuts
<1>2. StepCount'
  <2>1. attempt' = 0 /\ pc' \in {"answer", "end"}
    BY DEF Inv, StepCount, End
  <2>2. steps \in Nat /\ iterations \in Nat /\ iterations' \in Nat /\ iterations <= iterations'
    BY <1>1, Budget DEF Inv, LoopTypeOK
  <2>3. steps = 2 * iterations \/ steps + 1 = 2 * iterations
    BY DEF Inv, StepCount
  <2>4. steps' <= 2 * iterations' + 1 /\ steps' <= 2 * iterations' + 2
    BY <2>2, <2>3, EndSteps DEF NodeStep
  <2> QED
    BY <2>1, <2>4 DEF StepCount
<1>3. CostOvershoot'
  BY DEF Inv, CostOvershoot
<1>4. HonestReason'
  BY Budget DEF Inv, LoopTypeOK, HonestReason, End, finish_reason, KeptWithoutEvidence, Reasons
<1>5. CounterFloor'
  BY ToolSets
  DEF Inv, CounterFloor, End, finish_reason, KeptWithoutEvidence, CanCall,
      TotalDenied, CapDenied, CostExhausted
<1>6. EvidenceIsAnswered'
  BY DEF Inv, EvidenceIsAnswered, End
<1> QED
  BY <1>1, <1>2, <1>3, <1>4, <1>5, <1>6 DEF Inv

\* decide: the four ways it ends or goes on, and the exception it lets out
LEMMA DecideStoppedInv == Inv /\ DecideStopped => Inv'
<1> SUFFICES ASSUME Inv, DecideStopped PROVE Inv'
  OBVIOUS
<1>1. PICK r \in {"cancelled", "interrupted"} : CutOff(r)
  BY DEF DecideStopped
<1> QED
  BY <1>1, EndInv, Budget DEF DecideStopped, CutOff, budget, found, Reasons, Inv, LoopTypeOK

\* begin_iteration refuses: the reason is the limit that was hit
LEMMA DecideDeniedInv == Inv /\ DecideDenied => Inv'
  BY EndInv, Budget DEF DecideDenied, CutOff, budget, found, Reasons, Inv, LoopTypeOK

\* the call to the model fails: fatal_error, with nothing spent
LEMMA DecideFailsInv == Inv /\ DecideFails => Inv'
  BY EndInv, Budget DEF DecideFails, CutOff, BeginDenied, found, Reasons, Inv, LoopTypeOK

\* an iteration begins below its limits and is paid for after the call
LEMMA DecideInv == Inv /\ Decide => Inv'
<1> SUFFICES ASSUME Inv, Decide PROVE Inv'
  OBVIOUS
<1>1. PICK k \in 0..MaxCallCost : cost' = cost + k
  BY DEF Decide, record_cost
<1>2. LoopTypeOK'
  BY <1>1, Budget DEF Inv, LoopTypeOK, Decide, NodeStep, BeginDenied, Nodes, found
<1>3. StepCount'
  BY Budget DEF Inv, LoopTypeOK, StepCount, Decide, NodeStep, MaxAttempts
<1>4. CostOvershoot'
  BY <1>1, Budget DEF Inv, LoopTypeOK, CostOvershoot, Decide, BeginDenied, CostExhausted
<1>5. HonestReason' /\ CounterFloor' /\ EvidenceIsAnswered'
  BY DEF Inv, HonestReason, CounterFloor, EvidenceIsAnswered, Decide, found
<1> QED
  BY <1>2, <1>3, <1>4, <1>5 DEF Inv

\* an exception decide does not catch ends the run
LEMMA DecideRaisesInv == Inv /\ DecideRaises => Inv'
<1> SUFFICES ASSUME Inv, DecideRaises PROVE Inv'
  OBVIOUS
<1>1. LoopTypeOK'
  BY Budget DEF Inv, LoopTypeOK, DecideRaises, NodeStep, BeginDenied, Nodes, found
<1>2. StepCount'
  BY Budget DEF Inv, LoopTypeOK, StepCount, DecideRaises, NodeStep
<1>3. CostOvershoot' /\ HonestReason' /\ CounterFloor' /\ EvidenceIsAnswered'
  BY DEF Inv, CostOvershoot, HonestReason, CounterFloor, EvidenceIsAnswered,
         DecideRaises, found
<1> QED
  BY <1>1, <1>2, <1>3 DEF Inv

\* check_floor: the declared kind is the one the floor was decided by
LEMMA CheckFloorInv == Inv /\ CheckFloor => Inv'
<1> SUFFICES ASSUME Inv, CheckFloor PROVE Inv'
  OBVIOUS
<1>1. PICK k \in Kinds :
        /\ kind' = k
        /\ IF items = 0 \/ MissingCounterProbe(k)
             THEN pc' = "decide" /\ UNCHANGED reason
             ELSE End("sufficient")
  BY DEF CheckFloor
<1>2. CASE items = 0 \/ MissingCounterProbe(k)
  <2>1. LoopTypeOK'
    BY <1>1, <1>2 DEF Inv, LoopTypeOK, CheckFloor, NodeStep, Nodes, budget
  <2>2. StepCount'
    BY <1>1, <1>2, Budget DEF Inv, LoopTypeOK, StepCount, CheckFloor, NodeStep, budget
  <2>3. CostOvershoot' /\ HonestReason' /\ CounterFloor' /\ EvidenceIsAnswered'
    BY <1>1, <1>2
    DEF Inv, CostOvershoot, HonestReason, CounterFloor, EvidenceIsAnswered,
        CheckFloor, budget
  <2> QED
    BY <2>1, <2>2, <2>3 DEF Inv
<1>3. CASE ~(items = 0 \/ MissingCounterProbe(k))
  <2>1. End("sufficient")
    BY <1>1, <1>3
  <2>2. kind' \in CounterRequired => probed \/ \A t \in StanceTools : ~CanCall(t)
    BY <1>1, <1>3 DEF MissingCounterProbe
  <2> QED
    BY <1>1, <2>1, <2>2, EndInv, Budget DEF CheckFloor, budget, Reasons, Inv, LoopTypeOK
<1> QED
  BY <1>2, <1>3

\* act: refused, out of budget, or run
LEMMA ActRefusedInv == Inv /\ ActRefused => Inv'
<1> SUFFICES ASSUME Inv, ActRefused PROVE Inv'
  OBVIOUS
<1>1. LoopTypeOK'
  BY DEF Inv, LoopTypeOK, ActRefused, NodeStep, Nodes, budget, found
<1>2. StepCount'
  BY Budget DEF Inv, LoopTypeOK, StepCount, ActRefused, NodeStep, budget
<1>3. CostOvershoot' /\ HonestReason' /\ CounterFloor' /\ EvidenceIsAnswered'
  BY DEF Inv, CostOvershoot, HonestReason, CounterFloor, EvidenceIsAnswered,
         ActRefused, budget, found
<1> QED
  BY <1>1, <1>2, <1>3 DEF Inv

\* the tool-call total is used up
LEMMA ActExhaustedInv == Inv /\ ActExhausted => Inv'
  BY EndInv, Budget DEF ActExhausted, CutOff, budget, found, Reasons, Inv, LoopTypeOK

\* a tool runs: its count stays within its cap, evidence only grows
LEMMA ActRunsInv == Inv /\ ActRuns => Inv'
<1> SUFFICES ASSUME Inv, ActRuns PROVE Inv'
  OBVIOUS
<1>1. PICK k \in 0..MaxCallCost : cost' = cost + k
  BY DEF ActRuns, record_cost
<1>2. items' \in 0..MaxItems /\ probed' \in BOOLEAN
  BY Budget DEF Inv, LoopTypeOK, ActRuns
<1>3. calls' \in [Tools -> Nat] /\ \A t \in Tools : calls'[t] <= Cap[t]
  <2>1. calls' = [calls EXCEPT ![proposal] = calls[proposal] + 1]
    BY DEF ActRuns
  <2>2. proposal \in Tools /\ ~(calls[proposal] >= Cap[proposal])
    BY DEF ActRuns, CanCall, CapDenied
  <2>3. /\ Cap \in [Tools -> Nat] /\ calls \in [Tools -> Nat]
        /\ \A t \in Tools : calls[t] <= Cap[t]
    BY Budget DEF Inv, LoopTypeOK
  <2>4. calls[proposal] + 1 \in Nat /\ calls[proposal] + 1 <= Cap[proposal]
    BY <2>2, <2>3, BelowCap
  <2> QED
    BY <2>1, <2>2, <2>3, <2>4
<1>4. total' \in 0..MaxToolCalls
  BY Budget DEF Inv, LoopTypeOK, ActRuns, CanCall, TotalDenied
<1>5. LoopTypeOK'
  BY <1>1, <1>2, <1>3, <1>4, Budget DEF Inv, LoopTypeOK, ActRuns, NodeStep, Nodes
<1>6. StepCount'
  BY Budget DEF Inv, LoopTypeOK, StepCount, ActRuns, NodeStep
<1>7. CostOvershoot'
  BY <1>1, Budget DEF Inv, LoopTypeOK, CostOvershoot, ActRuns, CanCall, CostExhausted
<1>8. HonestReason' /\ CounterFloor' /\ EvidenceIsAnswered'
  BY DEF Inv, HonestReason, CounterFloor, EvidenceIsAnswered, ActRuns
<1> QED
  BY <1>5, <1>6, <1>7, <1>8 DEF Inv

\* answer: without the model for a turn that lost it
LEMMA AnswerEnteredInv == Inv /\ AnswerEntered => Inv'
<1> SUFFICES ASSUME Inv, AnswerEntered PROVE Inv'
  OBVIOUS
<1>1. LoopTypeOK'
  BY DEF Inv, LoopTypeOK, AnswerEntered, NodeStep, Nodes, budget, found
<1>2. StepCount'
  BY Budget DEF Inv, LoopTypeOK, StepCount, AnswerEntered, NodeStep, budget, MaxAttempts
<1>3. CostOvershoot' /\ HonestReason'
  BY DEF Inv, CostOvershoot, HonestReason, AnswerEntered, budget, found
<1>4. CounterFloor'
  BY DEF Inv, CounterFloor, CanCall, TotalDenied, CapDenied, CostExhausted,
         AnswerEntered, budget, found
<1>5. EvidenceIsAnswered'
  BY DEF Inv, EvidenceIsAnswered, AnswerEntered, found
<1> QED
  BY <1>1, <1>2, <1>3, <1>4, <1>5 DEF Inv

\* an attempt may spend more, which takes tools away from the floor but gives none
LEMMA AnswerAttemptInv == Inv /\ AnswerAttempt => Inv'
<1> SUFFICES ASSUME Inv, AnswerAttempt PROVE Inv'
  OBVIOUS
<1>1. cost' \in Nat /\ cost' >= cost /\ cost' < CostLimit + MaxCallCost
  BY Budget
  DEF Inv, LoopTypeOK, CostOvershoot, AnswerAttempt, record_cost, CostExhausted
<1>2. LoopTypeOK'
  BY <1>1, Budget DEF Inv, LoopTypeOK, StepCount, AnswerAttempt, Nodes, MaxAttempts, found
<1>3. StepCount'
  BY Budget DEF Inv, LoopTypeOK, StepCount, AnswerAttempt, MaxAttempts
<1>4. CostOvershoot' /\ HonestReason'
  BY <1>1 DEF Inv, CostOvershoot, HonestReason, AnswerAttempt, found
<1>5. CounterFloor'
  <2>1. ASSUME NEW t \in StanceTools, ~CanCall(t) PROVE ~CanCall(t)'
    BY <1>1, <2>1, Budget
    DEF Inv, LoopTypeOK, CanCall, TotalDenied, CapDenied, CostExhausted, AnswerAttempt
  <2> QED
    BY <2>1 DEF Inv, CounterFloor, AnswerAttempt, found
<1>6. EvidenceIsAnswered'
  BY DEF Inv, EvidenceIsAnswered, AnswerAttempt, found
<1> QED
  BY <1>2, <1>3, <1>4, <1>5, <1>6 DEF Inv

\* every step of the graph
LEMMA NextInv == Inv /\ [LoopNext]_loopVars => Inv'
<1>1. Inv /\ UNCHANGED loopVars => Inv'
  BY DEF loopVars, Inv, LoopTypeOK, StepCount, CostOvershoot, HonestReason, CounterFloor,
         EvidenceIsAnswered, CanCall, TotalDenied, CapDenied, CostExhausted
<1> QED
  BY <1>1, DecideStoppedInv, DecideDeniedInv, DecideFailsInv, DecideInv,
     DecideRaisesInv, CheckFloorInv, ActRefusedInv, ActExhaustedInv, ActRunsInv,
     AnswerEnteredInv, AnswerAttemptInv
  DEF LoopNext

\* Inv (types, step count, overspending, honest reasons, the counter floor and
\* the answer layer) holds in every state of every loop.
THEOREM LoopInvariance == LoopSpec => []Inv
<1> QED
  BY InitInv, NextInv, PTL DEF LoopSpec

\* Whatever max_iterations is, _recursion_limit of loop.py exceeds the steps any
\* run takes: the graph never fails with GraphRecursionError.
THEOREM RecursionLimitSuffices == LoopSpec => []NeverRecursionError
<1>1. Inv => NeverRecursionError
  BY Budget DEF Inv, LoopTypeOK, StepCount, NeverRecursionError, RecursionLimit, Nodes
<1> QED
  BY <1>1, LoopInvariance, PTL

\* Whatever the limit and the prices, a turn overspends token_cost_limit_usd by
\* less than one call.
THEOREM BoundedOverspend == LoopSpec => []CostOvershoot
<1>1. Inv => CostOvershoot
  BY DEF Inv
<1> QED
  BY <1>1, LoopInvariance, PTL

\* Floor 2 of check_floor: no claim or comparison ends as sufficient without a
\* counter probe while a stance tool could still be called.
THEOREM CounterFloorHolds == LoopSpec => []CounterFloor
<1>1. Inv => CounterFloor
  BY DEF Inv
<1> QED
  BY <1>1, LoopInvariance, PTL

\* The budget's counters stay within their limits, for every tool and every cap
\* (domain/budget.py).
THEOREM LoopTypes == LoopSpec => []LoopTypeOK
<1>1. Inv => LoopTypeOK
  BY DEF Inv
<1> QED
  BY <1>1, LoopInvariance, PTL

\* A turn that was cut off by its budget, its user, the shutdown or a dead model never
\* reports that its evidence is sufficient; and none reports evidence that it does not
\* have, or "no evidence" while it has some (domain/loop.py: _finish).
THEOREM ReasonIsHonest == LoopSpec => []HonestReason
<1>1. Inv => HonestReason
  BY DEF Inv
<1> QED
  BY <1>1, LoopInvariance, PTL

\* A turn that found evidence and ends has an answer, the model's or the fallback
\* (domain/loop.py: _write_answer).
THEOREM EvidenceGetsAnswered == LoopSpec => []EvidenceIsAnswered
<1>1. Inv => EvidenceIsAnswered
  BY DEF Inv
<1> QED
  BY <1>1, LoopInvariance, PTL

-----------------------------------------------------------------------------
(***************************************************************************)
(* The daily quota never costs a user more than it should: NeverOvercharged*)
(* for every number of concurrent requests, every limit and every number   *)
(* of faults.  The invariant that carries it says that the counter is      *)
(* covered by a finite set of charged requests, and that a request which   *)
(* has not yet sent its INCR is not among them; the rest is how the        *)
(* cardinality of that set moves with INCR and DECR.                       *)
(***************************************************************************)

Covered ==
    /\ count \in Int
    /\ IsFiniteSet(live)
    /\ NeverOvercharged

NotYetCharged == \A q \in live : at[q] # "incr"

QuotaInv ==
    /\ Covered
    /\ DOMAIN at = Requests
    /\ live \subseteq Requests
    /\ NotYetCharged

\* A charge: one more request, one more on the counter.
LEMMA ChargeCovered ==
  ASSUME Covered, NEW q, q \notin live, count' = count + 1, live' = live \cup {q}
  PROVE  Covered'
<1>1. IsFiniteSet(live') /\ Cardinality(live') = Cardinality(live) + 1
  BY FS_AddElement DEF Covered
<1>2. Cardinality(live) \in Nat
  BY FS_CardinalityType DEF Covered
<1> QED
  BY <1>1, <1>2 DEF Covered, NeverOvercharged

\* A refund: the counter goes down by one and the set by at most one, also when the
\* charge was lost with its window or never made.
LEMMA RefundCovered ==
  ASSUME Covered, NEW q, count' = count - 1, live' = live \ {q}
  PROVE  Covered'
<1>1. /\ IsFiniteSet(live')
      /\ Cardinality(live') = IF q \in live THEN Cardinality(live) - 1 ELSE Cardinality(live)
  BY FS_RemoveElement DEF Covered
<1>2. Cardinality(live) \in Nat
  BY FS_CardinalityType DEF Covered
<1> QED
  BY <1>1, <1>2 DEF Covered, NeverOvercharged

\* A key that is gone counts nothing.
LEMMA GoneCovered ==
  ASSUME Covered, count' = 0, live' = live \/ live' = {}
  PROVE  Covered'
<1>1. IsFiniteSet(live')
  BY FS_EmptySet DEF Covered
<1>2. Cardinality(live') \in Nat
  BY <1>1, FS_CardinalityType
<1> QED
  BY <1>1, <1>2 DEF Covered, NeverOvercharged

\* A step that leaves the counter and the charges alone.
LEMMA SameCovered ==
  ASSUME Covered, count' = count, live' = live
  PROVE  Covered'
BY DEF Covered, NeverOvercharged

\* Where a step sends its request, NotYetCharged needs only that it is not "incr".
LEMMA GotoKeeps ==
  ASSUME DOMAIN at = Requests, NotYetCharged, live \subseteq Requests,
         NEW q \in Requests, NEW step, step # "incr", Goto(q, step),
         live' \subseteq live \cup {q}
  PROVE  (DOMAIN at = Requests)' /\ (live \subseteq Requests)' /\ NotYetCharged'
<1>1. /\ DOMAIN at' = Requests
      /\ \A r \in Requests : at'[r] = IF r = q THEN step ELSE at[r]
  BY DEF Goto
<1> QED
  BY <1>1 DEF NotYetCharged

\* Every command and every decision of a request keeps the invariant.
LEMMA StepKeeps ==
  ASSUME QuotaInv, NEW q \in Requests, Step(q)
  PROVE  QuotaInv'
<1>1. CASE Incr(q)
  <2>1. q \notin live
    BY <1>1 DEF Incr, QuotaInv, NotYetCharged
  <2>2. Covered'
    BY <1>1, <2>1, ChargeCovered DEF Incr, QuotaInv
  <2>3. PICK step : step # "incr" /\ Goto(q, step)
    BY <1>1 DEF Incr
  <2> QED
    BY <1>1, <2>2, <2>3, GotoKeeps DEF Incr, QuotaInv
<1>2. CASE SetExpiry(q) \/ Accept(q) \/ RefuseWithRefund(q) \/ RefuseWithoutRefund(q)
  <2>1. Covered'
    BY <1>2, SameCovered DEF SetExpiry, Accept, RefuseWithRefund, RefuseWithoutRefund, key, QuotaInv
  <2>2. PICK step : step # "incr" /\ Goto(q, step)
    BY <1>2 DEF SetExpiry, Accept, RefuseWithRefund, RefuseWithoutRefund
  <2>3. live' = live
    BY <1>2 DEF SetExpiry, Accept, RefuseWithRefund, RefuseWithoutRefund
  <2> QED
    BY <2>1, <2>2, <2>3, GotoKeeps DEF QuotaInv
<1>3. CASE Decr(q)
  <2>1. Covered'
    BY <1>3, RefundCovered DEF Decr, QuotaInv
  <2>2. PICK step : step # "incr" /\ Goto(q, step)
    BY <1>3 DEF Decr
  <2> QED
    BY <1>3, <2>1, <2>2, GotoKeeps DEF Decr, QuotaInv
<1>4. CASE Delete(q)
  <2>1. Covered'
    BY <1>4, GoneCovered DEF Delete, QuotaInv
  <2> QED
    BY <1>4, <2>1, GotoKeeps DEF Delete, QuotaInv
<1> QED
  BY <1>1, <1>2, <1>3, <1>4 DEF Step

\* So does a failing command, a lost answer and the death of a process.
LEMMA FailKeeps ==
  ASSUME QuotaInv, NEW q \in Requests, Fail(q)
  PROVE  QuotaInv'
<1>1. CASE CommandRaises(q) \/ ProcessDies(q)
  <2>1. Covered'
    BY <1>1, SameCovered DEF CommandRaises, ProcessDies, key, QuotaInv
  <2>2. PICK step : step # "incr" /\ Goto(q, step)
    BY <1>1 DEF CommandRaises, ProcessDies
  <2>3. live' = live
    BY <1>1 DEF CommandRaises, ProcessDies
  <2> QED
    BY <2>1, <2>2, <2>3, GotoKeeps DEF QuotaInv
<1>2. ASSUME AnswerLost(q), at[q] = "incr"
      PROVE  QuotaInv'
  <2>1. q \notin live
    BY <1>2 DEF QuotaInv, NotYetCharged
  <2>2. count' = count + 1 /\ live' = live \cup {q} /\ Goto(q, "granted")
    BY <1>2 DEF AnswerLost
  <2>3. Covered'
    BY <2>1, <2>2, ChargeCovered DEF QuotaInv
  <2> QED
    BY <2>2, <2>3, GotoKeeps DEF QuotaInv
<1>3. ASSUME AnswerLost(q), at[q] = "decr"
      PROVE  QuotaInv'
  <2>1. count' = count - 1 /\ live' = live \ {q} /\ Goto(q, "refunded")
    BY <1>3 DEF AnswerLost
  <2>2. Covered'
    BY <2>1, RefundCovered DEF QuotaInv
  <2> QED
    BY <2>1, <2>2, GotoKeeps DEF QuotaInv
<1> QED
  BY <1>1, <1>2, <1>3 DEF Fail, AnswerLost

\* The invariant holds along every behaviour.
THEOREM QuotaInvariance == QuotaSpec => []QuotaInv
<1>1. QuotaInit => QuotaInv
  <2> SUFFICES ASSUME QuotaInit PROVE QuotaInv
    OBVIOUS
  <2>1. IsFiniteSet(live) /\ Cardinality(live) = 0
    BY FS_EmptySet DEF QuotaInit
  <2> QED
    BY <2>1 DEF QuotaInit, QuotaInv, Covered, NeverOvercharged, NotYetCharged
<1>2. QuotaInv /\ [QuotaNext]_quotaVars => QuotaInv'
  <2> SUFFICES ASSUME QuotaInv, [QuotaNext]_quotaVars PROVE QuotaInv'
    OBVIOUS
  <2>1. CASE WindowExpires
    <3>1. Covered'
      BY <2>1, GoneCovered DEF WindowExpires, QuotaInv
    <3> QED
      BY <2>1, <3>1 DEF WindowExpires, QuotaInv, NotYetCharged
  <2>2. CASE UNCHANGED quotaVars
    <3>1. Covered'
      BY <2>2, SameCovered DEF quotaVars, QuotaInv
    <3> QED
      BY <2>2, <3>1 DEF quotaVars, QuotaInv, NotYetCharged
  <2> QED
    BY <2>1, <2>2, StepKeeps, FailKeeps DEF QuotaNext
<1> QED
  BY <1>1, <1>2, PTL DEF QuotaSpec

\* However many requests of a user race in however many processes, and whichever
\* Redis commands fail, the counter of the quota is at most the number of requests
\* charged in the current window and not refunded.
THEOREM UserIsNeverOvercharged == QuotaSpec => []NeverOvercharged
<1>1. QuotaInv => NeverOvercharged
  BY DEF QuotaInv, Covered
<1> QED
  BY <1>1, QuotaInvariance, PTL

-----------------------------------------------------------------------------
\* Requests whose DECR may have been executed.  Each is one request, so the counter
\* falls no further below zero than their number, however windows expire in between.
Refunding == {q \in Requests : at[q] \in {"delete", "refunded", "gone"}}

PcTypes == at \in [Requests -> {"incr", "expire", "granted", "decr", "delete"} \cup Outcomes]

KeyTypes ==
    /\ exists \in BOOLEAN /\ ttl \in BOOLEAN
    /\ ttl => exists
    /\ ~exists => count = 0

Floor == -Cardinality(Refunding) <= count

FloorInv == PcTypes /\ KeyTypes /\ Floor /\ faults \in 0..MaxFaults

\* Parts of a finite set of requests are finite and no larger than it.
LEMMA PartsOfRequests ==
  ASSUME NEW S, S \subseteq Requests
  PROVE  IsFiniteSet(S) /\ Cardinality(S) \in Nat /\ Cardinality(S) <= Cardinality(Requests)
BY QuotaBounds, FS_Subset, FS_CardinalityType

\* A request never returns from its refund.
LEMMA RefundingGrows ==
  ASSUME PcTypes, NEW q \in Requests, NEW step, Goto(q, step),
         q \in Refunding => step \in {"delete", "refunded", "gone"}
  PROVE  /\ Refunding' = IF step \in {"delete", "refunded", "gone"}
                         THEN Refunding \cup {q} ELSE Refunding
         /\ DOMAIN at' = Requests
BY DEF PcTypes, Goto, Refunding

\* The floor stays where the counter does not fall.
LEMMA FloorKept ==
  ASSUME Floor, count \in Int, count' \in Int, count' >= count \/ count' = 0,
         Refunding \subseteq Refunding', Refunding' \subseteq Requests
  PROVE  Floor'
<1>1. /\ IsFiniteSet(Refunding') /\ Cardinality(Refunding') \in Nat
      /\ Cardinality(Refunding) \in Nat
  BY PartsOfRequests DEF Refunding
<1>2. Cardinality(Refunding) <= Cardinality(Refunding')
  BY <1>1, FS_Subset
<1> QED
  BY <1>1, <1>2 DEF Floor

\* A DECR brings one more request into the refund.
LEMMA FloorFalls ==
  ASSUME Floor, count \in Int, count' = count - 1, NEW q \in Requests, q \notin Refunding,
         Refunding' = Refunding \cup {q}
  PROVE  Floor'
<1>1. IsFiniteSet(Refunding) /\ Cardinality(Refunding) \in Nat
  BY PartsOfRequests DEF Refunding
<1>2. Cardinality(Refunding') = Cardinality(Refunding) + 1
  BY <1>1, FS_AddElement
<1> QED
  BY <1>1, <1>2 DEF Floor

\* Where each command of a request sends it.
LEMMA PcKept ==
  ASSUME PcTypes, NEW q \in Requests,
         NEW step \in {"expire", "granted", "decr", "delete"} \cup Outcomes, Goto(q, step)
  PROVE  PcTypes'
BY DEF PcTypes, Goto

\* Commands and decisions of a request keep the floor and the types.
LEMMA StepTypes ==
  ASSUME FloorInv, QuotaInv, NEW q \in Requests, Step(q)
  PROVE  FloorInv'
<1>0. count \in Int /\ faults' = faults
  BY DEF QuotaInv, Covered, Step, Incr, SetExpiry, Accept, RefuseWithRefund, RefuseWithoutRefund,
         Decr, Delete
<1>a. Refunding \subseteq Requests /\ Refunding' \subseteq Requests
  BY DEF Refunding
<1>b. q \in Refunding <=> at[q] \in {"delete", "refunded", "gone"}
  BY DEF Refunding
<1>1. CASE Incr(q)
  <2>1. PICK step \in {"expire", "granted", "denied"} : Goto(q, step)
    BY <1>1 DEF Incr
  <2>2. PcTypes' /\ Refunding' = Refunding
    BY <1>1, <1>b, <2>1, PcKept, RefundingGrows DEF FloorInv, Incr, Outcomes
  <2>3. Floor'
    BY <1>0, <1>1, <1>a, <2>2, FloorKept DEF FloorInv, Incr
  <2>4. KeyTypes'
    BY <1>1, Zenon DEF FloorInv, KeyTypes, Incr
  <2> QED
    BY <1>0, <2>2, <2>3, <2>4 DEF FloorInv
<1>2. CASE SetExpiry(q) \/ Accept(q) \/ RefuseWithRefund(q) \/ RefuseWithoutRefund(q)
  <2>1. PICK step \in {"granted", "accepted", "decr", "refused"} : Goto(q, step)
    BY <1>2 DEF SetExpiry, Accept, RefuseWithRefund, RefuseWithoutRefund
  <2>2. at[q] \in {"expire", "granted"} /\ count' = count
    BY <1>2 DEF SetExpiry, Accept, RefuseWithRefund, RefuseWithoutRefund, key
  <2>3. PcTypes' /\ Refunding' = Refunding
    BY <1>b, <2>1, <2>2, PcKept, RefundingGrows DEF FloorInv, Outcomes
  <2>4. Floor'
    BY <1>0, <1>a, <2>2, <2>3, FloorKept DEF FloorInv
  <2>5. exists' = exists /\ (ttl' = exists \/ ttl' = ttl)
    <3>1. CASE SetExpiry(q)
      BY <3>1, Zenon DEF SetExpiry
    <3>2. CASE Accept(q) \/ RefuseWithRefund(q) \/ RefuseWithoutRefund(q)
      BY <3>2 DEF Accept, RefuseWithRefund, RefuseWithoutRefund, key
    <3> QED
      BY <1>2, <3>1, <3>2, Zenon
  <2>6. KeyTypes'
    <3>1. KeyTypes /\ exists' = exists /\ count' = count
      BY <2>2, <2>5 DEF FloorInv
    <3>2. CASE ttl' = exists
      BY <3>1, <3>2, Zenon DEF KeyTypes
    <3>3. CASE ttl' = ttl
      BY <3>1, <3>3, Zenon DEF KeyTypes
    <3> QED
      BY <2>5, <3>2, <3>3, Zenon
  <2> QED
    BY <1>0, <2>3, <2>4, <2>6 DEF FloorInv
<1>3. CASE Decr(q)
  <2>1. PICK step \in {"delete", "refunded"} : Goto(q, step)
    BY <1>3 DEF Decr
  <2>2. q \notin Refunding /\ PcTypes' /\ Refunding' = Refunding \cup {q}
    BY <1>3, <1>b, <2>1, PcKept, RefundingGrows DEF FloorInv, Decr, Outcomes
  <2>3. Floor'
    BY <1>0, <1>3, <2>2, FloorFalls DEF FloorInv, Decr
  <2>4. KeyTypes'
    BY <1>3, Zenon DEF FloorInv, KeyTypes, Decr
  <2> QED
    BY <1>0, <2>2, <2>3, <2>4 DEF FloorInv
<1>4. CASE Delete(q)
  <2>1. PcTypes' /\ Refunding' = Refunding \cup {q}
    BY <1>4, <1>b, PcKept, RefundingGrows DEF FloorInv, Delete, Outcomes
  <2>2. Floor'
    BY <1>0, <1>4, <1>a, <2>1, FloorKept DEF FloorInv, Delete
  <2>3. KeyTypes'
    BY <1>4, Zenon DEF KeyTypes, Delete
  <2> QED
    BY <1>0, <2>1, <2>2, <2>3 DEF FloorInv
<1> QED
  BY <1>1, <1>2, <1>3, <1>4 DEF Step

\* So does a failing command, a lost answer and the death of a process.
LEMMA FailTypes ==
  ASSUME FloorInv, QuotaInv, NEW q \in Requests, Fail(q)
  PROVE  FloorInv'
<1>0. count \in Int
  BY DEF QuotaInv, Covered
<1>f. faults' \in 0..MaxFaults
  BY QuotaBounds DEF FloorInv, Fail, CommandRaises, AnswerLost, ProcessDies, Fault
<1>a. Refunding \subseteq Requests /\ Refunding' \subseteq Requests
  BY DEF Refunding
<1>b. q \in Refunding <=> at[q] \in {"delete", "refunded", "gone"}
  BY DEF Refunding
<1>1. CASE CommandRaises(q) \/ ProcessDies(q)
  <2>1. PICK step \in {"granted", "refunded", "gone"} :
            Goto(q, step) /\ (step = "granted" => at[q] \in {"incr", "expire"})
    BY <1>1 DEF CommandRaises, ProcessDies
  <2>2. UNCHANGED <<exists, count, ttl>>
    BY <1>1 DEF CommandRaises, ProcessDies, key
  <2>3. PcTypes' /\ Refunding \subseteq Refunding'
    BY <1>b, <2>1, PcKept, RefundingGrows DEF FloorInv, Outcomes
  <2>4. Floor'
    BY <1>0, <1>a, <2>2, <2>3, FloorKept DEF FloorInv
  <2>5. KeyTypes'
    BY <2>2, Zenon DEF FloorInv, KeyTypes
  <2> QED
    BY <1>f, <2>3, <2>4, <2>5 DEF FloorInv
<1>2. ASSUME AnswerLost(q), at[q] = "incr"
      PROVE  FloorInv'
  <2>1. count' = count + 1 /\ Goto(q, "granted")
    BY <1>2 DEF AnswerLost
  <2>2. PcTypes' /\ Refunding' = Refunding
    BY <1>2, <1>b, <2>1, PcKept, RefundingGrows DEF FloorInv
  <2>3. Floor'
    BY <1>0, <1>a, <2>1, <2>2, FloorKept DEF FloorInv
  <2>4. KeyTypes'
    BY <1>2, Zenon DEF FloorInv, KeyTypes, AnswerLost
  <2> QED
    BY <1>f, <2>2, <2>3, <2>4 DEF FloorInv
<1>3. ASSUME AnswerLost(q), at[q] = "decr"
      PROVE  FloorInv'
  <2>1. count' = count - 1 /\ Goto(q, "refunded")
    BY <1>3 DEF AnswerLost
  <2>2. q \notin Refunding /\ PcTypes' /\ Refunding' = Refunding \cup {q}
    BY <1>3, <1>b, <2>1, PcKept, RefundingGrows DEF FloorInv, Outcomes
  <2>3. Floor'
    BY <1>0, <2>1, <2>2, FloorFalls DEF FloorInv
  <2>4. KeyTypes'
    BY <1>3, Zenon DEF FloorInv, KeyTypes, AnswerLost
  <2> QED
    BY <1>f, <2>2, <2>3, <2>4 DEF FloorInv
<1> QED
  BY <1>1, <1>2, <1>3 DEF Fail, AnswerLost

\* Whatever expires, is refunded twice or is lost, the counter stays between minus and plus
\* the number of requests, and a key that is gone has neither a value nor a TTL.
THEOREM QuotaTypes == QuotaSpec => []QuotaTypeOK
<1>1. QuotaInit => FloorInv
  <2> SUFFICES ASSUME QuotaInit PROVE FloorInv
    OBVIOUS
  <2>1. PcTypes /\ faults \in 0..MaxFaults
    BY QuotaBounds DEF QuotaInit, PcTypes
  <2>2. KeyTypes
    BY Zenon DEF QuotaInit, KeyTypes
  <2>3. Floor
    BY PartsOfRequests DEF QuotaInit, Floor, Refunding
  <2> QED
    BY <2>1, <2>2, <2>3 DEF FloorInv
<1>2. FloorInv /\ QuotaInv /\ [QuotaNext]_quotaVars => FloorInv'
  <2> SUFFICES ASSUME FloorInv, QuotaInv, [QuotaNext]_quotaVars PROVE FloorInv'
    OBVIOUS
  <2>1. CASE WindowExpires
    <3>1. count \in Int /\ count' = 0 /\ Refunding' = Refunding /\ PcTypes' /\ faults' = faults
      BY <2>1 DEF WindowExpires, QuotaInv, Covered, Refunding, FloorInv, PcTypes
    <3>2. Floor'
      BY <3>1, FloorKept DEF FloorInv, Refunding
    <3>3. KeyTypes'
      BY <2>1, Zenon DEF WindowExpires, KeyTypes
    <3> QED
      BY <3>1, <3>2, <3>3 DEF FloorInv
  <2>2. CASE UNCHANGED quotaVars
    BY <2>2, Zenon DEF quotaVars, FloorInv, PcTypes, KeyTypes, Floor, Refunding
  <2> QED
    BY <2>1, <2>2, StepTypes, FailTypes DEF QuotaNext
<1>3. FloorInv /\ QuotaInv => QuotaTypeOK
  <2> SUFFICES ASSUME FloorInv, QuotaInv PROVE QuotaTypeOK
    OBVIOUS
  <2>1. /\ Cardinality(live) \in Nat /\ Cardinality(live) <= Cardinality(Requests)
        /\ Cardinality(Refunding) \in Nat /\ Cardinality(Refunding) <= Cardinality(Requests)
        /\ Cardinality(Requests) \in Nat
    BY PartsOfRequests DEF QuotaInv, Refunding
  <2>2. count \in -Cardinality(Requests) .. Cardinality(Requests)
    BY <2>1 DEF FloorInv, Floor, QuotaInv, Covered, NeverOvercharged
  <2> QED
    BY <2>2, Zenon DEF FloorInv, PcTypes, KeyTypes, QuotaInv, QuotaTypeOK
<1> QED
  BY <1>1, <1>2, <1>3, QuotaInvariance, PTL DEF QuotaSpec

-----------------------------------------------------------------------------
(***************************************************************************)
(* SingleProbe and ClosedByFreshProbe for every set of callers, threshold  *)
(* and recovery time.  What carries both is where the permit of the latest *)
(* probe can be: it is out only while the circuit is half open, it was     *)
(* handed out after the circuit last opened, its age is the age of the     *)
(* slot, and every other probe that is out has outlived its slot.          *)
(***************************************************************************)

Out(c) == permit[c] = "probe" /\ c \in latest

Types ==
    /\ permit \in [Callers -> {"none", "call", "probe"}]
    /\ age \in [Callers -> Nat]
    /\ probe_age \in Nat

LatestInHalfOpen == \A c \in Callers : Out(c) => state = "HALF-OPEN" /\ c \in asked

LatestHoldsSlot == \A c \in Callers : Out(c) => probe_in_flight /\ age[c] = probe_age

OthersExpired == \A c \in Callers : permit[c] = "probe" /\ c \notin latest => age[c] >= Recovery

OneLatest == \A c, d \in latest : c = d

ProbeInv == Types /\ LatestInHalfOpen /\ LatestHoldsSlot /\ OthersExpired /\ OneLatest

\* The invariant leaves one probe that has not used up its time: the latest.
LEMMA InvSingleProbe ==
  ASSUME ProbeInv
  PROVE  SingleProbe
<1> SUFFICES ASSUME NEW c \in Callers, NEW d \in Callers,
                    permit[c] = "probe", permit[d] = "probe", age[c] < Recovery, age[d] < Recovery
             PROVE  c = d
  BY DEF SingleProbe
<1>1. age[c] \in Nat /\ age[d] \in Nat /\ Recovery \in Nat
  BY BreakerBounds DEF ProbeInv, Types
<1>2. c \in latest /\ d \in latest
  BY <1>1 DEF ProbeInv, OthersExpired
<1> QED
  BY <1>2 DEF ProbeInv, OneLatest

\* A call admitted or returned while the slot, the state and the latest probe stay.
LEMMA CallKeeps ==
  ASSUME ProbeInv, NEW c \in Callers, NEW granted \in {"none", "call"},
         permit' = [permit EXCEPT ![c] = granted], age' = [age EXCEPT ![c] = 0],
         UNCHANGED <<probe_age, probe_in_flight, latest>>,
         state' = state, asked \subseteq asked'
  PROVE  ProbeInv'
<1>1. /\ \A d \in Callers : permit'[d] = IF d = c THEN granted ELSE permit[d]
      /\ \A d \in Callers : age'[d] = IF d = c THEN 0 ELSE age[d]
  BY DEF ProbeInv, Types
<1>2. Types'
  BY DEF ProbeInv, Types
<1>3. \A d \in Callers : permit'[d] = "probe" => permit[d] = "probe" /\ age'[d] = age[d]
  BY <1>1
<1>4. LatestInHalfOpen' /\ LatestHoldsSlot'
  BY <1>3 DEF ProbeInv, LatestInHalfOpen, LatestHoldsSlot, Out
<1>5. OthersExpired' /\ OneLatest'
  BY <1>3 DEF ProbeInv, OthersExpired, OneLatest
<1> QED
  BY <1>2, <1>4, <1>5 DEF ProbeInv

\* When the slot goes to c, every probe that is out has outlived its own.
LEMMA ProbeKeeps ==
  ASSUME ProbeInv, NEW c \in Callers, AcquireProbe(c)
  PROVE  ProbeInv'
<1>1. /\ \A d \in Callers : permit'[d] = IF d = c THEN "probe" ELSE permit[d]
      /\ \A d \in Callers : age'[d] = IF d = c THEN 0 ELSE age[d]
  BY DEF ProbeInv, Types, AcquireProbe, Admit
<1>2. Types'
  BY DEF ProbeInv, Types, AcquireProbe, Admit
<1>3. latest' = {c} /\ state' = "HALF-OPEN" /\ c \in asked' /\ probe_age' = 0
  BY DEF AcquireProbe, Admit
<1>4. probe_in_flight'
  BY DEF AcquireProbe
<1>5. ASSUME NEW d \in Callers, d # c, permit[d] = "probe"
      PROVE  age[d] >= Recovery
  <2>1. CASE d \in latest
    <3>1. Out(d)
      BY <1>5, <2>1 DEF Out
    <3>2. state = "HALF-OPEN" /\ probe_in_flight /\ age[d] = probe_age
      BY <3>1 DEF ProbeInv, LatestInHalfOpen, LatestHoldsSlot
    <3>3. SlotFree
      BY <3>2 DEF AcquireProbe, Recovered
    <3> QED
      BY <3>2, <3>3 DEF SlotFree
  <2>2. CASE d \notin latest
    BY <1>5, <2>2 DEF ProbeInv, OthersExpired
  <2> QED
    BY <2>1, <2>2
<1>6. LatestInHalfOpen' /\ LatestHoldsSlot' /\ OneLatest'
  BY <1>1, <1>3, <1>4 DEF LatestInHalfOpen, LatestHoldsSlot, OneLatest, Out
<1>7. OthersExpired'
  BY <1>1, <1>3, <1>5 DEF OthersExpired
<1> QED
  BY <1>2, <1>6, <1>7 DEF ProbeInv

\* When the latest probe returns, no probe is out that could still decide.
LEMMA VerdictKeeps ==
  ASSUME ProbeInv, NEW c \in Callers, permit[c] = "probe", c \in latest, Return(c),
         UNCHANGED <<probe_age, latest>>
  PROVE  ProbeInv'
<1>1. /\ \A d \in Callers : permit'[d] = IF d = c THEN "none" ELSE permit[d]
      /\ \A d \in Callers : age'[d] = IF d = c THEN 0 ELSE age[d]
  BY DEF ProbeInv, Types, Return
<1>2. Types'
  BY DEF ProbeInv, Types, Return
<1>3. \A d \in Callers : ~Out(d)'
  BY <1>1 DEF ProbeInv, OneLatest, Out
<1>4. LatestInHalfOpen' /\ LatestHoldsSlot'
  BY <1>3 DEF LatestInHalfOpen, LatestHoldsSlot, Out
<1>5. OthersExpired' /\ OneLatest'
  BY <1>1 DEF ProbeInv, OthersExpired, OneLatest
<1> QED
  BY <1>2, <1>4, <1>5 DEF ProbeInv

\* The failure that trips the circuit comes in while no probe is out.
LEMMA TripKeeps ==
  ASSUME ProbeInv, NEW c \in Callers, state = "CLOSED", Return(c),
         UNCHANGED <<probe_age, latest>>
  PROVE  ProbeInv'
<1>1. /\ \A d \in Callers : permit'[d] = IF d = c THEN "none" ELSE permit[d]
      /\ \A d \in Callers : age'[d] = IF d = c THEN 0 ELSE age[d]
  BY DEF ProbeInv, Types, Return
<1>2. Types'
  BY DEF ProbeInv, Types, Return
<1>3. \A d \in Callers : ~Out(d)'
  <2>1. \A d \in Callers : ~Out(d)
    BY DEF ProbeInv, LatestInHalfOpen
  <2> QED
    BY <1>1, <2>1 DEF Out
<1>4. LatestInHalfOpen' /\ LatestHoldsSlot'
  BY <1>3 DEF LatestInHalfOpen, LatestHoldsSlot, Out
<1>5. OthersExpired' /\ OneLatest'
  BY <1>1 DEF ProbeInv, OthersExpired, OneLatest
<1> QED
  BY <1>2, <1>4, <1>5 DEF ProbeInv

\* Time makes the slot and the permit of the latest probe older together.
LEMMA TickKeeps ==
  ASSUME ProbeInv, Tick
  PROVE  ProbeInv'
<1>1. UNCHANGED <<state, latest, permit, asked>>
  BY DEF Tick
<1>2. probe_in_flight' = probe_in_flight
  BY DEF Tick
<1>3. /\ probe_age' = Capped(probe_age + 1, Recovery)
      /\ \A c \in Callers : age'[c] = Capped(age[c] + 1, Recovery)
      /\ age' = [c \in Callers |-> Capped(age[c] + 1, Recovery)]
  BY DEF Tick
<1>4. \A n \in Nat : Capped(n + 1, Recovery) \in Nat /\ (n >= Recovery => Capped(n + 1, Recovery) >= Recovery)
  BY BreakerBounds DEF Capped
<1>5. Types'
  <2>1. age' \in [Callers -> Nat]
    BY <1>3, <1>4 DEF ProbeInv, Types
  <2>2. probe_age' \in Nat
    BY <1>3, <1>4 DEF ProbeInv, Types
  <2> QED
    BY <1>1, <2>1, <2>2 DEF ProbeInv, Types
<1>6. \A c \in Callers : Out(c)' <=> Out(c)
  BY <1>1 DEF Out
<1>7. LatestInHalfOpen'
  BY <1>1, <1>6 DEF ProbeInv, LatestInHalfOpen
<1>8. LatestHoldsSlot'
  <2> SUFFICES ASSUME NEW c \in Callers, Out(c)
               PROVE  probe_in_flight' /\ age'[c] = probe_age'
    BY <1>6 DEF LatestHoldsSlot
  <2>1. probe_in_flight /\ age[c] = probe_age
    BY DEF ProbeInv, LatestHoldsSlot
  <2>2. age'[c] = probe_age'
    BY <2>1, <1>3
  <2> QED
    BY <2>1, <2>2, <1>2
<1>9. OthersExpired' /\ OneLatest'
  BY <1>1, <1>3, <1>4 DEF ProbeInv, Types, OthersExpired, OneLatest
<1> QED
  BY <1>5, <1>7, <1>8, <1>9 DEF ProbeInv

\* Every completion keeps the invariant.
LEMMA CompleteKeeps ==
  ASSUME ProbeInv, NEW c \in Callers, Complete(c)
  PROVE  ProbeInv'
<1>1. CASE LateProbe(c) \/ CallSuccess(c) \/ CallNeutral(c)
  BY <1>1, CallKeeps DEF LateProbe, CallSuccess, CallNeutral, Return
<1>2. CASE ProbeSuccess(c) \/ ProbeFailure(c) \/ ProbeNeutral(c)
  BY <1>2, VerdictKeeps DEF ProbeSuccess, ProbeFailure, ProbeNeutral, ProbeIsCurrent
<1>3. CASE CallFailure(c)
  <2>1. CASE state = "CLOSED"
    BY <1>3, <2>1, TripKeeps DEF CallFailure
  <2>2. CASE state # "CLOSED"
    BY <1>3, <2>2, CallKeeps DEF CallFailure, Return
  <2> QED
    BY <2>1, <2>2
<1> QED
  BY <1>1, <1>2, <1>3 DEF Complete

\* The invariant holds along every behaviour.
THEOREM ProbeInvariance == BreakerSpec => []ProbeInv
<1>1. BreakerInit => ProbeInv
  BY DEF BreakerInit, ProbeInv, Types, LatestInHalfOpen, LatestHoldsSlot, OthersExpired, OneLatest, Out
<1>2. ProbeInv /\ [BreakerNext]_breakerVars => ProbeInv'
  <2> SUFFICES ASSUME ProbeInv, [BreakerNext]_breakerVars PROVE ProbeInv'
    OBVIOUS
  <2>1. ASSUME NEW c \in Callers, AcquireCall(c) PROVE ProbeInv'
    BY <2>1, CallKeeps DEF AcquireCall, Admit
  <2>2. CASE UNCHANGED breakerVars
    BY <2>2 DEF breakerVars, ProbeInv, Types, LatestInHalfOpen, LatestHoldsSlot, OthersExpired, OneLatest, Out
  <2> QED
    BY <2>1, <2>2, TickKeeps, ProbeKeeps, CompleteKeeps DEF BreakerNext, Acquire
<1> QED
  BY <1>1, <1>2, PTL DEF BreakerSpec

\* At any time one probe at most has not used up its time, whatever Callers, Threshold
\* and Recovery are.
THEOREM OneProbeAtATime == BreakerSpec => []SingleProbe
<1>1. ProbeInv => SingleProbe
  BY InvSingleProbe
<1> QED
  BY <1>1, ProbeInvariance, PTL

\* Only a probe sent out after the circuit last opened closes it.
THEOREM RecoveryByProbe == BreakerSpec => ClosedByFreshProbe
<1> DEFINE Closes == state # "CLOSED" /\ state' = "CLOSED"
           ByProbe == \E c \in asked : permit[c] = "probe" /\ permit'[c] = "none"
<1>1. ASSUME ProbeInv, NEW c \in Callers, ProbeSuccess(c)
      PROVE  ByProbe
  <2>1. Out(c)
    BY <1>1 DEF ProbeSuccess, ProbeIsCurrent, Out
  <2>2. c \in asked /\ permit[c] = "probe"
    BY <1>1, <2>1 DEF ProbeInv, LatestInHalfOpen, Out
  <2>3. permit'[c] = "none"
    BY <1>1 DEF ProbeSuccess, Return, ProbeInv, Types
  <2> QED
    BY <2>2, <2>3
<1>2. ASSUME BreakerNext, Closes
      PROVE  \E c \in Callers : ProbeSuccess(c)
  BY <1>2 DEF BreakerNext, Tick, Acquire, AcquireCall, AcquireProbe, Complete, LateProbe, ProbeFailure,
              ProbeNeutral, CallSuccess, CallNeutral, CallFailure, Open
<1>3. ProbeInv /\ [BreakerNext]_breakerVars => [Closes => ByProbe]_breakerVars
  BY <1>1, <1>2
<1> QED
  BY <1>3, ProbeInvariance, PTL DEF BreakerSpec, ClosedByFreshProbe

-----------------------------------------------------------------------------
\* The failures counted, without which the count of an opened circuit is not inductive:
\* a half-open circuit still has the count that opened it.
CountInv == BreakerTypeOK /\ (state = "HALF-OPEN" => failure_count = Threshold)

\* A step that hands out or takes back a permit keeps the clocks and the permits typed.
LEMMA PermitTypes ==
  ASSUME BreakerTypeOK, NEW c \in Callers, NEW granted \in {"none", "call", "probe"},
         permit' = [permit EXCEPT ![c] = granted], age' = [age EXCEPT ![c] = 0]
  PROVE  /\ permit' \in [Callers -> {"none", "call", "probe"}]
         /\ age' \in [Callers -> 0..Recovery]
BY BreakerBounds DEF BreakerTypeOK

\* Handing out a permit keeps the types.
LEMMA AcquireTypes ==
  ASSUME CountInv, NEW c \in Callers, Acquire(c)
  PROVE  CountInv'
<1>1. /\ permit' \in [Callers -> {"none", "call", "probe"}]
      /\ age' \in [Callers -> 0..Recovery]
  BY PermitTypes DEF CountInv, Acquire, AcquireCall, AcquireProbe, Admit
<1>2. /\ state' \in {"CLOSED", "OPEN", "HALF-OPEN"}
      /\ failure_count' \in 0..Threshold
      /\ since' \in 0..(Recovery + 1)
      /\ probe_age' \in 0..Recovery
      /\ state' = "CLOSED" => failure_count' < Threshold
      /\ state' \in {"OPEN", "HALF-OPEN"} => failure_count' = Threshold
  BY BreakerBounds DEF CountInv, BreakerTypeOK, Acquire, AcquireCall, AcquireProbe, Recovered
<1>3. latest' \subseteq Callers /\ asked' \subseteq Callers
  BY DEF CountInv, BreakerTypeOK, Acquire, AcquireCall, AcquireProbe, Admit
<1>4. probe_in_flight' \in BOOLEAN
  BY Zenon DEF CountInv, BreakerTypeOK, Acquire, AcquireCall, AcquireProbe
<1> QED
  BY <1>1, <1>2, <1>3, <1>4, Zenon DEF CountInv, BreakerTypeOK

\* So does every completion; a failed probe finds the circuit half open.
LEMMA CompleteTypes ==
  ASSUME CountInv, ProbeInv, NEW c \in Callers, Complete(c)
  PROVE  CountInv'
<1>0. permit[c] = "probe" /\ c \in latest => state = "HALF-OPEN"
  BY DEF ProbeInv, LatestInHalfOpen, Out
<1>1. /\ permit' \in [Callers -> {"none", "call", "probe"}]
      /\ age' \in [Callers -> 0..Recovery]
  BY PermitTypes DEF CountInv, Complete, LateProbe, ProbeSuccess, ProbeFailure, ProbeNeutral,
                     CallSuccess, CallNeutral, CallFailure, Return
<1>2. /\ state' \in {"CLOSED", "OPEN", "HALF-OPEN"}
      /\ failure_count' \in 0..Threshold
      /\ state' = "CLOSED" => failure_count' < Threshold
      /\ state' \in {"OPEN", "HALF-OPEN"} => failure_count' = Threshold
  <2>1. CASE LateProbe(c) \/ ProbeNeutral(c) \/ CallNeutral(c)
    BY <2>1 DEF CountInv, BreakerTypeOK, LateProbe, ProbeNeutral, CallNeutral
  <2>2. CASE ProbeSuccess(c) \/ CallSuccess(c)
    BY <2>2, BreakerBounds DEF CountInv, BreakerTypeOK, ProbeSuccess, CallSuccess
  <2>3. CASE ProbeFailure(c)
    BY <2>3, <1>0 DEF CountInv, BreakerTypeOK, ProbeFailure, ProbeIsCurrent, Open
  <2>4. CASE CallFailure(c)
    BY <2>4, BreakerBounds DEF CountInv, BreakerTypeOK, CallFailure, Capped, Trips, Open
  <2> QED
    BY <2>1, <2>2, <2>3, <2>4 DEF Complete
<1>3. /\ since' \in 0..(Recovery + 1)
      /\ probe_age' \in 0..Recovery
      /\ latest' \subseteq Callers /\ asked' \subseteq Callers
  BY BreakerBounds DEF CountInv, BreakerTypeOK, Complete, LateProbe, ProbeSuccess, ProbeFailure,
                       ProbeNeutral, CallSuccess, CallNeutral, CallFailure, Open
<1>4. probe_in_flight' \in BOOLEAN
  BY Zenon DEF CountInv, BreakerTypeOK, Complete, LateProbe, ProbeSuccess, ProbeFailure,
               ProbeNeutral, CallSuccess, CallNeutral, CallFailure
<1> QED
  BY <1>1, <1>2, <1>3, <1>4, Zenon DEF CountInv, BreakerTypeOK

\* The failure count stays within the threshold and opens the circuit exactly when it
\* gets there, the clocks within their caps, for every threshold and recovery time.
THEOREM BreakerTypes == BreakerSpec => []BreakerTypeOK
<1>1. BreakerInit => CountInv
  <2> SUFFICES ASSUME BreakerInit PROVE CountInv
    OBVIOUS
  <2>1. /\ failure_count \in 0..Threshold /\ failure_count < Threshold
        /\ since \in 0..(Recovery + 1) /\ probe_age \in 0..Recovery
        /\ age \in [Callers -> 0..Recovery]
        /\ permit \in [Callers -> {"none", "call", "probe"}]
        /\ latest \subseteq Callers /\ asked \subseteq Callers
    BY BreakerBounds DEF BreakerInit
  <2>2. state = "CLOSED" /\ state # "OPEN" /\ state # "HALF-OPEN"
    BY DEF BreakerInit
  <2>3. probe_in_flight \in BOOLEAN
    BY Zenon DEF BreakerInit
  <2> QED
    BY <2>1, <2>2, <2>3, Zenon DEF CountInv, BreakerTypeOK
<1>2. CountInv /\ ProbeInv /\ [BreakerNext]_breakerVars => CountInv'
  <2> SUFFICES ASSUME CountInv, ProbeInv, [BreakerNext]_breakerVars PROVE CountInv'
    OBVIOUS
  <2>1. CASE Tick
    <3>1. \A n \in 0..Recovery : Capped(n + 1, Recovery) \in 0..Recovery
      BY BreakerBounds DEF Capped
    <3>2. Capped(since + 1, Recovery + 1) \in 0..(Recovery + 1)
      BY BreakerBounds DEF CountInv, BreakerTypeOK, Capped
    <3>3. age' \in [Callers -> 0..Recovery] /\ probe_age' \in 0..Recovery
      BY <2>1, <3>1 DEF CountInv, BreakerTypeOK, Tick
    <3> QED
      BY <2>1, <3>2, <3>3, Zenon DEF CountInv, BreakerTypeOK, Tick
  <2>2. CASE UNCHANGED breakerVars
    BY <2>2, Zenon DEF breakerVars, CountInv, BreakerTypeOK
  <2> QED
    BY <2>1, <2>2, AcquireTypes, CompleteTypes DEF BreakerNext
<1>3. CountInv => BreakerTypeOK
  BY DEF CountInv
<1> QED
  BY <1>1, <1>2, <1>3, ProbeInvariance, PTL DEF BreakerSpec
=============================================================================
