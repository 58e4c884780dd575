--------------------------- MODULE CircuitBreaker ---------------------------
(***************************************************************************)
(* The circuit breaker every unit puts before an external dependency       *)
(* (docsuri_shared.resilience.CircuitBreaker).  acquire and _complete hold *)
(* the lock, so each is one action; between them the caller is out at the  *)
(* dependency for as long as it likes, for ever if its thread hangs.       *)
(*                                                                         *)
(* Clock readings are kept as ages in units of time, capped where the code *)
(* stops telling them apart; failure_count is capped at the threshold it   *)
(* is compared with.  The probe token only ever answers "is this the       *)
(* permit of the last probe handed out", which is what latest records.     *)
(* An acquire that is rejected changes nothing.                            *)
(***************************************************************************)
EXTENDS Naturals

CONSTANTS
    Callers,      \* threads and tasks that call the dependency
    Threshold,    \* failure_threshold
    Recovery      \* recovery_seconds, in units of time

ASSUME BreakerBounds == Threshold \in Nat \ {0} /\ Recovery \in Nat \ {0}

VARIABLES
    state, failure_count,
    since,               \* age of _last_state_change
    probe_in_flight,
    probe_age,           \* age of _probe_started
    latest,              \* whose permit carries _probe_token: nobody yet, or one caller
    permit,              \* of each caller: none, of a call, of a probe
    age,                 \* of each permit, up to Recovery
    asked                \* callers admitted since the circuit last opened

breakerVars == <<state, failure_count, since, probe_in_flight, probe_age, latest, permit, age, asked>>

Capped(n, top) == IF n > top THEN top ELSE n

BreakerTypeOK ==
    /\ state \in {"CLOSED", "OPEN", "HALF-OPEN"}
    /\ failure_count \in 0..Threshold
    /\ since \in 0..(Recovery + 1)
    /\ probe_in_flight \in BOOLEAN
    /\ probe_age \in 0..Recovery
    /\ latest \subseteq Callers
    /\ permit \in [Callers -> {"none", "call", "probe"}]
    /\ age \in [Callers -> 0..Recovery]
    /\ asked \subseteq Callers
    /\ state = "CLOSED" => failure_count < Threshold
    /\ state = "OPEN" => failure_count = Threshold

BreakerInit ==
    /\ state = "CLOSED"
    /\ failure_count = 0
    /\ since = 0
    /\ probe_in_flight = FALSE
    /\ probe_age = 0
    /\ latest = {}
    /\ permit = [c \in Callers |-> "none"]
    /\ age = [c \in Callers |-> 0]
    /\ asked = {}

-----------------------------------------------------------------------------
(* acquire                                                                 *)

Admit(c, granted) ==
    /\ permit' = [permit EXCEPT ![c] = granted]
    /\ age' = [age EXCEPT ![c] = 0]
    /\ asked' = asked \cup {c}

AcquireCall(c) ==
    /\ permit[c] = "none"
    /\ state = "CLOSED"
    /\ Admit(c, "call")
    /\ UNCHANGED <<state, failure_count, since, probe_in_flight, probe_age, latest>>

\* mutant: a probe that never completes keeps its slot
SlotFree_NoExpiry == ~probe_in_flight

\* mutant: the circuit admits whoever asks once it is half open
SlotFree_Always == TRUE

\* nobody probes, or the probe has taken so long that its slot is reclaimed
SlotFree == ~probe_in_flight \/ probe_age >= Recovery

Recovered == state = "OPEN" /\ since > Recovery

AcquireProbe(c) ==
    /\ permit[c] = "none"
    /\ Recovered \/ (state = "HALF-OPEN" /\ SlotFree)
    /\ state' = "HALF-OPEN"
    /\ since' = IF Recovered THEN 0 ELSE since
    /\ probe_in_flight' = TRUE
    /\ probe_age' = 0
    /\ latest' = {c}
    /\ Admit(c, "probe")
    /\ UNCHANGED failure_count

-----------------------------------------------------------------------------
(* _complete.  guard() completes every permit that is still open as a      *)
(* failure when the call ends; a thread that hangs completes nothing.      *)

Return(c) ==
    /\ permit' = [permit EXCEPT ![c] = "none"]
    /\ age' = [age EXCEPT ![c] = 0]

Open == state' = "OPEN" /\ since' = 0 /\ asked' = {}

\* mutant: whichever probe returns last has the say
ProbeIsCurrent_Any(c) == TRUE
ProbeIsCurrent(c) == c \in latest

\* the late return of a probe whose slot was given to another
LateProbe(c) ==
    /\ permit[c] = "probe"
    /\ ~ProbeIsCurrent(c)
    /\ Return(c)
    /\ UNCHANGED <<state, failure_count, since, probe_in_flight, probe_age, latest, asked>>

ProbeSuccess(c) ==
    /\ permit[c] = "probe"
    /\ ProbeIsCurrent(c)
    /\ Return(c)
    /\ probe_in_flight' = FALSE
    /\ state' = "CLOSED" /\ since' = 0
    /\ failure_count' = 0
    /\ UNCHANGED <<probe_age, latest, asked>>

ProbeFailure(c) ==
    /\ permit[c] = "probe"
    /\ ProbeIsCurrent(c)
    /\ Return(c)
    /\ probe_in_flight' = FALSE
    /\ Open
    /\ UNCHANGED <<failure_count, probe_age, latest>>

\* without a verdict: the slot is free again, the state stays HALF-OPEN
ProbeNeutral(c) ==
    /\ permit[c] = "probe"
    /\ ProbeIsCurrent(c)
    /\ Return(c)
    /\ probe_in_flight' = FALSE
    /\ UNCHANGED <<state, failure_count, since, probe_age, latest, asked>>

\* a success says something only while the circuit is closed
CallSuccess(c) ==
    /\ permit[c] = "call"
    /\ Return(c)
    /\ failure_count' = IF state = "CLOSED" THEN 0 ELSE failure_count
    /\ UNCHANGED <<state, since, probe_in_flight, probe_age, latest, asked>>

CallNeutral(c) ==
    /\ permit[c] = "call"
    /\ Return(c)
    /\ UNCHANGED <<state, failure_count, since, probe_in_flight, probe_age, latest, asked>>

Trips(n) == n >= Threshold

CallFailure(c) ==
    /\ permit[c] = "call"
    /\ Return(c)
    /\ failure_count' = Capped(failure_count + 1, Threshold)
    /\ IF state = "CLOSED" /\ Trips(failure_count + 1)
       THEN Open
       ELSE UNCHANGED <<state, since, asked>>
    /\ UNCHANGED <<probe_in_flight, probe_age, latest>>

-----------------------------------------------------------------------------
Tick ==
    /\ since' = Capped(since + 1, Recovery + 1)
    /\ probe_age' = Capped(probe_age + 1, Recovery)
    /\ age' = [c \in Callers |-> Capped(age[c] + 1, Recovery)]
    /\ UNCHANGED <<state, failure_count, probe_in_flight, latest, permit, asked>>

Acquire(c) == AcquireCall(c) \/ AcquireProbe(c)

Complete(c) ==
    \/ LateProbe(c) \/ ProbeSuccess(c) \/ ProbeFailure(c) \/ ProbeNeutral(c)
    \/ CallSuccess(c) \/ CallNeutral(c) \/ CallFailure(c)

BreakerNext == Tick \/ \E c \in Callers : Acquire(c) \/ Complete(c)

BreakerSpec == BreakerInit /\ [][BreakerNext]_breakerVars

\* Time passes and callers keep coming; a call that is out may never return.
BreakerFairSpec == BreakerSpec /\ WF_breakerVars(Tick) /\ \A c \in Callers : WF_breakerVars(Acquire(c))

-----------------------------------------------------------------------------
(* Correctness.                                                            *)

\* "Single probe": while a probe has not used up its time, nobody else is sent to
\* the dependency that may still be down.
SingleProbe ==
    \A c, d \in Callers :
        permit[c] = "probe" /\ permit[d] = "probe" /\ age[c] < Recovery /\ age[d] < Recovery
            => c = d

\* "Only the probe recovers": the circuit is closed by a probe that was sent out after
\* it last opened, never by a call or a probe from before.
ClosedByFreshProbe ==
    [][state # "CLOSED" /\ state' = "CLOSED" =>
          \E c \in asked : permit[c] = "probe" /\ permit'[c] = "none"]_breakerVars

\* "Cannot wedge the circuit OPEN forever": whichever calls and probes hang, the
\* circuit is closed, or sends out a new probe, again and again, as long as one caller
\* is left to ask.
NeverWedged ==
    []<>(\/ state = "CLOSED"
         \/ \E c \in Callers : permit[c] = "probe" /\ age[c] = 0
         \/ \A c \in Callers : permit[c] # "none")
=============================================================================
