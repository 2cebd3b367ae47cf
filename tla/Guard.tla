-------------------------------- MODULE Guard --------------------------------
(***************************************************************************)
(* The object-store guard (storage/guard.rs, GuardedObjectStore): every    *)
(* call first takes one of a bounded number of slots, then asks a circuit  *)
(* breaker whether to go ahead.  Callers are threads; the two mutexes make *)
(* each critical section one step, and threads interleave between them.    *)
(***************************************************************************)
EXTENDS Integers, FiniteSets

CONSTANTS
  Caller,            \* threads calling the store
  MaxInflight,       \* TPT_OSS_MAX_INFLIGHT
  FailureThreshold,  \* TPT_OSS_CIRCUIT_FAILURES
  OpenFor            \* TPT_OSS_CIRCUIT_OPEN_SECS, in ticks of the clock

ASSUME GuardConstants ==
  /\ IsFiniteSet(Caller)
  /\ MaxInflight \in Nat \ {0}
  /\ FailureThreshold \in Nat \ {0}
  /\ OpenFor \in Nat

VARIABLES
  pc,                \* where each caller is inside run
  count,             \* InFlightBound.state
  failures,          \* BreakerState.failures, up to the threshold
  opened_at,         \* BreakerState.opened_at, as the time elapsed since
  probing,           \* BreakerState.probing
  healthy,           \* whether the backend answers every call
  probes             \* callers let through by a half-open breaker (ghost)

breaker == <<failures, opened_at, probing>>
guardVars == <<pc, count, breaker, healthy, probes>>

None == -1

(* Between acquire and the release of the slot.                            *)
Holding == {"admit", "calling", "answered", "errored", "shed", "leave"}

GuardTypeOK ==
  /\ pc \in [Caller -> Holding \cup {"idle", "waiting", "woken", "notify"}]
  /\ count \in 0 .. MaxInflight
  /\ failures \in 0 .. FailureThreshold
  /\ opened_at \in {None} \cup 0 .. OpenFor
  /\ probing \in BOOLEAN
  /\ healthy \in BOOLEAN
  /\ probes \in SUBSET Caller

GuardInit ==
  /\ pc = [t \in Caller |-> "idle"]
  /\ count = 0
  /\ failures = 0 /\ opened_at = None /\ probing = FALSE
  /\ healthy \in BOOLEAN
  /\ probes = {}

At(t, from, to) == pc[t] \in from /\ pc' = [pc EXCEPT ![t] = to]

(* Mutant: `if` for `while`, so a woken caller does not look again.        *)
AcquireIf(t) ==
  /\ pc[t] = "woken" \/ count < MaxInflight
  /\ At(t, {"idle", "woken"}, "admit")
  /\ count' = count + 1
  /\ UNCHANGED <<breaker, healthy, probes>>

(* acquire, with a slot free.                                              *)
Acquire(t) ==
  /\ count < MaxInflight
  /\ At(t, {"idle", "woken"}, "admit")
  /\ count' = count + 1
  /\ UNCHANGED <<breaker, healthy, probes>>

(* acquire, with none free: wait on the condition variable, which may also *)
(* wake a caller for no reason.                                            *)
Wait(t) ==
  /\ count >= MaxInflight
  /\ At(t, {"idle", "woken"}, "waiting")
  /\ UNCHANGED <<count, breaker, healthy, probes>>

SpuriousWakeup(t) ==
  /\ At(t, {"waiting"}, "woken")
  /\ UNCHANGED <<count, breaker, healthy, probes>>

(* Mutant: the half-open breaker starts counting again from zero.          *)
HalfOpenForgets(t) ==
  /\ opened_at = OpenFor
  /\ probing' = TRUE /\ opened_at' = None /\ failures' = 0
  /\ probes' = probes \cup {t}

(* The open period is over: let a probe through.                           *)
HalfOpen(t) ==
  /\ opened_at = OpenFor
  /\ probing' = TRUE /\ opened_at' = None /\ UNCHANGED failures
  /\ probes' = probes \cup {t}

(* admit: the call goes ahead, or is shed while the breaker is open.       *)
Admit(t) ==
  /\ \/ HalfOpen(t) /\ At(t, {"admit"}, "calling")
     \/ /\ opened_at = None
        /\ At(t, {"admit"}, "calling")
        /\ probes' = IF probing THEN probes \cup {t} ELSE probes
        /\ UNCHANGED breaker
     \/ /\ opened_at \in 0 .. OpenFor - 1
        /\ At(t, {"admit"}, "shed")
        /\ UNCHANGED <<breaker, probes>>
  /\ UNCHANGED <<count, healthy>>

(* The backend answers (a CAS conflict is an answer too), or fails.        *)
Backend(t) ==
  /\ \/ At(t, {"calling"}, "answered")
     \/ ~ healthy /\ At(t, {"calling"}, "errored")
  /\ probes' = probes \ {t}
  /\ UNCHANGED <<count, breaker, healthy>>

OnSuccess(t) ==
  /\ At(t, {"answered"}, "leave")
  /\ failures' = 0 /\ opened_at' = None /\ probing' = FALSE
  /\ UNCHANGED <<count, healthy, probes>>

(* on_failure, which run calls for a shed request as for a backend error.  *)
OnFailure(t) ==
  /\ At(t, {"errored", "shed"}, "leave")
  /\ failures' = IF probing \/ failures = FailureThreshold THEN failures
                 ELSE failures + 1
  /\ probing' = FALSE
  /\ opened_at' = IF failures' >= FailureThreshold THEN 0 ELSE opened_at
  /\ UNCHANGED <<count, healthy, probes>>

(* Mutant: a path out of run gives no slot back.                           *)
KeepSlot(t) ==
  /\ At(t, {"leave"}, "notify")
  /\ UNCHANGED <<count, breaker, healthy, probes>>

(* release, from Drop for InFlightGuard, up to the end of its lock.        *)
ReleaseSlot(t) ==
  /\ At(t, {"leave"}, "notify")
  /\ count' = count - 1
  /\ UNCHANGED <<breaker, healthy, probes>>

Waiting == {u \in Caller : pc[u] = "waiting"}

(* Mutants: notify_one is called when no slot is left in use; never.       *)
NotifyWhenEmpty(t) ==
  /\ pc[t] = "notify"
  /\ \/ \E u \in Waiting : count = 0 /\ pc' = [pc EXCEPT ![t] = "idle", ![u] = "woken"]
     \/ (Waiting = {} \/ count > 0) /\ pc' = [pc EXCEPT ![t] = "idle"]
  /\ UNCHANGED <<count, breaker, healthy, probes>>

NotifyNobody(t) ==
  /\ At(t, {"notify"}, "idle")
  /\ UNCHANGED <<count, breaker, healthy, probes>>

(* The rest of release: notify_one.                                        *)
NotifyOne(t) ==
  /\ pc[t] = "notify"
  /\ \/ \E u \in Waiting : pc' = [pc EXCEPT ![t] = "idle", ![u] = "woken"]
     \/ Waiting = {} /\ pc' = [pc EXCEPT ![t] = "idle"]
  /\ UNCHANGED <<count, breaker, healthy, probes>>

Tick ==
  /\ opened_at \in 0 .. OpenFor - 1
  /\ opened_at' = opened_at + 1
  /\ UNCHANGED <<pc, count, failures, probing, healthy, probes>>

(* The backend comes back, for good.                                       *)
Heal ==
  /\ ~ healthy /\ healthy' = TRUE
  /\ UNCHANGED <<pc, count, breaker, probes>>

Enter(t) == pc[t] = "idle" /\ (Acquire(t) \/ Wait(t))

Running(t) ==
  \/ pc[t] = "woken" /\ (Acquire(t) \/ Wait(t))
  \/ Admit(t) \/ Backend(t) \/ OnSuccess(t) \/ OnFailure(t)
  \/ ReleaseSlot(t) \/ NotifyOne(t)

GuardNext ==
  \/ \E t \in Caller : Enter(t) \/ Running(t) \/ SpuriousWakeup(t)
  \/ Tick
  \/ Heal

(* Threads inside run are scheduled, backend calls end, and time passes.   *)
GuardFairness == (\A t \in Caller : WF_guardVars(Running(t))) /\ WF_guardVars(Tick)

GuardSpec == GuardInit /\ [][GuardNext]_guardVars /\ GuardFairness

(* The same, with traffic that never stops.                                *)
BusySpec == GuardSpec /\ \A t \in Caller : WF_guardVars(Enter(t))
-----------------------------------------------------------------------------
In(S) == Cardinality({t \in Caller : pc[t] \in S})

(* InFlightBound: however callers wait, wake up, overtake each other and   *)
(* leave, the counter is the number of calls in flight: no slot leaks, and *)
(* never more than the maximum run.                                        *)
SlotsExact == count = In(Holding) /\ In(Holding) <= MaxInflight

(* release calls notify_one after it gave up the lock: while anyone waits, *)
(* every free slot has a caller on its way to it (or a wake-up due).       *)
NoLostWakeup ==
  Waiting # {} => count + In({"woken", "notify"}) >= MaxInflight

(* admit and on_failure: an open or half-open breaker is still at its      *)
(* threshold, so the failure of a probe (which is not counted) reopens it. *)
ProbeAtThreshold == (probing \/ opened_at # None) => failures >= FailureThreshold

(* acquire and release: once new calls stop coming, a caller waiting for a *)
(* slot gets one and returns; no wake-up is lost for good.                 *)
WaitersServed ==
  \A t \in Caller :
    <>[][~ \E u \in Caller : Enter(u)]_guardVars => (pc[t] = "waiting" ~> pc[t] = "idle")

(* guard.rs:108 "When open, exactly one caller is allowed through as a     *)
(* probe": admit lets at most one call through until the probe is back.    *)
OneProbe == Cardinality(probes) <= 1

(* guard.rs:142 opens a probe window OpenFor after the breaker tripped: a  *)
(* backend that is back for good is found to be, and admit closes again.   *)
Recovers == healthy ~> opened_at = None
=============================================================================
