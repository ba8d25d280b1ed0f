------------------------------ MODULE LLMBudget ------------------------------
(***************************************************************************)
(* The daily budget of LLM calls and the retries of one call.  Source:     *)
(* internal/llm/client.go; the limit is set by cmd/server/main.go at start *)
(* and again by the webhook handler for every issue that is opened.        *)
(*                                                                         *)
(* The client is shared by all goroutines and keeps limit, count and day   *)
(* in three atomics of their own, with no lock around a check.  Each       *)
(* atomic operation is a step here, so checks of different callers         *)
(* interleave with each other and with midnight.                           *)
(*                                                                         *)
(* Prompts, answers and the kinds of non-transient errors are left out: a  *)
(* call that has been admitted only sends requests until one is answered.  *)
(***************************************************************************)
EXTENDS Integers, FiniteSets

CONSTANTS
  Callers,     \* goroutines that call the model
  Limits,      \* the limits the environment and the repositories ask for
  MaxRetries,  \* the code's maxRetries (3): requests sent for one call
  MaxInt,      \* the largest int32
  MaxDay       \* bound: midnights in a behaviour

ASSUME CallersAssumption == IsFiniteSet(Callers)
ASSUME LimitsAssumption == Limits \subseteq Int
ASSUME SizesAssumption == /\ MaxRetries \in Nat \ {0}
                          /\ MaxInt \in Nat \ {0}
                          /\ MaxDay \in Nat

VARIABLES
  limit,     \* c.dailyLimit
  count,     \* c.dailyCount
  limitDay,  \* c.limitDay: 0 before the first call, day d of the clock is d
  day,       \* what the clock says, 1 at the start
  call,      \* call[c]: where caller c is in its call
  (* history *)
  ceiling,   \* the highest limit set so far
  used,      \* calls admitted since the counter was last set to 0
  stray,     \* roll-backs since then of increments made before
  admitted,  \* calls admitted today
  wiped      \* today, the counter was set to 0 after a call was admitted

vars == <<limit, count, limitDay, day, call, ceiling, used, stray, admitted, wiped>>

counters == <<ceiling, used, stray, admitted, wiped>>

Steps == {"idle", "clock", "load", "swap", "reset", "add", "rollback", "send",
          "backoff"}

\* A caller's locals: the limit, the clock and limitDay as it read them, and
\* the number of the next request; late: the counter was reset under it.
Call == [pc : Steps, lim : Int, today : Nat, last : Nat, attempt : Nat,
         late : BOOLEAN]

Idle == [pc |-> "idle", lim |-> 0, today |-> 0, last |-> 0, attempt |-> 0,
         late |-> FALSE]

At(c, p) == call[c].pc = p

Goto(c, p) == call' = [call EXCEPT ![c].pc = p]

Return(c) == call' = [call EXCEPT ![c] = Idle]

\* Add(1) on an int32.
Increment(n) == IF n = MaxInt THEN -MaxInt - 1 ELSE n + 1

\* SetDailyLimit's clamping: 0 means unlimited, and one slot stays free above.
Clamp(v) == IF v < 0 THEN 0 ELSE IF v >= MaxInt THEN MaxInt - 1 ELSE v

-----------------------------------------------------------------------------

Init ==
  /\ \E v \in Limits : limit = Clamp(v)
  /\ count = 0 /\ limitDay = 0 /\ day = 1
  /\ call = [c \in Callers |-> Idle]
  /\ ceiling = limit /\ used = 0 /\ stray = 0 /\ admitted = 0 /\ wiped = FALSE

SetDailyLimit(v) ==
  /\ limit' = Clamp(v)
  /\ ceiling' = IF limit' > ceiling THEN limit' ELSE ceiling
  /\ UNCHANGED <<count, limitDay, day, call, used, stray, admitted, wiped>>

\* checkAndIncrementDaily reads the limit; without one nothing is counted.
LoadLimit(c) ==
  /\ At(c, "idle")
  /\ call' = [call EXCEPT
                ![c] = [pc |-> IF limit <= 0 THEN "send" ELSE "clock", lim |-> limit,
                        today |-> 0, last |-> 0, attempt |-> 0, late |-> FALSE]]
  /\ UNCHANGED <<limit, count, limitDay, day, counters>>

\* resetIfNewDay: read the clock, read limitDay, swap it, clear the counter.
ReadClock(c) ==
  /\ At(c, "clock")
  /\ call' = [call EXCEPT ![c].pc = "load", ![c].today = day]
  /\ UNCHANGED <<limit, count, limitDay, day, counters>>

LoadDay(c) ==
  /\ At(c, "load")
  /\ call' = [call EXCEPT
                ![c].pc = IF call[c].today # limitDay THEN "swap" ELSE "add",
                ![c].last = limitDay]
  /\ UNCHANGED <<limit, count, limitDay, day, counters>>

\* Mutant: the arguments of CompareAndSwap exchanged.
SwapExchanged(c) ==
  /\ At(c, "swap")
  /\ IF limitDay = call[c].today
     THEN limitDay' = call[c].last /\ Goto(c, "reset")
     ELSE Goto(c, "add") /\ UNCHANGED limitDay
  /\ UNCHANGED <<limit, count, day, counters>>

\* CompareAndSwap: only the caller that wins clears the counter.
SwapDay(c) ==
  /\ At(c, "swap")
  /\ IF limitDay = call[c].last
     THEN limitDay' = call[c].today /\ Goto(c, "reset")
     ELSE Goto(c, "add") /\ UNCHANGED limitDay
  /\ UNCHANGED <<limit, count, day, counters>>

ResetCount(c) ==
  /\ At(c, "reset")
  /\ count' = 0
  /\ call' = [d \in Callers |->
                IF d = c THEN [call[c] EXCEPT !.pc = "add"]
                ELSE IF At(d, "rollback") THEN [call[d] EXCEPT !.late = TRUE]
                ELSE call[d]]
  /\ used' = 0 /\ stray' = 0 /\ wiped' = (wiped \/ admitted > 0)
  /\ UNCHANGED <<limit, limitDay, day, ceiling, admitted>>

\* Mutant: the limit compared with the count before the increment.
AdmitOneMore(c) ==
  /\ At(c, "add") /\ count <= call[c].lim
  /\ count' = Increment(count)
  /\ used' = used + 1 /\ admitted' = admitted + 1
  /\ Goto(c, "send")
  /\ UNCHANGED <<limit, limitDay, day, ceiling, stray, wiped>>

\* Add(1), then compare with the limit read at the start.
Admit(c) ==
  /\ At(c, "add") /\ Increment(count) <= call[c].lim
  /\ count' = Increment(count)
  /\ used' = used + 1 /\ admitted' = admitted + 1
  /\ Goto(c, "send")
  /\ UNCHANGED <<limit, limitDay, day, ceiling, stray, wiped>>

\* Mutant: the call that spends the last slot is refused.
ExceedTooSoon(c) ==
  /\ At(c, "add") /\ Increment(count) >= call[c].lim
  /\ count' = Increment(count)
  /\ Goto(c, "rollback")
  /\ UNCHANGED <<limit, limitDay, day, counters>>

Exceed(c) ==
  /\ At(c, "add") /\ Increment(count) > call[c].lim
  /\ count' = Increment(count)
  /\ Goto(c, "rollback")
  /\ UNCHANGED <<limit, limitDay, day, counters>>

\* Mutant: a refused call hands back the slot twice.
RollBackTwice(c) ==
  /\ At(c, "rollback")
  /\ count' = count - 2
  /\ stray' = IF call[c].late THEN stray + 1 ELSE stray
  /\ Return(c)
  /\ UNCHANGED <<limit, limitDay, day, ceiling, used, admitted, wiped>>

\* Add(-1), and the call fails with ErrDailyLimitExceeded.
RollBack(c) ==
  /\ At(c, "rollback")
  /\ count' = count - 1
  /\ stray' = IF call[c].late THEN stray + 1 ELSE stray
  /\ Return(c)
  /\ UNCHANGED <<limit, limitDay, day, ceiling, used, admitted, wiped>>

\* doWithRetry: a request that gets an answer, or an error not worth a retry,
\* ends the call, and so does the last attempt.
Send(c) ==
  /\ At(c, "send")
  /\ Return(c)
  /\ UNCHANGED <<limit, count, limitDay, day, counters>>

\* Mutant: the attempts are counted up to and including the bound.
SendOnceMore(c) ==
  /\ At(c, "send") /\ call[c].attempt < MaxRetries
  /\ call' = [call EXCEPT ![c].pc = "backoff", ![c].attempt = call[c].attempt + 1]
  /\ UNCHANGED <<limit, count, limitDay, day, counters>>

\* Mutant: the attempts are not counted.
SendForEver(c) ==
  /\ At(c, "send") /\ call[c].attempt + 1 < MaxRetries
  /\ Goto(c, "backoff")
  /\ UNCHANGED <<limit, count, limitDay, day, counters>>

\* A timeout, a 429 or a 5xx: wait, then send again.
SendTransient(c) ==
  /\ At(c, "send") /\ call[c].attempt + 1 < MaxRetries
  /\ call' = [call EXCEPT ![c].pc = "backoff", ![c].attempt = call[c].attempt + 1]
  /\ UNCHANGED <<limit, count, limitDay, day, counters>>

Resend(c) ==
  /\ At(c, "backoff")
  /\ Goto(c, "send")
  /\ UNCHANGED <<limit, count, limitDay, day, counters>>

\* The caller's context ends while it waits.
Cancel(c) ==
  /\ At(c, "backoff")
  /\ Return(c)
  /\ UNCHANGED <<limit, count, limitDay, day, counters>>

Midnight ==
  /\ day <= MaxDay
  /\ day' = day + 1
  /\ admitted' = 0 /\ wiped' = FALSE
  /\ UNCHANGED <<limit, count, limitDay, call, ceiling, used, stray>>

\* The steps of a call once it has begun.
Advance(c) ==
  \/ ReadClock(c) \/ LoadDay(c) \/ SwapDay(c) \/ ResetCount(c)
  \/ Admit(c) \/ Exceed(c) \/ RollBack(c)
  \/ Send(c) \/ SendTransient(c) \/ Resend(c) \/ Cancel(c)

Next ==
  \/ \E c \in Callers : LoadLimit(c) \/ Advance(c)
  \/ \E v \in Limits : SetDailyLimit(v)
  \/ Midnight

Spec == Init /\ [][Next]_vars

\* A goroutine in a call is scheduled until the call returns (requests time out
\* and back-off timers fire), and the model keeps being called.
FairSpec == /\ Spec
            /\ \A c \in Callers : WF_vars(Advance(c))
            /\ \A c \in Callers : WF_vars(LoadLimit(c))

-----------------------------------------------------------------------------
(* Properties.                                                             *)

TypeOK ==
  /\ limit \in Nat /\ ceiling \in Nat /\ limit <= ceiling
  /\ count \in Int /\ limitDay \in Nat /\ day \in Nat
  /\ call \in [Callers -> Call]
  /\ \A c \in Callers : call[c].attempt < MaxRetries
  /\ used \in Nat /\ stray \in Nat /\ admitted \in Nat /\ wiped \in BOOLEAN

\* There is room above every limit for one increment per caller.
Headroom == \A v \in Limits : Clamp(v) + Cardinality(Callers) <= MaxInt

\* On a day whose counter was not set to 0 under the feet of its own callers,
\* no more calls are admitted than the limit allows, however checks interleave.
DayWithinLimit == ~wiped /\ stray = 0 => admitted <= ceiling

\* A refusal is deserved: a caller only rolls back when at least the lowest of
\* the limits was admitted since the counter was reset, so refused callers, who
\* count for a moment, never push each other over a limit not yet spent.
RefusedOnlyWhenSpent ==
  \A c \in Callers :
    At(c, "rollback") /\ ~call[c].late =>
      \E v \in Limits : Clamp(v) > 0 /\ used >= Clamp(v)

\* Every call ends, whatever the answers: the retries are finite.
CallsReturn == \A c \in Callers : ~At(c, "idle") ~> At(c, "idle")

\* A caller that slept through midnight may set the day back; the next ones
\* put it right: if calls keep being counted, the counter ends up on today's
\* day and stays there, so an exhausted budget never outlives its day.
CounterFollowsClock ==
  ([]<> \E c \in Callers : At(c, "clock")) => <>[](limitDay = day)
=============================================================================
