--------------------------- MODULE LLMBudgetProofs ---------------------------
(***************************************************************************)
(* What holds of LLMBudget for any number of callers and any limits, as    *)
(* long as they leave room below the largest int32 for one increment per   *)
(* caller (Headroom).  The argument: the counter is the calls admitted     *)
(* since it was last cleared, plus the refused callers that have not       *)
(* rolled back yet, minus the roll-backs of callers it was cleared under.  *)
(***************************************************************************)
EXTENDS LLMBudget, FiniteSetTheorems, TLAPS

\* Refused callers whose increment is still in the counter.
Over == {c \in Callers : At(c, "rollback") /\ ~call[c].late}

Counted == count = used + Cardinality(Over) - stray

Bounded == used <= ceiling + stray

\* Limits in force, and the highest of them, are clamped ones that were set.
SetLimits == /\ \E v \in Limits : limit = Clamp(v)
             /\ \E v \in Limits : ceiling = Clamp(v)

\* A caller that counts compares with a positive limit that was set.
Counting == {"clock", "load", "swap", "reset", "add", "rollback"}

Compared == \A c \in Callers :
              call[c].pc \in Counting =>
                /\ 0 < call[c].lim /\ call[c].lim <= ceiling
                /\ \E v \in Limits : call[c].lim = Clamp(v)

\* Unless the counter was cleared under today's calls, it holds them all.
Today == ~wiped => admitted <= used

\* The counter is cleared under callers that are about to roll back.
LateAtRollBack == \A c \in Callers : call[c].late => At(c, "rollback")

IInv == /\ TypeOK /\ Headroom /\ Counted /\ Bounded /\ SetLimits /\ Compared
        /\ Today /\ LateAtRollBack /\ RefusedOnlyWhenSpent

-----------------------------------------------------------------------------

\* What SetDailyLimit stores is an int32 that is not negative, one below the
\* largest at most.
LEMMA ClampBounds ==
  ASSUME NEW v \in Int
  PROVE  Clamp(v) \in Nat /\ Clamp(v) < MaxInt
  BY SizesAssumption DEF Clamp

LEMMA OverIsFinite ==
  ASSUME NEW S \in SUBSET Callers
  PROVE  IsFiniteSet(S) /\ Cardinality(S) \in Nat /\ Cardinality(S) <= Cardinality(Callers)
  BY CallersAssumption, FS_Subset, FS_CardinalityType

LEMMA Initially == Init /\ Headroom => IInv
<1>. SUFFICES ASSUME Init, Headroom PROVE IInv
  OBVIOUS
<1>1. PICK v \in Limits : limit = Clamp(v)
  BY DEF Init
<1>2. limit \in Nat /\ ceiling = limit
  BY <1>1, ClampBounds, LimitsAssumption DEF Init
<1>3. /\ Idle \in Call /\ Idle.pc = "idle" /\ Idle.attempt = 0 /\ Idle.late = FALSE
      /\ \A c \in Callers : call[c] = Idle
  BY DEF Init, Idle, Call, Steps
<1>4. TypeOK
  <2>1. call \in [Callers -> Call] /\ \A c \in Callers : call[c].attempt < MaxRetries
    BY <1>3, SizesAssumption DEF Init
  <2>2. wiped \in BOOLEAN
    BY DEF Init
  <2>. QED BY <1>2, <2>1, <2>2 DEF Init, TypeOK
<1>5. Over = {}
  BY <1>3 DEF Over, At
<1>6. Cardinality(Over) = 0
  BY <1>5, FS_EmptySet
<1>7. Counted /\ Bounded /\ Today
  BY <1>2, <1>6 DEF Init, Counted, Bounded, Today
<1>8. SetLimits /\ Compared /\ LateAtRollBack /\ RefusedOnlyWhenSpent
  BY <1>1, <1>2, <1>3 DEF SetLimits, Compared, Counting, LateAtRollBack,
                          RefusedOnlyWhenSpent, At
<1>. QED BY <1>4, <1>7, <1>8 DEF IInv

\* A step of one caller that takes no part in counting.
LEMMA QuietStep ==
  ASSUME IInv, NEW c \in Callers, NEW y \in Call, call' = [call EXCEPT ![c] = y],
         ~At(c, "rollback"), y.pc # "rollback", ~y.late, y.attempt < MaxRetries,
         y.pc \in Counting => /\ 0 < y.lim /\ y.lim <= ceiling
                              /\ \E v \in Limits : y.lim = Clamp(v),
         UNCHANGED <<limit, count, day, counters>>, limitDay' \in Nat
  PROVE  IInv'
<1>1. /\ call' \in [Callers -> Call] /\ call'[c] = y
      /\ \A d \in Callers : d # c => call'[d] = call[d]
  BY DEF IInv, TypeOK
<1>2. UNCHANGED <<limit, count, day, ceiling, used, stray, admitted, wiped>>
  BY DEF counters
<1>3. TypeOK'
  BY <1>1, <1>2 DEF IInv, TypeOK
<1>4. Over' = Over
  BY <1>1 DEF Over, At
<1>5. Counted' /\ Bounded' /\ SetLimits' /\ Today' /\ Headroom'
  BY <1>2, <1>4 DEF IInv, Counted, Bounded, SetLimits, Today, Headroom
<1>6. Compared' /\ LateAtRollBack' /\ RefusedOnlyWhenSpent'
  BY <1>1, <1>2 DEF IInv, Compared, LateAtRollBack, RefusedOnlyWhenSpent, At
<1>. QED BY <1>3, <1>5, <1>6 DEF IInv

\* The steps that lead a call to the counter and from there to its end.
LEMMA QuietSteps ==
  ASSUME IInv, NEW c \in Callers,
         \/ LoadLimit(c) \/ ReadClock(c) \/ LoadDay(c) \/ SwapDay(c)
         \/ Send(c) \/ SendTransient(c) \/ Resend(c) \/ Cancel(c)
  PROVE  IInv'
<1>1. /\ call[c] \in Call /\ call[c].attempt < MaxRetries
      /\ call[c].pc # "rollback" => ~call[c].late
  BY DEF IInv, TypeOK, LateAtRollBack, At
<1>2. /\ Idle \in Call /\ Idle.pc = "idle" /\ Idle.attempt < MaxRetries /\ ~Idle.late
  BY SizesAssumption DEF Idle, Call, Steps
<1>3. CASE LoadLimit(c)
  <2>. DEFINE y == [pc |-> IF limit <= 0 THEN "send" ELSE "clock", lim |-> limit,
                    today |-> 0, last |-> 0, attempt |-> 0, late |-> FALSE]
  <2>1. y \in Call
    BY DEF IInv, TypeOK, Call, Steps
  <2>2. call' = [call EXCEPT ![c] = y]
    BY <1>3 DEF LoadLimit
  <2>3. y.pc \in Counting => /\ 0 < y.lim /\ y.lim <= ceiling
                             /\ \E v \in Limits : y.lim = Clamp(v)
    BY DEF IInv, TypeOK, SetLimits, Counting
  <2>4. y.attempt < MaxRetries /\ ~y.late /\ y.pc # "rollback"
    BY SizesAssumption
  <2>5. ~At(c, "rollback") /\ UNCHANGED <<limit, count, limitDay, day, counters>>
    BY <1>3 DEF LoadLimit, At
  <2>. HIDE DEF y
  <2>. QED BY <2>1, <2>2, <2>3, <2>4, <2>5, QuietStep DEF IInv, TypeOK
<1>4. CASE ReadClock(c)
  <2>. DEFINE y == [call[c] EXCEPT !.pc = "load", !.today = day]
  <2>1. /\ call' = [call EXCEPT ![c] = y] /\ At(c, "clock")
        /\ UNCHANGED <<limit, count, limitDay, day, counters>>
    BY <1>1, <1>4 DEF ReadClock
  <2>2. /\ y \in Call /\ y.pc = "load" /\ y.lim = call[c].lim
        /\ y.attempt = call[c].attempt /\ y.late = call[c].late
    BY <1>1 DEF Call, Steps, IInv, TypeOK
  <2>. HIDE DEF y
  <2>. QED BY <1>1, <2>1, <2>2, QuietStep DEF IInv, TypeOK, Compared, Counting, At
<1>5. CASE LoadDay(c)
  <2>. DEFINE y == [call[c] EXCEPT !.pc = IF call[c].today # limitDay THEN "swap" ELSE "add",
                                   !.last = limitDay]
  <2>1. /\ call' = [call EXCEPT ![c] = y] /\ At(c, "load")
        /\ UNCHANGED <<limit, count, limitDay, day, counters>>
    BY <1>1, <1>5 DEF LoadDay
  <2>2. /\ y \in Call /\ y.pc \in {"swap", "add"} /\ y.lim = call[c].lim
        /\ y.attempt = call[c].attempt /\ y.late = call[c].late
    BY <1>1 DEF Call, Steps, IInv, TypeOK
  <2>. HIDE DEF y
  <2>. QED BY <1>1, <2>1, <2>2, QuietStep DEF IInv, TypeOK, Compared, Counting, At
<1>6. CASE SwapDay(c)
  <2>1. PICK p \in {"reset", "add"} : /\ call' = [call EXCEPT ![c].pc = p] /\ At(c, "swap")
                                      /\ UNCHANGED <<limit, count, day, counters>>
                                      /\ limitDay' \in {limitDay, call[c].today}
    BY <1>6 DEF SwapDay, Goto
  <2>. DEFINE y == [call[c] EXCEPT !.pc = p]
  <2>2. call' = [call EXCEPT ![c] = y]
    BY <2>1
  <2>3. /\ y \in Call /\ y.pc = p /\ y.lim = call[c].lim
        /\ y.attempt = call[c].attempt /\ y.late = call[c].late
    BY <1>1, <2>1 DEF Call, Steps
  <2>4. limitDay' \in Nat
    BY <1>1, <2>1 DEF IInv, TypeOK, Call
  <2>5. /\ ~At(c, "rollback") /\ ~call[c].late /\ 0 < call[c].lim /\ call[c].lim <= ceiling
        /\ \E v \in Limits : call[c].lim = Clamp(v)
    BY <1>1, <2>1 DEF IInv, Compared, Counting, At
  <2>6. UNCHANGED <<limit, count, day, counters>>
    BY <2>1
  <2>7. y.pc # "rollback"
    BY <2>1, <2>3
  <2>. HIDE DEF y
  <2>. QED BY <1>1, <2>2, <2>3, <2>4, <2>5, <2>6, <2>7, QuietStep
<1>7. CASE Send(c) \/ Cancel(c)
  <2>1. /\ call' = [call EXCEPT ![c] = Idle] /\ ~At(c, "rollback")
        /\ UNCHANGED <<limit, count, limitDay, day, counters>>
    BY <1>7 DEF Send, Cancel, Return, At
  <2>. QED BY <1>2, <2>1, QuietStep DEF IInv, TypeOK, Counting
<1>8. CASE SendTransient(c)
  <2>. DEFINE y == [call[c] EXCEPT !.pc = "backoff", !.attempt = call[c].attempt + 1]
  <2>1. /\ call' = [call EXCEPT ![c] = y] /\ At(c, "send")
        /\ UNCHANGED <<limit, count, limitDay, day, counters>>
        /\ call[c].attempt + 1 < MaxRetries
    BY <1>1, <1>8 DEF SendTransient
  <2>2. /\ y \in Call /\ y.pc = "backoff"
        /\ y.attempt = call[c].attempt + 1 /\ y.late = call[c].late
    <3>1. call[c].attempt + 1 \in Nat
      BY <1>1 DEF Call
    <3>. QED BY <1>1, <3>1 DEF Call, Steps
  <2>. HIDE DEF y
  <2>. QED BY <1>1, <2>1, <2>2, QuietStep DEF IInv, TypeOK, Counting, At
<1>9. CASE Resend(c)
  <2>. DEFINE y == [call[c] EXCEPT !.pc = "send"]
  <2>1. /\ call' = [call EXCEPT ![c] = y] /\ At(c, "backoff")
        /\ UNCHANGED <<limit, count, limitDay, day, counters>>
    BY <1>9 DEF Resend, Goto
  <2>2. /\ y \in Call /\ y.pc = "send"
        /\ y.attempt = call[c].attempt /\ y.late = call[c].late
    BY <1>1 DEF Call, Steps
  <2>. HIDE DEF y
  <2>. QED BY <1>1, <2>1, <2>2, QuietStep DEF IInv, TypeOK, Counting, At
<1>. QED BY <1>3, <1>4, <1>5, <1>6, <1>7, <1>8, <1>9

\* A caller about to add holds no increment yet, so the counter is below the
\* largest int32 and its Add does not wrap.
LEMMA AddDoesNotWrap ==
  ASSUME IInv, NEW c \in Callers, At(c, "add")
  PROVE  /\ Increment(count) = count + 1 /\ c \notin Over
         /\ Cardinality(Over) \in Nat
<1>1. c \notin Over
  BY DEF Over, At
<1>2. /\ IsFiniteSet(Over) /\ Cardinality(Over) \in Nat
      /\ Cardinality(Over \cup {c}) = Cardinality(Over) + 1
      /\ Cardinality(Over \cup {c}) <= Cardinality(Callers)
  <2>1. Over \in SUBSET Callers /\ Over \cup {c} \in SUBSET Callers
    BY DEF Over
  <2>. QED BY <1>1, <2>1, OverIsFinite, FS_AddElement
<1>3. ceiling + Cardinality(Callers) <= MaxInt /\ Cardinality(Callers) \in Nat
  BY OverIsFinite DEF IInv, SetLimits, Headroom
<1>4. count # MaxInt
  BY <1>2, <1>3, SizesAssumption DEF IInv, TypeOK, Counted, Bounded
<1>. QED BY <1>1, <1>2, <1>4 DEF Increment

LEMMA AdmitStep ==
  ASSUME IInv, NEW c \in Callers, Admit(c)
  PROVE  IInv'
<1>1. /\ At(c, "add") /\ count + 1 <= call[c].lim /\ count' = count + 1
      /\ used' = used + 1 /\ admitted' = admitted + 1
      /\ call' = [call EXCEPT ![c].pc = "send"]
      /\ UNCHANGED <<limit, limitDay, day, ceiling, stray, wiped>>
      /\ Cardinality(Over) \in Nat
  BY AddDoesNotWrap DEF Admit, Goto
<1>2. call[c] \in Call /\ call[c].lim \in Int /\ call[c].lim <= ceiling
  BY <1>1 DEF IInv, TypeOK, Call, Compared, Counting, At
<1>3. [call[c] EXCEPT !.pc = "send"] \in Call
  BY <1>2 DEF Call, Steps
<1>4. /\ call' \in [Callers -> Call]
      /\ call'[c].pc = "send" /\ call'[c].attempt = call[c].attempt
      /\ call'[c].late = call[c].late
      /\ \A d \in Callers : d # c => call'[d] = call[d]
  BY <1>1, <1>2, <1>3 DEF IInv, TypeOK, Call
<1>5. TypeOK'
  BY <1>1, <1>4 DEF IInv, TypeOK
<1>6. Over' = Over
  BY <1>1, <1>4 DEF Over, At
<1>7. Counted' /\ Bounded' /\ Today'
  BY <1>1, <1>2, <1>5, <1>6 DEF IInv, TypeOK, Counted, Bounded, Today
<1>8. SetLimits' /\ Headroom' /\ Compared' /\ LateAtRollBack'
  BY <1>1, <1>4 DEF IInv, SetLimits, Headroom, Compared, Counting, LateAtRollBack, At
<1>9. RefusedOnlyWhenSpent'
  <2>1. SUFFICES ASSUME NEW d \in Callers, At(d, "rollback")', ~call'[d].late
                 PROVE  \E v \in Limits : Clamp(v) > 0 /\ used' >= Clamp(v)
    BY DEF RefusedOnlyWhenSpent
  <2>2. PICK v \in Limits : Clamp(v) > 0 /\ used >= Clamp(v)
    BY <1>4, <2>1 DEF IInv, RefusedOnlyWhenSpent, At
  <2>3. Clamp(v) \in Nat
    BY ClampBounds, LimitsAssumption
  <2>. QED BY <1>1, <2>2, <2>3 DEF IInv, TypeOK
<1>. QED BY <1>5, <1>7, <1>8, <1>9 DEF IInv

LEMMA ExceedStep ==
  ASSUME IInv, NEW c \in Callers, Exceed(c)
  PROVE  IInv'
<1>1. /\ At(c, "add") /\ count + 1 > call[c].lim /\ count' = count + 1
      /\ call' = [call EXCEPT ![c].pc = "rollback"]
      /\ UNCHANGED <<limit, limitDay, day, ceiling, used, stray, admitted, wiped>>
      /\ c \notin Over /\ Cardinality(Over) \in Nat
  BY AddDoesNotWrap DEF Exceed, Goto, counters
<1>2. /\ call[c] \in Call /\ call[c].lim \in Int /\ 0 < call[c].lim /\ ~call[c].late
      /\ \E v \in Limits : call[c].lim = Clamp(v)
  BY <1>1 DEF IInv, TypeOK, Call, Compared, Counting, LateAtRollBack, At
<1>3. [call[c] EXCEPT !.pc = "rollback"] \in Call
  BY <1>2 DEF Call, Steps
<1>4. /\ call' \in [Callers -> Call]
      /\ call'[c].pc = "rollback" /\ call'[c].attempt = call[c].attempt
      /\ call'[c].lim = call[c].lim /\ call'[c].late = call[c].late
      /\ \A d \in Callers : d # c => call'[d] = call[d]
  BY <1>1, <1>2, <1>3 DEF IInv, TypeOK, Call
<1>5. TypeOK'
  BY <1>1, <1>4 DEF IInv, TypeOK
<1>6. Over' = Over \cup {c}
  BY <1>2, <1>4 DEF Over, At
<1>7. Cardinality(Over') = Cardinality(Over) + 1
  <2>1. IsFiniteSet(Over)
    BY OverIsFinite DEF Over
  <2>. QED BY <1>1, <1>6, <2>1, FS_AddElement
<1>8. Counted' /\ Bounded' /\ Today' /\ SetLimits' /\ Headroom'
  BY <1>1, <1>7 DEF IInv, TypeOK, Counted, Bounded, Today, SetLimits, Headroom
<1>9. Compared' /\ LateAtRollBack'
  BY <1>1, <1>4 DEF IInv, Compared, Counting, LateAtRollBack, At
<1>10. RefusedOnlyWhenSpent'
  <2>1. \E v \in Limits : Clamp(v) > 0 /\ used >= Clamp(v)
    <3>1. CASE Over = {}
      <4>1. Cardinality(Over) = 0
        BY <3>1, FS_EmptySet
      <4>2. used >= call[c].lim
        BY <1>1, <1>2, <4>1 DEF IInv, TypeOK, Counted
      <4>. QED BY <1>2, <4>2
    <3>2. CASE Over # {}
      BY <3>2 DEF Over, IInv, RefusedOnlyWhenSpent
    <3>. QED BY <3>1, <3>2
  <2>. QED BY <1>1, <2>1 DEF RefusedOnlyWhenSpent
<1>. QED BY <1>5, <1>8, <1>9, <1>10 DEF IInv

LEMMA RollBackStep ==
  ASSUME IInv, NEW c \in Callers, RollBack(c)
  PROVE  IInv'
<1>1. /\ At(c, "rollback") /\ count' = count - 1 /\ call' = [call EXCEPT ![c] = Idle]
      /\ stray' = IF call[c].late THEN stray + 1 ELSE stray
      /\ UNCHANGED <<limit, limitDay, day, ceiling, used, admitted, wiped>>
  BY DEF RollBack, Return
<1>2. /\ Idle \in Call /\ Idle.pc = "idle" /\ Idle.attempt < MaxRetries /\ ~Idle.late
  BY SizesAssumption DEF Idle, Call, Steps
<1>3. /\ call' \in [Callers -> Call] /\ call'[c] = Idle
      /\ \A d \in Callers : d # c => call'[d] = call[d]
      /\ call[c].late \in BOOLEAN
  BY <1>1, <1>2 DEF IInv, TypeOK, Call
<1>4. TypeOK'
  BY <1>1, <1>2, <1>3 DEF IInv, TypeOK
<1>5. Over' = Over \ {c}
  BY <1>2, <1>3 DEF Over, At
<1>6. IsFiniteSet(Over) /\ Cardinality(Over) \in Nat
  BY OverIsFinite DEF Over
<1>7. Counted' /\ Bounded'
  <2>1. CASE call[c].late
    <3>1. Over' = Over
      BY <1>5, <2>1 DEF Over
    <3>. QED BY <1>1, <1>6, <2>1, <3>1 DEF IInv, TypeOK, Counted, Bounded
  <2>2. CASE ~call[c].late
    <3>1. c \in Over
      BY <1>1, <2>2 DEF Over
    <3>2. Cardinality(Over') = Cardinality(Over) - 1
      BY <1>5, <1>6, <3>1, FS_RemoveElement
    <3>. QED BY <1>1, <1>6, <2>2, <3>2 DEF IInv, TypeOK, Counted, Bounded
  <2>. QED BY <2>1, <2>2
<1>8. Today' /\ SetLimits' /\ Headroom'
  BY <1>1 DEF IInv, Today, SetLimits, Headroom
<1>9. Compared' /\ LateAtRollBack' /\ RefusedOnlyWhenSpent'
  BY <1>1, <1>2, <1>3 DEF IInv, Compared, Counting, LateAtRollBack, RefusedOnlyWhenSpent, At
<1>. QED BY <1>4, <1>7, <1>8, <1>9 DEF IInv

\* Clearing the counter makes the roll-backs under way stray.
LEMMA ResetCountStep ==
  ASSUME IInv, NEW c \in Callers, ResetCount(c)
  PROVE  IInv'
<1>1. /\ At(c, "reset") /\ count' = 0 /\ used' = 0 /\ stray' = 0
      /\ wiped' = (wiped \/ admitted > 0)
      /\ UNCHANGED <<limit, limitDay, day, ceiling, admitted>>
  BY DEF ResetCount
<1>2. \A d \in Callers :
        /\ call'[d] \in Call /\ call'[d].attempt = call[d].attempt
        /\ call'[d].lim = call[d].lim
        /\ call'[d].pc = IF d = c THEN "add" ELSE call[d].pc
        /\ call'[d].late = (call[d].late \/ At(d, "rollback"))
  <2>1. SUFFICES ASSUME NEW d \in Callers
                 PROVE  /\ call'[d] \in Call /\ call'[d].attempt = call[d].attempt
                        /\ call'[d].lim = call[d].lim
                        /\ call'[d].pc = IF d = c THEN "add" ELSE call[d].pc
                        /\ call'[d].late = (call[d].late \/ At(d, "rollback"))
    OBVIOUS
  <2>2. call[d] \in Call /\ (call[d].late => At(d, "rollback"))
    BY DEF IInv, TypeOK, LateAtRollBack
  <2>3. CASE d = c
    <3>1. call'[d] = [call[d] EXCEPT !.pc = "add"]
      BY <2>3 DEF ResetCount
    <3>. QED BY <1>1, <2>2, <2>3, <3>1 DEF Call, Steps, At
  <2>4. CASE d # c /\ At(d, "rollback")
    <3>1. call'[d] = [call[d] EXCEPT !.late = TRUE]
      BY <2>4 DEF ResetCount
    <3>. QED BY <2>2, <2>4, <3>1 DEF Call, At
  <2>5. CASE d # c /\ ~At(d, "rollback")
    <3>1. call'[d] = call[d]
      BY <2>5 DEF ResetCount
    <3>. QED BY <2>2, <2>5, <3>1 DEF Call
  <2>. QED BY <2>3, <2>4, <2>5
<1>3. call' \in [Callers -> Call]
  BY <1>2 DEF ResetCount
<1>4. TypeOK'
  BY <1>1, <1>2, <1>3 DEF IInv, TypeOK
<1>5. \A d \in Callers : At(d, "rollback")' => call'[d].late
  BY <1>2 DEF At
<1>6. Cardinality(Over') = 0
  <2>1. Over' = {}
    BY <1>5 DEF Over
  <2>. QED BY <2>1, FS_EmptySet
<1>7. Counted' /\ Bounded' /\ Today'
  <2>1. Counted' /\ Bounded'
    BY <1>1, <1>6 DEF IInv, TypeOK, Counted, Bounded
  <2>2. ~wiped' => ~(admitted > 0)
    BY <1>1
  <2>. QED BY <1>1, <2>1, <2>2 DEF IInv, TypeOK, Today
<1>8. SetLimits' /\ Headroom' /\ RefusedOnlyWhenSpent'
  BY <1>1, <1>5 DEF IInv, SetLimits, Headroom, RefusedOnlyWhenSpent
<1>9. LateAtRollBack'
  BY <1>1, <1>2 DEF IInv, LateAtRollBack, At
<1>10. Compared'
  BY <1>1, <1>2 DEF IInv, Compared, Counting, At
<1>. QED BY <1>4, <1>7, <1>8, <1>9, <1>10 DEF IInv

LEMMA SetDailyLimitStep ==
  ASSUME IInv, NEW v \in Limits, SetDailyLimit(v)
  PROVE  IInv'
<1>1. /\ limit' = Clamp(v) /\ limit' \in Nat
      /\ ceiling' \in {ceiling, limit'} /\ ceiling <= ceiling' /\ limit' <= ceiling'
      /\ UNCHANGED <<count, limitDay, day, call, used, stray, admitted, wiped>>
  BY ClampBounds, LimitsAssumption DEF SetDailyLimit, IInv, TypeOK
<1>2. TypeOK'
  BY <1>1 DEF IInv, TypeOK
<1>3. Over' = Over
  BY <1>1 DEF Over, At
<1>4. Counted' /\ Bounded' /\ SetLimits' /\ Today' /\ Headroom'
  <2>1. Bounded'
    <3>1. ceiling \in Int /\ ceiling' \in Int /\ used \in Int /\ stray \in Int
      BY <1>1 DEF IInv, TypeOK
    <3>2. used <= ceiling + stray /\ ceiling <= ceiling'
      BY <1>1 DEF IInv, Bounded
    <3>3. used <= ceiling' + stray
      <4>. DEFINE u == used  b == ceiling  d == ceiling'  s == stray
      <4>1. u \in Int /\ b \in Int /\ d \in Int /\ s \in Int /\ u <= b + s /\ b <= d
        BY <3>1, <3>2
      <4>. HIDE DEF u, b, d, s
      <4>2. u <= d + s
        BY <4>1
      <4>. QED BY <4>2 DEF u, d, s
    <3>. QED BY <1>1, <3>3 DEF Bounded
  <2>2. SetLimits'
    BY <1>1 DEF IInv, SetLimits
  <2>3. Counted' /\ Today' /\ Headroom'
    BY <1>1, <1>3 DEF IInv, Counted, Today, Headroom
  <2>. QED BY <2>1, <2>2, <2>3
<1>5. Compared'
  <2>1. \A c \in Callers : call[c].lim \in Int
    BY DEF IInv, TypeOK, Call
  <2>. QED BY <1>1, <2>1 DEF IInv, TypeOK, Compared
<1>6. LateAtRollBack' /\ RefusedOnlyWhenSpent'
  BY <1>1 DEF IInv, LateAtRollBack, RefusedOnlyWhenSpent, At
<1>. QED BY <1>2, <1>4, <1>5, <1>6 DEF IInv

\* Midnight, and steps that change nothing.
LEMMA OtherSteps == IInv /\ (Midnight \/ UNCHANGED vars) => IInv'
<1>. SUFFICES ASSUME IInv, Midnight \/ UNCHANGED vars PROVE IInv'
  OBVIOUS
<1>1. /\ UNCHANGED <<limit, count, limitDay, call, ceiling, used, stray>>
      /\ day' \in Nat
      /\ \/ admitted' = 0 /\ wiped' = FALSE
         \/ UNCHANGED <<admitted, wiped>>
  BY DEF IInv, TypeOK, Midnight, vars
<1>2. TypeOK' /\ Today'
  <2>1. /\ admitted' \in Nat /\ wiped' \in BOOLEAN
        /\ ~wiped' => admitted' <= used
    <3>1. CASE admitted' = 0 /\ wiped' = FALSE
      <4>1. admitted' \in Nat /\ admitted' <= used
        <5>1. admitted' = 0
          BY <3>1
        <5>. QED BY <5>1 DEF IInv, TypeOK
      <4>2. wiped' \in BOOLEAN
        BY <3>1
      <4>. QED BY <4>1, <4>2
    <3>2. CASE UNCHANGED <<admitted, wiped>>
      BY <3>2 DEF IInv, TypeOK, Today
    <3>. QED BY <1>1, <3>1, <3>2
  <2>. QED BY <1>1, <2>1 DEF IInv, TypeOK, Today
<1>3. Over' = Over
  BY <1>1 DEF Over, At
<1>4. Counted' /\ Bounded' /\ SetLimits' /\ Headroom'
  BY <1>1, <1>3 DEF IInv, Counted, Bounded, SetLimits, Headroom
<1>5. Compared' /\ LateAtRollBack' /\ RefusedOnlyWhenSpent'
  BY <1>1 DEF IInv, Compared, LateAtRollBack, RefusedOnlyWhenSpent, At
<1>. QED BY <1>2, <1>4, <1>5 DEF IInv

LEMMA Inductive == IInv /\ [Next]_vars => IInv'
<1>1. ASSUME IInv, NEW c \in Callers, LoadLimit(c) \/ Advance(c) PROVE IInv'
  BY <1>1, QuietSteps, ResetCountStep, AdmitStep, ExceedStep, RollBackStep DEF Advance
<1>2. ASSUME IInv, Next PROVE IInv'
  BY <1>1, <1>2, SetDailyLimitStep, OtherSteps DEF Next
<1>. QED BY <1>2, OtherSteps

LEMMA Invariance == Spec /\ Headroom => []IInv
<1>1. Init /\ Headroom => IInv
  BY Initially
<1>. QED BY <1>1, Inductive, PTL DEF Spec

-----------------------------------------------------------------------------
(* Results.                                                                *)

\* checkAndIncrementDaily, as the comment of SetDailyLimit promises: on a day
\* whose counter is not cleared under its own calls, no more calls are admitted
\* than the limit, for any number of concurrent callers the int32 has room for.
THEOREM WithinLimit == Spec /\ Headroom => []DayWithinLimit
<1>1. IInv => DayWithinLimit
  BY DEF IInv, TypeOK, Bounded, Today, DayWithinLimit
<1>. QED BY <1>1, Invariance, PTL

\* ErrDailyLimitExceeded is deserved: a caller is only refused when the lowest
\* limit was spent; callers that roll back do not refuse each other.
THEOREM RefusalsDeserved == Spec /\ Headroom => []RefusedOnlyWhenSpent
<1>1. IInv => RefusedOnlyWhenSpent
  BY DEF IInv
<1>. QED BY <1>1, Invariance, PTL

\* The client's atomics and the callers' locals stay in their sets, and no call
\* of doWithRetry is at an attempt beyond the last.
THEOREM TypeCorrect == Spec /\ Headroom => []TypeOK
<1>1. IInv => TypeOK
  BY DEF IInv
<1>. QED BY <1>1, Invariance, PTL
=============================================================================
