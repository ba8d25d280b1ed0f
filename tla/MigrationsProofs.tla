--------------------------- MODULE MigrationsProofs ---------------------------
(***************************************************************************)
(* Theorems about Migrations, for any processes, files and sessions: with  *)
(* or without a pooler every file is applied once and in order, and no     *)
(* process serves before its schema is there.                              *)
(*                                                                         *)
(* Neither is a matter of the lock, which nothing below mentions: what a   *)
(* process has read as applied stays applied (ReadStays), so the first     *)
(* file it has left comes right after recorded ones, and a file is only    *)
(* recorded by the transaction that finds no row of it.                    *)
(***************************************************************************)
EXTENDS Migrations, TLAPS

\* What a process has read as applied is recorded.
ReadStays == \A p \in Procs : applied[p] \subseteq recorded

IInv == TypeOK /\ ReadStays /\ AppliedOnceInOrder /\ ServesMigrated

\* A file p can apply next is a file, and p has read all the files before it.
LEMMA NextFile ==
  ASSUME TypeOK, NEW p \in Procs, NEW f \in Files, IsNext(p, f)
  PROVE  \A g \in 1..f : g = f \/ g \in applied[p]
<1>1. f \in 1..Known[p] /\ Known[p] \in Nat
  BY KnownAssumption DEF IsNext, Pending
<1> SUFFICES ASSUME NEW g \in 1..f, g # f
             PROVE  g \in applied[p]
  OBVIOUS
<1>2. g \in 1..Known[p] /\ ~ (f =< g)
  BY <1>1
<1>3. g \notin Pending(p)
  BY <1>2 DEF IsNext
<1> QED
  BY <1>2, <1>3 DEF Pending

LEMMA InitIInv == Init => IInv
<1> SUFFICES ASSUME Init PROVE IInv
  OBVIOUS
<1>1. TypeOK
  BY PoolersAssumption DEF Init, TypeOK
<1>2. ReadStays /\ AppliedOnceInOrder /\ ServesMigrated
  BY DEF Init, ReadStays, AppliedOnceInOrder, ServesMigrated
<1> QED
  BY <1>1, <1>2 DEF IInv

\* The lock's counts stay counts.
LEMMA UnlockTyped ==
  ASSUME TypeOK, NEW p \in Procs, NEW s \in Sessions, Unlock(p, s)
  PROVE  held' \in [Sessions -> Nat]
<1>1. held[s] \in Nat /\ (held[s] # 0 => held[s] - 1 \in Nat)
  BY DEF TypeOK
<1> QED
  BY <1>1 DEF TypeOK, Unlock

\* Most steps leave the files and what was read of them alone; all they can
\* disturb is who serves.
LEMMA SameFiles ==
  ASSUME IInv, TypeOK', UNCHANGED <<recorded, runs, applied>>,
         \A p \in Procs : pc'[p] = "serving" =>
           pc[p] = "serving" \/ 1..Known[p] \subseteq recorded
  PROVE  IInv'
<1>1. ReadStays'
  BY DEF IInv, ReadStays
<1>2. AppliedOnceInOrder'
  BY DEF IInv, AppliedOnceInOrder
<1>3. ServesMigrated'
  BY DEF IInv, ServesMigrated
<1> QED
  BY <1>1, <1>2, <1>3 DEF IInv

LEMMA NextIInv == IInv /\ [Next]_vars => IInv'
<1> SUFFICES ASSUME IInv, [Next]_vars PROVE IInv'
  OBVIOUS
<1> USE DEF IInv
<1>1. ASSUME NEW p \in Procs, Boot(p) PROVE IInv'
  <2>1. TypeOK'
    BY <1>1 DEF TypeOK, Boot, database
  <2> QED
    BY <1>1, <2>1, SameFiles DEF TypeOK, Boot, database
<1>2. ASSUME NEW p \in Procs, NEW s \in Sessions, Lock(p, s) PROVE IInv'
  <2>1. TypeOK'
    BY <1>2 DEF TypeOK, Lock
  <2> QED
    BY <1>2, <2>1, SameFiles DEF TypeOK, Lock
<1>3. ASSUME NEW p \in Procs, ListApplied(p) PROVE IInv'
  <2>1. TypeOK'
    BY <1>3 DEF TypeOK, ListApplied, database
  <2>2. ReadStays'
    BY <1>3 DEF TypeOK, ReadStays, ListApplied, database
  <2>3. AppliedOnceInOrder' /\ ServesMigrated'
    BY <1>3 DEF TypeOK, AppliedOnceInOrder, ServesMigrated, ListApplied, database
  <2> QED
    BY <2>1, <2>2, <2>3
<1>4. ASSUME NEW p \in Procs, NEW f \in Files, Apply(p, f) PROVE IInv'
  <2>1. TypeOK'
    <3>1. runs[f] + 1 \in Nat
      BY DEF TypeOK
    <3> QED
      BY <1>4, <3>1 DEF TypeOK, Apply
  <2>2. ReadStays'
    BY <1>4 DEF TypeOK, ReadStays, Apply
  <2>3. 1..f \subseteq recorded \cup {f}
    BY <1>4, NextFile DEF Apply, ReadStays
  <2>4. AppliedOnceInOrder'
    <3>1. f \notin recorded /\ recorded' = recorded \cup {f}
      BY <1>4 DEF Apply
    <3>2. runs[f] = 0 /\ runs' = [runs EXCEPT ![f] = @ + 1]
      BY <1>4, <3>1 DEF Apply, AppliedOnceInOrder
    <3>3. ASSUME NEW g \in Files
          PROVE  runs'[g] = IF g \in recorded' THEN 1 ELSE 0
      BY <3>1, <3>2, <3>3 DEF TypeOK, AppliedOnceInOrder
    <3>4. ASSUME NEW g \in Files, g \in recorded'
          PROVE  1..g \subseteq recorded'
      BY <2>3, <3>1, <3>4 DEF AppliedOnceInOrder
    <3> QED
      BY <3>3, <3>4 DEF AppliedOnceInOrder
  <2>5. ServesMigrated'
    BY <1>4 DEF TypeOK, ServesMigrated, Apply
  <2> QED
    BY <2>1, <2>2, <2>4, <2>5
<1>5. ASSUME NEW p \in Procs, NEW f \in Files, NEW s \in Sessions, ApplyConflicts(p, f, s)
      PROVE  IInv'
  <2>1. TypeOK'
    BY <1>5, UnlockTyped DEF TypeOK, ApplyConflicts
  <2> QED
    BY <1>5, <2>1, SameFiles DEF TypeOK, ApplyConflicts
<1>6. ASSUME NEW p \in Procs, NEW s \in Sessions, StatementFails(p, s) PROVE IInv'
  <2>1. TypeOK'
    BY <1>6, UnlockTyped DEF TypeOK, StatementFails
  <2> QED
    BY <1>6, <2>1, SameFiles DEF TypeOK, StatementFails
<1>7. ASSUME NEW p \in Procs, NEW s \in Sessions, Finish(p, s) PROVE IInv'
  <2>1. TypeOK'
    BY <1>7, UnlockTyped DEF TypeOK, Finish
  <2>2. 1..Known[p] \subseteq recorded
    BY <1>7 DEF Finish, Pending, ReadStays
  <2> QED
    BY <1>7, <2>1, <2>2, SameFiles DEF TypeOK, Finish
<1>8. ASSUME NEW p \in Procs, Crash(p) PROVE IInv'
  <2>1. TypeOK'
    <3>1. held' \in [Sessions -> Nat]
      <4>1. CASE pooled
        BY <1>8, <4>1 DEF TypeOK, Crash
      <4>2. CASE ~pooled
        <5>1. held' = [held EXCEPT ![Own[p]] = 0]
          BY <1>8, <4>2 DEF Crash
        <5> QED
          BY <5>1 DEF TypeOK
      <4> QED
        BY <4>1, <4>2
    <3>2. crashes' \in Nat
      BY <1>8 DEF TypeOK, Crash
    <3>3. pc' \in [Procs -> {"down", "lock", "list", "apply", "serving"}]
      BY <1>8 DEF TypeOK, Crash
    <3> QED
      BY <1>8, <3>1, <3>2, <3>3 DEF TypeOK, Crash
  <2> QED
    BY <1>8, <2>1, SameFiles DEF TypeOK, Crash
<1>9. ASSUME NEW s \in Sessions, Recycle(s) PROVE IInv'
  <2>1. TypeOK'
    BY <1>9 DEF TypeOK, Recycle
  <2> QED
    BY <1>9, <2>1, SameFiles DEF Recycle
<1>10. CASE UNCHANGED vars
  <2>1. TypeOK'
    BY <1>10 DEF TypeOK, vars, database
  <2> QED
    BY <1>10, <2>1, SameFiles DEF vars, database
<1> QED
  BY <1>1, <1>2, <1>3, <1>4, <1>5, <1>6, <1>7, <1>8, <1>9, <1>10 DEF Next, Migrate

THEOREM Invariance == Spec => []IInv
  BY InitIInv, NextIInv, PTL DEF Spec

\* Every variable keeps its type: no session gives the lock back more often
\* than it took it.
THEOREM TypeCorrect == Spec => []TypeOK
<1>1. IInv => TypeOK
  BY DEF IInv
<1> QED
  BY <1>1, Invariance, PTL

\* Migrate and migrateFS: every file is committed at most once, after all the
\* files before it, whatever the lock excludes and however often processes end.
THEOREM OnceInOrder == Spec => []AppliedOnceInOrder
<1>1. IInv => AppliedOnceInOrder
  BY DEF IInv
<1> QED
  BY <1>1, Invariance, PTL

\* main serves only after Migrate has returned without an error: all the files
\* the process was built with are then recorded, by whichever process.
THEOREM NeverServesEarly == Spec => []ServesMigrated
<1>1. IInv => ServesMigrated
  BY DEF IInv
<1> QED
  BY <1>1, Invariance, PTL
=============================================================================
