----------------------------- MODULE Migrations ------------------------------
(***************************************************************************)
(* Schema migrations at the start of a process: processes of old and new   *)
(* revisions start at once, take an advisory lock of the database on one   *)
(* connection, and apply the files they know, in order, one transaction    *)
(* per file, on other connections.                                         *)
(*                                                                         *)
(* The lock belongs to a session of the database.  Over a transaction      *)
(* pooler (terraform/main.tf:63 calls the database URL a pooler's) every   *)
(* statement may run in another session: the lock then neither excludes a  *)
(* process that is given the same session nor is released for certain, and *)
(* what keeps the migrations right is the primary key of their table.      *)
(***************************************************************************)
EXTENDS Integers

CONSTANTS
  Procs,      \* processes
  Known,      \* Known[p]: the number of migration files p was built with
  Sessions,   \* database sessions of the pooler
  Own,        \* Own[p]: p's connection, when there is no pooler
  Poolers,    \* whether there is a pooler (a set of BOOLEAN)
  MaxCrashes  \* bound: crashes and failed statements

ASSUME KnownAssumption == Known \in [Procs -> Nat]
ASSUME OwnAssumption ==
  /\ Own \in [Procs -> Sessions]
  /\ \A p, q \in Procs : Own[p] = Own[q] => p = q
ASSUME PoolersAssumption == Poolers \subseteq BOOLEAN
ASSUME MaxCrashesAssumption == MaxCrashes \in Nat

VARIABLES
  pooled,    \* whether the URL is a pooler's
  held,      \* how many times each session holds the advisory lock
  recorded,  \* schema_migrations: the files recorded as applied
  runs,      \* how often the statements of each file were committed
  pc,        \* what each process does next
  applied,   \* the files it read as applied
  crashes    \* crashes and failed statements so far

database == <<held, recorded, runs>>
vars == <<pooled, database, pc, applied, crashes>>

\* Migration files, in the order of their names.
Files == UNION {1..Known[p] : p \in Procs}

\* The files p has left; the first of them is applied next.
Pending(p) == {f \in 1..Known[p] : f \notin applied[p]}

\* Mutant: the file names are not sorted.
IsNextUnsorted(p, f) == f \in Pending(p)

IsNext(p, f) == f \in Pending(p) /\ \A g \in Pending(p) : f =< g

\* The session a statement of p outside a transaction runs in.
Runs(p, s) == pooled \/ s = Own[p]

Init ==
  /\ pooled \in Poolers
  /\ held = [s \in Sessions |-> 0]
  /\ recorded = {} /\ runs = [f \in Files |-> 0]
  /\ pc = [p \in Procs |-> "down"]
  /\ applied = [p \in Procs |-> {}]
  /\ crashes = 0
-----------------------------------------------------------------------------
Boot(p) ==
  /\ pc[p] = "down"
  /\ pc' = [pc EXCEPT ![p] = "lock"]
  /\ UNCHANGED <<pooled, database, applied, crashes>>

\* pg_advisory_lock waits for every other session, and not for its own.
Lock(p, s) ==
  /\ pc[p] = "lock" /\ Runs(p, s)
  /\ \A t \in Sessions \ {s} : held[t] = 0
  /\ held' = [held EXCEPT ![s] = @ + 1]
  /\ pc' = [pc EXCEPT ![p] = "list"]
  /\ UNCHANGED <<pooled, recorded, runs, applied, crashes>>

\* schema_migrations is created if it is not there, and read.
ListApplied(p) ==
  /\ pc[p] = "list"
  /\ applied' = [applied EXCEPT ![p] = recorded]
  /\ pc' = [pc EXCEPT ![p] = "apply"]
  /\ UNCHANGED <<pooled, database, crashes>>

\* One transaction: the statements of the file and its row.
Apply(p, f) ==
  /\ pc[p] = "apply" /\ IsNext(p, f) /\ f \notin recorded
  /\ recorded' = recorded \cup {f}
  /\ runs' = [runs EXCEPT ![f] = @ + 1]
  /\ applied' = [applied EXCEPT ![p] = @ \cup {f}]
  /\ UNCHANGED <<pooled, held, pc, crashes>>

\* Mutant: nothing is given back.
UnlockNothing(p, s) == held' = held /\ Runs(p, s)

\* Mutant: a session can owe the lock.
UnlockTwice(p, s) ==
  /\ Runs(p, s)
  /\ held' = [held EXCEPT ![s] = @ - 1]

\* pg_advisory_unlock gives back what its own session holds, if anything; a
\* failure is logged.
Unlock(p, s) ==
  /\ Runs(p, s)
  /\ held' = [held EXCEPT ![s] = IF @ = 0 THEN 0 ELSE @ - 1]

\* Mutant: a conflict ends the migration and not the process.
ApplyConflictIgnored(p, f, s) ==
  /\ pc[p] = "apply" /\ IsNext(p, f) /\ f \in recorded
  /\ Unlock(p, s)
  /\ pc' = [pc EXCEPT ![p] = "serving"]
  /\ UNCHANGED <<pooled, recorded, runs, applied, crashes>>

\* Another process has recorded the file: the transaction waits for that one,
\* finds the key or an object it creates, and is rolled back.  Migrate returns
\* the error, unlocks, and main exits.
ApplyConflicts(p, f, s) ==
  /\ pc[p] = "apply" /\ IsNext(p, f) /\ f \in recorded
  /\ Unlock(p, s)
  /\ pc' = [pc EXCEPT ![p] = "down"]
  /\ UNCHANGED <<pooled, recorded, runs, applied, crashes>>

StatementFails(p, s) ==
  /\ pc[p] \in {"list", "apply"} /\ crashes < MaxCrashes
  /\ crashes' = crashes + 1
  /\ Unlock(p, s)
  /\ pc' = [pc EXCEPT ![p] = "down"]
  /\ UNCHANGED <<pooled, recorded, runs, applied>>

Finish(p, s) ==
  /\ pc[p] = "apply" /\ Pending(p) = {}
  /\ Unlock(p, s)
  /\ pc' = [pc EXCEPT ![p] = "serving"]
  /\ UNCHANGED <<pooled, recorded, runs, applied, crashes>>

\* The process ends, or Cloud Run replaces it.  Its connection goes with it,
\* and the lock; the pooler keeps its sessions.
Crash(p) ==
  /\ pc[p] # "down" /\ crashes < MaxCrashes
  /\ crashes' = crashes + 1
  /\ pc' = [pc EXCEPT ![p] = "down"]
  /\ held' = IF pooled THEN held ELSE [held EXCEPT ![Own[p]] = 0]
  /\ UNCHANGED <<pooled, recorded, runs, applied>>

\* The pooler closes a session when it has been used for long enough.
Recycle(s) ==
  /\ pooled /\ held[s] > 0
  /\ held' = [held EXCEPT ![s] = 0]
  /\ UNCHANGED <<pooled, recorded, runs, pc, applied, crashes>>

\* What p does when nothing fails.
Migrate(p) ==
  \/ Boot(p)
  \/ ListApplied(p)
  \/ \E f \in Files : Apply(p, f)
  \/ \E s \in Sessions : Finish(p, s) \/ \E f \in Files : ApplyConflicts(p, f, s)

Next ==
  \/ \E p \in Procs :
       \/ Migrate(p)
       \/ \E s \in Sessions : Lock(p, s) \/ StatementFails(p, s)
       \/ Crash(p)
  \/ \E s \in Sessions : Recycle(s)

Spec == Init /\ [][Next]_vars

\* Cloud Run starts a process again, the process runs, and the database grants
\* the lock to those that wait for it.
FairSpec ==
  /\ Spec
  /\ \A p \in Procs : WF_vars(Migrate(p)) /\ SF_vars(\E s \in Sessions : Lock(p, s))
-----------------------------------------------------------------------------
\* Every variable keeps its type.
TypeOK ==
  /\ pooled \in BOOLEAN
  /\ held \in [Sessions -> Nat]
  /\ recorded \subseteq Files /\ runs \in [Files -> Nat]
  /\ pc \in [Procs -> {"down", "lock", "list", "apply", "serving"}]
  /\ applied \in [Procs -> SUBSET Files]
  /\ crashes \in Nat

\* Every file is applied at most once, after all the files before it, and what
\* is recorded is what was applied: with or without a lock that excludes, also
\* when an old and a new revision migrate at once and crash in between.
AppliedOnceInOrder ==
  \A f \in Files :
    /\ runs[f] = IF f \in recorded THEN 1 ELSE 0
    /\ f \in recorded => 1..f \subseteq recorded

\* No process serves before the schema it was built for is there.
ServesMigrated == \A p \in Procs : pc[p] = "serving" => 1..Known[p] \subseteq recorded

\* Without a pooler every process gets to serve: neither a crash nor a failed
\* migration leaves the lock behind.
StartsServing == \A p \in Procs : ~pooled => <>[](pc[p] = "serving")
=============================================================================
