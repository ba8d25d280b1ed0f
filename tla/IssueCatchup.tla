---------------------------- MODULE IssueCatchup -----------------------------
(***************************************************************************)
(* The weekly catch-up (cmd/backfill in catchup mode) beside the webhook:  *)
(* both store rows of issues.  The job lists the issues most recently      *)
(* updated, page by page, then asks which ones have a row, and embeds and  *)
(* upserts the others from the list it fetched.                            *)
(*                                                                         *)
(* A version of an issue is the number of its changes, 0 when it does not  *)
(* exist.  Pull requests share the numbers and the list of the issues.     *)
(***************************************************************************)
EXTENDS Naturals, Sequences, SequencesExt

CONSTANTS
  Numbers,       \* issue and pull request numbers
  PullRequests,  \* those that are pull requests
  Jobs,          \* catch-up jobs that may run at once
  Limit,         \* BACKFILL_LIMIT
  PageSize,      \* issues GitHub returns per page (100)
  MaxChanges,    \* bound: issues opened and changed
  MaxFaults      \* bound: lost deliveries and failed calls

ASSUME PullRequestsAssumption == PullRequests \subseteq Numbers
ASSUME SizesAssumption == Limit \in Nat \ {0} /\ PageSize \in Nat \ {0}
ASSUME BoundsAssumption == MaxChanges \in Nat /\ MaxFaults \in Nat

VARIABLES
  version,   \* GitHub: the version of each issue
  listed,    \* GitHub: the issues, last updated first
  changes,   \* GitHub: changes so far
  flight,    \* deliveries, or their handlers, that have not written the row
  row,       \* issues: the version stored, 0 for no row
  pc,        \* what each job does next
  page,      \* the page it fetches next
  fetched,   \* the list it has fetched: numbers and versions
  existing,  \* the issues it found to have a row
  wrote,     \* history: the rows others wrote since each job looked for rows
  faults     \* history: lost deliveries and failed calls

github == <<version, listed, changes>>
job == <<pc, page, fetched, existing>>
vars == <<github, flight, row, job, wrote, faults>>

\* An issue as the API and the payloads show it.
Snapshot(n) == [number |-> n, version |-> version[n]]

Init ==
  /\ version = [n \in Numbers |-> 0] /\ listed = <<>> /\ changes = 0
  /\ flight = {}
  /\ row = [n \in Numbers |-> 0]
  /\ pc = [j \in Jobs |-> "idle"]
  /\ page = [j \in Jobs |-> 1]
  /\ fetched = [j \in Jobs |-> <<>>]
  /\ existing = [j \in Jobs |-> {}]
  /\ wrote = [j \in Jobs |-> {}]
  /\ faults = 0
-----------------------------------------------------------------------------
(* GitHub and the webhook.                                                 *)

\* The list without issue n, which is in it once at most.
Others(n) ==
  IF n \in Range(listed) THEN RemoveAt(listed, CHOOSE i \in DOMAIN listed : listed[i] = n)
  ELSE listed

\* n is opened or changed: it moves to the front of the list, and a delivery is
\* made.  The server subscribes to issues and not to pull requests.
Change(n) ==
  /\ changes < MaxChanges
  /\ changes' = changes + 1
  /\ version' = [version EXCEPT ![n] = @ + 1]
  /\ listed' = <<n>> \o Others(n)
  /\ flight' = IF n \in PullRequests THEN flight
               ELSE flight \cup {[number |-> n, version |-> version[n] + 1]}
  /\ UNCHANGED <<row, job, wrote, faults>>

\* A row is written, by a handler or a job, unseen by the jobs that have looked.
UpsertIssue(d, others) ==
  /\ row' = [row EXCEPT ![d.number] = d.version]
  /\ wrote' = [j \in Jobs |-> IF j \in others /\ pc[j] = "embed"
                              THEN wrote[j] \cup {d.number} ELSE wrote[j]]

\* The handler of a delivery has embedded the issue.
Deliver(d) ==
  /\ d \in flight
  /\ flight' = flight \ {d}
  /\ UpsertIssue(d, Jobs)
  /\ UNCHANGED <<github, job, faults>>

\* GitHub cannot deliver, the server restarts, or a call of the handler fails.
Lose(d) ==
  /\ d \in flight /\ faults < MaxFaults
  /\ faults' = faults + 1
  /\ flight' = flight \ {d}
  /\ UNCHANGED <<github, row, job, wrote>>
-----------------------------------------------------------------------------
(* runCatchup.                                                             *)

Start(j) ==
  /\ pc[j] = "idle"
  /\ pc' = [pc EXCEPT ![j] = "fetch"]
  /\ page' = [page EXCEPT ![j] = 1]
  /\ fetched' = [fetched EXCEPT ![j] = <<>>]
  /\ UNCHANGED <<github, flight, row, existing, wrote, faults>>

\* Mutant: the bound is passed by one.
AtMostInclusive(n, s) == SubSeq(s, 1, IF Len(s) =< n THEN Len(s) ELSE n + 1)

AtMost(n, s) == SubSeq(s, 1, IF Len(s) < n THEN Len(s) ELSE n)

\* fetchIssues asks for no more per page than it wants in all.
PerPage == IF Limit < PageSize THEN Limit ELSE PageSize

\* Page p of the list as it is now.
Page(p) == AtMost(PerPage, SubSeq(listed, (p - 1) * PerPage + 1, Len(listed)))

\* Mutant: a full page is taken for the last one.
FetchFirstPage(j) ==
  /\ pc[j] = "fetch"
  /\ LET got == Page(page[j])
         all == fetched[j] \o [i \in DOMAIN got |-> Snapshot(got[i])]
     IN /\ fetched' = [fetched EXCEPT ![j] = AtMost(Limit, all)]
        /\ pc' = [pc EXCEPT ![j] =
             IF Len(all) >= Limit \/ Len(got) =< PerPage THEN "existing" ELSE "fetch"]
  /\ page' = [page EXCEPT ![j] = @ + 1]
  /\ UNCHANGED <<github, flight, row, existing, wrote, faults>>

\* One page: the loop ends with the limit, or with a page that is not full.
FetchPage(j) ==
  /\ pc[j] = "fetch"
  /\ LET got == Page(page[j])
         all == fetched[j] \o [i \in DOMAIN got |-> Snapshot(got[i])]
     IN /\ fetched' = [fetched EXCEPT ![j] = AtMost(Limit, all)]
        /\ pc' = [pc EXCEPT ![j] =
             IF Len(all) >= Limit \/ Len(got) < PerPage THEN "existing" ELSE "fetch"]
  /\ page' = [page EXCEPT ![j] = @ + 1]
  /\ UNCHANGED <<github, flight, row, existing, wrote, faults>>

ExistingIssueNumbers(j) ==
  /\ pc[j] = "existing"
  /\ existing' = [existing EXCEPT ![j] = {n \in Numbers : row[n] # 0}]
  /\ wrote' = [wrote EXCEPT ![j] = {}]
  /\ pc' = [pc EXCEPT ![j] = "embed"]
  /\ UNCHANGED <<github, flight, row, page, fetched, faults>>

\* Either list cannot be read: the job exits.
Exit(j) ==
  /\ pc[j] \in {"fetch", "existing"} /\ faults < MaxFaults
  /\ faults' = faults + 1
  /\ pc' = [pc EXCEPT ![j] = "idle"]
  /\ UNCHANGED <<github, flight, row, page, fetched, existing, wrote>>

\* What is left of the list after its first issue.
Proceed(j) ==
  /\ fetched' = [fetched EXCEPT ![j] = Tail(@)]
  /\ UNCHANGED <<github, pc, page, existing>>

Skip(j) ==
  /\ pc[j] = "embed" /\ fetched[j] # <<>>
  /\ Head(fetched[j]).number \in existing[j]
  /\ Proceed(j)
  /\ UNCHANGED <<flight, row, wrote, faults>>

\* Mutant: rows that exist are not told apart.
MissingAny(j) == fetched[j] # <<>>

\* Whether the issue may still need a row.
Missing(j) == Head(fetched[j]).number \notin existing[j]

EmbedMissing(j) ==
  /\ pc[j] = "embed" /\ fetched[j] # <<>> /\ Missing(j)
  /\ UpsertIssue(Head(fetched[j]), Jobs \ {j})
  /\ Proceed(j)
  /\ UNCHANGED <<flight, faults>>

\* The embedding or the upsert fails: the job goes on with the next issue.
EmbedFails(j) ==
  /\ pc[j] = "embed" /\ fetched[j] # <<>> /\ Missing(j) /\ faults < MaxFaults
  /\ faults' = faults + 1
  /\ Proceed(j)
  /\ UNCHANGED <<flight, row, wrote>>

Finish(j) ==
  /\ pc[j] = "embed" /\ fetched[j] = <<>>
  /\ pc' = [pc EXCEPT ![j] = "idle"]
  /\ existing' = [existing EXCEPT ![j] = {}]
  /\ UNCHANGED <<github, flight, row, page, fetched, wrote, faults>>

\* What a job does when nothing fails.
Run(j) ==
  FetchPage(j) \/ ExistingIssueNumbers(j) \/ Skip(j) \/ EmbedMissing(j) \/ Finish(j)

Next ==
  \/ \E n \in Numbers : Change(n)
  \/ \E d \in flight : Deliver(d) \/ Lose(d)
  \/ \E j \in Jobs : Start(j) \/ Run(j) \/ Exit(j) \/ EmbedFails(j)

Spec == Init /\ [][Next]_vars

\* The job is started every week and runs; nothing is assumed of deliveries.
FairSpec == Spec /\ \A j \in Jobs : WF_vars(Start(j)) /\ WF_vars(Run(j))
-----------------------------------------------------------------------------
\* A job puts a row back to an older version only when, after that same job had
\* looked for rows, a handler or another job wrote the row: one that was there
\* when it looked is safe, although its list was fetched before and minutes ago.
CatchupRevertsOnlyByOverlap ==
  [][\A n \in Numbers : row'[n] < row[n] =>
       \/ flight' # flight
       \/ \E j \in Jobs : pc[j] = "embed" /\ fetched'[j] # fetched[j]
                           /\ n \in wrote[j]]_vars

\* An issue among the Limit last updated has a row in the end, also when every
\* one of its deliveries was lost.
MissedIssuesRecovered ==
  \A n \in Numbers :
    (\E i \in DOMAIN listed : listed[i] = n /\ i =< Limit)
      ~> (row[n] # 0 \/ \A i \in DOMAIN listed : i =< Limit => listed[i] # n)
=============================================================================
