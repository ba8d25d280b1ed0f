---------------------------- MODULE UpstreamWatch ----------------------------
(***************************************************************************)
(* The watcher of upstream releases: a request to /upstream-watch goes     *)
(* through the upstream repositories of a consumer repository, journals    *)
(* the releases the journal does not know, embeds their notes as documents *)
(* and compares them with the consumer's blocked issues.  Sources:         *)
(* internal/upstream/electron.go, cmd/server/upstream.go,                  *)
(* internal/store/events.go, internal/ingest/embed.go and the cleanup at   *)
(* the start of cmd/server/main.go.                                        *)
(*                                                                         *)
(* One consumer repository: rows of other repositories are not read.  A    *)
(* release is its upstream repository and its tag, and tags are numbered   *)
(* as they are published.  What a comparison finds is left out: it is part *)
(* of the answer and of no state.  Requests overlap: the daily cron gives  *)
(* up after 30 seconds and tries again, and anyone may dispatch it.        *)
(***************************************************************************)
EXTENDS Naturals, Sequences, FiniteSets

CONSTANTS
  Requests,    \* requests to /upstream-watch
  Upstreams,   \* upstream repositories
  TargetLists, \* what butler.json and the installations may make of them
  MaxTag,      \* bound: tags
  LookN,       \* releases fetched from an upstream
  Window,      \* days a journaled release is looked for
  Retention,   \* days an event is kept
  MaxDay,      \* bound: days
  MaxFaults    \* bound: calls that fail

ASSUME SizesAssumption ==
  /\ MaxTag \in Nat /\ LookN \in Nat /\ MaxDay \in Nat /\ MaxFaults \in Nat
  /\ TargetLists \subseteq Seq(Upstreams)

\* The journal is kept at least as long as it is looked through: the two
\* durations are constants of two packages (180 days each).
ASSUME RetentionAssumption ==
  Window \in Nat /\ Retention \in Nat /\ Window <= Retention

VARIABLES
  published,  \* published[u]: the tags upstream u has released
  today,
  journal,    \* rows of repo_events of type upstream_release
  docs,       \* titles of documents of type upstream_release
  run,        \* run[r]: what request r is doing
  faults,     \* calls that failed so far
  (* history *)
  announced,  \* every event that was ever journaled
  before,     \* before[r]: requests that had ended when r started
  listed,     \* listed[r]: releases GitHub returned to r
  masked,     \* masked[r]: of those, releases r found journaled for another upstream
  compared    \* events whose release was compared with the blocked issues

vars == <<published, today, journal, docs, run, faults, announced, before,
          listed, masked, compared>>

Tags == 1..MaxTag
Days == 0..MaxDay

\* An event stems from the request that recorded it and has the day it was
\* created on.
Event == [by : Requests, up : Upstreams, tag : Tags, at : Days]

\* targets: upstreams still to do, the current one first; todo: its releases
\* the current loop has not come to; fresh: the releases Sync found new; day:
\* when it looked; failed: an embedding failed; errors: the upstreams whose
\* result carries an error.
Working == {"fetch", "list", "record", "embed", "compare"}
Ended == {"answered", "killed"}
Run == [pc : {"unsent"} \cup Working \cup Ended, targets : Seq(Upstreams),
        todo : SUBSET Tags, fresh : SUBSET Tags, day : Days, failed : BOOLEAN,
        errors : SUBSET Upstreams]

Unsent == [pc |-> "unsent", targets |-> <<>>, todo |-> {}, fresh |-> {},
           day |-> 0, failed |-> FALSE, errors |-> {}]

At(r, step) == run[r].pc = step
Active(r) == run[r].pc \in Working
Target(r) == Head(run[r].targets)

Newest(t, S) == t \in S /\ \A s \in S : s <= t

\* GetLatestReleases: the newest LookN of them.
Latest(u) == {t \in published[u] :
                Cardinality({s \in published[u] : s > t}) < LookN}

\* Mutant: only the newest visible event is asked for, as a watermark.
KnownByWatermark ==
  {t \in Tags : \E f \in journal : today <= f.at + Window /\ t <= f.tag}

\* ListEvents with since = now - window; its limit of 1000 rows is not reached by
\* the releases of half a year.
Visible == {f \in journal : today <= f.at + Window}

\* seen: whatever upstream an event is of, only its tag is looked at.
Known == {e.tag : e \in Visible}

-----------------------------------------------------------------------------

Goto(r, step, todo) == run' = [run EXCEPT ![r].pc = step, ![r].todo = todo]

\* Mutant: the end of the list of targets is not noticed.
AlwaysFetch(r, failed) ==
  run' = [run EXCEPT
            ![r].targets = Tail(@), ![r].pc = "fetch",
            ![r].todo = {}, ![r].fresh = {}, ![r].failed = FALSE,
            ![r].errors = IF failed THEN @ \cup {Target(r)} ELSE @]

\* The result of the current target is appended and the next one begins; after
\* the last one the results are the answer.
NextTarget(r, failed) ==
  run' = [run EXCEPT
            ![r].targets = Tail(@),
            ![r].pc = IF Tail(run[r].targets) = <<>> THEN "answered" ELSE "fetch",
            ![r].todo = {}, ![r].fresh = {}, ![r].failed = FALSE,
            ![r].errors = IF failed THEN @ \cup {Target(r)} ELSE @]

\* A loop over the releases goes on, or leads to the next step.
Loop(r, t, next, todo) ==
  IF run[r].todo = {t} THEN Goto(r, next, todo)
                       ELSE Goto(r, run[r].pc, run[r].todo \ {t})

Fault == faults < MaxFaults /\ faults' = faults + 1

Recorded(r, t) == [by |-> r, up |-> Target(r), tag |-> t, at |-> today]

Insert(e) == journal' = journal \cup {e} /\ announced' = announced \cup {e}
-----------------------------------------------------------------------------

Init ==
  /\ published = [u \in Upstreams |-> {}]
  /\ today = 0 /\ journal = {} /\ docs = {} /\ faults = 0
  /\ run = [r \in Requests |-> Unsent]
  /\ announced = {} /\ compared = {}
  /\ before = [r \in Requests |-> {}]
  /\ listed = [r \in Requests |-> {}] /\ masked = [r \in Requests |-> {}]

Publish(u, t) ==
  /\ \A s \in published[u] : s < t
  /\ published' = [published EXCEPT ![u] = @ \cup {t}]
  /\ UNCHANGED <<today, journal, docs, run, faults, announced, before, listed,
                 masked, compared>>

DayPasses ==
  /\ today < MaxDay /\ today' = today + 1
  /\ UNCHANGED <<published, journal, docs, run, faults, announced, before,
                 listed, masked, compared>>

\* Mutant: events are kept a day less than they are looked for.
CleanupTooEarly ==
  /\ journal' = {e \in journal : today < e.at + Retention}
  /\ UNCHANGED <<published, today, docs, run, faults, announced, before, listed,
                 masked, compared>>

\* A new revision of the service starts; requests to the old one go on.
CleanupOldEvents ==
  /\ journal' = {e \in journal : today <= e.at + Retention}
  /\ UNCHANGED <<published, today, docs, run, faults, announced, before, listed,
                 masked, compared>>

\* A request arrives and resolves its targets.
Start(r, targets) ==
  /\ At(r, "unsent")
  /\ run' = [run EXCEPT ![r].targets = targets,
                        ![r].pc = IF targets = <<>> THEN "answered" ELSE "fetch"]
  /\ before' = [before EXCEPT ![r] = {q \in Requests : run[q].pc \in Ended}]
  /\ UNCHANGED <<published, today, journal, docs, faults, announced, listed,
                 masked, compared>>

GetLatestReleases(r) ==
  /\ At(r, "fetch")
  /\ Goto(r, "list", Latest(Target(r)))
  /\ listed' = [listed EXCEPT ![r] = @ \cup ({Target(r)} \X Latest(Target(r)))]
  /\ UNCHANGED <<published, today, journal, docs, faults, announced, before,
                 masked, compared>>

\* A release is fresh when no visible event has its tag.
ListEvents(r) ==
  /\ At(r, "list")
  /\ LET fresh == run[r].todo \ Known
     IN IF fresh = {}
        THEN NextTarget(r, FALSE)
        ELSE run' = [run EXCEPT ![r].pc = "record", ![r].todo = fresh,
                                ![r].fresh = fresh, ![r].day = today]
  /\ masked' = [masked EXCEPT ![r] = @ \cup
                  {<<Target(r), t>> : t \in {x \in run[r].todo :
                     \E f \in Visible : f.tag = x /\ f.up # Target(r)}}]
  /\ UNCHANGED <<published, today, journal, docs, faults, announced, before,
                 listed, compared>>

\* One INSERT of RecordEvents.
RecordEvent(r, t) ==
  /\ At(r, "record") /\ Newest(t, run[r].todo)
  /\ Insert(Recorded(r, t))
  /\ Loop(r, t, "embed", run[r].fresh)
  /\ UNCHANGED <<published, today, docs, faults, before, listed, masked, compared>>

\* It fails: nothing of the rest is recorded, and nothing embedded.  The row
\* may have been written all the same.
RecordEventFails(r, t) ==
  /\ At(r, "record") /\ Newest(t, run[r].todo) /\ Fault
  /\ \/ Insert(Recorded(r, t))
     \/ UNCHANGED <<journal, announced>>
  /\ NextTarget(r, TRUE)
  /\ UNCHANGED <<published, today, docs, before, listed, masked, compared>>

\* Mutant: only the last embedding's error counts.
LastErrorOnly(r, t, failed) ==
  IF run[r].todo = {t}
  THEN IF failed THEN NextTarget(r, TRUE) ELSE Goto(r, "compare", run[r].fresh)
  ELSE Goto(r, "embed", run[r].todo \ {t})

\* Once every fresh release was tried: the comparison, or Sync's joined errors.
AfterEmbedding(r, t, failed) ==
  IF run[r].todo = {t}
  THEN IF failed THEN NextTarget(r, TRUE) ELSE Goto(r, "compare", run[r].fresh)
  ELSE run' = [run EXCEPT ![r].todo = @ \ {t}, ![r].failed = failed]

UpsertEmbedded(r, t) ==
  /\ At(r, "embed") /\ Newest(t, run[r].todo)
  /\ docs' = docs \cup {t}
  /\ AfterEmbedding(r, t, run[r].failed)
  /\ UNCHANGED <<published, today, journal, faults, announced, before, listed,
                 masked, compared>>

\* The embedding, the upsert or, after it, a cross-reference failed.
UpsertFails(r, t) ==
  /\ At(r, "embed") /\ Newest(t, run[r].todo) /\ Fault
  /\ docs' \in {docs, docs \cup {t}}
  /\ AfterEmbedding(r, t, TRUE)
  /\ UNCHANGED <<published, today, journal, announced, before, listed, masked, compared>>

\* The notes of one release against the blocked issues.
CrossReference(r, t) ==
  /\ At(r, "compare") /\ Newest(t, run[r].todo)
  /\ compared' = compared \cup {e \in announced :
                                  e.by = r /\ e.up = Target(r) /\ e.tag = t}
  /\ IF run[r].todo = {t} THEN NextTarget(r, FALSE)
                          ELSE Goto(r, "compare", run[r].todo \ {t})
  /\ UNCHANGED <<published, today, journal, docs, faults, announced, before,
                 listed, masked>>

\* A failed call outside the loops' upserts: the target's matches are dropped.
CallFails(r) ==
  /\ run[r].pc \in {"fetch", "list", "compare"} /\ Fault
  /\ NextTarget(r, TRUE)
  /\ UNCHANGED <<published, today, journal, docs, announced, before, listed,
                 masked, compared>>

\* The process ends under the request.
Kill(r) ==
  /\ Active(r) /\ Goto(r, "killed", {})
  /\ UNCHANGED <<published, today, journal, docs, faults, announced, before,
                 listed, masked, compared>>

Sync(r) ==
  \/ GetLatestReleases(r) \/ ListEvents(r)
  \/ \E t \in Tags : \/ RecordEvent(r, t) \/ RecordEventFails(r, t)
                     \/ UpsertEmbedded(r, t) \/ UpsertFails(r, t)

Next ==
  \/ \E u \in Upstreams, t \in Tags : Publish(u, t)
  \/ DayPasses \/ CleanupOldEvents
  \/ \E r \in Requests :
       \/ \E targets \in TargetLists : Start(r, targets)
       \/ Sync(r)
       \/ \E t \in Tags : CrossReference(r, t)
       \/ CallFails(r) \/ Kill(r)

Spec == Init /\ [][Next]_vars

-----------------------------------------------------------------------------

\* Every variable keeps its type; a request at work has a target.
TypeOK ==
  /\ published \in [Upstreams -> SUBSET Tags] /\ today \in Days
  /\ journal \subseteq announced /\ announced \subseteq Event
  /\ compared \subseteq announced /\ docs \subseteq Tags
  /\ run \in [Requests -> Run] /\ faults \in 0..MaxFaults
  /\ \A r \in Requests : Active(r) => run[r].targets # <<>>
  /\ before \in [Requests -> SUBSET Requests]
  /\ listed \in [Requests -> SUBSET (Upstreams \X Tags)]
  /\ masked \in [Requests -> SUBSET (Upstreams \X Tags)]

Overlap(r, q) == r # q /\ r \notin before[q] /\ q \notin before[r]

\* A release comes into the journal twice within the window only by two
\* requests that overlapped: whatever failed, was cleaned up or was repeated,
\* the list a request reads keeps it from recording what an earlier one has.
RepeatsOnlyByOverlap ==
  \A e, f \in announced :
    (e # f /\ e.tag = f.tag /\ e.at <= f.at /\ f.at <= e.at + Window)
      => Overlap(e.by, f.by)

\* A release that went into the journal and whose notes did not reach the
\* store, or were never compared with the blocked issues, is no silent loss:
\* its request was cut short or has answered with an error for that upstream.
\* (The journal keeps every later request from making up for it.)
LossIsReported ==
  \A e \in announced :
    (e.tag \notin docs \/ e \notin compared)
      => \/ Active(e.by) \/ At(e.by, "killed")
         \/ e.up \in run[e.by].errors

\* A request that answered without an error for an upstream leaves nothing
\* behind: every release it was shown, of that upstream and with that tag, is
\* in the journal, whichever request had failed or was killed halfway through
\* the same list before.  Sync misses one kind of release, and no other: one
\* whose tag the list of events it read had from another upstream.
AnswerIsComplete ==
  \A r \in Requests : At(r, "answered") =>
    \A u \in Upstreams, t \in Tags : <<u, t>> \in listed[r] =>
      \/ u \in run[r].errors
      \/ \E e \in announced : e.up = u /\ e.tag = t
      \/ <<u, t>> \in masked[r]

=============================================================================
